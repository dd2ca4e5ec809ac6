-------------------------- MODULE ThreadPool_proofs --------------------------
(***************************************************************************)
(* Proofs about ThreadPool, for any workers, callers and number of tasks.  *)
(***************************************************************************)
EXTENDS ThreadPool, TLAPS

Types ==
  /\ tasks \in Seq(Nat) /\ started \in Seq(Nat)
  /\ enqueued \in Nat /\ finished \subseteq Nat
  /\ stop \in BOOLEAN
  /\ mutex \in Workers \cup Callers \cup {Nobody}
  /\ worker \in [Workers -> {"loop", "parking", "waiting", "running", "ended"}]
  /\ job \in [Workers -> Nat]
  /\ caller \in [Callers -> {"idle", "checked", "notify"}]
  /\ dtor \in {"no", "stopped", "joining", "joined"}

(* The tasks taken and the tasks in the queue are numbered through. *)
Numbered ==
  /\ Len(started) + Len(tasks) = enqueued
  /\ \A n \in 1..Len(started) : started[n] = n
  /\ \A n \in 1..Len(tasks) : tasks[n] = Len(started) + n

(* The mutex belongs to the caller between test and push, or to the worker *)
(* between test and wait.                                                  *)
Exclusion ==
  /\ \A c \in Callers : caller[c] = "checked" <=> mutex = c
  /\ \A w \in Workers : worker[w] = "parking" <=> mutex = w

(* A task that was taken has returned or is being run. *)
TakenIsRun ==
  \A n \in Nat :
    n \in 1..Len(started) <=> n \in finished \/ \E w \in Workers : worker[w] = "running" /\ job[w] = n

(* A worker ends when nothing is left and nobody can add anything. *)
Ending ==
  /\ \A w \in Workers : worker[w] = "ended" =>
       stop /\ tasks = <<>> /\ \A c \in Callers : caller[c] # "checked"
  /\ dtor = "joined" => \A w \in Workers : worker[w] = "ended"

PoolInv == Types /\ Numbered /\ Exclusion /\ TakenIsRun /\ Ending

(* The first state: an empty queue and all workers in their loops. *)
LEMMA InitInv == PoolInit => PoolInv
<1> USE PoolAssumption DEF PoolInit
<1>1. PoolInit => Types
  <2>1. PoolInit => tasks \in Seq(Nat) /\ started \in Seq(Nat) /\ enqueued \in Nat
    OBVIOUS
  <2>2. PoolInit => worker \in [Workers -> {"loop", "parking", "waiting", "running", "ended"}]
    OBVIOUS
  <2>3. PoolInit => job \in [Workers -> Nat] /\ caller \in [Callers -> {"idle", "checked", "notify"}]
    OBVIOUS
  <2>4. PoolInit => finished \subseteq Nat /\ stop \in BOOLEAN
    OBVIOUS
  <2>5. PoolInit => mutex \in Workers \cup Callers \cup {Nobody} /\ dtor \in {"no", "stopped", "joining", "joined"}
    OBVIOUS
  <2>6. QED
    BY <2>1, <2>2, <2>3, <2>4, <2>5, Zenon DEF Types
<1>2. PoolInit => Exclusion
  BY DEF Exclusion
<1>3. PoolInit => Ending
  BY DEF Ending
<1>4. PoolInit => Numbered /\ TakenIsRun
  BY DEF Numbered, TakenIsRun
<1>5. QED
  BY <1>1, <1>2, <1>3, <1>4 DEF PoolInv

(* A worker that has the mutex takes the first task, or ends. *)
LEMMA TakeStep ==
  ASSUME PoolInv, NEW w \in Workers, TakeTask(w)
  PROVE  PoolInv'
<1> USE PoolAssumption DEF PoolInv, Types, Exclusion, Ending
<1>1. CASE tasks = <<>>
  <2>1. /\ worker' = [worker EXCEPT ![w] = "ended"] /\ stop
        /\ UNCHANGED <<tasks, job, started, stop, mutex, caller, dtor, enqueued, finished>>
    BY <1>1 DEF TakeTask
  <2>2. Types' /\ Exclusion' /\ Ending'
    BY <1>1, <2>1 DEF TakeTask
  <2>3. Numbered'
    BY <2>1 DEF Numbered
  <2>4. TakenIsRun'
    BY <2>1 DEF TakenIsRun, TakeTask
  <2>5. QED
    BY <2>2, <2>3, <2>4
<1>2. CASE tasks # <<>>
  <2>1. /\ worker' = [worker EXCEPT ![w] = "running"] /\ worker[w] = "loop"
        /\ job' = [job EXCEPT ![w] = Head(tasks)]
        /\ tasks' = Tail(tasks) /\ started' = Append(started, Head(tasks))
        /\ UNCHANGED <<stop, mutex, caller, dtor, enqueued, finished>>
    BY <1>2 DEF TakeTask
  <2>2. Head(tasks) = Len(started) + 1 /\ Head(tasks) \in Nat
    BY <1>2 DEF Numbered
  <2>3. /\ tasks' \in Seq(Nat) /\ started' \in Seq(Nat)
        /\ Len(tasks') = Len(tasks) - 1 /\ Len(started') = Len(started) + 1
        /\ \A n \in 1..Len(tasks') : tasks'[n] = tasks[n + 1]
        /\ \A n \in 1..Len(started) : started'[n] = started[n]
        /\ started'[Len(started) + 1] = Len(started) + 1
    BY <1>2, <2>1, <2>2
  <2>4. Types' /\ Exclusion' /\ Ending'
    BY <1>2, <2>1, <2>2, <2>3
  <2>5. Numbered'
    <3>1. ASSUME NEW n \in 1..Len(started') PROVE started'[n] = n
      <4>1. CASE n \in 1..Len(started)
        BY <2>3, <4>1 DEF Numbered
      <4>2. CASE n = Len(started) + 1
        BY <2>3, <4>2
      <4>3. QED
        BY <2>3, <4>1, <4>2
    <3>2. \A n \in 1..Len(tasks') : tasks'[n] = Len(started') + n
      BY <2>3 DEF Numbered
    <3>3. Len(started') + Len(tasks') = enqueued'
      BY <2>1, <2>3 DEF Numbered
    <3>4. QED
      BY <3>1, <3>2, <3>3 DEF Numbered
  <2>6. TakenIsRun'
    <3> SUFFICES ASSUME NEW n \in Nat
                 PROVE  n \in 1..Len(started') <=>
                          n \in finished \/ \E v \in Workers : worker'[v] = "running" /\ job'[v] = n
      BY <2>1 DEF TakenIsRun
    <3>1. worker'[w] = "running" /\ job'[w] = Len(started) + 1
      BY <2>1, <2>2
    <3>2. \A v \in Workers \ {w} : worker'[v] = worker[v] /\ job'[v] = job[v]
      BY <2>1
    <3>3. n \in 1..Len(started') <=> n \in 1..Len(started) \/ n = Len(started) + 1
      BY <2>3
    <3>4. QED
      BY <2>1, <3>1, <3>2, <3>3 DEF TakenIsRun
  <2>7. QED
    BY <2>4, <2>5, <2>6
<1>3. QED
  BY <1>1, <1>2

(* A task returns. *)
LEMMA ReturnStep ==
  ASSUME PoolInv, NEW w \in Workers, Return(w)
  PROVE  PoolInv'
<1> USE PoolAssumption DEF PoolInv, Types, Return
<1>1. Types'
  OBVIOUS
<1>2. Numbered' /\ Exclusion' /\ Ending'
  BY DEF Numbered, Exclusion, Ending
<1>3. TakenIsRun'
  <2>1. /\ finished' = finished \cup {job[w]} /\ worker[w] = "running" /\ worker'[w] = "loop"
        /\ \A v \in Workers \ {w} : worker'[v] = worker[v] /\ job'[v] = job[v]
        /\ started' = started
    OBVIOUS
  <2>2. QED
    BY <2>1 DEF TakenIsRun
<1>4. QED
  BY <1>1, <1>2, <1>3

(* A caller pushes its task with the mutex held, so no worker has ended. *)
LEMMA PushStep ==
  ASSUME PoolInv, NEW c \in Callers, EnqueuePush(c)
  PROVE  PoolInv'
<1> USE PoolAssumption DEF PoolInv, Types, EnqueuePush
<1>1. /\ tasks' \in Seq(Nat) /\ Len(tasks') = Len(tasks) + 1
      /\ \A n \in 1..Len(tasks) : tasks'[n] = tasks[n]
      /\ tasks'[Len(tasks) + 1] = enqueued + 1
  OBVIOUS
<1>2. Types' /\ Exclusion' /\ Ending'
  BY <1>1 DEF Exclusion, Ending
<1>3. Numbered'
  <2>0. /\ Len(started) \in Nat /\ Len(tasks) \in Nat /\ Len(started) + Len(tasks) = enqueued
        /\ \A n \in 1..Len(tasks) : tasks[n] = Len(started) + n
        /\ \A n \in 1..Len(started) : started[n] = n
        /\ started' = started /\ enqueued' = enqueued + 1
    BY DEF Numbered
  <2> HIDE DEF PoolInv, Types, EnqueuePush
  <2>1. ASSUME NEW n \in 1..Len(tasks') PROVE tasks'[n] = Len(started') + n
    <3>1. CASE n \in 1..Len(tasks)
      BY <1>1, <2>0, <3>1
    <3>2. CASE n = Len(tasks) + 1
      BY <1>1, <2>0, <3>2
    <3>3. QED
      BY <1>1, <2>0, <3>1, <3>2
  <2>2. Len(started') + Len(tasks') = enqueued'
    BY <1>1, <2>0
  <2>3. QED
    BY <2>0, <2>1, <2>2 DEF Numbered
<1>4. TakenIsRun'
  BY DEF TakenIsRun
<1>5. QED
  BY <1>2, <1>3, <1>4

(* Every other step only moves threads and the mutex. *)
LEMMA NextInv ==
  ASSUME PoolInv, [PoolNext]_poolVars
  PROVE  PoolInv'
<1> DEFINE Same == UNCHANGED <<tasks, started, enqueued, finished, job>>
<1> USE PoolAssumption DEF PoolInv, Types, Exclusion, Ending
<1>1. ASSUME NEW w \in Workers, NothingToDo(w) \/ Wait(w) \/ WakeUp(w)
      PROVE  PoolInv'
  <2>1. Same /\ \A v \in Workers : worker[v] = "running" <=> worker'[v] = "running"
    BY <1>1 DEF NothingToDo, Wait, WakeUp
  <2>2. CASE NothingToDo(w)
    BY <2>1, <2>2 DEF NothingToDo, Numbered, TakenIsRun
  <2>3. CASE Wait(w)
    BY <2>1, <2>3 DEF Wait, Numbered, TakenIsRun
  <2>4. CASE WakeUp(w)
    BY <2>1, <2>4 DEF WakeUp, Numbered, TakenIsRun
  <2>5. QED
    BY <1>1, <2>2, <2>3, <2>4
<1>2. ASSUME NEW c \in Callers, EnqueueCheck(c) \/ EnqueueNotify(c)
      PROVE  PoolInv'
  <2>1. Same /\ \A v \in Workers : worker[v] = "running" <=> worker'[v] = "running"
    BY <1>2 DEF EnqueueCheck, EnqueueNotify
  <2>2. CASE EnqueueCheck(c)
    <3>1. Types' /\ Exclusion' /\ Ending'
      BY <2>2 DEF EnqueueCheck
    <3>2. QED
      BY <2>1, <3>1 DEF Numbered, TakenIsRun
  <2>3. CASE EnqueueNotify(c)
    <3>1. Types' /\ Exclusion' /\ Ending'
      BY <2>3 DEF EnqueueNotify
    <3>2. QED
      BY <2>1, <3>1 DEF Numbered, TakenIsRun
  <2>4. QED
    BY <1>2, <2>2, <2>3
<1>3. CASE Stop \/ DtorStep
  <2>1. Same /\ \A v \in Workers : worker[v] = "running" <=> worker'[v] = "running"
    BY <1>3 DEF Stop, DtorStep, NotifyAll, Join
  <2>2. Types' /\ Exclusion' /\ Ending'
    BY <1>3 DEF Stop, DtorStep, NotifyAll, Join
  <2>3. QED
    BY <2>1, <2>2 DEF Numbered, TakenIsRun
<1>4. CASE UNCHANGED poolVars
  BY <1>4 DEF poolVars, Numbered, TakenIsRun
<1> HIDE DEF PoolInv
<1>5. QED
  BY <1>1, <1>2, <1>3, <1>4, TakeStep, ReturnStep, PushStep DEF PoolNext, WorkerStep, CallerStep

(* Whatever workers, callers of enqueue and the destructor interleave, the *)
(* tasks are taken in the order in which they were accepted, and the       *)
(* destructor does not return before all of them have run.                 *)
THEOREM TasksKept == PoolSpec => []NoTaskLost
<1>1. PoolInv => NoTaskLost
  <2> SUFFICES ASSUME PoolInv PROVE NoTaskLost
    OBVIOUS
  <2> USE DEF PoolInv, Types
  <2>1. TakenInOrder
    <3> DEFINE all == started \o tasks
    <3>1. all \in Seq(Nat) /\ Len(all) = enqueued
      BY DEF Numbered
    <3>2. ASSUME NEW n \in 1..enqueued PROVE all[n] = n
      <4>1. CASE n \in 1..Len(started)
        BY <4>1 DEF Numbered
      <4>2. CASE n \notin 1..Len(started)
        <5>1. n - Len(started) \in 1..Len(tasks) /\ all[n] = tasks[n - Len(started)]
          BY <4>2 DEF Numbered
        <5>2. QED
          BY <5>1 DEF Numbered
      <4>3. QED
        BY <4>1, <4>2
    <3> HIDE DEF all
    <3>3. all = [n \in 1..enqueued |-> all[n]]
      BY <3>1
    <3>4. all = [n \in 1..enqueued |-> n]
      BY <3>2, <3>3
    <3>5. QED
      BY <3>4 DEF TakenInOrder, all
  <2>2. JoinedAfterAllTasks
    <3> SUFFICES ASSUME dtor = "joined" PROVE finished = 1..enqueued
      BY DEF JoinedAfterAllTasks
    <3>1. tasks = <<>> /\ \A w \in Workers : worker[w] # "running"
      BY PoolAssumption DEF Ending
    <3>2. Len(started) = enqueued
      BY <3>1 DEF Numbered
    <3>3. \A n \in Nat : n \in 1..enqueued <=> n \in finished
      BY <3>1, <3>2 DEF TakenIsRun
    <3>4. finished \subseteq Nat /\ 1..enqueued \subseteq Nat
      OBVIOUS
    <3> HIDE DEF PoolInv, Types
    <3>5. QED
      BY <3>3, <3>4
  <2>3. QED
    BY <2>1, <2>2 DEF NoTaskLost
<1>2. QED
  BY <1>1, InitInv, NextInv, PTL DEF PoolSpec
=============================================================================
