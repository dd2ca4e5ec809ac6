----------------------------- MODULE ThreadPool -----------------------------
(***************************************************************************)
(* acatl::Threadpool: workers that wait on a condition variable for tasks, *)
(* callers of enqueue, and the destructor.  The predicate of a wait is     *)
(* evaluated with _queueMutex held, and the mutex is released only by      *)
(* falling asleep; _stop however is set without the mutex, so the          *)
(* destructor can come in between.                                         *)
(*                                                                         *)
(* Tasks are numbered in the order in which enqueue accepts them.          *)
(***************************************************************************)
EXTENDS Naturals, Sequences, FiniteSets

CONSTANTS
  Workers,   \* the threads of the pool
  Callers,   \* the threads that call enqueue
  Nobody,    \* the mutex is free
  MaxTasks   \* bound on the tasks ever enqueued

(* There is a worker: the constructor takes hardware_concurrency() for 0,   *)
(* which is 0 only where the number of processors is not known.             *)
ASSUME PoolAssumption ==
  /\ Workers # {}
  /\ Nobody \notin Workers \cup Callers
  /\ Workers \cap Callers = {}
  /\ MaxTasks \in Nat

VARIABLES
  tasks,     \* _tasks
  stop,      \* _stop
  mutex,     \* the owner of _queueMutex
  worker,    \* where a worker is
  job,       \* the task a worker has taken, 0 for none
  caller,    \* where a caller of enqueue is
  dtor,      \* where the destructor is
  enqueued,  \* history: number of tasks accepted
  started,   \* history: the tasks in the order they were taken
  finished   \* history: the tasks that have returned

poolVars ==
  <<tasks, stop, mutex, worker, job, caller, dtor, enqueued, started, finished>>

PoolInit ==
  /\ tasks = <<>>
  /\ stop = FALSE
  /\ mutex = Nobody
  /\ worker = [w \in Workers |-> "loop"]
  /\ job = [w \in Workers |-> 0]
  /\ caller = [c \in Callers |-> "idle"]
  /\ dtor = "no"
  /\ enqueued = 0
  /\ started = <<>>
  /\ finished = {}

-----------------------------------------------------------------------------
(* Mutant of TakeTask: a stopped pool is left with tasks in the queue. *)
TakeTaskUnlessStopped(w) ==
  /\ worker[w] = "loop"
  /\ mutex = Nobody
  /\ stop \/ tasks # <<>>
  /\ IF stop
       THEN /\ worker' = [worker EXCEPT ![w] = "ended"]
            /\ UNCHANGED <<tasks, job, started>>
       ELSE /\ worker' = [worker EXCEPT ![w] = "running"]
            /\ job' = [job EXCEPT ![w] = Head(tasks)]
            /\ tasks' = Tail(tasks)
            /\ started' = Append(started, Head(tasks))
  /\ UNCHANGED <<stop, mutex, caller, dtor, enqueued, finished>>
(* The worker has the mutex and its predicate holds: it ends if the pool is *)
(* stopped and empty, otherwise it takes the first task.                    *)
TakeTask(w) ==
  /\ worker[w] = "loop"
  /\ mutex = Nobody
  /\ stop \/ tasks # <<>>
  /\ IF tasks = <<>>
       THEN /\ worker' = [worker EXCEPT ![w] = "ended"]
            /\ UNCHANGED <<tasks, job, started>>
       ELSE /\ worker' = [worker EXCEPT ![w] = "running"]
            /\ job' = [job EXCEPT ![w] = Head(tasks)]
            /\ tasks' = Tail(tasks)
            /\ started' = Append(started, Head(tasks))
  /\ UNCHANGED <<stop, mutex, caller, dtor, enqueued, finished>>

(* The predicate is false: the worker, still with the mutex, is about to    *)
(* wait ...                                                                 *)
NothingToDo(w) ==
  /\ worker[w] = "loop"
  /\ mutex = Nobody
  /\ ~stop /\ tasks = <<>>
  /\ mutex' = w
  /\ worker' = [worker EXCEPT ![w] = "parking"]
  /\ UNCHANGED <<tasks, stop, job, caller, dtor, enqueued, started, finished>>

(* ... and waits, releasing the mutex. *)
Wait(w) ==
  /\ worker[w] = "parking"
  /\ mutex' = Nobody
  /\ worker' = [worker EXCEPT ![w] = "waiting"]
  /\ UNCHANGED <<tasks, stop, job, caller, dtor, enqueued, started, finished>>

(* A condition variable may wake up without a notification. *)
WakeUp(w) ==
  /\ worker[w] = "waiting"
  /\ worker' = [worker EXCEPT ![w] = "loop"]
  /\ UNCHANGED <<tasks, stop, mutex, job, caller, dtor, enqueued, started,
                 finished>>

(* The task is run and returns. *)
Return(w) ==
  /\ worker[w] = "running"
  /\ finished' = finished \cup {job[w]}
  /\ job' = [job EXCEPT ![w] = 0]
  /\ worker' = [worker EXCEPT ![w] = "loop"]
  /\ UNCHANGED <<tasks, stop, mutex, caller, dtor, enqueued, started>>

(* enqueue takes the mutex and looks at _stop; a stopped pool throws. *)
EnqueueCheck(c) ==
  /\ caller[c] = "idle"
  /\ mutex = Nobody
  /\ enqueued < MaxTasks
  /\ ~stop
  /\ mutex' = c
  /\ caller' = [caller EXCEPT ![c] = "checked"]
  /\ UNCHANGED <<tasks, stop, worker, job, dtor, enqueued, started, finished>>

(* The task is queued and the mutex released ... *)
EnqueuePush(c) ==
  /\ caller[c] = "checked"
  /\ enqueued' = enqueued + 1
  /\ tasks' = Append(tasks, enqueued + 1)
  /\ mutex' = Nobody
  /\ caller' = [caller EXCEPT ![c] = "notify"]
  /\ UNCHANGED <<stop, worker, job, dtor, started, finished>>

(* Mutant of EnqueueNotify: notify_one is forgotten. *)
EnqueueWithoutNotify(c) ==
  /\ caller[c] = "notify"
  /\ caller' = [caller EXCEPT ![c] = "idle"]
  /\ UNCHANGED <<tasks, stop, mutex, worker, job, dtor, enqueued, started,
                 finished>>

(* ... and one waiting worker, if there is one, is woken. *)
EnqueueNotify(c) ==
  /\ caller[c] = "notify"
  /\ caller' = [caller EXCEPT ![c] = "idle"]
  /\ \/ \E w \in Workers : /\ worker[w] = "waiting"
                           /\ worker' = [worker EXCEPT ![w] = "loop"]
     \/ (\A w \in Workers : worker[w] # "waiting") /\ UNCHANGED worker
  /\ UNCHANGED <<tasks, stop, mutex, job, dtor, enqueued, started, finished>>

(* ~Threadpool: _stop.store(true) ... *)
Stop ==
  /\ dtor = "no"
  /\ stop' = TRUE
  /\ dtor' = "stopped"
  /\ UNCHANGED <<tasks, mutex, worker, job, caller, enqueued, started,
                 finished>>

(* ... notify_all() ... *)
NotifyAll ==
  /\ dtor = "stopped"
  /\ dtor' = "joining"
  /\ worker' = [w \in Workers |-> IF worker[w] = "waiting" THEN "loop"
                                                           ELSE worker[w]]
  /\ UNCHANGED <<tasks, stop, mutex, job, caller, enqueued, started, finished>>

(* ... and all workers are joined. *)
Join ==
  /\ dtor = "joining"
  /\ \A w \in Workers : worker[w] = "ended"
  /\ dtor' = "joined"
  /\ UNCHANGED <<tasks, stop, mutex, worker, job, caller, enqueued, started,
                 finished>>

-----------------------------------------------------------------------------
WorkerStep(w) == TakeTask(w) \/ NothingToDo(w) \/ Wait(w) \/ Return(w)
CallerStep(c) == EnqueuePush(c) \/ EnqueueNotify(c)
DtorStep      == NotifyAll \/ Join

PoolNext ==
  \/ \E w \in Workers : WorkerStep(w) \/ WakeUp(w)
  \/ \E c \in Callers : EnqueueCheck(c) \/ CallerStep(c)
  \/ Stop
  \/ DtorStep

PoolSpec == PoolInit /\ [][PoolNext]_poolVars

(* Threads keep running and tasks return; nobody has to call enqueue or to  *)
(* destroy the pool, and a waiting worker need not wake up unnotified.      *)
PoolFairness ==
  /\ \A w \in Workers : WF_poolVars(WorkerStep(w))
  /\ \A c \in Callers : WF_poolVars(CallerStep(c))
  /\ WF_poolVars(DtorStep)

PoolFairSpec == PoolSpec /\ PoolFairness

-----------------------------------------------------------------------------
(* Tasks are taken in the order in which enqueue accepted them, each once,  *)
(* and none gets lost between _tasks and the workers.                       *)
TakenInOrder ==
  started \o tasks = [n \in 1..enqueued |-> n]

(* When the destructor returns, every task that enqueue accepted has run,   *)
(* also one that was accepted while _stop was being set.                    *)
JoinedAfterAllTasks ==
  dtor = "joined" => finished = 1..enqueued

(* No task is lost, run twice or overtaken, up to the end of the pool       *)
(* (thread_pool.h:75-108, 126-140).                                         *)
NoTaskLost == TakenInOrder /\ JoinedAfterAllTasks

(* "The task will be queued and eventually executed": an accepted task runs *)
(* in the end, whether or not the pool is stopped meanwhile; no notify_one  *)
(* sent after the mutex is released is missed.                              *)
EveryTaskRuns ==
  \A n \in 1..MaxTasks : enqueued >= n ~> n \in finished

(* "Will wait until all threads have terminated. A thread terminates, if    *)
(* its task returns.": the destructor comes to an end.                      *)
DestructorReturns == dtor = "stopped" ~> dtor = "joined"
=============================================================================
