------------------- MODULE SubscriptionTreeManager_proofs -------------------
(***************************************************************************)
(* SubscriptionTreeManager implements AtomicTree, for any number of        *)
(* threads, entries and calls.                                             *)
(***************************************************************************)
EXTENDS SubscriptionTreeManager, TLAPS

(* Who owns the mutexes follows from where the writers are. *)
Locks ==
  \A t \in Threads :
    /\ writeMutex = t <=>
         phase[t] \in {"locked", "editing", "swapping", "installed"}
    /\ readMutex = t <=> phase[t] \in {"swapping", "installed", "unlocked"}

(* The clone of a writer is what its call makes of the current tree, apart  *)
(* from what it has still to add.                                           *)
Editing ==
  \A t \in Threads :
    /\ phase[t] \in {"called", "locked"} => left[t] = request[t]
    /\ phase[t] \in {"editing", "swapping"} =>
         copy[t] \cup left[t] = tree \cup request[t]
    /\ phase[t] = "swapping" => left[t] = {}
    /\ phase[t] \in {"idle", "installed", "unlocked"} => request[t] = {}

Inv == ManagerTypeOK /\ Locks /\ Editing

(* The invariant holds at the start.                                       *)
LEMMA InitInv == ManagerInit => Inv
BY TreeAssumption
   DEF TreeAssumption, ManagerInit, Inv, ManagerTypeOK, WriterState, Locks,
       Editing

(* Every step keeps the invariant.                                         *)
LEMMA NextInv == Inv /\ [ManagerNext]_managerVars => Inv'
<1> SUFFICES ASSUME Inv, [ManagerNext]_managerVars PROVE Inv'
  OBVIOUS
<1> USE TreeAssumption DEF TreeAssumption, Inv, ManagerTypeOK, WriterState,
        Locks, Editing, Goto
<1>1. CASE UNCHANGED managerVars
  BY <1>1 DEF managerVars
<1>2. ASSUME NEW t \in Threads,
             \/ \E E \in SUBSET Entries : AddSubscriptions(t, E)
             \/ Write(t)
             \/ GetCurrentSubscriptionTree(t)
      PROVE  Inv'
  <2>1. CASE \E E \in SUBSET Entries : AddSubscriptions(t, E)
    BY <2>1 DEF AddSubscriptions
  <2>2. CASE LockWrite(t)
    BY <2>2 DEF LockWrite
  <2>3. CASE Clone(t)
    BY <2>3 DEF Clone
  <2>4. CASE \E e \in Entries : AddFilter(t, e)
    BY <2>4 DEF AddFilter
  <2>5. CASE BeginSetTree(t)
    BY <2>5 DEF BeginSetTree
  <2>6. CASE Install(t)
    BY <2>6 DEF Install
  <2>7. CASE UnlockWrite(t)
    BY <2>7 DEF UnlockWrite
  <2>8. CASE EndSetTree(t)
    BY <2>8 DEF EndSetTree
  <2>9. CASE GetCurrentSubscriptionTree(t)
    BY <2>9 DEF GetCurrentSubscriptionTree
  <2> QED
    BY <1>2, <2>1, <2>2, <2>3, <2>4, <2>5, <2>6, <2>7, <2>8, <2>9 DEF Write
<1> QED
  BY <1>1, <1>2 DEF ManagerNext

(* Every variable keeps its type. *)
THEOREM TypeCorrect == ManagerSpec => []ManagerTypeOK
<1>1. Inv => ManagerTypeOK
  BY DEF Inv
<1> QED
  BY InitInv, NextInv, <1>1, PTL DEF ManagerSpec

(* clone never reads _tree while setTree of another thread assigns it. *)
THEOREM NoRace == ManagerSpec => []NoRaceOnTree
<1>1. Inv => NoRaceOnTree
  BY DEF Inv, ManagerTypeOK, Locks, NoRaceOnTree
<1> QED
  BY InitInv, NextInv, <1>1, PTL DEF ManagerSpec

(* A step of the manager is a step of the atomic tree or leaves it alone:   *)
(* only Install changes the tree, and then by what the call asked for.      *)
LEMMA StepSimulation ==
  Inv /\ [ManagerNext]_managerVars => [Atomic!Next]_(Atomic!avars)
<1> SUFFICES ASSUME Inv, [ManagerNext]_managerVars
             PROVE  [Atomic!Next]_(Atomic!avars)
  OBVIOUS
<1> USE DEF Inv, ManagerTypeOK, Locks, Editing, Goto, Atomic!avars
<1>1. CASE UNCHANGED managerVars
  BY <1>1 DEF managerVars
<1>2. ASSUME NEW t \in Threads,
             \/ \E E \in SUBSET Entries : AddSubscriptions(t, E)
             \/ Write(t)
             \/ GetCurrentSubscriptionTree(t)
      PROVE  [Atomic!Next]_(Atomic!avars)
  <2>1. CASE \E E \in SUBSET Entries : AddSubscriptions(t, E)
    <3>1. PICK E \in SUBSET Entries : AddSubscriptions(t, E)
      BY <2>1
    <3>2. CASE E = {}
      BY <3>1, <3>2 DEF AddSubscriptions
    <3>3. CASE E # {}
      <4>1. Atomic!Call(t, E)
        BY <3>1 DEF AddSubscriptions, Atomic!Call
      <4>2. E \in (SUBSET Entries) \ {{}}
        BY <3>3
      <4> QED
        BY <4>1, <4>2 DEF Atomic!Next
    <3> QED
      BY <3>2, <3>3
  <2>2. CASE LockWrite(t)
    BY <2>2 DEF LockWrite
  <2>3. CASE Clone(t)
    BY <2>3 DEF Clone
  <2>4. CASE \E e \in Entries : AddFilter(t, e)
    BY <2>4 DEF AddFilter
  <2>5. CASE BeginSetTree(t)
    BY <2>5, TreeAssumption DEF TreeAssumption, BeginSetTree
  <2>6. CASE Install(t)
    <3>1. tree' = tree \cup request[t] /\ request' = [request EXCEPT ![t] = {}]
      BY <2>6 DEF Install
    <3>2. CASE request[t] = {}
      BY <2>6, <3>1, <3>2 DEF Install
    <3>3. CASE request[t] # {}
      <4>1. Atomic!Commit(t)
        BY <2>6, <3>1, <3>3 DEF Install, Atomic!Commit
      <4> QED
        BY <4>1 DEF Atomic!Next
    <3> QED
      BY <3>2, <3>3
  <2>7. CASE UnlockWrite(t)
    BY <2>7 DEF UnlockWrite
  <2>8. CASE EndSetTree(t)
    BY <2>8 DEF EndSetTree
  <2>9. CASE GetCurrentSubscriptionTree(t)
    <3>1. Atomic!Read(t)
      BY <2>9 DEF GetCurrentSubscriptionTree, Atomic!Read
    <3> QED
      BY <3>1 DEF Atomic!Next
  <2> QED
    BY <1>2, <2>1, <2>2, <2>3, <2>4, <2>5, <2>6, <2>7, <2>8, <2>9 DEF Write
<1> QED
  BY <1>1, <1>2 DEF ManagerNext

(* The copy-on-write tree with its two mutexes implements the tree that is  *)
(* updated and read atomically: no addSubscriptions is lost or seen half.   *)
THEOREM TreeIsAtomic == ManagerSpec => AtomicUpdates
<1>1. ManagerInit => Atomic!Init
  BY DEF ManagerInit, Atomic!Init
<1> QED
  BY InitInv, NextInv, StepSimulation, <1>1, PTL
     DEF ManagerSpec, AtomicUpdates, Atomic!Spec
=============================================================================
