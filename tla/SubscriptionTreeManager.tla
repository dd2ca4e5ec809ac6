----------------------- MODULE SubscriptionTreeManager -----------------------
(***************************************************************************)
(* The copy-on-write subscription tree.  A writer takes _writeMutex, edits *)
(* a clone of the tree and installs it in the destructor of WritableTree;  *)
(* a reader takes a pointer to the current tree under _readMutex and       *)
(* matches against it without any lock.                                    *)
(*                                                                         *)
(* A tree is the set of its entries (a filter with a session); matching is *)
(* in SubscriptionTree.                                                    *)
(***************************************************************************)
EXTENDS Naturals

CONSTANTS
  Threads,   \* the io threads, each running addSubscriptions or a publish
  Entries,   \* filters with their session
  None,      \* no thread: the mutex is free
  MaxCalls   \* bound on the addSubscriptions calls of one thread

ASSUME TreeAssumption == None \notin Threads /\ MaxCalls \in Nat

VARIABLES
  tree,        \* SubscriptionTreeManager::_tree
  writeMutex,  \* the owner of _writeMutex
  readMutex,   \* the owner of _readMutex
  phase,       \* where a writer is
  copy,        \* WritableTree::_tree, the clone being edited
  left,        \* the entries the loop of addSubscriptions has still to add
  request,     \* all the entries of that call
  view,        \* the tree a publisher matches against
  calls        \* addSubscriptions calls so far

managerVars ==
  <<tree, writeMutex, readMutex, phase, copy, left, request, view, calls>>

WriterState == {"idle", "called", "locked", "editing", "swapping", "installed",
                "unlocked"}

ManagerTypeOK ==
  /\ tree \subseteq Entries
  /\ writeMutex \in Threads \cup {None}
  /\ readMutex \in Threads \cup {None}
  /\ phase \in [Threads -> WriterState]
  /\ copy \in [Threads -> SUBSET Entries]
  /\ left \in [Threads -> SUBSET Entries]
  /\ request \in [Threads -> SUBSET Entries]
  /\ view \in [Threads -> SUBSET Entries]
  /\ calls \in [Threads -> Nat]

ManagerInit ==
  /\ tree = {}
  /\ writeMutex = None
  /\ readMutex = None
  /\ phase = [t \in Threads |-> "idle"]
  /\ copy = [t \in Threads |-> {}]
  /\ left = [t \in Threads |-> {}]
  /\ request = [t \in Threads |-> {}]
  /\ view = [t \in Threads |-> {}]
  /\ calls = [t \in Threads |-> 0]

-----------------------------------------------------------------------------
Goto(t, from, to) ==
  /\ phase[t] = from
  /\ phase' = [phase EXCEPT ![t] = to]

(* Processor::addSubscriptions is entered. *)
AddSubscriptions(t, E) ==
  /\ calls[t] < MaxCalls
  /\ Goto(t, "idle", "called")
  /\ request' = [request EXCEPT ![t] = E]
  /\ left' = [left EXCEPT ![t] = E]
  /\ calls' = [calls EXCEPT ![t] = @ + 1]
  /\ UNCHANGED <<tree, writeMutex, readMutex, copy, view>>

(* Mutant of LockWrite: the mutex is not waited for. *)
LockWriteWithoutWaiting(t) ==
  /\ Goto(t, "called", "locked")
  /\ writeMutex' = t
  /\ UNCHANGED <<tree, readMutex, copy, left, request, view, calls>>

(* getWritableTree: _writeMutex.lock() ... *)
LockWrite(t) ==
  /\ Goto(t, "called", "locked")
  /\ writeMutex = None
  /\ writeMutex' = t
  /\ UNCHANGED <<tree, readMutex, copy, left, request, view, calls>>

(* Mutant of Clone: the writer goes on with the copy it had before. *)
CloneReused(t) ==
  /\ Goto(t, "locked", "editing")
  /\ UNCHANGED <<tree, writeMutex, readMutex, copy, left, request, view, calls>>

(* ... and then the clone, made without _readMutex. *)
Clone(t) ==
  /\ Goto(t, "locked", "editing")
  /\ copy' = [copy EXCEPT ![t] = tree]
  /\ UNCHANGED <<tree, writeMutex, readMutex, left, request, view, calls>>

(* One turn of the loop: addFilter on the clone. *)
AddFilter(t, e) ==
  /\ phase[t] = "editing"
  /\ e \in left[t]
  /\ copy' = [copy EXCEPT ![t] = @ \cup {e}]
  /\ left' = [left EXCEPT ![t] = @ \ {e}]
  /\ UNCHANGED <<tree, writeMutex, readMutex, phase, request, view, calls>>

(* ~WritableTree, setTree: if try_lock gets _writeMutex, the tree is thrown *)
(* away and the mutex stays locked; otherwise _readMutex is taken.          *)
BeginSetTree(t) ==
  /\ left[t] = {}
  /\ IF writeMutex = None
       THEN /\ Goto(t, "editing", "idle")
            /\ writeMutex' = t
            /\ request' = [request EXCEPT ![t] = {}]
            /\ UNCHANGED readMutex
       ELSE /\ Goto(t, "editing", "swapping")
            /\ readMutex = None
            /\ readMutex' = t
            /\ UNCHANGED <<writeMutex, request>>
  /\ UNCHANGED <<tree, copy, left, view, calls>>

(* The new tree is installed. *)
Install(t) ==
  /\ Goto(t, "swapping", "installed")
  /\ tree' = copy[t]
  /\ request' = [request EXCEPT ![t] = {}]
  /\ UNCHANGED <<writeMutex, readMutex, copy, left, view, calls>>

(* Mutant of UnlockWrite: setTree forgets to unlock _writeMutex. *)
UnlockWriteForgotten(t) ==
  /\ Goto(t, "installed", "unlocked")
  /\ UNCHANGED <<tree, writeMutex, readMutex, copy, left, request, view, calls>>

(* _writeMutex.unlock() ... *)
UnlockWrite(t) ==
  /\ Goto(t, "installed", "unlocked")
  /\ writeMutex' = None
  /\ UNCHANGED <<tree, readMutex, copy, left, request, view, calls>>

(* ... and the guard releases _readMutex. *)
EndSetTree(t) ==
  /\ Goto(t, "unlocked", "idle")
  /\ readMutex' = None
  /\ UNCHANGED <<tree, writeMutex, copy, left, request, view, calls>>

(* getCurrentSubscriptionTree, called by a publish. *)
GetCurrentSubscriptionTree(t) ==
  /\ phase[t] = "idle"
  /\ readMutex = None
  /\ view' = [view EXCEPT ![t] = tree]
  /\ UNCHANGED <<tree, writeMutex, readMutex, phase, copy, left, request,
                 calls>>

-----------------------------------------------------------------------------
Write(t) ==
  \/ LockWrite(t)
  \/ Clone(t)
  \/ \E e \in Entries : AddFilter(t, e)
  \/ BeginSetTree(t)
  \/ Install(t)
  \/ UnlockWrite(t)
  \/ EndSetTree(t)

ManagerNext ==
  \E t \in Threads :
    \/ \E E \in SUBSET Entries : AddSubscriptions(t, E)
    \/ Write(t)
    \/ GetCurrentSubscriptionTree(t)

ManagerSpec == ManagerInit /\ [][ManagerNext]_managerVars

(* A thread that can go on does.  Which thread gets a free mutex is open.   *)
ManagerFairness == \A t \in Threads : WF_managerVars(Write(t))

-----------------------------------------------------------------------------
Atomic == INSTANCE AtomicTree WITH entries <- tree

(* The tree behaves like a set updated atomically: a subscription that has  *)
(* returned is in every later tree, no concurrent addSubscriptions is lost  *)
(* and a publisher never sees half of one.                                  *)
AtomicUpdates == Atomic!Spec

(* The pointer _tree is never read by clone, which does not take the read   *)
(* mutex, while another thread may be assigning it.                         *)
NoRaceOnTree ==
  \A t, u \in Threads :
    phase[t] = "locked" /\ t # u => phase[u] # "swapping"

(* Every addSubscriptions call installs its filters in the end: no writer   *)
(* is left waiting for a mutex nobody releases.                             *)
UpdateInstalled ==
  \A t \in Threads : request[t] # {} ~> request[t] = {}
=============================================================================
