------------------------------ MODULE MCThreads ------------------------------
(***************************************************************************)
(* The places where threads meet under mutexes, side by side: a behaviour  *)
(* is one of the send side of a connection, of the subscription tree that  *)
(* is copied, edited and installed, or of the thread pool.                 *)
(***************************************************************************)
EXTENDS SendQueue, SubscriptionTreeManager, ThreadPool

VARIABLE part

threadVars == <<part, queueVars, managerVars, poolVars>>

Init ==
  /\ part \in {"queue", "tree", "pool"}
  /\ QueueInit /\ ManagerInit /\ PoolInit

Next ==
  /\ UNCHANGED part
  /\ \/ part = "queue" /\ QueueNext /\ UNCHANGED <<managerVars, poolVars>>
     \/ part = "tree" /\ ManagerNext /\ UNCHANGED <<queueVars, poolVars>>
     \/ part = "pool" /\ PoolNext /\ UNCHANGED <<queueVars, managerVars>>

(* Each part asks for fairness of its own steps only: those of the others   *)
(* stay enabled for ever and are never taken.                               *)
Spec ==
  /\ Init /\ [][Next]_threadVars
  /\ part = "queue" => QueueFairness
  /\ part = "tree" => ManagerFairness
  /\ part = "pool" => PoolFairness
=============================================================================
