----------------------------- MODULE AtomicTree -----------------------------
(***************************************************************************)
(* What SubscriptionTreeManager promises its users: a set of subscriptions *)
(* to which every addSubscriptions call adds all of its entries in one     *)
(* instant between its call and its return, and of which a reader gets the *)
(* contents at one instant.                                                *)
(***************************************************************************)
CONSTANTS Threads, Entries

VARIABLES
  entries,  \* the subscriptions
  request,  \* the entries of the addSubscriptions call a thread is in
  view      \* the snapshot a thread matches against

avars == <<entries, request, view>>

Init ==
  /\ entries = {}
  /\ request = [t \in Threads |-> {}]
  /\ view = [t \in Threads |-> {}]

Call(t, E) ==
  /\ request[t] = {}
  /\ request' = [request EXCEPT ![t] = E]
  /\ UNCHANGED <<entries, view>>

Commit(t) ==
  /\ request[t] # {}
  /\ entries' = entries \cup request[t]
  /\ request' = [request EXCEPT ![t] = {}]
  /\ UNCHANGED view

Read(t) ==
  /\ view' = [view EXCEPT ![t] = entries]
  /\ UNCHANGED <<entries, request>>

Next ==
  \E t \in Threads :
    \/ \E E \in (SUBSET Entries) \ {{}} : Call(t, E)
    \/ Commit(t)
    \/ Read(t)

Spec == Init /\ [][Next]_avars
=============================================================================
