------------------------------ MODULE MCBroker ------------------------------
(***************************************************************************)
(* Model checking of Broker.  The client identifiers of the connections:   *)
(* two of three share one (a reconnect and a stranger), two share one (a   *)
(* reconnect), and each has its own.                                       *)
(***************************************************************************)
EXTENDS Broker, TLC

CONSTANTS c1, c2, c3, k1, k2, f1, f2, t1, t2

MCReconnectAndOther == c1 :> k1 @@ c2 :> k1 @@ c3 :> k2
MCReconnect         == c1 :> k1 @@ c2 :> k1
MCOnce              == c1 :> k1 @@ c2 :> k2
MCMatches           == {<<f1, t1>>, <<f2, t1>>, <<f2, t2>>}
MCMatchesOne        == {<<f1, t1>>}
=============================================================================
