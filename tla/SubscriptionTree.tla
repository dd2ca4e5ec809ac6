--------------------------- MODULE SubscriptionTree ---------------------------
(***************************************************************************)
(* Adding filters to the subscription tree and matching a topic against    *)
(* it.  A filter or topic is the sequence of its levels, the pieces of the *)
(* string between the separators.  The tree is the set of its entries      *)
(* <<path, session>>; its nodes are the prefixes of the paths.             *)
(*                                                                         *)
(* TopicHierarchyIterator copies share one position: an increment made in  *)
(* the subtree of one child is seen by the siblings visited later, only    *)
(* reaching the end is private to a copy.  Matching therefore passes the   *)
(* position on from child to child.                                        *)
(***************************************************************************)
EXTENDS Naturals, Sequences, FiniteSets, SequencesExt

CONSTANTS
  Names,       \* names of topic levels, "" among them
  Sessions,
  MaxLevels,   \* bound on the levels of a filter or topic
  MaxEntries   \* bound on the subscriptions

ASSUME SubscriptionTreeAssumption ==
  /\ {"+", "#"} \cap Names = {}
  /\ MaxLevels \in Nat \ {0} /\ MaxEntries \in Nat

VARIABLE tree

(* The names a topic may have, and the filters TopicFilter::validate and    *)
(* the tree accept: "#" is only the last level.                             *)
Topics == UNION {[1..n -> Names] : n \in 1..MaxLevels}
Filters ==
  {f \in UNION {[1..n -> Names \cup {"+", "#"}] : n \in 1..MaxLevels} :
     \A i \in 1..(Len(f) - 1) : f[i] # "#"}

Paths == Seq(Names \cup {"+", "#"})

(* TopicHierarchyIterator: an empty level after the last separator is not   *)
(* seen, a string without a level is one empty level.                       *)
Levels(s) == IF Len(s) > 1 /\ Last(s) = "" THEN Front(s) ELSE s

-----------------------------------------------------------------------------
(* SubscriptionTree::addFilter *)
AddFilter(f, s) == tree' = tree \cup {<<Levels(f), s>>}

(* Mutant of Node: only the ends of filters are found. *)
NodeIsEnd(path) == \E e \in tree : path = e[1]
Node(path) == \E e \in tree : IsPrefix(path, e[1])
SessionsAt(path) == {e[2] : e \in {x \in tree : x[1] = path}}

(* The outcome of a visit: the sessions found and the shared position. *)
Result(found, pos) == [found |-> found, pos |-> pos]

(* SubscriptionNodeBase::match of the node at path, if there is one.  pos   *)
(* is the shared position in the topic t, end the state of the own copy,    *)
(* and below the outcome of the visits one level deeper.                    *)
Visit(t, below, path, pos, end) ==
  IF ~Node(path) THEN Result({}, pos)
  ELSE IF end \/ (path # <<>> /\ Last(path) = "#")
    THEN Result(SessionsAt(path), pos)
  ELSE
    LET (* IntermediateSubscriptionNode::doMatch: ++cur, then the children *)
        last  == pos = Len(t)
        next  == IF last THEN pos ELSE pos + 1
        exact == below[Append(path, t[pos])][next][last]
        multi == below[Append(path, "#")][exact.pos][last]
        plus  == below[Append(path, "+")][multi.pos][last]
    IN  Result(exact.found \cup multi.found \cup plus.found, plus.pos)

(* The visits of all nodes with h levels of the topic to go.  The position  *)
(* moves with every level, so that all copies are at the end after the last *)
(* one.                                                                     *)
Match(t) ==
  LET match[h \in 0..Len(t)] ==
        [path \in Paths |-> [pos \in 1..Len(t) |-> [end \in BOOLEAN |->
           IF h = 0 THEN Result(SessionsAt(path), pos)
                    ELSE Visit(t, match[h - 1], path, pos, end)]]]
  IN match[Len(t)]

(* SubscriptionTree::match *)
MatchTopic(t) == Match(Levels(t))[<<>>][1][FALSE].found

-----------------------------------------------------------------------------
TreeInit == tree = {}

TreeNext ==
  \E f \in Filters, s \in Sessions :
    /\ Cardinality(tree) < MaxEntries
    /\ AddFilter(f, s)

TreeSpec == TreeInit /\ [][TreeNext]_tree

-----------------------------------------------------------------------------
(* What a filter means: "+" stands for one level, "#" for one or more. *)
Covers(f, t) ==
  /\ IF Last(f) = "#" THEN Len(t) >= Len(f) ELSE Len(t) = Len(f)
  /\ \A i \in 1..Len(f) : f[i] \in {"#", "+", t[i]}

Expected(t) == {e[2] : e \in {x \in tree : Covers(x[1], Levels(t))}}

(* match finds exactly the sessions with a filter for the topic if the      *)
(* topic has at most two levels: the position the siblings share is then    *)
(* still the right one.                                                     *)
ShortTopicsMatch ==
  \A t \in Topics : Len(Levels(t)) <= 2 => MatchTopic(t) = Expected(t)

(* Without "+" among the filters a topic of any depth is matched exactly:   *)
(* "#" does not look at the position, and no other sibling comes after the  *)
(* exact child.                                                             *)
MatchWithoutPlus ==
  (\A e \in tree : ~Contains(e[1], "+")) =>
    \A t \in Topics : MatchTopic(t) = Expected(t)

(* A "+" is followed correctly as long as the tree has no other child next  *)
(* to it that the topic can descend into.                                   *)
MatchAlone ==
  \A t \in Topics :
    (\A e, f \in tree : Covers(e[1], Levels(t)) =>
       \A n \in 1..Len(e[1]) :
         e[1][n] = "+" /\ IsPrefix(SubSeq(e[1], 1, n - 1), f[1])
           => Len(f[1]) < n \/ f[1][n] \in {"+", "#"} \/ f[1][n] # Levels(t)[n])
    => Expected(t) \subseteq MatchTopic(t)

(* The trees and topics for which match can be relied on, in spite of the   *)
(* position that copies of the iterator share (mqtt_topic.h:51).            *)
MatchesSimpleTrees == ShortTopicsMatch /\ MatchWithoutPlus /\ MatchAlone

(* The tests of the tree expect every session whose filter covers the       *)
(* topic, and no other one.                                                 *)
MatchIsExact == \A t \in Topics : MatchTopic(t) = Expected(t)
=============================================================================
