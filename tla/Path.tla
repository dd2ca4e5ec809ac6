-------------------------------- MODULE Path --------------------------------
(***************************************************************************)
(* class path and path::iterator of acatl::filesystem: a path is a text,   *)
(* its modifiers are actions, its decompositions operators, and an         *)
(* iterator walks over its elements in both directions.  Positions count   *)
(* the characters before them, as _pos does.                               *)
(***************************************************************************)
EXTENDS Integers, Sequences, FiniteSetsExt, SequencesExt

CONSTANTS Chars,      \* the characters of a path, among them "/" and "."
          Names,      \* the paths that are appended or put in place of a part
          MaxPath     \* bound: the longest path

ASSUME PathChars == {"/", "."} \subseteq Chars /\ Names \subseteq Seq(Chars)

VARIABLES text,       \* path::_path
          iter,       \* path::iterator, _element and _pos
          trail       \* history: the places the iterator has come from

pathVars == <<text, iter, trail>>

Sep == "/"
Dot == "."
npos == -1
End == [elem |-> <<>>, pos |-> npos]

PathInit ==
  /\ text = <<>>
  /\ iter = End
  /\ trail = <<>>

-----------------------------------------------------------------------------
(* Scanning: the ends of the runs of separators and of names.              *)
SkipSep(p, i) == Min({k \in i..Len(p) : k = Len(p) \/ p[k + 1] # Sep})
NextSep(p, i) == Min({k \in i..Len(p) : k = Len(p) \/ p[k + 1] = Sep})
Lead(p) == SkipSep(p, 0)
BackToSep(p, i)  == Max({k \in 1..i : k = 1 \/ p[k] = Sep})
BackToName(p, i) == Max({k \in 1..i : k = 1 \/ p[k] # Sep})

Slash_always(p, q) == p \o <<Sep>> \o q  \* mutant: a separator every time

(* operator/=, operator/ *)
Slash(p, q) ==
  IF p = <<>> \/ q = <<>> \/ Head(q) = Sep \/ Last(p) = Sep
  THEN p \o q
  ELSE p \o <<Sep>> \o q

root_name(p) == IF Lead(p) = 2 THEN SubSeq(p, 1, NextSep(p, 2)) ELSE <<>>

root_directory(p) ==
  IF Lead(p) > 0 /\ (root_name(p) = <<>> \/ Len(p) > Len(root_name(p)))
  THEN <<Sep>> ELSE <<>>

root_path(p) == Slash(root_name(p), root_directory(p))

relative_path(p) ==
  SubSeq(p, IF Lead(p) = 2 THEN NextSep(p, 2) + 2 ELSE Lead(p) + 1, Len(p))

parent_path(p) ==
  LET s == BackToSep(p, Len(p))
      t == BackToName(p, s)
  IN IF Len(p) < 2 THEN <<>>
     ELSE IF t > 1 THEN SubSeq(p, 1, t)
     ELSE IF s = 1 /\ p[1] = Sep THEN <<Sep>>
     ELSE <<>>

filename(p) ==
  LET s == BackToSep(p, Len(p))
  IN IF p \in {<<>>, <<Sep>>} THEN p
     ELSE IF Last(p) = Sep THEN <<Dot>>
     ELSE IF p[s] # Sep \/ (s = 2 /\ p[1] = Sep) THEN p
     ELSE SubSeq(p, s + 1, Len(p))

(* Where the extension of a file name starts, 0 if it has none. *)
ExtensionAt(fn) ==
  IF fn \in {<<>>, <<Dot>>, <<Dot, Dot>>} THEN 0
  ELSE Max({0} \cup {i \in 1..Len(fn) : fn[i] = Dot})

stem(p) ==
  LET fn == filename(p) IN SubSeq(fn, 1, ExtensionAt(fn) - 1)

extension(p) ==
  LET fn == filename(p)
  IN IF ExtensionAt(fn) = 0 THEN <<>> ELSE SubSeq(fn, ExtensionAt(fn), Len(fn))

is_absolute(p) == root_directory(p) # <<>>

(* absolute(p, base), for a base that is absolute itself. *)
absolute(p, base) ==
  IF is_absolute(p)
  THEN IF root_name(p) = <<>> THEN Slash(root_name(base), p) ELSE p
  ELSE IF root_name(p) = <<>> THEN Slash(base, p)
  ELSE Slash(Slash(Slash(root_name(p), root_directory(base)), relative_path(base)),
             relative_path(p))

-----------------------------------------------------------------------------
(* The iterator.                                                           *)
begin(p) ==
  LET i == NextSep(p, Lead(p))
  IN IF p = <<>> THEN End
     ELSE IF Lead(p) \in {0, 2} THEN [elem |-> SubSeq(p, 1, i), pos |-> i]
     ELSE [elem |-> <<Sep>>, pos |-> 1]

Increment(p, it) ==
  LET i == SkipSep(p, it.pos)
      j == NextSep(p, i)
  IN IF it.pos = Len(p) THEN [it EXCEPT !.pos = npos]
     ELSE IF i = Len(p) THEN [elem |-> <<Dot>>, pos |-> i]
     ELSE [elem |-> SubSeq(p, i + 1, j), pos |-> j]

(* operator-- from the place where an element ends in the text. *)
ElementBefore(p, i) ==
  LET last == BackToName(p, i)
      s    == BackToSep(p, last)
      tmp  == IF p[s] = Sep THEN s ELSE s - 1
      root == BackToName(p, s)
      from == IF root = 1 /\ tmp = 2 THEN 0 ELSE tmp
  IN IF last = 1 THEN [elem |-> <<Sep>>, pos |-> 1]
     ELSE [elem |-> SubSeq(p, from + 1, last), pos |-> last]

Decrement_noDot(p, it) ==  \* mutant: nothing stands for a separator at the end
  ElementBefore(p, IF it.pos # npos THEN it.pos - Len(it.elem) ELSE Len(p))

Decrement(p, it) ==
  IF it.pos # npos THEN ElementBefore(p, it.pos - Len(it.elem))
  ELSE IF Last(p) # Sep THEN ElementBefore(p, Len(p))
  ELSE IF Len(p) = 1 THEN [elem |-> <<Sep>>, pos |-> 1]
  ELSE [elem |-> <<Dot>>, pos |-> Len(p)]

-----------------------------------------------------------------------------
(* Modifiers.  They invalidate the iterator.                               *)
Assign(p) ==
  /\ Len(p) <= MaxPath
  /\ text' = p
  /\ iter' = End
  /\ trail' = <<>>

AppendPath(q) == Assign(Slash(text, q))
Concat(q) == Assign(text \o q)
Clear == Assign(<<>>)

remove_filename(p) == IF filename(p) = <<>> THEN p ELSE parent_path(p)
RemoveFilename == Assign(remove_filename(text))
ReplaceFilename(q) == Assign(Slash(remove_filename(text), q))

replace_extension(p, q) ==
  SubSeq(p, 1, Len(p) - Len(extension(p)))
    \o (IF q = <<>> \/ Head(q) = Dot THEN q ELSE <<Dot>> \o q)
ReplaceExtension(q) == Assign(replace_extension(text, q))

Begin ==
  /\ iter' = begin(text)
  /\ trail' = <<>>
  /\ UNCHANGED text

Step(it) ==
  /\ iter' = it
  /\ UNCHANGED text

(* operator++; not called on the end. *)
Forward ==
  /\ iter.pos # npos
  /\ Step(Increment(text, iter))
  /\ trail' = Append(trail, iter)

(* operator--; not called on the first element, nor where it has gone astray *)
(* to the start of the text.                                                *)
Backward ==
  /\ trail # <<>>
  /\ iter.pos # npos => iter.pos > Len(iter.elem)
  /\ Step(Decrement(text, iter))
  /\ trail' = Front(trail)

PathNext ==
  \/ \E q \in Names : \/ AppendPath(q) \/ Concat(q)
                      \/ ReplaceFilename(q) \/ ReplaceExtension(q)
  \/ \E c \in Chars : Concat(<<c>>)
  \/ Clear \/ RemoveFilename
  \/ Begin \/ Forward \/ Backward

-----------------------------------------------------------------------------
(* What a path means to the operating system: where it starts and the names *)
(* on the way, without those that stay where they are.                      *)
NamesOf(p) ==
  LET starts == {i \in 1..Len(p) : p[i] # Sep /\ (i = 1 \/ p[i - 1] = Sep)}
      names  == [k \in 1..Cardinality(starts) |->
                   LET i == SetToSortSeq(starts, <)[k] IN SubSeq(p, i, NextSep(p, i))]
  IN SelectSeq(names, LAMBDA n : n # <<Dot>>)

SamePlace(p, q) ==
  /\ NamesOf(p) = NamesOf(q)
  /\ root_name(p) = root_name(q)
  /\ is_absolute(p) = is_absolute(q)

(* parent_path and operator-- take a first name of one character for the    *)
(* root, so "a/b" has no parent and no last element "b".                    *)
ShortFirstName(p) == Lead(p) = 0 /\ p # <<>> /\ NextSep(p, 0) = 1

(* operator-- goes back over exactly the elements operator++ has visited,   *)
(* whatever runs of separators lie between them, unless the first name has  *)
(* one character or the path is "//".                                       *)
RetracesSteps ==
  [][Backward /\ ~ShortFirstName(text) /\ text # <<Sep, Sep>>
       => iter' = Last(trail)]_pathVars

(* The elements put together again with operator/= lead to the same place,  *)
(* which create_directories relies on, and the last one is the file name.   *)
ElementsMeanThePath ==
  LET elements == [i \in DOMAIN trail |-> trail[i].elem]
  IN iter.pos = npos /\ trail # <<>> /\ ~ShortFirstName(text) /\ text # <<Sep, Sep>>
       => /\ SamePlace(FoldLeft(Slash, <<>>, elements), text)
          /\ Last(elements) = filename(text)

(* The parent path and the file name lead to the place of the path (with at *)
(* most one separator in front).                                            *)
ParentAndFilename ==
  Lead(text) < 2 /\ ~ShortFirstName(text)
    => SamePlace(Slash(parent_path(text), filename(text)), text)

(* replace_extension puts the new extension behind the old stem, whatever   *)
(* dots the name and the new extension have (a path that names a file).     *)
ExtensionReplaced ==
  text # <<>> /\ Last(text) # Sep /\ filename(text) \notin {<<Dot>>, <<Dot, Dot>>} =>
    \A q \in Names \ {<<>>} :
      filename(replace_extension(text, q)) =
        (IF extension(text) = <<>> THEN filename(text) ELSE stem(text))
          \o (IF Head(q) = Dot THEN q ELSE <<Dot>> \o q)

(* absolute() with the current directory names a place below it for a       *)
(* relative path and the same place for an absolute one.                    *)
AbsoluteBelowBase ==
  LET base == <<Sep, "a", "a">>
      p    == absolute(text, base)
  IN root_name(text) = <<>>
       => /\ is_absolute(p)
          /\ NamesOf(p) = (IF is_absolute(text) THEN <<>> ELSE NamesOf(base))
                            \o NamesOf(text)

(* The parts a path is taken into, and put together from, name its place.  *)
PartsMeanThePath ==
  ElementsMeanThePath /\ ParentAndFilename /\ AbsoluteBelowBase /\ ExtensionReplaced
=============================================================================
