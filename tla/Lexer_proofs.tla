----------------------------- MODULE Lexer_proofs -----------------------------
(***************************************************************************)
(* Proofs about Lexer, for inputs of any length over any characters and    *)
(* for any list of rules.                                                  *)
(***************************************************************************)
EXTENDS Lexer, FiniteSetTheorems, TLAPS

Blank == {"nl", " "}

Offsets == 0..Len(input)

TokenSet == [from : Offsets, to : Offsets, value : Int \X Int, line : Int, char : Int]

Types ==
  /\ input \in Seq(Signs)
  /\ pos \in Offsets
  /\ lineCount \in Nat
  /\ tokens \in Seq(TokenSet)

ColumnBase(toks, n, p) ==
  IF Spans(toks, n, p) = {} THEN LineStart(0, p, 0) ELSE toks[Max(Spans(toks, n, p))].to

(* The counters of the lexer are those of its position. *)
Counters ==
  /\ lineCount = Cardinality(Newlines(0, pos)) + 1
  /\ lineStart = ColumnBase(tokens, Len(tokens), pos)

(* The tokens and the blanks between them reach from the start to pos. *)
Gap(p, q) == p <= q /\ \A j \in (p + 1)..q : input[j] \in Blank
End(n) == IF n = 0 THEN 0 ELSE tokens[n].to
Tiling ==
  /\ \A i \in DOMAIN tokens : /\ tokens[i].from < tokens[i].to
                              /\ tokens[i].to <= pos
                              /\ Gap(End(i - 1), tokens[i].from)
  /\ Gap(End(Len(tokens)), pos)

(* Columns count from the start of the line, or from the end of the last    *)
(* token that spans lines and ends in this one.                             *)
Positions ==
  \A i \in DOMAIN tokens :
    LET t == tokens[i]
    IN /\ t.line = Cardinality(Newlines(0, t.from)) + 1
       /\ t.char = Narrow(t.from - ColumnBase(tokens, i - 1, t.from) + 1)

LexInv ==
  /\ Types
  /\ Counters
  /\ Tiling
  /\ Positions

-----------------------------------------------------------------------------
(* A set of naturals has a least element, and a bounded one a greatest. *)
LEMMA LeastNat ==
  ASSUME NEW S \in SUBSET Nat, S # {}
  PROVE  \E n \in S : \A m \in S : n <= m
<1> DEFINE R == OpToRel(<, Nat)
<1>1. IsWellFoundedOn(R, Nat)
  BY NatLessThanWellFounded
<1>2. \A m, n \in Nat : <<m, n>> \in R <=> m < n
  BY DEF OpToRel
<1> HIDE DEF R
<1>3. PICK n \in S : \A m \in S : ~(<<m, n>> \in R)
  BY <1>1, WFMin
<1>4. \A m \in S : ~(m < n)
  BY <1>2, <1>3
<1>5. \A m \in S : n <= m
  BY <1>4
<1> QED
  BY <1>5

(* A bounded set of natural numbers that is not empty has a greatest one.  *)
LEMMA GreatestNat ==
  ASSUME NEW b \in Nat, NEW S \in SUBSET (0..b), S # {}
  PROVE  \E n \in S : \A m \in S : m <= n
<1> DEFINE T == {n \in 0..b : b - n \in S}
<1>1. T \in SUBSET Nat /\ T # {}
  <2>1. PICK s \in S : TRUE
    OBVIOUS
  <2>2. b - s \in T
    BY <2>1
  <2>3. T \subseteq Nat
    OBVIOUS
  <2> QED
    BY <2>2, <2>3
<1>2. PICK n \in T : \A m \in T : n <= m
  BY <1>1, LeastNat
<1>3. \A m \in S : b - m \in T
  OBVIOUS
<1> QED
  BY <1>2, <1>3

(* Max chooses the greatest element.                                       *)
LEMMA MaxIs ==
  ASSUME NEW b \in Nat, NEW S \in SUBSET (0..b), S # {}
  PROVE  Max(S) \in S /\ \A m \in S : m <= Max(S)
<1>1. PICK n \in S : \A m \in S : m <= n
  BY GreatestNat
<1>2. \A m \in S : n >= m
  BY <1>1
<1>3. Max(S) \in S /\ \A m \in S : Max(S) >= m
  BY <1>2 DEF Max
<1> QED
  BY <1>3

(* The characters from p on that are in C end somewhere. *)
LEMMA RunEnds ==
  ASSUME NEW text \in Seq(Signs), NEW C, NEW p \in 0..Len(text)
  PROVE  \E i \in p..Len(text) :
           /\ \A j \in (p + 1)..i : text[j] \in C
           /\ i < Len(text) => text[i + 1] \notin C
<1> DEFINE S == {i \in p..Len(text) : i < Len(text) => text[i + 1] \notin C}
<1>1. Len(text) \in Nat /\ p \in Nat
  OBVIOUS
<1>2. S \in SUBSET Nat /\ Len(text) \in S
  BY <1>1
<1>3. PICK i \in S : \A m \in S : i <= m
  BY <1>2, LeastNat
<1>4. ASSUME NEW j \in (p + 1)..i PROVE text[j] \in C
  <2>1. j - 1 \in p..Len(text) /\ j - 1 < i /\ (j - 1) + 1 = j
    BY <1>1, <1>3
  <2>2. j - 1 \notin S
    <3> HIDE DEF S
    <3> QED
      BY <1>1, <1>2, <1>3, <2>1
  <2> QED
    BY <2>1, <2>2
<1> QED
  BY <1>3, <1>4

(* The lengths are natural numbers.                                        *)
LEMMA Lengths ==
  ASSUME Types
  PROVE  /\ pos \in Nat /\ Len(input) \in Nat /\ pos <= Len(input)
         /\ Len(tokens) \in Nat /\ DOMAIN tokens = 1..Len(tokens)
         /\ \A i \in 1..Len(tokens) : tokens[i].from \in Nat /\ tokens[i].to \in Nat
<1>1. /\ pos \in Nat /\ Len(input) \in Nat /\ pos <= Len(input)
      /\ Len(tokens) \in Nat /\ DOMAIN tokens = 1..Len(tokens)
  BY DEF Types, Offsets
<1>2. \A i \in 1..Len(tokens) : tokens[i] \in TokenSet
  BY <1>1 DEF Types
<1>3. \A t \in TokenSet : t.from \in Nat /\ t.to \in Nat
  BY <1>1 DEF TokenSet, Offsets
<1> QED
  BY <1>1, <1>2, <1>3

(* Skipping stops behind blanks, at the first other character.             *)
LEMMA SkippedIs ==
  ASSUME Types, NEW p \in Offsets
  PROVE  /\ Skipped(p) \in p..Len(input)
         /\ \A j \in (p + 1)..Skipped(p) : input[j] \in Blank
         /\ Skipped(p) < Len(input) => input[Skipped(p) + 1] \notin Blank
<1>1. \E i \in p..Len(input) :
        /\ \A j \in (p + 1)..i : input[j] \in Blank
        /\ i < Len(input) => input[i + 1] \notin Blank
  BY RunEnds DEF Types, Offsets
<1> QED
  BY <1>1 DEF Skipped, Blank

(* A word ends behind its letters.                                         *)
LEMMA WordEndIs ==
  ASSUME Types, NEW p \in Offsets
  PROVE  /\ WordEnd(p) \in p..Len(input)
         /\ \A j \in (p + 1)..WordEnd(p) : input[j] = "a"
<1>1. \E i \in p..Len(input) :
        /\ \A j \in (p + 1)..i : input[j] \in {"a"}
        /\ i < Len(input) => input[i + 1] \notin {"a"}
  BY RunEnds DEF Types, Offsets
<1>2. \E i \in p..Len(input) :
        /\ \A j \in (p + 1)..i : input[j] = "a"
        /\ i < Len(input) => input[i + 1] # "a"
  BY <1>1
<1> QED
  BY <1>2 DEF WordEnd

(* What a rule takes, and that the newlines of its value are all of them:   *)
(* the quotes that are left out are none, and neither is the last character.*)
LEMMA MatchingIs ==
  ASSUME Types, NEW p \in Offsets, p < Len(input), input[p + 1] \notin Blank,
         NEW rule, NEW match \in Matching(rule, p)
  PROVE  /\ match.to \in (p + 1)..Len(input)
         /\ match.value \in Int \X Int
         /\ Newlines(match.value[1], match.value[2]) = Newlines(p, match.to)
         /\ input[match.to] # "nl"
<1> p \in Nat /\ Len(input) \in Nat
  BY DEF Types, Offsets
<1>1. CASE rule = "word"
  <2> DEFINE e == WordEnd(p)
  <2>1. e > p /\ match = [to |-> e, value |-> <<p, e>>]
    BY <1>1 DEF Matching
  <2>2. e \in p..Len(input) /\ \A j \in (p + 1)..e : input[j] = "a"
    BY WordEndIs
  <2> HIDE DEF e
  <2>3. match.to = e /\ match.value = <<p, e>>
    BY <2>1
  <2>4. input[e] = "a"
    BY <2>1, <2>2
  <2> QED
    BY <2>1, <2>2, <2>3, <2>4
<1>2. CASE rule = "quoted"
  <2>1. PICK i \in Closing(p) : /\ match = [to |-> i, value |-> <<p + 1, i - 1>>]
                                /\ input[p + 1] = "q"
    BY <1>2 DEF Matching
  <2>2. i \in (p + 2)..Len(input) /\ input[i] = "q"
    BY DEF Closing
  <2>3. match.to = i /\ match.value = <<p + 1, i - 1>>
    BY <2>1
  <2>4. Newlines(p + 1, i - 1) = Newlines(p, i)
    <3>1. ASSUME NEW j \in Newlines(p, i) PROVE j \in Newlines(p + 1, i - 1)
      <4>1. j \in (p + 1)..i /\ j # p + 1 /\ j # i
        BY <2>1, <2>2 DEF Newlines
      <4> QED
        BY <2>2, <4>1 DEF Newlines
    <3>2. ASSUME NEW j \in Newlines(p + 1, i - 1) PROVE j \in Newlines(p, i)
      BY <2>2 DEF Newlines
    <3> QED
      BY <3>1, <3>2
  <2> QED
    BY <2>2, <2>3, <2>4
<1>3. CASE rule \notin {"word", "quoted"}
  <2>1. match = [to |-> p + 1, value |-> <<p, p + 1>>]
    BY <1>3 DEF Matching
  <2>2. match.to = p + 1 /\ match.value = <<p, p + 1>>
    BY <2>1
  <2>3. match.to \in (p + 1)..Len(input) /\ match.value \in Int \X Int
    BY <2>2
  <2>4. match.value[1] = p /\ match.value[2] = match.to
    BY <2>2
  <2>5. input[match.to] # "nl"
    BY <2>2 DEF Blank
  <2> QED
    BY <2>3, <2>4, <2>5
<1> QED
  BY <1>1, <1>2, <1>3

-----------------------------------------------------------------------------
(* The newlines of a text are those of its two parts.                      *)
LEMMA NewlinesSplit ==
  ASSUME NEW p \in Nat, NEW q \in Nat, NEW r \in Nat, p <= q, q <= r
  PROVE  /\ Newlines(p, r) = Newlines(p, q) \cup Newlines(q, r)
         /\ Newlines(p, q) \cap Newlines(q, r) = {}
BY DEF Newlines

(* So are their numbers.                                                   *)
LEMMA NewlinesCount ==
  ASSUME NEW p \in Nat, NEW q \in Nat, NEW r \in Nat, p <= q, q <= r
  PROVE  /\ Cardinality(Newlines(p, q)) \in Nat
         /\ Cardinality(Newlines(p, r)) =
              Cardinality(Newlines(p, q)) + Cardinality(Newlines(q, r))
<1>1. \A a, b \in Nat : IsFiniteSet(Newlines(a, b))
  <2> SUFFICES ASSUME NEW a \in Nat, NEW b \in Nat
               PROVE  IsFiniteSet(Newlines(a, b))
    OBVIOUS
  <2>1. IsFiniteSet((a + 1)..b)
    BY FS_Interval
  <2> QED
    BY <2>1, FS_Subset DEF Newlines
<1>2. \A a, b \in Nat : Cardinality(Newlines(a, b)) \in Nat
  BY <1>1, FS_CardinalityType
<1>3. Cardinality({}) = 0
  BY FS_EmptySet
<1>4. Cardinality(Newlines(p, q) \cup Newlines(q, r)) =
        Cardinality(Newlines(p, q)) + Cardinality(Newlines(q, r)) - Cardinality({})
  BY <1>1, NewlinesSplit, FS_Union
<1>5. Newlines(p, r) = Newlines(p, q) \cup Newlines(q, r)
  BY NewlinesSplit
<1>6. /\ Cardinality(Newlines(p, q)) \in Nat
      /\ Cardinality(Newlines(q, r)) \in Nat
  BY <1>2
<1> QED
  BY <1>3, <1>4, <1>5, <1>6

(* The latest newline. *)
LEMMA LineStartIs ==
  ASSUME NEW p \in Nat, NEW q \in Nat, NEW start, Newlines(p, q) # {}
  PROVE  /\ LineStart(p, q, start) \in Newlines(p, q)
         /\ \A j \in Newlines(p, q) : j <= LineStart(p, q, start)
<1>1. Newlines(p, q) \in SUBSET (0..q)
  BY DEF Newlines
<1>2. LineStart(p, q, start) = Max(Newlines(p, q))
  BY DEF LineStart
<1> QED
  BY <1>1, <1>2, MaxIs

(* A line starts inside the text before it.                                *)
LEMMA LineStartBound ==
  ASSUME NEW q \in Nat
  PROVE  LineStart(0, q, 0) \in 0..q
<1>1. CASE Newlines(0, q) = {}
  BY <1>1 DEF LineStart
<1>2. CASE Newlines(0, q) # {}
  <2>1. LineStart(0, q, 0) \in Newlines(0, q)
    BY <1>2, LineStartIs
  <2> QED
    BY <2>1 DEF Newlines
<1> QED
  BY <1>1, <1>2

(* The line at q starts where the one at p does, unless a newline lies      *)
(* between them.                                                            *)
LEMMA LineStartSplit ==
  ASSUME NEW p \in Nat, NEW q \in Nat, p <= q, NEW start
  PROVE  /\ Newlines(p, q) = {} => LineStart(0, q, 0) = LineStart(0, p, 0)
         /\ Newlines(p, q) # {} => LineStart(0, q, 0) = LineStart(p, q, start)
<1>0. Newlines(0, q) = Newlines(0, p) \cup Newlines(p, q)
  BY NewlinesSplit
<1>1. ASSUME Newlines(p, q) = {}
      PROVE  LineStart(0, q, 0) = LineStart(0, p, 0)
  <2>1. Newlines(0, q) = Newlines(0, p)
    BY <1>0, <1>1
  <2> QED
    BY <2>1 DEF LineStart
<1>2. ASSUME Newlines(p, q) # {}
      PROVE  LineStart(0, q, 0) = LineStart(p, q, start)
  <2> DEFINE a == LineStart(0, q, 0)
             b == LineStart(p, q, start)
  <2>1. a \in Newlines(0, q) /\ \A j \in Newlines(0, q) : j <= a
    BY <1>0, <1>2, LineStartIs
  <2>2. b \in Newlines(p, q) /\ \A j \in Newlines(p, q) : j <= b
    BY <1>2, LineStartIs
  <2> HIDE DEF a, b
  <2>3. a \in Nat /\ b \in Nat /\ b > p /\ (a > p => a \in Newlines(p, q))
    BY <2>1, <2>2 DEF Newlines
  <2>4. b <= a
    BY <1>0, <2>1, <2>2
  <2>5. a <= b
    BY <2>2, <2>3, <2>4
  <2> QED
    BY <2>3, <2>4, <2>5 DEF a, b
<1> QED
  BY <1>1, <1>2

-----------------------------------------------------------------------------
(* A column counts from the last token that spans lines, or the line.      *)
LEMMA ColumnBaseIs ==
  ASSUME NEW toks, NEW n \in Nat, NEW p \in Nat
  PROVE  /\ Spans(toks, n, p) = {} => ColumnBase(toks, n, p) = LineStart(0, p, 0)
         /\ Spans(toks, n, p) # {} =>
              \E j \in Spans(toks, n, p) : /\ \A k \in Spans(toks, n, p) : k <= j
                                           /\ ColumnBase(toks, n, p) = toks[j].to
<1>1. ASSUME Spans(toks, n, p) # {}
      PROVE  /\ Max(Spans(toks, n, p)) \in Spans(toks, n, p)
             /\ \A k \in Spans(toks, n, p) : k <= Max(Spans(toks, n, p))
  <2>1. Spans(toks, n, p) \in SUBSET (0..n)
    BY DEF Spans
  <2> QED
    BY <1>1, <2>1, MaxIs
<1> QED
  BY <1>1 DEF ColumnBase

(* It depends on the tokens in front only. *)
LEMMA BaseOfPrefix ==
  ASSUME NEW toks, NEW others, NEW n \in Nat, NEW p,
         \A j \in 1..n : others[j] = toks[j]
  PROVE  ColumnBase(others, n, p) = ColumnBase(toks, n, p)
<1>1. Spans(others, n, p) = Spans(toks, n, p)
  BY DEF Spans
<1>2. Spans(toks, n, p) # {} => Max(Spans(toks, n, p)) \in 1..n
  <2>1. Spans(toks, n, p) \in SUBSET (0..n) /\ Spans(toks, n, p) \in SUBSET (1..n)
    BY DEF Spans
  <2> QED
    BY <2>1, MaxIs
<1> QED
  BY <1>1, <1>2 DEF ColumnBase

(* That is an offset of the text.                                          *)
LEMMA BaseIsOffset ==
  ASSUME Types, NEW p \in Nat
  PROVE  ColumnBase(tokens, Len(tokens), p) \in Nat
<1> DEFINE S == Spans(tokens, Len(tokens), p)
<1>1. CASE S = {}
  <2>1. ColumnBase(tokens, Len(tokens), p) = LineStart(0, p, 0)
    BY <1>1, Lengths, ColumnBaseIs
  <2>2. LineStart(0, p, 0) \in 0..p
    BY LineStartBound
  <2> QED
    BY <2>1, <2>2
<1>2. CASE S # {}
  <2>1. PICK j \in S : ColumnBase(tokens, Len(tokens), p) = tokens[j].to
    BY <1>2, Lengths, ColumnBaseIs
  <2>2. j \in 1..Len(tokens)
    BY DEF Spans
  <2> QED
    BY <2>1, <2>2, Lengths
<1> QED
  BY <1>1, <1>2

(* Past blanks the column base is where the line starts, if there is a      *)
(* newline among them, and stays where it is otherwise.                     *)
LEMMA SkippingBase ==
  ASSUME NEW toks, NEW n \in Nat, NEW p \in Nat, NEW q \in Nat, p <= q,
         \A j \in 1..n : toks[j].to \in 0..p
  PROVE  LineStart(p, q, ColumnBase(toks, n, p)) = ColumnBase(toks, n, q)
<1>1. CASE Newlines(p, q) = {}
  <2>1. LineStart(0, q, 0) = LineStart(0, p, 0)
    BY <1>1, LineStartSplit
  <2>2. ColumnBase(toks, n, q) = ColumnBase(toks, n, p)
    BY <2>1 DEF ColumnBase, Spans
  <2>3. LineStart(p, q, ColumnBase(toks, n, p)) = ColumnBase(toks, n, p)
    BY <1>1 DEF LineStart
  <2> QED
    BY <2>2, <2>3
<1>2. CASE Newlines(p, q) # {}
  <2> DEFINE base == ColumnBase(toks, n, p)
  <2> HIDE DEF base
  <2>1. LineStart(0, q, 0) = LineStart(p, q, base)
    BY <1>2, LineStartSplit
  <2>2. LineStart(p, q, base) \in Newlines(p, q)
    BY <1>2, LineStartIs
  <2>3. LineStart(0, q, 0) > p /\ LineStart(0, q, 0) \in Nat
    BY <2>1, <2>2 DEF Newlines
  <2>4. Spans(toks, n, q) = {}
    BY <2>3 DEF Spans
  <2>5. ColumnBase(toks, n, q) = LineStart(0, q, 0)
    BY <2>4, ColumnBaseIs
  <2> QED
    BY <2>1, <2>5 DEF base
<1> QED
  BY <1>1, <1>2

(* Past a token it is the end of the token, if the token spans lines and    *)
(* does not end with a newline, and stays where it is otherwise.            *)
LEMMA TokenBase ==
  ASSUME NEW toks, NEW n \in Nat, NEW m, m = n + 1,
         NEW from \in Nat, NEW to \in Nat, from < to,
         toks[m].from = from, toks[m].to = to, input[to] # "nl"
  PROVE  /\ Newlines(from, to) # {} => ColumnBase(toks, m, to) = to
         /\ Newlines(from, to) = {} => ColumnBase(toks, m, to) = ColumnBase(toks, n, from)
<1>1. CASE Newlines(from, to) # {}
  <2>1. /\ LineStart(0, to, 0) = LineStart(from, to, 0)
        /\ LineStart(from, to, 0) \in Newlines(from, to)
    BY <1>1, LineStartSplit, LineStartIs
  <2>2. to > LineStart(0, to, 0)
    BY <2>1 DEF Newlines
  <2>3. m \in Spans(toks, m, to)
    BY <1>1, <2>2 DEF Spans
  <2>4. PICK j \in Spans(toks, m, to) :
          /\ \A k \in Spans(toks, m, to) : k <= j
          /\ ColumnBase(toks, m, to) = toks[j].to
    BY <2>3, ColumnBaseIs
  <2>5. j \in 1..m /\ m <= j
    BY <2>3, <2>4 DEF Spans
  <2>6. j = m
    BY <2>5
  <2> QED
    BY <1>1, <2>4, <2>6
<1>2. CASE Newlines(from, to) = {}
  <2>1. LineStart(0, to, 0) = LineStart(0, from, 0)
    BY <1>2, LineStartSplit
  <2>2. Spans(toks, m, to) = Spans(toks, n, from)
    <3>1. \A j \in Spans(toks, m, to) : j \in Spans(toks, n, from)
      BY <1>2, <2>1 DEF Spans
    <3>2. \A j \in Spans(toks, n, from) : j \in Spans(toks, m, to)
      BY <2>1 DEF Spans
    <3> QED
      BY <3>1, <3>2
  <2> QED
    BY <1>2, <2>1, <2>2 DEF ColumnBase
<1> QED
  BY <1>1, <1>2

-----------------------------------------------------------------------------
(* The invariant holds at the start.                                       *)
LEMMA LexInit == LexerInit => LexInv
<1> SUFFICES ASSUME NEW n \in 0..MaxInput, NEW text \in [1..n -> Signs],
                    setInput(text)
             PROVE  LexInv
  BY DEF LexerInit
<1>1. /\ input \in Seq(Signs) /\ pos = 0 /\ lineCount = 1 /\ lineStart = 0
      /\ tokens = <<>> /\ Len(tokens) = 0
  BY LexerAssumption DEF LexerAssumption, setInput
<1>2. Newlines(0, 0) = {}
  BY DEF Newlines
<1>3. LineStart(0, 0, 0) = 0 /\ Spans(<<>>, 0, 0) = {}
  BY <1>2 DEF LineStart, Spans
<1>4. Types
  BY <1>1 DEF Types, Offsets
<1>5. Counters
  <2>1. Cardinality(Newlines(0, 0)) = 0
    BY <1>2, FS_EmptySet
  <2> QED
    BY <1>1, <1>3, <2>1 DEF Counters, ColumnBase
<1>6. Tiling
  BY <1>1 DEF Tiling, Gap, End
<1>7. Positions
  BY <1>1 DEF Positions
<1> QED
  BY <1>4, <1>5, <1>6, <1>7 DEF LexInv

(* Where the next token starts: its line and its column base. *)
LEMMA AtFrom ==
  ASSUME LexInv, NEW from, from = Skipped(pos)
  PROVE  /\ from \in pos..Len(input) /\ from \in Offsets /\ from \in Nat
         /\ Gap(End(Len(tokens)), from)
         /\ lineCount + Cardinality(Newlines(pos, from))
              = Cardinality(Newlines(0, from)) + 1
         /\ LineStart(pos, from, lineStart) = ColumnBase(tokens, Len(tokens), from)
         /\ from < Len(input) => input[from + 1] \notin Blank
         /\ Cardinality(Newlines(0, from)) \in Nat
<1>1. /\ pos \in Nat /\ Len(input) \in Nat /\ pos \in Offsets
      /\ Len(tokens) \in Nat /\ DOMAIN tokens = 1..Len(tokens)
  BY Lengths DEF LexInv, Types
<1>2. /\ from \in pos..Len(input)
      /\ \A j \in (pos + 1)..from : input[j] \in Blank
      /\ from < Len(input) => input[from + 1] \notin Blank
  BY <1>1, SkippedIs DEF LexInv
<1>3. from \in Nat /\ pos <= from /\ from \in Offsets
  BY <1>1, <1>2 DEF Offsets
<1>4. /\ Cardinality(Newlines(0, from))
           = Cardinality(Newlines(0, pos)) + Cardinality(Newlines(pos, from))
      /\ Cardinality(Newlines(0, pos)) \in Nat
      /\ Cardinality(Newlines(pos, from)) \in Nat
  BY <1>1, <1>3, NewlinesCount
<1>5. LineStart(pos, from, lineStart) = ColumnBase(tokens, Len(tokens), from)
  <2>1. \A j \in 1..Len(tokens) : tokens[j].to \in 0..pos
    BY <1>1, Lengths DEF LexInv, Tiling
  <2>2. lineStart = ColumnBase(tokens, Len(tokens), pos)
    BY DEF LexInv, Counters
  <2> QED
    BY <1>1, <1>3, <2>1, <2>2, SkippingBase
<1>6. Gap(End(Len(tokens)), from)
  <2>1. Gap(End(Len(tokens)), pos) /\ End(Len(tokens)) \in Nat
    BY <1>1, Lengths DEF LexInv, Tiling, End
  <2> QED
    BY <1>1, <1>2, <1>3, <2>1 DEF Gap
<1> QED
  BY <1>2, <1>3, <1>4, <1>5, <1>6 DEF LexInv, Counters

(* A quotient and a remainder are determined by their number.              *)
LEMMA RemainderIs ==
  ASSUME NEW w \in Nat \ {0}, NEW q \in Int, NEW r \in 0..(w - 1)
  PROVE  (w * q + r) % w = r
OBVIOUS

LEMMA Remainder ==
  ASSUME NEW w \in Nat \ {0}, NEW d \in Int
  PROVE  \E q \in Int, r \in 0..(w - 1) : d = w * q + r /\ d % w = r
<1>1. /\ d % w \in 0..(w - 1) /\ d \div w \in Int
      /\ d = w * (d \div w) + (d % w)
  OBVIOUS
<1> QED
  BY <1>1

(* The conversion before the column is counted from one is as good as none. *)
LEMMA NarrowOnce ==
  ASSUME NEW d \in Int
  PROVE  Narrow(Narrow(d) + 1) = Narrow(d + 1) /\ Narrow(d + 1) \in Int
<1>0. PICK w \in Nat \ {0} : w = Width
  BY LexerAssumption DEF LexerAssumption
<1>1. PICK q \in Int, r \in 0..(w - 1) : d = w * q + r /\ d % w = r
  BY Remainder
<1>2. CASE r + 1 < w
  <2>1. /\ r + 1 \in 0..(w - 1) /\ 0 \in Int
        /\ d + 1 = w * q + (r + 1) /\ r + 1 = w * 0 + (r + 1)
    BY <1>1, <1>2
  <2>2. (r + 1) % w = r + 1 /\ (d + 1) % w = r + 1
    BY <1>1, <2>1, RemainderIs
  <2> QED
    BY <1>0, <1>1, <2>1, <2>2 DEF Narrow
<1>3. CASE r + 1 = w
  <2>1. /\ q + 1 \in Int /\ 0 \in 0..(w - 1) /\ 1 \in Int
        /\ d + 1 = w * (q + 1) + 0 /\ r + 1 = w * 1 + 0
    BY <1>1, <1>3
  <2>2. (r + 1) % w = 0 /\ (d + 1) % w = 0
    BY <2>1, RemainderIs
  <2> QED
    BY <1>0, <1>1, <2>2 DEF Narrow
<1> QED
  BY <1>1, <1>2, <1>3

(* The end of input or an error: only the counters move. *)
LEMMA StopInv ==
  ASSUME LexInv, NEW from, from = Skipped(pos), pos' = from,
         lineCount' = lineCount + Cardinality(Newlines(pos, from)),
         lineStart' = LineStart(pos, from, lineStart),
         UNCHANGED <<input, tokens>>
  PROVE  LexInv'
<1>1. \A a, b : Newlines(a, b)' = Newlines(a, b)
  BY DEF Newlines
<1>2. /\ Len(tokens) \in Nat /\ DOMAIN tokens = 1..Len(tokens)
      /\ pos \in Nat /\ Len(input) \in Nat
  BY Lengths DEF LexInv
<1>3. \A n, p : ColumnBase(tokens, n, p)' = ColumnBase(tokens, n, p)
  BY DEF ColumnBase, Spans, LineStart, Newlines
<1>4. Types'
  BY AtFrom DEF LexInv, Types, TokenSet, Offsets
<1>5. Counters'
  BY <1>1, <1>2, <1>3, AtFrom DEF Counters
<1>6. Tiling'
  <2>1. \A i \in DOMAIN tokens : tokens[i].to <= from /\ tokens[i].to \in Nat
    BY <1>2, AtFrom, Lengths DEF LexInv, Tiling
  <2>2. Gap(End(Len(tokens)), from)
    BY AtFrom
  <2> QED
    BY <2>1, <2>2 DEF LexInv, Tiling, Gap, End
<1>7. Positions'
  BY <1>1, <1>3 DEF LexInv, Positions
<1> QED
  BY <1>4, <1>5, <1>6, <1>7 DEF LexInv

(* A token: the newlines within its value are those it spans, and if there  *)
(* are any, columns count from its end.                                     *)
LEMMA TokenInv ==
  ASSUME LexInv, NEW from, from = Skipped(pos), from < Len(input),
         NEW rule, NEW match \in Matching(rule, from),
         MoveOn(from, match), tokens' = Append(tokens, Token(from, match)),
         UNCHANGED input
  PROVE  LexInv'
<1>1. PICK n \in Nat : n = Len(tokens)
  BY Lengths DEF LexInv
<1>2. PICK to, new, lines, within, base :
        /\ to = match.to /\ new = Token(from, match)
        /\ lines = Cardinality(Newlines(0, from))
        /\ within = Newlines(from, to)
        /\ base = ColumnBase(tokens, n, from)
  OBVIOUS
<1>3. /\ DOMAIN tokens = 1..n /\ pos \in Nat /\ Len(input) \in Nat
      /\ \A i \in 1..n : tokens[i].from \in Nat /\ tokens[i].to \in Nat
  BY <1>1, Lengths DEF LexInv
<1>4. /\ from \in Nat /\ from \in Offsets /\ pos <= from
      /\ input[from + 1] \notin Blank /\ lines \in Nat
      /\ lineCount + Cardinality(Newlines(pos, from)) = lines + 1
      /\ LineStart(pos, from, lineStart) = base
      /\ Gap(End(n), from)
  BY <1>1, <1>2, <1>3, AtFrom
<1>5. /\ to \in (from + 1)..Len(input) /\ match.value \in Int \X Int
      /\ Newlines(match.value[1], match.value[2]) = within
      /\ input[to] # "nl"
  <2>1. Types
    BY DEF LexInv
  <2> QED
    BY <1>2, <1>4, <2>1, MatchingIs
<1>6. to \in Nat /\ from < to /\ to \in Offsets
  BY <1>3, <1>4, <1>5 DEF Offsets
<1>7. /\ Cardinality(within) \in Nat
      /\ Cardinality(Newlines(0, to)) = lines + Cardinality(within)
  <2>1. 0 <= from /\ from <= to /\ to <= to
    BY <1>4, <1>6
  <2>2. Cardinality(Newlines(from, to)) \in Nat
    BY <1>4, <1>6, <2>1, NewlinesCount
  <2>3. Cardinality(Newlines(0, to)) = Cardinality(Newlines(0, from)) + Cardinality(Newlines(from, to))
    BY <1>4, <1>6, <2>1, NewlinesCount
  <2> QED
    BY <1>2, <2>2, <2>3
<1>8. /\ pos' = to
      /\ lineCount' = lines + 1 + Cardinality(within)
      /\ lineStart' = IF within # {} THEN to ELSE base
  BY <1>2, <1>4, <1>5 DEF MoveOn
<1>9. base \in Nat
  BY <1>1, <1>2, <1>4, BaseIsOffset DEF LexInv
<1>10. new = [from |-> from, to |-> to, value |-> match.value,
              line |-> lines + 1, char |-> Narrow(Narrow(from - base) + 1)]
  BY <1>2, <1>4 DEF Token
<1>11. /\ new.from = from /\ new.to = to /\ new.line = lines + 1
       /\ new.char = Narrow(from - base + 1) /\ new.char \in Int
  <2>1. from - base \in Int
    BY <1>4, <1>9
  <2>2. new.char = Narrow(Narrow(from - base) + 1)
    BY <1>10
  <2>3. new.char = Narrow(from - base + 1) /\ new.char \in Int
    BY <2>1, <2>2, NarrowOnce
  <2> QED
    BY <1>10, <2>3
<1>12. new \in TokenSet
  BY <1>4, <1>5, <1>6, <1>9, <1>10, <1>11 DEF TokenSet
<1>13. tokens' = Append(tokens, new) /\ tokens \in Seq(TokenSet)
  BY <1>2 DEF LexInv, Types
<1>14. /\ Len(tokens') = n + 1 /\ DOMAIN tokens' = 1..(n + 1)
       /\ tokens'[n + 1] = new
       /\ \A i \in 1..n : tokens'[i] = tokens[i]
       /\ tokens' \in Seq(TokenSet)
  BY <1>1, <1>12, <1>13
<1>15. \A a, b : Newlines(a, b)' = Newlines(a, b)
  BY DEF Newlines
<1>16. \A m, p : ColumnBase(tokens, m, p)' = ColumnBase(tokens', m, p)
  BY DEF ColumnBase, Spans, LineStart, Newlines
<1>17. ASSUME NEW m \in 0..n, NEW p
       PROVE  ColumnBase(tokens', m, p) = ColumnBase(tokens, m, p)
  <2>1. PICK before, after : before = tokens /\ after = tokens'
    OBVIOUS
  <2>2. m \in Nat /\ \A j \in 1..m : after[j] = before[j]
    BY <1>14, <2>1
  <2>3. ColumnBase(after, m, p) = ColumnBase(before, m, p)
    BY <2>2, BaseOfPrefix
  <2> QED
    BY <2>1, <2>3
<1>18. Types'
  <2>1. TokenSet' = TokenSet /\ Offsets' = Offsets
    BY DEF TokenSet, Offsets
  <2>2. lineCount' \in Nat
    BY <1>4, <1>7, <1>8
  <2>3. (input \in Seq(Signs))'
    BY DEF LexInv, Types
  <2> QED
    BY <1>6, <1>8, <1>14, <2>1, <2>2, <2>3 DEF Types
<1>19. Counters'
  <2>1. ColumnBase(tokens', n + 1, to) =
          IF Newlines(from, to) # {} THEN to ELSE ColumnBase(tokens', n, from)
    <3>1. PICK after : after = tokens'
      OBVIOUS
    <3>2. after[n + 1].from = from /\ after[n + 1].to = to
      BY <1>11, <1>14, <3>1
    <3>3. ColumnBase(after, n + 1, to) =
            IF Newlines(from, to) # {} THEN to ELSE ColumnBase(after, n, from)
      <4>1. n \in Nat /\ from \in Nat /\ to \in Nat /\ from < to /\ input[to] # "nl"
        BY <1>1, <1>4, <1>5, <1>6
      <4>2. PICK m : m = n + 1
        OBVIOUS
      <4>3. after[m].from = from /\ after[m].to = to
        BY <3>2, <4>2
      <4>4. /\ Newlines(from, to) # {} => ColumnBase(after, m, to) = to
            /\ Newlines(from, to) = {} => ColumnBase(after, m, to) = ColumnBase(after, n, from)
        BY <4>1, <4>2, <4>3, TokenBase
      <4> QED
        BY <4>2, <4>4
    <3> QED
      BY <3>1, <3>3
  <2>2. ColumnBase(tokens', n, from) = base
    BY <1>1, <1>2, <1>17
  <2>3. lineStart' = ColumnBase(tokens', n + 1, to)
    BY <1>2, <1>8, <2>1, <2>2
  <2>4. ColumnBase(tokens, Len(tokens), pos)' = ColumnBase(tokens', Len(tokens'), pos')
    BY DEF ColumnBase, Spans, LineStart, Newlines
  <2>5. lineCount' = Cardinality(Newlines(0, to)) + 1
    BY <1>4, <1>7, <1>8
  <2>6. Cardinality(Newlines(0, pos))' = Cardinality(Newlines(0, to))
    BY <1>8 DEF Newlines
  <2> QED
    BY <1>8, <1>14, <2>3, <2>4, <2>5, <2>6 DEF Counters
<1>20. Tiling'
  <2>1. \A a, b : Gap(a, b)' = Gap(a, b)
    BY DEF Gap
  <2>2. \A m \in 0..n : (IF m = 0 THEN 0 ELSE tokens'[m].to) = End(m)
    BY <1>14 DEF End
  <2>3. ASSUME NEW i \in 1..n
        PROVE  /\ tokens'[i].from < tokens'[i].to /\ tokens'[i].to <= to
               /\ Gap(IF i - 1 = 0 THEN 0 ELSE tokens'[i - 1].to, tokens'[i].from)
    <3>1. /\ tokens[i].from < tokens[i].to /\ tokens[i].to <= pos
          /\ Gap(End(i - 1), tokens[i].from)
      BY <1>3 DEF LexInv, Tiling
    <3>2. i - 1 \in 0..n
      OBVIOUS
    <3>3. tokens[i].to <= to
      BY <1>3, <1>4, <1>6, <3>1
    <3> QED
      BY <1>14, <2>2, <3>1, <3>2, <3>3
  <2>4. /\ new.from < new.to /\ new.to <= to
        /\ Gap(IF n = 0 THEN 0 ELSE tokens'[n].to, new.from)
    BY <1>1, <1>4, <1>6, <1>11, <2>2
  <2>5. Gap(tokens'[n + 1].to, to)
    BY <1>6, <1>11, <1>14 DEF Gap
  <2>6. ASSUME NEW i \in 1..(n + 1)
        PROVE  /\ tokens'[i].from < tokens'[i].to /\ tokens'[i].to <= to
               /\ Gap(IF i - 1 = 0 THEN 0 ELSE tokens'[i - 1].to, tokens'[i].from)
    <3>1. CASE i \in 1..n
      BY <2>3, <3>1
    <3>2. CASE i = n + 1
      BY <1>1, <1>14, <2>4, <3>2
    <3> QED
      BY <1>1, <3>1, <3>2
  <2> QED
    BY <1>8, <1>14, <2>1, <2>5, <2>6 DEF Tiling, End, Gap
<1>21. Positions'
  <2>1. ASSUME NEW i \in 1..(n + 1)
        PROVE  /\ tokens'[i].line = Cardinality(Newlines(0, tokens'[i].from)) + 1
               /\ tokens'[i].char = Narrow(tokens'[i].from - ColumnBase(tokens', i - 1, tokens'[i].from) + 1)
    <3>0. i - 1 \in 0..n
      OBVIOUS
    <3>1. CASE i \in 1..n
      <4>1. /\ tokens[i].line = Cardinality(Newlines(0, tokens[i].from)) + 1
            /\ tokens[i].char = Narrow(tokens[i].from - ColumnBase(tokens, i - 1, tokens[i].from) + 1)
        BY <1>3, <3>1 DEF LexInv, Positions
      <4> QED
        BY <1>14, <1>17, <3>0, <3>1, <4>1
    <3>2. CASE i = n + 1
      <4>1. ColumnBase(tokens', n, from) = base
        BY <1>1, <1>2, <1>17
      <4> QED
        BY <1>1, <1>2, <1>11, <1>14, <3>2, <4>1
    <3> QED
      BY <1>1, <3>1, <3>2
  <2> QED
    BY <1>14, <1>15, <1>16, <2>1 DEF Positions
<1> QED
  BY <1>18, <1>19, <1>20, <1>21 DEF LexInv

(* Every step keeps the invariant.                                         *)
LEMMA LexNext == LexInv /\ [LexerNext]_lexerVars => LexInv'
<1> SUFFICES ASSUME LexInv, [LexerNext]_lexerVars PROVE LexInv'
  OBVIOUS
<1>1. CASE UNCHANGED lexerVars
  <2>1. \A n, p : ColumnBase(tokens, n, p)' = ColumnBase(tokens, n, p)
    BY <1>1 DEF lexerVars, ColumnBase, Spans, LineStart, Newlines
  <2>2. \A a, b : Newlines(a, b)' = Newlines(a, b)
    BY <1>1 DEF lexerVars, Newlines
  <2>3. Types' /\ Tiling'
    BY <1>1 DEF lexerVars, LexInv, Types, TokenSet, Offsets, Tiling, Gap, End
  <2>4. Counters' /\ Positions'
    BY <1>1, <2>1, <2>2 DEF lexerVars, LexInv, Counters, Positions
  <2> QED
    BY <2>3, <2>4 DEF LexInv
<1>2. CASE NextToken
  <2>1. ASSUME NEW k, NEW match \in Matching(Rules[k], Skipped(pos)),
               Skipped(pos) < Len(input), MoveOn(Skipped(pos), match),
               tokens' = Append(tokens, Token(Skipped(pos), match)),
               UNCHANGED input
        PROVE  LexInv'
    BY <2>1, TokenInv
  <2>2. ASSUME pos' = Skipped(pos),
               lineCount' = lineCount + Cardinality(Newlines(pos, Skipped(pos))),
               lineStart' = LineStart(pos, Skipped(pos), lineStart),
               UNCHANGED <<input, tokens>>
        PROVE  LexInv'
    BY <2>2, StopInv
  <2> QED
    BY <1>2, <2>1, <2>2 DEF NextToken
<1> QED
  BY <1>1, <1>2 DEF LexerNext

(* The inductive form implies that the tokens tile the text.               *)
LEMMA TilingTiles == LexInv => TokensTile
<1> SUFFICES ASSUME LexInv PROVE TokensTile
  OBVIOUS
<1> DEFINE ends == <<0>> \o [i \in DOMAIN tokens |-> tokens[i].to]
           starts == [i \in DOMAIN tokens |-> tokens[i].from] \o <<pos>>
           n == Len(tokens)
<1>1. /\ n \in Nat /\ DOMAIN tokens = 1..n
      /\ \A i \in 1..n : tokens[i].from \in Nat /\ tokens[i].to \in Nat
      /\ pos \in Nat
  BY Lengths DEF LexInv
<1>2. /\ [i \in DOMAIN tokens |-> tokens[i].to] \in Seq(Nat)
      /\ Len([i \in DOMAIN tokens |-> tokens[i].to]) = n
  BY <1>1
<1>3. /\ [i \in DOMAIN tokens |-> tokens[i].from] \in Seq(Nat)
      /\ Len([i \in DOMAIN tokens |-> tokens[i].from]) = n
  BY <1>1
<1>4. /\ DOMAIN ends = 1..(n + 1)
      /\ \A i \in 1..(n + 1) : ends[i] = End(i - 1)
  BY <1>1, <1>2 DEF End
<1>5. \A i \in 1..(n + 1) : starts[i] = IF i = n + 1 THEN pos ELSE tokens[i].from
  BY <1>1, <1>3
<1> HIDE DEF ends, starts, n
<1>6. ASSUME NEW i \in 1..(n + 1) PROVE Gap(ends[i], starts[i])
  <2>1. CASE i = n + 1
    <3>1. Gap(End(n), pos)
      BY DEF LexInv, Tiling, n
    <3> QED
      BY <1>1, <1>4, <1>5, <2>1, <3>1
  <2>2. CASE i \in 1..n
    <3>1. Gap(End(i - 1), tokens[i].from)
      BY <1>1, <2>2 DEF LexInv, Tiling
    <3> QED
      BY <1>1, <1>4, <1>5, <2>2, <3>1
  <2> QED
    BY <1>1, <2>1, <2>2
<1>7. \A i \in DOMAIN tokens : tokens[i].from < tokens[i].to
  BY DEF LexInv, Tiling
<1>8. /\ \A i \in DOMAIN tokens : tokens[i].from < tokens[i].to
      /\ \A i \in DOMAIN ends :
           /\ ends[i] <= starts[i]
           /\ \A j \in (ends[i] + 1)..starts[i] : input[j] \in {"nl", " "}
  BY <1>4, <1>6, <1>7 DEF Gap, Blank
<1> QED
  BY <1>8 DEF TokensTile, ends, starts

(* Behind no token that spans lines and ends in the line, columns count    *)
(* from its start.                                                         *)
LEMMA PositionsAreRight == LexInv => TokenPositions
BY DEF LexInv, Positions, TokenPositions, ColumnBase, Column

(* For every input and every list of rules, the tokens next returns tile    *)
(* the input but for blanks, and each is reported in the line where it      *)
(* starts.  Its column is the one where it starts, modulo the width of a    *)
(* uint16_t, provided that no token before it spans lines and ends in its   *)
(* line (lexer.cpp:68-123); behind such a token lexer.h:85 does not hold.   *)
THEOREM TokensAreAlwaysRight == LexerSpec => []TokensAreRight
<1>1. LexInv => TokensAreRight
  BY TilingTiles, PositionsAreRight DEF TokensAreRight
<1> QED
  BY LexInit, LexNext, <1>1, PTL DEF LexerSpec
=============================================================================
