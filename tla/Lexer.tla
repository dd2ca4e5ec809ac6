-------------------------------- MODULE Lexer --------------------------------
(***************************************************************************)
(* The lexer: definitions are tried in their order at the current          *)
(* position, blanks and newlines are skipped, tokens are numbered by line  *)
(* and column.  What a regular expression matches is external; the ones    *)
(* used here are a word, a text in quotes that is captured without them,   *)
(* and a single sign.                                                      *)
(***************************************************************************)
EXTENDS Integers, Sequences, FiniteSets, FiniteSetsExt

CONSTANTS Signs,      \* the characters: "nl", " ", "a", "q" (a quote), others
          Rules,      \* the definitions added: a sequence of expressions
          MaxInput,   \* the longest input
          Width       \* the numbers a uint16_t tells apart

ASSUME LexerAssumption == MaxInput \in Nat /\ Width \in Nat \ {0}

VARIABLES
  input, pos,            \* _input, and the offset of _pos in it
  lineCount, lineStart,  \* _lineCount, and the offset of _lineStart
  tokens,                \* what next has returned
  lexed                  \* "more", "eoi" or "error": the outcome of the latest call

lexerVars == <<input, pos, lineCount, lineStart, tokens, lexed>>

Newlines(from, to) == {i \in (from + 1)..to : input[i] = "nl"}

(***************************************************************************)
(* regex_search at the start of the rest: how many characters it takes and *)
(* which of them it captures.                                              *)
(***************************************************************************)
Closing(p) == {i \in (p + 2)..Len(input) : input[i] = "q" /\ \A j \in (p + 2)..(i - 1) : input[j] # "q"}

WordEnd(p) == CHOOSE i \in p..Len(input) :
                /\ \A j \in (p + 1)..i : input[j] = "a"
                /\ i < Len(input) => input[i + 1] # "a"

Matching(rule, p) ==
  IF rule = "word"
    THEN IF WordEnd(p) > p THEN {[to |-> WordEnd(p), value |-> <<p, WordEnd(p)>>]} ELSE {}
    ELSE IF rule = "quoted"
           THEN IF input[p + 1] = "q"
                  THEN {[to |-> i, value |-> <<p + 1, i - 1>>] : i \in Closing(p)} ELSE {}
           ELSE IF input[p + 1] = rule THEN {[to |-> p + 1, value |-> <<p, p + 1>>]} ELSE {}

FirstRule(p) ==
  {k \in DOMAIN Rules : Matching(Rules[k], p) # {} /\ \A j \in 1..(k - 1) : Matching(Rules[j], p) = {}}

setInput(text) ==
  /\ input = text
  /\ pos = 0 /\ lineCount = 1 /\ lineStart = 0
  /\ tokens = <<>> /\ lexed = "more"

LexerInit == \E n \in 0..MaxInput : \E text \in [1..n -> Signs] : setInput(text)

(* The first two definitions: next calls itself after each of these.       *)
Skipped(p) == CHOOSE i \in p..Len(input) :
                /\ \A j \in (p + 1)..i : input[j] \in {"nl", " "}
                /\ i < Len(input) => input[i + 1] \notin {"nl", " "}

LineStart(p, q, start) ==
  IF Newlines(p, q) = {} THEN start ELSE Max(Newlines(p, q))

(***************************************************************************)
(* Lexer::next.  The newlines within the value of a token count as lines,  *)
(* and the line is then taken to start behind the token.                   *)
(***************************************************************************)
MoveOn_noLines(from, match) ==  \* the newlines within a token are forgotten
  /\ lineCount' = lineCount + Cardinality(Newlines(pos, from))
  /\ lineStart' = LineStart(pos, from, lineStart)
  /\ pos' = match.to

MoveOn(from, match) ==
  LET within == Newlines(match.value[1], match.value[2])
  IN /\ lineCount' = lineCount + Cardinality(Newlines(pos, from)) + Cardinality(within)
     /\ lineStart' = IF within # {} THEN match.to ELSE LineStart(pos, from, lineStart)
     /\ pos' = match.to

Narrow(n) == n % Width   \* the conversion to uint16_t

(* The column is narrowed, counted from one, and narrowed again.           *)
Token(from, match) ==
  [from |-> from, to |-> match.to, value |-> match.value,
   line |-> lineCount + Cardinality(Newlines(pos, from)),
   char |-> Narrow(Narrow(from - LineStart(pos, from, lineStart)) + 1)]

NextToken ==
  /\ lexed = "more"
  /\ LET from == Skipped(pos) IN
       \/ /\ from < Len(input) /\ FirstRule(from) # {}
          /\ \E k \in FirstRule(from) : \E match \in Matching(Rules[k], from) :
               /\ MoveOn(from, match)
               /\ tokens' = Append(tokens, Token(from, match))
          /\ UNCHANGED lexed
       \/ /\ from < Len(input) => FirstRule(from) = {}
          /\ lexed' = IF from = Len(input) THEN "eoi" ELSE "error"
          /\ pos' = from
          /\ lineCount' = lineCount + Cardinality(Newlines(pos, from))
          /\ lineStart' = LineStart(pos, from, lineStart)
          /\ UNCHANGED tokens
  /\ UNCHANGED input

LexerNext == NextToken

LexerSpec == LexerInit /\ [][LexerNext]_lexerVars

(***************************************************************************)
(* Properties                                                              *)
(***************************************************************************)

(* The starting column position of what begins behind p.                  *)
Column(p) == p - LineStart(0, p, 0) + 1

(* The first n tokens that span lines and end in the line of p.            *)
Spans(toks, n, p) ==
  {j \in 1..n : Newlines(toks[j].from, toks[j].to) # {} /\ toks[j].to > LineStart(0, p, 0)}

(* A token starts in the line it is reported in, whatever newlines stood   *)
(* in the blanks and in the values before it.  Where no token that spans   *)
(* lines ends in that line, it starts in the column reported, modulo 2^16; *)
(* behind one that does, the column is wrong (lexer.cpp:80-105).           *)
TokenPositions ==
  \A i \in DOMAIN tokens :
    LET t == tokens[i]
    IN /\ t.line = Cardinality(Newlines(0, t.from)) + 1
       /\ Spans(tokens, i - 1, t.from) = {} => t.char = Narrow(Column(t.from))

(* "The starting column position of the token" (lexer.h:85).               *)
StartingColumns == \A i \in DOMAIN tokens : tokens[i].char = Narrow(Column(tokens[i].from))

(* The tokens tile the input: nothing but blanks lies between two of them, *)
(* and before the end or the error at which lexing stops; and every call   *)
(* that returns a token moves on.                                          *)
TokensTile ==
  LET ends == <<0>> \o [i \in DOMAIN tokens |-> tokens[i].to]
      starts == [i \in DOMAIN tokens |-> tokens[i].from] \o <<pos>>
  IN /\ \A i \in DOMAIN tokens : tokens[i].from < tokens[i].to
     /\ \A i \in DOMAIN ends :
       /\ ends[i] <= starts[i]
       /\ \A j \in (ends[i] + 1)..starts[i] : input[j] \in {"nl", " "}

(* The positions and the extent of the tokens, as a parser built on the    *)
(* lexer reports them (lexer.cpp:68-123).                                  *)
TokensAreRight == TokenPositions /\ TokensTile
=============================================================================
