------------------------------ MODULE MCLibrary ------------------------------
(***************************************************************************)
(* The parts of the base library that do not share state, checked side by  *)
(* side: a behaviour is one of two threads on a file system, of a path, of *)
(* a lexer, or a single conversion of a text.                              *)
(***************************************************************************)
EXTENDS Filesystem, Path, Lexer, Texts

VARIABLE part

libraryVars == <<part, fsVars, pathVars, lexerVars, work>>

Dir == Entry("directory", <<>>)
A == <<"a">>
B == <<"a", "b">>
F == <<"a", "f">>
L == <<"a", "l">>
O == <<"o">>
OF == <<"o", "f">>
T == <<"t">>

(* A directory with a directory and a file; one with a link to a directory *)
(* outside; one with a directory that may not be read and a link to itself.*)
SomeTrees ==
  {[p \in {<<>>, A, B, T, F} |-> IF p = F THEN [Entry("regular", <<>>) EXCEPT !.size = 1] ELSE Dir],
   [p \in {<<>>, A, O, T, L, OF} |->
      CASE p = OF -> Entry("regular", <<>>) [] p = L -> Entry("symlink", O) [] OTHER -> Dir],
   [p \in {<<>>, A, B, T, L} |->
      CASE p = B -> [Dir EXCEPT !.open = FALSE] [] p = L -> Entry("symlink", A) [] OTHER -> Dir]}

CallOf(op, p) == [op |-> op, path |-> p, arg |-> [follow |-> FALSE]]
Using(call, arg) == [call EXCEPT !.arg = arg]

SomeCalls ==
  {CallOf("remove_all", A), CallOf("remove", B),
   CallOf("create_directories", B \o <<"c">>),
   CallOf("walk", A), Using(CallOf("walk", A), [follow |-> TRUE]),
   CallOf("guard", <<>>), CallOf("is_empty", A), CallOf("is_empty", F),
   Using(CallOf("create_symlink", B), [to |-> O]),
   Using(CallOf("permissions", B), [add |-> TRUE, remove |-> TRUE]),
   Using(CallOf("permissions", B), [add |-> TRUE, remove |-> FALSE]),
   CallOf("current_path", T), CallOf("touch", B)}

SomeTmp == T

SomeNames == {<<"a">>, <<"a", ".", "a">>, <<".", "a">>}

SomeRules == <<"word", "quoted", "!">>

(* Characters, escapes of both separators, and escapes that break off. *)
SomeQueries ==
  LET Pieces == {<<"%", "2", "6">>, <<"%", "3", "D">>, <<"%", "2">>, <<"%">>} \cup {<<c>> : c \in {"2", "&", "=", "+", "g"}}
  IN {FlattenSeq(s) : s \in UNION {[1..n -> Pieces] : n \in 0..5}}

(* One cookie, or two of different names. *)
SomeCookieLists ==
  LET Of(name, value) ==
        {[HttpCookie(name, value) EXCEPT !.domain = d, !.path = p, !.maxAge = age, !.secure = s, !.httpOnly = h] :
           d \in {"", "d"}, p \in {"", "p", value}, age \in {0, 9, MaxAge}, s, h \in BOOLEAN}
  IN {<<c>> : c \in Of("n", "v")} \cup (Of("n", "v") \X Of("m", "w"))

SomeHeaders ==
  LET Parts == {Part("$version", "1"), Part("$version", "2"), Part("$domain", "x"), Part("$path", "y"),
                Part("$domain", ""), Part("$other", "z"), Part("c", "1")}
  IN UNION {[1..n -> Parts] : n \in 1..4}

SomeWords == [signed : BOOLEAN, bits : 3..5]

Init ==
  /\ part \in {"files", "path", "lexer", "texts"}
  /\ IF part = "files" THEN FsInit ELSE tree = <<>> /\ cwd = <<>> /\ job = [t \in Threads |-> Idle]
  /\ PathInit
  /\ IF part = "lexer" THEN LexerInit ELSE setInput(<<>>)
  /\ IF part = "texts" THEN TextsInit ELSE work = [kind |-> "none"]

Next ==
  /\ UNCHANGED <<part, work>>
  /\ \/ /\ part = "files" /\ FsNext
        /\ job[1] = Idle => job'[2] = Idle   \* the threads differ only in name
        /\ UNCHANGED <<pathVars, lexerVars>>
     \/ part = "path" /\ PathNext /\ UNCHANGED <<fsVars, lexerVars>>
     \/ part = "lexer" /\ LexerNext /\ UNCHANGED <<fsVars, pathVars>>

(* The lexer alone. *)
ColumnsSpec == part = "lexer" /\ Init /\ [][Next]_libraryVars

(* Weak fairness of the threads in a call, with the state in which their   *)
(* steps are enabled spelt out.                                            *)
Spec ==
  /\ Init /\ [][Next]_libraryVars
  /\ []<>~Busy \/ []<><<\E t \in Threads : FsStep(t)>>_libraryVars
=============================================================================
