----------------------------- MODULE Filesystem -----------------------------
(***************************************************************************)
(* The operations of acatl::filesystem that take several system calls,     *)
(* run by threads of one process on one directory tree: one action is one  *)
(* system call together with the code up to the next one.  A path is the   *)
(* sequence of its names, <<>> the root directory.                         *)
(***************************************************************************)
EXTENDS Integers, Sequences, FiniteSets, SequencesExt

CONSTANTS Threads,
          Trees,       \* the trees the threads may find
          Calls,       \* what they may call: an operation and its arguments
          Tmp,         \* the directory for temporary files
          TmpNames,    \* the names mkdtemp makes up
          MaxLinks,    \* bound: links followed in one path, the kernel's ELOOP
          MaxPops      \* bound: calls of pop() in one iteration

VARIABLES tree,        \* paths to entries: kind, target of a link, permission, size
          cwd,         \* the current directory of the process
          job          \* what each thread is doing

fsVars == <<tree, cwd, job>>

Gone == <<"(unreachable)">>
Ok == "ok"

Idle == [op |-> "idle", path |-> <<>>, pc |-> "idle", ec |-> Ok,
         arg |-> [follow |-> FALSE],
         stack |-> <<>>,      \* activations of remove_all, or the _iteratorStack
         sum |-> 0,           \* the value returned
         pending |-> TRUE,    \* _recursionPending
         seen |-> <<>>,       \* history: the entries an iteration has shown
         removed |-> {},      \* history: what the call removed
         pops |-> 0,          \* history: calls of pop()
         below |-> FALSE,     \* history: the user went below the guard's directory
         disturbed |-> FALSE] \* history: somebody else changed the tree

FsInit ==
  /\ tree \in Trees
  /\ cwd = <<>>
  /\ job = [t \in Threads |-> Idle]

-----------------------------------------------------------------------------
(* The operating system.                                                   *)
Directory(e) == e.kind = "directory"

(* Path resolution; a link at the end is followed if `last' says so. *)
Resolve(tr, p, last) ==
  LET RECURSIVE Walk(_, _, _)
      Walk(at, rest, links) ==
        LET next == at \o <<Head(rest)>>
        IN IF rest = <<>> THEN [ec |-> Ok, at |-> at]
           ELSE IF ~Directory(tr[at]) THEN [ec |-> "ENOTDIR", at |-> at]
           ELSE IF ~tr[at].open THEN [ec |-> "EACCES", at |-> at]
           ELSE IF next \notin DOMAIN tr THEN [ec |-> "ENOENT", at |-> at]
           ELSE IF tr[next].kind # "symlink" \/ (Tail(rest) = <<>> /\ ~last)
                THEN Walk(next, Tail(rest), links)
           ELSE IF links = MaxLinks THEN [ec |-> "ELOOP", at |-> at]
           ELSE Walk(<<>>, tr[next].to \o Tail(rest), links + 1)
  IN Walk(<<>>, p, 0)

Children(tr, p) == {q \in DOMAIN tr : q # <<>> /\ Front(q) = p}
Below(tr, p) == {q \in DOMAIN tr : IsPrefix(p, q)}

(* opendir with the first readdir: the names, in no particular order. *)
OpenDir(tr, p) ==
  LET r == Resolve(tr, p, TRUE)
  IN IF r.ec # Ok THEN [ec |-> r.ec, names |-> {}]
     ELSE IF ~Directory(tr[r.at]) THEN [ec |-> "ENOTDIR", names |-> {}]
     ELSE IF ~tr[r.at].open THEN [ec |-> "EACCES", names |-> {}]
     ELSE [ec |-> Ok, names |-> {Last(q) : q \in Children(tr, r.at)}]

Without(tr, p) == [q \in DOMAIN tr \ {p} |-> tr[q]]
With(tr, p, e) == [q \in DOMAIN tr \cup {p} |-> IF q = p THEN e ELSE tr[q]]
Entry(kind, to) == [kind |-> kind, to |-> to, open |-> TRUE, size |-> 0]

(* Making an entry: where it would be, or why it cannot be made. *)
Create(tr, p) ==
  LET r == Resolve(tr, Front(p), TRUE)
      at == r.at \o <<Last(p)>>
  IN IF p = <<>> THEN [ec |-> "EEXIST", at |-> p]
     ELSE IF r.ec # Ok THEN r
     ELSE IF ~Directory(tr[r.at]) THEN [ec |-> "ENOTDIR", at |-> at]
     ELSE IF ~tr[r.at].open THEN [ec |-> "EACCES", at |-> at]
     ELSE IF at \in DOMAIN tr THEN [ec |-> "EEXIST", at |-> at]
     ELSE [ec |-> Ok, at |-> at]

-----------------------------------------------------------------------------
(* status, symlink_status and the tests on their results.                  *)
Status(r, tr) ==
  [ec |-> r.ec,
   type |-> CASE r.ec = Ok -> tr[r.at].kind
              [] r.ec \in {"ENOENT", "ENOTDIR"} -> "not_found"
              [] r.ec = "EACCES" -> "unknown"
              [] OTHER -> "none"]

status(p) == Status(Resolve(tree, p, TRUE), tree)
symlink_status(p) == Status(Resolve(tree, p, FALSE), tree)
exists(s) == s.type \notin {"none", "not_found"}
is_directory(s) == s.type = "directory"

-----------------------------------------------------------------------------
(* A thread goes on with r, and the tree becomes tr. *)
Becomes(t, r, tr) ==
  /\ tree' = tr
  /\ job' = [u \in Threads |->
               IF u = t THEN r
               ELSE [job[u] EXCEPT !.disturbed = job[u].pc # "idle" /\ (@ \/ tr # tree)]]
  /\ cwd' = IF cwd = Gone \/ cwd \in DOMAIN tr THEN cwd ELSE Gone

Goto(t, pc) == Becomes(t, [job[t] EXCEPT !.pc = pc], tree)

Ended(r, ec) == [r EXCEPT !.pc = "done", !.ec = ec]
Finish(t, ec) == Becomes(t, Ended(job[t], ec), tree)

(* An exception ends the call; in the destructor of the guard, or in a     *)
(* function that is noexcept, it ends the program.                         *)
Throw(t) ==
  Finish(t, IF job[t].op \in {"guard", "create_directories"} THEN "terminate" ELSE "throw")

At(t, pc) == job[t].pc = pc /\ \A u \in Threads : job[u].ec # "terminate"

FirstStep ==
  [remove_all |-> "lstat", remove |-> "rm_lstat", create_directories |-> "cd_status",
   walk |-> "w_begin", guard |-> "g_tmp", is_empty |-> "e_status",
   create_symlink |-> "symlink", permissions |-> "p_status",
   current_path |-> "chdir", touch |-> "touch"]

Activation(p) == [path |-> p, todo |-> {}, sum |-> 0, cur |-> "", dir |-> FALSE]

Call(t, c) ==
  /\ At(t, "idle")
  /\ Becomes(t, [Idle EXCEPT !.op = c.op, !.path = c.path, !.arg = c.arg,
                             !.pc = FirstStep[c.op],
                             !.sum = IF c.op = "create_directories" THEN 1 ELSE 0,
                             !.stack = IF c.op \in {"remove_all", "remove"}
                                       THEN <<Activation(c.path)>> ELSE <<>>], tree)

-----------------------------------------------------------------------------
(* remove_all and remove.  The stack holds the activations of remove_all.  *)
Top(t) == Last(job[t].stack)
SetTop(r, f) == [r EXCEPT !.stack = Front(@) \o <<f>>]

(* remove_all returns sum with the error code ec. *)
Return(r, ec, sum) ==
  LET rest   == Front(r.stack)
      caller == Last(rest)
  IN IF rest = <<>> THEN [Ended(r, ec) EXCEPT !.stack = rest, !.sum = sum]
     ELSE IF ec = Ok
          THEN SetTop([r EXCEPT !.stack = rest, !.pc = "loop"],
                      [caller EXCEPT !.sum = @ + sum])
          ELSE SetTop([r EXCEPT !.stack = rest, !.pc = "rm_lstat"],
                      [caller EXCEPT !.sum = -1])

RemoveAllLstat(t) ==
  LET s == symlink_status(Top(t).path)
  IN /\ At(t, "lstat")
     /\ IF exists(s) THEN Goto(t, "stat") ELSE Becomes(t, Return(job[t], s.ec, 0), tree)

RemoveAllStat(t) ==
  LET s == status(Top(t).path)
  IN /\ At(t, "stat")
     /\ CASE s.type = "none" -> Throw(t)
          [] is_directory(s) -> Goto(t, "opendir")
          [] OTHER -> Goto(t, "rm_lstat")

RemoveAllOpen(t) ==
  LET d == OpenDir(tree, Top(t).path)
  IN /\ At(t, "opendir")
     /\ IF d.ec # Ok THEN Throw(t)
        ELSE Becomes(t, [SetTop(job[t], [Top(t) EXCEPT !.todo = d.names, !.dir = TRUE])
                           EXCEPT !.pc = "loop"], tree)

RemoveAllEntry(t) ==
  /\ At(t, "loop")
  /\ \E n \in Top(t).todo :
       LET r == SetTop(job[t], [Top(t) EXCEPT !.todo = @ \ {n}])
       IN Becomes(t, [r EXCEPT !.stack = Append(@, Activation(Top(t).path \o <<n>>)),
                               !.pc = "lstat"], tree)

RemoveAllEntriesDone(t) ==
  /\ At(t, "loop")
  /\ Top(t).todo = {}
  /\ Goto(t, "rm_lstat")

(* Mutants of Removed: the entry itself is not counted; an error is lost.  *)
Removed_uncounted(r, f, ec) ==
  Return(r, ec, IF ec = Ok THEN f.sum ELSE IF f.dir THEN -1 ELSE 0)

Removed_errorLost(r, f, ec) == Return(r, Ok, f.sum + 1)

(* What remove_all makes of the result of remove(p, ec). *)
Removed(r, f, ec) ==
  Return(r, ec, IF ec = Ok THEN f.sum + 1 ELSE IF f.dir THEN -1 ELSE 0)

RemoveLstat(t) ==
  LET s == symlink_status(Top(t).path)
  IN /\ At(t, "rm_lstat")
     /\ IF exists(s) THEN Goto(t, "rm") ELSE Becomes(t, Removed(job[t], Top(t), s.ec), tree)

RemoveEntry(t) ==
  LET r  == Resolve(tree, Top(t).path, FALSE)
      ec == IF r.ec # Ok THEN r.ec
            ELSE IF Children(tree, r.at) # {} THEN "ENOTEMPTY"
            ELSE IF r.at = <<>> THEN "EBUSY" ELSE Ok
  IN /\ At(t, "rm")
     /\ IF ec # Ok THEN Becomes(t, Removed(job[t], Top(t), ec), tree)
        ELSE Becomes(t, Removed([job[t] EXCEPT !.removed = @ \cup {r.at}], Top(t), Ok),
                     Without(tree, r.at))

-----------------------------------------------------------------------------
(* create_directories: sum counts the elements of the path.                *)
Made(t) == SubSeq(job[t].path, 1, job[t].sum)

NextElement(r) ==
  IF r.sum >= Len(r.path) THEN Ended(r, Ok)
  ELSE [r EXCEPT !.sum = @ + 1, !.pc = "cd_status"]

CreateStatus(t) ==
  LET s == status(Made(t))
  IN /\ At(t, "cd_status")
     /\ CASE exists(s) /\ ~is_directory(s) -> Finish(t, "ENOTDIR")
          [] exists(s) /\ is_directory(s) -> Becomes(t, NextElement(job[t]), tree)
          [] OTHER -> Goto(t, "cd_parent")

CreateParent_retries(t) ==  \* mutant: waits for the parent to appear
  LET s == status(Front(Made(t)))
  IN /\ At(t, "cd_parent")
     /\ CASE s.type = "none" -> Throw(t)
          [] is_directory(s) -> Goto(t, "cd_again")
          [] OTHER -> Goto(t, "cd_status")

CreateParent(t) ==
  LET s == status(Front(Made(t)))
  IN /\ At(t, "cd_parent")
     /\ CASE s.type = "none" -> Throw(t)
          [] is_directory(s) -> Goto(t, "cd_again")
          [] OTHER -> Finish(t, "ENOTDIR")

CreateAgain(t) ==
  LET s == status(Made(t))
  IN /\ At(t, "cd_again")
     /\ IF exists(s) /\ ~is_directory(s) THEN Finish(t, "ENOTDIR") ELSE Goto(t, "mkdir")

CreateMkdir_exists(t) ==  \* mutant: EEXIST is an error
  LET c == Create(tree, Made(t))
  IN /\ At(t, "mkdir")
     /\ CASE c.ec = Ok -> Becomes(t, NextElement(job[t]), With(tree, c.at, Entry("directory", <<>>)))
          [] OTHER -> Finish(t, c.ec)

CreateMkdir(t) ==
  LET c == Create(tree, Made(t))
  IN /\ At(t, "mkdir")
     /\ CASE c.ec = Ok -> Becomes(t, NextElement(job[t]), With(tree, c.at, Entry("directory", <<>>)))
          [] c.ec = "EEXIST" -> Becomes(t, NextElement(job[t]), tree)
          [] OTHER -> Finish(t, c.ec)

-----------------------------------------------------------------------------
(* recursive_directory_iterator in a range-based for.                      *)
Place(f, n) == [f EXCEPT !.cur = n, !.todo = @ \ {n}]
Current(f) == f.path \o <<f.cur>>

(* The places operator++ and findNextEntry may come to: the next entry of  *)
(* the innermost directory that still has one.                             *)
Advance(st) ==
  LET open == {i \in DOMAIN st : st[i].todo # {}}
      i    == CHOOSE j \in open : \A k \in open : k <= j
  IN IF open = {} THEN {<<>>}
     ELSE {SubSeq(st, 1, i - 1) \o <<Place(st[i], n)>> : n \in st[i].todo}

Enter(st, p, names) == Advance(Append(st, [Activation(p) EXCEPT !.todo = names]))

Show(t, st) ==
  Becomes(t, IF st = <<>> THEN [Ended(job[t], Ok) EXCEPT !.stack = st]
             ELSE [job[t] EXCEPT !.stack = st, !.pc = "w_body",
                                 !.seen = Append(@, Current(Last(st)))], tree)

WalkBegin(t) ==
  LET d == OpenDir(tree, job[t].path)
  IN /\ At(t, "w_begin")
     /\ IF d.ec # Ok THEN Finish(t, d.ec)
        ELSE \E st \in Enter(<<>>, job[t].path, d.names) : Show(t, st)

(* What the body of the loop may do: nothing, disable_recursion_pending(), *)
(* or pop(), which leaves the parent where it was.                         *)
WalkBody(t) ==
  /\ At(t, "w_body")
  /\ Goto(t, IF job[t].pending THEN "w_stat" ELSE "w_next")

WalkDisable(t) ==
  /\ At(t, "w_body")
  /\ job[t].pending /\ MaxPops > 0
  /\ Becomes(t, [job[t] EXCEPT !.pending = FALSE], tree)

WalkPop(t) ==
  /\ At(t, "w_body")
  /\ job[t].pops < MaxPops
  /\ LET r == [job[t] EXCEPT !.stack = Front(@), !.pops = @ + 1]
     IN Becomes(t, IF r.stack = <<>> THEN Ended(r, Ok) ELSE r, tree)

(* status() and symlink_status() of directory_entry keep an error to       *)
(* themselves: the entry is then no directory, or no link.                 *)
WalkStat(t) ==
  /\ At(t, "w_stat")
  /\ Goto(t, IF is_directory(status(Current(Top(t)))) THEN "w_lstat" ELSE "w_next")

WalkLstat_follows(t) ==  \* mutant: links are always followed
  At(t, "w_lstat") /\ Goto(t, "w_open")

WalkLstat(t) ==
  LET s == symlink_status(Current(Top(t)))
  IN /\ At(t, "w_lstat")
     /\ Goto(t, IF s.type = "symlink" /\ ~job[t].arg.follow THEN "w_next" ELSE "w_open")

WalkOpen(t) ==
  LET p == Current(Top(t))
      d == OpenDir(tree, p)
  IN /\ At(t, "w_open")
     /\ IF d.ec # Ok THEN Throw(t)
        ELSE \E st \in Enter(job[t].stack, p, d.names) : Show(t, st)

WalkNext(t) ==
  /\ At(t, "w_next")
  /\ \E st \in Advance(job[t].stack) : Show(t, st)

-----------------------------------------------------------------------------
(* TemporaryDirectoryGuard: the constructor, a user that leaves a file in  *)
(* the directory and may change into it, or into a directory made in it,   *)
(* and the destructor.                                                     *)
GuardTmp(t) ==
  /\ At(t, "g_tmp")
  /\ IF is_directory(status(Tmp)) THEN Goto(t, "g_mkdtemp") ELSE Finish(t, "throw")

GuardMkdtemp(t) ==
  /\ At(t, "g_mkdtemp")
  /\ \E n \in TmpNames :
       LET c == Create(tree, Tmp \o <<n>>)
       IN /\ c.ec # "EEXIST"
          /\ IF c.ec # Ok THEN Finish(t, "throw")
             ELSE Becomes(t, [job[t] EXCEPT !.path = Tmp \o <<n>>, !.pc = "g_use"],
                          With(tree, c.at, Entry("directory", <<>>)))

GuardUse(t, where) ==
  LET c == Create(tree, job[t].path \o <<"f">>)
      d == Create(tree, job[t].path \o <<"d">>)
      file == IF c.ec = Ok THEN With(tree, c.at, Entry("regular", <<>>)) ELSE tree
      tr == IF where = "below" /\ d.ec = Ok THEN With(file, d.at, Entry("directory", <<>>)) ELSE file
      r == Resolve(tr, IF where = "below" THEN job[t].path \o <<"d">> ELSE job[t].path, TRUE)
      goes == where # "stays" /\ r.ec = Ok /\ Directory(tr[r.at])
  IN /\ At(t, "g_use")
     /\ tree' = tr
     /\ cwd' = IF goes THEN r.at ELSE cwd
     /\ job' = [u \in Threads |->
                  IF u = t THEN [job[t] EXCEPT !.pc = "g_cwd", !.below = goes /\ where = "below"]
                  ELSE [job[u] EXCEPT !.disturbed = job[u].pc # "idle"]]

GuardCwd(t) ==
  /\ At(t, "g_cwd")
  /\ IF cwd = Gone THEN Throw(t) ELSE Becomes(t, [job[t] EXCEPT !.pc = "g_equivalent",
                                                               !.stack = <<Activation(cwd)>>], tree)

(* equivalent(current_path(), _path, ec), its two calls of stat together. *)
GuardEquivalent(t) ==
  LET r1 == Resolve(tree, Top(t).path, TRUE)
      r2 == Resolve(tree, job[t].path, TRUE)
  IN /\ At(t, "g_equivalent")
     /\ IF r1.ec # Ok \/ r2.ec # Ok
        THEN Becomes(t, [Ended(job[t], IF r1.ec # Ok THEN r1.ec ELSE r2.ec) EXCEPT !.stack = <<>>], tree)
        ELSE Becomes(t, [job[t] EXCEPT !.stack = <<Activation(job[t].path)>>,
                                       !.pc = IF r1.at = r2.at THEN "g_chdir" ELSE "lstat"], tree)

GuardChdir_stays(t) ==  \* mutant: the directory to be removed is not left
  At(t, "g_chdir") /\ Goto(t, "lstat")

GuardChdir(t) ==
  /\ At(t, "g_chdir")
  /\ IF cwd = Gone THEN Throw(t)
     ELSE /\ cwd' = Front(cwd)
          /\ job' = [job EXCEPT ![t].pc = "lstat"]
          /\ UNCHANGED tree

-----------------------------------------------------------------------------
(* Operations of one or two system calls.                                  *)
EmptyStatus(t) ==
  LET s == status(job[t].path)
  IN /\ At(t, "e_status")
     /\ IF s.ec # Ok THEN Finish(t, s.ec)
        ELSE Goto(t, IF is_directory(s) THEN "e_dir" ELSE "e_size")

Answer(t, ec, yes) ==
  Becomes(t, [Ended(job[t], ec) EXCEPT !.sum = IF yes THEN 1 ELSE 0], tree)

EmptyDirectory(t) ==
  LET d == OpenDir(tree, job[t].path)
  IN /\ At(t, "e_dir")
     /\ Answer(t, d.ec, d.ec = Ok /\ d.names = {})

(* file_size gives -1 without an error for what is no regular file. *)
EmptyFile(t) ==
  LET r == Resolve(tree, job[t].path, TRUE)
  IN /\ At(t, "e_size")
     /\ Answer(t, r.ec, r.ec = Ok /\ tree[r.at].kind = "regular" /\ tree[r.at].size = 0)

CreateSymlink(t) ==
  LET c == Create(tree, job[t].path)
  IN /\ At(t, "symlink")
     /\ Becomes(t, Ended(job[t], c.ec),
                IF c.ec = Ok THEN With(tree, c.at, Entry("symlink", job[t].arg.to)) ELSE tree)

(* permissions returns at once unless both add_perms and remove_perms are  *)
(* set, and then adds.                                                     *)
PermissionsStatus(t) ==
  /\ At(t, "p_status")
  /\ CASE ~(job[t].arg.add /\ job[t].arg.remove) -> Finish(t, Ok)
       [] status(job[t].path).type = "none" -> Throw(t)
       [] OTHER -> Goto(t, "chmod")

Chmod(t) ==
  LET r == Resolve(tree, job[t].path, TRUE)
  IN /\ At(t, "chmod")
     /\ Becomes(t, Ended(job[t], r.ec),
                IF r.ec = Ok THEN [tree EXCEPT ![r.at].open = TRUE] ELSE tree)

CurrentPath(t) ==
  LET r  == Resolve(tree, job[t].path, TRUE)
      ec == IF r.ec # Ok THEN r.ec ELSE IF Directory(tree[r.at]) THEN Ok ELSE "ENOTDIR"
  IN /\ At(t, "chdir")
     /\ cwd' = IF ec = Ok THEN r.at ELSE cwd
     /\ job' = [job EXCEPT ![t] = Ended(@, ec)]
     /\ UNCHANGED tree

(* Another program, or another library, puts a file there. *)
Touch(t) ==
  LET c == Create(tree, job[t].path)
  IN /\ At(t, "touch")
     /\ Becomes(t, Ended(job[t], c.ec),
                IF c.ec = Ok THEN With(tree, c.at, Entry("regular", <<>>)) ELSE tree)

-----------------------------------------------------------------------------
RemoveAll(t) ==
  \/ RemoveAllLstat(t) \/ RemoveAllStat(t) \/ RemoveAllOpen(t)
  \/ RemoveAllEntry(t) \/ RemoveAllEntriesDone(t) \/ RemoveLstat(t) \/ RemoveEntry(t)

CreateDirectories(t) ==
  CreateStatus(t) \/ CreateParent(t) \/ CreateAgain(t) \/ CreateMkdir(t)

Iterate(t) ==
  \/ WalkBegin(t) \/ WalkBody(t) \/ WalkDisable(t) \/ WalkPop(t)
  \/ WalkStat(t) \/ WalkLstat(t) \/ WalkOpen(t) \/ WalkNext(t)

Guard(t) ==
  \/ GuardTmp(t) \/ GuardMkdtemp(t) \/ \E w \in {"stays", "enters", "below"} : GuardUse(t, w)
  \/ GuardCwd(t) \/ GuardEquivalent(t) \/ GuardChdir(t)

Others(t) ==
  \/ EmptyStatus(t) \/ EmptyDirectory(t) \/ EmptyFile(t) \/ CreateSymlink(t)
  \/ PermissionsStatus(t) \/ Chmod(t) \/ CurrentPath(t) \/ Touch(t)

FsStep(t) == RemoveAll(t) \/ CreateDirectories(t) \/ Iterate(t) \/ Guard(t) \/ Others(t)

FsNext == \E t \in Threads : FsStep(t) \/ \E c \in Calls : Call(t, c)

(* When a step of some thread is enabled: one of them is in a call and the *)
(* program has not been terminated.  The steps are weakly fair.            *)
Busy ==
  /\ \E t \in Threads : job[t].pc \notin {"idle", "done"}
  /\ \A t \in Threads : job[t].ec # "terminate"

-----------------------------------------------------------------------------
Done(t) == job[t].pc = "done"
LinkTargets == {c.arg.to : c \in {d \in Calls : d.op = "create_symlink"}}
                 \cup UNION {{tr[p].to : p \in {q \in DOMAIN tr : tr[q].kind = "symlink"}} : tr \in Trees}

(* remove and remove_all without an error code have removed their path,    *)
(* whatever other threads did to the tree between the system calls and     *)
(* although remove overwrites the error code of the entries before it.     *)
RemovedWhenOk ==
  [][\A t \in Threads :
       /\ job[t].op \in {"remove_all", "remove"} /\ ~Done(t)
       /\ job'[t].pc = "done" /\ job'[t].ec = Ok
       => Resolve(tree', job[t].path, FALSE).ec # Ok]_fsVars

(* The count of remove_all is never larger than what it has removed, even  *)
(* where -1 is incremented, and exact if nobody else touched the tree.     *)
CountIsRight ==
  \A t \in Threads :
    job[t].op = "remove_all" /\ Done(t) /\ job[t].ec = Ok
      => /\ job[t].sum \in 0..Cardinality(job[t].removed)
         /\ ~job[t].disturbed => job[t].sum = Cardinality(job[t].removed)

(* What remove_all takes away lies below its path, or below the target of  *)
(* a symbolic link: it follows links to directories, also those that take  *)
(* the place of a directory between its test and its opendir.              *)
RemovesBelow ==
  \A t \in Threads : job[t].op \in {"remove_all", "remove"} =>
    \A q \in job[t].removed : \E p \in {job[t].path} \cup LinkTargets : IsPrefix(p, q)

(* What remove_all removes, and what it says it has removed.               *)
RemovesAndCounts == CountIsRight /\ RemovesBelow

(* Threads that create overlapping paths at the same time all succeed and  *)
(* find their directory, unless something else is in the way.              *)
CreatorsAgree ==
  (\A t \in Threads : job[t].op \in {"idle", "create_directories"}) =>
    \A t \in Threads : Done(t) =>
      \/ job[t].ec = Ok /\ is_directory(status(job[t].path))
      \/ job[t].ec # Ok /\ \E k \in 1..Len(job[t].path) :
           status(SubSeq(job[t].path, 1, k)).type \notin {"directory", "not_found"}

(* An iteration nobody disturbs shows every entry of the directories it    *)
(* enters once, and enters every directory and no link unless told to.     *)
WalkShowsAll ==
  \A t \in Threads :
    LET r       == job[t]
        shown   == ToSet(r.seen)
        entered == {p \in {r.path} \cup shown :
                      /\ is_directory(status(p))
                      /\ p = r.path \/ r.arg.follow \/ symlink_status(p).type # "symlink"}
    IN r.op = "walk" /\ Done(t) /\ r.ec = Ok /\ ~r.disturbed /\ r.pops = 0 /\ r.pending
         => /\ Len(r.seen) = Cardinality(shown)
            /\ shown = UNION {{p \o <<n>> : n \in OpenDir(tree, p).names} : p \in entered}

(* A guard nobody disturbs leaves nothing behind.  It leaves the process   *)
(* without a current directory only if that is below the guard's own: the  *)
(* destructor goes up from the directory itself, and removes the current   *)
(* directory with it otherwise.  The next guard ends the program then, for *)
(* current_path() throws in its destructor (filesystem.cpp:1321-1331).     *)
GuardCleansUp ==
  \A t \in Threads :
    job[t].op = "guard" /\ Done(t) /\ ~job[t].disturbed
      => /\ \/ job[t].ec = Ok /\ job[t].path \notin DOMAIN tree
            \/ job[t].ec = "throw"
            \/ job[t].ec = "terminate" /\ cwd = Gone /\ ~job[t].below
         /\ cwd = Gone => \E u \in Threads : job[u].below

(* Every call comes to an end, with other threads at work on the same      *)
(* directories and on trees with links in a circle.                        *)
CallsEnd == Busy ~> ~Busy
=============================================================================
