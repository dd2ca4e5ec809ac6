------------------------------- MODULE Options -------------------------------
(***************************************************************************)
(* CommandLineOptions and its groups over argtable3.                       *)
(*                                                                         *)
(* Every OptionGroup owns an argument table.  The option objects are       *)
(* shared by all copies of their group, and each points (_arg, _hdr) into  *)
(* the table of the copy made last.  Groups are copied into the vector of  *)
(* CommandLineOptions, again whenever that vector grows, and the tables of *)
(* the copies left behind are freed.                                       *)
(***************************************************************************)
EXTENDS Naturals, Sequences, FiniteSets, SequencesExt

CONSTANTS CommandLines,  \* program -> the argument lists it may be started with
          Declared,      \* program -> its groups, each a sequence of options
          MaxParses,     \* bound on the calls of parse
          None           \* no value

VARIABLES
  program,   \* the program whose options these are
  mem,       \* the option objects' _arg and the argument tables that exist
  list,      \* the tables of the groups in the initializer list
  options,   \* _options: the tables of the groups in the vector
  capacity,  \* the capacity of that vector
  active,    \* _activeGroup: a position in options, 0 is nullptr
  argv,      \* the arguments of the latest parse; <<>> before
  parses

optionsVars == <<program, mem, list, options, capacity, active, argv, parses>>

(* The option constructors: short and long name, how often, and a value.   *)
(* An option may be the object of an earlier group.                        *)
LiteralOption(short, long, min, max) ==
  [short |-> short, long |-> long, min |-> min, max |-> max, typed |-> FALSE]

TypedOption(short, long, min, max) ==
  [short |-> short, long |-> long, min |-> min, max |-> max, typed |-> TRUE]

OptionSet ==
  LET Plain == [short : STRING, long : STRING, min : Nat, max : Nat, typed : BOOLEAN]
      Shared == [short : STRING, long : STRING, min : Nat, max : Nat, typed : BOOLEAN, same : Nat \X Nat]
  IN Plain \cup Shared

Tagged(opt) == opt.short # "" \/ opt.long # ""

NamesOf(opt) == {opt.short, opt.long} \ {""}

ArgumentSet == [name : STRING, value : Nat \cup {None}]

(* Within a group no name is given to two options, and no option object is *)
(* there twice.                                                            *)
ASSUME OptionsAssumption ==
  /\ None \notin Nat
  /\ \A p \in DOMAIN Declared :
       /\ CommandLines[p] \subseteq Seq(ArgumentSet)
       /\ Declared[p] \in Seq(Seq(OptionSet))
       /\ \A g \in DOMAIN Declared[p] : \A j, k \in DOMAIN Declared[p][g] :
            LET a == Declared[p][g][j]
                b == Declared[p][g][k]
            IN /\ "same" \in DOMAIN a => a.same[1] < g
               /\ j # k => NamesOf(a) \cap NamesOf(b) = {}
               /\ j # k /\ "same" \in DOMAIN a /\ "same" \in DOMAIN b => a.same # b.same

groups == Declared[program]

(* The objects: option k of group g, unless that is declared to be the     *)
(* object of an earlier place.                                             *)
Object(g, k) == IF "same" \in DOMAIN groups[g][k] THEN groups[g][k].same ELSE <<g, k>>

Objects(g) == {Object(g, k) : k \in DOMAIN groups[g]}

InOneGroup(o) == Cardinality({g \in DOMAIN groups : o \in Objects(g)}) = 1

OptionsInit ==
  /\ program \in DOMAIN Declared
  /\ mem = [arg |-> [o \in UNION {Objects(g) : g \in DOMAIN groups} |-> 0],
            table |-> <<>>, live |-> {}]
  /\ list = <<>>
  /\ options = <<>>
  /\ capacity = 0
  /\ active = 0
  /\ argv = <<>>
  /\ parses = 0

(***************************************************************************)
(* OptionGroup's constructor and its copy constructor both call add for    *)
(* every option: a table entry is made and the option points to it.        *)
(***************************************************************************)
OptionGroup_shallow(m, g) ==  \* the copy's options stay with the table they had
  [arg |-> [o \in DOMAIN m.arg |-> IF o \in Objects(g) /\ m.arg[o] = 0 THEN Len(m.table) + 1 ELSE m.arg[o]],
   table |-> Append(m.table, [group |-> g, seen |-> [k \in DOMAIN groups[g] |-> <<>>]]),
   live |-> m.live \cup {Len(m.table) + 1}]

OptionGroup(m, g) ==
  [arg |-> [o \in DOMAIN m.arg |-> IF o \in Objects(g) THEN Len(m.table) + 1 ELSE m.arg[o]],
   table |-> Append(m.table, [group |-> g, seen |-> [k \in DOMAIN groups[g] |-> <<>>]]),
   live |-> m.live \cup {Len(m.table) + 1}]

(* ~OptionGroup: arg_freetable.                                            *)
Freed(m, tables) == [m EXCEPT !.live = @ \ tables]

(* The groups of the initializer list are constructed one after the other. *)
MakeGroup ==
  /\ options = <<>> /\ Len(list) < Len(groups)
  /\ mem' = OptionGroup(mem, Len(list) + 1)
  /\ list' = Append(list, Len(mem.table) + 1)
  /\ UNCHANGED <<program, options, capacity, active, argv, parses>>

(***************************************************************************)
(* The constructor of CommandLineOptions copies each of them.  A full      *)
(* vector constructs the new element in new storage first, then copies the *)
(* old elements (OptionGroup has no move constructor) and destroys them.   *)
(***************************************************************************)
Grow(n) ==
  LET added == OptionGroup(mem, n + 1)
      moved == FoldLeft(OptionGroup, added, [i \in 1..n |-> i])
      first == Len(mem.table) + 1
  IN /\ mem' = Freed(moved, Range(options))
     /\ options' = Append([i \in 1..n |-> first + i], first)
     /\ capacity' = IF n = 0 THEN 1 ELSE 2 * n

PushBack ==
  /\ Len(list) = Len(groups) /\ Len(options) < Len(groups)
  /\ LET n == Len(options) IN
       IF n < capacity
         THEN /\ mem' = OptionGroup(mem, n + 1)
              /\ options' = Append(options, Len(mem.table) + 1)
              /\ UNCHANGED capacity
         ELSE Grow(n)
  /\ UNCHANGED <<program, list, active, argv, parses>>

(* The initializer list goes out of scope.                                 *)
Constructed ==
  /\ list # <<>> /\ Len(options) = Len(groups)
  /\ mem' = Freed(mem, Range(list))
  /\ list' = <<>>
  /\ UNCHANGED <<program, options, capacity, active, argv, parses>>

Built == list = <<>> /\ options # <<>>

(***************************************************************************)
(* arg_parse (argtable3) with the options of a group: the counts start at  *)
(* zero, argv[0] is skipped, an argument belongs to the option it names,   *)
(* and one without a name to the first untagged option that has room.      *)
(***************************************************************************)
Arguments(args) == [i \in 1..(Len(args) - 1) |-> args[i + 1]]

ValuesOf(names, args) ==
  FoldLeft(LAMBDA r, a : IF a.name \in names THEN Append(r, a.value) ELSE r, <<>>, Arguments(args))

RoomBefore(group, k) ==
  FoldLeft(LAMBDA n, opt : IF Tagged(opt) THEN n ELSE n + opt.max, 0, SubSeq(group, 1, k - 1))

Given(group, k, args) ==
  LET untagged == ValuesOf({""}, args)
      room == RoomBefore(group, k)
  IN IF Tagged(group[k])
       THEN ValuesOf(NamesOf(group[k]), args)
       ELSE SubSeq(untagged, room + 1,
                   IF room + group[k].max < Len(untagged) THEN room + group[k].max ELSE Len(untagged))

Seen(group, k, args) ==
  LET given == Given(group, k, args)
  IN SubSeq(given, 1, IF Len(given) < group[k].max THEN Len(given) ELSE group[k].max)

Filled(table, args) ==
  [group |-> table.group, seen |-> [k \in DOMAIN table.seen |-> Seen(groups[table.group], k, args)]]

Matches(group, args) ==
  /\ \A k \in DOMAIN group :
       /\ Len(Given(group, k, args)) \in group[k].min..group[k].max
       /\ \A i \in DOMAIN Given(group, k, args) : group[k].typed <=> Given(group, k, args)[i] # None
  /\ \A i \in DOMAIN Arguments(args) :
       \/ \E k \in DOMAIN group : Arguments(args)[i].name \in NamesOf(group[k])
       \/ Arguments(args)[i].name = ""
  /\ Len(ValuesOf({""}, args)) <= RoomBefore(group, Len(group) + 1)

(***************************************************************************)
(* CommandLineOptions::parse: the groups are tried in their order, each    *)
(* with its own table, and the first one that matches becomes active.      *)
(***************************************************************************)
Tried(args) ==
  {i \in DOMAIN options : \A j \in 1..(i - 1) : ~Matches(groups[mem.table[options[j]].group], args)}

Hit(hits) == IF hits = {} THEN 0 ELSE CHOOSE i \in hits : TRUE

ParseGroups(args) ==
  LET tried == {options[i] : i \in Tried(args)}
      hits == {i \in Tried(args) : Matches(groups[mem.table[options[i]].group], args)}
  IN /\ mem' = [mem EXCEPT !.table =
                  [t \in DOMAIN @ |-> IF t \in tried THEN Filled(@[t], args) ELSE @[t]]]
     /\ active' = Hit(hits)

ParseArgs(args) ==
  /\ Built /\ parses < MaxParses
  /\ IF args = <<>> THEN active' = 0 /\ UNCHANGED mem ELSE ParseGroups(args)
  /\ argv' = args
  /\ parses' = parses + 1
  /\ UNCHANGED <<program, list, options, capacity>>

(***************************************************************************)
(* The accessors.  They need an active group, look for the first option of *)
(* that name (or the untagged option of that index) and read the table the *)
(* option object points to.                                                *)
(***************************************************************************)
ActiveGroup == mem.table[options[active]].group

Values(k) == LET t == mem.arg[Object(ActiveGroup, k)]
                 g == mem.table[t].group
                 j == CHOOSE i \in DOMAIN groups[g] : Object(g, i) = Object(ActiveGroup, k)
             IN mem.table[t].seen[j]

Found(name) ==
  LET same == {k \in DOMAIN groups[ActiveGroup] : name \in NamesOf(groups[ActiveGroup][k])}
  IN {k \in same : \A j \in same : k <= j}

Count(name) == IF Found(name) = {} THEN 0 ELSE Len(Values(CHOOSE k \in Found(name) : TRUE))

ValueOf(name) == Values(CHOOSE k \in Found(name) : TRUE)[1]

Untagged == {k \in DOMAIN groups[ActiveGroup] : ~Tagged(groups[ActiveGroup][k])}

UntaggedAt(index) == {k \in Untagged : Cardinality({j \in Untagged : j < k}) = index}

CountAt(index) ==
  IF UntaggedAt(index) = {} THEN 0 ELSE Len(Values(CHOOSE k \in UntaggedAt(index) : TRUE))

OptionsNext ==
  \/ MakeGroup
  \/ PushBack
  \/ Constructed
  \/ \E args \in CommandLines[program] : ParseArgs(args)

(***************************************************************************)
(* Properties                                                              *)
(***************************************************************************)

(* No option object points into a freed table: through the copies of the   *)
(* groups, and the growing of the vector, the table that an option points  *)
(* to (command_line_options.cpp:64, 85) outlives those that are freed      *)
(* (:151-154).                                                             *)
NoFreedTable ==
  \A o \in DOMAIN mem.arg : mem.arg[o] # 0 => mem.arg[o] \in mem.live

(* What the accessors report is what the command line says, for the first  *)
(* group that the arguments match: every option that is an object of this  *)
(* group alone has the values given for it, in order, and is found by each *)
(* of its names, or by its index, also when an earlier parse matched       *)
(* another group or failed.  Without a match nothing is reported           *)
(* (command_line_options.cpp:302-322).                                     *)
ReportsTheArguments ==
  parses > 0 =>
    /\ active = 0 <=> argv = <<>> \/ \A g \in DOMAIN groups : ~Matches(groups[g], argv)
    /\ active # 0 =>
         /\ Matches(groups[ActiveGroup], argv)
         /\ \A g \in 1..(ActiveGroup - 1) : ~Matches(groups[g], argv)
         /\ \A k \in DOMAIN groups[ActiveGroup] :
              InOneGroup(Object(ActiveGroup, k)) =>
                LET given == Given(groups[ActiveGroup], k, argv)
                IN /\ Values(k) = given
                   /\ \A name \in NamesOf(groups[ActiveGroup][k]) : Count(name) = Len(given)
                   /\ k \in Untagged => CountAt(Cardinality({j \in Untagged : j < k})) = Len(given)
         /\ CountAt(Cardinality(Untagged)) = 0
=============================================================================
