------------------------------- MODULE RunConfig -------------------------------
(***************************************************************************)
(* What a run of a command is started with (src/src/projectservice.cpp):   *)
(* the command's own executable and arguments, the stored run              *)
(* configuration over them, and for a console command the arguments put    *)
(* together again from the value stored for each, with the values of this  *)
(* run, which are never stored, over those.                                *)
(***************************************************************************)
EXTENDS SequencesExt, Ordered

CONSTANT Launches  \* what is started: a command, its configuration, what was typed

Blank == <<>>  \* a value is the sequence of its words
Value(w) == <<w>>

(* Values are stored under the name of the argument, with or without the   *)
(* dashes of an option: <<"--", name>> and <<"", name>>.  The record of    *)
(* the command spells it in one way, and that one is looked for first.     *)
Bare(name) == <<"", name>>
Dashed(name) == <<"--", name>>
Key(m) == IF m.dashed THEN Dashed(m.name) ELSE Bare(m.name)
OtherKey(m) == IF m.dashed THEN Bare(m.name) ELSE Dashed(m.name)
Stored(values, key) == IF key \in DOMAIN values THEN values[key] ELSE Blank

lookup(values, first, second) ==
  IF Stored(values, first) # Blank THEN Stored(values, first) ELSE Stored(values, second)

ValueOf(values, m) == lookup(values, Key(m), OtherKey(m))

Of(meta, kind) == Picked(meta, {i \in DOMAIN meta : meta[i].kind = kind})

Word(v) == [is |-> "word", name |-> "", value |-> v]
Flag(n) == [is |-> "flag", name |-> n, value |-> Blank]
FlagWith(n, v) == [is |-> "flag", name |-> n, value |-> v]

missing(meta, values) ==
  {m.name : m \in {n \in ToSet(Of(meta, "positional")) :
                     n.required /\ ValueOf(values, n) = Blank}}

Positionals(meta, values) ==
  LET places == Of(meta, "positional")
      filled == Picked(places, {i \in DOMAIN places : ValueOf(values, places[i]) # Blank})
  IN  [i \in DOMAIN filled |-> Word(ValueOf(values, filled[i]))]

(* A switch ignores its value, but for the ladder of verbose.              *)
Switch(m, value) ==
  IF m.name # "verbose" THEN <<Flag(m.name)>>
  ELSE IF value = Value("3") THEN <<Flag("-vvv")>>
  ELSE IF value = Value("2") THEN <<Flag("-vv")>> ELSE <<Flag("-v")>>

(* Bug: the words of a value that may be given once are taken apart.       *)
OptionTorn(m, value) ==
  IF value = Blank \/ m.name = "env" THEN <<>>
  ELSE IF ~m.acceptValue THEN Switch(m, value)
  ELSE [i \in DOMAIN value |-> FlagWith(m.name, Value(value[i]))]

Option(m, value) ==
  IF value = Blank \/ m.name = "env" THEN <<>>
  ELSE IF ~m.acceptValue THEN Switch(m, value)
  ELSE IF m.multiple THEN [i \in DOMAIN value |-> FlagWith(m.name, Value(value[i]))]
  ELSE <<FlagWith(m.name, value)>>

Trailer(values) ==
  LET env == lookup(values, Bare("env"), Dashed("env"))
  IN  <<Flag("env")>> \o (IF env = Blank THEN <<>> ELSE <<Word(env)>>) \o <<Flag("-n")>>

assembleConsoleArgs(label, meta, values) ==
  LET options == Of(meta, "option")
  IN  <<Word(Value(label))>> \o Positionals(meta, values)
        \o Flat([i \in DOMAIN options |-> Option(options[i], ValueOf(values, options[i]))])
        \o Trailer(values)

(* A switch of an earlier version stored "on" where a value is taken now.  *)
Residue(meta, values, key) ==
  {m \in ToSet(Of(meta, "option")) :
     m.acceptValue /\ key \in {Bare(m.name), Key(m)} /\ values[key] = Value("on")}

sanitizeConsoleValues(meta, values) ==
  LET lost == {k \in DOMAIN values : \E m \in Residue(meta, values, k) : m.default = Blank}
      reset(k) == {m \in Residue(meta, values, k) : m.default # Blank}
  IN  [k \in DOMAIN values \ lost |->
         IF reset(k) = {} THEN values[k] ELSE (CHOOSE m \in reset(k) : TRUE).default]

Over(values, extra) ==
  [k \in DOMAIN values \cup DOMAIN extra |-> IF k \in DOMAIN extra THEN extra[k] ELSE values[k]]

(* A configuration may replace the executable; only the console's own is   *)
(* started through php.                                                    *)
Effective(cmd, config, extra) ==
  LET values == Over(sanitizeConsoleValues(cmd.meta, config.values), extra)
      args == assembleConsoleArgs(cmd.label, cmd.meta, values)
      own == config.executable \in {"", cmd.command}
  IN  IF missing(cmd.meta, values) # {} THEN [blocked |-> missing(cmd.meta, values), argv |-> <<>>]
      ELSE [blocked |-> {},
            argv |-> IF own THEN <<Word(Value("php")), Word(Value(cmd.command))>> \o args
                     ELSE <<Word(Value(config.executable))>> \o args]

-----------------------------------------------------------------------------
(* What the app may be asked to launch.  The console keeps the names of    *)
(* its arguments apart and those of its options (both keep under one name  *)
(* what they share), and no name begins with a dash of its own.  The page  *)
(* puts what is stored under the bare names before it passes what was      *)
(* typed under them (ConsoleParameters.qml, persistValues).                *)
IsMeta(meta) ==
  /\ \A i, j \in DOMAIN meta : meta[i].kind = meta[j].kind /\ meta[i].name = meta[j].name => i = j
  /\ \A i \in DOMAIN meta :
       /\ meta[i].kind \in {"positional", "option"}
       /\ meta[i].name \notin {"-n", "-v", "-vv", "-vvv"}
       /\ meta[i].default \in Seq(STRING)

Launchable(l) ==
  /\ l.cmd.meta \in Seq(ToSet(l.cmd.meta)) /\ IsMeta(l.cmd.meta)
  /\ \A k \in DOMAIN l.config.values : l.config.values[k] \in Seq(STRING)
  /\ \A k \in DOMAIN l.extra :
       /\ l.extra[k] \in Seq(STRING)
       /\ k = Bare(k[2]) /\ Stored(l.config.values, Dashed(k[2])) = Blank

ASSUME LaunchAssumption == Launches # {} /\ \A l \in Launches : Launchable(l)

-----------------------------------------------------------------------------
(* What an argument is to receive: what was typed for it, or else what is  *)
(* stored, whichever spelling it is kept under.  An "on" left where an     *)
(* option takes values now stands for its default, but not under dashes    *)
(* the record does not have.                                               *)
Takes(meta, key) ==
  {o \in ToSet(Of(meta, "option")) : o.acceptValue /\ key \in {Bare(o.name), Key(o)}}
Saved(l, key) ==
  IF Takes(l.cmd.meta, key) # {} /\ Stored(l.config.values, key) = Value("on")
  THEN (CHOOSE o \in Takes(l.cmd.meta, key) : TRUE).default ELSE Stored(l.config.values, key)
Due(l, m) ==
  IF Bare(m.name) \in DOMAIN l.extra THEN l.extra[Bare(m.name)]
  ELSE IF Saved(l, Key(m)) # Blank THEN Saved(l, Key(m)) ELSE Saved(l, OtherKey(m))

(* What the console reads in its arguments.                                *)
WordsOf(argv) == Picked(argv, {i \in DOMAIN argv : argv[i].is = "word"})
Given(argv, name) == Picked(argv, {i \in DOMAIN argv : argv[i].is = "flag" /\ argv[i].name = name})
GivenTo(argv, name) == [i \in DOMAIN Given(argv, name) |-> Given(argv, name)[i].value]

(* An option that takes a value is given it whole or, if it takes several, *)
(* one by one; a switch is given if anything is due, verbose by its ladder.*)
Receives(args, m, due) ==
  IF m.acceptValue
    THEN GivenTo(args, m.name) = IF due = Blank THEN <<>>
                                 ELSE IF m.multiple THEN [i \in DOMAIN due |-> Value(due[i])] ELSE <<due>>
  ELSE IF m.name # "verbose" THEN GivenTo(args, m.name) # <<>> <=> due # Blank
  ELSE LET loud == IF due = Value("3") THEN "-vvv" ELSE IF due = Value("2") THEN "-vv" ELSE "-v"
       IN  \A flag \in {"-v", "-vv", "-vvv"} : GivenTo(args, flag) # <<>> <=> due # Blank /\ flag = loud

(* Every argument of the console receives what is due to it: options by    *)
(* name, the others in their places as long as none before them is left    *)
(* blank, and nothing that was left blank; and with a required one blank   *)
(* nothing is started.                                                     *)
ValuesReachTheirArguments(l) ==
  LET meta == l.cmd.meta
      run == Effective(l.cmd, l.config, l.extra)
      own == l.config.executable \in {"", l.cmd.command}
      args == SubSeq(run.argv, IF own THEN 3 ELSE 2, Len(run.argv))
      places == Of(meta, "positional")
      blank == {m.name : m \in {n \in ToSet(places) : n.required /\ Due(l, n) = Blank}}
  IN  IF blank # {} THEN run.blocked = blank /\ run.argv = <<>>
      ELSE /\ run.blocked = {}
           /\ WordsOf(args)[1] = Word(Value(l.cmd.label))
           /\ \A k \in DOMAIN places : (\A j \in 1..k : Due(l, places[j]) # Blank) =>
                WordsOf(args)[k + 1] = Word(Due(l, places[k]))
           /\ \A i \in DOMAIN meta : meta[i].kind = "option" /\ meta[i].name # "env" =>
                Receives(args, meta[i], Due(l, meta[i]))
           /\ GivenTo(args, "env") = <<Blank>>
           /\ Last(args) = Flag("-n")
=============================================================================
