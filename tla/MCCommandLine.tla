--------------------------- MODULE MCCommandLine ---------------------------
EXTENDS CommandLine

CONSTANT MaxSettings   \* how many settings a user makes in all

Values ==
  [driver           |-> {"sqlite", "unknown"},
   target           |-> {"mssql", "unknown"},
   hostname         |-> {"h"},
   dsn              |-> {"sqlite", "mssql"},
   config_file      |-> {"given.yml", "given.json", "given.txt"},
   log_file         |-> {"log"},
   include_schemas  |-> {{<<"a", "b">>}},
   output_file_name |-> {"out.sql"},
   split_size       |-> {"1K"},
   dump_on_existing |-> {"drop"},
   target_driver    |-> {"mssql", "sqlite"},
   target_hostname  |-> {"h"},
   target_dsn       |-> {"postgres", "mssql"},
   on_existing      |-> {"drop", "nonsense"},
   transaction_mode |-> {"per_table"},
   init_output      |-> {"given.yml", "given.json", "given.txt"}]

Flags(options) == UNION {{<<option, value>> : value \in Values[option]} : option \in options}

UpTo2(n, S) == IF n = 0 THEN {{}} ELSE IF n = 1 THEN {{x} : x \in S} ELSE {{x, y} : x, y \in S}

(* n settings of the environment, of a file, and of a command line.        *)
Env(n) ==
  {[option \in Environment |->
      IF \E flag \in flags : flag[1] = option
      THEN (CHOOSE flag \in flags : flag[1] = option)[2] ELSE None] :
    flags \in {flags \in UpTo2(n, Flags(Environment)) :
                 Cardinality({flag[1] : flag \in flags}) = n}}

Pairs(n) ==
  {pairs \in UpTo2(n,
     Flags({"driver", "target", "hostname", "dsn", "target_hostname", "target_dsn",
            "include_schemas", "output_file_name", "split_size", "on_existing"})
     \cup {<<"transaction_mode", "nonsense">>, <<"misspelt", "x">>}) :
    Cardinality({pair[1] : pair \in pairs}) = n}

SettingsOf(pairs) ==
  LET Key(option) == IF option = "misspelt" THEN option ELSE SettingOf[option]
  IN [key \in {Key(pair[1]) : pair \in pairs} |->
        (CHOOSE pair \in pairs : Key(pair[1]) = key)[2]]

NoFiles == [path \in {"db2sql.yml", "home.yml", "given.yml", "given.json", "given.txt"} |-> Absent]

Disk(n) ==
  IF n = 0
  THEN {NoFiles} \cup {[NoFiles EXCEPT ![path] = file] :
                         path \in {"db2sql.yml", "given.json"}, file \in {Empty, Unparsable}}
  ELSE {[NoFiles EXCEPT ![path] = FileOf(SettingsOf(pairs))] :
          path \in DOMAIN NoFiles, pairs \in Pairs(n)}
       \cup IF n = 1 THEN {} ELSE
         {[NoFiles EXCEPT !["db2sql.yml"] = FileOf("driver" :> "sqlite"),
                          !["home.yml"]   = FileOf("target" :> "mssql")]}

Typed(command, root, sub, switches) ==
  [command |-> command, root |-> root, sub |-> sub, switches |-> switches, file |-> None,
   abbreviated |-> {}]

SwitchesOf(command) ==
  CASE command = "validate" -> {"ask_password", "help", "dry_run", "with_counts"}
    [] command = None -> {"ask_password", "help", "version"}
    [] OTHER -> {"ask_password", "version"}

Commands == {"dump", "migrate", "validate", None}

Sub(command) == Flags(Accepted(command))

Sums(n) == {m \in (0..n) \X (0..n) \X (0..n) : m[1] + m[2] + m[3] = n}

SpeltLines(n) ==
  UNION {UNION {{Typed(command, root, sub, switches) :
     root \in [1..m[1] -> Flags(RootOptions)],
     sub \in [1..m[2] -> Sub(command)],
     switches \in {set \in UpTo2(m[3], SwitchesOf(command)) : Cardinality(set) = m[3]}} :
       m \in Sums(n)} : command \in Commands}
  \cup IF n # 1 THEN {} ELSE
    {[Typed("validate", <<>>, <<>>, {}) EXCEPT !.file = path] : path \in DOMAIN NoFiles}
    \cup {Typed("dump", <<>>, <<<<"on_existing", "drop">>>>, {})}

(* Abbreviated is only what _flags_used looks for.                         *)
Used(line) ==
  {option \in {"dsn", "hostname", "ask_password", "target_dsn", "target_hostname", "help"} :
     FlagUsed(line, option)}

Lines(n) ==
  UNION {{[line EXCEPT !.abbreviated = options] : options \in SUBSET Used(line)} :
           line \in SpeltLines(n)}

WizardStarts ==
  {<<env0, disk0, Typed("init", <<>>, sub, switches)>> :
     env0 \in Env(0),
     disk0 \in {NoFiles, [NoFiles EXCEPT !["given.yml"] = Empty]},
     sub \in {<<>>} \cup {<<flag>> : flag \in Flags({"init_output"})},
     switches \in SUBSET {"force"}}

SmallStarts ==
  WizardStarts \cup
  UNION {Env(n[1]) \X Disk(n[2]) \X Lines(n[3]) :
           n \in Sums(MaxSettings)}

SmallReaders == {"mssql", "sqlite"}
SmallEmitters == {"postgres", "mssql"}
SmallPlaces == <<"db2sql.yml", "home.yml">>
SmallWords == {<<"a", "b">>}
=============================================================================
