------------------------------ MODULE Settings ------------------------------
(***************************************************************************)
(* Where the settings of a command come from: the flags given before and   *)
(* after the command, the environment and a configuration file, as         *)
(* argparse reads them, load_config loads them and merge_cli_overrides     *)
(* puts them together.                                                     *)
(*                                                                         *)
(* A flag is a pair <<option, value>>.  "hostname" stands for the five     *)
(* discrete connection settings, "include_schemas" for the four filter     *)
(* lists, whose value is a set of words, a word being the sequence of the  *)
(* names that commas separate in it.  The value of a DSN is its dialect.   *)
(*                                                                         *)
(* A command line has a command, the flags before (root) and after it      *)
(* (sub), the switches, validate's argument (file), and the options and    *)
(* switches that stand in it in no spelling but an abbreviated or combined *)
(* one (abbreviated).                                                      *)
(***************************************************************************)
EXTENDS Naturals, SequencesExt

CONSTANTS
  None,           \* Python's None
  DefaultPlaces   \* the default locations, in the order they are tried

CommonOptions    == {"config_file", "log_file"}
SourceOptions    == {"driver", "target", "hostname", "dsn"}
SelectionOptions == {"include_schemas"}
OutputOptions    == {"output_file_name", "split_size", "dump_on_existing"}
TargetOptions    == {"target_hostname", "target_dsn"}
MigrateOptions   ==
  TargetOptions \cup {"target_driver", "on_existing", "transaction_mode"}

(* dump is the default command: its options are also those of the root.    *)
RootOptions == CommonOptions \cup SourceOptions \cup SelectionOptions \cup OutputOptions

Accepted(command) ==
  CASE command = "dump"     -> RootOptions
    [] command = "validate" -> CommonOptions \cup SourceOptions \cup SelectionOptions
    [] command = "migrate"  ->
         CommonOptions \cup SourceOptions \cup SelectionOptions \cup MigrateOptions
    [] command = "init"     -> {"init_output"}
    [] command = None       -> {}

Repeatable == {"include_schemas"}

OnceOptions == SourceOptions \cup TargetOptions \cup {"log_file", "target_driver"}

(* The options whose default is an environment variable, and the variables *)
(* that are read when the configuration file is looked up.                 *)
Environment == SourceOptions \cup TargetOptions \cup {"config_file"}

ChoicesOf == [dump_on_existing |-> {"fail", "drop", "truncate"},
            on_existing      |-> {"fail", "drop", "truncate"},
            transaction_mode |-> {"single", "per_table"}]

Given(flags, option) == {i \in DOMAIN flags : flags[i][1] = option}

IsGiven(flags, option) == Given(flags, option) # {}

ValueIn(flags, option) ==
  IF option \in Repeatable
  THEN UNION {flags[i][2] : i \in Given(flags, option)}
  ELSE flags[Max(Given(flags, option))][2]

(* The root parser's defaults come from the environment, the subparsers'   *)
(* are suppressed, except for the options that only migrate declares.      *)
RootDefault(env, option) ==
  IF option \in SourceOptions THEN env[option] ELSE None

MigrateDefault(env, option) ==
  IF option \in TargetOptions THEN env[option] ELSE None

(* OnceArgument lets an option with a default be given again.              *)
GivenTwice(flags, option, default) ==
  option \in OnceOptions /\ Cardinality(Given(flags, option)) > 1 /\ default = None

UsageError(env, argv) ==
  \/ \E i \in DOMAIN argv.root : argv.root[i][1] \notin RootOptions
  \/ \E i \in DOMAIN argv.sub : argv.sub[i][1] \notin Accepted(argv.command)
  \/ \E option \in OnceOptions :
       \/ GivenTwice(argv.root, option, RootDefault(env, option))
       \/ GivenTwice(argv.sub, option, MigrateDefault(env, option))
  \/ \E i \in DOMAIN (argv.root \o argv.sub) :
       LET flag == (argv.root \o argv.sub)[i]
       IN flag[1] \in DOMAIN ChoicesOf /\ flag[2] \notin ChoicesOf[flag[1]]

(* The subparsers repeat the root's defaults, and clobber what stood there. *)
ParsedWithDefaults(env, argv, option) ==
  IF IsGiven(argv.sub, option) THEN ValueIn(argv.sub, option)
  ELSE IF option \in MigrateOptions /\ argv.command # "migrate" THEN None
  ELSE IF option \in TargetOptions THEN MigrateDefault(env, option)
  ELSE IF IsGiven(argv.root, option) /\ argv.command = None THEN ValueIn(argv.root, option)
  ELSE RootDefault(env, option)

(* What argparse answers for an option; None when it is not set.           *)
Parsed(env, argv, option) ==
  IF IsGiven(argv.sub, option) THEN ValueIn(argv.sub, option)
  ELSE IF option \in MigrateOptions
       THEN IF argv.command = "migrate" THEN MigrateDefault(env, option) ELSE None
  ELSE IF IsGiven(argv.root, option) THEN ValueIn(argv.root, option)
  ELSE RootDefault(env, option)

(* Only the flags after the command are compared.                          *)
ContradictoryAfterCommand(argv) ==
  \/ IsGiven(argv.sub, "dsn") /\ IsGiven(argv.sub, "hostname")
  \/ IsGiven(argv.sub, "target_dsn") /\ IsGiven(argv.sub, "target_hostname")

(* The flags that _flags_used finds among the tokens of the line: whole, or *)
(* with their value attached.  argparse also understands abbreviations and  *)
(* switches that are strung together; those slip through.                   *)
FlagUsed(argv, option) ==
  /\ IsGiven(argv.root \o argv.sub, option) \/ option \in argv.switches
  /\ option \notin argv.abbreviated

(* A DSN next to a discrete connection flag, on either side of the command. *)
ContradictoryFlags(argv) ==
  \/ /\ FlagUsed(argv, "dsn")
     /\ FlagUsed(argv, "hostname") \/ FlagUsed(argv, "ask_password")
  \/ FlagUsed(argv, "target_dsn") /\ FlagUsed(argv, "target_hostname")

-----------------------------------------------------------------------------
(* The settings of AppConfig, with their defaults.                         *)
SettingNames ==
  {"driver", "target", "server.hostname", "server.password", "server.dsn",
   "target_server.hostname", "target_server.dsn", "dump.include_schemas",
   "dump.default_data_format", "dump.limit_records", "dump.mapping_schemas", "dump.tables",
   "dump.on_existing", "migrate.on_existing", "migrate.transaction_mode", "output_file",
   "split_size"}

DefaultSettings ==
  [key \in SettingNames |->
     CASE key = "driver" -> "mssql"
       [] key = "target" -> "postgres"
       [] key \in {"dump.include_schemas", "dump.mapping_schemas", "dump.tables"} -> {}
       [] key = "dump.default_data_format" -> "copy"
       [] key = "dump.limit_records" -> "-1"
       [] key \in {"dump.on_existing", "migrate.on_existing"} -> "fail"
       [] key = "migrate.transaction_mode" -> "single"
       [] OTHER -> None]

(* The setting that merge_cli_overrides gives the value of an option to.   *)
SettingOf ==
  [driver           |-> "driver",
   target           |-> "target",
   hostname         |-> "server.hostname",
   dsn              |-> "server.dsn",
   target_hostname  |-> "target_server.hostname",
   target_dsn       |-> "target_server.dsn",
   include_schemas  |-> "dump.include_schemas",
   dump_on_existing |-> "dump.on_existing",
   on_existing      |-> "migrate.on_existing",
   transaction_mode |-> "migrate.transaction_mode",
   output_file_name |-> "output_file",
   split_size       |-> "split_size"]

(* The validators of the schema; transaction_mode has none.                *)
Valid(settings) ==
  \A key \in DOMAIN settings \cap {"dump.on_existing", "migrate.on_existing"} :
    settings[key] \in {"fail", "drop", "truncate"}

(* A list of a file is split at its commas, one of the command line, which *)
(* argparse nests, is not.                                                 *)
Flattened(words) == UNION {{<<word[i]>> : i \in DOMAIN word} : word \in words}

WithDefaults(settings) ==
  [key \in DOMAIN DefaultSettings |->
     IF key \notin DOMAIN settings THEN DefaultSettings[key]
     ELSE IF key = "dump.include_schemas" THEN Flattened(settings[key])
     ELSE settings[key]]

ContradictorySettings(settings) ==
  \/ {"server.dsn", "server.hostname"} \subseteq DOMAIN settings
  \/ {"server.dsn", "server.password"} \subseteq DOMAIN settings
  \/ {"target_server.dsn", "target_server.hostname"} \subseteq DOMAIN settings

(* What load_config refuses of a file; extra keys are forbidden.           *)
Refused(settings) ==
  \/ ~(DOMAIN settings \subseteq DOMAIN DefaultSettings)
  \/ ~Valid(settings)
  \/ ContradictorySettings(settings)

(* The options become settings under their own names.                      *)
MergedUnrouted(settings, env, argv) ==
  [option \in {o \in DOMAIN SettingOf : Parsed(env, argv, o) # None} |->
     Parsed(env, argv, option)] @@ settings

(* merge_cli_overrides: an option that is not None replaces the setting.   *)
(* The file was validated, and argparse takes only numbers and words the   *)
(* schema allows: the final model_validate refuses only text that is no    *)
(* valid Unicode, which is left out.                                       *)
Merged(settings, env, argv) ==
  [key \in DOMAIN settings |->
     LET set == {option \in DOMAIN SettingOf :
                   SettingOf[option] = key /\ Parsed(env, argv, option) # None}
     IN IF set = {} THEN settings[key]
        ELSE Parsed(env, argv, CHOOSE option \in set : TRUE)]

-----------------------------------------------------------------------------
(* A file: absent, not parsable, parsed to nothing, or settings, that may  *)
(* hold a key or a value that the schema does not allow.                   *)
Absent     == [kind |-> "absent"]
Unparsable == [kind |-> "unparsable"]
Empty      == [kind |-> "empty"]
FileOf(settings) == [kind |-> "settings", settings |-> settings]

Supported(path) == path \in {"db2sql.yml", "home.yml", "given.yml", "given.json"}

(* validate's positional argument wins over -C.                            *)
RequestedFile(env, argv) ==
  IF argv.command = "validate" /\ argv.file # None THEN argv.file
  ELSE Parsed(env, argv, "config_file")

(* The file that is read; None when there is none and nobody asked for one. *)
ConfigFile(env, argv, disk) ==
  LET requested == RequestedFile(env, argv)
      found == SelectSeq(DefaultPlaces, LAMBDA place : disk[place] # Absent)
  IN IF requested # None THEN requested
     ELSE IF env["config_file"] # None THEN env["config_file"]
     ELSE IF found # <<>> THEN found[1]
     ELSE None

(* What load_config raises for a file, or None: a file that its parser     *)
(* refuses raises the parser's own error, which is no ConfigError.         *)
LoadError(path, disk) ==
  IF path = None THEN None
  ELSE IF disk[path] = Absent \/ ~Supported(path) THEN "ConfigError"
  ELSE IF disk[path] = Unparsable THEN "ParserError"
  ELSE IF disk[path] # Empty /\ Refused(disk[path].settings) THEN "ConfigError"
  ELSE None

Loaded(path, disk) ==
  IF path = None \/ disk[path] = Empty THEN DefaultSettings
  ELSE WithDefaults(disk[path].settings)
=============================================================================
