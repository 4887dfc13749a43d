---------------------------- MODULE CommandLine ----------------------------
(***************************************************************************)
(* One process of the db2sql command after another: main parses the        *)
(* command line, runs init, validate, dump or migrate, and turns what      *)
(* leaves them into an exit code.                                          *)
(*                                                                         *)
(* The work of a dump and of a migration is that of the modules DumpReplay *)
(* and MigrateDatabase; here it either succeeds or raises one of the       *)
(* errors it may raise.  What matters is what has been touched by then,    *)
(* and what the user is told.                                              *)
(***************************************************************************)
EXTENDS InitWizard

CONSTANTS
  Writers,         \* the names of the registered writers
  Starts,          \* the environments, configuration files and command lines
  MaxInvocations   \* how many commands are run

Exceptions ==
  {"ConfigError", "ParserError", "SystemExit", "AbortExecution", "CommandLineError",
   "OSError", "ValueError", "DBAPIError", "DomainError", "SourceReaderError",
   "TargetWriterError", "UnknownReaderError", "UnknownEmitterError", "UnknownWriterError"}

(* None is neither a command, nor an exception, nor an exit code.          *)
ASSUME NoneAssumption ==
  /\ None \notin {"dump", "migrate", "validate", "init"} \cup Exceptions
  /\ None \notin 0..7

(* The defaults name a reader and an emitter that db2sql comes with.       *)
ASSUME RegistryAssumption ==
  DefaultSettings["driver"] \in Readers /\ DefaultSettings["target"] \in Emitters

(* A command line has flags before and after the command, each of a value, *)
(* and only validate takes an argument; the disk knows every place that a  *)
(* command can name.                                                       *)
ASSUME StartsAssumption ==
  /\ MaxInvocations \in Nat \ {0}
  /\ \A start \in Starts :
       /\ {"db2sql.yml", "home.yml", "given.yml", "given.json"} \subseteq DOMAIN start[2]
       /\ start[3].file # None => start[3].command = "validate"
       /\ \A flags \in {start[3].root, start[3].sub} :
            /\ flags \in Seq({flags[i] : i \in DOMAIN flags})
            /\ \A i \in DOMAIN flags : flags[i][2] # None

VARIABLES
  env,         \* the environment
  disk,        \* the configuration files
  argv,        \* the command line
  stage,       \* how far the command has come
  config,      \* the effective configuration, or None
  raised,      \* the exception on its way to main, or None
  exit,        \* the exit code, or None
  source,      \* "untouched", "contacted" or "read"
  output,      \* the file or stream: "untouched", "opened" or "complete"
  target,      \* "untouched", "connected", "committed" or "rolled back"
  accepted,    \* an earlier command said that the configuration is valid
  invocations  \* how many commands have been run

outside == <<source, output, target>>

history == <<accepted, invocations>>

process == <<argv, stage, config, raised, exit>>

vars == <<env, disk, process, outside, history, wizard>>

Init ==
  /\ \E start \in Starts : env = start[1] /\ disk = start[2] /\ argv = start[3]
  /\ stage = "parsing" /\ config = None /\ raised = None /\ exit = None
  /\ source = "untouched" /\ output = "untouched" /\ target = "untouched"
  /\ accepted = FALSE /\ invocations = 1
  /\ NotAsking

IsDump == argv.command \in {"dump", None}

At(place) == stage = place /\ raised = None /\ exit = None

(* The with blocks of a migration roll back on the way out of an exception. *)
Unwound == IF target = "connected" THEN "rolled back" ELSE target

(* Leave the command with an exception.                                    *)
Raise(exception) ==
  /\ raised' = exception
  /\ target' = Unwound
  /\ UNCHANGED <<argv, stage, config, exit, env, disk, history, wizard>>

(* Leave the command with the code that it returns itself.                 *)
Leave(code) ==
  /\ exit' = code
  /\ accepted' = (accepted \/ (code = 0 /\ argv.command = "validate"))
  /\ UNCHANGED <<argv, stage, config, raised, env, disk, invocations, wizard>>

Continue(place) ==
  /\ stage' = place
  /\ UNCHANGED <<argv, raised, exit, env, disk, history, wizard>>

-----------------------------------------------------------------------------
(* parse_args_with_config                                                  *)

Help == "help" \in argv.switches

(* The DSN conflicts come first, and raise what the file's conflicts raise. *)
ParserError ==
  CASE ContradictoryFlags(argv) /\ ~(Help /\ "help" \notin argv.abbreviated) -> "ConfigError"
    [] Help \/ UsageError(env, argv) -> "SystemExit"
    [] OTHER -> None

FileError ==
  IF argv.command = "init" THEN None ELSE LoadError(ConfigFile(env, argv, disk), disk)

RefuseCommandLine ==
  /\ At("parsing") /\ ParserError # None
  /\ Raise(ParserError)
  /\ UNCHANGED <<source, output>>

RefuseFile ==
  /\ At("parsing") /\ ParserError = None /\ FileError # None
  /\ Raise(FileError)
  /\ UNCHANGED <<source, output>>

StartWizard ==
  /\ At("parsing") /\ ParserError = None /\ argv.command = "init"
  /\ stage' = "asking"
  /\ StartAsking
  /\ UNCHANGED <<env, disk, argv, config, raised, exit, outside, history>>

Configure ==
  /\ At("parsing") /\ ParserError = None /\ FileError = None /\ argv.command # "init"
  /\ config' = Merged(Loaded(ConfigFile(env, argv, disk), disk), env, argv)
  /\ Continue("configured")
  /\ UNCHANGED outside

-----------------------------------------------------------------------------
(* run: the logger, validate, --version and --ask-password                 *)

OpenLog ==
  /\ At("configured")
  /\ Continue("logging")
  /\ UNCHANGED <<config, outside>>

OpenLogFails ==
  /\ At("configured") /\ Parsed(env, argv, "log_file") # None
  /\ Raise("OSError")
  /\ UNCHANGED <<source, output>>

NamesAreKnown == config["driver"] \in Readers /\ config["target"] \in Emitters

IsDryRun == argv.switches \cap {"dry_run", "with_counts"} # {}

Validate ==
  /\ At("logging") /\ argv.command = "validate"
  /\ IF NamesAreKnown /\ IsDryRun
     THEN Continue("dry run")
     ELSE Leave(IF NamesAreKnown THEN 0 ELSE 5)
  /\ UNCHANGED <<config, outside>>

PrintVersion ==
  /\ At("logging") /\ argv.command # "validate" /\ "version" \in argv.switches
  /\ Raise("AbortExecution")
  /\ UNCHANGED <<source, output>>

(* The password that was typed replaces every other; a DSN ignores it.     *)
AskPassword ==
  /\ At("logging") /\ argv.command # "validate" /\ "version" \notin argv.switches
  /\ config' = IF "ask_password" \in argv.switches
               THEN [config EXCEPT !["server.password"] = "typed"] ELSE config
  /\ Continue("dispatch")
  /\ UNCHANGED outside

-----------------------------------------------------------------------------
(* What the reader does, for every command that has one                    *)

(* build_url: a DSN must name the dialect of the reader.  Every reader     *)
(* turns the ConfigInvalidError into an error of its own.                  *)
SourceMismatch == config["server.dsn"] \notin {None, config["driver"]}

(* dry run: what remains of the source is not read, and an error while     *)
(* the rows are counted only leaves a question mark.                       *)
DryRun ==
  /\ At("dry run") /\ ~SourceMismatch
  /\ Leave(0)
  /\ source' = "read"
  /\ UNCHANGED <<config, output, target>>

DryRunFails ==
  /\ At("dry run")
  /\ Leave(1)
  /\ source' = IF SourceMismatch THEN source ELSE "contacted"
  /\ UNCHANGED <<config, output, target>>

-----------------------------------------------------------------------------
(* _execute: the dump                                                      *)

(* The factories are looked up by name, in the order of the code.          *)
DumpError ==
  CASE config["driver"] \notin Readers -> "UnknownReaderError"
    [] config["driver"] \in Readers /\ config["target"] \notin Emitters ->
         "UnknownEmitterError"
    [] NamesAreKnown /\ config["split_size"] # None /\ config["output_file"] = None ->
         "CommandLineError"
    [] OTHER -> None

RefuseDump ==
  /\ At("dispatch") /\ IsDump /\ DumpError # None
  /\ Raise(DumpError)
  /\ UNCHANGED <<source, output>>

(* The output is opened before the request is checked.                     *)
OpenOutputUnchecked ==
  /\ At("dispatch") /\ IsDump /\ output = "untouched"
  /\ Continue("dispatch")
  /\ output' = "opened"
  /\ UNCHANGED <<config, source, target>>

(* A file is truncated when it is opened, before the source is contacted.  *)
OpenOutput ==
  /\ At("dispatch") /\ IsDump /\ DumpError = None
  /\ Continue("dumping")
  /\ output' = "opened"
  /\ UNCHANGED <<config, source, target>>

OpenOutputFails ==
  /\ At("dispatch") /\ IsDump /\ DumpError = None /\ config["output_file"] # None
  /\ Raise("OSError")
  /\ UNCHANGED <<source, output>>

Dump ==
  /\ At("dumping") /\ ~SourceMismatch
  /\ Continue("done")
  /\ source' = "read" /\ output' = "complete"
  /\ UNCHANGED <<config, target>>

(* Two views of one name, a source that cannot be read, an output that     *)
(* cannot be written, a row query that fails: it is not wrapped.           *)
DumpFails ==
  /\ At("dumping")
  /\ \E exception \in {"SourceReaderError", "DomainError", "OSError", "DBAPIError"} :
       /\ SourceMismatch => exception = "SourceReaderError"
       /\ Raise(exception)
  /\ source' = IF SourceMismatch THEN source ELSE "contacted"
  /\ UNCHANGED output

-----------------------------------------------------------------------------
(* _execute_migrate                                                        *)

WriterName ==
  LET given == Parsed(env, argv, "target_driver")
  IN IF given = None THEN config["target"] ELSE given

TransactionModes == {"single", "per_table"}

(* Nothing before to_migrate_request looks at the transaction mode.        *)
MigrateError ==
  CASE config["driver"] \notin Readers -> "UnknownReaderError"
    [] config["driver"] \in Readers /\ config["target"] \notin Emitters ->
         "UnknownEmitterError"
    [] NamesAreKnown /\ WriterName \notin Writers -> "UnknownWriterError"
    [] NamesAreKnown /\ WriterName \in Writers
         /\ config["migrate.transaction_mode"] \notin TransactionModes -> "ValueError"
    [] OTHER -> None

TargetMismatch == config["target_server.dsn"] \notin {None, WriterName}

RefuseMigrate ==
  /\ At("dispatch") /\ argv.command = "migrate" /\ MigrateError # None
  /\ Raise(MigrateError)
  /\ UNCHANGED <<source, output>>

ConnectTarget ==
  /\ At("dispatch") /\ argv.command = "migrate" /\ MigrateError = None /\ ~TargetMismatch
  /\ Continue("migrating")
  /\ target' = "connected"
  /\ UNCHANGED <<config, source, output>>

ConnectTargetFails ==
  /\ At("dispatch") /\ argv.command = "migrate" /\ MigrateError = None
  /\ Raise("TargetWriterError")
  /\ UNCHANGED <<source, output>>

Migrate ==
  /\ At("migrating") /\ ~SourceMismatch
  /\ Continue("done")
  /\ source' = "read" /\ target' = "committed"
  /\ UNCHANGED <<config, output>>

MigrateFails ==
  /\ At("migrating")
  /\ \E exception \in {"SourceReaderError", "DomainError", "TargetWriterError", "DBAPIError"} :
       /\ SourceMismatch => exception = "SourceReaderError"
       /\ Raise(exception)
  /\ source' = IF SourceMismatch THEN source ELSE "contacted"
  /\ UNCHANGED output

(* The connection may be lost before or after the commit.                  *)
CommitFails ==
  /\ At("migrating") /\ ~SourceMismatch
  /\ raised' = "DBAPIError"
  /\ source' = "read" /\ target' \in {"rolled back", "committed"}
  /\ UNCHANGED <<env, disk, argv, stage, config, exit, output, history, wizard>>

Succeed ==
  /\ At("done")
  /\ Leave(0)
  /\ UNCHANGED outside

-----------------------------------------------------------------------------
(* run_init                                                                *)

OutputPath == Parsed(env, argv, "init_output")

Ask ==
  /\ At("asking")
  /\ Answer
  /\ UNCHANGED <<env, disk, process, outside, history>>

(* An existing file is only overwritten with --force or with consent.      *)
MustConfirm ==
  OutputPath # None /\ disk[OutputPath] # Absent /\ "force" \notin argv.switches

FinishAsking ==
  /\ At("asking") /\ questions = <<>>
  /\ Continue(IF MustConfirm THEN "overwriting" ELSE "writing")
  /\ UNCHANGED <<config, outside>>

ConfirmOverwriting ==
  /\ At("overwriting")
  /\ Continue("writing")
  /\ UNCHANGED <<config, outside>>

(* Ctrl+C at a question, or an overwriting that is declined.               *)
Cancel ==
  /\ At("asking") \/ At("overwriting")
  /\ Leave(7)
  /\ UNCHANGED outside

(* The environment has a say in later commands, the format must suit the   *)
(* name of the file.                                                       *)
SpeaksForItself ==
  /\ OutputPath # None /\ Supported(OutputPath)
  /\ OutputPath = "given.json" => format = "json"
  /\ env["driver"] = None /\ env["target"] = None

WriteConfiguration ==
  /\ At("writing")
  /\ disk' = IF OutputPath = None THEN disk
             ELSE [disk EXCEPT ![OutputPath] = Serialized(OutputPath)]
  /\ exit' = 0
  /\ accepted' = SpeaksForItself
  /\ UNCHANGED <<env, argv, stage, config, raised, outside, invocations, wizard>>

(* write_text truncates the file, then writes.                             *)
WriteConfigurationFails ==
  /\ At("writing") /\ OutputPath # None
  /\ raised' = "OSError"
  /\ \E left \in {disk[OutputPath], Empty, Unparsable} :
       disk' = [disk EXCEPT ![OutputPath] = left]
  /\ UNCHANGED <<env, argv, stage, config, exit, outside, history, wizard>>

-----------------------------------------------------------------------------
(* main                                                                    *)

(* sys.exit is taken for the end of a command that was done.               *)
ExitCodeOfSystemExit(exception) == IF exception = "SystemExit" THEN 0 ELSE 6

ExitCode(exception) ==
  CASE exception = "AbortExecution" -> 0
    [] exception \in {"SourceReaderError", "TargetWriterError", "DomainError"} -> 1
    [] exception \in {"ConfigError", "UnknownReaderError", "UnknownEmitterError",
                      "UnknownWriterError"} -> 5
    [] exception = "SystemExit" -> 7
    [] OTHER -> 6

Exit ==
  /\ raised # None /\ exit = None
  /\ exit' = ExitCode(raised)
  /\ UNCHANGED <<env, disk, argv, stage, config, raised, outside, history, wizard>>

(* The handler of SIGINT and SIGTERM calls sys.exit wherever the process is; *)
(* after the try statement of main nothing catches that.                   *)
Interrupt ==
  /\ exit = None
  /\ Raise("SystemExit")
  /\ UNCHANGED <<source, output>>

InterruptExit ==
  /\ raised # None /\ exit = None
  /\ exit' \in {2, 4}
  /\ UNCHANGED <<env, disk, argv, stage, config, raised, outside, history, wizard>>

(* What was accepted is dumped, with the same flags and environment.       *)
DumpAfter(line) ==
  [command  |-> "dump",
   root     |-> IF line.command = "init" THEN <<>> ELSE line.root,
   sub      |-> IF line.command = "init" THEN <<<<"config_file", OutputPath>>>>
                ELSE IF line.file = None THEN line.sub
                ELSE Append(line.sub, <<"config_file", line.file>>),
   switches |-> line.switches \cap {"ask_password"},
   file     |-> None,
   abbreviated |-> line.abbreviated]

Again ==
  /\ exit # None /\ accepted /\ invocations < MaxInvocations
  /\ invocations' = invocations + 1
  /\ argv' = DumpAfter(argv)
  /\ stage' = "parsing" /\ config' = None /\ raised' = None /\ exit' = None
  /\ source' = "untouched" /\ output' = "untouched" /\ target' = "untouched"
  /\ questions' = <<>> /\ answers' = <<>> /\ format' = None /\ repeats' = 0
  /\ UNCHANGED <<env, disk, accepted>>

Ended == exit # None /\ UNCHANGED vars

Next ==
  \/ RefuseCommandLine \/ RefuseFile \/ StartWizard \/ Configure
  \/ OpenLog \/ OpenLogFails \/ Validate \/ PrintVersion \/ AskPassword
  \/ DryRun \/ DryRunFails
  \/ RefuseDump \/ OpenOutput \/ OpenOutputFails \/ Dump \/ DumpFails
  \/ RefuseMigrate \/ ConnectTarget \/ ConnectTargetFails \/ Migrate \/ MigrateFails
  \/ CommitFails \/ Succeed
  \/ Ask \/ FinishAsking \/ ConfirmOverwriting \/ Cancel
  \/ WriteConfiguration \/ WriteConfigurationFails
  \/ Exit \/ Interrupt \/ InterruptExit \/ Again \/ Ended

Spec == Init /\ [][Next]_vars

-----------------------------------------------------------------------------
(* The properties                                                          *)

Untouched == source = "untouched" /\ output = "untouched" /\ target = "untouched"

(* The variables stay in range, and a command that was not configured has  *)
(* not touched anything outside.                                           *)
TypeOK ==
  /\ stage \in {"parsing", "configured", "logging", "dry run", "dispatch", "dumping",
                "migrating", "done", "asking", "overwriting", "writing"}
  /\ config # None => DOMAIN config = DOMAIN DefaultSettings
  /\ raised \in Exceptions \cup {None}
  /\ exit \in {None} \cup 0..7
  /\ source \in {"untouched", "contacted", "read"}
  /\ output \in {"untouched", "opened", "complete"}
  /\ target \in {"untouched", "connected", "committed", "rolled back"}
  /\ invocations \in 1..MaxInvocations
  /\ accepted \in BOOLEAN
  /\ stage \in {"parsing", "asking", "overwriting", "writing"} => Untouched

(* A DSN, and a discrete setting or a password to ask for.                 *)
StatesTwoConnections(flags) ==
  \E one, other \in {flags[i][1] : i \in DOMAIN flags} \cup argv.switches :
    \/ one = "dsn" /\ other \in {"hostname", "ask_password"}
    \/ one = "target_dsn" /\ other = "target_hostname"

(* A command line, or a configuration file, that names a connection twice  *)
(* never leads to a connection or to an opened output, wherever the two    *)
(* flags stand (parser.py _reject_dsn_conflicts, loader.py                 *)
(* _reject_dsn_conflicts).  It holds of flags that are spelt out: the code *)
(* looks for the names of the flags among the tokens, so that others are   *)
(* run, against docs/cli.rst:170-174; the docstring of _flags_used says    *)
(* that they slip through.                                                 *)
ContradictionsTouchNothing ==
  LET path == ConfigFile(env, argv, disk)
  IN \/ /\ StatesTwoConnections(argv.root \o argv.sub)
        /\ argv.abbreviated = {}
     \/ /\ path # None /\ disk[path].kind = "settings"
        /\ \E section \in {{"server.dsn", "server.hostname"},
                            {"target_server.dsn", "target_server.hostname"}} :
             section \subseteq DOMAIN disk[path].settings
     => Untouched

(* The exit code of a configuration error means that nothing was read,     *)
(* opened or connected, so that a caller may correct it and run again.     *)
ConfigurationErrorsTouchNothing == exit = 5 => Untouched

(* The exit code 0 is only given for a command that was done: the dump is  *)
(* complete, the migration is committed, the names that validate read are  *)
(* known and, for a dry run, the source was read.                          *)
SuccessMeansDone ==
  exit = 0 /\ argv.command # "init" =>
    IF argv.command = "validate"
    THEN /\ config["driver"] \in Readers /\ config["target"] \in Emitters
         /\ argv.switches \cap {"dry_run", "with_counts"} # {} => source = "read"
    ELSE \/ "version" \in argv.switches
         \/ argv.command = "migrate" /\ target = "committed"
         \/ argv.command # "migrate" /\ output = "complete"

(* validate looks neither at where a dump goes nor at the dialect of a     *)
(* DSN.  A dump of what validate accepted, or of what the wizard wrote,    *)
(* that ends before it reached the source was refused for one of these two *)
(* reasons, or its log or its output could not be opened, or a signal came *)
(* (runner.py run and _execute, build_url of the readers).                 *)
DumpRefusesOnlyWhatValidateIgnores ==
  accepted /\ argv.command = "dump" /\ raised # None /\ source = "untouched" =>
    \/ raised \in {"OSError", "SystemExit"}
    \/ /\ raised = "CommandLineError"
       /\ config["split_size"] # None /\ config["output_file"] = None
    \/ /\ raised = "SourceReaderError"
       /\ config["server.dsn"] \notin {None, config["driver"]}

(* The settings of a command come from where it was said last: the flag    *)
(* after the command, the flag before it, the environment, the file, the   *)
(* default.                                                                *)
Says(option) ==
  LET path == ConfigFile(env, argv, disk)
      key == SettingOf[option]
      applies == option \in SourceOptions
                 \/ (option \in TargetOptions /\ argv.command = "migrate")
  IN IF \E i \in DOMAIN argv.sub : argv.sub[i][1] = option THEN ValueIn(argv.sub, option)
     ELSE IF \E i \in DOMAIN argv.root : argv.root[i][1] = option
          THEN ValueIn(argv.root, option)
     ELSE IF applies /\ env[option] # None THEN env[option]
     ELSE IF path # None /\ disk[path] # Empty /\ key \in DOMAIN disk[path].settings
          THEN disk[path].settings[key]
     ELSE DefaultSettings[key]

SettingsComeFromTheLastWord ==
  config # None =>
    \A option \in DOMAIN SettingOf \ Repeatable : config[SettingOf[option]] = Says(option)

(* What docs/configuration.rst says: the configuration file wins over the  *)
(* environment.                                                            *)
FileOverridesEnvironment ==
  LET path == ConfigFile(env, argv, disk)
  IN config # None /\ path # None /\ disk[path] # Empty =>
       \A option \in SourceOptions :
         /\ SettingOf[option] \in DOMAIN disk[path].settings
         /\ ~IsGiven(argv.root \o argv.sub, option)
         => config[SettingOf[option]] = disk[path].settings[SettingOf[option]]
=============================================================================
