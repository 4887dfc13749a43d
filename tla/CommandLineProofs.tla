------------------------- MODULE CommandLineProofs -------------------------
(***************************************************************************)
(* What an exit code says of the command, and what a contradictory         *)
(* configuration cannot reach: for any environment, files and command      *)
(* line, any sequence of commands, failures and signals.                   *)
(***************************************************************************)
EXTENDS CommandLine, WellFoundedInduction, TLAPS

ConfigErrors ==
  {"ConfigError", "UnknownReaderError", "UnknownEmitterError", "UnknownWriterError"}

(* Nothing outside is touched before the work of a command begins, and     *)
(* configuration errors are only raised before it.                         *)
Pristine ==
  /\ stage \notin {"dry run", "dumping", "migrating", "done"} => Untouched
  /\ raised \in ConfigErrors => Untouched
  /\ exit = 5 => Untouched

(* How far each command can come.                                          *)
ByCommand ==
  /\ argv.command = "init" => stage \in {"parsing", "asking", "overwriting", "writing"}
  /\ stage \in {"asking", "overwriting", "writing"} => argv.command = "init"
  /\ stage = "dry run" => argv.command = "validate" /\ NamesAreKnown /\ IsDryRun
  /\ stage = "dumping" => IsDump
  /\ stage = "migrating" => argv.command = "migrate"
  /\ stage = "done" => \/ IsDump /\ output = "complete"
                       \/ argv.command = "migrate" /\ target = "committed"
  /\ raised = "AbortExecution" => "version" \in argv.switches /\ argv.command # "validate"

(* What was refused is not configured.                                     *)
Checked ==
  stage # "parsing" /\ argv.command # "init" => ParserError = None /\ FileError = None

IInv == Pristine /\ ByCommand /\ SuccessMeansDone

(* None is told from what it is compared with.                             *)
LEMMA NoneIsNothing ==
  /\ None \notin ConfigErrors /\ None # "AbortExecution"
  /\ None \notin {"dump", "migrate", "validate", "init"}
  /\ None # 0 /\ None # 5
<1>1. 0 \in 0..7 /\ 5 \in 0..7
  OBVIOUS
<1> QED
  BY <1>1, NoneAssumption DEF Exceptions, ConfigErrors

(* The codes that neither promise anything nor blame the configuration.    *)
LEMMA OtherCodes == 0 # 5 /\ \A code \in {1, 2, 4, 6, 7} : code # 0 /\ code # 5
  OBVIOUS

(* The two codes that do are given to these exceptions only.               *)
LEMMA CodesOfExceptions ==
  ASSUME NEW exception
  PROVE  /\ ExitCode(exception) = 0 => exception = "AbortExecution"
         /\ ExitCode(exception) = 5 => exception \in ConfigErrors
  BY DEF ExitCode, ConfigErrors

(* Every command starts with nothing touched.                              *)
LEMMA Initially == Init => IInv /\ Checked
  BY NoneIsNothing DEF Init, IInv, Pristine, ByCommand, SuccessMeansDone, Checked, Untouched,
     ConfigErrors

(* No step of a command, no failure and no signal breaks the invariant.    *)
LEMMA Inductive == IInv /\ [Next]_vars => IInv'
<1> SUFFICES ASSUME IInv, [Next]_vars PROVE IInv'
  OBVIOUS
<1> USE NoneIsNothing DEF IInv, Pristine, ByCommand, SuccessMeansDone, Untouched, ConfigErrors,
    At, Raise, Leave, Continue, outside, history, wizard, Unwound, IsDump, NamesAreKnown, IsDryRun
<1>1. CASE RefuseCommandLine
  BY <1>1 DEF RefuseCommandLine, ParserError
<1>2. CASE RefuseFile
  BY <1>2 DEF RefuseFile, FileError, LoadError
<1>3. CASE StartWizard
  BY <1>3 DEF StartWizard, StartAsking
<1>4. CASE Configure
  BY <1>4 DEF Configure
<1>5. CASE OpenLog
  BY <1>5 DEF OpenLog
<1>6. CASE OpenLogFails
  BY <1>6 DEF OpenLogFails
<1>7. CASE Validate
  <2>1. stage = "logging" /\ argv.command = "validate" /\ Untouched
    BY <1>7 DEF Validate
  <2>2. CASE NamesAreKnown /\ IsDryRun
    BY <1>7, <2>1, <2>2 DEF Validate
  <2>3. CASE NamesAreKnown /\ ~IsDryRun
    BY <1>7, <2>1, <2>3 DEF Validate
  <2>4. CASE ~NamesAreKnown
    BY <1>7, <2>1, <2>4, OtherCodes DEF Validate
  <2> QED
    BY <2>2, <2>3, <2>4
<1>8. CASE PrintVersion
  BY <1>8 DEF PrintVersion
<1>9. CASE AskPassword
  BY <1>9 DEF AskPassword
<1>10. CASE DryRun
  <2>1. /\ exit' = 0 /\ source' = "read" /\ raised' = raised /\ raised = None
        /\ UNCHANGED <<argv, stage, config>> /\ stage = "dry run"
    BY <1>10 DEF DryRun
  <2> QED
    BY <2>1, OtherCodes
<1>11. CASE DryRunFails
  <2>1. /\ exit' = 1 /\ raised' = raised /\ raised = None
        /\ UNCHANGED <<argv, stage, config, output, target>> /\ stage = "dry run"
    BY <1>11 DEF DryRunFails
  <2>2. exit' # 0 /\ exit' # 5
    BY <2>1, OtherCodes
  <2> QED
    BY <2>1, <2>2
<1>12. CASE RefuseDump
  BY <1>12 DEF RefuseDump, DumpError, NamesAreKnown
<1>13. CASE OpenOutput
  BY <1>13 DEF OpenOutput
<1>14. CASE OpenOutputFails
  BY <1>14 DEF OpenOutputFails
<1>15. CASE Dump
  BY <1>15 DEF Dump
<1>16. CASE DumpFails
  BY <1>16 DEF DumpFails
<1>17. CASE RefuseMigrate
  BY <1>17 DEF RefuseMigrate, MigrateError
<1>18. CASE ConnectTarget
  BY <1>18 DEF ConnectTarget
<1>19. CASE ConnectTargetFails
  BY <1>19 DEF ConnectTargetFails
<1>20. CASE Migrate
  BY <1>20 DEF Migrate
<1>21. CASE MigrateFails
  BY <1>21 DEF MigrateFails
<1>22. CASE CommitFails
  BY <1>22 DEF CommitFails
<1>23. CASE Succeed
  BY <1>23 DEF Succeed
<1>24. CASE Ask
  BY <1>24 DEF Ask, Answer, process
<1>25. CASE FinishAsking
  BY <1>25 DEF FinishAsking
<1>26. CASE ConfirmOverwriting
  BY <1>26 DEF ConfirmOverwriting
<1>27. CASE Cancel
  BY <1>27 DEF Cancel
<1>28. CASE WriteConfiguration
  BY <1>28 DEF WriteConfiguration
<1>29. CASE WriteConfigurationFails
  BY <1>29 DEF WriteConfigurationFails
<1>30. CASE Exit
  <2>1. /\ exit' = 0 => raised = "AbortExecution"
        /\ exit' = 5 => raised \in ConfigErrors
    BY <1>30, CodesOfExceptions DEF Exit
  <2> QED
    BY <1>30, <2>1 DEF Exit
<1>31. CASE Interrupt
  BY <1>31 DEF Interrupt
<1>32. CASE InterruptExit
  <2>1. exit' # 0 /\ exit' # 5
    BY <1>32, OtherCodes DEF InterruptExit
  <2> QED
    BY <1>32, <2>1 DEF InterruptExit
<1>33. CASE Again
  BY <1>33 DEF Again, DumpAfter
<1>34. CASE UNCHANGED vars
  BY <1>34 DEF vars, process
<1> QED
  BY <1>1, <1>2, <1>3, <1>4, <1>5, <1>6, <1>7, <1>8, <1>9, <1>10, <1>11, <1>12, <1>13, <1>14, <1>15, <1>16, <1>17, <1>18, <1>19, <1>20, <1>21, <1>22, <1>23, <1>24, <1>25, <1>26, <1>27, <1>28, <1>29, <1>30, <1>31, <1>32, <1>33, <1>34 DEF Next, Ended

(* Only the wizard changes a file or asks; every other step leaves what    *)
(* was checked as it was, and only Configure goes on from parsing.         *)
LEMMA CheckedStays == IInv /\ Checked /\ [Next]_vars => Checked'
<1> SUFFICES ASSUME IInv, Checked, [Next]_vars PROVE Checked'
  OBVIOUS
<1> USE DEF At, Raise, Leave, Continue, outside, history, wizard
<1>1. CASE StartWizard
  BY <1>1 DEF StartWizard, Checked
<1>2. CASE Configure
  <2>1. ParserError = None /\ FileError = None /\ UNCHANGED <<env, disk, argv>>
    BY <1>2 DEF Configure
  <2>2. ParserError' = ParserError /\ FileError' = FileError
    BY <2>1 DEF ParserError, FileError, Help
  <2> QED
    BY <2>1, <2>2 DEF Checked
<1>3. CASE Ask
  BY <1>3 DEF Ask, Checked, process, IInv, ByCommand
<1>4. CASE WriteConfiguration \/ WriteConfigurationFails
  BY <1>4 DEF WriteConfiguration, WriteConfigurationFails, Checked, IInv, ByCommand
<1>5. CASE Again
  BY <1>5 DEF Again, Checked
<1>6. ASSUME UNCHANGED <<env, disk, argv>>, stage' # "parsing" => stage # "parsing"
      PROVE  Checked'
  <2>1. ParserError' = ParserError /\ FileError' = FileError
    BY <1>6 DEF ParserError, FileError, Help
  <2> QED
    BY <1>6, <2>1 DEF Checked
<1>7. CASE RefuseCommandLine \/ RefuseFile \/ OpenLog \/ OpenLogFails \/ Validate
  BY <1>6, <1>7 DEF RefuseCommandLine, RefuseFile, OpenLog, OpenLogFails, Validate
<1>8. CASE PrintVersion \/ AskPassword \/ DryRun \/ DryRunFails \/ RefuseDump
  BY <1>6, <1>8 DEF PrintVersion, AskPassword, DryRun, DryRunFails, RefuseDump
<1>9. CASE OpenOutput \/ OpenOutputFails \/ Dump \/ DumpFails \/ RefuseMigrate
  BY <1>6, <1>9 DEF OpenOutput, OpenOutputFails, Dump, DumpFails, RefuseMigrate
<1>10. CASE ConnectTarget \/ ConnectTargetFails \/ Migrate \/ MigrateFails \/ CommitFails \/ Succeed
  BY <1>6, <1>10 DEF ConnectTarget, ConnectTargetFails, Migrate, MigrateFails, CommitFails, Succeed
<1>11. CASE FinishAsking \/ ConfirmOverwriting \/ Cancel \/ Exit \/ Interrupt \/ InterruptExit \/ Ended
  BY <1>6, <1>11 DEF FinishAsking, ConfirmOverwriting, Cancel, Exit, Interrupt, InterruptExit, Ended, vars, process
<1>12. CASE UNCHANGED vars
  BY <1>6, <1>12 DEF vars, process
<1> QED
  BY <1>1, <1>2, <1>3, <1>4, <1>5, <1>7, <1>8, <1>9, <1>10, <1>11, <1>12 DEF Next

(* Flags that name a connection twice, all of them spelt out, are refused  *)
(* by the parser.                                                          *)
LEMMA FlagsAreRefused ==
  StatesTwoConnections(argv.root \o argv.sub) /\ argv.abbreviated = {} => ParserError # None
<1> SUFFICES ASSUME StatesTwoConnections(argv.root \o argv.sub), argv.abbreviated = {}
             PROVE  ParserError # None
  OBVIOUS
<1> DEFINE flags == argv.root \o argv.sub
<1>0. PICK one, other \in {flags[i][1] : i \in DOMAIN flags} \cup argv.switches :
        \/ one = "dsn" /\ other \in {"hostname", "ask_password"}
        \/ one = "target_dsn" /\ other = "target_hostname"
  BY DEF StatesTwoConnections
<1>2. \A option \in {flags[i][1] : i \in DOMAIN flags} \cup argv.switches :
        FlagUsed(argv, option)
  BY DEF FlagUsed, IsGiven, Given
<1> HIDE DEF flags
<1>1. ContradictoryFlags(argv)
  BY <1>0, <1>2 DEF ContradictoryFlags
<1> QED
  BY <1>1, NoneAssumption DEF ParserError, Exceptions

(* So is a file that does, by load_config.                                 *)
LEMMA FilesAreRefused ==
  ASSUME NEW path, path # None, disk[path].kind = "settings",
         ContradictorySettings(disk[path].settings)
  PROVE  LoadError(path, disk) # None
<1>1. disk[path] # Empty
  BY DEF Empty
<1>2. Refused(disk[path].settings)
  BY DEF Refused
<1> QED
  BY <1>1, <1>2, NoneAssumption DEF LoadError, Exceptions

(* Before its work every command has touched nothing, and after a          *)
(* contradiction there is no work.                                         *)
LEMMA Contradictions == IInv /\ Checked => ContradictionsTouchNothing
<1> SUFFICES ASSUME IInv, Checked, ~Untouched PROVE ContradictionsTouchNothing
  BY DEF ContradictionsTouchNothing
<1>1. stage # "parsing" /\ argv.command # "init"
  BY DEF IInv, Pristine, ByCommand
<1>2. ParserError = None /\ LoadError(ConfigFile(env, argv, disk), disk) = None
  BY <1>1 DEF Checked, FileError
<1>3. ASSUME NEW section \in {{"server.dsn", "server.hostname"},
                             {"target_server.dsn", "target_server.hostname"}},
             NEW settings, section \subseteq DOMAIN settings
      PROVE  ContradictorySettings(settings)
  BY <1>3 DEF ContradictorySettings
<1> QED
  BY <1>2, <1>3, FlagsAreRefused, FilesAreRefused DEF ContradictionsTouchNothing

-----------------------------------------------------------------------------
(* Command lines and settings.                                             *)

(* Every option has a setting of its own, and the setting has a default.   *)
LEMMA SettingsHaveDefaults ==
  /\ DOMAIN DefaultSettings = SettingNames
  /\ \A option \in DOMAIN SettingOf :
       SettingOf[option] \in SettingNames \ {"server.password"}
  /\ \A one, other \in DOMAIN SettingOf : SettingOf[one] = SettingOf[other] => one = other
<1>1. \A option \in DOMAIN SettingOf :
       SettingOf[option] \in SettingNames \ {"server.password"}
  BY DEF SettingOf, SettingNames
<1>2. \A one, other \in DOMAIN SettingOf : SettingOf[one] = SettingOf[other] => one = other
  BY DEF SettingOf
<1>3. DOMAIN DefaultSettings = SettingNames
  BY DEF DefaultSettings
<1> QED BY <1>1, <1>2, <1>3

(* The settings of a command line before a password is asked for.          *)
SettingsOf(line, files) == Merged(Loaded(ConfigFile(env, line, files), files), env, line)

(* A command line as StartsAssumption has it.                              *)
IsFlags(flags) ==
  /\ flags \in Seq({flags[i] : i \in DOMAIN flags})
  /\ \A i \in DOMAIN flags : flags[i][2] # None

(* A set of numbers that is not empty has a least one.                     *)
LEMMA Least ==
  ASSUME NEW T, T \subseteq Nat, T # {}
  PROVE  \E x \in T : \A y \in T : x <= y
<1>1. PICK x \in T : \A y \in T : <<y, x>> \notin OpToRel(<, Nat)
  BY NatLessThanWellFounded, WFMin
<1>2. \A y \in T : ~(y < x)
  BY <1>1 DEF OpToRel
<1> QED
  BY <1>2

(* The last flag that gives an option is one of the flags.                 *)
LEMMA LastGiven ==
  ASSUME NEW flags, IsFlags(flags), NEW option, IsGiven(flags, option)
  PROVE  /\ Max(Given(flags, option)) \in Given(flags, option)
         /\ \A i \in Given(flags, option) : Max(Given(flags, option)) >= i
<1> DEFINE n == Len(flags)
           T == {n - i : i \in Given(flags, option)}
<1>1. Given(flags, option) \subseteq 1..n /\ n \in Nat
  BY DEF Given, IsFlags
<1>2. T \subseteq Nat /\ T # {}
  BY <1>1 DEF IsGiven
<1>3. PICK x \in T : \A y \in T : x <= y
  BY <1>2, Least
<1>4. PICK i \in Given(flags, option) : x = n - i
  BY <1>3
<1>5. \A j \in Given(flags, option) : i >= j
  <2> SUFFICES ASSUME NEW j \in Given(flags, option) PROVE i >= j
    OBVIOUS
  <2>1. n - i <= n - j
    BY <1>3, <1>4
  <2> QED
    BY <1>1, <2>1
<1> QED
  BY <1>5 DEF Max

(* So the value of an option is that of a flag, which is not None.         *)
LEMMA GivenIsNotNone ==
  ASSUME NEW flags, IsFlags(flags), NEW option, option \notin Repeatable, IsGiven(flags, option)
  PROVE  ValueIn(flags, option) # None
  BY LastGiven DEF ValueIn, IsFlags, Given

(* A setting that no option gives comes from the file.                     *)
LEMMA FileSettings ==
  ASSUME NEW path, NEW files
  PROVE  /\ DOMAIN Loaded(path, files) = SettingNames
         /\ \A key \in SettingNames \ {"dump.include_schemas"} :
              Loaded(path, files)[key] =
                IF path # None /\ files[path] # Empty /\ key \in DOMAIN files[path].settings
                THEN files[path].settings[key] ELSE DefaultSettings[key]
<1>1. DOMAIN DefaultSettings = SettingNames
  BY SettingsHaveDefaults
<1>2. CASE path = None \/ files[path] = Empty
  BY <1>1, <1>2 DEF Loaded
<1>3. CASE ~(path = None \/ files[path] = Empty)
  BY <1>1, <1>3 DEF Loaded, WithDefaults
<1> QED
  BY <1>2, <1>3

(* The setting of an option is what argparse answers for it, if anything.  *)
LEMMA MergedSettings ==
  ASSUME NEW settings, NEW line
  PROVE  /\ DOMAIN Merged(settings, env, line) = DOMAIN settings
         /\ \A option \in DOMAIN SettingOf : SettingOf[option] \in DOMAIN settings =>
              Merged(settings, env, line)[SettingOf[option]] =
                IF Parsed(env, line, option) # None THEN Parsed(env, line, option)
                ELSE settings[SettingOf[option]]
<1>1. DOMAIN Merged(settings, env, line) = DOMAIN settings
  BY DEF Merged
<1>2. ASSUME NEW option \in DOMAIN SettingOf, SettingOf[option] \in DOMAIN settings
      PROVE  Merged(settings, env, line)[SettingOf[option]] =
                IF Parsed(env, line, option) # None THEN Parsed(env, line, option)
                ELSE settings[SettingOf[option]]
  <2> DEFINE set == {o \in DOMAIN SettingOf :
                       SettingOf[o] = SettingOf[option] /\ Parsed(env, line, o) # None}
  <2>1. set = IF Parsed(env, line, option) # None THEN {option} ELSE {}
    BY <1>2, SettingsHaveDefaults
  <2>2. Merged(settings, env, line)[SettingOf[option]] =
          IF set = {} THEN settings[SettingOf[option]]
          ELSE Parsed(env, line, CHOOSE o \in set : TRUE)
    BY <1>2 DEF Merged
  <2> QED
    BY <2>1, <2>2
<1> QED
  BY <1>1, <1>2

(* What argparse answers for an option, where it accepts the command line. *)
LEMMA LastWord ==
  ASSUME ParserError = None, IsFlags(argv.root), IsFlags(argv.sub),
         NEW option \in DOMAIN SettingOf \ Repeatable
  PROVE  SettingsOf(argv, disk)[SettingOf[option]] = Says(option)
<1> DEFINE path == ConfigFile(env, argv, disk)
           key == SettingOf[option]
           applies == option \in SourceOptions \/ (option \in TargetOptions /\ argv.command = "migrate")
<1>1. key \in SettingNames \ {"dump.include_schemas"}
  BY SettingsHaveDefaults DEF SettingOf, Repeatable
<1>2. SettingsOf(argv, disk)[key] =
        IF Parsed(env, argv, option) # None THEN Parsed(env, argv, option)
        ELSE Loaded(path, disk)[key]
  BY <1>1, MergedSettings, FileSettings DEF SettingsOf
<1>3. CASE IsGiven(argv.sub, option)
  <2>1. Parsed(env, argv, option) = ValueIn(argv.sub, option)
    BY <1>3 DEF Parsed
  <2>2. Says(option) = ValueIn(argv.sub, option)
    BY <1>3 DEF Says, IsGiven, Given
  <2> QED
    BY <1>2, <1>3, <2>1, <2>2, GivenIsNotNone
<1>4. CASE ~IsGiven(argv.sub, option) /\ IsGiven(argv.root, option)
  <2>1. option \in RootOptions
    BY <1>4, NoneAssumption DEF ParserError, UsageError, Exceptions, IsGiven, Given
  <2>2. option \notin MigrateOptions
    BY <2>1 DEF RootOptions, MigrateOptions, TargetOptions, CommonOptions, SourceOptions,
       SelectionOptions, OutputOptions
  <2>3. Parsed(env, argv, option) = ValueIn(argv.root, option)
    BY <1>4, <2>2 DEF Parsed
  <2>4. Says(option) = ValueIn(argv.root, option)
    BY <1>4 DEF Says, IsGiven, Given
  <2> QED
    BY <1>2, <1>4, <2>3, <2>4, GivenIsNotNone
<1>5. CASE ~IsGiven(argv.sub, option) /\ ~IsGiven(argv.root, option)
  <2>1. Parsed(env, argv, option) = IF applies THEN env[option] ELSE None
    <3>1. option \in SourceOptions => option \notin MigrateOptions
      BY DEF MigrateOptions, SourceOptions, TargetOptions
    <3>2. TargetOptions \subseteq MigrateOptions
      BY DEF MigrateOptions
    <3> QED
      BY <1>5, <3>1, <3>2 DEF Parsed, RootDefault, MigrateDefault
  <2>2. Says(option) = IF applies /\ env[option] # None THEN env[option]
                       ELSE IF path # None /\ disk[path] # Empty /\ key \in DOMAIN disk[path].settings
                       THEN disk[path].settings[key] ELSE DefaultSettings[key]
    BY <1>5 DEF Says, IsGiven, Given
  <2>3. Loaded(path, disk)[key] =
          IF path # None /\ disk[path] # Empty /\ key \in DOMAIN disk[path].settings
          THEN disk[path].settings[key] ELSE DefaultSettings[key]
    BY <1>1, FileSettings
  <2> QED
    BY <1>2, <2>1, <2>2, <2>3
<1> QED
  BY <1>3, <1>4, <1>5

-----------------------------------------------------------------------------
(* One flag more after the command.                                        *)
LEMMA OneFlagMore ==
  ASSUME NEW flags, IsFlags(flags), NEW option, NEW value, value # None,
         option \notin Repeatable
  PROVE  LET more == Append(flags, <<option, value>>)
         IN  /\ IsFlags(more)
             /\ ValueIn(more, option) = value /\ IsGiven(more, option)
             /\ \A other : other # option =>
                  /\ IsGiven(more, other) <=> IsGiven(flags, other)
                  /\ IsGiven(flags, other) /\ other \notin Repeatable =>
                       ValueIn(more, other) = ValueIn(flags, other)
<1> DEFINE more == Append(flags, <<option, value>>)
           n == Len(flags)
           S == {flags[i] : i \in DOMAIN flags}
<1>1. /\ flags \in Seq(S) /\ n \in Nat /\ DOMAIN flags = 1..n
      /\ \A i \in 1..n : flags[i][2] # None
  BY DEF IsFlags
<1>2. /\ more \in Seq(S \cup {<<option, value>>}) /\ DOMAIN more = 1..(n + 1)
      /\ \A i \in 1..n : more[i] = flags[i]
      /\ more[n + 1] = <<option, value>>
  BY <1>1
<1>3. IsFlags(more)
  <2>1. {more[i] : i \in DOMAIN more} = S \cup {<<option, value>>}
    <3>1. 1..(n + 1) = 1..n \cup {n + 1}
      BY <1>1
    <3> QED
      BY <1>1, <1>2, <3>1
  <2>2. \A i \in DOMAIN more : more[i][2] # None
    <3>1. \A i \in 1..(n + 1) : i \in 1..n \/ i = n + 1
      BY <1>1
    <3>2. <<option, value>>[2] = value
      OBVIOUS
    <3> QED
      BY <1>1, <1>2, <3>1, <3>2
  <2> QED
    BY <1>2, <2>1, <2>2 DEF IsFlags
<1> HIDE DEF more
<1>4. n + 1 \in Given(more, option)
  BY <1>1, <1>2 DEF Given
<1>5. IsGiven(more, option)
  BY <1>4 DEF IsGiven
<1>6. Max(Given(more, option)) = n + 1
  <2>1. Max(Given(more, option)) \in 1..(n + 1) /\ Max(Given(more, option)) >= n + 1
    <3>1. Given(more, option) \subseteq 1..(n + 1)
      BY <1>2 DEF Given
    <3> QED
      BY <1>3, <1>4, <1>5, <3>1, LastGiven
  <2> QED
    BY <1>1, <2>1
<1>7. ValueIn(more, option) = value
  BY <1>2, <1>6 DEF ValueIn
<1>8. ASSUME NEW other, other # option
      PROVE  Given(more, other) = Given(flags, other)
  <2>1. \A i \in 1..(n + 1) : i \in 1..n \/ i = n + 1
    BY <1>1
  <2>2. \A i \in 1..n : i \in 1..(n + 1)
    BY <1>1
  <2>3. more[n + 1][1] # other
    <3>1. <<option, value>>[1] = option
      OBVIOUS
    <3> QED
      BY <1>2, <1>8, <3>1
  <2> QED
    BY <1>1, <1>2, <2>1, <2>2, <2>3 DEF Given
<1>9. ASSUME NEW other, other # option, IsGiven(flags, other), other \notin Repeatable
      PROVE  ValueIn(more, other) = ValueIn(flags, other)
  <2>1. Max(Given(flags, other)) \in 1..n
    BY <1>1, <1>9, LastGiven DEF Given
  <2> QED
    BY <1>2, <1>8, <1>9, <2>1 DEF ValueIn
<1> QED
  BY <1>3, <1>5, <1>7, <1>8, <1>9 DEF IsGiven, more

(* A flag is given on either side of the command or not at all.            *)
LEMMA BothSides ==
  ASSUME NEW one, NEW other, IsFlags(one), IsFlags(other), NEW option
  PROVE  IsGiven(one \o other, option) <=> IsGiven(one, option) \/ IsGiven(other, option)
<1> DEFINE n == Len(one)
           m == Len(other)
           both == one \o other
<1>1. n \in Nat /\ m \in Nat /\ DOMAIN one = 1..n /\ DOMAIN other = 1..m
  BY DEF IsFlags
<1>2. /\ DOMAIN both = 1..(n + m)
      /\ \A i \in 1..n : both[i] = one[i] /\ i \in 1..(n + m)
      /\ \A i \in 1..m : both[n + i] = other[i] /\ n + i \in 1..(n + m)
  BY <1>1 DEF IsFlags
<1>3. \A i \in 1..(n + m) : i \in 1..n \/ (i - n \in 1..m /\ i = n + (i - n))
  BY <1>1
<1> HIDE DEF both, n, m
<1>4. ASSUME IsGiven(both, option) PROVE IsGiven(one, option) \/ IsGiven(other, option)
  <2>1. PICK i \in 1..(n + m) : both[i][1] = option
    BY <1>2, <1>4 DEF IsGiven, Given
  <2>2. CASE i \in 1..n
    BY <1>1, <1>2, <2>1, <2>2 DEF IsGiven, Given
  <2>3. CASE i - n \in 1..m /\ i = n + (i - n)
    <3>1. other[i - n][1] = option
      BY <1>2, <2>1, <2>3
    <3> QED
      BY <1>1, <2>3, <3>1 DEF IsGiven, Given
  <2> QED
    BY <1>3, <2>1, <2>2, <2>3
<1>5. ASSUME IsGiven(one, option) PROVE IsGiven(both, option)
  BY <1>1, <1>2, <1>5 DEF IsGiven, Given
<1>6. ASSUME IsGiven(other, option) PROVE IsGiven(both, option)
  BY <1>1, <1>2, <1>6 DEF IsGiven, Given
<1> QED
  BY <1>4, <1>5, <1>6 DEF both

(* Where the flags and the disk are as StartsAssumption has them.          *)
Lines ==
  /\ IsFlags(argv.root) /\ IsFlags(argv.sub)
  /\ argv.file # None => argv.command = "validate"
  /\ {"db2sql.yml", "home.yml", "given.yml", "given.json"} \subseteq DOMAIN disk

(* A dump of this line is not refused as misconfigured.                    *)
Sound(line, files) ==
  /\ ~ContradictoryFlags(line)
  /\ LoadError(ConfigFile(env, line, files), files) = None
  /\ SettingsOf(line, files)["driver"] \in Readers
  /\ SettingsOf(line, files)["target"] \in Emitters

(* The dump after a validation or a dump gets the same configuration.      *)
LEMMA SoundAgain ==
  ASSUME argv.command \in {"dump", "validate"}, Lines, Sound(argv, disk)
  PROVE  Sound(DumpAfter(argv), disk)
<1> DEFINE line == DumpAfter(argv)
<1>1. /\ line.command = "dump" /\ line.root = argv.root /\ line.file = None
      /\ line.sub = IF argv.file = None THEN argv.sub
                    ELSE Append(argv.sub, <<"config_file", argv.file>>)
      /\ line.switches = argv.switches \cap {"ask_password"}
      /\ line.abbreviated = argv.abbreviated
  BY DEF DumpAfter
<1> HIDE DEF line
<1>2. /\ IsFlags(line.sub)
      /\ \A option : option # "config_file" =>
           /\ IsGiven(line.sub, option) <=> IsGiven(argv.sub, option)
           /\ IsGiven(argv.sub, option) /\ option \notin Repeatable =>
                ValueIn(line.sub, option) = ValueIn(argv.sub, option)
      /\ argv.file # None => IsGiven(line.sub, "config_file") /\ ValueIn(line.sub, "config_file") = argv.file
  <2>1. CASE argv.file = None
    BY <1>1, <2>1 DEF Lines
  <2>2. CASE argv.file # None
    <3>1. "config_file" \notin Repeatable
      BY DEF Repeatable
    <3> QED
      BY <1>1, <2>2, <3>1, OneFlagMore DEF Lines
  <2> QED
    BY <2>1, <2>2
<1>3. \A option \in {"driver", "target"} : Parsed(env, line, option) = Parsed(env, argv, option)
  <2> SUFFICES ASSUME NEW option \in {"driver", "target"}
               PROVE  Parsed(env, line, option) = Parsed(env, argv, option)
    OBVIOUS
  <2>1. option # "config_file" /\ option \notin Repeatable /\ option \notin MigrateOptions
    BY DEF Repeatable, MigrateOptions, TargetOptions
  <2> QED
    BY <1>1, <1>2, <2>1 DEF Parsed
<1>4. ConfigFile(env, line, disk) = ConfigFile(env, argv, disk)
  <2>1. RequestedFile(env, line) = Parsed(env, line, "config_file")
    BY <1>1 DEF RequestedFile
  <2>2. CASE argv.file = None
    <3>1. RequestedFile(env, argv) = Parsed(env, argv, "config_file")
      BY <2>2 DEF RequestedFile
    <3>2. "config_file" \notin MigrateOptions
      BY DEF MigrateOptions, TargetOptions
    <3>3. Parsed(env, line, "config_file") = Parsed(env, argv, "config_file")
      BY <1>1, <2>2, <3>2 DEF Parsed
    <3> QED
      BY <2>1, <3>1, <3>3 DEF ConfigFile
  <2>3. CASE argv.file # None
    <3>1. RequestedFile(env, argv) = argv.file
      BY <2>3 DEF RequestedFile, Lines
    <3>2. Parsed(env, line, "config_file") = argv.file
      BY <1>2, <2>3 DEF Parsed
    <3> QED
      BY <2>1, <3>1, <3>2 DEF ConfigFile
  <2> QED
    BY <2>2, <2>3
<1>5. ~ContradictoryFlags(line)
  <2>1. \A option : option # "config_file" =>
          (IsGiven(line.root \o line.sub, option) => IsGiven(argv.root \o argv.sub, option))
    <3> SUFFICES ASSUME NEW option, option # "config_file", IsGiven(line.root \o line.sub, option)
                 PROVE  IsGiven(argv.root \o argv.sub, option)
      OBVIOUS
    <3>1. IsFlags(argv.root) /\ IsFlags(argv.sub) /\ IsFlags(line.root) /\ IsFlags(line.sub)
      BY <1>1, <1>2 DEF Lines
    <3>2. IsGiven(line.root, option) \/ IsGiven(line.sub, option)
      BY <3>1, BothSides
    <3>3. IsGiven(argv.root, option) \/ IsGiven(argv.sub, option)
      BY <1>1, <1>2, <3>2
    <3> QED
      BY <3>1, <3>3, BothSides
  <2>2. line.switches \subseteq argv.switches /\ line.abbreviated = argv.abbreviated
    BY <1>1
  <2> HIDE DEF line
  <2>3. \A option : option # "config_file" /\ FlagUsed(line, option) => FlagUsed(argv, option)
    BY <2>1, <2>2 DEF FlagUsed
  <2> QED
    BY <2>3 DEF Sound, ContradictoryFlags
<1>6. \A option \in {"driver", "target"} :
        SettingsOf(line, disk)[SettingOf[option]] = SettingsOf(argv, disk)[SettingOf[option]]
  <2> SUFFICES ASSUME NEW option \in {"driver", "target"}
               PROVE  SettingsOf(line, disk)[SettingOf[option]] = SettingsOf(argv, disk)[SettingOf[option]]
    OBVIOUS
  <2>1. option \in DOMAIN SettingOf
    BY DEF SettingOf
  <2>2. SettingOf[option] \in DOMAIN Loaded(ConfigFile(env, argv, disk), disk)
    BY <2>1, SettingsHaveDefaults, FileSettings
  <2> QED
    BY <1>3, <1>4, <2>1, <2>2, MergedSettings DEF SettingsOf
<1>7. SettingOf["driver"] = "driver" /\ SettingOf["target"] = "target"
  BY DEF SettingOf
<1> QED
  BY <1>4, <1>5, <1>6, <1>7 DEF Sound, line

(* What the wizard may write.                                              *)
AnswersOK ==
  /\ DOMAIN answers \subseteq
       SettingNames \ {"server.dsn", "target_server.dsn", "dump.on_existing", "migrate.on_existing"}
  /\ "driver" \in DOMAIN answers => answers["driver"] \in Readers
  /\ "target" \in DOMAIN answers => answers["target"] \in Emitters

(* The dump that follows the wizard reads what the wizard wrote.           *)
LEMMA WizardIsSound ==
  ASSUME argv.command = "init", Lines, AnswersOK, SpeaksForItself
  PROVE  Sound(DumpAfter(argv), [disk EXCEPT ![OutputPath] = Serialized(OutputPath)])
<1> DEFINE line == DumpAfter(argv)
           files == [disk EXCEPT ![OutputPath] = Serialized(OutputPath)]
<1>1. /\ line.command = "dump" /\ line.root = <<>> /\ line.file = None
      /\ line.sub = Append(<<>>, <<"config_file", OutputPath>>)
      /\ line.switches \subseteq {"ask_password"}
  BY DEF DumpAfter
<1>0. OutputPath \in DOMAIN disk => files[OutputPath] = Serialized(OutputPath)
  OBVIOUS
<1> HIDE DEF line, files
<1>2. OutputPath # None /\ Supported(OutputPath)
  BY DEF SpeaksForItself
<1>3. IsFlags(<<>>) /\ \A option : ~IsGiven(<<>>, option)
  BY DEF IsFlags, IsGiven, Given
<1>4. /\ IsFlags(line.sub) /\ ValueIn(line.sub, "config_file") = OutputPath
      /\ IsGiven(line.sub, "config_file")
      /\ \A option : option # "config_file" => ~IsGiven(line.sub, option)
  <2>1. "config_file" \notin Repeatable
    BY DEF Repeatable
  <2> DEFINE more == Append(<<>>, <<"config_file", OutputPath>>)
  <2>2. /\ IsFlags(more)
        /\ ValueIn(more, "config_file") = OutputPath /\ IsGiven(more, "config_file")
        /\ \A other : other # "config_file" => (IsGiven(more, other) <=> IsGiven(<<>>, other))
    BY <1>2, <1>3, <2>1, OneFlagMore
  <2> HIDE DEF more
  <2> QED
    BY <1>1, <1>3, <2>2 DEF more
<1>5. \A option : option # "config_file" => ~IsGiven(line.root \o line.sub, option)
  BY <1>1, <1>3, <1>4, BothSides
<1>6. ~ContradictoryFlags(line)
  <2>1. \A option \in {"dsn", "target_dsn"} : ~FlagUsed(line, option)
    BY <1>1, <1>5 DEF FlagUsed
  <2> QED
    BY <2>1 DEF ContradictoryFlags
<1>7. ConfigFile(env, line, files) = OutputPath
  BY <1>1, <1>2, <1>4 DEF ConfigFile, RequestedFile, Parsed
<1>8. files[OutputPath] = Serialized(OutputPath)
  BY <1>0, <1>2 DEF Lines, Supported
<1>9. /\ Serialized(OutputPath) # Absent /\ Serialized(OutputPath) # Unparsable
      /\ Serialized(OutputPath) = Empty \/ (Serialized(OutputPath) # Empty /\ Serialized(OutputPath).settings = answers)
  <2>1. Absent.kind = "absent" /\ Unparsable.kind = "unparsable" /\ Empty.kind = "empty"
    BY DEF Absent, Unparsable, Empty
  <2>2. FileOf(answers).kind = "settings" /\ FileOf(answers).settings = answers
    BY DEF FileOf
  <2>3. OutputPath = "given.json" => format # "yaml"
    BY DEF SpeaksForItself
  <2>4. Serialized(OutputPath) = Empty \/ Serialized(OutputPath) = FileOf(answers)
    BY <2>3 DEF Serialized
  <2>5. CASE Serialized(OutputPath) = Empty
    BY <2>1, <2>5
  <2>6. CASE Serialized(OutputPath) = FileOf(answers)
    BY <2>1, <2>2, <2>6
  <2> QED
    BY <2>4, <2>5, <2>6
<1>10. ~Refused(answers)
  BY SettingsHaveDefaults DEF Refused, AnswersOK, Valid, ContradictorySettings
<1>11. LoadError(OutputPath, files) = None
  BY <1>2, <1>8, <1>9, <1>10 DEF LoadError
<1>12. /\ Loaded(OutputPath, files)["driver"] \in Readers
       /\ Loaded(OutputPath, files)["target"] \in Emitters
  <2>1. "driver" \in SettingNames /\ "target" \in SettingNames
    BY DEF SettingNames
  <2>2. CASE Serialized(OutputPath) = Empty
    BY <1>8, <2>2, RegistryAssumption DEF Loaded
  <2>3. CASE Serialized(OutputPath) # Empty /\ Serialized(OutputPath).settings = answers
    <3>1. \A key \in {"driver", "target"} :
            Loaded(OutputPath, files)[key] =
              IF key \in DOMAIN answers THEN answers[key] ELSE DefaultSettings[key]
      <4> SUFFICES ASSUME NEW key \in {"driver", "target"}
                   PROVE  Loaded(OutputPath, files)[key] =
                            IF key \in DOMAIN answers THEN answers[key] ELSE DefaultSettings[key]
        OBVIOUS
      <4>1. key \in SettingNames \ {"dump.include_schemas"}
        BY <2>1
      <4> QED
        BY <1>2, <1>8, <2>3, <4>1, FileSettings
    <3> QED
      BY <3>1, RegistryAssumption DEF AnswersOK
  <2> QED
    BY <1>9, <2>2, <2>3
<1>13. \A option \in {"driver", "target"} : Parsed(env, line, option) = None
  <2> SUFFICES ASSUME NEW option \in {"driver", "target"} PROVE Parsed(env, line, option) = None
    OBVIOUS
  <2>1. option # "config_file" /\ option \notin MigrateOptions
    BY DEF MigrateOptions, TargetOptions
  <2>2. option \in SourceOptions /\ env[option] = None
    BY DEF SourceOptions, SpeaksForItself
  <2> QED
    BY <1>1, <1>3, <1>4, <2>1, <2>2 DEF Parsed, RootDefault
<1>14. \A option \in {"driver", "target"} :
         SettingsOf(line, files)[SettingOf[option]] = Loaded(OutputPath, files)[SettingOf[option]]
  <2> SUFFICES ASSUME NEW option \in {"driver", "target"}
               PROVE  SettingsOf(line, files)[SettingOf[option]] = Loaded(OutputPath, files)[SettingOf[option]]
    OBVIOUS
  <2>1. option \in DOMAIN SettingOf
    BY DEF SettingOf
  <2>2. DOMAIN Loaded(OutputPath, files) = SettingNames
    BY FileSettings
  <2> QED
    BY <1>7, <1>13, <2>1, <2>2, MergedSettings, SettingsHaveDefaults DEF SettingsOf
<1>15. SettingOf["driver"] = "driver" /\ SettingOf["target"] = "target"
  BY DEF SettingOf
<1> QED
  BY <1>6, <1>7, <1>11, <1>12, <1>14, <1>15 DEF Sound, line, files

-----------------------------------------------------------------------------
(* What a command was configured with, and what was promised of it.        *)

(* Before a command is configured there are no settings; afterwards they   *)
(* are those of the command line, but for a password that was typed.       *)
Configured ==
  IF stage \in {"parsing", "asking", "overwriting", "writing"} THEN config = None
  ELSE /\ DOMAIN config = SettingNames
       /\ \A key \in SettingNames \ {"server.password"} : config[key] = SettingsOf(argv, disk)[key]

(* What was accepted is a sound configuration, and stays one: nothing that *)
(* runs after it writes a file.                                            *)
Upcoming == IF argv.command = "dump" THEN argv ELSE DumpAfter(argv)

Trusted ==
  /\ argv.command = "init" /\ exit = None => ~accepted
  /\ accepted =>
       /\ argv.command \in {"dump", "validate", "init"}
       /\ argv.command # "dump" => exit = 0 /\ raised = None
       /\ argv.command = "init" => OutputPath # None
       /\ raised \notin ConfigErrors \cup {"ParserError"} /\ exit # 5
       /\ argv.command = "dump" => "version" \notin argv.switches
       /\ Sound(Upcoming, disk)

(* Why a command was left.                                                 *)
Reasons ==
  /\ raised = "CommandLineError" => config["split_size"] # None /\ config["output_file"] = None
  /\ raised = "SourceReaderError" /\ source = "untouched" => SourceMismatch
  /\ raised \in {"DBAPIError", "DomainError"} => source # "untouched"
  /\ raised \in {"ValueError", "TargetWriterError"} => argv.command = "migrate"

(* Only these steps change what was typed, written, answered or configured,*)
(* or accept it.                                                           *)
LEMMA Changes ==
  ASSUME IInv, [Next]_vars
  PROVE  \/ StartWizard \/ Configure \/ AskPassword \/ Validate \/ DryRun
         \/ Ask \/ WriteConfiguration \/ WriteConfigurationFails \/ Again
         \/ /\ UNCHANGED <<env, disk, argv, config, answers, invocations>>
            /\ accepted' => accepted
            /\ stage' \in {"parsing", "asking", "overwriting", "writing"} <=>
                 stage \in {"parsing", "asking", "overwriting", "writing"}
            /\ exit # None => UNCHANGED <<raised, exit>>
<1> USE DEF At, Raise, Leave, Continue, outside, history, wizard
<1>1. CASE RefuseCommandLine \/ RefuseFile \/ OpenLog \/ OpenLogFails \/ PrintVersion \/ RefuseDump
  BY <1>1 DEF RefuseCommandLine, RefuseFile, OpenLog, OpenLogFails, PrintVersion, RefuseDump
<1>2. CASE OpenOutput \/ OpenOutputFails \/ Dump \/ DumpFails \/ RefuseMigrate
  BY <1>2 DEF OpenOutput, OpenOutputFails, Dump, DumpFails, RefuseMigrate
<1>3. CASE ConnectTarget \/ ConnectTargetFails \/ Migrate \/ MigrateFails \/ CommitFails
  BY <1>3 DEF ConnectTarget, ConnectTargetFails, Migrate, MigrateFails, CommitFails
<1>4. CASE Succeed
  BY <1>4, NoneAssumption DEF Succeed, IInv, ByCommand, IsDump
<1>5. CASE DryRunFails \/ Cancel
  BY <1>5, OtherCodes DEF DryRunFails, Cancel
<1>6. CASE FinishAsking \/ ConfirmOverwriting
  BY <1>6 DEF FinishAsking, ConfirmOverwriting
<1>7. CASE Exit \/ Interrupt \/ InterruptExit
  BY <1>7 DEF Exit, Interrupt, InterruptExit
<1>8. CASE UNCHANGED vars
  BY <1>8 DEF vars, process
<1> QED
  BY <1>1, <1>2, <1>3, <1>4, <1>5, <1>6, <1>7, <1>8 DEF Next, Ended

(* Command lines stay lists of flags, and files keep their places.         *)
LEMMA LinesStay == IInv /\ Lines /\ Trusted /\ [Next]_vars => Lines'
<1> SUFFICES ASSUME IInv, Lines, Trusted, [Next]_vars PROVE Lines'
  OBVIOUS
<1> USE DEF At, Leave, Continue, outside, history, wizard
<1>1. CASE Again
  <2>1. /\ argv' = DumpAfter(argv) /\ disk' = disk /\ accepted
        /\ argv.command = "init" => OutputPath # None
    BY <1>1 DEF Again, Trusted
  <2>2. argv'.file = None /\ (argv'.root = IF argv.command = "init" THEN <<>> ELSE argv.root)
    BY <2>1 DEF DumpAfter
  <2>3. IsFlags(<<>>)
    BY DEF IsFlags
  <2>4. IsFlags(argv'.sub)
    <3>1. CASE argv.command = "init"
      <4>1. argv'.sub = Append(<<>>, <<"config_file", OutputPath>>)
        BY <2>1, <3>1 DEF DumpAfter
      <4>2. "config_file" \notin Repeatable /\ OutputPath # None
        BY <2>1, <3>1 DEF Repeatable
      <4>3. IsFlags(Append(<<>>, <<"config_file", OutputPath>>))
        BY <2>3, <4>2, OneFlagMore
      <4> QED
        BY <4>1, <4>3
    <3>2. CASE argv.command # "init" /\ argv.file = None
      BY <2>1, <3>2 DEF DumpAfter, Lines
    <3>3. CASE argv.command # "init" /\ argv.file # None
      <4>1. argv'.sub = Append(argv.sub, <<"config_file", argv.file>>)
        BY <2>1, <3>3 DEF DumpAfter
      <4> QED
        BY <3>3, <4>1, OneFlagMore DEF Repeatable, Lines
    <3> QED
      BY <3>1, <3>2, <3>3
  <2> QED
    BY <2>1, <2>2, <2>3, <2>4 DEF Lines
<1>2. CASE WriteConfiguration \/ WriteConfigurationFails
  <2>1. argv' = argv /\ DOMAIN disk' = DOMAIN disk
    BY <1>2 DEF WriteConfiguration, WriteConfigurationFails
  <2> QED
    BY <2>1 DEF Lines
<1>3. CASE UNCHANGED <<env, disk, argv>>
  BY <1>3 DEF Lines
<1>4. StartWizard \/ Configure \/ AskPassword \/ Validate \/ DryRun \/ Ask => UNCHANGED <<env, disk, argv>>
  BY DEF StartWizard, Configure, AskPassword, Validate, DryRun, Ask, process
<1> QED
  BY <1>1, <1>2, <1>3, <1>4, Changes

(* The wizard only answers what the schema allows, and registered names.   *)
LEMMA AnswersStayOK == IInv /\ AnswersOK /\ [Next]_vars => AnswersOK'
<1> SUFFICES ASSUME IInv, AnswersOK, [Next]_vars PROVE AnswersOK'
  OBVIOUS
<1> USE DEF At, Leave, Continue, outside, history, wizard
<1> DEFINE Fine(made) ==
             /\ DOMAIN made \subseteq
                  SettingNames \ {"server.dsn", "target_server.dsn", "dump.on_existing", "migrate.on_existing"}
             /\ "driver" \in DOMAIN made => made["driver"] \in Readers
             /\ "target" \in DOMAIN made => made["target"] \in Emitters
<1>1. \A key \in SettingNames \ {"server.dsn", "target_server.dsn", "dump.on_existing", "migrate.on_existing"} :
        \A value :
          /\ key = "driver" => value \in Readers
          /\ key = "target" => value \in Emitters
          => Fine(With(key, value))
  BY DEF With, AnswersOK
<1>2. CASE Ask
  <2>1. PICK answer \in Possible(Head(questions)) : answers' = Recorded(Head(questions), answer)
    BY <1>2 DEF Ask, Answer
  <2> DEFINE question == Head(questions)
  <2>2. Fine(answers)
    BY DEF AnswersOK
  <2>3. question = "driver" => answer \in Readers
    BY <2>1 DEF Possible
  <2>4. question = "target" => answer \in Emitters
    BY <2>1 DEF Possible
  <2>5. {"driver", "target", "server.hostname", "server.password", "dump.limit_records",
         "dump.default_data_format", "dump.include_schemas", "dump.mapping_schemas",
         "dump.tables", "output_file"}
          \subseteq SettingNames \ {"server.dsn", "target_server.dsn", "dump.on_existing", "migrate.on_existing"}
    BY DEF SettingNames
  <2> HIDE DEF Fine, question
  <2>6. Fine(Recorded(question, answer))
    BY <1>1, <2>2, <2>3, <2>4, <2>5 DEF Recorded
  <2> QED
    BY <2>1, <2>6 DEF question, Fine, AnswersOK
<1>3. CASE Again
  BY <1>3 DEF Again, AnswersOK
<1>4. CASE UNCHANGED answers
  BY <1>4 DEF AnswersOK
<1>5. (\/ StartWizard \/ Configure \/ AskPassword \/ Validate \/ DryRun
       \/ WriteConfiguration \/ WriteConfigurationFails) => UNCHANGED answers
  BY DEF StartWizard, StartAsking, Configure, AskPassword, Validate, DryRun, WriteConfiguration,
     WriteConfigurationFails
<1> QED
  BY <1>2, <1>3, <1>4, <1>5, Changes

(* The settings of a command stay those that its command line made.        *)
LEMMA ConfiguredStays == IInv /\ Configured /\ [Next]_vars => Configured'
<1> SUFFICES ASSUME IInv, Configured, [Next]_vars PROVE Configured'
  OBVIOUS
<1> USE DEF At, Leave, Continue, outside, history, wizard
<1> DEFINE Early == {"parsing", "asking", "overwriting", "writing"}
<1>1. ASSUME UNCHANGED <<env, disk, argv>> PROVE SettingsOf(argv, disk)' = SettingsOf(argv, disk)
  BY <1>1 DEF SettingsOf
<1>2. CASE Configure
  <2>1. /\ stage' = "configured" /\ UNCHANGED <<env, disk, argv>>
        /\ config' = SettingsOf(argv, disk)
    BY <1>2 DEF Configure, SettingsOf
  <2>2. DOMAIN SettingsOf(argv, disk) = SettingNames
    BY FileSettings, MergedSettings DEF SettingsOf
  <2> QED
    BY <1>1, <2>1, <2>2 DEF Configured
<1>3. CASE AskPassword
  <2>1. /\ stage = "logging" /\ stage' = "dispatch" /\ UNCHANGED <<env, disk, argv>>
        /\ DOMAIN config' = DOMAIN config
        /\ \A key \in DOMAIN config \ {"server.password"} : config'[key] = config[key]
    BY <1>3 DEF AskPassword
  <2> QED
    BY <1>1, <2>1 DEF Configured
<1>4. CASE StartWizard
  BY <1>4 DEF StartWizard, Configured
<1>5. CASE Again
  BY <1>5 DEF Again, Configured
<1>6. CASE WriteConfiguration \/ WriteConfigurationFails
  BY <1>6 DEF WriteConfiguration, WriteConfigurationFails, Configured
<1>7. CASE Ask
  <2>1. UNCHANGED <<env, disk, argv, stage, config>>
    BY <1>7 DEF Ask, process
  <2> QED
    BY <1>1, <2>1 DEF Configured
<1>8. ASSUME UNCHANGED <<env, disk, argv, config>>, stage' \in Early <=> stage \in Early
      PROVE  Configured'
  BY <1>1, <1>8 DEF Configured
<1>9. Validate \/ DryRun => UNCHANGED <<env, disk, argv, config>> /\ (stage' \in Early <=> stage \in Early)
  BY DEF Validate, DryRun
<1> QED
  BY <1>2, <1>3, <1>4, <1>5, <1>6, <1>7, <1>8, <1>9, Changes

(* Every variable stays in its range.                                      *)
LEMMA TypesStay == IInv /\ Configured /\ TypeOK /\ [Next]_vars => TypeOK'
<1> SUFFICES ASSUME IInv, Configured, TypeOK, [Next]_vars PROVE TypeOK'
  OBVIOUS
<1>1. /\ IInv' /\ Configured'
  BY Inductive, ConfiguredStays
<1>2. config' # None => DOMAIN config' = DOMAIN DefaultSettings
  BY <1>1, SettingsHaveDefaults DEF Configured
<1>3. stage' \in {"parsing", "asking", "overwriting", "writing"} => Untouched'
  BY <1>1 DEF IInv, Pristine
<1>4. accepted' \in BOOLEAN
  <2>1. accepted \in BOOLEAN
    BY DEF TypeOK
  <2> USE DEF Raise, Leave, Continue, outside, history, wizard
  <2>2. CASE RefuseCommandLine \/ RefuseFile \/ OpenLog \/ OpenLogFails \/ PrintVersion \/ RefuseDump
    BY <2>1, <2>2 DEF RefuseCommandLine, RefuseFile, OpenLog, OpenLogFails, PrintVersion, RefuseDump
  <2>3. CASE OpenOutput \/ OpenOutputFails \/ Dump \/ DumpFails \/ RefuseMigrate
    BY <2>1, <2>3 DEF OpenOutput, OpenOutputFails, Dump, DumpFails, RefuseMigrate
  <2>4. CASE ConnectTarget \/ ConnectTargetFails \/ Migrate \/ MigrateFails \/ CommitFails
    BY <2>1, <2>4 DEF ConnectTarget, ConnectTargetFails, Migrate, MigrateFails, CommitFails
  <2>5. CASE Succeed \/ DryRun \/ DryRunFails \/ Cancel
    BY <2>5 DEF Succeed, DryRun, DryRunFails, Cancel
  <2>6. CASE FinishAsking \/ ConfirmOverwriting \/ WriteConfigurationFails
    BY <2>1, <2>6 DEF FinishAsking, ConfirmOverwriting, WriteConfigurationFails
  <2>7. CASE Exit \/ Interrupt \/ InterruptExit \/ Again
    BY <2>1, <2>7 DEF Exit, Interrupt, InterruptExit, Again
  <2>8. CASE StartWizard \/ Configure \/ AskPassword \/ Ask
    BY <2>1, <2>8 DEF StartWizard, Configure, AskPassword, Ask
  <2>9. CASE Validate
    BY <2>1, <2>9 DEF Validate
  <2>10. CASE WriteConfiguration
    BY <2>10 DEF WriteConfiguration, SpeaksForItself
  <2>11. CASE UNCHANGED vars
    BY <2>1, <2>11 DEF vars
  <2> QED
    BY <2>2, <2>3, <2>4, <2>5, <2>6, <2>7, <2>8, <2>9, <2>10, <2>11 DEF Next, Ended
<1>5. invocations' \in 1..MaxInvocations
  <2>1. CASE Again
    <3>1. invocations' = invocations + 1 /\ invocations < MaxInvocations /\ MaxInvocations \in Nat
      BY <2>1, StartsAssumption DEF Again
    <3>2. invocations \in 1..MaxInvocations
      BY DEF TypeOK
    <3> QED
      BY <3>1, <3>2
  <2>2. StartWizard \/ Configure \/ AskPassword \/ Validate \/ DryRun => UNCHANGED invocations
    BY DEF StartWizard, Configure, AskPassword, Validate, DryRun, Leave, Continue, history
  <2>3. Ask \/ WriteConfiguration \/ WriteConfigurationFails => UNCHANGED invocations
    BY DEF Ask, WriteConfiguration, WriteConfigurationFails, history
  <2> QED
    BY <2>1, <2>2, <2>3, Changes DEF TypeOK
<1> DEFINE Stages == {"parsing", "configured", "logging", "dry run", "dispatch", "dumping",
                      "migrating", "done", "asking", "overwriting", "writing"}
           Codes == {None} \cup 0..7
           Ranges == /\ stage' \in Stages
                     /\ raised' \in Exceptions \cup {None}
                     /\ exit' \in Codes
                     /\ source' \in {"untouched", "contacted", "read"}
                     /\ output' \in {"untouched", "opened", "complete"}
                     /\ target' \in {"untouched", "connected", "committed", "rolled back"}
<1>6. Ranges
  <2>1. /\ 0 \in Codes /\ 1 \in Codes /\ 2 \in Codes /\ 4 \in Codes /\ 5 \in Codes
        /\ 6 \in Codes /\ 7 \in Codes /\ None \in Codes
    OBVIOUS
  <2>2. /\ stage \in Stages /\ raised \in Exceptions \cup {None} /\ exit \in Codes
        /\ source \in {"untouched", "contacted", "read"}
        /\ output \in {"untouched", "opened", "complete"}
        /\ target \in {"untouched", "connected", "committed", "rolled back"}
    BY DEF TypeOK
  <2>3. /\ "ConfigError" \in Exceptions /\ "ParserError" \in Exceptions /\ "SystemExit" \in Exceptions
        /\ "AbortExecution" \in Exceptions /\ "CommandLineError" \in Exceptions
        /\ "OSError" \in Exceptions /\ "ValueError" \in Exceptions /\ "DBAPIError" \in Exceptions
        /\ "DomainError" \in Exceptions /\ "SourceReaderError" \in Exceptions
        /\ "TargetWriterError" \in Exceptions /\ "UnknownReaderError" \in Exceptions
        /\ "UnknownEmitterError" \in Exceptions /\ "UnknownWriterError" \in Exceptions
    BY DEF Exceptions
  <2>4. Unwound \in {"untouched", "connected", "committed", "rolled back"}
    BY <2>2 DEF Unwound
  <2>5. \A exception : ExitCode(exception) \in Codes
    BY <2>1 DEF ExitCode
  <2> HIDE DEF Codes
  <2> USE <2>1, <2>2, <2>3, <2>4 DEF Raise, Leave, Continue, outside, history, wizard
  <2>6. CASE RefuseCommandLine \/ RefuseFile
    BY <2>6 DEF RefuseCommandLine, RefuseFile, ParserError, FileError, LoadError
  <2>7. CASE OpenLog \/ OpenLogFails \/ PrintVersion \/ RefuseDump
    BY <2>7 DEF OpenLog, OpenLogFails, PrintVersion, RefuseDump, DumpError
  <2>8. CASE OpenOutput \/ OpenOutputFails \/ Dump \/ DumpFails
    BY <2>8 DEF OpenOutput, OpenOutputFails, Dump, DumpFails
  <2>9. CASE RefuseMigrate \/ ConnectTarget \/ ConnectTargetFails
    BY <2>9 DEF RefuseMigrate, MigrateError, ConnectTarget, ConnectTargetFails
  <2>10. CASE Migrate \/ MigrateFails \/ CommitFails
    BY <2>10 DEF Migrate, MigrateFails, CommitFails
  <2>11. CASE Succeed \/ DryRun \/ DryRunFails \/ Cancel
    BY <2>11 DEF Succeed, DryRun, DryRunFails, Cancel
  <2>12. CASE FinishAsking \/ ConfirmOverwriting \/ WriteConfiguration \/ WriteConfigurationFails
    BY <2>12 DEF FinishAsking, ConfirmOverwriting, WriteConfiguration, WriteConfigurationFails
  <2>13. CASE Exit \/ Interrupt \/ InterruptExit
    BY <2>5, <2>13 DEF Exit, Interrupt, InterruptExit
  <2>14. CASE Again
    BY <2>14 DEF Again
  <2>15. CASE StartWizard \/ Configure \/ AskPassword
    BY <2>15 DEF StartWizard, Configure, AskPassword
  <2>16. CASE Ask
    BY <2>16 DEF Ask, process
  <2>17. CASE Validate
    BY <2>17 DEF Validate
  <2>18. CASE UNCHANGED vars
    BY <2>18 DEF vars, process
  <2> QED
    BY <2>6, <2>7, <2>8, <2>9, <2>10, <2>11, <2>12, <2>13, <2>14, <2>15, <2>16, <2>17, <2>18 DEF Next, Ended
<1> QED
  BY <1>2, <1>3, <1>4, <1>5, <1>6 DEF TypeOK

(* A command that reads its settings from a sound line knows their names.  *)
LEMMA SoundNames ==
  ASSUME Configured, Sound(argv, disk),
         stage \notin {"parsing", "asking", "overwriting", "writing"}
  PROVE  NamesAreKnown
<1>1. "driver" \in SettingNames \ {"server.password"} /\ "target" \in SettingNames \ {"server.password"}
  BY DEF SettingNames
<1> QED
  BY <1>1 DEF Configured, Sound, NamesAreKnown

(* What is accepted is sound, and a sound configuration is not refused.    *)
LEMMA TrustedStays ==
  IInv /\ Checked /\ Lines /\ AnswersOK /\ Configured /\ Trusted /\ [Next]_vars => Trusted'
<1> SUFFICES ASSUME IInv, Checked, Lines, AnswersOK, Configured, Trusted, [Next]_vars
             PROVE  Trusted'
  OBVIOUS
<1> USE DEF Raise, Leave, Continue, outside, history, wizard
<1>1. CASE Again
  <2>1. /\ accepted /\ argv' = DumpAfter(argv) /\ argv'.command = "dump"
        /\ exit' = None /\ raised' = None /\ UNCHANGED <<env, disk>>
    BY <1>1 DEF Again, DumpAfter
  <2>2. Sound(DumpAfter(argv), disk)
    <3>1. CASE argv.command = "dump"
      BY <2>1, <3>1, SoundAgain DEF Trusted, Upcoming
    <3>2. CASE argv.command # "dump"
      BY <2>1, <3>2 DEF Trusted, Upcoming
    <3> QED
      BY <3>1, <3>2
  <2>3. Sound(argv, disk)'
    BY <2>1, <2>2 DEF Sound, SettingsOf
  <2>4. Sound(Upcoming, disk)'
    BY <2>1, <2>3 DEF Upcoming
  <2>5. None \notin ConfigErrors \cup {"ParserError"} /\ None # 5
    BY NoneIsNothing, NoneAssumption DEF Exceptions
  <2>6. "version" \notin argv'.switches
    BY <2>1 DEF DumpAfter
  <2> QED
    BY <2>1, <2>4, <2>5, <2>6 DEF Trusted
<1>2. ASSUME UNCHANGED <<env, disk, argv>>
      PROVE  Sound(Upcoming, disk)' = Sound(Upcoming, disk)
  BY <1>2 DEF Upcoming, Sound, SettingsOf, DumpAfter, OutputPath
<1>3. CASE WriteConfiguration
  <2>1. /\ stage = "writing" /\ exit = None /\ raised = None
        /\ exit' = 0 /\ raised' = None /\ argv.command = "init" /\ UNCHANGED <<env, argv>>
        /\ accepted' => SpeaksForItself
        /\ OutputPath # None => disk' = [disk EXCEPT ![OutputPath] = Serialized(OutputPath)]
    BY <1>3 DEF WriteConfiguration, At, IInv, ByCommand
  <2>2. accepted' => OutputPath # None
    BY <2>1 DEF SpeaksForItself
  <2>3. accepted' => Sound(DumpAfter(argv), disk')
    BY <2>1, <2>2, WizardIsSound
  <2>4. accepted' => Sound(Upcoming, disk)'
    BY <2>1, <2>3 DEF Upcoming, Sound, SettingsOf, DumpAfter, OutputPath
  <2>5. OutputPath' = OutputPath
    BY <2>1 DEF OutputPath
  <2>6. None \notin ConfigErrors \cup {"ParserError"} /\ None # 0 /\ 0 # 5
    BY NoneIsNothing, NoneAssumption DEF Exceptions
  <2> QED
    BY <2>1, <2>2, <2>4, <2>5, <2>6 DEF Trusted
<1>4. CASE WriteConfigurationFails
  <2>1. argv.command = "init" /\ exit = None /\ exit' = None /\ UNCHANGED <<argv, accepted>>
    BY <1>4 DEF WriteConfigurationFails, At, IInv, ByCommand
  <2> QED
    BY <2>1 DEF Trusted
<1>5. CASE (Validate \/ DryRun) /\ ~accepted
  <2>1. argv.command = "validate" /\ UNCHANGED <<env, disk, argv>> /\ raised = None /\ raised' = None
    BY <1>5 DEF Validate, DryRun, At, IInv, ByCommand
  <2>2. stage \in {"logging", "dry run"}
    BY <1>5 DEF Validate, DryRun, At
  <2>3. accepted' => exit' = 0 /\ NamesAreKnown
    <3>1. CASE Validate
      <4>1. CASE NamesAreKnown
        BY <1>5, <3>1, <4>1 DEF Validate
      <4>2. CASE ~NamesAreKnown
        BY <1>5, <3>1, <4>2, OtherCodes DEF Validate
      <4> QED
        BY <4>1, <4>2
    <3>2. CASE DryRun
      BY <3>2 DEF DryRun, At, IInv, ByCommand
    <3> QED
      BY <1>5, <3>1, <3>2
  <2>4. NamesAreKnown => Sound(argv, disk)
    <3>1. ~ContradictoryFlags(argv)
      <4>1. ParserError = None
        BY <2>1, <2>2 DEF Checked
      <4> QED
        BY <4>1, NoneAssumption DEF ParserError, Exceptions
    <3>2. LoadError(ConfigFile(env, argv, disk), disk) = None
      BY <2>1, <2>2 DEF Checked, FileError
    <3>3. "driver" \in SettingNames \ {"server.password"} /\ "target" \in SettingNames \ {"server.password"}
      BY DEF SettingNames
    <3> QED
      BY <2>2, <3>1, <3>2, <3>3 DEF Configured, NamesAreKnown, Sound
  <2>5. accepted' => Sound(Upcoming, disk)'
    BY <1>2, <2>1, <2>3, <2>4, SoundAgain DEF Upcoming
  <2>6. None \notin ConfigErrors \cup {"ParserError"} /\ 0 # 5
    BY NoneIsNothing, NoneAssumption DEF Exceptions
  <2> QED
    BY <2>1, <2>3, <2>5, <2>6 DEF Trusted
<1>6. CASE accepted /\ argv.command # "dump" /\ ~Again
  <2>1. exit = 0 /\ exit # None
    BY <1>6, NoneIsNothing DEF Trusted
  <2>2. UNCHANGED <<env, disk, argv, raised, exit>>
    BY <2>1, <1>6, Changes DEF StartWizard, Configure, AskPassword, Validate, DryRun, Ask,
       WriteConfiguration, WriteConfigurationFails, At
  <2>3. OutputPath' = OutputPath
    BY <2>2 DEF OutputPath
  <2> QED
    BY <1>2, <1>6, <2>1, <2>2, <2>3 DEF Trusted
<1>7. CASE accepted /\ argv.command = "dump" /\ ~Again
  <2> DEFINE Bad == ConfigErrors \cup {"ParserError"}
  <2>1. Sound(argv, disk) /\ raised \notin Bad /\ exit # 5
    BY <1>7 DEF Trusted, Upcoming
  <2>2. /\ stage \notin {"asking", "overwriting", "writing", "dry run", "migrating"}
        /\ ~(argv.command = "init") /\ ~(argv.command = "validate") /\ ~(argv.command = "migrate")
    BY <1>7 DEF IInv, ByCommand
  <2>3. stage # "parsing" => NamesAreKnown
    BY <2>1, <2>2, SoundNames
  <2>4. UNCHANGED <<env, disk, argv>>
    BY <1>7, <2>2, Changes DEF StartWizard, Configure, AskPassword, Validate, DryRun, Ask,
       WriteConfiguration, WriteConfigurationFails, At, process
  <2>5. raised' \notin Bad /\ exit' # 5
    <3> USE <2>1, <2>2, <2>3 DEF At
    <3>1. {"SystemExit", "AbortExecution", "CommandLineError", "OSError", "ValueError", "DBAPIError",
           "DomainError", "SourceReaderError", "TargetWriterError"} \cap Bad = {}
      BY DEF ConfigErrors
    <3>2. ParserError \in {None, "SystemExit"} /\ FileError = None
      BY DEF ParserError, FileError, Sound
    <3>3. CASE RefuseCommandLine
      BY <3>1, <3>2, <3>3 DEF RefuseCommandLine
    <3>4. CASE RefuseFile
      BY <3>2, <3>4 DEF RefuseFile
    <3>5. CASE RefuseDump
      <4>1. DumpError = "CommandLineError"
        BY <3>5 DEF RefuseDump, DumpError, NamesAreKnown
      <4> QED
        BY <3>1, <3>5, <4>1 DEF RefuseDump
    <3> HIDE DEF Bad
    <3>6. CASE OpenLog \/ OpenLogFails \/ PrintVersion \/ StartWizard \/ Configure \/ AskPassword
      BY <3>1, <3>6 DEF OpenLog, OpenLogFails, PrintVersion, StartWizard, Configure, AskPassword
    <3>7. CASE OpenOutput \/ OpenOutputFails \/ Dump \/ DumpFails
      BY <3>1, <3>7 DEF OpenOutput, OpenOutputFails, Dump, DumpFails
    <3>8. CASE RefuseMigrate \/ ConnectTarget \/ ConnectTargetFails \/ Migrate \/ MigrateFails \/ CommitFails
      BY <3>8 DEF RefuseMigrate, ConnectTarget, ConnectTargetFails, Migrate, MigrateFails, CommitFails
    <3>9. CASE Succeed \/ DryRun \/ DryRunFails \/ Cancel
      BY <3>9, OtherCodes DEF Succeed, DryRun, DryRunFails, Cancel
    <3>10. CASE Ask \/ FinishAsking \/ ConfirmOverwriting \/ WriteConfiguration \/ WriteConfigurationFails
      BY <3>10 DEF Ask, FinishAsking, ConfirmOverwriting, WriteConfiguration, WriteConfigurationFails
    <3>11. CASE Exit
      BY <3>11, CodesOfExceptions DEF Exit, Bad
    <3>12. CASE Interrupt \/ InterruptExit
      BY <3>1, <3>12, OtherCodes DEF Interrupt, InterruptExit
    <3>13. CASE Validate
      BY <3>13 DEF Validate
    <3>14. CASE UNCHANGED vars
      BY <3>14 DEF vars, process
    <3> QED
      BY <1>7, <3>3, <3>4, <3>5, <3>6, <3>7, <3>8, <3>9, <3>10, <3>11, <3>12, <3>13, <3>14 DEF Next, Ended
  <2> QED
    BY <1>2, <1>7, <2>4, <2>5 DEF Trusted
<1>8. CASE ~accepted /\ ~(Validate \/ DryRun \/ WriteConfiguration \/ Again)
  <2>1. StartWizard \/ Configure \/ AskPassword \/ Ask \/ WriteConfigurationFails => UNCHANGED accepted
    BY DEF StartWizard, Configure, AskPassword, Ask, WriteConfigurationFails
  <2>2. ~accepted'
    BY <1>8, <2>1, Changes
  <2> QED
    BY <2>2 DEF Trusted
<1> QED
  BY <1>1, <1>3, <1>4, <1>5, <1>6, <1>7, <1>8

(* A command keeps the reason it was left for: nothing is configured or    *)
(* read on the way out.                                                    *)
LEMMA ReasonsStay == IInv /\ Reasons /\ [Next]_vars => Reasons'
<1> SUFFICES ASSUME IInv, Reasons, [Next]_vars PROVE Reasons'
  OBVIOUS
<1> USE DEF At, Raise, Leave, Continue, outside, history, wizard
<1>1. None \notin {"CommandLineError", "SourceReaderError", "DBAPIError", "DomainError",
                   "ValueError", "TargetWriterError"}
  BY NoneAssumption DEF Exceptions
<1>2. ASSUME raised' = None PROVE Reasons'
  BY <1>1, <1>2 DEF Reasons
<1>3. ASSUME raised' \in {"SystemExit", "AbortExecution", "OSError", "ConfigError", "ParserError",
                          "UnknownReaderError", "UnknownEmitterError", "UnknownWriterError"}
      PROVE  Reasons'
  BY <1>3 DEF Reasons
<1>4. ASSUME UNCHANGED <<raised, config, source, argv>> PROVE Reasons'
  BY <1>4 DEF Reasons, SourceMismatch
<1>5. CASE RefuseCommandLine
  <2>1. ParserError \in {"ConfigError", "SystemExit", None}
    BY DEF ParserError
  <2> QED
    BY <1>2, <1>3, <1>5, <2>1 DEF RefuseCommandLine
<1>6. CASE RefuseFile
  <2>1. FileError \in {"ConfigError", "ParserError", None}
    BY DEF FileError, LoadError
  <2> QED
    BY <1>2, <1>3, <1>6, <2>1 DEF RefuseFile
<1>7. CASE OpenLog \/ OpenLogFails \/ PrintVersion \/ StartWizard \/ Configure \/ AskPassword
  BY <1>2, <1>3, <1>7 DEF OpenLog, OpenLogFails, PrintVersion, StartWizard, Configure, AskPassword
<1>8. CASE Validate \/ DryRun \/ DryRunFails \/ Succeed \/ OpenOutput \/ OpenOutputFails \/ Dump
  BY <1>2, <1>3, <1>8 DEF Validate, DryRun, DryRunFails, Succeed, OpenOutput, OpenOutputFails, Dump
<1>9. CASE RefuseDump
  <2>1. /\ raised' = DumpError /\ UNCHANGED <<config, source, argv>>
        /\ DumpError \in {"UnknownReaderError", "UnknownEmitterError", None}
           \/ /\ DumpError = "CommandLineError"
              /\ config["split_size"] # None /\ config["output_file"] = None
    BY <1>9 DEF RefuseDump, DumpError
  <2>2. CASE DumpError = "CommandLineError"
    BY <1>1, <2>1, <2>2 DEF Reasons
  <2> QED
    BY <1>2, <1>3, <2>1, <2>2
<1>10. CASE RefuseMigrate
  <2>1. /\ raised' = MigrateError /\ UNCHANGED <<config, source, argv>> /\ argv.command = "migrate"
        /\ MigrateError \in {"UnknownReaderError", "UnknownEmitterError", "UnknownWriterError",
                              "ValueError", None}
    BY <1>10 DEF RefuseMigrate, MigrateError
  <2>2. CASE MigrateError = "ValueError"
    BY <2>1, <2>2 DEF Reasons
  <2> QED
    BY <1>2, <1>3, <2>1, <2>2
<1>11. CASE ConnectTargetFails
  BY <1>11 DEF ConnectTargetFails, Reasons
<1>12. CASE DumpFails
  <2>1. /\ UNCHANGED <<config, argv>>
        /\ raised' \in {"SourceReaderError", "DomainError", "OSError", "DBAPIError"}
        /\ SourceMismatch => raised' = "SourceReaderError"
        /\ source' = IF SourceMismatch THEN source ELSE "contacted"
    BY <1>12 DEF DumpFails
  <2>2. SourceMismatch' = SourceMismatch
    BY <2>1 DEF SourceMismatch
  <2> QED
    BY <2>1, <2>2 DEF Reasons
<1>13. CASE MigrateFails
  <2>1. /\ UNCHANGED <<config, argv>> /\ argv.command = "migrate"
        /\ raised' \in {"SourceReaderError", "DomainError", "TargetWriterError", "DBAPIError"}
        /\ SourceMismatch => raised' = "SourceReaderError"
        /\ source' = IF SourceMismatch THEN source ELSE "contacted"
    BY <1>13 DEF MigrateFails, IInv, ByCommand
  <2>2. SourceMismatch' = SourceMismatch
    BY <2>1 DEF SourceMismatch
  <2> QED
    BY <2>1, <2>2 DEF Reasons
<1>14. CASE CommitFails
  BY <1>14 DEF CommitFails, Reasons
<1>15. CASE ConnectTarget \/ Migrate \/ Ask \/ FinishAsking \/ ConfirmOverwriting
  BY <1>2, <1>15 DEF ConnectTarget, Migrate, Ask, FinishAsking, ConfirmOverwriting, process
<1>16. CASE Cancel \/ WriteConfiguration \/ WriteConfigurationFails
  BY <1>2, <1>3, <1>16 DEF Cancel, WriteConfiguration, WriteConfigurationFails
<1>17. CASE Exit \/ InterruptExit
  BY <1>4, <1>17 DEF Exit, InterruptExit
<1>18. CASE Interrupt
  BY <1>3, <1>18 DEF Interrupt
<1>19. CASE Again
  BY <1>2, <1>19 DEF Again
<1>20. CASE UNCHANGED vars
  BY <1>4, <1>20 DEF vars, process
<1> QED
  BY <1>5, <1>6, <1>7, <1>8, <1>9, <1>10, <1>11, <1>12, <1>13, <1>14, <1>15, <1>16, <1>17, <1>18,
     <1>19, <1>20 DEF Next, Ended

(* What holds of every command, of its settings and of what came before.   *)
Whole ==
  IInv /\ Checked /\ Lines /\ AnswersOK /\ Configured /\ Trusted /\ Reasons /\ TypeOK

(* The first command starts from what was typed.                           *)
LEMMA WholeInitially == Init => Whole
<1> SUFFICES ASSUME Init PROVE Whole
  OBVIOUS
<1>1. IInv /\ Checked
  BY Initially
<1>2. Lines
  <2>1. PICK start \in Starts : env = start[1] /\ disk = start[2] /\ argv = start[3]
    BY DEF Init
  <2>2. /\ {"db2sql.yml", "home.yml", "given.yml", "given.json"} \subseteq DOMAIN start[2]
        /\ start[3].file # None => start[3].command = "validate"
        /\ IsFlags(start[3].root) /\ IsFlags(start[3].sub)
    BY StartsAssumption DEF IsFlags
  <2> QED
    BY <2>1, <2>2 DEF Lines
<1>3. AnswersOK
  BY DEF Init, NotAsking, AnswersOK
<1>4. Configured
  BY DEF Init, Configured
<1>5. Trusted
  BY DEF Init, Trusted
<1>6. TypeOK
  <2>1. 1 \in 1..MaxInvocations
    BY StartsAssumption
  <2> QED
    BY <2>1 DEF Init, TypeOK, Untouched
<1>7. Reasons
  BY NoneAssumption DEF Init, Reasons, Exceptions
<1> QED
  BY <1>1, <1>2, <1>3, <1>4, <1>5, <1>6, <1>7 DEF Whole

-----------------------------------------------------------------------------
(* The invariant of every behaviour.                                       *)
LEMMA Invariance == Spec => []Whole
<1>1. Whole /\ [Next]_vars => Whole'
  BY Inductive, CheckedStays, LinesStay, AnswersStayOK, ConfiguredStays, TrustedStays,
     ReasonsStay, TypesStay DEF Whole
<1> QED
  BY WholeInitially, <1>1, PTL DEF Spec

(* A command that exits as misconfigured has read, opened and connected    *)
(* nothing.                                                                *)
THEOREM RefusalsTouchNothing == Spec => []ConfigurationErrorsTouchNothing
<1>1. Whole => ConfigurationErrorsTouchNothing
  BY DEF Whole, IInv, Pristine, ConfigurationErrorsTouchNothing
<1> QED
  BY Invariance, <1>1, PTL

(* The exit code 0 is the truth, whatever fails and whenever the process   *)
(* is interrupted.                                                         *)
THEOREM SuccessIsTrue == Spec => []SuccessMeansDone
<1>1. Whole => SuccessMeansDone
  BY DEF Whole, IInv
<1> QED
  BY Invariance, <1>1, PTL

(* No connection is made from flags that are spelt out, or from a file,    *)
(* that name it twice.                                                     *)
THEOREM ContradictionsAreHarmless == Spec => []ContradictionsTouchNothing
<1>1. Whole => ContradictionsTouchNothing
  BY Contradictions DEF Whole
<1> QED
  BY Invariance, <1>1, PTL

(* Every variable stays in its range, and no command has touched anything  *)
(* outside before it has its settings.                                     *)
THEOREM TypeCorrect == Spec => []TypeOK
<1>1. Whole => TypeOK
  BY DEF Whole
<1> QED
  BY Invariance, <1>1, PTL

(* Every setting is what was said of it last, on the command line, in the  *)
(* environment, in the file or by the default, for any files and flags.    *)
THEOREM LastWordCounts == Spec => []SettingsComeFromTheLastWord
<1>1. ASSUME Whole PROVE SettingsComeFromTheLastWord
  <2> SUFFICES ASSUME config # None, NEW option \in DOMAIN SettingOf \ Repeatable
               PROVE  config[SettingOf[option]] = Says(option)
    BY DEF SettingsComeFromTheLastWord
  <2>1. stage \notin {"parsing", "asking", "overwriting", "writing"}
    BY <1>1 DEF Whole, Configured
  <2>2. argv.command # "init" /\ ParserError = None
    BY <1>1, <2>1 DEF Whole, IInv, ByCommand, Checked
  <2>3. SettingsOf(argv, disk)[SettingOf[option]] = Says(option)
    BY <1>1, <2>2, LastWord DEF Whole, Lines
  <2>4. SettingOf[option] \in SettingNames \ {"server.password"}
    BY SettingsHaveDefaults
  <2> QED
    BY <1>1, <2>1, <2>3, <2>4 DEF Whole, Configured
<1> QED
  BY Invariance, <1>1, PTL

(* A dump of what validate accepted or the wizard wrote, however many      *)
(* follow, is only refused for the two things that validate does not look  *)
(* at.                                                                     *)
THEOREM RefusalsOfTheAccepted == Spec => []DumpRefusesOnlyWhatValidateIgnores
<1>1. ASSUME Whole PROVE DumpRefusesOnlyWhatValidateIgnores
  <2> SUFFICES ASSUME accepted, argv.command = "dump", raised # None, source = "untouched",
                      raised \notin {"OSError", "SystemExit"}
               PROVE  \/ /\ raised = "CommandLineError"
                         /\ config["split_size"] # None /\ config["output_file"] = None
                      \/ /\ raised = "SourceReaderError"
                         /\ config["server.dsn"] \notin {None, config["driver"]}
    BY DEF DumpRefusesOnlyWhatValidateIgnores
  <2>1. raised \notin ConfigErrors \cup {"ParserError", "AbortExecution"}
    BY <1>1 DEF Whole, IInv, ByCommand, Trusted
  <2>2. raised \notin {"DBAPIError", "DomainError", "ValueError", "TargetWriterError"}
    BY <1>1 DEF Whole, Reasons
  <2>3. raised \in {"CommandLineError", "SourceReaderError"}
    BY <1>1, <2>1, <2>2 DEF Whole, TypeOK, Exceptions, ConfigErrors
  <2> QED
    BY <1>1, <2>3 DEF Whole, Reasons, SourceMismatch
<1> QED
  BY Invariance, <1>1, PTL
=============================================================================
