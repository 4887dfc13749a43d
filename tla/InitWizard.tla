----------------------------- MODULE InitWizard -----------------------------
(***************************************************************************)
(* The wizard of db2sql init: the questions of build_config, one after     *)
(* another, the settings that the answers make, and the file that          *)
(* serialize_config and _write_output make of them.                        *)
(*                                                                         *)
(* questions is what is left to ask: an answer may put questions in front  *)
(* of the others, and a question that is repeated stays at the front.      *)
(***************************************************************************)
EXTENDS Settings

CONSTANTS
  Readers,      \* the names of the registered readers
  Emitters,     \* the names of the registered emitters
  Words,        \* what a user types when asked for a list
  MaxRepeats    \* how often a user goes round the loops of the wizard

VARIABLES
  questions,    \* what is left to ask, the next one first
  answers,      \* the settings answered so far
  format,       \* "yaml" or "json"
  repeats       \* how often a loop was taken

wizard == <<questions, answers, format, repeats>>

NotAsking ==
  questions = <<>> /\ answers = <<>> /\ format = None /\ repeats = 0

DumpQuestions ==
  <<"limit_records", "data_format", "include_schemas", "more_schemas",
    "add_mapping", "add_override", "output_file">>

ServerQuestions(driver) ==
  IF driver = "sqlite" THEN <<"schema">> ELSE <<"hostname", "store_password">>

FirstQuestions == <<"format", "driver", "target">> \o DumpQuestions

Possible(question) ==
  CASE question = "format"          -> {"yaml", "json"}
    [] question = "driver"          -> Readers
    [] question = "target"          -> Emitters
    [] question = "hostname"        -> {"wizard"}
    [] question = "limit_records"   -> {"-1", "5"}
    [] question = "data_format"     -> {"copy", "insert"}
    [] question = "include_schemas" -> {{}} \cup {{word} : word \in Words}
    [] question = "override"        -> {"inherit", "copy", "insert"}
    [] question = "output_file"     -> {"", "wizard.sql"}
    [] question \in {"schema", "mapping"} -> {"text"}
    [] question = "password"        -> {"confirmed", "mistyped"}
    [] question \in {"store_password", "more_schemas", "add_mapping",
                     "add_override"} -> BOOLEAN

(* A default is not written into the settings.                             *)
With(key, value) ==
  IF value = DefaultSettings[key] THEN answers
  ELSE [k \in DOMAIN answers \cup {key} |-> IF k = key THEN value ELSE answers[k]]

TargetDialect == IF "target" \in DOMAIN answers THEN answers["target"] ELSE "postgres"

(* _ask_data_format: SQL Server has no COPY.                               *)
FormatFor(dialect, answer) == IF dialect = "mssql" THEN "insert" ELSE answer

Recorded(question, answer) ==
  CASE question = "driver" -> With("driver", answer)
    [] question = "target" -> With("target", answer)
    [] question = "hostname" -> With("server.hostname", answer)
    [] question = "password" /\ answer = "confirmed" -> With("server.password", "secret")
    [] question = "limit_records" -> With("dump.limit_records", answer)
    [] question = "data_format" ->
         With("dump.default_data_format", FormatFor(TargetDialect, answer))
    [] question = "include_schemas" /\ "dump.include_schemas" \in DOMAIN answers ->
         With("dump.include_schemas", answers["dump.include_schemas"] \cup Flattened(answer))
    [] question = "include_schemas" /\ "dump.include_schemas" \notin DOMAIN answers ->
         With("dump.include_schemas", Flattened(answer))
    [] question = "mapping" -> With("dump.mapping_schemas", {answer})
    [] question = "override" -> With("dump.tables", {answer})
    [] question = "output_file" /\ answer # "" -> With("output_file", answer)
    [] OTHER -> answers

(* What is asked after an answer.                                          *)
Following(question, answer) ==
  LET rest == Tail(questions)
  IN CASE question = "target" -> ServerQuestions(
                IF "driver" \in DOMAIN answers THEN answers["driver"] ELSE "mssql") \o rest
       [] question = "store_password" /\ answer -> <<"password">> \o rest
       [] question = "password" /\ answer = "mistyped" -> questions
       [] question = "more_schemas" /\ answer -> <<"include_schemas">> \o questions
       [] question = "add_mapping" /\ answer -> <<"mapping">> \o questions
       [] question = "add_override" /\ answer -> <<"override">> \o questions
       [] OTHER -> rest

Repeats(question, answer) ==
  \/ question \in {"more_schemas", "add_mapping", "add_override"} /\ answer
  \/ question = "password" /\ answer = "mistyped"

StartAsking ==
  /\ questions' = FirstQuestions
  /\ UNCHANGED <<answers, format, repeats>>

(* One question and its answer.                                            *)
Answer ==
  /\ questions # <<>>
  /\ LET question == Head(questions)
     IN \E answer \in Possible(question) :
          /\ Repeats(question, answer) => repeats < MaxRepeats
          /\ repeats' = repeats + IF Repeats(question, answer) THEN 1 ELSE 0
          /\ format' = IF question = "format" THEN answer ELSE format
          /\ answers' = Recorded(question, answer)
          /\ questions' = Following(question, answer)

(* The answers are written under one key that the schema does not know.    *)
SerializedNested(path) ==
  IF answers = <<>> THEN Empty ELSE FileOf("answers" :> answers)

(* The settings without those that have their default, in the format that  *)
(* was chosen: every JSON file is a YAML file, but not the other way round. *)
Serialized(path) ==
  IF path = "given.json" /\ format = "yaml" THEN Unparsable
  ELSE IF answers = <<>> THEN Empty
  ELSE FileOf(answers)
=============================================================================
