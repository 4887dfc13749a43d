--------------------------- MODULE ExecutingSink ----------------------------
(***************************************************************************)
(* ExecutingSink (infrastructure/output/executing_sink.py): the sink of    *)
(* "migrate".  It collects what the emitter writes, cuts it at semicolons  *)
(* and has the writer execute one piece after the other.                   *)
(*                                                                         *)
(* Text is abstracted to four tokens: some SQL, the semicolon that ends a  *)
(* statement, a semicolon inside a string literal, and white space.  The   *)
(* sink cannot tell the two semicolons apart.                              *)
(***************************************************************************)
EXTENDS Naturals, Sequences, FiniteSets, SequencesExt

CONSTANTS
  Statements, \* the statements an emitter may emit, each a sequence of chunks
  MaxEmitted  \* bound: statements emitted in one migration

Token == {"sql", "end", "literal", "blank"}

ASSUME EmitterAssumption ==
  /\ Statements \subseteq Seq(Seq(Token))
  /\ MaxEmitted \in Nat

IsSemicolon(token) == token \in {"end", "literal"}

VARIABLES
  stage,    \* "body", or "closed"
  raised,   \* is an exception leaving the with block?
  emitted,  \* number of statements the emitter has begun
  chunks,   \* the chunks of the current statement it has still to write
  buffer,   \* _buffer, joined
  pieces,   \* the statements cut from the last write, to be executed
  executed, \* what the writer has executed
  failed,   \* a statement has failed on the server
  accepted  \* every token written

vars == <<stage, raised, emitted, chunks, buffer, pieces, executed, failed, accepted>>

Init ==
  /\ stage = "body"
  /\ raised = FALSE
  /\ emitted = 0
  /\ chunks = << >>
  /\ buffer = << >>
  /\ pieces = << >>
  /\ executed = << >>
  /\ failed = FALSE
  /\ accepted = << >>

-----------------------------------------------------------------------------
(* _split_statements: the pieces that end with a semicolon, and the rest.  *)
Semicolons(text) == {i \in 1..Len(text) : IsSemicolon(text[i])}

EndOf(text, k) ==
  CHOOSE i \in Semicolons(text) : Cardinality({j \in Semicolons(text) : j <= i}) = k

Pieces(text) ==
  [k \in 1..Cardinality(Semicolons(text)) |->
     SubSeq(text, IF k = 1 THEN 1 ELSE EndOf(text, k - 1) + 1, EndOf(text, k))]

Remainder(text) ==
  LET last == IF Semicolons(text) = {} THEN 0
              ELSE CHOOSE i \in Semicolons(text) : \A j \in Semicolons(text) : j <= i
  IN  SubSeq(text, last + 1, Len(text))

Stripped(text) ==
  FlattenSeq([i \in 1..Len(text) |-> IF text[i] = "blank" THEN << >> ELSE <<text[i]>>])

(* stmt.strip().rstrip(";").strip(): is there anything to execute?         *)
HasSql(text) == \E i \in 1..Len(text) : text[i] = "sql"

-----------------------------------------------------------------------------
(* The emitter begins its next statement.                                  *)
Begin ==
  /\ stage = "body" /\ ~raised
  /\ chunks = << >> /\ pieces = << >>
  /\ emitted < MaxEmitted
  /\ emitted' = emitted + 1
  /\ chunks' \in Statements
  /\ UNCHANGED <<stage, raised, buffer, pieces, executed, failed, accepted>>

(* A faulty write that cuts each chunk on its own.                         *)
WriteByChunk ==
  /\ stage = "body" /\ ~raised
  /\ chunks # << >> /\ pieces = << >>
  /\ pieces' = Pieces(Head(chunks))
  /\ buffer' = buffer \o Remainder(Head(chunks))
  /\ accepted' = accepted \o Head(chunks)
  /\ chunks' = Tail(chunks)
  /\ UNCHANGED <<stage, raised, emitted, executed, failed>>

(* A faulty write that does not empty the buffer.                          *)
WriteKeepingBuffer ==
  /\ stage = "body" /\ ~raised
  /\ chunks # << >> /\ pieces = << >>
  /\ buffer' = buffer \o Head(chunks)
  /\ pieces' = Pieces(buffer')
  /\ accepted' = accepted \o Head(chunks)
  /\ chunks' = Tail(chunks)
  /\ UNCHANGED <<stage, raised, emitted, executed, failed>>

(* write: the buffer keeps the remainder, whatever becomes of the pieces.  *)
Write ==
  /\ stage = "body" /\ ~raised
  /\ chunks # << >> /\ pieces = << >>
  /\ LET joined == buffer \o Head(chunks)
     IN  /\ pieces' = Pieces(joined)
         /\ buffer' = Remainder(joined)
  /\ accepted' = accepted \o Head(chunks)
  /\ chunks' = Tail(chunks)
  /\ UNCHANGED <<stage, raised, emitted, executed, failed>>

(* The loop of write, one piece at a time: one with nothing to execute is  *)
(* passed over.                                                            *)
ExecutePiece ==
  /\ stage = "body" /\ ~raised
  /\ pieces # << >>
  /\ executed' = IF HasSql(Head(pieces)) THEN Append(executed, Stripped(Head(pieces)))
                 ELSE executed
  /\ pieces' = Tail(pieces)
  /\ UNCHANGED <<stage, raised, emitted, chunks, buffer, failed, accepted>>

(* A faulty write that empties the buffer only after the loop.             *)
ExecutePieceFailsKeepingPieces ==
  /\ stage = "body" /\ ~raised
  /\ pieces # << >> /\ HasSql(Head(pieces))
  /\ buffer' = FlattenSeq(pieces) \o buffer
  /\ pieces' = << >>
  /\ raised' = TRUE
  /\ failed' = TRUE
  /\ UNCHANGED <<stage, emitted, chunks, executed, accepted>>

(* execute_ddl raises: the pieces that were to follow are lost.            *)
ExecutePieceFails ==
  /\ stage = "body" /\ ~raised
  /\ pieces # << >> /\ HasSql(Head(pieces))
  /\ pieces' = << >>
  /\ raised' = TRUE
  /\ failed' = TRUE
  /\ UNCHANGED <<stage, emitted, chunks, buffer, executed, accepted>>

(* The source fails, or a signal arrives.                                  *)
Raise ==
  /\ stage = "body" /\ ~raised
  /\ raised' = TRUE
  /\ pieces' = << >>
  /\ UNCHANGED <<stage, emitted, chunks, buffer, executed, failed, accepted>>

(* A signal arrives when write has appended and not yet cut: the buffer    *)
(* holds a statement that may be complete.                                 *)
InterruptWrite ==
  /\ stage = "body" /\ ~raised
  /\ chunks # << >> /\ pieces = << >>
  /\ raised' = TRUE
  /\ buffer' = buffer \o Head(chunks)
  /\ accepted' = accepted \o Head(chunks)
  /\ UNCHANGED <<stage, emitted, chunks, pieces, executed, failed>>

Leaving == stage = "body" /\ (raised \/ (chunks = << >> /\ pieces = << >>))

(* __exit__: flush executes what the buffer still holds, or fails to.      *)
Exit ==
  /\ Leaving
  /\ stage' = "closed"
  /\ buffer' = << >>
  /\ IF Stripped(buffer) = << >>
     THEN UNCHANGED <<executed, raised, failed>>
     ELSE \/ executed' = Append(executed, Stripped(buffer)) /\ UNCHANGED <<raised, failed>>
          \/ raised' = TRUE /\ failed' = TRUE /\ UNCHANGED executed
  /\ UNCHANGED <<emitted, chunks, pieces, accepted>>

Finished == stage = "closed" /\ UNCHANGED vars

Next ==
  \/ Begin
  \/ Write
  \/ ExecutePiece
  \/ ExecutePieceFails
  \/ Raise
  \/ InterruptWrite
  \/ Exit
  \/ Finished

Spec == Init /\ [][Next]_vars

-----------------------------------------------------------------------------
(* A text with one semicolon, which ends it but for white space.           *)
IsStatement(text) ==
  \E k \in 1..Len(text) :
    /\ text[k] = "end"
    /\ \A i \in 1..(k - 1) : ~IsSemicolon(text[i])
    /\ \E i \in 1..(k - 1) : text[i] = "sql"
    /\ \A i \in (k + 1)..Len(text) : text[i] = "blank"

(* What the docstring of _split_statements says of the emitters: they put  *)
(* no semicolon inside an identifier or a string literal.  The emitters do *)
(* not see to it: they copy defaults and names as the source has them.     *)
NoLiteralSemicolons == \A s \in Statements : IsStatement(FlattenSeq(s))

(* The statements as the emitter means them: up to a semicolon that ends   *)
(* one.                                                                    *)
Meant == {Stripped(FlattenSeq(s)) : s \in Statements}

(* The writer executes what the emitter emitted, statement by statement:   *)
(* only the flush of an exception can have it execute anything else.  So   *)
(* it is where NoLiteralSemicolons holds, and a default with a semicolon   *)
(* is executed in two pieces.                                              *)
ExecutesWholeStatements ==
  (stage = "body" \/ ~raised) =>
    \A i \in 1..Len(executed) : executed[i] \in Meant

(* After an error of the server nothing more is executed, the flush of     *)
(* __exit__ included, where NoLiteralSemicolons holds: the first piece of  *)
(* a statement cut at a default fails, and the flush executes its rest.    *)
NothingFollowsAnError == [][failed => executed' = executed]_vars

(* Whatever happens the executed text is a prefix of the emitted text, and *)
(* all of it when the sink closes without an exception, where              *)
(* NoLiteralSemicolons holds.                                              *)
Sink == INSTANCE OutputSink WITH
  accepted <- Stripped(accepted),
  delivered <- FlattenSeq(executed),
  closed <- stage = "closed" /\ ~raised

ImplementsOutputSink == Sink!Spec
=============================================================================
