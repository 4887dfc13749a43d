-------------------------- MODULE RotatingFileSink --------------------------
(***************************************************************************)
(* RotatingFileSink (infrastructure/output/rotating_file_sink.py): the     *)
(* sink of "dump -f PATH --split-size SIZE".  An emitter writes chunks and *)
(* declares boundaries; the sink keeps the chunks in a buffer and, at each *)
(* boundary, appends them to the current part or opens the next part.      *)
(*                                                                         *)
(* The text is abstracted to chunks.  A chunk has a size in bytes and a    *)
(* kind: "open" leaves a statement unfinished (the header and the rows of  *)
(* a COPY block, the first lines of a CREATE TABLE), "end" finishes it,    *)
(* "blank" is a newline between two statements.  The disk is the log of    *)
(* the chunks written to the part files: each with the index of its part   *)
(* and the offset in that file at which it ends.  An emitter declares a    *)
(* boundary after each statement, so never with an empty buffer.           *)
(*                                                                         *)
(* Any step may be cut short: a failing read of the source or SIGINT /     *)
(* SIGTERM (SystemExit) raises inside the with block, opening a part,      *)
(* writing to it or closing it may raise OSError.  What was passed to      *)
(* stream.write is taken to be in the part: what Python and the operating  *)
(* system hold back of it, and a failing close loses, is left out.         *)
(***************************************************************************)
EXTENDS Integers, Sequences, SequencesExt

CONSTANTS
  MaxBytes,  \* the --split-size
  Sizes,     \* the sizes of the chunks, in bytes
  MaxChunks  \* bound: chunks written in one dump

ASSUME SinkAssumption ==
  /\ MaxBytes \in Nat \ {0}
  /\ Sizes \subseteq Nat
  /\ MaxChunks \in Nat

Chunk == {chunk \in [size : Sizes, kind : {"open", "end", "blank"}] :
            chunk.kind = "blank" => chunk.size = 1}

Held == [chunk : Chunk, upto : Nat]

Stored == [part : Nat, chunk : Chunk, end : Nat]

VARIABLES
  stage,       \* "new", "entered", "closed", or "broken": __exit__ raised
  raised,      \* is an exception leaving the with block?
  emitter,     \* "between" statements, "inside" one, or at its "boundary"
  buffer,      \* _buffer, each chunk with the bytes buffered up to it
  partIndex,   \* _part_index, the number of paths
  currentSize, \* _current_size
  streamOpen,  \* _current_stream is not None
  disk,        \* every chunk written to a part, in order
  accepted,    \* every chunk accepted by write, in order
  safe         \* the lengths of accepted at which boundary was called

vars == <<stage, raised, emitter, buffer, partIndex, currentSize, streamOpen,
          disk, accepted, safe>>

(* sum(len(s.encode("utf-8")) for s in self._buffer)                       *)
Buffered == IF buffer = << >> THEN 0 ELSE buffer[Len(buffer)].upto

(* The first n chunks of the buffer, as a part of size offset holds them.  *)
Written(n, part, offset) ==
  [i \in 1..n |-> [part |-> part, chunk |-> buffer[i].chunk, end |-> offset + buffer[i].upto]]

Delivered == [i \in 1..Len(disk) |-> disk[i].chunk]

Init ==
  /\ stage = "new"
  /\ raised = FALSE
  /\ emitter = "between"
  /\ buffer = << >>
  /\ partIndex = 0
  /\ currentSize = 0
  /\ streamOpen = FALSE
  /\ disk = << >>
  /\ accepted = << >>
  /\ safe = {0}

(* __enter__ opens the first part; opening truncates the file.             *)
Enter ==
  /\ stage = "new"
  /\ stage' = "entered"
  /\ partIndex' = partIndex + 1
  /\ currentSize' = 0
  /\ streamOpen' = TRUE
  /\ UNCHANGED <<raised, emitter, buffer, disk, accepted, safe>>

(* An OSError from open: the with block is never entered.                  *)
EnterFails ==
  /\ stage = "new"
  /\ stage' = "broken"
  /\ raised' = TRUE
  /\ partIndex' = partIndex + 1
  /\ UNCHANGED <<emitter, buffer, currentSize, streamOpen, disk, accepted, safe>>

InWith == stage = "entered" /\ ~raised

(* A faulty write that spares memory: a buffer past the limit goes to a    *)
(* part of its own at once.                                                *)
WriteRotating(chunk) ==
  /\ InWith
  /\ emitter # "boundary"
  /\ Len(accepted) < MaxChunks
  /\ chunk.kind = "blank" => emitter = "between"
  /\ chunk.size > 0
  /\ LET full == Buffered > MaxBytes
     IN  /\ disk' = IF full THEN disk \o Written(Len(buffer), partIndex + 1, 0) ELSE disk
         /\ partIndex' = IF full THEN partIndex + 1 ELSE partIndex
         /\ currentSize' = IF full THEN Buffered ELSE currentSize
         /\ buffer' = IF full THEN <<[chunk |-> chunk, upto |-> chunk.size]>>
                      ELSE Append(buffer, [chunk |-> chunk, upto |-> Buffered + chunk.size])
  /\ accepted' = Append(accepted, chunk)
  /\ emitter' = CASE chunk.kind = "open"  -> "inside"
                  [] chunk.kind = "end"   -> "boundary"
                  [] chunk.kind = "blank" -> "between"
  /\ UNCHANGED <<stage, raised, streamOpen, safe>>

(* write: empty data is ignored.                                           *)
Write(chunk) ==
  /\ InWith
  /\ emitter # "boundary"
  /\ Len(accepted) < MaxChunks
  /\ chunk.kind = "blank" => emitter = "between"
  /\ chunk.size > 0
  /\ buffer' = Append(buffer, [chunk |-> chunk, upto |-> Buffered + chunk.size])
  /\ accepted' = Append(accepted, chunk)
  /\ emitter' = CASE chunk.kind = "open"  -> "inside"
                  [] chunk.kind = "end"   -> "boundary"
                  [] chunk.kind = "blank" -> "between"
  /\ UNCHANGED <<stage, raised, partIndex, currentSize, streamOpen, disk, safe>>

(* A faulty condition on the rotation.                                     *)
RotatesOnceFull == currentSize > MaxBytes

(* The part would grow past the limit, and rotating would help.            *)
MustRotate == currentSize > 0 /\ currentSize + Buffered > MaxBytes

(* A faulty boundary that counts the room left instead of the bytes.       *)
AppendCountingRoom ==
  /\ InWith
  /\ emitter = "boundary"
  /\ ~MustRotate
  /\ disk' = disk \o Written(Len(buffer), partIndex, currentSize)
  /\ currentSize' = MaxBytes - (currentSize + Buffered)
  /\ buffer' = << >>
  /\ safe' = safe \cup {Len(accepted)}
  /\ emitter' = "between"
  /\ UNCHANGED <<stage, raised, partIndex, streamOpen, accepted>>

(* boundary, when the buffer still fits: _flush_buffer.                    *)
AppendAtBoundary ==
  /\ InWith
  /\ emitter = "boundary"
  /\ ~MustRotate
  /\ disk' = disk \o Written(Len(buffer), partIndex, currentSize)
  /\ currentSize' = currentSize + Buffered
  /\ buffer' = << >>
  /\ safe' = safe \cup {Len(accepted)}
  /\ emitter' = "between"
  /\ UNCHANGED <<stage, raised, partIndex, streamOpen, accepted>>

(* boundary, when it does not: _rotate, then _flush_buffer.                *)
RotateAtBoundary ==
  /\ InWith
  /\ emitter = "boundary"
  /\ MustRotate
  /\ partIndex' = partIndex + 1
  /\ disk' = disk \o Written(Len(buffer), partIndex', 0)
  /\ currentSize' = Buffered
  /\ buffer' = << >>
  /\ safe' = safe \cup {Len(accepted)}
  /\ emitter' = "between"
  /\ UNCHANGED <<stage, raised, streamOpen, accepted>>

(* _rotate could not close the part, or closed it and could not open the   *)
(* next one (OSError, or a signal between the two): no stream is left to   *)
(* write to, the block stays in the buffer.                                *)
RotateFails ==
  /\ InWith
  /\ emitter = "boundary"
  /\ MustRotate
  /\ partIndex' \in {partIndex, partIndex + 1}
  /\ streamOpen' = FALSE
  /\ raised' = TRUE
  /\ UNCHANGED <<stage, emitter, buffer, currentSize, disk, accepted, safe>>

(* A signal between _rotate and _flush_buffer: __exit__ will write the     *)
(* block to the new part.                                                  *)
InterruptRotation ==
  /\ InWith
  /\ emitter = "boundary"
  /\ MustRotate
  /\ partIndex' = partIndex + 1
  /\ currentSize' = 0
  /\ raised' = TRUE
  /\ UNCHANGED <<stage, emitter, buffer, streamOpen, disk, accepted, safe>>

(* A faulty _flush_buffer that empties the buffer only after the write.    *)
FlushFailsKeepingBuffer ==
  /\ InWith
  /\ emitter = "boundary"
  /\ partIndex' = IF MustRotate THEN partIndex + 1 ELSE partIndex
  /\ currentSize' = IF MustRotate THEN 0 ELSE currentSize
  /\ \E n \in 0..Len(buffer) : disk' = disk \o Written(n, partIndex', currentSize')
  /\ raised' = TRUE
  /\ UNCHANGED <<stage, emitter, buffer, streamOpen, accepted, safe>>

(* _flush_buffer emptied the buffer and stream.write raised, before or     *)
(* after a rotation: some of the payload is in the part.                   *)
FlushFails ==
  /\ InWith
  /\ emitter = "boundary"
  /\ partIndex' = IF MustRotate THEN partIndex + 1 ELSE partIndex
  /\ currentSize' = IF MustRotate THEN 0 ELSE currentSize
  /\ \E n \in 0..Len(buffer) : disk' = disk \o Written(n, partIndex', currentSize')
  /\ buffer' = << >>
  /\ raised' = TRUE
  /\ UNCHANGED <<stage, emitter, streamOpen, accepted, safe>>

(* The source fails or a signal arrives while the emitter is at work.      *)
Raise ==
  /\ InWith
  /\ raised' = TRUE
  /\ UNCHANGED <<stage, emitter, buffer, partIndex, currentSize, streamOpen,
                 disk, accepted, safe>>

Leaving == stage = "entered" /\ (raised \/ emitter = "between")

(* A faulty __exit__ that closes the part and drops what is buffered.      *)
ExitWithoutFlush ==
  /\ Leaving
  /\ stage' = "closed"
  /\ streamOpen' = FALSE
  /\ buffer' = << >>
  /\ UNCHANGED <<raised, emitter, partIndex, currentSize, disk, accepted, safe>>

(* __exit__, on an exception too: the buffer goes to the current part,     *)
(* without a rotation, and the part is closed.                             *)
Exit ==
  /\ Leaving
  /\ buffer = << >> \/ streamOpen
  /\ stage' = "closed"
  /\ streamOpen' = FALSE
  /\ disk' = disk \o Written(Len(buffer), partIndex, currentSize)
  /\ currentSize' = currentSize + Buffered
  /\ buffer' = << >>
  /\ UNCHANGED <<raised, emitter, partIndex, accepted, safe>>

(* __exit__ after RotateFails: the assertion of _flush_buffer raises, or   *)
(* the write to the closed stream, and takes the place of the exception    *)
(* that was leaving the with block.                                        *)
ExitAsserts ==
  /\ Leaving
  /\ buffer # << >> /\ ~streamOpen
  /\ stage' = "broken"
  /\ raised' = TRUE
  /\ buffer' \in {buffer, << >>}
  /\ UNCHANGED <<emitter, partIndex, currentSize, streamOpen,
                 disk, accepted, safe>>

(* The flush of __exit__ raises, the part holds some of the tail; or the   *)
(* close does.                                                             *)
ExitFails ==
  /\ Leaving
  /\ streamOpen
  /\ stage' = "broken"
  /\ raised' = TRUE
  /\ \E n \in 0..Len(buffer) : disk' = disk \o Written(n, partIndex, currentSize)
  /\ buffer' = << >>
  /\ UNCHANGED <<emitter, partIndex, currentSize, streamOpen, accepted, safe>>

Finished == stage \in {"closed", "broken"} /\ UNCHANGED vars

Next ==
  \/ Enter
  \/ EnterFails
  \/ \E chunk \in Chunk : Write(chunk)
  \/ AppendAtBoundary
  \/ RotateAtBoundary
  \/ RotateFails
  \/ InterruptRotation
  \/ FlushFails
  \/ Raise
  \/ Exit
  \/ ExitAsserts
  \/ ExitFails
  \/ Finished

Spec == Init /\ [][Next]_vars

-----------------------------------------------------------------------------
TypeOK ==
  /\ stage \in {"new", "entered", "closed", "broken"}
  /\ raised \in BOOLEAN
  /\ emitter \in {"between", "inside", "boundary"}
  /\ buffer \in Seq(Held)
  /\ partIndex \in Nat
  /\ currentSize \in Nat
  /\ streamOpen \in BOOLEAN
  /\ disk \in Seq(Stored)
  /\ accepted \in Seq(Chunk)
  /\ safe \in SUBSET Nat

(* Concatenating the parts never yields anything but a prefix of the dump, *)
(* and all of it once the sink has closed without an exception.            *)
PartsConcatenateToTheDump ==
  /\ IsPrefix(Delivered, accepted)
  /\ (stage = "closed" /\ ~raised) => Delivered = accepted

(* A part never ends inside a statement for another part to begin there:   *)
(* parts are written one after the other, and where one ends and the next  *)
(* begins the emitter declared a boundary.                                 *)
CutsAtBoundaries ==
  \A i \in 1..(Len(disk) - 1) :
    disk[i].part # disk[i + 1].part => disk[i + 1].part = disk[i].part + 1 /\ i \in safe

(* A part exceeds the limit at a boundary only if all it holds is one      *)
(* block, which could not have been split.                                 *)
LimitAtBoundaries ==
  \A k \in safe \cap 1..Len(disk) :
    disk[k].end > MaxBytes =>
      \A m \in safe \cap 1..(k - 1) : disk[m].part # disk[k].part

(* The sink starts a new part only when the part so far and the next block *)
(* exceed the limit together: no part is cut short or left empty.          *)
NoNeedlessRotation ==
  \A k \in 1..(Len(disk) - 1) : \A m \in safe \cap (k + 1)..Len(disk) :
    (disk[k].part # disk[k + 1].part /\ safe \cap (k + 1)..(m - 1) = {}) =>
      disk[k].end + disk[m].end > MaxBytes

(* The sink implements the OutputSink port.                                *)
Sink == INSTANCE OutputSink WITH
  delivered <- Delivered,
  closed <- stage = "closed" /\ ~raised

ImplementsOutputSink == Sink!Spec
=============================================================================
