----------------------------- MODULE OutputSink -----------------------------
(***************************************************************************)
(* What the OutputSink port (application/ports/output_sink.py) promises to *)
(* the emitter that writes to it, whatever the sink: the text that reaches *)
(* the output is, at any time, a prefix of the text the sink accepted, it  *)
(* is never taken back, and a sink closed without an error has delivered   *)
(* all of it.  RotatingFileSink and ExecutingSink are shown to implement   *)
(* this specification.                                                     *)
(***************************************************************************)
EXTENDS Sequences, SequencesExt

VARIABLES
  accepted,  \* the chunks passed to write, in order
  delivered, \* the chunks that reached the output, in order
  closed     \* has the sink been closed without an error?

vars == <<accepted, delivered, closed>>

Init ==
  /\ accepted = << >>
  /\ delivered = << >>
  /\ ~closed

Step ==
  /\ ~closed
  /\ IsPrefix(accepted, accepted')
  /\ IsPrefix(delivered, delivered')
  /\ IsPrefix(delivered', accepted')
  /\ closed' => delivered' = accepted'

Spec == Init /\ [][Step]_vars
=============================================================================
