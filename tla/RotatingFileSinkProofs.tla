----------------------- MODULE RotatingFileSinkProofs -----------------------
(***************************************************************************)
(* Theorems about RotatingFileSink, for every limit, every size of chunk   *)
(* and a dump of any length (MaxChunks is arbitrary).                      *)
(***************************************************************************)
EXTENDS RotatingFileSink, TLAPS

(***************************************************************************)
(* The inductive invariant behind the theorems, part by part.              *)
(***************************************************************************)

(* The disk and then the buffer hold what was accepted, chunk by chunk;    *)
(* only an exception may leave a gap, and nothing is written after it.     *)
LogInv ==
  /\ \A i \in 1..Len(disk) : i <= Len(accepted) /\ disk[i].chunk = accepted[i]
  /\ \A i \in 1..Len(buffer) :
       Len(disk) + i <= Len(accepted) /\ buffer[i].chunk = accepted[Len(disk) + i]
  /\ ~raised => Len(disk) + Len(buffer) = Len(accepted)
  /\ stage \in {"new", "closed"} => buffer = << >>
  /\ stage = "new" => ~raised /\ disk = << >> /\ emitter = "between"

(* A chunk takes room, in the buffer and on the disk.                      *)
SizeInv ==
  /\ \A i \in 1..Len(buffer) : buffer[i].upto > 0
  /\ \A i \in 1..Len(disk) : disk[i].end > 0

(* The next byte of the buffer still belongs after the last on the disk.   *)
InStep ==
  /\ stage = "entered"
  /\ raised => streamOpen /\ buffer # << >> /\ (disk = << >> \/ currentSize # 0)

(* A signal came when the sink had opened a new part and not yet written.  *)
Fresh ==
  /\ stage = "entered" /\ raised /\ streamOpen
  /\ buffer # << >> /\ disk # << >> /\ currentSize = 0

(* In step, the disk ends at a boundary, in the current part, at the       *)
(* offset the sink has counted.                                            *)
CurrentInv ==
  /\ safe \subseteq 0..Len(disk)
  /\ (InStep \/ stage = "new") => Len(disk) \in safe
  /\ \A i \in 1..Len(disk) : disk[i].part <= partIndex
  /\ (InStep /\ disk # << >>) =>
       disk[Len(disk)].part = partIndex /\ disk[Len(disk)].end = currentSize
  /\ (InStep /\ disk = << >>) => currentSize = 0
  /\ Fresh => Len(disk) \in safe /\ partIndex = disk[Len(disk)].part + 1
  /\ (InWith /\ emitter = "boundary") => buffer # << >>

IInv ==
  /\ LogInv
  /\ SizeInv
  /\ CurrentInv
  /\ CutsAtBoundaries
  /\ LimitAtBoundaries
  /\ NoNeedlessRotation

-----------------------------------------------------------------------------
(* What the two operations on sequences do to the elements.                *)
LEMMA AppendFacts ==
  ASSUME NEW S, NEW s \in Seq(S), NEW e \in S
  PROVE  /\ Append(s, e) \in Seq(S)
         /\ Append(s, e) # << >>
         /\ Len(Append(s, e)) = Len(s) + 1
         /\ \A i \in 1..Len(s) : Append(s, e)[i] = s[i]
         /\ Append(s, e)[Len(s) + 1] = e
  OBVIOUS

(* Two sequences agree up to n: the prefix that the sink's users see.      *)
LEMMA PrefixFacts ==
  ASSUME NEW S, NEW s \in Seq(S), NEW t \in Seq(S),
         Len(s) <= Len(t), \A i \in 1..Len(s) : s[i] = t[i]
  PROVE  IsPrefix(s, t)
<1>1. SubSeq(s, 1, Len(s)) = SubSeq(t, 1, Len(s))
  OBVIOUS
<1> QED
  BY <1>1 DEF IsPrefix

(* The bytes buffered, and what n chunks of the buffer become on the disk. *)
LEMMA BufferFacts ==
  ASSUME TypeOK
  PROVE  /\ Len(buffer) \in Nat
         /\ buffer = << >> <=> Len(buffer) = 0
         /\ \A i \in 1..Len(buffer) : buffer[i].chunk \in Chunk /\ buffer[i].upto \in Nat
         /\ buffer # << >> => Buffered = buffer[Len(buffer)].upto
         /\ Buffered \in Nat
<1>1. buffer \in Seq(Held)
  BY DEF TypeOK
<1>2. Len(buffer) \in Nat /\ (buffer = << >> <=> Len(buffer) = 0)
  BY <1>1
<1>3. \A i \in 1..Len(buffer) : buffer[i] \in Held
  BY <1>1
<1>4. \A i \in 1..Len(buffer) : buffer[i].chunk \in Chunk /\ buffer[i].upto \in Nat
  BY <1>3 DEF Held
<1>5. buffer # << >> => Buffered = buffer[Len(buffer)].upto
  BY DEF Buffered
<1>6. Buffered \in Nat
  <2>1. CASE buffer = << >>
    BY <2>1 DEF Buffered
  <2>2. CASE buffer # << >>
    <3>1. Len(buffer) \in 1..Len(buffer)
      BY <1>2, <2>2
    <3> QED
      BY <1>4, <1>5, <2>2, <3>1
  <2> QED
    BY <2>1, <2>2
<1> QED
  BY <1>2, <1>4, <1>5, <1>6

LEMMA WrittenFacts ==
  ASSUME TypeOK, NEW n \in 0..Len(buffer), NEW part \in Nat, NEW offset \in Nat
  PROVE  /\ disk \o Written(n, part, offset) \in Seq(Stored)
         /\ Len(disk) \in Nat
         /\ Len(disk \o Written(n, part, offset)) = Len(disk) + n
         /\ \A i \in 1..Len(disk) : (disk \o Written(n, part, offset))[i] = disk[i]
         /\ \A i \in 1..n :
              (disk \o Written(n, part, offset))[Len(disk) + i] =
                [part |-> part, chunk |-> buffer[i].chunk, end |-> offset + buffer[i].upto]
<1> DEFINE w == Written(n, part, offset)
<1>1. n \in Nat /\ \A i \in 1..n : i \in 1..Len(buffer)
  BY BufferFacts
<1>2. \A i \in 1..n : buffer[i].chunk \in Chunk /\ offset + buffer[i].upto \in Nat
  BY <1>1, BufferFacts
<1>3. \A i \in 1..n :
        [part |-> part, chunk |-> buffer[i].chunk, end |-> offset + buffer[i].upto] \in Stored
  BY <1>2 DEF Stored
<1>4. w \in Seq(Stored) /\ Len(w) = n
  BY <1>1, <1>3 DEF Written
<1>5. \A i \in 1..n :
        w[i] = [part |-> part, chunk |-> buffer[i].chunk, end |-> offset + buffer[i].upto]
  BY DEF Written
<1>6. disk \in Seq(Stored)
  BY DEF TypeOK
<1>7. Len(disk) \in Nat
  BY <1>6
<1> HIDE DEF w
<1>8. /\ disk \o w \in Seq(Stored)
      /\ Len(disk \o w) = Len(disk) + Len(w)
      /\ \A i \in 1..Len(disk) : (disk \o w)[i] = disk[i]
      /\ \A i \in 1..Len(w) : (disk \o w)[Len(disk) + i] = w[i]
  <2>1. w \in Seq(Stored)
    BY <1>4
  <2> QED
    BY <1>6, <2>1
<1>9. /\ disk \o w \in Seq(Stored)
      /\ Len(disk \o w) = Len(disk) + n
      /\ \A i \in 1..Len(disk) : (disk \o w)[i] = disk[i]
      /\ \A i \in 1..n :
           (disk \o w)[Len(disk) + i] =
             [part |-> part, chunk |-> buffer[i].chunk, end |-> offset + buffer[i].upto]
  BY <1>4, <1>5, <1>8, Zenon
<1> QED
  BY <1>7, <1>9, Zenon DEF w

(* Every state of the sink has the types it declares; its counters never   *)
(* go below zero.                                                          *)
THEOREM TypeCorrect == Spec => []TypeOK
<1>1. Init => TypeOK
  <2> SUFFICES ASSUME Init
               PROVE  TypeOK
    OBVIOUS
  <2>1. << >> \in Seq(Held) /\ << >> \in Seq(Stored) /\ << >> \in Seq(Chunk)
    OBVIOUS
  <2>2. {0} \in SUBSET Nat
    OBVIOUS
  <2> QED
    BY <2>1, <2>2 DEF Init, TypeOK
<1>2. TypeOK /\ [Next]_vars => TypeOK'
  <2> SUFFICES ASSUME TypeOK, [Next]_vars
               PROVE  TypeOK'
    OBVIOUS
  <2>1. Buffered \in Nat /\ Len(buffer) \in Nat /\ Len(buffer) \in 0..Len(buffer)
    BY BufferFacts
  <2>2. \A n \in 0..Len(buffer) : \A part, offset \in Nat :
          disk \o Written(n, part, offset) \in Seq(Stored)
    BY WrittenFacts
  <2>3. safe \cup {Len(accepted)} \in SUBSET Nat
    <3>1. Len(accepted) \in Nat /\ safe \in SUBSET Nat
      BY DEF TypeOK
    <3> QED
      BY <3>1
  <2>4. partIndex \in Nat /\ currentSize \in Nat /\ << >> \in Seq(Held)
    BY DEF TypeOK
  <2>5. CASE Enter
    BY <2>5 DEF Enter, TypeOK
  <2>6. CASE EnterFails
    BY <2>6 DEF EnterFails, TypeOK
  <2>7. ASSUME NEW chunk \in Chunk, Write(chunk)
        PROVE  TypeOK'
    <3>1. chunk.size \in Nat /\ chunk.kind \in {"open", "end", "blank"}
      BY SinkAssumption DEF Chunk
    <3>2. [chunk |-> chunk, upto |-> Buffered + chunk.size] \in Held
      BY <2>1, <3>1 DEF Held
    <3>3. buffer \in Seq(Held) /\ accepted \in Seq(Chunk)
      BY DEF TypeOK
    <3>4. buffer' \in Seq(Held)
      BY <2>7, <3>2, <3>3 DEF Write
    <3>5. accepted' \in Seq(Chunk)
      BY <2>7, <3>3 DEF Write
    <3>6. emitter' \in {"between", "inside", "boundary"}
      BY <2>7, <3>1 DEF Write
    <3> QED
      BY <2>7, <3>4, <3>5, <3>6 DEF Write, TypeOK
  <2>8. CASE AppendAtBoundary
    <3>1. disk' \in Seq(Stored)
      BY <2>1, <2>2, <2>4, <2>8 DEF AppendAtBoundary
    <3>2. currentSize' \in Nat
      BY <2>1, <2>4, <2>8 DEF AppendAtBoundary
    <3>3. safe' \in SUBSET Nat
      BY <2>3, <2>8 DEF AppendAtBoundary
    <3> QED
      BY <2>4, <2>8, <3>1, <3>2, <3>3 DEF AppendAtBoundary, TypeOK
  <2>9. CASE RotateAtBoundary
    <3>1. partIndex' \in Nat /\ currentSize' \in Nat
      BY <2>1, <2>4, <2>9 DEF RotateAtBoundary
    <3>2. disk' \in Seq(Stored)
      BY <2>1, <2>2, <2>9, <3>1 DEF RotateAtBoundary
    <3>3. safe' \in SUBSET Nat
      BY <2>3, <2>9 DEF RotateAtBoundary
    <3> QED
      BY <2>4, <2>9, <3>1, <3>2, <3>3 DEF RotateAtBoundary, TypeOK
  <2>10. CASE RotateFails
    <3>1. partIndex' \in Nat
      BY <2>4, <2>10 DEF RotateFails
    <3> QED
      BY <2>10, <3>1 DEF RotateFails, TypeOK
  <2>17. CASE InterruptRotation
    BY <2>4, <2>17 DEF InterruptRotation, TypeOK
  <2>11. CASE FlushFails
    <3>1. partIndex' \in Nat /\ currentSize' \in Nat
      BY <2>4, <2>11 DEF FlushFails
    <3>2. disk' \in Seq(Stored)
      BY <2>2, <2>11, <3>1 DEF FlushFails
    <3> QED
      BY <2>4, <2>11, <3>1, <3>2 DEF FlushFails, TypeOK
  <2>12. CASE Raise
    BY <2>12 DEF Raise, TypeOK
  <2>13. CASE Exit
    <3>1. disk' \in Seq(Stored)
      BY <2>1, <2>2, <2>4, <2>13 DEF Exit
    <3>2. currentSize' \in Nat
      BY <2>1, <2>4, <2>13 DEF Exit
    <3> QED
      BY <2>4, <2>13, <3>1, <3>2 DEF Exit, TypeOK
  <2>14. CASE ExitAsserts
    <3>1. << >> \in Seq(Held)
      OBVIOUS
    <3>2. buffer' \in Seq(Held)
      BY <2>14, <3>1 DEF ExitAsserts, TypeOK
    <3> QED
      BY <2>14, <3>2 DEF ExitAsserts, TypeOK
  <2>15. CASE ExitFails
    <3>1. disk' \in Seq(Stored)
      BY <2>2, <2>4, <2>15 DEF ExitFails
    <3> QED
      BY <2>4, <2>15, <3>1 DEF ExitFails, TypeOK
  <2>16. CASE UNCHANGED vars
    BY <2>16 DEF vars, TypeOK
  <2> QED
    BY <2>5, <2>6, <2>7, <2>8, <2>9, <2>10, <2>11, <2>12, <2>13, <2>14, <2>15, <2>16,
       <2>17
    DEF Next, Finished
<1> QED
  BY <1>1, <1>2, PTL DEF Spec

-----------------------------------------------------------------------------
(* A step that writes n chunks of the buffer, to the current part or, past *)
(* the limit, to the next; a boundary writes them all and is recorded.     *)
Extends(n, part, offset) ==
  /\ InStep \/ (Fresh /\ part = partIndex /\ safe' = safe)
  /\ n \in 0..Len(buffer)
  /\ disk' = disk \o Written(n, part, offset)
  /\ \/ part = partIndex /\ offset = currentSize
     \/ part = partIndex + 1 /\ offset = 0 /\ MustRotate
  /\ \/ safe' = safe
     \/ /\ n = Len(buffer)
        /\ n > 0
        /\ MustRotate => part = partIndex + 1
        /\ safe' = safe \cup {Len(disk) + n}

LEMMA ExtendFacts ==
  ASSUME TypeOK, IInv, NEW n, NEW part, NEW offset, Extends(n, part, offset)
  PROVE  /\ n \in 0..Len(buffer)
         /\ n \in Nat
         /\ part \in Nat
         /\ offset \in Nat
         /\ Len(disk) \in Nat
         /\ Len(disk') = Len(disk) + n
         /\ \A i \in 1..Len(disk) : disk'[i] = disk[i]
         /\ \A i \in 1..n :
              /\ disk'[Len(disk) + i].part = part
              /\ disk'[Len(disk) + i].chunk = buffer[i].chunk
              /\ disk'[Len(disk) + i].end = offset + buffer[i].upto
<1>1. partIndex \in Nat /\ currentSize \in Nat
  BY DEF TypeOK
<1>2. n \in 0..Len(buffer) /\ part \in Nat /\ offset \in Nat
  BY <1>1 DEF Extends
<1>3. n \in Nat
  BY <1>2, BufferFacts
<1>4. disk' = disk \o Written(n, part, offset)
  BY DEF Extends
<1>5. /\ Len(disk) \in Nat
      /\ Len(disk') = Len(disk) + n
      /\ \A i \in 1..Len(disk) : disk'[i] = disk[i]
      /\ \A i \in 1..n :
           disk'[Len(disk) + i] =
             [part |-> part, chunk |-> buffer[i].chunk, end |-> offset + buffer[i].upto]
  <2> DEFINE w == disk \o Written(n, part, offset)
  <2>1. /\ Len(disk) \in Nat
        /\ Len(w) = Len(disk) + n
        /\ \A i \in 1..Len(disk) : w[i] = disk[i]
        /\ \A i \in 1..n :
             w[Len(disk) + i] =
               [part |-> part, chunk |-> buffer[i].chunk, end |-> offset + buffer[i].upto]
    BY <1>2, WrittenFacts, ZenonT(60)
  <2> QED
    BY <1>4, <2>1, Zenon
<1>6. ASSUME NEW i \in 1..n
      PROVE  /\ disk'[Len(disk) + i].part = part
             /\ disk'[Len(disk) + i].chunk = buffer[i].chunk
             /\ disk'[Len(disk) + i].end = offset + buffer[i].upto
  <2>1. disk'[Len(disk) + i] =
          [part |-> part, chunk |-> buffer[i].chunk, end |-> offset + buffer[i].upto]
    BY <1>5
  <2> QED
    BY <2>1
<1> QED
  BY <1>2, <1>3, <1>5, <1>6, Zenon

LEMMA ExtendLengths ==
  ASSUME TypeOK, IInv, NEW n, NEW part, NEW offset, Extends(n, part, offset)
  PROVE  /\ n \in 0..Len(buffer) /\ n \in Nat
         /\ part \in Nat /\ offset \in Nat
         /\ Len(disk) \in Nat
         /\ Len(disk') = Len(disk) + n
  BY ExtendFacts, SMT

LEMMA ExtendOld ==
  ASSUME TypeOK, IInv, NEW n, NEW part, NEW offset, Extends(n, part, offset)
  PROVE  \A i \in 1..Len(disk) : disk'[i] = disk[i]
  BY ExtendFacts, SMT

LEMMA ExtendNew ==
  ASSUME TypeOK, IInv, NEW n, NEW part, NEW offset, Extends(n, part, offset)
  PROVE  \A i \in 1..n :
           /\ disk'[Len(disk) + i].part = part
           /\ disk'[Len(disk) + i].chunk = buffer[i].chunk
           /\ disk'[Len(disk) + i].end = offset + buffer[i].upto
  BY ExtendFacts, SMT

(* What is known of the disk in a step that extends it.                    *)
LEMMA InStepFacts ==
  ASSUME TypeOK, IInv, InStep
  PROVE  /\ Len(disk) \in Nat
         /\ partIndex \in Nat /\ currentSize \in Nat
         /\ Len(disk) \in safe
         /\ safe \subseteq 0..Len(disk)
         /\ \A i \in 1..Len(disk) : disk[i].part \in Nat /\ disk[i].part <= partIndex
         /\ Len(disk) > 0 =>
              disk[Len(disk)].part = partIndex /\ disk[Len(disk)].end = currentSize
         /\ currentSize = 0 <=> Len(disk) = 0
<1>1. disk \in Seq(Stored)
  BY DEF TypeOK
<1>2. Len(disk) \in Nat /\ (disk = << >> <=> Len(disk) = 0)
  BY <1>1
<1>3. \A i \in 1..Len(disk) : disk[i] \in Stored
  BY <1>1
<1>4. \A i \in 1..Len(disk) : disk[i].part \in Nat /\ disk[i].end \in Nat /\ disk[i].end > 0
  BY <1>3 DEF Stored, IInv, SizeInv
<1>5. partIndex \in Nat /\ currentSize \in Nat
  BY DEF TypeOK
<1>6. CurrentInv
  BY DEF IInv
<1>7. Len(disk) > 0 =>
        disk[Len(disk)].part = partIndex /\ disk[Len(disk)].end = currentSize
  BY <1>2, <1>6 DEF CurrentInv
<1>8. currentSize = 0 <=> Len(disk) = 0
  BY <1>2, <1>4, <1>6, <1>7 DEF CurrentInv
<1> QED
  BY <1>2, <1>4, <1>5, <1>6, <1>7, <1>8 DEF CurrentInv

LEMMA DiskFacts ==
  ASSUME TypeOK, IInv
  PROVE  /\ Len(disk) \in Nat /\ partIndex \in Nat
         /\ safe \subseteq 0..Len(disk)
         /\ \A i \in 1..Len(disk) : disk[i].part \in Nat /\ disk[i].part <= partIndex
<1>1. disk \in Seq(Stored) /\ partIndex \in Nat
  BY DEF TypeOK
<1>2. \A i \in 1..Len(disk) : disk[i] \in Stored
  BY <1>1
<1>3. CurrentInv
  BY DEF IInv
<1> QED
  BY <1>1, <1>2, <1>3 DEF CurrentInv, Stored

LEMMA ExtendKeepsCuts ==
  ASSUME TypeOK, IInv, NEW n, NEW part, NEW offset, Extends(n, part, offset)
  PROVE  CutsAtBoundaries'
<1> DEFINE L == Len(disk)
<1>0. /\ n \in Nat /\ part \in Nat /\ offset \in Nat
      /\ L \in Nat /\ Len(disk') \in Nat /\ Len(disk') = L + n
  BY ExtendLengths
<1>1. /\ InStep \/ (Fresh /\ part = partIndex)
      /\ part = partIndex \/ part = partIndex + 1
      /\ safe \subseteq safe'
  BY DEF Extends
<1>2. CutsAtBoundaries
  BY DEF IInv
<1> SUFFICES ASSUME NEW i \in 1..(Len(disk') - 1), disk'[i].part # disk'[i + 1].part
             PROVE  disk'[i + 1].part = disk'[i].part + 1 /\ i \in safe'
  BY DEF CutsAtBoundaries
<1>3. CASE i < L
  <2>1. i \in 1..(L - 1) /\ i + 1 \in 1..L
    BY <1>3, <1>0
  <2>2. disk'[i] = disk[i] /\ disk'[i + 1] = disk[i + 1]
    BY <2>1, ExtendOld
  <2>3. disk[i].part # disk[i + 1].part => disk[i + 1].part = disk[i].part + 1 /\ i \in safe
    BY <1>2, <2>1 DEF CutsAtBoundaries
  <2>4. disk[i + 1].part = disk[i].part + 1 /\ i \in safe
    BY <2>2, <2>3
  <2>5. i \in safe'
    BY <1>1, <2>4, Zenon
  <2> QED
    BY <2>2, <2>4, <2>5
<1>4. CASE i = L
  <2>1. L \in 1..L /\ 1 \in 1..n /\ L > 0
    BY <1>4, <1>0
  <2>2. disk'[L] = disk[L]
    BY <2>1, ExtendOld
  <2>3. disk'[L + 1].part = part
    BY <2>1, ExtendNew
  <2>4. CASE InStep
    <3>1. disk[L].part = partIndex /\ L \in safe
      BY <2>1, <2>4, InStepFacts
    <3> QED
      BY <1>1, <1>4, <2>2, <2>3, <3>1
  <2>5. CASE Fresh /\ part = partIndex
    <3>1. L \in safe /\ partIndex = disk[L].part + 1
      BY <2>5 DEF IInv, CurrentInv
    <3> QED
      BY <1>1, <1>4, <2>2, <2>3, <2>5, <3>1
  <2> QED
    BY <1>1, <2>4, <2>5
<1>5. CASE i > L
  <2>1. i - L \in 1..n /\ i + 1 - L \in 1..n /\ i = L + (i - L) /\ i + 1 = L + (i + 1 - L)
    BY <1>5, <1>0
  <2> QED
    BY <2>1, ExtendNew
<1> QED
  BY <1>3, <1>4, <1>5, <1>0

LEMMA ExtendKeepsLimit ==
  ASSUME TypeOK, IInv, NEW n, NEW part, NEW offset, Extends(n, part, offset)
  PROVE  LimitAtBoundaries'
<1> DEFINE L == Len(disk)
<1>0. /\ n \in Nat /\ part \in Nat /\ offset \in Nat
      /\ L \in Nat /\ Len(disk') \in Nat /\ Len(disk') = L + n
  BY ExtendLengths
<1>1. LimitAtBoundaries
  BY DEF IInv
<1> SUFFICES ASSUME NEW k \in safe' \cap 1..Len(disk'), disk'[k].end > MaxBytes,
                    NEW m \in safe' \cap 1..(k - 1)
             PROVE  disk'[m].part # disk'[k].part
  BY DEF LimitAtBoundaries
<1>2. CASE k \in safe
  <2>1. k \in safe \cap 1..L
    BY <1>2, DiskFacts, <1>0
  <2>2. m \in safe \cap 1..(k - 1) /\ m \in 1..L
    <3>1. L \in Nat /\ n \in Nat /\ m < k /\ k <= L /\ m \in 1..(k - 1)
      BY <2>1, <1>0
    <3>2. m \in safe
      BY <3>1 DEF Extends
    <3> QED
      BY <3>1, <3>2
  <2> QED
    BY <1>1, <2>1, <2>2, ExtendOld DEF LimitAtBoundaries
<1>3. CASE k \notin safe
  <2>1. /\ n = Len(buffer)
        /\ n > 0
        /\ MustRotate => part = partIndex + 1
        /\ safe' = safe \cup {L + n}
        /\ k = L + n
        /\ InStep
    BY <1>3 DEF Extends
  <2>2. m \in safe
    BY <2>1, <1>0
  <2>3. m \in 1..L
    BY <2>2, DiskFacts
  <2>4. disk'[m].part <= partIndex /\ disk'[m].part \in Nat
    BY <2>3, DiskFacts, ExtendOld
  <2>5. disk'[k].part = part /\ disk'[k].end = offset + Buffered
    <3>1. n \in 1..n /\ Buffered = buffer[n].upto
      BY <2>1, BufferFacts, <1>0
    <3> QED
      BY <2>1, <3>1, ExtendNew
  <2>6. part # partIndex
    <3> SUFFICES ASSUME part = partIndex
                 PROVE  FALSE
      OBVIOUS
    <3>1. offset = currentSize /\ ~MustRotate
      BY <2>1, InStepFacts DEF Extends
    <3>2. currentSize = 0
      BY <2>1, <2>5, <3>1, InStepFacts DEF MustRotate
    <3> QED
      BY <2>1, <2>3, <3>2, InStepFacts
  <2>7. part = partIndex + 1
    BY <2>6 DEF Extends
  <2> QED
    BY <2>4, <2>5, <2>7, DiskFacts
<1> QED
  BY <1>2, <1>3

LEMMA ExtendKeepsRotation ==
  ASSUME TypeOK, IInv, NEW n, NEW part, NEW offset, Extends(n, part, offset)
  PROVE  NoNeedlessRotation'
<1> DEFINE L == Len(disk)
<1>0. /\ n \in Nat /\ part \in Nat /\ offset \in Nat
      /\ L \in Nat /\ Len(disk') \in Nat /\ Len(disk') = L + n
  BY ExtendLengths
<1>1. NoNeedlessRotation /\ safe \subseteq safe'
  BY DEF Extends, IInv
<1> SUFFICES ASSUME NEW k \in 1..(Len(disk') - 1),
                    NEW m \in safe' \cap (k + 1)..Len(disk'),
                    disk'[k].part # disk'[k + 1].part,
                    safe' \cap (k + 1)..(m - 1) = {}
             PROVE  disk'[k].end + disk'[m].end > MaxBytes
  BY DEF NoNeedlessRotation
<1>2. CASE m \in safe
  <2>1. m \in 1..L /\ k \in 1..(L - 1) /\ k \in 1..L /\ k + 1 \in 1..L
    <3>1. L \in Nat /\ m \in 0..L
      BY <1>2, DiskFacts
    <3>2. Len(disk') \in Nat /\ k \in 1..(Len(disk') - 1) /\ m \in (k + 1)..Len(disk')
      BY <3>1, <1>0
    <3> QED
      BY <3>1, <3>2
  <2>2. safe \cap (k + 1)..(m - 1) = {}
    BY <1>1
  <2>3. m \in safe \cap (k + 1)..L
    BY <1>2, <2>1, <1>0
  <2>4. disk'[k] = disk[k] /\ disk'[k + 1] = disk[k + 1] /\ disk'[m] = disk[m]
    BY <2>1, ExtendOld
  <2> QED
    BY <1>1, <2>1, <2>2, <2>3, <2>4 DEF NoNeedlessRotation
<1>3. CASE m \notin safe
  <2>1. n = Len(buffer) /\ n > 0 /\ m = L + n /\ InStep
    BY <1>3 DEF Extends
  <2>2. L \in safe'
    BY <1>1, <2>1, InStepFacts
  <2>3. k >= L
    <3> SUFFICES ASSUME k < L
                 PROVE  FALSE
      BY <1>0
    <3>1. L \in (k + 1)..(m - 1)
      BY <2>1, <1>0
    <3> QED
      BY <2>2, <3>1
  <2>4. k = L
    <3> SUFFICES ASSUME k > L
                 PROVE  FALSE
      BY <2>3, <1>0
    <3>1. /\ k - L \in 1..n /\ k + 1 - L \in 1..n
          /\ k = L + (k - L) /\ k + 1 = L + (k + 1 - L)
      BY <1>0
    <3>2. \A i \in 1..n : disk'[L + i].part = part
      BY ExtendNew
    <3>3. disk'[L + (k - L)].part = part /\ disk'[L + (k + 1 - L)].part = part
      BY <3>1, <3>2
    <3> QED
      BY <3>1, <3>3
  <2>5. L \in 1..L /\ 1 \in 1..n /\ L > 0
    BY <2>1, <2>4, <1>0
  <2>6. disk'[L].part = partIndex /\ disk'[L].end = currentSize
    <3>1. disk'[L] = disk[L]
      BY <2>5, ExtendOld
    <3>2. disk[L].part = partIndex /\ disk[L].end = currentSize
      BY <2>1, <2>5, InStepFacts
    <3> QED
      BY <3>1, <3>2
  <2>7. disk'[L + 1].part = part
    <3>1. \A i \in 1..n : disk'[L + i].part = part
      BY ExtendNew
    <3> QED
      BY <2>5, <3>1
  <2>8. MustRotate /\ offset = 0
    BY <2>4, <2>6, <2>7 DEF Extends
  <2>9. disk'[m].end = Buffered
    <3>1. n \in 1..n /\ buffer[n].upto \in Nat /\ Buffered = buffer[n].upto
      BY <2>1, BufferFacts, <1>0
    <3>2. disk'[L + n].end = offset + buffer[n].upto
      BY <3>1, ExtendNew
    <3> QED
      BY <2>1, <2>8, <3>1, <3>2
  <2> QED
    BY <2>4, <2>6, <2>8, <2>9 DEF MustRotate
<1> QED
  BY <1>2, <1>3

(* The writes of a boundary, which counts and records what it has written. *)
Recorded(n, offset) ==
  /\ n = Len(buffer)
  /\ n > 0
  /\ ~raised
  /\ safe' = safe \cup {Len(disk) + n}
  /\ currentSize' = offset + Buffered
  /\ emitter' = "between"

(* The writes of __exit__, or those that an exception has cut short.       *)
Unrecorded(n) ==
  /\ safe' = safe
  /\ raised' \/ (n = Len(buffer) /\ ~raised /\ stage' # "entered")

(* The rest of the invariant, for a step that empties the buffer.          *)
LEMMA ExtendKeepsRest ==
  ASSUME TypeOK, IInv, NEW n, NEW part, NEW offset, Extends(n, part, offset),
         buffer' = << >>,
         accepted' = accepted,
         stage' # "new",
         partIndex' = part,
         Recorded(n, offset) \/ Unrecorded(n)
  PROVE  LogInv' /\ SizeInv' /\ CurrentInv'
<1> DEFINE L == Len(disk)
<1>1. (InStep \/ Fresh) /\ LogInv /\ SizeInv /\ CurrentInv
  BY DEF Extends, IInv
<1>2. L \in Nat /\ n \in Nat /\ n \in 0..Len(buffer) /\ Len(disk') = L + n
  BY ExtendLengths
<1>3. Len(accepted) \in Nat /\ Len(buffer) \in Nat /\ Len(buffer') = 0
  BY BufferFacts DEF TypeOK
<1>4. ASSUME NEW i \in 1..Len(disk'), i > L
      PROVE  /\ i - L \in 1..n /\ i - L \in 1..Len(buffer)
             /\ disk'[i].part = part
             /\ disk'[i].chunk = buffer[i - L].chunk
             /\ disk'[i].end = offset + buffer[i - L].upto
  <2>1. i - L \in 1..n /\ i = L + (i - L)
    BY <1>2, <1>4
  <2>2. i - L \in 1..Len(buffer)
    BY <1>2, <1>3, <2>1
  <2> QED
    BY <2>1, <2>2, ExtendNew
<1>5. ASSUME NEW i \in 1..Len(disk'), ~(i > L)
      PROVE  i \in 1..L /\ disk'[i] = disk[i]
  BY <1>2, <1>5, ExtendLengths, ExtendOld
<1>6. LogInv'
  <2>1. ASSUME NEW i \in 1..Len(disk')
        PROVE  i <= Len(accepted) /\ disk'[i].chunk = accepted[i]
    <3>1. CASE i > L
      <4>1. L + (i - L) = i
        BY <1>2, <2>1
      <4> QED
        BY <1>1, <1>4, <2>1, <3>1, <4>1 DEF LogInv
    <3>2. CASE ~(i > L)
      BY <1>1, <1>5, <2>1, <3>2 DEF LogInv
    <3> QED
      BY <3>1, <3>2
  <2>2. ~raised' => Len(disk') + Len(buffer') = Len(accepted)
    BY <1>1, <1>2, <1>3 DEF LogInv, InStep, Fresh, Recorded, Unrecorded
  <2> QED
    BY <1>3, <2>1, <2>2 DEF LogInv
<1>7. SizeInv'
  <2>1. ASSUME NEW i \in 1..Len(disk')
        PROVE  disk'[i].end > 0
    <3>1. CASE i > L
      <4>1. /\ i - L \in 1..Len(buffer)
            /\ disk'[i].end = offset + buffer[i - L].upto
        BY <1>4, <2>1, <3>1
      <4>2. buffer[i - L].upto \in Nat /\ buffer[i - L].upto > 0
        BY <1>1, <4>1, BufferFacts DEF SizeInv
      <4>3. offset \in Nat
        BY ExtendLengths
      <4> QED
        BY <4>1, <4>2, <4>3
    <3>2. CASE ~(i > L)
      BY <1>1, <1>5, <2>1, <3>2 DEF SizeInv
    <3> QED
      BY <3>1, <3>2
  <2> QED
    BY <1>3, <2>1 DEF SizeInv
<1>8. CurrentInv'
  <2>1. safe' \subseteq 0..Len(disk')
    BY <1>2, DiskFacts DEF Recorded, Unrecorded
  <2>2. ASSUME NEW i \in 1..Len(disk')
        PROVE  disk'[i].part <= partIndex'
    <3>1. part \in Nat /\ partIndex \in Nat /\ partIndex <= part
      BY ExtendLengths, DiskFacts DEF Extends
    <3>2. CASE i > L
      BY <1>4, <2>2, <3>1, <3>2
    <3>3. CASE ~(i > L)
      BY <1>5, <2>2, <3>1, <3>3, DiskFacts
    <3> QED
      BY <3>2, <3>3
  <2>3. CASE InStep'
    <3>1. /\ n = Len(buffer)
          /\ n > 0
          /\ safe' = safe \cup {L + n}
          /\ currentSize' = offset + Buffered
          /\ emitter' = "between"
      BY <2>3 DEF InStep, Recorded, Unrecorded
    <3>2. L + n \in 1..Len(disk') /\ L + n > L /\ L + n - L = n
      BY <1>2, <3>1
    <3>3. disk'[L + n].part = part /\ disk'[L + n].end = offset + buffer[n].upto
      <4>1. n \in 1..n
        BY <1>2, <3>1
      <4> QED
        BY <4>1, ExtendNew
    <3>4. Buffered = buffer[n].upto
      BY <1>3, <3>1, BufferFacts
    <3>5. disk' # << >>
      BY <1>2, <3>1, <3>2
    <3> QED
      BY <1>2, <2>1, <2>2, <3>1, <3>3, <3>4, <3>5 DEF CurrentInv, Fresh
  <2>4. CASE ~InStep'
    <3>1. ~InWith' \/ emitter' = "between"
      BY <2>4 DEF InWith, InStep, Recorded, Unrecorded
    <3> QED
      BY <2>1, <2>2, <2>4, <3>1 DEF CurrentInv, Fresh
  <2> QED
    BY <2>3, <2>4
<1> QED
  BY <1>6, <1>7, <1>8

LEMMA ExtendKeepsAll ==
  ASSUME TypeOK, IInv, NEW n, NEW part, NEW offset, Extends(n, part, offset),
         buffer' = << >>,
         accepted' = accepted,
         stage' # "new",
         partIndex' = part,
         Recorded(n, offset) \/ Unrecorded(n)
  PROVE  IInv'
<1>1. LogInv' /\ SizeInv' /\ CurrentInv'
  BY ExtendKeepsRest
<1>2. CutsAtBoundaries' /\ LimitAtBoundaries' /\ NoNeedlessRotation'
  BY ExtendKeepsCuts, ExtendKeepsLimit, ExtendKeepsRotation
<1> QED
  BY <1>1, <1>2 DEF IInv

(* A step that writes nothing keeps what is said of the disk alone.        *)
LEMMA SameDisk ==
  ASSUME IInv, UNCHANGED <<disk, safe>>
  PROVE  CutsAtBoundaries' /\ LimitAtBoundaries' /\ NoNeedlessRotation'
  BY DEF IInv, CutsAtBoundaries, LimitAtBoundaries, NoNeedlessRotation

(* Nothing is left to write after an exception that emptied the buffer.    *)
LEMMA NothingWritten ==
  ASSUME TypeOK, NEW part \in Nat, NEW offset \in Nat, buffer = << >>
  PROVE  disk \o Written(0, part, offset) = disk
<1>1. disk \in Seq(Stored)
  BY DEF TypeOK
<1>2. Written(0, part, offset) = << >>
  BY DEF Written
<1> QED
  BY <1>1, <1>2

LEMMA Inductive == TypeOK /\ IInv /\ [Next]_vars => IInv'
<1> SUFFICES ASSUME TypeOK, IInv, [Next]_vars
             PROVE  IInv'
  OBVIOUS
<1>1. LogInv /\ SizeInv /\ CurrentInv
  BY DEF IInv
<1>2. Len(disk) \in Nat /\ Len(buffer) \in Nat /\ Len(accepted) \in Nat
  BY DEF TypeOK
<1>3. CASE Enter
  <2>1. LogInv' /\ SizeInv'
    BY <1>1, <1>3 DEF Enter, LogInv, SizeInv
  <2>2. disk = << >> /\ Len(disk) = 0 /\ buffer = << >> /\ emitter' = emitter /\ ~raised'
    BY <1>1, <1>3 DEF Enter, LogInv
  <2>3. Len(disk) \in safe /\ safe \subseteq 0..Len(disk)
    BY <1>1, <1>3 DEF Enter, CurrentInv
  <2>4. emitter # "boundary"
    BY <1>1, <1>3 DEF Enter, LogInv
  <2>5. CurrentInv'
    BY <1>3, <2>2, <2>3, <2>4 DEF Enter, CurrentInv, InStep, Fresh, InWith
  <2> QED
    BY <1>3, <2>1, <2>5, SameDisk DEF Enter, IInv
<1>4. CASE EnterFails
  <2>1. LogInv' /\ SizeInv'
    BY <1>1, <1>4 DEF EnterFails, LogInv, SizeInv
  <2>2. CurrentInv'
    BY <1>1, <1>2, <1>4 DEF EnterFails, LogInv, CurrentInv, InStep, Fresh, InWith, TypeOK
  <2> QED
    BY <1>4, <2>1, <2>2, SameDisk DEF EnterFails, IInv
<1>5. ASSUME NEW chunk \in Chunk, Write(chunk)
      PROVE  IInv'
  <2> DEFINE held == [chunk |-> chunk, upto |-> Buffered + chunk.size]
  <2>1. chunk.size \in Nat /\ chunk.size > 0 /\ Buffered \in Nat
    BY <1>5, BufferFacts, SinkAssumption DEF Write, Chunk
  <2>2. held \in Held /\ held.chunk = chunk /\ held.upto > 0
    BY <2>1 DEF Held
  <2>3. buffer \in Seq(Held) /\ accepted \in Seq(Chunk)
    BY DEF TypeOK
  <2> HIDE DEF held
  <2>4. buffer' = Append(buffer, held) /\ accepted' = Append(accepted, chunk)
    BY <1>5 DEF Write, held
  <2>5. /\ Len(buffer') = Len(buffer) + 1
        /\ buffer' # << >>
        /\ \A i \in 1..Len(buffer) : buffer'[i] = buffer[i]
        /\ buffer'[Len(buffer) + 1] = held
    BY <2>2, <2>3, <2>4, AppendFacts
  <2>6. /\ Len(accepted') = Len(accepted) + 1
        /\ \A i \in 1..Len(accepted) : accepted'[i] = accepted[i]
        /\ accepted'[Len(accepted) + 1] = chunk
    BY <2>3, <2>4, AppendFacts
  <2>7. /\ InWith
        /\ stage' = stage /\ raised' = raised
        /\ UNCHANGED <<partIndex, currentSize, streamOpen, disk, safe>>
    BY <1>5 DEF Write
  <2>8. Len(disk) + Len(buffer) = Len(accepted)
    BY <1>1, <2>7 DEF LogInv, InWith
  <2>9. \A i \in 1..Len(disk) : i <= Len(accepted') /\ disk[i].chunk = accepted'[i]
    BY <1>1, <1>2, <2>6 DEF LogInv
  <2>10. ASSUME NEW i \in 1..Len(buffer')
         PROVE  /\ Len(disk) + i <= Len(accepted')
                /\ buffer'[i].chunk = accepted'[Len(disk) + i]
                /\ buffer'[i].upto > 0
    <3>1. CASE i = Len(buffer) + 1
      <4>1. Len(disk) + i = Len(accepted) + 1
        BY <1>2, <2>8, <3>1
      <4> QED
        BY <1>2, <2>2, <2>5, <2>6, <3>1, <4>1
    <3>2. CASE i # Len(buffer) + 1
      <4>1. i \in 1..Len(buffer)
        BY <1>2, <2>5, <3>2
      <4>2. Len(disk) + i \in 1..Len(accepted)
        BY <1>2, <2>8, <4>1
      <4>3. buffer[i].chunk = accepted[Len(disk) + i] /\ buffer[i].upto > 0
        BY <1>1, <4>1 DEF LogInv, SizeInv
      <4>4. accepted'[Len(disk) + i] = accepted[Len(disk) + i]
        BY <2>6, <4>2
      <4> QED
        BY <1>2, <2>5, <2>6, <4>1, <4>2, <4>3, <4>4
    <3> QED
      BY <3>1, <3>2
  <2>11. LogInv'
    BY <1>2, <2>5, <2>6, <2>7, <2>8, <2>9, <2>10 DEF LogInv, InWith
  <2>12. SizeInv'
    BY <1>1, <2>7, <2>10 DEF SizeInv
  <2>13. CurrentInv'
    BY <1>1, <2>5, <2>7 DEF CurrentInv, InStep, Fresh, InWith
  <2> QED
    BY <2>7, <2>11, <2>12, <2>13, SameDisk DEF IInv
<1>6. CASE AppendAtBoundary
  <2>1. InWith /\ emitter = "boundary" /\ buffer # << >>
    BY <1>1, <1>6 DEF AppendAtBoundary, CurrentInv
  <2>2. Len(buffer) > 0 /\ InStep /\ ~raised /\ Len(buffer) \in 0..Len(buffer)
    BY <1>2, <2>1, BufferFacts DEF InStep, InWith
  <2>3. Len(accepted) = Len(disk) + Len(buffer)
    BY <1>1, <2>2 DEF LogInv
  <2>4. safe' = safe \cup {Len(disk) + Len(buffer)}
    BY <1>6, <2>3 DEF AppendAtBoundary
  <2>5. Extends(Len(buffer), partIndex, currentSize)
    BY <1>6, <2>2, <2>4 DEF AppendAtBoundary, Extends
  <2>6. stage' # "new"
    BY <1>6 DEF AppendAtBoundary, InWith
  <2> QED
    BY <1>6, <2>2, <2>4, <2>5, <2>6, ExtendKeepsAll DEF AppendAtBoundary, Recorded
<1>7. CASE RotateAtBoundary
  <2>1. InWith /\ emitter = "boundary" /\ buffer # << >>
    BY <1>1, <1>7 DEF RotateAtBoundary, CurrentInv
  <2>2. Len(buffer) > 0 /\ InStep /\ ~raised /\ Len(buffer) \in 0..Len(buffer)
    BY <1>2, <2>1, BufferFacts DEF InStep, InWith
  <2>3. Len(accepted) = Len(disk) + Len(buffer)
    BY <1>1, <2>2 DEF LogInv
  <2>4. safe' = safe \cup {Len(disk) + Len(buffer)}
    BY <1>7, <2>3 DEF RotateAtBoundary
  <2>5. Extends(Len(buffer), partIndex + 1, 0)
    BY <1>7, <2>2, <2>4 DEF RotateAtBoundary, Extends
  <2>6. stage' # "new" /\ currentSize' = 0 + Buffered
    BY <1>7, BufferFacts DEF RotateAtBoundary, InWith
  <2> QED
    BY <1>7, <2>2, <2>4, <2>5, <2>6, ExtendKeepsAll DEF RotateAtBoundary, Recorded
<1>8. CASE RotateFails
  <2>1. LogInv' /\ SizeInv'
    BY <1>1, <1>8 DEF RotateFails, LogInv, SizeInv, InWith
  <2>2. ASSUME NEW i \in 1..Len(disk)
        PROVE  disk[i].part <= partIndex + 1
    <3>1. InStep
      BY <1>8 DEF RotateFails, InStep, InWith
    <3> QED
      BY <2>2, <3>1, InStepFacts
  <2>3. CurrentInv'
    <3>1. partIndex \in Nat /\ partIndex' \in {partIndex, partIndex + 1}
      BY <1>8 DEF RotateFails, TypeOK
    <3>2. \A i \in 1..Len(disk) : disk[i].part <= partIndex'
      BY <1>1, <2>2, <3>1 DEF CurrentInv
    <3> QED
      BY <1>1, <1>8, <3>2 DEF RotateFails, CurrentInv, InStep, Fresh, InWith
  <2> QED
    BY <1>8, <2>1, <2>3, SameDisk DEF RotateFails, IInv
<1>15. CASE InterruptRotation
  <2>1. LogInv' /\ SizeInv'
    BY <1>1, <1>15 DEF InterruptRotation, LogInv, SizeInv, InWith
  <2>2. InStep /\ InWith /\ currentSize # 0
    BY <1>15 DEF InterruptRotation, InStep, InWith, MustRotate, TypeOK
  <2>3. Len(disk) > 0 /\ disk # << >>
    BY <1>2, <2>2, InStepFacts
  <2>4. Len(disk) \in safe /\ partIndex' = disk[Len(disk)].part + 1
    BY <1>15, <2>2, <2>3, InStepFacts DEF InterruptRotation
  <2>5. \A i \in 1..Len(disk) : disk[i].part <= partIndex'
    BY <1>15, DiskFacts DEF InterruptRotation
  <2>6. ~InStep' /\ ~InWith'
    BY <1>15, <2>3 DEF InterruptRotation, InStep, InWith
  <2>7. CurrentInv'
    BY <1>1, <1>15, <2>4, <2>5, <2>6 DEF InterruptRotation, InWith, CurrentInv
  <2> QED
    BY <1>15, <2>1, <2>7, SameDisk DEF InterruptRotation, IInv
<1>9. CASE FlushFails
  <2>1. PICK n \in 0..Len(buffer) : disk' = disk \o Written(n, partIndex', currentSize')
    BY <1>9 DEF FlushFails
  <2>2. InStep
    BY <1>9 DEF FlushFails, InStep, InWith
  <2>3. buffer' = << >> /\ accepted' = accepted /\ stage' # "new" /\ safe' = safe
    BY <1>9 DEF FlushFails, InWith
  <2> Unrecorded(n)
    BY <1>9 DEF FlushFails, Unrecorded
  <2>4. CASE MustRotate
    <3>1. partIndex' = partIndex + 1 /\ currentSize' = 0
      BY <1>9, <2>4 DEF FlushFails
    <3>2. Extends(n, partIndex + 1, 0)
      BY <2>1, <2>2, <2>3, <2>4, <3>1 DEF Extends
    <3> QED
      BY <2>3, <3>1, <3>2, ExtendKeepsAll, Zenon
  <2>5. CASE ~MustRotate
    <3>1. partIndex' = partIndex /\ currentSize' = currentSize
      BY <1>9, <2>5 DEF FlushFails
    <3>2. Extends(n, partIndex, currentSize)
      BY <2>1, <2>2, <2>3, <3>1 DEF Extends
    <3> QED
      BY <2>3, <3>1, <3>2, ExtendKeepsAll, Zenon
  <2> QED
    BY <2>4, <2>5
<1>10. CASE Raise
  <2>1. LogInv' /\ SizeInv'
    BY <1>1, <1>10 DEF Raise, LogInv, SizeInv, InWith
  <2>2. CurrentInv'
    <3>1. InStep
      BY <1>10 DEF Raise, InStep, InWith
    <3>2. currentSize = 0 <=> disk = << >>
      BY <1>2, <3>1, InStepFacts DEF TypeOK
    <3> QED
      BY <1>1, <1>10, <3>1, <3>2 DEF Raise, CurrentInv, InStep, Fresh, InWith
  <2> QED
    BY <1>10, <2>1, <2>2, SameDisk DEF Raise, IInv
<1>11. CASE Exit
  <2>1. CASE InStep \/ Fresh
    <3>1. Len(buffer) \in 0..Len(buffer)
      BY <1>2
    <3>2. Extends(Len(buffer), partIndex, currentSize)
      BY <1>11, <2>1, <3>1 DEF Exit, Extends
    <3>3. /\ buffer' = << >> /\ accepted' = accepted
          /\ stage' # "new" /\ stage' # "entered"
          /\ partIndex' = partIndex /\ safe' = safe
      BY <1>11 DEF Exit
    <3>4. Unrecorded(Len(buffer))
      BY <1>11 DEF Exit, Unrecorded
    <3> QED
      BY <3>2, <3>3, <3>4, ExtendKeepsAll, Zenon
  <2>2. CASE ~(InStep \/ Fresh)
    <3>1. buffer = << >> /\ raised
      BY <1>11, <2>2 DEF Exit, Leaving, InStep, Fresh
    <3>2. Len(buffer) = 0
      BY <3>1
    <3>3. disk' = disk
      BY <1>11, <3>1, <3>2, NothingWritten DEF Exit, TypeOK
    <3>4. LogInv' /\ SizeInv'
      BY <1>1, <1>11, <3>1, <3>3 DEF Exit, LogInv, SizeInv
    <3>5. CurrentInv'
      BY <1>1, <1>11, <3>3 DEF Exit, CurrentInv, InStep, Fresh, InWith
    <3> QED
      BY <1>11, <3>3, <3>4, <3>5, SameDisk DEF Exit, IInv
  <2> QED
    BY <2>1, <2>2
<1>12. CASE ExitAsserts
  <2>0. Len(<< >>) = 0
    OBVIOUS
  <2>1. LogInv' /\ SizeInv'
    <3>1. /\ raised' /\ stage' = "broken" /\ UNCHANGED <<disk, accepted>>
          /\ buffer' = buffer \/ buffer' = << >>
      BY <1>12 DEF ExitAsserts
    <3>2. CASE buffer' = buffer
      BY <1>1, <3>1, <3>2 DEF LogInv, SizeInv
    <3>3. CASE buffer' = << >>
      BY <1>1, <2>0, <3>1, <3>3 DEF LogInv, SizeInv
    <3> QED
      BY <3>1, <3>2, <3>3
  <2>2. CurrentInv'
    BY <1>1, <1>12 DEF ExitAsserts, CurrentInv, InStep, Fresh, InWith
  <2> QED
    BY <1>12, <2>1, <2>2, SameDisk DEF ExitAsserts, IInv
<1>13. CASE ExitFails
  <2>1. PICK n \in 0..Len(buffer) : disk' = disk \o Written(n, partIndex, currentSize)
    BY <1>13 DEF ExitFails
  <2>3. /\ buffer' = << >> /\ accepted' = accepted /\ stage' # "new"
        /\ partIndex' = partIndex /\ safe' = safe
    BY <1>13 DEF ExitFails
  <2> Unrecorded(n)
    BY <1>13 DEF ExitFails, Unrecorded
  <2>4. CASE InStep \/ Fresh
    <3>1. Extends(n, partIndex, currentSize)
      BY <2>1, <2>3, <2>4 DEF Extends
    <3> QED
      BY <2>3, <3>1, ExtendKeepsAll, Zenon
  <2>5. CASE ~(InStep \/ Fresh)
    <3>1. buffer = << >> /\ raised
      BY <1>13, <2>5 DEF ExitFails, Leaving, InStep, Fresh
    <3>2. n = 0
      BY <2>1, <3>1
    <3>3. disk' = disk
      BY <2>1, <3>1, <3>2, NothingWritten DEF TypeOK
    <3>4. LogInv' /\ SizeInv'
      BY <1>1, <1>13, <3>1, <3>3 DEF ExitFails, LogInv, SizeInv
    <3>5. CurrentInv'
      BY <1>1, <1>13, <3>3 DEF ExitFails, CurrentInv, InStep, Fresh, InWith
    <3> QED
      BY <2>3, <3>3, <3>4, <3>5, SameDisk DEF IInv
  <2> QED
    BY <2>4, <2>5
<1>14. CASE UNCHANGED vars
  <2>1. LogInv' /\ SizeInv' /\ CurrentInv'
    BY <1>1, <1>14 DEF vars, LogInv, SizeInv, CurrentInv, InStep, Fresh, InWith
  <2> QED
    BY <1>14, <2>1, SameDisk DEF vars, IInv
<1> QED
  BY <1>3, <1>4, <1>5, <1>6, <1>7, <1>8, <1>9, <1>10, <1>11, <1>12, <1>13, <1>14,
     <1>15
  DEF Next, Finished

LEMMA Invariance == Spec => [](TypeOK /\ IInv)
<1>1. Init => IInv
  <2> SUFFICES ASSUME Init
               PROVE  IInv
    OBVIOUS
  <2>1. Len(<< >>) = 0
    OBVIOUS
  <2>2. LogInv /\ SizeInv /\ CurrentInv
    BY <2>1 DEF Init, LogInv, SizeInv, CurrentInv, InStep, Fresh, InWith
  <2>3. CutsAtBoundaries /\ LimitAtBoundaries /\ NoNeedlessRotation
    BY <2>1 DEF Init, CutsAtBoundaries, LimitAtBoundaries, NoNeedlessRotation
  <2> QED
    BY <2>2, <2>3 DEF IInv
<1> QED
  BY <1>1, TypeCorrect, Inductive, PTL DEF Spec

(* No part ends inside a statement for the next part to continue it.       *)
THEOREM PartsAreCutAtBoundaries == Spec => []CutsAtBoundaries
<1>1. IInv => CutsAtBoundaries
  BY DEF IInv
<1> QED
  BY <1>1, Invariance, PTL

(* At a boundary, only a part of one block exceeds --split-size.           *)
THEOREM PartsKeepTheLimit == Spec => []LimitAtBoundaries
<1>1. IInv => LimitAtBoundaries
  BY DEF IInv
<1> QED
  BY <1>1, Invariance, PTL

(* A new part is begun only for a block that did not fit the last one.     *)
THEOREM RotationIsNeeded == Spec => []NoNeedlessRotation
<1>1. IInv => NoNeedlessRotation
  BY DEF IInv
<1> QED
  BY <1>1, Invariance, PTL

(* What the parts hold, seen as the sequence Delivered.                    *)
LEMMA DeliveredFacts ==
  ASSUME TypeOK
  PROVE  /\ Delivered \in Seq(Chunk)
         /\ Len(Delivered) = Len(disk)
         /\ \A i \in 1..Len(disk) : Delivered[i] = disk[i].chunk
<1>1. disk \in Seq(Stored)
  BY DEF TypeOK
<1>2. \A i \in 1..Len(disk) : disk[i] \in Stored
  BY <1>1
<1>3. Len(disk) \in Nat /\ \A i \in 1..Len(disk) : disk[i].chunk \in Chunk
  BY <1>1, <1>2 DEF Stored
<1> QED
  BY <1>3 DEF Delivered

LEMMA DeliveredIsPrefix ==
  ASSUME TypeOK, IInv
  PROVE  IsPrefix(Delivered, accepted)
<1>1. accepted \in Seq(Chunk) /\ Len(accepted) \in Nat
  BY DEF TypeOK
<1>2. \A i \in 1..Len(disk) : i <= Len(accepted) /\ disk[i].chunk = accepted[i]
  BY DEF IInv, LogInv
<1>3. Len(disk) \in Nat
  BY DEF TypeOK
<1>4. Len(disk) <= Len(accepted)
  <2>1. CASE Len(disk) = 0
    BY <1>1, <2>1
  <2>2. CASE Len(disk) # 0
    BY <1>1, <1>2, <1>3, <2>2
  <2> QED
    BY <2>1, <2>2
<1>5. /\ Delivered \in Seq(Chunk)
      /\ Len(Delivered) <= Len(accepted)
      /\ \A i \in 1..Len(Delivered) : Delivered[i] = accepted[i]
  BY <1>2, <1>4, DeliveredFacts
<1> QED
  BY <1>1, <1>5, PrefixFacts

LEMMA CompleteWhenClosed ==
  ASSUME TypeOK, IInv, stage = "closed", ~raised
  PROVE  Delivered = accepted
<1>1. accepted \in Seq(Chunk) /\ Len(disk) \in Nat /\ Len(accepted) \in Nat
  BY DEF TypeOK
<1>2. buffer = << >> /\ Len(disk) + Len(buffer) = Len(accepted)
  BY DEF IInv, LogInv
<1>3. Len(disk) = Len(accepted)
  BY <1>1, <1>2
<1>4. \A i \in 1..Len(disk) : Delivered[i] = accepted[i]
  BY DeliveredFacts DEF IInv, LogInv
<1>5. Delivered \in Seq(Chunk) /\ Len(Delivered) = Len(accepted)
  BY <1>3, DeliveredFacts
<1> QED
  BY <1>1, <1>3, <1>4, <1>5

(* However the dump ends, the files concatenate to a prefix of it, and to  *)
(* all of it if nothing was raised.                                        *)
THEOREM DumpIsNotCorrupted == Spec => []PartsConcatenateToTheDump
<1>1. TypeOK /\ IInv => PartsConcatenateToTheDump
  BY DeliveredIsPrefix, CompleteWhenClosed DEF PartsConcatenateToTheDump
<1> QED
  BY <1>1, Invariance, PTL

(* A step writes a chunk or leaves what was accepted alone.                *)
LEMMA AcceptedGrows ==
  ASSUME TypeOK, TypeOK', [Next]_vars
  PROVE  IsPrefix(accepted, accepted')
<1>1. accepted \in Seq(Chunk) /\ accepted' \in Seq(Chunk) /\ Len(accepted) \in Nat
  BY DEF TypeOK
<1>2. CASE accepted' = accepted
  BY <1>1, <1>2, PrefixFacts
<1>3. ASSUME NEW chunk \in Chunk, Write(chunk)
      PROVE  IsPrefix(accepted, accepted')
  <2>1. accepted' = Append(accepted, chunk)
    BY <1>3 DEF Write
  <2>2. /\ Len(accepted) <= Len(accepted')
        /\ \A i \in 1..Len(accepted) : accepted[i] = accepted'[i]
    BY <1>1, <2>1, AppendFacts
  <2> QED
    BY <1>1, <2>2, PrefixFacts
<1>4. CASE Enter
  BY <1>2, <1>4 DEF Enter
<1>5. CASE EnterFails
  BY <1>2, <1>5 DEF EnterFails
<1>6. CASE AppendAtBoundary
  BY <1>2, <1>6 DEF AppendAtBoundary
<1>7. CASE RotateAtBoundary
  BY <1>2, <1>7 DEF RotateAtBoundary
<1>8. CASE RotateFails \/ InterruptRotation \/ FlushFails
  BY <1>2, <1>8 DEF RotateFails, InterruptRotation, FlushFails
<1>9. CASE Raise
  BY <1>2, <1>9 DEF Raise
<1>10. CASE Exit
  BY <1>2, <1>10 DEF Exit
<1>11. CASE ExitAsserts \/ ExitFails
  BY <1>2, <1>11 DEF ExitAsserts, ExitFails
<1>12. CASE UNCHANGED vars
  BY <1>2, <1>12 DEF vars
<1> QED
  BY <1>3, <1>4, <1>5, <1>6, <1>7, <1>8, <1>9, <1>10, <1>11, <1>12 DEF Next, Finished

(* A step appends to the disk or leaves it alone.                          *)
LEMMA DiskGrows ==
  ASSUME TypeOK, [Next]_vars
  PROVE  \/ disk' = disk
         \/ \E n \in 0..Len(buffer) : \E part, offset \in Nat :
              disk' = disk \o Written(n, part, offset)
<1> DEFINE Appends == \E n \in 0..Len(buffer) : \E part, offset \in Nat :
                        disk' = disk \o Written(n, part, offset)
<1>1. Len(buffer) \in 0..Len(buffer) /\ partIndex \in Nat /\ currentSize \in Nat /\ 0 \in Nat
  BY BufferFacts DEF TypeOK
<1>2. CASE Enter \/ EnterFails
  BY <1>2 DEF Enter, EnterFails
<1>3. ASSUME NEW chunk \in Chunk, Write(chunk)
      PROVE  disk' = disk
  BY <1>3 DEF Write
<1>4. CASE AppendAtBoundary
  BY <1>1, <1>4 DEF AppendAtBoundary
<1>5. CASE RotateAtBoundary
  <2>1. disk' = disk \o Written(Len(buffer), partIndex + 1, 0) /\ partIndex + 1 \in Nat
    BY <1>1, <1>5 DEF RotateAtBoundary
  <2> QED
    BY <1>1, <2>1
<1>6. CASE FlushFails
  <2>1. PICK n \in 0..Len(buffer) : disk' = disk \o Written(n, partIndex', currentSize')
    BY <1>6 DEF FlushFails
  <2>2. partIndex' \in Nat /\ currentSize' \in Nat
    BY <1>1, <1>6 DEF FlushFails
  <2> QED
    BY <2>1, <2>2
<1>7. CASE RotateFails \/ InterruptRotation \/ Raise \/ ExitAsserts
  BY <1>7 DEF RotateFails, InterruptRotation, Raise, ExitAsserts
<1>8. CASE Exit
  BY <1>1, <1>8 DEF Exit
<1>9. CASE ExitFails
  BY <1>1, <1>9 DEF ExitFails
<1>10. CASE UNCHANGED vars
  BY <1>10 DEF vars
<1> QED
  BY <1>2, <1>3, <1>4, <1>5, <1>6, <1>7, <1>8, <1>9, <1>10 DEF Next, Finished

LEMMA DeliveredGrows ==
  ASSUME TypeOK, TypeOK', [Next]_vars
  PROVE  IsPrefix(Delivered, Delivered')
<1>1. /\ Delivered \in Seq(Chunk) /\ Len(Delivered) = Len(disk)
      /\ \A i \in 1..Len(disk) : Delivered[i] = disk[i].chunk
  BY DeliveredFacts
<1>2. /\ Delivered' \in Seq(Chunk) /\ Len(Delivered') = Len(disk')
      /\ \A i \in 1..Len(disk') : Delivered'[i] = disk'[i].chunk
  <2>1. disk' \in Seq(Stored)
    BY DEF TypeOK
  <2>2. \A i \in 1..Len(disk') : disk'[i] \in Stored
    BY <2>1
  <2>3. Len(disk') \in Nat /\ \A i \in 1..Len(disk') : disk'[i].chunk \in Chunk
    BY <2>1, <2>2 DEF Stored
  <2> QED
    BY <2>3 DEF Delivered
<1>3. /\ Len(disk) \in Nat /\ Len(disk') \in Nat
      /\ Len(disk) <= Len(disk')
      /\ \A i \in 1..Len(disk) : disk'[i] = disk[i]
  <2>1. Len(disk) \in Nat /\ Len(disk') \in Nat
    BY DEF TypeOK
  <2>2. CASE disk' = disk
    BY <2>1, <2>2
  <2>3. ASSUME NEW n \in 0..Len(buffer), NEW part \in Nat, NEW offset \in Nat,
               disk' = disk \o Written(n, part, offset)
        PROVE  Len(disk) <= Len(disk') /\ \A i \in 1..Len(disk) : disk'[i] = disk[i]
    <3>1. /\ Len(disk \o Written(n, part, offset)) = Len(disk) + n
          /\ \A i \in 1..Len(disk) : (disk \o Written(n, part, offset))[i] = disk[i]
      BY WrittenFacts, Zenon
    <3>2. Len(disk') = Len(disk) + n /\ \A i \in 1..Len(disk) : disk'[i] = disk[i]
      BY <2>3, <3>1, Zenon
    <3> QED
      BY <2>1, <3>2, BufferFacts
  <2> QED
    BY <2>1, <2>2, <2>3, DiskGrows
<1>4. /\ Len(Delivered) <= Len(Delivered')
      /\ \A i \in 1..Len(Delivered) : Delivered[i] = Delivered'[i]
  BY <1>1, <1>2, <1>3
<1> QED
  BY <1>1, <1>2, <1>4, PrefixFacts

(* RotatingFileSink is an OutputSink: it delivers a growing prefix of what *)
(* it accepted, and closes, if nothing was raised, with all of it.         *)
THEOREM Implementation == Spec => ImplementsOutputSink
<1>1. Init => Sink!Init
  <2> SUFFICES ASSUME Init
               PROVE  Sink!Init
    OBVIOUS
  <2>1. Delivered = << >>
    BY DEF Init, Delivered
  <2> QED
    BY <2>1 DEF Init, Sink!Init
<1>2. ASSUME TypeOK, TypeOK', PartsConcatenateToTheDump', [Next]_vars
      PROVE  [Sink!Step]_Sink!vars
  <2>1. IsPrefix(accepted, accepted') /\ IsPrefix(Delivered, Delivered')
    BY <1>2, AcceptedGrows, DeliveredGrows
  <2>2. /\ IsPrefix(Delivered', accepted')
        /\ (stage' = "closed" /\ ~raised') => Delivered' = accepted'
    BY <1>2 DEF PartsConcatenateToTheDump
  <2>3. CASE stage = "closed" /\ ~raised
    <3>1. UNCHANGED vars
      BY <1>2, <2>3 DEF Next, Finished, Enter, EnterFails, Write, AppendAtBoundary,
         RotateAtBoundary, RotateFails, InterruptRotation, FlushFails, Raise, Exit, ExitAsserts, ExitFails,
         InWith, Leaving
    <3> QED
      BY <3>1 DEF vars, Sink!vars, Delivered
  <2>4. CASE ~(stage = "closed" /\ ~raised)
    BY <2>1, <2>2, <2>4 DEF Sink!Step, Sink!IsPrefix, IsPrefix
  <2> QED
    BY <2>3, <2>4
<1> QED
  BY <1>1, <1>2, TypeCorrect, DumpIsNotCorrupted, PTL DEF Spec, Sink!Spec, ImplementsOutputSink
=============================================================================
