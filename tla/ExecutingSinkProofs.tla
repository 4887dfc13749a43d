------------------------ MODULE ExecutingSinkProofs -------------------------
(***************************************************************************)
(* Theorems about the sink of migrate, for statements of any length cut    *)
(* into any chunks, and any number of them.  They assume                   *)
(* NoLiteralSemicolons, what the docstring of _split_statements says of    *)
(* the emitters, and say nothing of a source with a semicolon in a default *)
(* or in a name: the emitters copy both, and the sink cuts it in two.      *)
(***************************************************************************)
EXTENDS ExecutingSink, SequenceTheorems, FiniteSetTheorems, WellFoundedInduction, TLAPS

Text == Seq(Token)

-----------------------------------------------------------------------------
(* Induction on the natural numbers, for sets: a set that holds 0 and, with*)
(* a number, the next one, holds them all.                                 *)
LEMMA Least ==
  ASSUME NEW T, T \subseteq Nat, T # {}
  PROVE  \E x \in T : \A y \in T : x <= y
<1>1. PICK x \in T : \A y \in T : <<y, x>> \notin OpToRel(<, Nat)
  BY NatLessThanWellFounded, WFMin
<1>2. \A y \in T : ~(y < x)
  BY <1>1 DEF OpToRel
<1> QED
  BY <1>2

LEMMA Induction ==
  ASSUME NEW S, 0 \in S, \A n \in Nat : n \in S => n + 1 \in S
  PROVE  Nat \subseteq S
<1> SUFFICES ASSUME Nat \ S # {} PROVE FALSE
  OBVIOUS
<1>1. PICK x \in Nat \ S : \A y \in Nat \ S : x <= y
  BY Least
<1>2. x - 1 \in Nat /\ x - 1 \notin Nat \ S
  BY <1>1
<1> QED
  BY <1>1, <1>2

-----------------------------------------------------------------------------
(* FlattenSeq, one sequence after the other: f[n] is what the first n of   *)
(* ss give.                                                                *)
Flattens(n, ss, f) == f = [i \in 1..n |-> IF i = 1 THEN ss[i] ELSE f[i - 1] \o ss[i]]

Gathers(S, ss, f) ==
  /\ f[0] = << >>
  /\ \A i \in 1..Len(ss) : f[i] = f[i - 1] \o ss[i]
  /\ \A i \in 0..Len(ss) : f[i] \in Seq(S)

(* The function that FlattenSeq is made of exists.                         *)
LEMMA FlattenExists ==
  ASSUME NEW ss, Len(ss) \in Nat
  PROVE  \E f : Flattens(Len(ss), ss, f)
<1> DEFINE G == {n \in Nat : \E f : Flattens(n, ss, f)}
<1>1. 0 \in G
  <2>1. Flattens(0, ss, [i \in 1..0 |-> 0])
    BY DEF Flattens
  <2> QED
    BY <2>1
<1>2. ASSUME NEW n \in Nat, n \in G PROVE n + 1 \in G
  <2>1. PICK f : Flattens(n, ss, f)
    BY <1>2
  <2> DEFINE g == [i \in 1..(n + 1) |-> IF i = 1 THEN ss[i] ELSE f[i - 1] \o ss[i]]
  <2>2. g = [i \in 1..(n + 1) |-> g[i]]
    OBVIOUS
  <2>3. \A i \in 1..(n + 1) : g[i] = IF i = 1 THEN ss[i] ELSE f[i - 1] \o ss[i]
    OBVIOUS
  <2>4. \A i \in 1..n : f[i] = IF i = 1 THEN ss[i] ELSE f[i - 1] \o ss[i]
    BY <2>1 DEF Flattens
  <2> HIDE DEF g
  <2>5. \A i \in 1..n : g[i] = f[i]
    BY <2>3, <2>4
  <2>6. ASSUME NEW i \in 1..(n + 1)
        PROVE  g[i] = IF i = 1 THEN ss[i] ELSE g[i - 1] \o ss[i]
    <3>1. CASE i = 1
      BY <2>3, <3>1
    <3>2. CASE i # 1
      <4>1. i - 1 \in 1..n
        BY <3>2
      <4>2. g[i - 1] = f[i - 1]
        BY <2>5, <4>1
      <4> QED
        BY <2>3, <3>2, <4>2
    <3> QED
      BY <3>1, <3>2
  <2>7. Flattens(n + 1, ss, g)
    BY <2>2, <2>6 DEF Flattens
  <2> QED
    BY <2>7
<1> HIDE DEF G
<1>3. Nat \subseteq G
  BY <1>1, <1>2, Induction
<1> QED
  BY <1>3 DEF G

(* The results for the first sequences, and for all of them.               *)
LEMMA Gathering ==
  ASSUME NEW S, NEW ss \in Seq(Seq(S))
  PROVE  \E f : Gathers(S, ss, f) /\ FlattenSeq(ss) = f[Len(ss)]
<1> DEFINE n == Len(ss)
<1>1. n \in Nat /\ \A i \in 1..n : ss[i] \in Seq(S)
  BY ElementOfSeq, LenProperties
<1>2. CASE n = 0
  <2>1. ss = << >>
    BY <1>2, EmptySeq
  <2>2. FlattenSeq(ss) = << >>
    BY <1>2, <2>1 DEF FlattenSeq
  <2>3. Gathers(S, ss, [i \in 0..0 |-> << >>])
    BY <1>2, EmptySeq DEF Gathers
  <2> QED
    BY <1>2, <2>2, <2>3
<1>3. CASE n # 0
  <2> DEFINE h == CHOOSE f : Flattens(n, ss, f)
             g == [i \in 0..n |-> IF i = 0 THEN << >> ELSE h[i]]
  <2>1. Flattens(n, ss, h)
    BY <1>1, FlattenExists
  <2>2. FlattenSeq(ss) = h[n]
    BY <1>3 DEF FlattenSeq, Flattens
  <2>3. \A i \in 1..n : h[i] = IF i = 1 THEN ss[i] ELSE h[i - 1] \o ss[i]
    BY <2>1 DEF Flattens
  <2> HIDE DEF h
  <2>4. g[0] = << >> /\ \A i \in 1..n : g[i] = h[i]
    BY <1>1
  <2> HIDE DEF g
  <2>5. ASSUME NEW i \in 1..n PROVE g[i] = g[i - 1] \o ss[i]
    <3>1. CASE i = 1
      <4>1. << >> \o ss[i] = ss[i] /\ i - 1 = 0
        BY <1>1, <3>1, ConcatEmptySeq
      <4> QED
        BY <2>3, <2>4, <3>1, <4>1
    <3>2. CASE i # 1
      <4>1. i - 1 \in 1..n
        BY <1>1, <3>2
      <4> QED
        BY <2>3, <2>4, <3>2, <4>1
    <3> QED
      BY <3>1, <3>2
  <2>6. \A i \in 0..n : g[i] \in Seq(S)
    <3> DEFINE G == {i \in Nat : i <= n => g[i] \in Seq(S)}
    <3>1. 0 \in G
      BY <2>4, EmptySeq
    <3>2. ASSUME NEW i \in Nat, i \in G PROVE i + 1 \in G
      <4> SUFFICES ASSUME i + 1 <= n PROVE g[i + 1] \in Seq(S)
        OBVIOUS
      <4>1. i + 1 \in 1..n /\ (i + 1) - 1 = i /\ g[i] \in Seq(S)
        BY <1>1, <3>2
      <4>2. g[i + 1] = g[i] \o ss[i + 1] /\ ss[i + 1] \in Seq(S)
        BY <1>1, <2>5, <4>1
      <4> QED
        BY <4>1, <4>2, ConcatProperties
    <3> HIDE DEF G
    <3>3. Nat \subseteq G
      BY <3>1, <3>2, Induction
    <3> QED
      BY <1>1, <3>3 DEF G
  <2>7. FlattenSeq(ss) = g[n]
    <3>1. n \in 1..n
      BY <1>1, <1>3
    <3> QED
      BY <2>2, <2>4, <3>1
  <2> QED
    BY <2>4, <2>5, <2>6, <2>7 DEF Gathers
<1> QED
  BY <1>2, <1>3

(* Putting sequences together in two halves.                               *)
LEMMA FlattenConcat ==
  ASSUME NEW S, NEW x \in Seq(Seq(S)), NEW y \in Seq(Seq(S))
  PROVE  /\ FlattenSeq(x) \in Seq(S)
         /\ FlattenSeq(y) \in Seq(S)
         /\ FlattenSeq(x \o y) = FlattenSeq(x) \o FlattenSeq(y)
<1> DEFINE z == x \o y
<1>1. /\ z \in Seq(Seq(S))
      /\ Len(z) = Len(x) + Len(y)
      /\ Len(x) \in Nat /\ Len(y) \in Nat
      /\ \A i \in 1..Len(x) : z[i] = x[i]
      /\ \A i \in 1..Len(y) : z[Len(x) + i] = y[i]
  <2>1. Len(x) \in Nat /\ Len(y) \in Nat
    BY LenProperties
  <2>2. /\ z \in Seq(Seq(S))
        /\ Len(z) = Len(x) + Len(y)
        /\ \A i \in 1..(Len(x) + Len(y)) : z[i] = IF i <= Len(x) THEN x[i] ELSE y[i - Len(x)]
    BY ConcatProperties
  <2>3. ASSUME NEW i \in 1..Len(y) PROVE z[Len(x) + i] = y[i]
    <3>1. Len(x) + i \in 1..(Len(x) + Len(y)) /\ ~(Len(x) + i <= Len(x)) /\ (Len(x) + i) - Len(x) = i
      BY <2>1
    <3> QED
      BY <2>2, <3>1
  <2> QED
    BY <2>1, <2>2, <2>3
<1> HIDE DEF z
<1>2. PICK f : Gathers(S, x, f) /\ FlattenSeq(x) = f[Len(x)]
  BY Gathering
<1>3. PICK g : Gathers(S, y, g) /\ FlattenSeq(y) = g[Len(y)]
  BY Gathering
<1>4. PICK h : Gathers(S, z, h) /\ FlattenSeq(z) = h[Len(z)]
  BY <1>1, Gathering
<1>5. h[Len(x)] = f[Len(x)]
  <2> DEFINE G == {i \in Nat : i <= Len(x) => h[i] = f[i]}
  <2>1. 0 \in G
    BY <1>2, <1>4 DEF Gathers
  <2>2. ASSUME NEW i \in Nat, i \in G PROVE i + 1 \in G
    <3> SUFFICES ASSUME i + 1 <= Len(x) PROVE h[i + 1] = f[i + 1]
      OBVIOUS
    <3>1. i + 1 \in 1..Len(x) /\ i + 1 \in 1..Len(z) /\ (i + 1) - 1 = i /\ h[i] = f[i]
      BY <1>1, <2>2
    <3>2. h[i + 1] = h[i] \o z[i + 1] /\ f[i + 1] = f[i] \o x[i + 1]
      BY <1>2, <1>4, <3>1 DEF Gathers
    <3> QED
      BY <1>1, <3>1, <3>2
  <2> HIDE DEF G
  <2>3. Nat \subseteq G
    BY <2>1, <2>2, Induction
  <2> QED
    BY <1>1, <2>3 DEF G
<1>6. h[Len(x) + Len(y)] = f[Len(x)] \o g[Len(y)]
  <2> DEFINE a == f[Len(x)]
             G == {i \in Nat : i <= Len(y) => h[Len(x) + i] = a \o g[i]}
  <2>0. a \in Seq(S)
    BY <1>1, <1>2 DEF Gathers
  <2> HIDE DEF a
  <2>1. 0 \in G
    <3>1. g[0] = << >> /\ a \o << >> = a /\ Len(x) + 0 = Len(x) /\ h[Len(x)] = a
      BY <1>1, <1>3, <1>5, <2>0, ConcatEmptySeq DEF Gathers, a
    <3> QED
      BY <3>1
  <2>2. ASSUME NEW i \in Nat, i \in G PROVE i + 1 \in G
    <3> SUFFICES ASSUME i + 1 <= Len(y) PROVE h[Len(x) + (i + 1)] = a \o g[i + 1]
      OBVIOUS
    <3>1. /\ i + 1 \in 1..Len(y) /\ Len(x) + (i + 1) \in 1..Len(z) /\ i \in 0..Len(y)
          /\ (Len(x) + (i + 1)) - 1 = Len(x) + i /\ (i + 1) - 1 = i
          /\ h[Len(x) + i] = a \o g[i]
      <4>1. i + 1 \in 1..Len(y) /\ i \in 0..Len(y) /\ i <= Len(y)
        BY <1>1
      <4>2. Len(x) + (i + 1) \in 1..Len(z)
        BY <1>1, <4>1
      <4>3. (Len(x) + (i + 1)) - 1 = Len(x) + i /\ (i + 1) - 1 = i
        BY <1>1
      <4>4. h[Len(x) + i] = a \o g[i]
        BY <2>2, <4>1
      <4> QED
        BY <4>1, <4>2, <4>3, <4>4
    <3>2. h[Len(x) + (i + 1)] = h[Len(x) + i] \o z[Len(x) + (i + 1)]
      BY <1>4, <3>1 DEF Gathers
    <3>3. g[i + 1] = g[i] \o y[i + 1] /\ g[i] \in Seq(S)
      BY <1>3, <3>1 DEF Gathers
    <3>4. z[Len(x) + (i + 1)] = y[i + 1] /\ y[i + 1] \in Seq(S)
      BY <1>1, <3>1, ElementOfSeq
    <3>5. (a \o g[i]) \o y[i + 1] = a \o (g[i] \o y[i + 1])
      <4> DEFINE u == g[i]
                 w == y[i + 1]
      <4>1. a \in Seq(S) /\ u \in Seq(S) /\ w \in Seq(S)
        BY <2>0, <3>3, <3>4
      <4> HIDE DEF u, w
      <4>2. (a \o u) \o w = a \o (u \o w)
        BY <4>1, ConcatAssociative
      <4> QED
        BY <4>2 DEF u, w
    <3> QED
      BY <3>1, <3>2, <3>3, <3>4, <3>5
  <2> HIDE DEF G
  <2>3. Nat \subseteq G
    BY <2>1, <2>2, Induction
  <2>4. Len(y) \in Nat /\ Len(y) <= Len(y)
    BY <1>1
  <2>5. h[Len(x) + Len(y)] = a \o g[Len(y)]
    BY <2>3, <2>4 DEF G
  <2> QED
    BY <2>5 DEF a
<1>7. f[Len(x)] \in Seq(S) /\ g[Len(y)] \in Seq(S)
  BY <1>1, <1>2, <1>3 DEF Gathers
<1> QED
  BY <1>1, <1>2, <1>3, <1>4, <1>6, <1>7 DEF z

(* The empty sequence of sequences, and one alone.                         *)
LEMMA FlattenOne ==
  ASSUME NEW S, NEW s \in Seq(S)
  PROVE  /\ FlattenSeq(<< >>) = << >>
         /\ FlattenSeq(<<s>>) = s
<1>1. Len(<< >>) = 0
  OBVIOUS
<1>2. FlattenSeq(<< >>) = << >>
  BY <1>1 DEF FlattenSeq
<1>3. <<s>> \in Seq(Seq(S)) /\ Len(<<s>>) = 1 /\ <<s>>[1] = s
  OBVIOUS
<1>4. PICK f : Gathers(S, <<s>>, f) /\ FlattenSeq(<<s>>) = f[1]
  BY <1>3, Gathering
<1>5. f[1] = f[0] \o s /\ f[0] = << >>
  <2>1. 1 \in 1..Len(<<s>>) /\ 1 - 1 = 0
    BY <1>3
  <2> QED
    BY <1>3, <1>4, <2>1 DEF Gathers
<1>6. << >> \o s = s
  BY ConcatEmptySeq
<1> QED
  BY <1>2, <1>4, <1>5, <1>6

-----------------------------------------------------------------------------
(* Texts without their white space.                                        *)
Marks(text) == [i \in 1..Len(text) |-> IF text[i] = "blank" THEN << >> ELSE <<text[i]>>]

Blank(text) == \A i \in 1..Len(text) : text[i] = "blank"

Clear(text) == \A i \in 1..Len(text) : ~IsSemicolon(text[i])

(* Stripped(text) puts together one sequence for each token.               *)
LEMMA MarksFacts ==
  ASSUME NEW text \in Text
  PROVE  /\ Marks(text) \in Seq(Text)
         /\ Len(Marks(text)) = Len(text)
         /\ Len(text) \in Nat
         /\ \A i \in 1..Len(text) :
              Marks(text)[i] = IF text[i] = "blank" THEN << >> ELSE <<text[i]>>
<1>1. Len(text) \in Nat
  BY LenProperties DEF Text
<1>2. \A i \in 1..Len(text) : (IF text[i] = "blank" THEN << >> ELSE <<text[i]>>) \in Text
  <2> SUFFICES ASSUME NEW i \in 1..Len(text)
               PROVE  (IF text[i] = "blank" THEN << >> ELSE <<text[i]>>) \in Text
    OBVIOUS
  <2>1. text[i] \in Token
    BY ElementOfSeq DEF Text
  <2>2. << >> \in Seq(Token) /\ <<text[i]>> \in Seq(Token)
    BY <2>1
  <2> QED
    BY <2>2 DEF Text
<1> QED
  BY <1>1, <1>2 DEF Marks

(* Stripping a text in two halves.                                         *)
LEMMA StrippedConcat ==
  ASSUME NEW a \in Text, NEW b \in Text
  PROVE  /\ Stripped(a) \in Text
         /\ a \o b \in Text
         /\ Stripped(a \o b) = Stripped(a) \o Stripped(b)
<1>1. a \in Seq(Token) /\ b \in Seq(Token)
  BY DEF Text
<1>2. /\ a \o b \in Seq(Token)
      /\ Len(a \o b) = Len(a) + Len(b)
      /\ \A i \in 1..(Len(a) + Len(b)) : (a \o b)[i] = IF i <= Len(a) THEN a[i] ELSE b[i - Len(a)]
  BY <1>1, ConcatProperties
<1>3. a \o b \in Text
  BY <1>2 DEF Text
<1> DEFINE x == Marks(a)
           y == Marks(b)
           z == Marks(a \o b)
<1>4. /\ x \in Seq(Text) /\ Len(x) = Len(a) /\ Len(a) \in Nat
      /\ \A i \in 1..Len(a) : x[i] = IF a[i] = "blank" THEN << >> ELSE <<a[i]>>
  BY MarksFacts
<1>5. /\ y \in Seq(Text) /\ Len(y) = Len(b) /\ Len(b) \in Nat
      /\ \A i \in 1..Len(b) : y[i] = IF b[i] = "blank" THEN << >> ELSE <<b[i]>>
  BY MarksFacts
<1>6. /\ z \in Seq(Text) /\ Len(z) = Len(a) + Len(b)
      /\ \A i \in 1..(Len(a) + Len(b)) :
           z[i] = IF (a \o b)[i] = "blank" THEN << >> ELSE <<(a \o b)[i]>>
  BY <1>2, <1>3, MarksFacts
<1> HIDE DEF x, y, z
<1>7. /\ x \o y \in Seq(Text)
      /\ Len(x \o y) = Len(x) + Len(y)
      /\ \A i \in 1..(Len(x) + Len(y)) : (x \o y)[i] = IF i <= Len(x) THEN x[i] ELSE y[i - Len(x)]
  <2>1. x \in Seq(Text) /\ y \in Seq(Text)
    BY <1>4, <1>5
  <2> QED
    BY <2>1, ConcatProperties
<1>8. ASSUME NEW i \in 1..Len(z) PROVE z[i] = (x \o y)[i]
  <2>1. CASE i <= Len(a)
    <3>1. i \in 1..Len(a) /\ i \in 1..(Len(a) + Len(b))
      BY <1>4, <1>5, <1>6, <2>1
    <3>2. (a \o b)[i] = a[i] /\ (x \o y)[i] = x[i]
      BY <1>2, <1>4, <1>5, <1>7, <2>1, <3>1
    <3> QED
      BY <1>4, <1>6, <3>1, <3>2
  <2>2. CASE ~(i <= Len(a))
    <3>1. i - Len(a) \in 1..Len(b) /\ i \in 1..(Len(a) + Len(b))
      BY <1>4, <1>5, <1>6, <2>2
    <3>2. (a \o b)[i] = b[i - Len(a)] /\ (x \o y)[i] = y[i - Len(a)]
      BY <1>2, <1>4, <1>5, <1>7, <2>2, <3>1
    <3> QED
      BY <1>5, <1>6, <3>1, <3>2
  <2> QED
    BY <2>1, <2>2
<1>9. z = x \o y
  BY <1>4, <1>5, <1>6, <1>7, <1>8, SeqEqual
<1>10. /\ FlattenSeq(x) \in Seq(Token) /\ FlattenSeq(y) \in Seq(Token)
       /\ FlattenSeq(x \o y) = FlattenSeq(x) \o FlattenSeq(y)
  BY <1>4, <1>5, FlattenConcat DEF Text
<1>11. Stripped(a) = FlattenSeq(x) /\ Stripped(b) = FlattenSeq(y) /\ Stripped(a \o b) = FlattenSeq(z)
  BY DEF Stripped, Marks, x, y, z
<1> QED
  BY <1>3, <1>9, <1>10, <1>11 DEF Text

LEMMA StrippedBlank ==
  ASSUME NEW text \in Text, Blank(text)
  PROVE  Stripped(text) = << >>
<1> DEFINE x == Marks(text)
<1>1. /\ x \in Seq(Text) /\ Len(x) = Len(text) /\ Len(text) \in Nat
      /\ \A i \in 1..Len(text) : x[i] = IF text[i] = "blank" THEN << >> ELSE <<text[i]>>
  BY MarksFacts
<1>2. Stripped(text) = FlattenSeq(x)
  BY DEF Stripped, Marks
<1> HIDE DEF x
<1>3. PICK f : Gathers(Token, x, f) /\ FlattenSeq(x) = f[Len(x)]
  BY <1>1, Gathering DEF Text
<1> DEFINE G == {i \in Nat : i <= Len(x) => f[i] = << >>}
<1>4. 0 \in G
  BY <1>3 DEF Gathers
<1>5. ASSUME NEW i \in Nat, i \in G PROVE i + 1 \in G
  <2> SUFFICES ASSUME i + 1 <= Len(x) PROVE f[i + 1] = << >>
    OBVIOUS
  <2>1. i + 1 \in 1..Len(x) /\ (i + 1) - 1 = i /\ f[i] = << >>
    BY <1>1, <1>5
  <2>2. f[i + 1] = f[i] \o x[i + 1]
    BY <1>3, <2>1 DEF Gathers
  <2>3. x[i + 1] = << >>
    BY <1>1, <2>1 DEF Blank
  <2>4. << >> \o << >> = << >>
    OBVIOUS
  <2> QED
    BY <2>1, <2>2, <2>3, <2>4
<1> HIDE DEF G
<1>6. Nat \subseteq G
  BY <1>4, <1>5, Induction
<1> QED
  BY <1>1, <1>2, <1>3, <1>6 DEF G

-----------------------------------------------------------------------------
(* _split_statements on a text with no semicolon, and on one with one.     *)
LEMMA CutNone ==
  ASSUME NEW text \in Text, Clear(text)
  PROVE  Pieces(text) = << >> /\ Remainder(text) = text
<1>1. Semicolons(text) = {}
  BY DEF Semicolons, Clear
<1>2. Cardinality(Semicolons(text)) = 0
  BY <1>1, FS_EmptySet
<1>3. Pieces(text) = << >>
  BY <1>2 DEF Pieces
<1>4. SubSeq(text, 1, Len(text)) = text
  BY SubSeqFull DEF Text
<1>5. Remainder(text) = SubSeq(text, 0 + 1, Len(text))
  BY <1>1 DEF Remainder
<1> QED
  BY <1>3, <1>4, <1>5

(* One semicolon: one piece, and the rest of the text stays.               *)
LEMMA CutOne ==
  ASSUME NEW text \in Text, NEW k \in 1..Len(text), Semicolons(text) = {k}
  PROVE  /\ Pieces(text) = <<SubSeq(text, 1, k)>>
         /\ Remainder(text) = SubSeq(text, k + 1, Len(text))
         /\ SubSeq(text, 1, k) \in Text
         /\ Remainder(text) \in Text
         /\ text = SubSeq(text, 1, k) \o Remainder(text)
         /\ Len(SubSeq(text, 1, k)) = k
         /\ \A i \in 1..k : SubSeq(text, 1, k)[i] = text[i]
         /\ Len(Remainder(text)) = Len(text) - k
         /\ \A i \in 1..(Len(text) - k) : Remainder(text)[i] = text[k + i]
<1>1. Len(text) \in Nat /\ k \in Nat /\ k <= Len(text) /\ k >= 1
  BY LenProperties DEF Text
<1>2. Cardinality({k}) = 1
  BY FS_Singleton
<1>3. {j \in {k} : j <= k} = {k}
  BY <1>1
<1>4. EndOf(text, 1) = k
  BY <1>2, <1>3 DEF EndOf
<1>5. Pieces(text) = [n \in 1..1 |-> SubSeq(text, 1, k)]
  <2>1. Pieces(text) = [n \in 1..1 |-> SubSeq(text, IF n = 1 THEN 1 ELSE EndOf(text, n - 1) + 1,
                                              EndOf(text, n))]
    BY <1>2 DEF Pieces
  <2>2. \A n \in 1..1 : n = 1
    OBVIOUS
  <2> QED
    BY <1>4, <2>1, <2>2
<1>6. Pieces(text) = <<SubSeq(text, 1, k)>>
  BY <1>5
<1>7. Remainder(text) = SubSeq(text, k + 1, Len(text))
  <2>1. \A i \in {k} : \A j \in {k} : j <= i
    BY <1>1
  <2>2. (CHOOSE i \in {k} : \A j \in {k} : j <= i) = k
    BY <2>1
  <2> QED
    BY <2>2 DEF Remainder
<1>8. \A i \in 1..Len(text) : text[i] \in Token
  BY ElementOfSeq DEF Text
<1>9. /\ SubSeq(text, 1, k) \in Seq(Token)
      /\ Len(SubSeq(text, 1, k)) = k
      /\ \A i \in 1..k : SubSeq(text, 1, k)[i] = text[i]
  <2>1. \A i \in 1..k : text[i] \in Token
    BY <1>1, <1>8
  <2>2. /\ SubSeq(text, 1, k) \in Seq(Token)
        /\ Len(SubSeq(text, 1, k)) = IF 1 <= k THEN k - 1 + 1 ELSE 0
        /\ \A i \in 1..(k - 1 + 1) : SubSeq(text, 1, k)[i] = text[1 + i - 1]
    BY <1>1, <2>1, SubSeqProperties
  <2>3. \A i \in 1..k : i \in 1..(k - 1 + 1) /\ 1 + i - 1 = i
    BY <1>1
  <2> QED
    BY <1>1, <2>2, <2>3
<1>10. /\ SubSeq(text, k + 1, Len(text)) \in Seq(Token)
       /\ Len(SubSeq(text, k + 1, Len(text))) = Len(text) - k
       /\ \A i \in 1..(Len(text) - k) : SubSeq(text, k + 1, Len(text))[i] = text[k + i]
  <2>1. \A i \in (k + 1)..Len(text) : text[i] \in Token
    BY <1>1, <1>8
  <2>2. /\ SubSeq(text, k + 1, Len(text)) \in Seq(Token)
        /\ Len(SubSeq(text, k + 1, Len(text))) =
             IF k + 1 <= Len(text) THEN Len(text) - (k + 1) + 1 ELSE 0
        /\ \A i \in 1..(Len(text) - (k + 1) + 1) :
             SubSeq(text, k + 1, Len(text))[i] = text[k + 1 + i - 1]
    BY <1>1, <2>1, SubSeqProperties
  <2>3. \A i \in 1..(Len(text) - k) : i \in 1..(Len(text) - (k + 1) + 1) /\ k + 1 + i - 1 = k + i
    BY <1>1
  <2> QED
    BY <1>1, <2>2, <2>3
<1>11. text = SubSeq(text, 1, k) \o SubSeq(text, k + 1, Len(text))
  <2>1. /\ 1 \in 1..(Len(text) + 1) /\ k \in (1 - 1)..Len(text)
        /\ Len(text) \in k..Len(text)
    BY <1>1
  <2>2. SubSeq(text, 1, k) \o SubSeq(text, k + 1, Len(text)) = SubSeq(text, 1, Len(text))
    BY <2>1, ConcatAdjacentSubSeq DEF Text
  <2> QED
    BY <2>2, SubSeqFull DEF Text
<1> QED
  BY <1>6, <1>7, <1>9, <1>10, <1>11 DEF Text

-----------------------------------------------------------------------------
(* What the sink holds of a statement whose remaining chunks are rest:     *)
(* its beginning, or the white space after it.                             *)
Open(held, rest) ==
  /\ Clear(held)
  /\ IsStatement(held \o rest)
  /\ Stripped(held \o rest) \in Meant

Done(held, rest) == Blank(held) /\ Blank(rest)

LEMMA ConcatFacts ==
  ASSUME NEW a \in Text, NEW b \in Text
  PROVE  /\ a \o b \in Text
         /\ Len(a) \in Nat /\ Len(b) \in Nat
         /\ Len(a \o b) = Len(a) + Len(b)
         /\ \A i \in 1..Len(a) : (a \o b)[i] = a[i]
         /\ \A i \in 1..Len(b) : (a \o b)[Len(a) + i] = b[i]
<1>1. a \in Seq(Token) /\ b \in Seq(Token)
  BY DEF Text
<1>2. Len(a) \in Nat /\ Len(b) \in Nat
  BY <1>1, LenProperties
<1>3. /\ a \o b \in Seq(Token)
      /\ Len(a \o b) = Len(a) + Len(b)
      /\ \A i \in 1..(Len(a) + Len(b)) : (a \o b)[i] = IF i <= Len(a) THEN a[i] ELSE b[i - Len(a)]
  BY <1>1, ConcatProperties
<1>4. ASSUME NEW i \in 1..Len(b) PROVE (a \o b)[Len(a) + i] = b[i]
  <2>1. Len(a) + i \in 1..(Len(a) + Len(b)) /\ ~(Len(a) + i <= Len(a)) /\ (Len(a) + i) - Len(a) = i
    BY <1>2
  <2> QED
    BY <1>3, <2>1
<1>5. \A i \in 1..Len(a) : (a \o b)[i] = a[i]
  BY <1>2, <1>3
<1> QED
  BY <1>2, <1>3, <1>4, <1>5 DEF Text

LEMMA BlankConcat ==
  ASSUME NEW a \in Text, NEW b \in Text
  PROVE  Blank(a \o b) <=> Blank(a) /\ Blank(b)
<1>1. /\ Len(a) \in Nat /\ Len(b) \in Nat
      /\ Len(a \o b) = Len(a) + Len(b)
      /\ \A i \in 1..Len(a) : (a \o b)[i] = a[i]
      /\ \A i \in 1..Len(b) : (a \o b)[Len(a) + i] = b[i]
  BY ConcatFacts
<1>2. ASSUME Blank(a \o b) PROVE Blank(a) /\ Blank(b)
  <2>1. \A i \in 1..Len(a) : i \in 1..Len(a \o b)
    BY <1>1
  <2>2. \A i \in 1..Len(b) : Len(a) + i \in 1..Len(a \o b)
    BY <1>1
  <2> QED
    BY <1>1, <1>2, <2>1, <2>2 DEF Blank
<1>3. ASSUME Blank(a), Blank(b), NEW i \in 1..Len(a \o b) PROVE (a \o b)[i] = "blank"
  <2>1. CASE i <= Len(a)
    BY <1>1, <1>3, <2>1 DEF Blank
  <2>2. CASE ~(i <= Len(a))
    <3>1. i - Len(a) \in 1..Len(b) /\ Len(a) + (i - Len(a)) = i
      BY <1>1, <2>2
    <3> QED
      BY <1>1, <1>3, <3>1 DEF Blank
  <2> QED
    BY <2>1, <2>2
<1> QED
  BY <1>2, <1>3 DEF Blank

LEMMA BlankIsClear ==
  ASSUME NEW text \in Text, Blank(text)
  PROVE  Clear(text)
  BY DEF Blank, Clear, IsSemicolon

(* A chunk of white space after a statement stays in the buffer.           *)
LEMMA WriteBlank ==
  ASSUME NEW held \in Text, NEW chunk \in Text, NEW rest \in Text, Done(held, chunk \o rest)
  PROVE  /\ Pieces(held \o chunk) = << >>
         /\ Remainder(held \o chunk) = held \o chunk
         /\ Done(held \o chunk, rest)
<1>1. Blank(held) /\ Blank(chunk) /\ Blank(rest)
  BY BlankConcat DEF Done
<1>2. held \o chunk \in Text /\ Blank(held \o chunk)
  BY <1>1, BlankConcat, ConcatFacts
<1> QED
  BY <1>1, <1>2, BlankIsClear, CutNone DEF Done

(* A chunk of a statement: it is still open, or it is cut off whole.       *)
LEMMA WriteOpen ==
  ASSUME NEW held \in Text, NEW chunk \in Text, NEW rest \in Text, Open(held, chunk \o rest)
  PROVE  \/ /\ Pieces(held \o chunk) = << >>
            /\ Remainder(held \o chunk) = held \o chunk
            /\ Open(held \o chunk, rest)
         \/ \E p \in Text : /\ Pieces(held \o chunk) = <<p>>
                            /\ HasSql(p)
                            /\ Stripped(p) \in Meant
                            /\ Remainder(held \o chunk) \in Text
                            /\ Done(Remainder(held \o chunk), rest)
                            /\ held \o chunk = p \o Remainder(held \o chunk)
<1> DEFINE j == held \o chunk
           t == j \o rest
<1>1. j \in Text /\ t \in Text
  BY ConcatFacts
<1>2. held \o (chunk \o rest) = t
  BY ConcatAssociative DEF Text
<1>3. /\ Len(j) \in Nat /\ Len(rest) \in Nat
      /\ Len(t) = Len(j) + Len(rest)
      /\ \A i \in 1..Len(j) : t[i] = j[i]
      /\ \A i \in 1..Len(rest) : t[Len(j) + i] = rest[i]
  BY <1>1, ConcatFacts
<1>4. IsStatement(t) /\ Stripped(t) \in Meant
  BY <1>2 DEF Open
<1> HIDE DEF j, t
<1>5. PICK k \in 1..Len(t) : /\ t[k] = "end"
                             /\ \A i \in 1..(k - 1) : ~IsSemicolon(t[i])
                             /\ \E i \in 1..(k - 1) : t[i] = "sql"
                             /\ \A i \in (k + 1)..Len(t) : t[i] = "blank"
  BY <1>4 DEF IsStatement
<1>6. k \in Nat /\ k >= 1 /\ k <= Len(t) /\ Len(t) \in Nat
  BY <1>3
<1>7. CASE k > Len(j)
  <2>1. \A i \in 1..Len(j) : i \in 1..(k - 1) /\ t[i] = j[i]
    BY <1>3, <1>6, <1>7
  <2>2. Clear(j)
    BY <1>5, <2>1 DEF Clear
  <2>3. Pieces(j) = << >> /\ Remainder(j) = j
    BY <1>1, <2>2, CutNone
  <2>4. Open(j, rest)
    BY <1>4, <2>2 DEF Open, t
  <2> QED
    BY <2>3, <2>4 DEF j
<1>8. CASE ~(k > Len(j))
  <2>1. k \in 1..Len(j)
    BY <1>3, <1>6, <1>8
  <2>2. ASSUME NEW i \in 1..Len(j) PROVE IsSemicolon(j[i]) <=> i = k
    <3>1. t[i] = j[i]
      BY <1>3
    <3>2. CASE i = k
      BY <1>5, <3>1, <3>2 DEF IsSemicolon
    <3>3. CASE i < k
      <4>1. i \in 1..(k - 1)
        BY <1>6, <3>3
      <4> QED
        BY <1>5, <3>1, <3>3, <4>1
    <3>4. CASE i > k
      <4>1. i \in (k + 1)..Len(t)
        BY <1>3, <1>6, <3>4
      <4>2. t[i] = "blank"
        BY <1>5, <4>1
      <4> QED
        BY <3>1, <3>4, <4>2 DEF IsSemicolon
    <3> QED
      BY <1>3, <1>6, <3>2, <3>3, <3>4
  <2>3. Semicolons(j) = {k}
    BY <2>1, <2>2 DEF Semicolons
  <2> DEFINE p == SubSeq(j, 1, k)
             r == Remainder(j)
  <2>4. /\ Pieces(j) = <<p>>
        /\ p \in Text /\ r \in Text
        /\ j = p \o r
        /\ Len(p) = k
        /\ \A i \in 1..k : p[i] = j[i]
        /\ Len(r) = Len(j) - k
        /\ \A i \in 1..(Len(j) - k) : r[i] = j[k + i]
    BY <1>1, <2>1, <2>3, CutOne
  <2> HIDE DEF p, r
  <2>5. HasSql(p)
    <3>1. PICK i \in 1..(k - 1) : t[i] = "sql"
      BY <1>5
    <3>2. i \in 1..k /\ i \in 1..Len(j)
      BY <1>3, <2>1, <3>1
    <3>3. p[i] = "sql"
      BY <1>3, <2>4, <3>1, <3>2
    <3> QED
      BY <2>4, <3>2, <3>3 DEF HasSql
  <2>6. Blank(r)
    <3> SUFFICES ASSUME NEW i \in 1..Len(r) PROVE r[i] = "blank"
      BY DEF Blank
    <3>1. i \in 1..(Len(j) - k) /\ k + i \in (k + 1)..Len(t) /\ k + i \in 1..Len(j)
      BY <1>3, <1>6, <2>4
    <3> QED
      BY <1>3, <1>5, <2>4, <3>1
  <2>7. Blank(rest)
    <3> SUFFICES ASSUME NEW i \in 1..Len(rest) PROVE rest[i] = "blank"
      BY DEF Blank
    <3>1. Len(j) + i \in (k + 1)..Len(t)
      BY <1>3, <1>6, <1>8
    <3> QED
      BY <1>3, <1>5, <3>1
  <2>8. Stripped(p) = Stripped(t)
    <3>1. Stripped(t) = Stripped(j) \o Stripped(rest)
      BY <1>1, StrippedConcat DEF t
    <3>2. Stripped(j) = Stripped(p) \o Stripped(r) /\ Stripped(p) \in Text
      BY <2>4, StrippedConcat
    <3>3. Stripped(rest) = << >> /\ Stripped(r) = << >>
      BY <2>4, <2>6, <2>7, StrippedBlank
    <3>4. Stripped(p) \o << >> = Stripped(p)
      BY <3>2, ConcatEmptySeq DEF Text
    <3> QED
      BY <3>1, <3>2, <3>3, <3>4
  <2>9. Stripped(p) \in Meant /\ Done(r, rest)
    BY <1>4, <2>6, <2>7, <2>8 DEF Done
  <2> QED
    BY <2>4, <2>5, <2>9 DEF j, r
<1> QED
  BY <1>3, <1>6, <1>7, <1>8

-----------------------------------------------------------------------------
(***************************************************************************)
(* The inductive invariant behind the theorems, part by part.              *)
(***************************************************************************)
Types ==
  /\ stage \in {"body", "closed"}
  /\ raised \in BOOLEAN
  /\ failed \in BOOLEAN
  /\ chunks \in Seq(Text)
  /\ buffer \in Text
  /\ pieces \in Seq(Text)
  /\ executed \in Seq(Text)
  /\ accepted \in Text

(* One statement at a time: it is open in the buffer, or it is the piece   *)
(* to execute, or it has been executed and white space is left.            *)
IsPiece(ps) == \E p \in Text : ps = <<p>> /\ HasSql(p) /\ Stripped(p) \in Meant

InStep(cs, held, ps) ==
  \/ ps = << >> /\ Open(held, FlattenSeq(cs))
  \/ Done(held, FlattenSeq(cs)) /\ (ps = << >> \/ IsPiece(ps))

Writing == (stage = "body" /\ ~raised) => InStep(chunks, buffer, pieces)

(* Nothing is lost unless an exception is leaving the with block.          *)
Complete(text, done, ps, held) ==
  Stripped(text) = (FlattenSeq(done) \o Stripped(FlattenSeq(ps))) \o Stripped(held)

Begun(text, done, held) ==
  \E lost \in Text : Stripped(text) = (FlattenSeq(done) \o Stripped(held)) \o lost

Accounts ==
  IF raised THEN pieces = << >> /\ Begun(accepted, executed, buffer)
  ELSE Complete(accepted, executed, pieces, buffer)

(* A statement that failed left nothing for __exit__ to flush.             *)
Errors ==
  /\ failed => raised /\ Stripped(buffer) = << >>
  /\ stage = "closed" => pieces = << >> /\ buffer = << >>

IInv == Types /\ Writing /\ Accounts /\ Errors /\ ExecutesWholeStatements

-----------------------------------------------------------------------------
(* The steps, on the values they change.                                   *)
LEMMA Empty ==
  /\ << >> \in Text /\ << >> \in Seq(Text)
  /\ FlattenSeq(<< >>) = << >>
  /\ Stripped(<< >>) = << >>
  /\ Blank(<< >>)
<1>1. << >> \in Seq(Token) /\ << >> \in Seq(Text) /\ Len(<< >>) = 0
  OBVIOUS
<1>2. FlattenSeq(<< >>) = << >>
  BY <1>1, FlattenOne
<1>3. Blank(<< >>)
  BY <1>1 DEF Blank
<1> QED
  BY <1>1, <1>2, <1>3, StrippedBlank DEF Text

LEMMA OneMore ==
  ASSUME NEW done \in Seq(Text), NEW t \in Text
  PROVE  /\ Append(done, t) \in Seq(Text)
         /\ FlattenSeq(done) \in Text
         /\ FlattenSeq(Append(done, t)) = FlattenSeq(done) \o t
         /\ FlattenSeq(<<t>>) = t
         /\ <<t>> \in Seq(Text)
<1>1. Append(done, t) = done \o <<t>> /\ Append(done, t) \in Seq(Text)
  BY AppendIsConcat, AppendProperties
<1>2. <<t>> \in Seq(Text)
  OBVIOUS
<1>3. FlattenSeq(done) \in Seq(Token) /\ FlattenSeq(done \o <<t>>) = FlattenSeq(done) \o FlattenSeq(<<t>>)
  BY <1>2, FlattenConcat DEF Text
<1>4. FlattenSeq(<<t>>) = t
  BY FlattenOne DEF Text
<1> QED
  BY <1>1, <1>2, <1>3, <1>4 DEF Text

LEMMA NextChunk ==
  ASSUME NEW cs \in Seq(Text), cs # << >>
  PROVE  /\ Head(cs) \in Text
         /\ Tail(cs) \in Seq(Text)
         /\ FlattenSeq(Tail(cs)) \in Text
         /\ FlattenSeq(cs) = Head(cs) \o FlattenSeq(Tail(cs))
<1>1. Head(cs) \in Text /\ Tail(cs) \in Seq(Text)
  BY HeadTailProperties
<1>2. cs = <<Head(cs)>> \o Tail(cs)
  OBVIOUS
<1>3. <<Head(cs)>> \in Seq(Text) /\ FlattenSeq(<<Head(cs)>>) = Head(cs)
  BY <1>1, OneMore, Empty
<1>4. /\ FlattenSeq(Tail(cs)) \in Seq(Token)
      /\ FlattenSeq(<<Head(cs)>> \o Tail(cs)) = FlattenSeq(<<Head(cs)>>) \o FlattenSeq(Tail(cs))
  <2> DEFINE x == <<Head(cs)>>
             y == Tail(cs)
  <2>1. x \in Seq(Seq(Token)) /\ y \in Seq(Seq(Token))
    BY <1>1, <1>3 DEF Text
  <2> HIDE DEF x, y
  <2>2. FlattenSeq(y) \in Seq(Token) /\ FlattenSeq(x \o y) = FlattenSeq(x) \o FlattenSeq(y)
    BY <2>1, FlattenConcat
  <2> QED
    BY <2>2 DEF x, y
<1> QED
  BY <1>1, <1>2, <1>3, <1>4 DEF Text

LEMMA Associative ==
  ASSUME NEW a \in Text, NEW b \in Text, NEW c \in Text
  PROVE  /\ (a \o b) \o c = a \o (b \o c)
         /\ a \o b \in Text
         /\ a \o << >> = a /\ << >> \o a = a
  BY ConcatAssociative, ConcatProperties, ConcatEmptySeq DEF Text

LEMMA StrippedAfter ==
  ASSUME NEW before \in Text, NEW a \in Text, NEW b \in Text
  PROVE  (before \o Stripped(a)) \o Stripped(b) = before \o Stripped(a \o b)
<1> DEFINE u == Stripped(a)
           v == Stripped(b)
<1>1. u \in Text /\ v \in Text /\ Stripped(a \o b) = u \o v
  BY StrippedConcat
<1> HIDE DEF u, v
<1>2. (before \o u) \o v = before \o (u \o v)
  BY <1>1, ConcatAssociative DEF Text
<1> QED
  BY <1>1, <1>2 DEF u, v

(* A statement that is still open has chunks to come.                      *)
LEMMA OpenNeedsMore ==
  ASSUME NEW held \in Text, Open(held, << >>)
  PROVE  FALSE
<1>1. held \o << >> = held
  BY Associative, Empty
<1>2. Clear(held) /\ IsStatement(held)
  BY <1>1 DEF Open
<1> QED
  BY <1>2 DEF Clear, IsStatement, IsSemicolon

(* A statement begins when nothing but white space is held.                *)
LEMMA BeginStep ==
  ASSUME NoLiteralSemicolons, NEW s \in Statements, NEW held \in Text, InStep(<< >>, held, << >>)
  PROVE  s \in Seq(Text) /\ InStep(s, held, << >>)
<1>1. s \in Seq(Text)
  BY EmitterAssumption DEF Text
<1> DEFINE w == FlattenSeq(s)
<1>2. w \in Text
  BY <1>1, OneMore, Empty
<1>3. Blank(held)
  BY OpenNeedsMore, Empty DEF InStep, Done
<1>4. IsStatement(w) /\ Stripped(w) \in Meant
  BY DEF NoLiteralSemicolons, Meant
<1> HIDE DEF w
<1>5. Clear(held) /\ Stripped(held) = << >>
  BY <1>3, BlankIsClear, StrippedBlank
<1>6. Stripped(held \o w) \in Meant
  <2>1. Stripped(held \o w) = Stripped(held) \o Stripped(w) /\ Stripped(w) \in Text
    BY <1>2, StrippedConcat
  <2>2. << >> \o Stripped(w) = Stripped(w)
    BY <2>1, Associative
  <2> QED
    BY <1>4, <1>5, <2>1, <2>2
<1>7. IsStatement(held \o w)
  <2> DEFINE t == held \o w
  <2>1. /\ Len(held) \in Nat /\ Len(w) \in Nat
        /\ Len(t) = Len(held) + Len(w)
        /\ \A i \in 1..Len(held) : t[i] = held[i]
        /\ \A i \in 1..Len(w) : t[Len(held) + i] = w[i]
    BY <1>2, ConcatFacts
  <2> HIDE DEF t
  <2>2. PICK k \in 1..Len(w) : /\ w[k] = "end"
                               /\ \A i \in 1..(k - 1) : ~IsSemicolon(w[i])
                               /\ \E i \in 1..(k - 1) : w[i] = "sql"
                               /\ \A i \in (k + 1)..Len(w) : w[i] = "blank"
    BY <1>4 DEF IsStatement
  <2> DEFINE n == Len(held) + k
  <2>3. n \in 1..Len(t) /\ t[n] = "end"
    BY <2>1, <2>2
  <2>4. ASSUME NEW i \in 1..(n - 1) PROVE ~IsSemicolon(t[i])
    <3>1. CASE i <= Len(held)
      BY <1>5, <2>1, <3>1 DEF Clear
    <3>2. CASE ~(i <= Len(held))
      <4>1. i - Len(held) \in 1..(k - 1) /\ i - Len(held) \in 1..Len(w)
            /\ Len(held) + (i - Len(held)) = i
        BY <2>1, <3>2
      <4>2. t[i] = w[i - Len(held)]
        BY <2>1, <4>1
      <4> QED
        BY <2>2, <4>1, <4>2
    <3> QED
      BY <3>1, <3>2
  <2>5. \E i \in 1..(n - 1) : t[i] = "sql"
    <3>1. PICK i \in 1..(k - 1) : w[i] = "sql"
      BY <2>2
    <3>2. Len(held) + i \in 1..(n - 1) /\ i \in 1..Len(w)
      BY <2>1
    <3> QED
      BY <2>1, <3>1, <3>2
  <2>6. ASSUME NEW i \in (n + 1)..Len(t) PROVE t[i] = "blank"
    <3>1. i - Len(held) \in (k + 1)..Len(w) /\ i - Len(held) \in 1..Len(w)
          /\ Len(held) + (i - Len(held)) = i
      BY <2>1
    <3> QED
      BY <2>1, <2>2, <3>1
  <2> HIDE DEF n
  <2>7. IsStatement(t)
    BY <2>3, <2>4, <2>5, <2>6 DEF IsStatement
  <2> QED
    BY <2>7 DEF t
<1> QED
  BY <1>1, <1>5, <1>6, <1>7 DEF InStep, Open, w

(* One chunk is written and the buffer cut.                                *)
LEMMA WriteStep ==
  ASSUME NEW cs \in Seq(Text), cs # << >>, NEW held \in Text, InStep(cs, held, << >>),
         NEW text \in Text, NEW done \in Seq(Text), Complete(text, done, << >>, held)
  PROVE  /\ Head(cs) \in Text /\ Tail(cs) \in Seq(Text)
         /\ text \o Head(cs) \in Text
         /\ held \o Head(cs) \in Text
         /\ Pieces(held \o Head(cs)) \in Seq(Text)
         /\ Remainder(held \o Head(cs)) \in Text
         /\ InStep(Tail(cs), Remainder(held \o Head(cs)), Pieces(held \o Head(cs)))
         /\ Complete(text \o Head(cs), done, Pieces(held \o Head(cs)),
                     Remainder(held \o Head(cs)))
         /\ Begun(text \o Head(cs), done, held \o Head(cs))
<1> DEFINE h == Head(cs)
           rest == FlattenSeq(Tail(cs))
           j == held \o h
           F == FlattenSeq(done)
<1>1. h \in Text /\ Tail(cs) \in Seq(Text) /\ rest \in Text /\ FlattenSeq(cs) = h \o rest
  BY NextChunk
<1>2. F \in Text
  BY OneMore, Empty
<1> HIDE DEF h, rest, F
<1>3. j \in Text /\ text \o h \in Text
  BY <1>1, Associative
<1>4. Stripped(text \o h) = F \o Stripped(j) /\ Stripped(j) \in Text
  <2>1. Stripped(text \o h) = Stripped(text) \o Stripped(h) /\ Stripped(h) \in Text
    BY <1>1, StrippedConcat
  <2>2. Stripped(j) = Stripped(held) \o Stripped(h) /\ Stripped(held) \in Text
    BY <1>1, StrippedConcat
  <2>3. Stripped(text) = F \o Stripped(held)
    <3>1. F \o << >> = F
      BY <1>2, Associative
    <3>2. Stripped(text) = (F \o << >>) \o Stripped(held)
      BY Empty DEF Complete, F
    <3> QED
      BY <3>1, <3>2
  <2>4. (F \o Stripped(held)) \o Stripped(h) = F \o Stripped(j)
    BY <1>1, <1>2, StrippedAfter DEF j
  <2>5. Stripped(j) \in Text
    BY <1>3, StrippedConcat
  <2> QED
    BY <2>1, <2>2, <2>3, <2>4, <2>5
<1> HIDE DEF j
<1>5. Begun(text \o h, done, j)
  <2>1. F \o Stripped(j) \in Text
    BY <1>2, <1>4, Associative
  <2>2. (F \o Stripped(j)) \o << >> = F \o Stripped(j)
    BY <2>1, Associative
  <2> QED
    BY <1>4, <2>2, Empty DEF Begun, F
<1>6. CASE Pieces(j) = << >> /\ Remainder(j) = j /\ (Open(j, rest) \/ Done(j, rest))
  <2>1. InStep(Tail(cs), Remainder(j), Pieces(j))
    BY <1>6 DEF InStep, rest
  <2>2. Complete(text \o h, done, Pieces(j), Remainder(j))
    <3>1. F \o << >> = F
      BY <1>2, Associative
    <3> QED
      BY <1>4, <1>6, <3>1, Empty DEF Complete, F
  <2> QED
    BY <1>1, <1>3, <1>5, <1>6, <2>1, <2>2, Empty DEF h, j
<1>7. ASSUME NEW p \in Text, Pieces(j) = <<p>>, HasSql(p), Stripped(p) \in Meant,
             Remainder(j) \in Text, Done(Remainder(j), rest), j = p \o Remainder(j)
      PROVE  /\ Pieces(j) \in Seq(Text)
             /\ InStep(Tail(cs), Remainder(j), Pieces(j))
             /\ Complete(text \o h, done, Pieces(j), Remainder(j))
  <2>1. Pieces(j) \in Seq(Text) /\ FlattenSeq(Pieces(j)) = p
    BY <1>7, OneMore, Empty
  <2>2. IsPiece(Pieces(j))
    BY <1>7 DEF IsPiece
  <2>3. InStep(Tail(cs), Remainder(j), Pieces(j))
    BY <1>7, <2>2 DEF InStep, rest
  <2>4. (F \o Stripped(p)) \o Stripped(Remainder(j)) = F \o Stripped(p \o Remainder(j))
    BY <1>2, <1>7, StrippedAfter
  <2> QED
    BY <1>4, <1>7, <2>1, <2>3, <2>4 DEF Complete, F
<1>8. Open(held, h \o rest) \/ Done(held, h \o rest)
  BY <1>1 DEF InStep
<1>9. CASE Done(held, h \o rest)
  BY <1>1, <1>6, <1>9, WriteBlank DEF j
<1>10. CASE Open(held, h \o rest)
  <2>1. \/ Pieces(j) = << >> /\ Remainder(j) = j /\ Open(j, rest)
        \/ \E p \in Text : /\ Pieces(j) = <<p>>
                           /\ HasSql(p)
                           /\ Stripped(p) \in Meant
                           /\ Remainder(j) \in Text
                           /\ Done(Remainder(j), rest)
                           /\ j = p \o Remainder(j)
    BY <1>1, <1>10, WriteOpen DEF j
  <2>2. CASE Pieces(j) = << >> /\ Remainder(j) = j /\ Open(j, rest)
    BY <1>6, <2>2
  <2>3. CASE \E p \in Text : /\ Pieces(j) = <<p>>
                             /\ HasSql(p)
                             /\ Stripped(p) \in Meant
                             /\ Remainder(j) \in Text
                             /\ Done(Remainder(j), rest)
                             /\ j = p \o Remainder(j)
    <3>1. /\ Pieces(j) \in Seq(Text) /\ Remainder(j) \in Text
          /\ InStep(Tail(cs), Remainder(j), Pieces(j))
          /\ Complete(text \o h, done, Pieces(j), Remainder(j))
      BY <1>7, <2>3
    <3> QED
      BY <1>1, <1>3, <1>5, <3>1 DEF h, j
  <2> QED
    BY <2>1, <2>2, <2>3
<1> QED
  BY <1>8, <1>9, <1>10

(* The piece is executed, and it is a statement as the emitter means it.   *)
LEMMA ExecuteStep ==
  ASSUME NEW ps, IsPiece(ps), NEW held \in Text, NEW text \in Text, NEW done \in Seq(Text),
         Complete(text, done, ps, held)
  PROVE  /\ ps # << >> /\ HasSql(Head(ps)) /\ Tail(ps) = << >>
         /\ Stripped(Head(ps)) \in Meant /\ Stripped(Head(ps)) \in Text
         /\ Append(done, Stripped(Head(ps))) \in Seq(Text)
         /\ Complete(text, Append(done, Stripped(Head(ps))), Tail(ps), held)
<1>1. PICK p \in Text : ps = <<p>> /\ HasSql(p) /\ Stripped(p) \in Meant
  BY DEF IsPiece
<1>2. Head(ps) = p /\ Tail(ps) = << >> /\ ps # << >>
  BY <1>1
<1>3. Stripped(p) \in Text
  BY StrippedConcat
<1>4. /\ Append(done, Stripped(p)) \in Seq(Text)
      /\ FlattenSeq(done) \in Text
      /\ FlattenSeq(Append(done, Stripped(p))) = FlattenSeq(done) \o Stripped(p)
  BY <1>3, OneMore
<1>5. FlattenSeq(ps) = p
  BY <1>1, OneMore, Empty
<1>6. FlattenSeq(done) \o Stripped(p) \in Text
  BY <1>3, <1>4, Associative
<1>7. (FlattenSeq(done) \o Stripped(p)) \o << >> = FlattenSeq(done) \o Stripped(p)
  BY <1>6, Associative
<1>8. Complete(text, Append(done, Stripped(p)), << >>, held)
  BY <1>4, <1>5, <1>7, Empty DEF Complete
<1> QED
  BY <1>1, <1>2, <1>3, <1>4, <1>8

(* An exception: pieces are lost only when the buffer holds no more.       *)
LEMMA RaiseStep ==
  ASSUME NEW cs, NEW ps, NEW held \in Text, InStep(cs, held, ps),
         NEW text \in Text, NEW done \in Seq(Text), Complete(text, done, ps, held)
  PROVE  /\ Begun(text, done, held)
         /\ ps # << >> => Stripped(held) = << >>
<1> DEFINE F == FlattenSeq(done)
           H == Stripped(held)
<1>1. F \in Text /\ H \in Text
  BY OneMore, Empty, StrippedConcat
<1> HIDE DEF F, H
<1>2. F \o H \in Text /\ F \o << >> = F /\ (F \o H) \o << >> = F \o H
  BY <1>1, Associative
<1>3. CASE ps = << >>
  <2>1. Stripped(text) = (F \o << >>) \o H
    BY <1>3, Empty DEF Complete, F, H
  <2>2. Stripped(text) = (F \o H) \o << >>
    BY <1>2, <2>1
  <2> QED
    BY <1>3, <2>2, Empty DEF Begun, F, H
<1>4. CASE ps # << >>
  <2>1. Blank(held) /\ IsPiece(ps)
    BY <1>4 DEF InStep, Done
  <2>2. H = << >>
    BY <2>1, StrippedBlank DEF H
  <2>3. PICK p \in Text : ps = <<p>>
    BY <2>1 DEF IsPiece
  <2>4. FlattenSeq(ps) = p /\ Stripped(p) \in Text
    BY <2>3, OneMore, Empty, StrippedConcat
  <2>5. Stripped(text) = (F \o Stripped(p)) \o H
    BY <2>4 DEF Complete, F, H
  <2>6. F \o Stripped(p) \in Text
    BY <1>1, <2>4, Associative
  <2>7. (F \o Stripped(p)) \o << >> = F \o Stripped(p)
    BY <2>6, Associative
  <2>8. Stripped(text) = (F \o H) \o Stripped(p)
    BY <1>2, <2>2, <2>5, <2>7
  <2> QED
    BY <2>2, <2>4, <2>8 DEF Begun, F, H
<1> QED
  BY <1>3, <1>4

(* The end of the with block, with nothing to flush.                       *)
LEMMA EndStep ==
  ASSUME NEW held \in Text, InStep(<< >>, held, << >>),
         NEW text \in Text, NEW done \in Seq(Text), Complete(text, done, << >>, held)
  PROVE  Stripped(held) = << >> /\ Complete(text, done, << >>, << >>)
<1>1. Blank(held)
  BY OpenNeedsMore, Empty DEF InStep, Done
<1>2. Stripped(held) = << >>
  BY <1>1, StrippedBlank
<1> QED
  BY <1>2, Empty DEF Complete

(* The flush of __exit__ on an exception, done or failed.                  *)
LEMMA FlushStep ==
  ASSUME NEW held \in Text, NEW text \in Text, NEW done \in Seq(Text), Begun(text, done, held)
  PROVE  /\ Stripped(held) \in Text
         /\ Append(done, Stripped(held)) \in Seq(Text)
         /\ Begun(text, Append(done, Stripped(held)), << >>)
         /\ Begun(text, done, << >>)
<1> DEFINE F == FlattenSeq(done)
           H == Stripped(held)
<1>1. F \in Text /\ H \in Text
  BY OneMore, Empty, StrippedConcat
<1>2. Append(done, H) \in Seq(Text) /\ FlattenSeq(Append(done, H)) = F \o H
  BY <1>1, OneMore
<1>3. PICK lost \in Text : Stripped(text) = (F \o H) \o lost
  BY DEF Begun
<1> HIDE DEF F, H
<1>4. F \o H \in Text /\ F \o << >> = F
  BY <1>1, Associative
<1>5. (F \o H) \o << >> = F \o H /\ (F \o H) \o lost = F \o (H \o lost) /\ H \o lost \in Text
  <2>1. (F \o H) \o lost = F \o (H \o lost)
    <3>1. F \in Seq(Token) /\ H \in Seq(Token) /\ lost \in Seq(Token)
      BY <1>1 DEF Text
    <3> QED
      BY <3>1, ConcatAssociative
  <2>2. H \o lost \in Text
    BY <1>1, Associative
  <2>3. (F \o H) \o << >> = F \o H
    BY <1>4, Associative
  <2> QED
    BY <2>1, <2>2, <2>3
<1>6. Begun(text, Append(done, H), << >>)
  BY <1>2, <1>3, <1>5, Empty DEF Begun
<1>7. Begun(text, done, << >>)
  BY <1>3, <1>4, <1>5, Empty DEF Begun, F
<1> QED
  BY <1>1, <1>2, <1>6, <1>7 DEF H

-----------------------------------------------------------------------------
LEMMA InitIInv == Init => IInv
<1> SUFFICES ASSUME Init PROVE IInv
  OBVIOUS
<1>1. Types
  BY Empty DEF Init, Types
<1>2. Writing
  BY Empty DEF Init, Writing, InStep, Done
<1>3. Accounts
  <2>1. << >> \o << >> = << >>
    OBVIOUS
  <2> QED
    BY <2>1, Empty DEF Init, Accounts, Complete
<1>4. Errors /\ ExecutesWholeStatements
  BY DEF Init, Errors, ExecutesWholeStatements
<1> QED
  BY <1>1, <1>2, <1>3, <1>4 DEF IInv

(* A statement or the flush was added to what has been executed.           *)
LEMMA ExecutedMore ==
  ASSUME NEW done \in Seq(Text), NEW t \in Text, t \in Meant,
         \A i \in 1..Len(done) : done[i] \in Meant
  PROVE  \A i \in 1..Len(Append(done, t)) : Append(done, t)[i] \in Meant
<1>1. Len(done) \in Nat
  BY LenProperties
<1>2. /\ Len(Append(done, t)) = Len(done) + 1
      /\ \A i \in 1..Len(done) : Append(done, t)[i] = done[i]
      /\ Append(done, t)[Len(done) + 1] = t
  BY AppendProperties
<1> SUFFICES ASSUME NEW i \in 1..(Len(done) + 1) PROVE Append(done, t)[i] \in Meant
  BY <1>2
<1>3. CASE i = Len(done) + 1
  BY <1>2, <1>3
<1>4. CASE i # Len(done) + 1
  BY <1>1, <1>2, <1>4
<1> QED
  BY <1>3, <1>4

(* Every step preserves the invariant.                                     *)
LEMMA NextIInv ==
  ASSUME NoLiteralSemicolons, IInv, [Next]_vars
  PROVE  IInv'
<1> USE DEF IInv
<1>0. Meant' = Meant
  BY DEF Meant
<1>1. CASE Begin
  <2>1. ~raised /\ stage = "body" /\ chunks = << >> /\ pieces = << >> /\ chunks' \in Statements
    BY <1>1 DEF Begin
  <2>2. UNCHANGED <<stage, raised, buffer, pieces, executed, failed, accepted>>
    BY <1>1 DEF Begin
  <2>3. InStep(<< >>, buffer, << >>) /\ buffer \in Text
    BY <2>1 DEF Writing, Types
  <2>4. chunks' \in Seq(Text) /\ InStep(chunks', buffer, << >>)
    BY <2>1, <2>3, BeginStep
  <2>5. Types'
    BY <2>2, <2>4 DEF Types
  <2>6. Writing'
    BY <2>1, <2>2, <2>4 DEF Writing
  <2>7. Accounts' /\ Errors' /\ ExecutesWholeStatements'
    BY <1>0, <2>2 DEF Accounts, Errors, ExecutesWholeStatements
  <2> QED
    BY <2>5, <2>6, <2>7
<1>2. CASE Write
  <2> DEFINE j == buffer \o Head(chunks)
  <2>1. ~raised /\ stage = "body" /\ chunks # << >> /\ pieces = << >>
    BY <1>2 DEF Write
  <2>2. /\ pieces' = Pieces(j) /\ buffer' = Remainder(j)
        /\ accepted' = accepted \o Head(chunks) /\ chunks' = Tail(chunks)
    BY <1>2 DEF Write
  <2>3. UNCHANGED <<stage, raised, executed, failed>>
    BY <1>2 DEF Write
  <2>4. /\ InStep(chunks, buffer, << >>) /\ Complete(accepted, executed, << >>, buffer)
        /\ chunks \in Seq(Text) /\ buffer \in Text /\ accepted \in Text /\ executed \in Seq(Text)
    BY <2>1 DEF Writing, Accounts, Types
  <2>5. /\ Tail(chunks) \in Seq(Text) /\ accepted \o Head(chunks) \in Text
        /\ Pieces(j) \in Seq(Text) /\ Remainder(j) \in Text
        /\ InStep(Tail(chunks), Remainder(j), Pieces(j))
        /\ Complete(accepted \o Head(chunks), executed, Pieces(j), Remainder(j))
    BY <2>1, <2>4, WriteStep
  <2> HIDE DEF j
  <2>6. Types'
    BY <2>2, <2>3, <2>5 DEF Types
  <2>7. Writing'
    BY <2>2, <2>5 DEF Writing
  <2>8. Accounts'
    BY <2>1, <2>2, <2>3, <2>5 DEF Accounts
  <2>9. Errors' /\ ExecutesWholeStatements'
    BY <1>0, <2>1, <2>3 DEF Errors, ExecutesWholeStatements
  <2> QED
    BY <2>6, <2>7, <2>8, <2>9
<1>3. CASE ExecutePiece
  <2>1. ~raised /\ stage = "body" /\ pieces # << >>
    BY <1>3 DEF ExecutePiece
  <2>2. UNCHANGED <<stage, raised, chunks, buffer, failed, accepted>> /\ pieces' = Tail(pieces)
    BY <1>3 DEF ExecutePiece
  <2>3. /\ Done(buffer, FlattenSeq(chunks)) /\ IsPiece(pieces)
        /\ Complete(accepted, executed, pieces, buffer)
        /\ buffer \in Text /\ accepted \in Text /\ executed \in Seq(Text)
    BY <2>1 DEF Writing, Accounts, Types, InStep
  <2> DEFINE t == Stripped(Head(pieces))
  <2>4. /\ HasSql(Head(pieces)) /\ Tail(pieces) = << >> /\ t \in Meant /\ t \in Text
        /\ Append(executed, t) \in Seq(Text)
        /\ Complete(accepted, Append(executed, t), Tail(pieces), buffer)
    BY <2>3, ExecuteStep
  <2>5. executed' = Append(executed, t)
    BY <1>3, <2>4 DEF ExecutePiece
  <2> HIDE DEF t
  <2>6. Types'
    BY <2>2, <2>4, <2>5, Empty DEF Types
  <2>7. Writing'
    BY <2>2, <2>3, <2>4 DEF Writing, InStep
  <2>8. Accounts'
    BY <2>1, <2>2, <2>4, <2>5 DEF Accounts
  <2>9. Errors'
    BY <2>1, <2>2 DEF Errors
  <2>10. ExecutesWholeStatements'
    <3>1. \A i \in 1..Len(executed) : executed[i] \in Meant
      BY <2>1 DEF ExecutesWholeStatements
    <3>2. \A i \in 1..Len(Append(executed, t)) : Append(executed, t)[i] \in Meant
      BY <2>3, <2>4, <3>1, ExecutedMore
    <3> QED
      BY <1>0, <2>5, <3>2 DEF ExecutesWholeStatements
  <2> QED
    BY <2>6, <2>7, <2>8, <2>9, <2>10
<1>4. CASE ExecutePieceFails \/ Raise
  <2>1. ~raised /\ stage = "body"
    BY <1>4 DEF ExecutePieceFails, Raise
  <2>2. /\ UNCHANGED <<stage, chunks, buffer, executed, accepted>>
        /\ pieces' = << >> /\ raised' = TRUE
    BY <1>4 DEF ExecutePieceFails, Raise
  <2>3. failed' = failed \/ (failed' = TRUE /\ pieces # << >>)
    BY <1>4 DEF ExecutePieceFails, Raise
  <2>4. /\ InStep(chunks, buffer, pieces) /\ Complete(accepted, executed, pieces, buffer)
        /\ buffer \in Text /\ accepted \in Text /\ executed \in Seq(Text)
    BY <2>1 DEF Writing, Accounts, Types
  <2>5. Begun(accepted, executed, buffer) /\ (pieces # << >> => Stripped(buffer) = << >>)
    BY <2>4, RaiseStep
  <2>6. ~failed
    BY <2>1 DEF Errors
  <2>7. Types'
    BY <2>2, <2>3, Empty DEF Types
  <2>8. Writing' /\ Accounts'
    BY <2>2, <2>5 DEF Writing, Accounts
  <2>9. Errors'
    BY <2>1, <2>2, <2>3, <2>5, <2>6 DEF Errors
  <2>10. ExecutesWholeStatements'
    BY <1>0, <2>1, <2>2 DEF ExecutesWholeStatements
  <2> QED
    BY <2>7, <2>8, <2>9, <2>10
<1>5. CASE InterruptWrite
  <2>1. ~raised /\ stage = "body" /\ chunks # << >> /\ pieces = << >>
    BY <1>5 DEF InterruptWrite
  <2>2. /\ raised' = TRUE /\ buffer' = buffer \o Head(chunks)
        /\ accepted' = accepted \o Head(chunks)
        /\ UNCHANGED <<stage, chunks, pieces, executed, failed>>
    BY <1>5 DEF InterruptWrite
  <2>3. /\ InStep(chunks, buffer, << >>) /\ Complete(accepted, executed, << >>, buffer)
        /\ chunks \in Seq(Text) /\ buffer \in Text /\ accepted \in Text /\ executed \in Seq(Text)
    BY <2>1 DEF Writing, Accounts, Types
  <2>4. /\ accepted \o Head(chunks) \in Text /\ buffer \o Head(chunks) \in Text
        /\ Begun(accepted \o Head(chunks), executed, buffer \o Head(chunks))
    BY <2>1, <2>3, WriteStep
  <2>5. ~failed
    BY <2>1 DEF Errors
  <2>6. Types'
    BY <2>2, <2>4 DEF Types
  <2>7. Writing' /\ Accounts'
    BY <2>1, <2>2, <2>4 DEF Writing, Accounts
  <2>8. Errors'
    BY <2>1, <2>2, <2>5 DEF Errors
  <2>9. ExecutesWholeStatements'
    BY <1>0, <2>1, <2>2 DEF ExecutesWholeStatements
  <2> QED
    BY <2>6, <2>7, <2>8, <2>9
<1>6. CASE Exit
  <2>1. stage = "body" /\ (raised \/ (chunks = << >> /\ pieces = << >>))
    BY <1>6 DEF Exit, Leaving
  <2>2. stage' = "closed" /\ buffer' = << >> /\ UNCHANGED <<chunks, pieces, accepted>>
    BY <1>6 DEF Exit
  <2>3. buffer \in Text /\ accepted \in Text /\ executed \in Seq(Text)
    BY DEF Types
  <2>4. CASE ~raised
    <3>1. InStep(<< >>, buffer, << >>) /\ Complete(accepted, executed, << >>, buffer)
      BY <2>1, <2>4 DEF Writing, Accounts
    <3>2. Stripped(buffer) = << >> /\ Complete(accepted, executed, << >>, << >>)
      BY <2>3, <3>1, EndStep
    <3>3. UNCHANGED <<executed, raised, failed>>
      BY <1>6, <3>2 DEF Exit
    <3>4. Types'
      BY <2>2, <3>3, Empty DEF Types
    <3>5. Writing'
      BY <2>2 DEF Writing
    <3>6. Accounts'
      BY <2>1, <2>2, <2>4, <3>2, <3>3 DEF Accounts
    <3>7. Errors'
      BY <2>1, <2>2, <2>4, <3>3, Empty DEF Errors
    <3>8. ExecutesWholeStatements'
      BY <1>0, <2>1, <2>2, <3>3 DEF ExecutesWholeStatements
    <3> QED
      BY <3>4, <3>5, <3>6, <3>7, <3>8
  <2>5. CASE raised
    <3>1. pieces = << >> /\ Begun(accepted, executed, buffer)
      BY <2>5 DEF Accounts
    <3>2. /\ Append(executed, Stripped(buffer)) \in Seq(Text)
          /\ Begun(accepted, Append(executed, Stripped(buffer)), << >>)
          /\ Begun(accepted, executed, << >>)
      BY <2>3, <3>1, FlushStep
    <3>3. raised' = TRUE /\ failed' \in BOOLEAN
      BY <1>6, <2>5 DEF Exit, Types
    <3>4. executed' = executed \/ executed' = Append(executed, Stripped(buffer))
      BY <1>6 DEF Exit
    <3>5. executed' \in Seq(Text) /\ Begun(accepted, executed', << >>)
      BY <2>3, <3>2, <3>4
    <3>6. Types'
      BY <2>2, <3>3, <3>5, Empty DEF Types
    <3>7. Writing' /\ ExecutesWholeStatements'
      BY <2>2, <3>3 DEF Writing, ExecutesWholeStatements
    <3>8. Accounts'
      BY <2>2, <3>1, <3>3, <3>5 DEF Accounts
    <3>9. Errors'
      BY <2>2, <3>1, <3>3, Empty DEF Errors
    <3> QED
      BY <3>6, <3>7, <3>8, <3>9
  <2> QED
    BY <2>4, <2>5
<1>7. CASE UNCHANGED vars
  BY <1>0, <1>7 DEF vars, Types, Writing, Accounts, Errors, ExecutesWholeStatements
<1> QED
  BY <1>1, <1>2, <1>3, <1>4, <1>5, <1>6, <1>7 DEF Next, Finished

LEMMA Invariance == NoLiteralSemicolons => (Spec => []IInv)
<1> SUFFICES ASSUME NoLiteralSemicolons PROVE Spec => []IInv
  OBVIOUS
<1>1. Init => IInv
  BY InitIInv
<1>2. IInv /\ [Next]_vars => IInv'
  BY NextIInv
<1> QED
  BY <1>1, <1>2, PTL DEF Spec

(* Where no statement has a semicolon but the one that ends it, the writer *)
(* executes each statement whole and none other, whatever chunks it comes  *)
(* in, unless it is the flush of an exception that executes.               *)
THEOREM WholeStatements ==
  ASSUME NoLiteralSemicolons PROVE Spec => []ExecutesWholeStatements
<1>1. IInv => ExecutesWholeStatements
  BY DEF IInv
<1> QED
  BY <1>1, Invariance, PTL

(* Where no statement has a semicolon but the one that ends it: after one  *)
(* has failed on the server nothing more is executed, since the buffer     *)
(* that __exit__ flushes holds nothing but white space.                    *)
THEOREM ErrorsAreLast ==
  ASSUME NoLiteralSemicolons PROVE Spec => NothingFollowsAnError
<1>1. ASSUME IInv, [Next]_vars
      PROVE  [failed => executed' = executed]_vars
  <2> SUFFICES ASSUME failed, Next PROVE executed' = executed
    BY <1>1 DEF vars
  <2>1. raised /\ Stripped(buffer) = << >>
    BY <1>1 DEF IInv, Errors
  <2> QED
    BY <2>1 DEF Next, Begin, Write, ExecutePiece, ExecutePieceFails, Raise, InterruptWrite, Exit,
                Finished, vars
<1> QED
  BY <1>1, Invariance, PTL DEF Spec, NothingFollowsAnError

-----------------------------------------------------------------------------
(* What is appended leaves a prefix.                                       *)
LEMMA PrefixOfConcat ==
  ASSUME NEW s \in Text, NEW t \in Text
  PROVE  IsPrefix(s, s \o t)
<1> DEFINE u == s \o t
<1>1. /\ Len(s) \in Nat /\ Len(t) \in Nat /\ Len(u) = Len(s) + Len(t)
      /\ \A i \in 1..Len(s) : u[i] = s[i]
  BY ConcatFacts
<1>2. s \in Seq(Token) /\ u \in Seq(Token)
  BY Associative DEF Text
<1> HIDE DEF u
<1>3. Len(s) <= Len(u)
  BY <1>1
<1>4. SubSeq(s, 1, Len(s)) = SubSeq(u, 1, Len(s))
  BY <1>1, <1>2, <1>3
<1>5. IsPrefix(s, u)
  BY <1>3, <1>4 DEF IsPrefix
<1> QED
  BY <1>5 DEF u

LEMMA PrefixOfItself ==
  ASSUME NEW s \in Text
  PROVE  IsPrefix(s, s)
<1>1. IsPrefix(s, s \o << >>)
  BY PrefixOfConcat, Empty
<1>2. s \o << >> = s
  BY Associative
<1> QED
  BY <1>1, <1>2

(* What has been executed is a prefix of what was written, whatever became *)
(* of the rest, and all of it when nothing is left.                        *)
LEMMA ExecutedIsPrefix ==
  ASSUME NEW text \in Text, NEW done \in Seq(Text), NEW t \in Text, NEW rest \in Text,
         Stripped(text) = (FlattenSeq(done) \o t) \o rest
  PROVE  IsPrefix(FlattenSeq(done), Stripped(text))
<1> DEFINE F == FlattenSeq(done)
<1>1. F \in Text
  BY OneMore
<1> HIDE DEF F
<1>2. (F \o t) \o rest = F \o (t \o rest) /\ t \o rest \in Text
  <2>1. F \in Seq(Token) /\ t \in Seq(Token) /\ rest \in Seq(Token)
    BY <1>1 DEF Text
  <2>2. (F \o t) \o rest = F \o (t \o rest)
    BY <2>1, ConcatAssociative
  <2>3. t \o rest \in Text
    BY Associative
  <2> QED
    BY <2>2, <2>3
<1>3. Stripped(text) = F \o (t \o rest)
  BY <1>2 DEF F
<1> QED
  BY <1>1, <1>2, <1>3, PrefixOfConcat DEF F

LEMMA AccountsPrefix ==
  ASSUME Types, Accounts
  PROVE  IsPrefix(FlattenSeq(executed), Stripped(accepted))
<1>1. accepted \in Text /\ executed \in Seq(Text) /\ buffer \in Text /\ pieces \in Seq(Text)
  BY DEF Types
<1>2. Stripped(buffer) \in Text
  BY <1>1, StrippedConcat
<1>3. CASE raised
  <2>1. PICK lost \in Text :
          Stripped(accepted) = (FlattenSeq(executed) \o Stripped(buffer)) \o lost
    BY <1>3 DEF Accounts, Begun
  <2> QED
    BY <1>1, <1>2, <2>1, ExecutedIsPrefix
<1>4. CASE ~raised
  <2>1. Stripped(accepted) =
          (FlattenSeq(executed) \o Stripped(FlattenSeq(pieces))) \o Stripped(buffer)
    BY <1>4 DEF Accounts, Complete
  <2>2. FlattenSeq(pieces) \in Text
    BY <1>1, OneMore, Empty
  <2>3. Stripped(FlattenSeq(pieces)) \in Text
    BY <2>2, StrippedConcat
  <2> QED
    BY <1>1, <1>2, <2>1, <2>3, ExecutedIsPrefix
<1> QED
  BY <1>3, <1>4

LEMMA AllExecuted ==
  ASSUME Types, Accounts, Errors, stage = "closed", ~raised
  PROVE  FlattenSeq(executed) = Stripped(accepted)
<1>1. executed \in Seq(Text) /\ pieces = << >> /\ buffer = << >>
  BY DEF Types, Errors
<1>2. Stripped(accepted) = (FlattenSeq(executed) \o << >>) \o << >>
  BY <1>1, Empty DEF Accounts, Complete
<1>3. FlattenSeq(executed) \in Text
  BY <1>1, OneMore, Empty
<1>4. FlattenSeq(executed) \o << >> = FlattenSeq(executed)
  BY <1>3, Associative
<1> QED
  BY <1>2, <1>4

DeliversAPrefix ==
  /\ IsPrefix(FlattenSeq(executed), Stripped(accepted))
  /\ (stage = "closed" /\ ~raised) => FlattenSeq(executed) = Stripped(accepted)

(* Nothing that was accepted or executed is taken back.                    *)
LEMMA AcceptedGrows ==
  ASSUME Types, [Next]_vars
  PROVE  IsPrefix(Stripped(accepted), Stripped(accepted'))
<1>1. accepted \in Text /\ chunks \in Seq(Text)
  BY DEF Types
<1>2. CASE accepted' = accepted
  <2>1. Stripped(accepted) \in Text
    BY <1>1, StrippedConcat
  <2> QED
    BY <1>2, <2>1, PrefixOfItself
<1>3. CASE chunks # << >> /\ accepted' = accepted \o Head(chunks)
  <2>1. Head(chunks) \in Text
    BY <1>1, <1>3, NextChunk
  <2>2. /\ Stripped(accepted \o Head(chunks)) = Stripped(accepted) \o Stripped(Head(chunks))
        /\ Stripped(accepted) \in Text /\ Stripped(Head(chunks)) \in Text
    BY <1>1, <2>1, StrippedConcat
  <2> QED
    BY <1>3, <2>2, PrefixOfConcat
<1>4. accepted' = accepted \/ (chunks # << >> /\ accepted' = accepted \o Head(chunks))
  BY DEF Next, Begin, Write, ExecutePiece, ExecutePieceFails, Raise, InterruptWrite, Exit,
         Finished, vars
<1> QED
  BY <1>2, <1>3, <1>4

LEMMA ExecutedGrows ==
  ASSUME Types, [Next]_vars
  PROVE  IsPrefix(FlattenSeq(executed), FlattenSeq(executed'))
<1>1. executed \in Seq(Text) /\ buffer \in Text /\ pieces \in Seq(Text)
  BY DEF Types
<1>2. FlattenSeq(executed) \in Text
  BY <1>1, OneMore, Empty
<1>3. CASE executed' = executed
  BY <1>2, <1>3, PrefixOfItself
<1>4. ASSUME NEW t \in Text, executed' = Append(executed, Stripped(t))
      PROVE  IsPrefix(FlattenSeq(executed), FlattenSeq(executed'))
  <2>1. Stripped(t) \in Text
    BY StrippedConcat
  <2>2. FlattenSeq(Append(executed, Stripped(t))) = FlattenSeq(executed) \o Stripped(t)
    BY <1>1, <2>1, OneMore
  <2> QED
    BY <1>2, <1>4, <2>1, <2>2, PrefixOfConcat
<1>5. \/ executed' = executed
      \/ pieces # << >> /\ executed' = Append(executed, Stripped(Head(pieces)))
      \/ executed' = Append(executed, Stripped(buffer))
  BY DEF Next, Begin, Write, ExecutePiece, ExecutePieceFails, Raise, InterruptWrite, Exit,
         Finished, vars
<1>6. pieces # << >> => Head(pieces) \in Text
  BY <1>1, NextChunk
<1> QED
  BY <1>1, <1>3, <1>4, <1>5, <1>6

(* Where no statement has a semicolon but the one that ends it, the sink   *)
(* of migrate implements the OutputSink port: what the writer has executed *)
(* is at any time a prefix of what was written, and all of it after an     *)
(* __exit__ without an exception.                                          *)
THEOREM Implementation ==
  ASSUME NoLiteralSemicolons PROVE Spec => ImplementsOutputSink
<1>1. Init => Sink!Init
  BY Empty DEF Init, Sink!Init
<1>2. ASSUME IInv, DeliversAPrefix', [Next]_vars
      PROVE  [Sink!Step]_Sink!vars
  <2>1. /\ IsPrefix(Stripped(accepted), Stripped(accepted'))
        /\ IsPrefix(FlattenSeq(executed), FlattenSeq(executed'))
    BY <1>2, AcceptedGrows, ExecutedGrows DEF IInv
  <2>2. /\ IsPrefix(FlattenSeq(executed'), Stripped(accepted'))
        /\ (stage' = "closed" /\ ~raised') => FlattenSeq(executed') = Stripped(accepted')
    BY <1>2 DEF DeliversAPrefix
  <2>3. CASE stage = "closed" /\ ~raised
    <3>1. UNCHANGED vars
      BY <1>2, <2>3 DEF Next, Begin, Write, ExecutePiece, ExecutePieceFails, Raise,
         InterruptWrite, Exit, Leaving, Finished
    <3>2. UNCHANGED <<accepted, executed, stage, raised>>
      BY <3>1 DEF vars
    <3>3. Stripped(accepted)' = Stripped(accepted) /\ FlattenSeq(executed)' = FlattenSeq(executed)
      BY <3>2
    <3> QED
      BY <3>2, <3>3 DEF Sink!vars
  <2>4. CASE ~(stage = "closed" /\ ~raised)
    BY <2>1, <2>2, <2>4 DEF Sink!Step, Sink!IsPrefix, IsPrefix
  <2> QED
    BY <2>3, <2>4
<1>3. IInv => DeliversAPrefix
  BY AccountsPrefix, AllExecuted DEF IInv, DeliversAPrefix
<1> QED
  BY <1>1, <1>2, <1>3, Invariance, PTL DEF Spec, Sink!Spec, ImplementsOutputSink
=============================================================================
