---------------------------- MODULE CommentProofs ----------------------------
(***************************************************************************)
(* Proofs about preprocess: the tokens of what it puts together are those   *)
(* of the text with its comments for blanks (Lexer's ScansTheSource).       *)
(*                                                                         *)
(* Comments reads the text from its right end, a character at a time and    *)
(* in four modes; preprocess goes from the left, a line at a time, and      *)
(* searches it for marks.  What meets in the middle is HalfRead: the tokens *)
(* of what is together so far, and of what is read from the next line on.   *)
(* It holds of a text in which nothing is Odd, that is, of every text that  *)
(* is a sequence of tokens.                                                 *)
(***************************************************************************)
EXTENDS SeparationProofs

-----------------------------------------------------------------------------
(* Reading the text from left to right, a character at a time.              *)

Marks == {Opening, Closing, Slashes}
\* What Comments reads at k, from what it reads one and two characters further on.
ReadStep(t, k, m, one, two) ==
  IF k > Len(t) THEN <<>>
  ELSE IF t[k] = NewLine THEN IF m = "block" THEN one[m] ELSE <<" ">> \o one["code"]
  ELSE IF m \in {"code", "after"} /\ TwoAt(t, k) = Opening
    THEN <<IF m = "after" \/ Glued(t, k) THEN Odd ELSE " ">> \o two["block"]
  ELSE IF m \in {"code", "after"} /\ TwoAt(t, k) = Slashes THEN two["line"]
  ELSE IF m \in {"code", "after"} THEN <<t[k]>> \o one[m]
  ELSE IF m = "block" /\ TwoAt(t, k) = Closing THEN two["after"]
  ELSE one[m]
Row(r, t, k) == [m \in Modes |-> ReadStep(t, k, m, r[k + 1], r[k + 2])]
IsReader(r, t) == r = [k \in 1 .. (Len(t) + 1) |-> Row(r, t, k)]
Reader(t) == CHOOSE r : IsReader(r, t)

\* The function in the definition of Comments.
LEMMA CommentsAreRead ==
  ASSUME NEW t
  PROVE  Comments(t) = Reader(t)[1]["code"]
BY Zenon DEF Comments, Reader, IsReader, Row, ReadStep

\* A mark is two characters of the text; none of them ends a line or is a blank.
LEMMA MarkChars ==
  ASSUME NEW t, NEW k, TwoAt(t, k) \in Marks
  PROVE  /\ k \in 1 .. (Len(t) - 1) /\ TwoAt(t, k) = <<t[k], t[k + 1]>>
         /\ t[k] \notin {Space, NewLine} /\ t[k + 1] \notin {Space, NewLine}
<1>1. \A a, b : Len(<<a, b>>) = 2 /\ <<a, b>>[1] = a /\ <<a, b>>[2] = b
  OBVIOUS
<1>2. "/" \notin {Space, NewLine} /\ "*" \notin {Space, NewLine}
  BY Zenon DEF Space, NewLine
<1>3. /\ Opening[1] \in {"/", "*"} /\ Opening[2] \in {"/", "*"} /\ Len(Opening) = 2
      /\ Closing[1] \in {"/", "*"} /\ Closing[2] \in {"/", "*"} /\ Len(Closing) = 2
      /\ Slashes[1] \in {"/", "*"} /\ Slashes[2] \in {"/", "*"} /\ Len(Slashes) = 2
  BY <1>1, Zenon DEF Opening, Closing, Slashes
<1>4. Len(<<>>) = 0
  OBVIOUS
<1>5. k \in 1 .. (Len(t) - 1)
  <2> SUFFICES ASSUME k \notin 1 .. (Len(t) - 1) PROVE FALSE
    OBVIOUS
  <2>1. Len(TwoAt(t, k)) = 0
    BY <1>4 DEF TwoAt
  <2> QED BY <1>3, <2>1 DEF Marks
<1>6. TwoAt(t, k) = <<t[k], t[k + 1]>>
  BY <1>5 DEF TwoAt
<1>7. TwoAt(t, k)[1] = t[k] /\ TwoAt(t, k)[2] = t[k + 1]
  BY <1>6
<1>8. t[k] \in {"/", "*"} /\ t[k + 1] \in {"/", "*"}
  BY <1>3, <1>7, Zenon DEF Marks
<1> QED BY <1>2, <1>5, <1>6, <1>8, Zenon

LEMMA MarksDiffer == Opening # Slashes /\ Opening # Closing /\ Closing # Slashes
<1>1. \A a, b : <<a, b>>[1] = a /\ <<a, b>>[2] = b
  OBVIOUS
<1>2. "/" # "*"
  BY Zenon
<1>3. /\ Opening[1] = "/" /\ Opening[2] = "*" /\ Closing[1] = "*"
      /\ Slashes[1] = "/" /\ Slashes[2] = "/"
  BY <1>1, Zenon DEF Opening, Closing, Slashes
<1> QED BY <1>2, <1>3, Zenon

\* Two characters further on counts only at a mark.
LEMMA StepNear ==
  ASSUME NEW t, NEW k, NEW m, NEW one, NEW two, NEW other, TwoAt(t, k) \notin Marks
  PROVE  ReadStep(t, k, m, one, two) = ReadStep(t, k, m, one, other)
<1>1. TwoAt(t, k) # Opening /\ TwoAt(t, k) # Closing /\ TwoAt(t, k) # Slashes
  BY DEF Marks
<1> QED BY <1>1, Zenon DEF ReadStep

\* There is such a function: it is built from the end of the text.
LEMMA ReaderThere ==
  ASSUME NEW S, NEW t \in Seq(S)
  PROVE  IsReader(Reader(t), t)
<1> DEFINE Downto(f, n) == f = [k \in (Len(t) + 1 - n) .. (Len(t) + 1) |-> Row(f, t, k)]
           Q == {n \in 0 .. Len(t) : ~ \E f : Downto(f, n)}
<1>0. Len(t) \in Nat
  OBVIOUS
<1>1. Q = {}
  <2> SUFFICES ASSUME Q # {} PROVE FALSE
    OBVIOUS
  <2>1. PICK n \in Q : \A k \in Q : n <= k
    <3>1. Q \subseteq Nat
      OBVIOUS
    <3> HIDE DEF Q
    <3> QED BY <3>1, LeastNat
  <2>2. n \in 0 .. Len(t) /\ ~ \E f : Downto(f, n)
    <3> HIDE DEF Downto
    <3> QED OBVIOUS
  <2>3. n = 0 \/ \E g : Downto(g, n - 1)
    <3> HIDE DEF Downto
    <3>1. n # 0 => n - 1 \in 0 .. Len(t) /\ ~(n <= n - 1)
      BY <2>2
    <3> QED BY <2>1, <3>1
  <2> HIDE DEF Q
  <2>4. PICK g : n = 0 \/ Downto(g, n - 1)
    <3> HIDE DEF Downto
    <3> QED BY <2>3
  <2> DEFINE h == Len(t) + 1 - n
             f == [k \in h .. (Len(t) + 1) |-> IF k = h THEN Row(g, t, h) ELSE g[k]]
  <2>5. /\ h \in 1 .. (Len(t) + 1)
        /\ n # 0 => Len(t) + 1 - (n - 1) = h + 1
        /\ n = 0 => h = Len(t) + 1
    BY <1>0, <2>2
  <2>6. \A k \in h .. (Len(t) + 1) : Row(f, t, k) = Row(g, t, k)
    <3> HIDE DEF Downto
    <3> SUFFICES ASSUME NEW k \in h .. (Len(t) + 1) PROVE Row(f, t, k) = Row(g, t, k)
      OBVIOUS
    <3> SUFFICES ASSUME NEW m \in Modes
                 PROVE  ReadStep(t, k, m, f[k + 1], f[k + 2]) =
                          ReadStep(t, k, m, g[k + 1], g[k + 2])
      BY Zenon DEF Row
    <3>1. CASE k > Len(t)
      BY <3>1 DEF ReadStep
    <3>2. CASE ~(k > Len(t))
      <4>1. k + 1 \in h .. (Len(t) + 1) /\ k + 1 # h
        <5> HIDE DEF h, f
        <5> QED BY <1>0, <2>5, <3>2
      <4>2. f[k + 1] = g[k + 1]
        <5> HIDE DEF h
        <5> QED BY <4>1
      <4>3. CASE TwoAt(t, k) \in Marks
        <5>1. k \in 1 .. (Len(t) - 1)
          BY <4>3, MarkChars
        <5>2. k + 2 \in h .. (Len(t) + 1) /\ k + 2 # h
          <6> HIDE DEF h, f
          <6> QED BY <1>0, <2>5, <5>1
        <5>3. f[k + 2] = g[k + 2]
          <6> HIDE DEF h
          <6> QED BY <5>2
        <5> HIDE DEF f
        <5> QED BY <4>2, <5>3, Zenon
      <4>4. CASE TwoAt(t, k) \notin Marks
        <5> HIDE DEF f
        <5> QED BY <4>2, <4>4, StepNear, Zenon
      <4> QED BY <4>3, <4>4
    <3> QED BY <3>1, <3>2
  <2>7. \A k \in h .. (Len(t) + 1) : f[k] = Row(g, t, k)
    <3> SUFFICES ASSUME NEW k \in h .. (Len(t) + 1) PROVE f[k] = Row(g, t, k)
      OBVIOUS
    <3>1. CASE k = h
      <4> HIDE DEF Downto, h
      <4> QED BY <3>1
    <3>2. CASE k # h
      <4>1. f[k] = g[k]
        <5> HIDE DEF Downto, h
        <5> QED BY <3>2
      <4>2. k \in (Len(t) + 1 - (n - 1)) .. (Len(t) + 1) /\ n # 0
        <5> HIDE DEF Downto, h
        <5> QED BY <1>0, <2>5, <3>2
      <4>3. g[k] = Row(g, t, k)
        <5> HIDE DEF h, f
        <5> QED BY <2>4, <4>2
      <4> QED BY <4>1, <4>3
    <3> QED BY <3>1, <3>2
  <2>8. Downto(f, n)
    <3>1. \A k \in h .. (Len(t) + 1) : f[k] = Row(f, t, k)
      <4> HIDE DEF f, h
      <4> QED BY <2>6, <2>7
    <3>2. f = [k \in h .. (Len(t) + 1) |-> f[k]]
      <4> HIDE DEF h, Downto
      <4> QED OBVIOUS
    <3>3. f = [k \in h .. (Len(t) + 1) |-> Row(f, t, k)]
      <4> HIDE DEF f, h
      <4> QED BY <3>1, <3>2
    <3> HIDE DEF f
    <3> QED BY <3>3
  <2> HIDE DEF Downto, f
  <2> QED BY <2>2, <2>8
<1>2. \E f : Downto(f, Len(t))
  <2>1. Len(t) \in 0 .. Len(t)
    BY <1>0
  <2> HIDE DEF Downto
  <2> QED BY <1>1, <2>1
<1>3. Len(t) + 1 - Len(t) = 1
  BY <1>0
<1>4. \E f : IsReader(f, t)
  BY <1>2, <1>3 DEF IsReader
<1> QED BY <1>4 DEF Reader

InCode == {"code", "after"}
LEMMA ReadHere ==
  ASSUME NEW t \in Seq(Symbol), NEW k \in 1 .. Len(t), NEW m \in Modes
  PROVE  Reader(t)[k][m] = ReadStep(t, k, m, Reader(t)[k + 1], Reader(t)[k + 2])
<1>1. IsReader(Reader(t), t)
  BY ReaderThere
<1>2. k \in 1 .. (Len(t) + 1)
  OBVIOUS
<1>3. Reader(t)[k] = Row(Reader(t), t, k)
  BY <1>1, <1>2 DEF IsReader
<1> QED BY <1>3, Zenon DEF Row

LEMMA ReadEnd ==
  ASSUME NEW t \in Seq(Symbol), NEW m \in Modes
  PROVE  Reader(t)[Len(t) + 1][m] = <<>>
<1>1. IsReader(Reader(t), t)
  BY ReaderThere
<1>2. Len(t) + 1 \in 1 .. (Len(t) + 1) /\ Len(t) + 1 > Len(t)
  OBVIOUS
<1>3. Reader(t)[Len(t) + 1] = Row(Reader(t), t, Len(t) + 1)
  BY <1>1, <1>2 DEF IsReader
<1> QED BY <1>2, <1>3, Zenon DEF Row, ReadStep

\* The cases of a step.
LEMMA ReadCases ==
  ASSUME NEW t \in Seq(Symbol), NEW k \in 1 .. Len(t), NEW m \in Modes
  PROVE  /\ t[k] = NewLine /\ m # "block" => Reader(t)[k][m] = <<Space>> \o Reader(t)[k + 1]["code"]
         /\ t[k] = NewLine /\ m = "block" => Reader(t)[k][m] = Reader(t)[k + 1][m]
         /\ m \in InCode /\ TwoAt(t, k) = Opening =>
              Reader(t)[k][m] = <<IF m = "after" \/ Glued(t, k) THEN Odd ELSE Space>>
                                  \o Reader(t)[k + 2]["block"]
         /\ m \in InCode /\ TwoAt(t, k) = Slashes => Reader(t)[k][m] = Reader(t)[k + 2]["line"]
         /\ m \in InCode /\ TwoAt(t, k) \notin {Opening, Slashes} /\ t[k] # NewLine =>
              Reader(t)[k][m] = <<t[k]>> \o Reader(t)[k + 1][m]
         /\ m = "block" /\ TwoAt(t, k) = Closing => Reader(t)[k][m] = Reader(t)[k + 2]["after"]
         /\ m = "block" /\ TwoAt(t, k) # Closing => Reader(t)[k][m] = Reader(t)[k + 1][m]
         /\ m = "line" /\ t[k] # NewLine => Reader(t)[k][m] = Reader(t)[k + 1][m]
<1> DEFINE here == Reader(t)[k][m]  one == Reader(t)[k + 1]  two == Reader(t)[k + 2]
<1>1. here = ReadStep(t, k, m, one, two)
  BY ReadHere
<1>2. ~(k > Len(t))
  OBVIOUS
<1>3. TwoAt(t, k) \in Marks => t[k] # NewLine
  BY MarkChars
<1> HIDE DEF here, one, two
<1>4. "block" \notin InCode /\ "line" \notin InCode /\ "block" # "line"
  BY Zenon DEF InCode
<1>5. Opening \in Marks /\ Closing \in Marks /\ Slashes \in Marks
  BY DEF Marks
<1>6. t[k] = NewLine /\ m # "block" => here = <<Space>> \o one["code"]
  BY <1>1, <1>2, Zenon DEF ReadStep, Space
<1>7. t[k] = NewLine /\ m = "block" => here = one[m]
  BY <1>1, <1>2, Zenon DEF ReadStep
<1>8. m \in InCode /\ TwoAt(t, k) = Opening =>
        here = <<IF m = "after" \/ Glued(t, k) THEN Odd ELSE Space>> \o two["block"]
  BY <1>1, <1>2, <1>3, <1>5, Zenon DEF ReadStep, Space, InCode
<1>9. m \in InCode /\ TwoAt(t, k) = Slashes => here = two["line"]
  BY <1>1, <1>2, <1>3, <1>5, MarksDiffer, Zenon DEF ReadStep, InCode
<1>10. m \in InCode /\ TwoAt(t, k) \notin {Opening, Slashes} /\ t[k] # NewLine =>
         here = <<t[k]>> \o one[m]
  BY <1>1, <1>2, Zenon DEF ReadStep, InCode
<1>11. m = "block" /\ TwoAt(t, k) = Closing => here = two["after"]
  BY <1>1, <1>2, <1>3, <1>4, <1>5, Zenon DEF ReadStep, InCode
<1>12. m = "block" /\ TwoAt(t, k) # Closing => here = one[m]
  BY <1>1, <1>2, <1>4, <1>7, Zenon DEF ReadStep, InCode
<1>13. m = "line" /\ t[k] # NewLine => here = one[m]
  BY <1>1, <1>2, <1>4, Zenon DEF ReadStep, InCode
<1> QED BY <1>6, <1>7, <1>8, <1>9, <1>10, <1>11, <1>12, <1>13, Zenon DEF here, one, two

-----------------------------------------------------------------------------
(* Runs of characters that are read in the same way.                        *)

\* Whatever is read is a text.
LEMMA ReadType ==
  ASSUME NEW t \in Seq(Symbol), NEW k \in 1 .. (Len(t) + 1), NEW m \in Modes
  PROVE  Reader(t)[k][m] \in Seq(Symbol)
<1>0. Len(t) \in Nat
  OBVIOUS
<1> DEFINE Typed(e) == \A i \in Modes : Reader(t)[e][i] \in Seq(Symbol)
           Q == {n \in 0 .. Len(t) : ~ Typed(Len(t) + 1 - n)}
<1>1. ASSUME Q # {} PROVE FALSE
  <2> HIDE DEF Typed
  <2>1. PICK n \in Q : \A j \in Q : n <= j
    <3>1. Q \subseteq Nat
      OBVIOUS
    <3> HIDE DEF Q
    <3> QED BY <1>1, <3>1, LeastNat
  <2> DEFINE e == Len(t) + 1 - n
  <2>2. n \in 0 .. Len(t) /\ e \in 1 .. (Len(t) + 1) /\ ~ Typed(e)
    BY <1>0
  <2>3. ASSUME NEW i \in (e + 1) .. (Len(t) + 1) PROVE Typed(i)
    <3> DEFINE j == Len(t) + 1 - i
    <3>1. j \in 0 .. Len(t) /\ ~(n <= j) /\ Len(t) + 1 - j = i
      BY <1>0, <2>2
    <3> HIDE DEF j
    <3>2. j \notin Q
      <4> HIDE DEF Q
      <4> QED BY <2>1, <3>1
    <3> QED BY <3>1, <3>2
  <2> HIDE DEF Q, e
  <2>4. CASE e = Len(t) + 1
    <3>1. <<>> \in Seq(Symbol)
      OBVIOUS
    <3> QED BY <2>2, <2>4, <3>1, ReadEnd DEF Typed
  <2>5. CASE e # Len(t) + 1
    <3> DEFINE one == Reader(t)[e + 1]  two == Reader(t)[e + 2]
    <3>1. e \in 1 .. Len(t) /\ e + 1 \in (e + 1) .. (Len(t) + 1)
      BY <1>0, <2>2, <2>5
    <3>2. \A i \in Modes : one[i] \in Seq(Symbol)
      BY <2>3, <3>1 DEF Typed
    <3>3. TwoAt(t, e) \in Marks => \A i \in Modes : two[i] \in Seq(Symbol)
      <4> SUFFICES ASSUME TwoAt(t, e) \in Marks PROVE \A i \in Modes : two[i] \in Seq(Symbol)
        OBVIOUS
      <4>1. e \in 1 .. (Len(t) - 1)
        BY MarkChars
      <4>2. e + 2 \in (e + 1) .. (Len(t) + 1)
        BY <1>0, <4>1
      <4> QED BY <2>3, <4>2 DEF Typed
    <3> HIDE DEF one, two
    <3>4. ASSUME NEW m0 \in Modes PROVE Reader(t)[e][m0] \in Seq(Symbol)
      <4> DEFINE here == Reader(t)[e][m0]
      <4>1. "code" \in Modes /\ "after" \in Modes /\ "block" \in Modes /\ "line" \in Modes
        BY Zenon DEF Modes
      <4>2. Opening \in Marks /\ Closing \in Marks /\ Slashes \in Marks
        BY DEF Marks
      <4>3. \E x \in Symbol, y \in Seq(Symbol) : here = y \/ here = <<x>> \o y
        <5>1. Space \in Symbol /\ Odd \in Symbol /\ t[e] \in Symbol
          BY <3>1 DEF Symbol
        <5>2. here = ReadStep(t, e, m0, one, two)
          BY <3>1, ReadHere DEF one, two
        <5>3. <<>> \in Seq(Symbol)
          OBVIOUS
        <5>4. " " = Space
          BY Zenon DEF Space
        <5> HIDE DEF here
        <5> QED BY <3>2, <3>3, <4>1, <4>2, <5>1, <5>2, <5>3, <5>4, Zenon DEF ReadStep
      <4>4. PICK x \in Symbol, y \in Seq(Symbol) : here = y \/ here = <<x>> \o y
        BY <4>3
      <4>5. <<x>> \o y \in Seq(Symbol)
        OBVIOUS
      <4> HIDE DEF here
      <4>6. here \in Seq(Symbol)
        BY <4>4, <4>5
      <4> QED BY <4>6 DEF here
    <3> QED BY <2>2, <3>4 DEF Typed
  <2> QED BY <2>4, <2>5
<1>2. k = Len(t) + 1 - (Len(t) + 1 - k) /\ Len(t) + 1 - k \in 0 .. Len(t)
  BY <1>0
<1>3. Typed(k)
  <2> HIDE DEF Typed
  <2> QED BY <1>1, <1>2
<1> QED BY <1>3

\* Between the positions a and b there is no mark that counts in code, and no end of line.
Plain(t, a, b) == \A j \in a .. (b - 1) : t[j] # NewLine /\ TwoAt(t, j) \notin {Opening, Slashes}
\* Nothing there ends the comment.
Passed(t, a, b, m) ==
  \A j \in a .. (b - 1) : t[j] # NewLine /\ (m = "block" => TwoAt(t, j) # Closing)

\* Concatenation is associative.
LEMMA Regroup ==
  ASSUME NEW x \in Seq(Symbol), NEW y \in Seq(Symbol), NEW z \in Seq(Symbol)
  PROVE  x \o (y \o z) = (x \o y) \o z
BY ConcatAssociative

\* Code without a mark is kept as it is.
LEMMA CodeRun ==
  ASSUME NEW t \in Seq(Symbol), NEW b \in 1 .. (Len(t) + 1), NEW a \in 1 .. b, NEW m \in InCode,
         Plain(t, a, b)
  PROVE  Reader(t)[a][m] = SubSeq(t, a, b - 1) \o Reader(t)[b][m]
<1>0. Len(t) \in Nat /\ a \in Nat /\ b \in Nat /\ a <= b /\ b <= Len(t) + 1 /\ 1 <= a
  OBVIOUS
<1>1. m \in Modes
  BY DEF InCode, Modes
<1>2. Reader(t)[b][m] \in Seq(Symbol)
  BY <1>1, ReadType
<1> DEFINE Run(e) == Reader(t)[e][m] = SubSeq(t, e, b - 1) \o Reader(t)[b][m]
           Q == {n \in 0 .. (b - a) : ~ Run(b - n)}
<1>3. ASSUME Q # {} PROVE FALSE
  <2> HIDE DEF Run
  <2>1. PICK n \in Q : \A j \in Q : n <= j
    <3>1. Q \subseteq Nat
      BY <1>0
    <3> HIDE DEF Q
    <3> QED BY <1>3, <3>1, LeastNat
  <2> DEFINE e == b - n
  <2>2. n \in 0 .. (b - a) /\ e \in a .. b /\ ~ Run(e)
    BY <1>0
  <2>3. ASSUME e + 1 \in a .. b PROVE Run(e + 1)
    <3>1. n - 1 \in 0 .. (b - a) /\ ~(n <= n - 1) /\ b - (n - 1) = e + 1
      BY <1>0, <2>2, <2>3
    <3>2. n - 1 \notin Q
      <4> HIDE DEF Q
      <4> QED BY <2>1, <3>1
    <3> QED BY <3>1, <3>2
  <2> HIDE DEF Q, e
  <2>4. CASE e = b
    <3>1. SubSeq(t, b, b - 1) = <<>>
      BY <1>0
    <3>2. <<>> \o Reader(t)[b][m] = Reader(t)[b][m]
      BY <1>2
    <3> QED BY <2>2, <2>4, <3>1, <3>2 DEF Run
  <2>5. CASE e # b
    <3>1. e \in a .. (b - 1) /\ e + 1 \in a .. b /\ e \in 1 .. Len(t)
      BY <1>0, <2>2, <2>5
    <3>2. Reader(t)[e][m] = <<t[e]>> \o Reader(t)[e + 1][m]
      <4>1. t[e] # NewLine /\ TwoAt(t, e) \notin {Opening, Slashes}
        BY <3>1 DEF Plain
      <4> QED BY <1>1, <3>1, <4>1, ReadCases
    <3>3. Reader(t)[e + 1][m] = SubSeq(t, e + 1, b - 1) \o Reader(t)[b][m]
      BY <2>3, <3>1 DEF Run
    <3> DEFINE x == <<t[e]>>  y == SubSeq(t, e + 1, b - 1)  z == Reader(t)[b][m]
    <3>4. x \in Seq(Symbol) /\ y \in Seq(Symbol) /\ z \in Seq(Symbol)
      BY <1>0, <1>2, <3>1
    <3>5. x \o y = SubSeq(t, e, b - 1)
      BY <1>0, <3>1
    <3> HIDE DEF x, y, z
    <3>6. x \o (y \o z) = (x \o y) \o z
      BY <3>4, Regroup, Zenon
    <3>7. Reader(t)[e][m] = SubSeq(t, e, b - 1) \o z
      BY <3>2, <3>3, <3>5, <3>6, Zenon DEF x, y, z
    <3> QED BY <2>2, <3>7 DEF Run, z
  <2> QED BY <2>4, <2>5
<1>4. a = b - (b - a) /\ b - a \in 0 .. (b - a)
  BY <1>0
<1>5. Run(a)
  <2> HIDE DEF Run
  <2> QED BY <1>3, <1>4
<1> QED BY <1>5

\* Comments are passed over.
LEMMA CommentRun ==
  ASSUME NEW t \in Seq(Symbol), NEW b \in 1 .. (Len(t) + 1), NEW a \in 1 .. b,
         NEW m \in {"block", "line"}, Passed(t, a, b, m)
  PROVE  Reader(t)[a][m] = Reader(t)[b][m]
<1>0. Len(t) \in Nat /\ a \in Nat /\ b \in Nat /\ a <= b /\ b <= Len(t) + 1 /\ 1 <= a
  OBVIOUS
<1>1. m \in Modes
  BY DEF Modes
<1> DEFINE Run(e) == Reader(t)[e][m] = Reader(t)[b][m]
           Q == {n \in 0 .. (b - a) : ~ Run(b - n)}
<1>3. ASSUME Q # {} PROVE FALSE
  <2> HIDE DEF Run
  <2>1. PICK n \in Q : \A j \in Q : n <= j
    <3>1. Q \subseteq Nat
      BY <1>0
    <3> HIDE DEF Q
    <3> QED BY <1>3, <3>1, LeastNat
  <2> DEFINE e == b - n
  <2>2. n \in 0 .. (b - a) /\ e \in a .. b /\ ~ Run(e)
    BY <1>0
  <2>3. ASSUME e + 1 \in a .. b PROVE Run(e + 1)
    <3>1. n - 1 \in 0 .. (b - a) /\ ~(n <= n - 1) /\ b - (n - 1) = e + 1
      BY <1>0, <2>2, <2>3
    <3>2. n - 1 \notin Q
      <4> HIDE DEF Q
      <4> QED BY <2>1, <3>1
    <3> QED BY <3>1, <3>2
  <2> HIDE DEF Q, e
  <2>4. CASE e = b
    BY <2>2, <2>4 DEF Run
  <2>5. CASE e # b
    <3>1. e \in a .. (b - 1) /\ e + 1 \in a .. b /\ e \in 1 .. Len(t)
      BY <1>0, <2>2, <2>5
    <3>2. Reader(t)[e][m] = Reader(t)[e + 1][m]
      <4>1. t[e] # NewLine /\ (m = "block" => TwoAt(t, e) # Closing)
        BY <3>1 DEF Passed
      <4> QED BY <1>1, <3>1, <4>1, ReadCases
    <3> QED BY <2>2, <2>3, <3>1, <3>2 DEF Run
  <2> QED BY <2>4, <2>5
<1>4. a = b - (b - a) /\ b - a \in 0 .. (b - a)
  BY <1>0
<1>5. Run(a)
  <2> HIDE DEF Run
  <2> QED BY <1>3, <1>4
<1> QED BY <1>5

-----------------------------------------------------------------------------
(* What is found in a line, and what is read of it.                         *)

\* From a on the line goes on to the end of line at e.
InLine(t, a, e) ==
  /\ a \in 1 .. e /\ e \in 1 .. Len(t) /\ t[e] = NewLine
  /\ \A j \in a .. (e - 1) : t[j] # NewLine
RestOf(t, a, e) == SubSeq(t, a, e - 1)
NoMark(t, a, b, mark) == \A j \in a .. (b - 1) : TwoAt(t, j) # mark

\* The characters of the rest of a line.
LEMMA RestType ==
  ASSUME NEW t \in Seq(Symbol), NEW a, NEW e, InLine(t, a, e)
  PROVE  /\ Len(t) \in Nat /\ a \in Nat /\ e \in Nat /\ 1 <= a /\ a <= e /\ e <= Len(t)
         /\ RestOf(t, a, e) \in Seq(Symbol) /\ Len(RestOf(t, a, e)) = e - a
         /\ \A j \in 1 .. (e - a) : RestOf(t, a, e)[j] = t[(a - 1) + j]
<1>1. Len(t) \in Nat /\ a \in Nat /\ e \in Nat /\ 1 <= a /\ a <= e /\ e <= Len(t)
  BY DEF InLine
<1>2. /\ RestOf(t, a, e) \in Seq(Symbol) /\ Len(RestOf(t, a, e)) = e - a
      /\ \A j \in 1 .. (e - a) : RestOf(t, a, e)[j] = t[(a - 1) + j]
  BY <1>1 DEF RestOf
<1> QED BY <1>1, <1>2

\* A mark in the line is a mark in the text: none goes over the end of a line.
LEMMA TwoInLine ==
  ASSUME NEW t \in Seq(Symbol), NEW a, NEW e, InLine(t, a, e), NEW mark \in Marks,
         NEW j \in 1 .. (e - a)
  PROVE  /\ TwoAt(RestOf(t, a, e), j) = mark <=> TwoAt(t, (a - 1) + j) = mark
         /\ TwoAt(RestOf(t, a, e), j) = mark => j < e - a
<1> DEFINE l == RestOf(t, a, e)
<1>1. /\ Len(t) \in Nat /\ a \in Nat /\ e \in Nat /\ 1 <= a /\ a <= e /\ e <= Len(t)
      /\ Len(l) = e - a /\ \A i \in 1 .. (e - a) : l[i] = t[(a - 1) + i]
  BY RestType
<1> HIDE DEF l
<1>2. CASE j < e - a
  <2>1. /\ j \in 1 .. (Len(l) - 1) /\ j + 1 \in 1 .. (e - a)
        /\ (a - 1) + j \in 1 .. (Len(t) - 1) /\ (a - 1) + (j + 1) = ((a - 1) + j) + 1
    BY <1>1, <1>2
  <2>2. l[j] = t[(a - 1) + j] /\ l[j + 1] = t[((a - 1) + j) + 1]
    BY <1>1, <2>1
  <2>3. TwoAt(l, j) = TwoAt(t, (a - 1) + j)
    BY <2>1, <2>2 DEF TwoAt
  <2> QED BY <1>2, <2>3 DEF l
<1>3. CASE ~(j < e - a)
  <2>1. j = e - a /\ ((a - 1) + j) + 1 = e /\ j \notin 1 .. (Len(l) - 1)
    BY <1>1, <1>3
  <2>2. TwoAt(l, j) \notin Marks
    BY <2>1, MarkChars
  <2>3. TwoAt(t, (a - 1) + j) \notin Marks
    <3>1. t[e] = NewLine
      BY DEF InLine
    <3> QED BY <2>1, <3>1, MarkChars
  <2> QED BY <2>2, <2>3 DEF l
<1> QED BY <1>2, <1>3

\* What std::string::find returns.
LEMMA FindMeans ==
  ASSUME NEW l, Len(l) \in Nat, NEW mark, NEW k \in Nat \ {0}
  PROVE  /\ FindFrom(l, mark, k) = npos => \A j \in k .. Len(l) : TwoAt(l, j) # mark
         /\ FindFrom(l, mark, k) # npos =>
              /\ FindFrom(l, mark, k) \in k .. Len(l) /\ TwoAt(l, FindFrom(l, mark, k)) = mark
              /\ \A j \in k .. (FindFrom(l, mark, k) - 1) : TwoAt(l, j) # mark
<1> DEFINE at == {j \in k .. Len(l) : TwoAt(l, j) = mark}
<1>1. FindFrom(l, mark, k) = IF at = {} THEN npos ELSE Min(at)
  BY DEF FindFrom
<1>2. CASE at = {}
  BY <1>1, <1>2
<1>3. CASE at # {}
  <2>1. at \subseteq Nat
    OBVIOUS
  <2> HIDE DEF at
  <2>2. PICK n \in at : \A j \in at : n <= j
    BY <1>3, <2>1, LeastNat
  <2>3. Min(at) \in at /\ \A j \in at : Min(at) <= j
    BY <2>2 DEF Min
  <2> DEFINE i == FindFrom(l, mark, k)
  <2>4. i \in at /\ \A j \in at : i <= j
    BY <1>1, <1>3, <2>3
  <2> HIDE DEF i
  <2>5. i \in k .. Len(l) /\ TwoAt(l, i) = mark /\ i # npos
    BY <2>4 DEF at, npos
  <2>6. ASSUME NEW j \in k .. (i - 1), TwoAt(l, j) = mark PROVE FALSE
    <3>1. j \in k .. Len(l) /\ ~(i <= j)
      BY <2>5
    <3>2. j \in at
      BY <2>6, <3>1 DEF at
    <3> QED BY <2>4, <3>1, <3>2
  <2> QED BY <2>5, <2>6 DEF i
<1> QED BY <1>2, <1>3

\* The first place with the mark is the one that is found.
LEMMA FirstIsFound ==
  ASSUME NEW l, Len(l) \in Nat, NEW mark, NEW k \in Nat \ {0}, NEW i \in k .. Len(l),
         TwoAt(l, i) = mark, NoMark(l, k, i, mark)
  PROVE  FindFrom(l, mark, k) = i
<1> DEFINE n == FindFrom(l, mark, k)
<1>1. /\ n = npos => \A j \in k .. Len(l) : TwoAt(l, j) # mark
      /\ n # npos => /\ n \in k .. Len(l) /\ TwoAt(l, n) = mark
                     /\ \A j \in k .. (n - 1) : TwoAt(l, j) # mark
  BY FindMeans
<1> HIDE DEF n
<1>2. n # npos
  BY <1>1
<1>3. n \in k .. Len(l) /\ ~(n < i) /\ ~(i < n)
  <2>1. n \in k .. Len(l) /\ TwoAt(l, n) = mark
    BY <1>1, <1>2
  <2>2. ~(n < i)
    <3> SUFFICES ASSUME n < i PROVE FALSE
      OBVIOUS
    <3>1. n \in k .. (i - 1)
      BY <2>1
    <3> QED BY <2>1, <3>1 DEF NoMark
  <2>3. ~(i < n)
    <3> SUFFICES ASSUME i < n PROVE FALSE
      OBVIOUS
    <3>1. i \in k .. (n - 1)
      BY <2>1
    <3> QED BY <1>1, <1>2, <3>1
  <2> QED BY <2>1, <2>2, <2>3
<1> QED BY <1>3 DEF n

\* Where a mark is found in the line is where it comes first in the text.
LEMMA FoundInLine ==
  ASSUME NEW t \in Seq(Symbol), NEW a, NEW e, InLine(t, a, e), NEW mark \in Marks,
         NEW k \in 1 .. ((e - a) + 1), NEW i, i = FindFrom(RestOf(t, a, e), mark, k)
  PROVE  /\ i = npos => NoMark(t, (a - 1) + k, e, mark)
         /\ i # npos => /\ i \in k .. ((e - a) - 1) /\ TwoAt(t, (a - 1) + i) = mark
                        /\ NoMark(t, (a - 1) + k, (a - 1) + i, mark)
<1> DEFINE l == RestOf(t, a, e)
<1>1. /\ Len(t) \in Nat /\ a \in Nat /\ e \in Nat /\ 1 <= a /\ a <= e /\ e <= Len(t)
      /\ Len(l) = e - a
  BY RestType
<1>2. /\ i = npos => \A j \in k .. Len(l) : TwoAt(l, j) # mark
      /\ i # npos => /\ i \in k .. Len(l) /\ TwoAt(l, i) = mark
                     /\ \A j \in k .. (i - 1) : TwoAt(l, j) # mark
  <2>1. Len(l) \in Nat /\ k \in Nat \ {0}
    BY <1>1
  <2> QED BY <2>1, FindMeans
<1>3. \A j \in 1 .. (e - a) : /\ TwoAt(l, j) = mark <=> TwoAt(t, (a - 1) + j) = mark
                              /\ TwoAt(l, j) = mark => j < e - a
  BY TwoInLine
<1> HIDE DEF l
<1>4. ASSUME i = npos PROVE NoMark(t, (a - 1) + k, e, mark)
  <2> SUFFICES ASSUME NEW j \in ((a - 1) + k) .. (e - 1) PROVE TwoAt(t, j) # mark
    BY DEF NoMark
  <2>1. j - (a - 1) \in k .. Len(l) /\ j - (a - 1) \in 1 .. (e - a) /\ (a - 1) + (j - (a - 1)) = j
    BY <1>1
  <2> QED BY <1>2, <1>3, <1>4, <2>1
<1>5. ASSUME i # npos
      PROVE  /\ i \in k .. ((e - a) - 1) /\ TwoAt(t, (a - 1) + i) = mark
             /\ NoMark(t, (a - 1) + k, (a - 1) + i, mark)
  <2>1. i \in k .. Len(l) /\ i \in 1 .. (e - a)
    BY <1>1, <1>2, <1>5
  <2>2. i < e - a /\ TwoAt(t, (a - 1) + i) = mark
    BY <1>2, <1>3, <1>5, <2>1
  <2>3. i \in k .. ((e - a) - 1)
    BY <1>1, <2>1, <2>2
  <2>4. ASSUME NEW j \in ((a - 1) + k) .. (((a - 1) + i) - 1) PROVE TwoAt(t, j) # mark
    <3>1. j - (a - 1) \in k .. (i - 1) /\ j - (a - 1) \in 1 .. (e - a) /\ (a - 1) + (j - (a - 1)) = j
      BY <1>1, <2>1
    <3> QED BY <1>2, <1>3, <1>5, <3>1
  <2> QED BY <2>2, <2>3, <2>4 DEF NoMark
<1> QED BY <1>4, <1>5

\* Part of the rest of a line, as part of the text.
LEMMA PartOfRest ==
  ASSUME NEW t \in Seq(Symbol), NEW a, NEW e, InLine(t, a, e), NEW k \in 1 .. ((e - a) + 1)
  PROVE  /\ Before(RestOf(t, a, e), k) = SubSeq(t, a, ((a - 1) + k) - 1)
         /\ SubSeq(RestOf(t, a, e), k, e - a) = RestOf(t, (a - 1) + k, e)
         /\ InLine(t, (a - 1) + k, e)
<1> DEFINE l == RestOf(t, a, e)
<1>1. /\ Len(t) \in Nat /\ a \in Nat /\ e \in Nat /\ 1 <= a /\ a <= e /\ e <= Len(t)
      /\ l \in Seq(Symbol) /\ Len(l) = e - a
      /\ \A j \in 1 .. (e - a) : l[j] = t[(a - 1) + j]
  BY RestType
<1>2. InLine(t, (a - 1) + k, e)
  <2>1. (a - 1) + k \in 1 .. e /\ \A j \in ((a - 1) + k) .. (e - 1) : j \in a .. (e - 1)
    BY <1>1
  <2> QED BY <2>1 DEF InLine
<1> HIDE DEF l
<1>3. Before(l, k) = SubSeq(t, a, ((a - 1) + k) - 1)
  <2> DEFINE x == SubSeq(l, 1, k - 1)  y == SubSeq(t, a, ((a - 1) + k) - 1)
  <2>1. x \in Seq(Symbol) /\ Len(x) = k - 1 /\ \A j \in 1 .. (k - 1) : x[j] = l[j]
    BY <1>1
  <2>2. y \in Seq(Symbol) /\ Len(y) = k - 1 /\ \A j \in 1 .. (k - 1) : y[j] = t[(a - 1) + j]
    BY <1>1
  <2>3. \A j \in 1 .. (k - 1) : x[j] = y[j]
    <3> HIDE DEF x, y
    <3>1. \A j \in 1 .. (k - 1) : j \in 1 .. (e - a)
      BY <1>1
    <3> QED BY <1>1, <2>1, <2>2, <3>1
  <2> HIDE DEF x, y
  <2>4. x = y
    BY <2>1, <2>2, <2>3
  <2> QED BY <2>4 DEF Before, x, y
<1>4. SubSeq(l, k, e - a) = RestOf(t, (a - 1) + k, e)
  <2> DEFINE x == SubSeq(l, k, e - a)  y == SubSeq(t, (a - 1) + k, e - 1)  n == ((e - a) - k) + 1
  <2>1. n \in Nat /\ \A j \in 1 .. n : (k + j) - 1 \in 1 .. (e - a)
    BY <1>1
  <2>2. x \in Seq(Symbol) /\ Len(x) = n /\ \A j \in 1 .. n : x[j] = l[(k + j) - 1]
    BY <1>1
  <2>3. y \in Seq(Symbol) /\ Len(y) = n /\ \A j \in 1 .. n : y[j] = t[(a - 1) + ((k + j) - 1)]
    BY <1>1
  <2> HIDE DEF x, y, n
  <2>4. \A j \in 1 .. n : x[j] = y[j]
    BY <1>1, <2>1, <2>2, <2>3
  <2>5. x = y
    BY <2>1, <2>2, <2>3, <2>4
  <2> QED BY <2>5 DEF RestOf, x, y
<1> QED BY <1>2, <1>3, <1>4 DEF l

\* What WithoutSlashes leaves of a line.
LeftOf(l) == IF Find(l, Slashes) = npos THEN l ELSE Before(l, Find(l, Slashes))

\* What is read at the end of a line.
LEMMA EndRead ==
  ASSUME NEW t \in Seq(Symbol), NEW a, NEW e, InLine(t, a, e)
  PROVE  /\ e \in 1 .. Len(t)
         /\ \A m \in Modes : m # "block" => Reader(t)[e][m] = <<Space>> \o Reader(t)[e + 1]["code"]
         /\ Reader(t)[e]["block"] = Reader(t)[e + 1]["block"]
<1>1. e \in 1 .. Len(t) /\ t[e] = NewLine
  BY DEF InLine
<1>2. "block" \in Modes
  BY DEF Modes
<1> QED BY <1>1, <1>2, ReadCases

\* Code in which no block comment begins is kept up to the //.
LEMMA CodeLeft ==
  ASSUME NEW t \in Seq(Symbol), NEW a, NEW e, InLine(t, a, e), NEW m \in InCode,
         ~ OpensBlock(RestOf(t, a, e))
  PROVE  Reader(t)[a][m] = LeftOf(RestOf(t, a, e)) \o (<<Space>> \o Reader(t)[e + 1]["code"])
<1> DEFINE l == RestOf(t, a, e)
<1>1. /\ Len(t) \in Nat /\ a \in Nat /\ e \in Nat /\ 1 <= a /\ a <= e /\ e <= Len(t)
      /\ \A j \in a .. (e - 1) : t[j] # NewLine
  BY RestType DEF InLine
<1>2. PICK s, q : s = Find(l, Opening) /\ q = Find(l, Slashes)
  OBVIOUS
<1>3. Opening \in Marks /\ Slashes \in Marks /\ Opening # Slashes
  BY MarksDiffer DEF Marks
<1>4. 1 \in 1 .. ((e - a) + 1) /\ (a - 1) + 1 = a
  BY <1>1
<1>5. /\ s = npos => NoMark(t, a, e, Opening)
      /\ s # npos => /\ s \in 1 .. ((e - a) - 1) /\ TwoAt(t, (a - 1) + s) = Opening
                     /\ NoMark(t, a, (a - 1) + s, Opening)
  <2>1. s = FindFrom(l, Opening, 1)
    BY <1>2 DEF Find
  <2>2. /\ s = npos => NoMark(t, (a - 1) + 1, e, Opening)
        /\ s # npos => /\ s \in 1 .. ((e - a) - 1) /\ TwoAt(t, (a - 1) + s) = Opening
                       /\ NoMark(t, (a - 1) + 1, (a - 1) + s, Opening)
    BY <1>3, <1>4, <2>1, FoundInLine
  <2> QED BY <1>4, <2>2
<1>6. /\ q = npos => NoMark(t, a, e, Slashes)
      /\ q # npos => /\ q \in 1 .. ((e - a) - 1) /\ TwoAt(t, (a - 1) + q) = Slashes
                     /\ NoMark(t, a, (a - 1) + q, Slashes)
  <2>1. q = FindFrom(l, Slashes, 1)
    BY <1>2 DEF Find
  <2>2. /\ q = npos => NoMark(t, (a - 1) + 1, e, Slashes)
        /\ q # npos => /\ q \in 1 .. ((e - a) - 1) /\ TwoAt(t, (a - 1) + q) = Slashes
                       /\ NoMark(t, (a - 1) + 1, (a - 1) + q, Slashes)
    BY <1>3, <1>4, <2>1, FoundInLine
  <2> QED BY <1>4, <2>2
<1>7. s = npos \/ (q # npos /\ ~(s < q))
  BY <1>2, Zenon DEF OpensBlock
<1>8. m \in Modes /\ m # "block" /\ "line" \in Modes /\ "line" # "block" /\ "code" \in Modes
  BY DEF InCode, Modes
<1>9. PICK b : b = IF q = npos THEN e ELSE (a - 1) + q
  OBVIOUS
<1>10. a <= b /\ b <= e /\ b \in 1 .. (Len(t) + 1) /\ a \in 1 .. b
  BY <1>1, <1>6, <1>9
<1>11. NoMark(t, a, b, Slashes)
  BY <1>6, <1>9
<1>12. NoMark(t, a, b, Opening)
  <2>1. CASE s = npos
    <3>1. \A j \in a .. (b - 1) : j \in a .. (e - 1)
      BY <1>1, <1>10
    <3> QED BY <1>5, <2>1, <3>1 DEF NoMark
  <2>2. CASE s # npos
    <3>1. q # npos /\ s \in 1 .. ((e - a) - 1) /\ q \in 1 .. ((e - a) - 1) /\ ~(s < q)
      BY <1>5, <1>6, <1>7, <2>2
    <3>2. b = (a - 1) + q /\ \A j \in a .. (b - 1) : j \in a .. (((a - 1) + s) - 1)
      BY <1>1, <1>9, <3>1
    <3> QED BY <1>5, <2>2, <3>2 DEF NoMark
  <2> QED BY <2>1, <2>2
<1>13. Plain(t, a, b)
  <2>1. \A j \in a .. (b - 1) : j \in a .. (e - 1)
    BY <1>1, <1>10
  <2> QED BY <1>1, <1>11, <1>12, <2>1 DEF Plain, NoMark
<1>14. Reader(t)[a][m] = SubSeq(t, a, b - 1) \o Reader(t)[b][m]
  BY <1>10, <1>13, CodeRun
<1>15. Reader(t)[b][m] = <<Space>> \o Reader(t)[e + 1]["code"]
  <2>1. CASE q = npos
    BY <1>8, <1>9, <2>1, EndRead
  <2>2. CASE q # npos
    <3>1. b = (a - 1) + q /\ q \in 1 .. ((e - a) - 1)
      BY <1>6, <1>9, <2>2
    <3>2. b \in 1 .. Len(t) /\ b + 2 \in 1 .. e /\ e \in 1 .. (Len(t) + 1) /\ a <= b + 2
      BY <1>1, <3>1
    <3>3. Reader(t)[b][m] = Reader(t)[b + 2]["line"]
      BY <1>6, <1>8, <2>2, <3>1, <3>2, ReadCases
    <3>4. Passed(t, b + 2, e, "line")
      <4>1. \A j \in (b + 2) .. (e - 1) : j \in a .. (e - 1)
        BY <1>1, <3>2
      <4> QED BY <1>1, <4>1 DEF Passed
    <3>5. Reader(t)[b + 2]["line"] = Reader(t)[e]["line"]
      BY <3>2, <3>4, CommentRun
    <3> QED BY <1>8, <3>3, <3>5, EndRead
  <2> QED BY <2>1, <2>2
<1>16. SubSeq(t, a, b - 1) = LeftOf(l)
  <2>1. CASE q = npos
    BY <1>2, <1>9, <2>1 DEF LeftOf, RestOf
  <2>2. CASE q # npos
    <3>1. q \in 1 .. ((e - a) + 1)
      BY <1>1, <1>6, <2>2
    <3>2. Before(l, q) = SubSeq(t, a, ((a - 1) + q) - 1)
      BY <3>1, PartOfRest
    <3> QED BY <1>2, <1>9, <2>2, <3>2 DEF LeftOf
  <2> QED BY <2>1, <2>2
<1> QED BY <1>14, <1>15, <1>16

\* What stands for a block comment that begins at k.
StandIn(t, k, m) == IF m = "after" \/ Glued(t, k) THEN Odd ELSE Space

\* d between two parts of a text.
Around(z, x, d, y) == z = x \o (<<d>> \o y)

\* Code in which a block comment begins.
LEMMA CodeOpens ==
  ASSUME NEW t \in Seq(Symbol), NEW a, NEW e, InLine(t, a, e), NEW m \in InCode,
         OpensBlock(RestOf(t, a, e)), NEW s, s = Find(RestOf(t, a, e), Opening)
  PROVE  /\ s \in 1 .. ((e - a) - 1) /\ s # npos
         /\ Around(Reader(t)[a][m], Before(RestOf(t, a, e), s), StandIn(t, (a - 1) + s, m),
                   Reader(t)[(a - 1) + (s + 2)]["block"])
<1> DEFINE l == RestOf(t, a, e)
<1>1. /\ Len(t) \in Nat /\ a \in Nat /\ e \in Nat /\ 1 <= a /\ a <= e /\ e <= Len(t)
      /\ \A j \in a .. (e - 1) : t[j] # NewLine
  BY RestType DEF InLine
<1>2. PICK q : q = Find(l, Slashes)
  OBVIOUS
<1>3. Opening \in Marks /\ Slashes \in Marks
  BY DEF Marks
<1>4. 1 \in 1 .. ((e - a) + 1) /\ (a - 1) + 1 = a
  BY <1>1
<1>5. s # npos /\ (q = npos \/ s < q)
  BY <1>2, Zenon DEF OpensBlock
<1>6. /\ s \in 1 .. ((e - a) - 1) /\ TwoAt(t, (a - 1) + s) = Opening
      /\ NoMark(t, a, (a - 1) + s, Opening)
  <2>1. s = FindFrom(l, Opening, 1)
    BY DEF Find
  <2>2. /\ s \in 1 .. ((e - a) - 1) /\ TwoAt(t, (a - 1) + s) = Opening
        /\ NoMark(t, (a - 1) + 1, (a - 1) + s, Opening)
    BY <1>3, <1>4, <1>5, <2>1, FoundInLine
  <2> QED BY <1>4, <2>2
<1>7. /\ q = npos => NoMark(t, a, e, Slashes)
      /\ q # npos => q \in 1 .. ((e - a) - 1) /\ NoMark(t, a, (a - 1) + q, Slashes)
  <2>1. q = FindFrom(l, Slashes, 1)
    BY <1>2 DEF Find
  <2>2. /\ q = npos => NoMark(t, (a - 1) + 1, e, Slashes)
        /\ q # npos => q \in 1 .. ((e - a) - 1) /\ NoMark(t, (a - 1) + 1, (a - 1) + q, Slashes)
    BY <1>3, <1>4, <2>1, FoundInLine
  <2> QED BY <1>4, <2>2
<1>8. PICK b : b = (a - 1) + s
  OBVIOUS
<1>9. a <= b /\ b <= e /\ b \in 1 .. (Len(t) + 1) /\ b \in 1 .. Len(t) /\ a \in 1 .. b
  BY <1>1, <1>6, <1>8
<1>10. NoMark(t, a, b, Slashes)
  <2>1. CASE q = npos
    <3>1. \A j \in a .. (b - 1) : j \in a .. (e - 1)
      BY <1>1, <1>9
    <3> QED BY <1>7, <2>1, <3>1 DEF NoMark
  <2>2. CASE q # npos
    <3>1. q \in 1 .. ((e - a) - 1) /\ s < q
      BY <1>5, <1>7, <2>2
    <3>2. \A j \in a .. (b - 1) : j \in a .. (((a - 1) + q) - 1)
      BY <1>1, <1>6, <1>8, <3>1
    <3> QED BY <1>7, <2>2, <3>2 DEF NoMark
  <2> QED BY <2>1, <2>2
<1>11. Plain(t, a, b)
  <2>1. \A j \in a .. (b - 1) : j \in a .. (e - 1)
    BY <1>1, <1>9
  <2> QED BY <1>1, <1>6, <1>8, <1>10, <2>1 DEF Plain, NoMark
<1>12. Reader(t)[a][m] = SubSeq(t, a, b - 1) \o Reader(t)[b][m]
  BY <1>9, <1>11, CodeRun
<1>13. Reader(t)[b][m] = <<StandIn(t, b, m)>> \o Reader(t)[b + 2]["block"]
  <2>1. m \in Modes
    BY DEF InCode, Modes
  <2> QED BY <1>6, <1>8, <1>9, <2>1, ReadCases DEF StandIn
<1>14. Before(l, s) = SubSeq(t, a, b - 1)
  <2>1. s \in 1 .. ((e - a) + 1)
    BY <1>1, <1>6
  <2> QED BY <1>8, <2>1, PartOfRest
<1>15. b + 2 = (a - 1) + (s + 2)
  BY <1>1, <1>6, <1>8
<1> QED BY <1>5, <1>6, <1>8, <1>12, <1>13, <1>14, <1>15, Zenon DEF Around

\* A block comment goes on to the first mark that ends it, or beyond the line.
LEMMA BlockLeft ==
  ASSUME NEW t \in Seq(Symbol), NEW a, NEW e, InLine(t, a, e), NEW k \in 1 .. ((e - a) + 1),
         NEW i, i = FindFrom(RestOf(t, a, e), Closing, k)
  PROVE  /\ i = npos => Reader(t)[(a - 1) + k]["block"] = Reader(t)[e + 1]["block"]
         /\ i # npos => /\ i \in k .. ((e - a) - 1)
                        /\ InLine(t, (a - 1) + (i + 2), e)
                        /\ RestOf(t, (a - 1) + (i + 2), e) = After(RestOf(t, a, e), i)
                        /\ Reader(t)[(a - 1) + k]["block"] = Reader(t)[(a - 1) + (i + 2)]["after"]
<1>1. /\ Len(t) \in Nat /\ a \in Nat /\ e \in Nat /\ 1 <= a /\ a <= e /\ e <= Len(t)
      /\ \A j \in a .. (e - 1) : t[j] # NewLine
  BY RestType DEF InLine
<1>2. Closing \in Marks /\ "block" \in Modes
  BY DEF Marks, Modes
<1>3. /\ i = npos => NoMark(t, (a - 1) + k, e, Closing)
      /\ i # npos => /\ i \in k .. ((e - a) - 1) /\ TwoAt(t, (a - 1) + i) = Closing
                     /\ NoMark(t, (a - 1) + k, (a - 1) + i, Closing)
  BY <1>2, FoundInLine
<1>4. PICK b : b = IF i = npos THEN e ELSE (a - 1) + i
  OBVIOUS
<1>5. (a - 1) + k \in 1 .. b /\ b \in 1 .. (Len(t) + 1) /\ b <= e
  BY <1>1, <1>3, <1>4
<1>6. Passed(t, (a - 1) + k, b, "block")
  <2>1. \A j \in ((a - 1) + k) .. (b - 1) : j \in a .. (e - 1)
    BY <1>1, <1>5
  <2>2. NoMark(t, (a - 1) + k, b, Closing)
    BY <1>3, <1>4
  <2> QED BY <1>1, <2>1, <2>2 DEF Passed, NoMark
<1>7. Reader(t)[(a - 1) + k]["block"] = Reader(t)[b]["block"]
  BY <1>5, <1>6, CommentRun
<1>8. CASE i = npos
  BY <1>4, <1>7, <1>8, EndRead
<1>9. CASE i # npos
  <2>1. i \in k .. ((e - a) - 1) /\ b = (a - 1) + i /\ TwoAt(t, b) = Closing
    BY <1>3, <1>4, <1>9
  <2>2. b \in 1 .. Len(t) /\ b + 2 = (a - 1) + (i + 2) /\ i + 2 \in 1 .. ((e - a) + 1)
    <3>1. k \in Nat /\ 1 <= k /\ i \in Nat /\ k <= i /\ i <= (e - a) - 1
      BY <1>1, <2>1
    <3>2. b = (a - 1) + i
      BY <2>1
    <3> QED BY <1>1, <3>1, <3>2
  <2>3. Reader(t)[b]["block"] = Reader(t)[b + 2]["after"]
    BY <1>2, <2>1, <2>2, ReadCases
  <2>4. /\ InLine(t, (a - 1) + (i + 2), e)
        /\ SubSeq(RestOf(t, a, e), i + 2, e - a) = RestOf(t, (a - 1) + (i + 2), e)
    BY <2>2, PartOfRest
  <2>5. Len(RestOf(t, a, e)) = e - a
    BY RestType
  <2>6. After(RestOf(t, a, e), i) = RestOf(t, (a - 1) + (i + 2), e)
    BY <2>4, <2>5 DEF After
  <2> QED BY <1>7, <1>9, <2>1, <2>2, <2>3, <2>4, <2>6
<1> QED BY <1>8, <1>9

-----------------------------------------------------------------------------
(* What preprocess leaves of a line has the tokens that are read of it.     *)

\* A blank that stands for a comment separates tokens.
LEMMA BlankRead ==
  ASSUME NEW x \in Seq(Symbol), NEW y \in Seq(Symbol)
  PROVE  CodeTokens(x \o (<<Space>> \o y)) = CodeTokens(x) \o CodeTokens(y)
<1>1. <<Space>> \in Seq(Symbol)
  BY DEF Symbol
<1>2. x \o (<<Space>> \o y) = (x \o <<Space>>) \o y
  BY <1>1, Regroup, Zenon
<1> QED BY <1>2, BlankSeparates, Zenon

\* Nothing Odd stands for a comment of a text in which nothing is Odd.
LEMMA OddRead ==
  ASSUME NEW x \in Seq(Symbol), NEW d \in Symbol, NEW y \in Seq(Symbol), NoOdd(x \o (<<d>> \o y))
  PROVE  d # Odd /\ NoOdd(y)
<1> DEFINE z == x \o (<<d>> \o y)
<1>1. /\ z \in Seq(Symbol) /\ Len(z) = (Len(x) + 1) + Len(y) /\ z[Len(x) + 1] = d
      /\ \A j \in 1 .. Len(y) : z[(Len(x) + 1) + j] = y[j]
      /\ Len(x) \in Nat /\ Len(y) \in Nat
  OBVIOUS
<1>2. \A j \in 1 .. Len(z) : z[j] # Odd
  <2>1. DOMAIN z = 1 .. Len(z)
    BY <1>1
  <2> QED BY <2>1 DEF NoOdd
<1> HIDE DEF z
<1>3. d # Odd
  <2>1. Len(x) + 1 \in 1 .. Len(z)
    BY <1>1
  <2> QED BY <1>1, <1>2, <2>1
<1>4. ASSUME NEW j \in 1 .. Len(y) PROVE y[j] # Odd
  <2>1. (Len(x) + 1) + j \in 1 .. Len(z)
    BY <1>1
  <2> QED BY <1>1, <1>2, <2>1
<1> QED BY <1>3, <1>4 DEF NoOdd

LEMMA LeftType ==
  ASSUME NEW l \in Seq(Symbol)
  PROVE  LeftOf(l) \in Seq(Symbol)
<1>1. Find(l, Slashes) \in 0 .. Len(l)
  BY Found DEF Find
<1>2. Before(l, Find(l, Slashes)) \in Seq(Symbol)
  BY <1>1, Cut
<1> QED BY <1>2 DEF LeftOf

LEMMA JoinAt ==
  ASSUME NEW p \in Seq(Symbol), NEW r \in Seq(Symbol)
  PROVE  /\ p \o r \in Seq(Symbol) /\ Len(p \o r) = Len(p) + Len(r)
         /\ \A j \in 1 .. Len(p) : (p \o r)[j] = p[j]
         /\ \A j \in 1 .. Len(r) : (p \o r)[Len(p) + j] = r[j]
OBVIOUS

\* The marks of two parts that a blank separates are the marks of the parts.
LEMMA MarksJoin ==
  ASSUME NEW p \in Seq(Symbol), NEW r \in Seq(Symbol), Separate(p, r), NEW z, z = p \o r
  PROVE  /\ \A j \in 1 .. Len(p) : TwoAt(z, j) = Slashes => TwoAt(p, j) = Slashes
         /\ \A j \in 1 .. Len(r) : TwoAt(z, Len(p) + j) = Slashes <=> TwoAt(r, j) = Slashes
<1>1. /\ z \in Seq(Symbol) /\ Len(z) = Len(p) + Len(r) /\ Len(p) \in Nat /\ Len(r) \in Nat
      /\ \A j \in 1 .. Len(p) : z[j] = p[j]
      /\ \A j \in 1 .. Len(r) : z[Len(p) + j] = r[j]
  OBVIOUS
<1>2. Slashes \in Marks
  BY DEF Marks
<1>3. ASSUME NEW j \in 1 .. Len(p), TwoAt(z, j) = Slashes PROVE TwoAt(p, j) = Slashes
  <2>1. j \in 1 .. (Len(z) - 1) /\ z[j] # Space /\ z[j + 1] # Space /\ TwoAt(z, j) = <<z[j], z[j + 1]>>
    BY <1>2, <1>3, MarkChars
  <2>2. CASE j < Len(p)
    <3>1. j \in 1 .. (Len(p) - 1) /\ j + 1 \in 1 .. Len(p)
      BY <1>1, <2>2
    <3>2. TwoAt(p, j) = <<p[j], p[j + 1]>>
      BY <3>1 DEF TwoAt
    <3> QED BY <1>1, <1>3, <2>1, <3>1, <3>2
  <2>3. CASE ~(j < Len(p))
    <3>1. j = Len(p) /\ 1 \in 1 .. Len(r) /\ j + 1 = Len(p) + 1
      BY <1>1, <2>1, <2>3
    <3>2. z[j] = p[Len(p)] /\ z[j + 1] = r[1]
      BY <1>1, <3>1
    <3>3. p # <<>> /\ r # <<>>
      BY <1>1, <3>1
    <3> QED BY <2>1, <3>2, <3>3 DEF Separate
  <2> QED BY <2>2, <2>3
<1>4. ASSUME NEW j \in 1 .. Len(r)
      PROVE  TwoAt(z, Len(p) + j) = Slashes <=> TwoAt(r, j) = Slashes
  <2>1. CASE j < Len(r)
    <3>1. /\ j \in 1 .. (Len(r) - 1) /\ j + 1 \in 1 .. Len(r) /\ Len(p) + j \in 1 .. (Len(z) - 1)
          /\ (Len(p) + j) + 1 = Len(p) + (j + 1)
      BY <1>1, <2>1
    <3>2. z[Len(p) + j] = r[j] /\ z[(Len(p) + j) + 1] = r[j + 1]
      BY <1>1, <3>1
    <3> QED BY <3>1, <3>2 DEF TwoAt
  <2>2. CASE ~(j < Len(r))
    <3>1. j \notin 1 .. (Len(r) - 1) /\ Len(p) + j \notin 1 .. (Len(z) - 1)
      BY <1>1, <2>2
    <3> QED BY <1>2, <3>1, MarkChars
  <2> QED BY <2>1, <2>2
<1> QED BY <1>3, <1>4

\* So is what is left of them.
LEMMA LeftJoin ==
  ASSUME NEW p \in Seq(Symbol), NEW r \in Seq(Symbol), Separate(p, r), Find(p, Slashes) = npos
  PROVE  LeftOf(p \o r) = p \o LeftOf(r) /\ Separate(p, LeftOf(r))
<1>1. PICK z : z = p \o r
  OBVIOUS
<1>2. /\ z \in Seq(Symbol) /\ Len(z) = Len(p) + Len(r) /\ Len(p) \in Nat /\ Len(r) \in Nat
      /\ Len(z) \in Nat
  BY <1>1
<1>3. /\ \A j \in 1 .. Len(p) : TwoAt(z, j) = Slashes => TwoAt(p, j) = Slashes
      /\ \A j \in 1 .. Len(r) : TwoAt(z, Len(p) + j) = Slashes <=> TwoAt(r, j) = Slashes
  BY <1>1, MarksJoin
<1>4. 1 \in Nat \ {0}
  OBVIOUS
<1>5. \A j \in 1 .. Len(p) : TwoAt(p, j) # Slashes
  BY <1>2, <1>4, FindMeans DEF Find
<1>6. PICK q : q = Find(r, Slashes)
  OBVIOUS
<1>7. /\ q = npos => \A j \in 1 .. Len(r) : TwoAt(r, j) # Slashes
      /\ q # npos => /\ q \in 1 .. Len(r) /\ TwoAt(r, q) = Slashes
                     /\ \A j \in 1 .. (q - 1) : TwoAt(r, j) # Slashes
  BY <1>2, <1>4, <1>6, FindMeans DEF Find
<1>8. CASE q = npos
  <2>1. Find(z, Slashes) = npos
    <3> SUFFICES ASSUME Find(z, Slashes) # npos PROVE FALSE
      OBVIOUS
    <3>1. PICK i : i = Find(z, Slashes)
      OBVIOUS
    <3>2. i \in 1 .. Len(z) /\ TwoAt(z, i) = Slashes
      BY <1>2, <1>4, <3>1, FindMeans DEF Find
    <3>3. CASE i <= Len(p)
      <4>1. i \in 1 .. Len(p)
        BY <1>2, <3>2, <3>3
      <4> QED BY <1>3, <1>5, <3>2, <4>1
    <3>4. CASE ~(i <= Len(p))
      <4>1. i - Len(p) \in 1 .. Len(r) /\ Len(p) + (i - Len(p)) = i
        BY <1>2, <3>2, <3>4
      <4> QED BY <1>3, <1>7, <1>8, <3>2, <4>1
    <3> QED BY <3>3, <3>4
  <2>2. LeftOf(z) = z /\ LeftOf(r) = r
    BY <1>6, <1>8, <2>1, Zenon DEF LeftOf
  <2> QED BY <1>1, <2>2
<1>9. CASE q # npos
  <2>1. q \in 1 .. Len(r) /\ TwoAt(r, q) = Slashes /\ \A j \in 1 .. (q - 1) : TwoAt(r, j) # Slashes
    BY <1>7, <1>9
  <2>2. PICK i : i = Len(p) + q
    OBVIOUS
  <2>3. i \in 1 .. Len(z) /\ TwoAt(z, i) = Slashes /\ i # npos
    BY <1>2, <1>3, <2>1, <2>2 DEF npos
  <2>4. NoMark(z, 1, i, Slashes)
    <3> SUFFICES ASSUME NEW j \in 1 .. (i - 1) PROVE TwoAt(z, j) # Slashes
      BY DEF NoMark
    <3>1. CASE j <= Len(p)
      <4>1. j \in 1 .. Len(p)
        BY <1>2, <3>1
      <4> QED BY <1>3, <1>5, <4>1
    <3>2. CASE ~(j <= Len(p))
      <4>1. /\ j - Len(p) \in 1 .. Len(r) /\ j - Len(p) \in 1 .. (q - 1)
            /\ Len(p) + (j - Len(p)) = j
        BY <1>2, <2>1, <2>2, <3>2
      <4> QED BY <1>3, <2>1, <4>1
    <3> QED BY <3>1, <3>2
  <2>5. Find(z, Slashes) = i
    BY <1>2, <1>4, <2>3, <2>4, FirstIsFound DEF Find
  <2>6. LeftOf(z) = Before(z, i) /\ LeftOf(r) = Before(r, q)
    BY <1>6, <1>9, <2>3, <2>5, Zenon DEF LeftOf
  <2>7. Before(z, i) = p \o Before(r, q)
    <3> DEFINE x == SubSeq(z, 1, i - 1)  w == SubSeq(r, 1, q - 1)  y == p \o w
    <3>1. w \in Seq(Symbol) /\ Len(w) = q - 1 /\ \A j \in 1 .. (q - 1) : w[j] = r[j]
      BY <1>2, <2>1
    <3>2. x \in Seq(Symbol) /\ Len(x) = i - 1 /\ \A j \in 1 .. (i - 1) : x[j] = z[j]
      BY <1>2, <2>3
    <3>3. /\ y \in Seq(Symbol) /\ Len(y) = Len(p) + Len(w)
          /\ \A j \in 1 .. Len(p) : y[j] = p[j]
          /\ \A j \in 1 .. Len(w) : y[Len(p) + j] = w[j]
      <4> HIDE DEF w
      <4> QED BY <3>1, JoinAt
    <3>4. /\ \A j \in 1 .. Len(p) : z[j] = p[j]
          /\ \A j \in 1 .. Len(r) : z[Len(p) + j] = r[j]
      BY <1>1, <1>2
    <3> HIDE DEF x, w, y
    <3>5. ASSUME NEW j \in 1 .. (i - 1) PROVE x[j] = y[j]
      <4>1. CASE j <= Len(p)
        <5>1. j \in 1 .. Len(p)
          BY <1>2, <4>1
        <5> QED BY <3>2, <3>3, <3>4, <5>1
      <4>2. CASE ~(j <= Len(p))
        <5>1. PICK n : n = j - Len(p)
          OBVIOUS
        <5>2. n \in 1 .. Len(w) /\ n \in 1 .. Len(r) /\ n \in 1 .. (q - 1) /\ Len(p) + n = j
          BY <1>2, <2>1, <2>2, <3>1, <4>2, <5>1
        <5> QED BY <3>1, <3>2, <3>3, <3>4, <5>2
      <4> QED BY <4>1, <4>2
    <3>6. Len(x) = Len(y)
      BY <1>2, <2>1, <2>2, <3>1, <3>2, <3>3
    <3>7. x = y
      BY <3>2, <3>3, <3>5, <3>6
    <3> QED BY <3>7 DEF Before, x, y, w
  <2>8. Separate(p, Before(r, q))
    <3>1. CASE r[1] = Space
      <4>1. q # 1
        <5>1. Slashes \in Marks
          BY DEF Marks
        <5> QED BY <2>1, <3>1, <5>1, MarkChars
      <4>2. Before(r, q)[1] = r[1]
        BY <1>2, <2>1, <4>1 DEF Before
      <4> QED BY <3>1, <4>2 DEF Separate
    <3>2. CASE r # <<>> /\ r[1] # Space
      BY <3>2 DEF Separate
    <3>3. r # <<>>
      BY <1>2, <2>1
    <3> QED BY <3>1, <3>2, <3>3
  <2> QED BY <1>1, <2>6, <2>7, <2>8
<1> QED BY <1>8, <1>9

LEMMA NoRest ==
  ASSUME NEW l \in Seq(Symbol), NEW f \in Nat, NEW g \in Nat, g < f
  PROVE  SubSeq(l, f, g) = <<>>
OBVIOUS

LEMMA BehindMark ==
  ASSUME NEW a \in Nat, NEW e \in Nat, NEW i \in Nat, 1 <= a, i + 2 <= e - a,
         NEW f, f = i + 2, NEW n, n = (a - 1) + i
  PROVE  f \in 1 .. (e - a) /\ (a - 1) + f = n + 2 /\ n + 2 \in a .. (e - 1) /\ n + 2 \in Nat \ {0}
OBVIOUS

\* What a block comment separates is separate, unless the comment is glued.
LEMMA NotGlued ==
  ASSUME NEW t \in Seq(Symbol), NEW a, NEW e, InLine(t, a, e), NEW s \in 1 .. ((e - a) - 1),
         NEW i, i = FindFrom(RestOf(t, a, e), Closing, s + 2), i # npos, ~ Glued(t, (a - 1) + s)
  PROVE  Separate(Before(RestOf(t, a, e), s), After(RestOf(t, a, e), i))
<1> DEFINE l == RestOf(t, a, e)
<1>0. Len(t) \in Nat /\ a \in Nat /\ e \in Nat /\ 1 <= a /\ a <= e /\ e <= Len(t)
  BY RestType
<1>1. /\ l \in Seq(Symbol) /\ Len(l) = e - a
      /\ \A j \in 1 .. (e - a) : l[j] = t[(a - 1) + j]
  BY RestType
<1>2. \A j \in a .. (e - 1) : t[j] # NewLine
  BY DEF InLine
<1>3. Closing \in Marks
  BY DEF Marks
<1>4. s + 2 \in 1 .. ((e - a) + 1)
  BY <1>0
<1>5. /\ i \in (s + 2) .. ((e - a) - 1) /\ TwoAt(t, (a - 1) + i) = Closing
      /\ NoMark(t, (a - 1) + (s + 2), (a - 1) + i, Closing)
  BY <1>3, <1>4, FoundInLine
<1>6. PICK k, n, f : k = (a - 1) + s /\ n = (a - 1) + i /\ f = i + 2
  OBVIOUS
<1>7. i \in Nat /\ f \in Nat /\ s \in Nat /\ f >= 1 /\ n \in Nat /\ s + 2 <= i /\ i <= (e - a) - 1
  <2>1. i \in (s + 2) .. ((e - a) - 1)
    BY <1>5
  <2>2. i \in Nat /\ s + 2 <= i /\ i <= (e - a) - 1
    BY <1>0, <2>1
  <2> QED BY <1>0, <1>6, <2>2
<1>8. /\ k \in Nat /\ n \in Nat /\ k + 2 = (a - 1) + (s + 2) /\ k + 2 \in Nat \ {0}
      /\ n \in (k + 2) .. Len(t) /\ a <= k /\ n <= e - 1 /\ n # npos
  BY <1>0, <1>6, <1>7 DEF npos
<1>9. FindFrom(t, Closing, k + 2) = n
  BY <1>0, <1>5, <1>6, <1>8, FirstIsFound
<1>10. \A j \in k .. n : t[j] # NewLine
  <2>1. \A j \in k .. n : j \in a .. (e - 1)
    BY <1>0, <1>8
  <2> QED BY <1>2, <2>1
<1> HIDE DEF l
<1> SUFFICES ASSUME ~ Separate(Before(l, s), After(l, i)) PROVE FALSE
  BY DEF l
<1>11. Touching(t, k - 1)
  <2>1. Before(l, s) # <<>> /\ Before(l, s)[Len(Before(l, s))] # Space
    BY DEF Separate
  <2>2. s # 1
    <3>1. SubSeq(l, 1, 0) = <<>>
      BY <1>0, <1>1
    <3> QED BY <2>1, <3>1 DEF Before
  <2>3. /\ s - 1 \in 1 .. (e - a) /\ (a - 1) + (s - 1) = k - 1
        /\ k - 1 \in a .. (e - 1) /\ k - 1 \in 1 .. Len(t)
    BY <1>0, <1>6, <2>2
  <2>4. Len(Before(l, s)) = s - 1 /\ Before(l, s)[s - 1] = l[s - 1]
    BY <1>0, <1>1, <2>3 DEF Before
  <2>5. t[k - 1] # Space /\ t[k - 1] # NewLine
    BY <1>1, <1>2, <2>1, <2>3, <2>4
  <2>6. k - 1 \in DOMAIN t
    BY <2>3
  <2> QED BY <2>5, <2>6, Zenon DEF Touching, Space
<1>12. Touching(t, n + 2)
  <2>1. After(l, i) # <<>> /\ After(l, i)[1] # Space
    BY DEF Separate
  <2>2. f <= e - a
    <3> SUFFICES ASSUME ~(f <= e - a) PROVE FALSE
      OBVIOUS
    <3>1. SubSeq(l, f, e - a) = <<>>
      <4>1. e - a \in Nat /\ e - a < f /\ f \in Nat
        BY <1>0, <1>7
      <4>2. l \in Seq(Symbol)
        BY <1>1
      <4> QED BY <4>1, <4>2, NoRest
    <3> QED BY <1>1, <1>6, <2>1, <3>1 DEF After
  <2>3. f \in 1 .. (e - a) /\ (a - 1) + f = n + 2 /\ n + 2 \in a .. (e - 1) /\ n + 2 \in 1 .. Len(t)
    <3>1. i + 2 <= e - a /\ f = i + 2 /\ n = (a - 1) + i /\ i \in Nat
      BY <1>6, <1>7, <2>2
    <3>2. f \in 1 .. (e - a) /\ (a - 1) + f = n + 2 /\ n + 2 \in a .. (e - 1) /\ n + 2 \in Nat \ {0}
      <4>1. f \in Nat /\ n \in Nat
        BY <1>7
      <4>2. f <= e - a /\ 1 <= f
        BY <1>7, <2>2
      <4>3. (a - 1) + f = n + 2
        BY <1>0, <3>1
      <4>4. n + 2 <= e - 1 /\ a <= n + 2
        BY <1>0, <3>1
      <4> QED BY <1>0, <4>1, <4>2, <4>3, <4>4
    <3> QED BY <1>0, <3>2
  <2>4. After(l, i)[1] = l[f]
    <3>1. SubSeq(l, f, e - a)[1] = l[f]
      BY <1>0, <1>1, <2>3
    <3> QED BY <1>1, <1>6, <3>1 DEF After
  <2>5. t[n + 2] # Space /\ t[n + 2] # NewLine
    BY <1>1, <1>2, <2>1, <2>3, <2>4
  <2>6. n + 2 \in DOMAIN t
    BY <2>3
  <2> QED BY <2>5, <2>6, Zenon DEF Touching, Space
<1>13. Glued(t, k)
  BY <1>8, <1>9, <1>10, <1>11, <1>12, Zenon DEF Glued
<1> QED BY <1>6, <1>13

\* The modes in which a line begins, and what is read of the lines from position a on.
ModeOf(open) == IF open THEN "block" ELSE "code"

\* Code behind a block comment, up to the end of its line.
LEMMA AfterLeft ==
  ASSUME NEW t \in Seq(Symbol), NEW a, NEW e, InLine(t, a, e), NoOdd(Reader(t)[a]["after"])
  PROVE  /\ NoOdd(Reader(t)[e + 1]["code"])
         /\ CodeTokens(Reader(t)[a]["after"]) =
              CodeTokens(LeftOf(RestOf(t, a, e))) \o CodeTokens(Reader(t)[e + 1]["code"])
<1> DEFINE l == RestOf(t, a, e)
<1>1. /\ Len(t) \in Nat /\ a \in Nat /\ e \in Nat /\ 1 <= a /\ a <= e /\ e <= Len(t)
      /\ l \in Seq(Symbol) /\ Len(l) = e - a
  BY RestType
<1>2. "after" \in InCode /\ "code" \in Modes /\ "block" \in Modes
  BY DEF InCode, Modes
<1>3. Space \in Symbol /\ Odd \in Symbol
  BY DEF Symbol
<1>4. e + 1 \in 1 .. (Len(t) + 1)
  BY <1>1
<1>5. Reader(t)[e + 1]["code"] \in Seq(Symbol)
  BY <1>2, <1>4, ReadType
<1>6. ~ OpensBlock(l)
  <2> SUFFICES ASSUME OpensBlock(l) PROVE FALSE
    OBVIOUS
  <2>1. PICK s : s = Find(l, Opening)
    OBVIOUS
  <2>2. /\ s \in 1 .. ((e - a) - 1)
        /\ Reader(t)[a]["after"] =
             Before(l, s) \o (<<Odd>> \o Reader(t)[(a - 1) + (s + 2)]["block"])
    <3>1. PICK m : m = "after"
      OBVIOUS
    <3>2. m \in InCode
      BY <1>2, <3>1
    <3>3. /\ s \in 1 .. ((e - a) - 1)
          /\ Around(Reader(t)[a][m], Before(l, s), StandIn(t, (a - 1) + s, m),
                    Reader(t)[(a - 1) + (s + 2)]["block"])
      BY <2>1, <3>2, CodeOpens
    <3>4. StandIn(t, (a - 1) + s, m) = Odd
      BY <3>1, Zenon DEF StandIn
    <3> QED BY <3>1, <3>3, <3>4, Zenon DEF Around
  <2>3. (a - 1) + (s + 2) \in 1 .. (Len(t) + 1) /\ s \in 0 .. Len(l)
    BY <1>1, <2>2
  <2>4. Before(l, s) \in Seq(Symbol) /\ Reader(t)[(a - 1) + (s + 2)]["block"] \in Seq(Symbol)
    BY <1>1, <1>2, <2>3, Cut, ReadType
  <2> QED BY <1>3, <2>2, <2>4, OddRead, Zenon
<1>7. Reader(t)[a]["after"] = LeftOf(l) \o (<<Space>> \o Reader(t)[e + 1]["code"])
  BY <1>2, <1>6, CodeLeft
<1>8. LeftOf(l) \in Seq(Symbol)
  BY <1>1, LeftType
<1>9. NoOdd(Reader(t)[e + 1]["code"])
  BY <1>3, <1>5, <1>7, <1>8, OddRead, Zenon
<1> QED BY <1>5, <1>7, <1>8, <1>9, BlankRead, Zenon

\* What is read of the line from a to e has the tokens of x, and those of the lines
\* behind it.
LineRead(t, a, e, m, x, n) ==
  /\ NoOdd(Reader(t)[e + 1][n])
  /\ CodeTokens(Reader(t)[a][m]) = CodeTokens(x) \o CodeTokens(Reader(t)[e + 1][n])

LEMMA Behind ==
  ASSUME NEW t \in Seq(Symbol), NEW a, NEW e, InLine(t, a, e), NEW m \in Modes
  PROVE  /\ Reader(t)[e + 1][m] \in Seq(Symbol)
         /\ \A k \in 1 .. ((e - a) + 1) : Reader(t)[(a - 1) + k][m] \in Seq(Symbol)
<1>1. Len(t) \in Nat /\ a \in Nat /\ e \in Nat /\ 1 <= a /\ a <= e /\ e <= Len(t)
  BY RestType
<1>2. e + 1 \in 1 .. (Len(t) + 1)
  BY <1>1
<1>3. \A k \in 1 .. ((e - a) + 1) : (a - 1) + k \in 1 .. (Len(t) + 1)
  BY <1>1
<1> QED BY <1>2, <1>3, ReadType

LEMMA TokensRegroup ==
  ASSUME NEW x \in Seq(Symbol), NEW y \in Seq(Symbol), NEW z \in Seq(Symbol)
  PROVE  CodeTokens(x) \o (CodeTokens(y) \o CodeTokens(z)) = (CodeTokens(x) \o CodeTokens(y)) \o CodeTokens(z)
<1>1. CodeTokens(x) \in Seq(AnyToken) /\ CodeTokens(y) \in Seq(AnyToken) /\ CodeTokens(z) \in Seq(AnyToken)
  BY TokensType
<1>2. PICK u, v, w : u = CodeTokens(x) /\ v = CodeTokens(y) /\ w = CodeTokens(z)
  OBVIOUS
<1>3. u \in Seq(AnyToken) /\ v \in Seq(AnyToken) /\ w \in Seq(AnyToken)
  BY <1>1, <1>2
<1>4. u \o (v \o w) = (u \o v) \o w
  BY <1>3, ConcatAssociative
<1> QED BY <1>2, <1>4, Zenon

\* A line in which no block comment begins.
LEMMA CodeLine ==
  ASSUME NEW t \in Seq(Symbol), NEW a, NEW e, InLine(t, a, e), ~ OpensBlock(RestOf(t, a, e)),
         NoOdd(Reader(t)[a]["code"])
  PROVE  LineRead(t, a, e, "code", LeftOf(RestOf(t, a, e)), "code")
<1>1. PICK m : m = "code"
  OBVIOUS
<1>2. m \in InCode /\ m \in Modes /\ Space \in Symbol
  BY <1>1 DEF InCode, Modes, Symbol
<1>3. PICK x, y : x = LeftOf(RestOf(t, a, e)) /\ y = Reader(t)[e + 1][m]
  OBVIOUS
<1>4. x \in Seq(Symbol) /\ y \in Seq(Symbol)
  <2>1. RestOf(t, a, e) \in Seq(Symbol)
    BY RestType
  <2> QED BY <1>2, <1>3, <2>1, LeftType, Behind
<1>5. Reader(t)[a][m] = x \o (<<Space>> \o y)
  BY <1>1, <1>2, <1>3, CodeLeft
<1>6. NoOdd(y)
  BY <1>1, <1>2, <1>4, <1>5, OddRead, Zenon
<1>7. CodeTokens(Reader(t)[a][m]) = CodeTokens(x) \o CodeTokens(y)
  BY <1>4, <1>5, BlankRead, Zenon
<1> QED BY <1>1, <1>3, <1>6, <1>7, Zenon DEF LineRead

\* A line in which a block comment begins: up to it.
LEMMA OpenLine ==
  ASSUME NEW t \in Seq(Symbol), NEW a, NEW e, InLine(t, a, e), OpensBlock(RestOf(t, a, e)),
         NoOdd(Reader(t)[a]["code"]), NEW s, s = Find(RestOf(t, a, e), Opening)
  PROVE  /\ s \in 1 .. ((e - a) - 1) /\ s + 2 \in 1 .. ((e - a) + 1) /\ s # npos
         /\ Before(RestOf(t, a, e), s) \in Seq(Symbol)
         /\ ~ Glued(t, (a - 1) + s)
         /\ NoOdd(Reader(t)[(a - 1) + (s + 2)]["block"])
         /\ CodeTokens(Reader(t)[a]["code"]) =
              CodeTokens(Before(RestOf(t, a, e), s)) \o CodeTokens(Reader(t)[(a - 1) + (s + 2)]["block"])
<1>1. PICK m : m = "code"
  OBVIOUS
<1>2. m \in InCode /\ m \in Modes /\ "block" \in Modes /\ Space \in Symbol /\ Odd \in Symbol
  BY <1>1 DEF InCode, Modes, Symbol
<1>3. PICK x, d, y : /\ x = Before(RestOf(t, a, e), s) /\ d = StandIn(t, (a - 1) + s, m)
                     /\ y = Reader(t)[(a - 1) + (s + 2)]["block"]
  OBVIOUS
<1>4. s \in 1 .. ((e - a) - 1) /\ s # npos /\ Around(Reader(t)[a][m], x, d, y)
  BY <1>2, <1>3, CodeOpens
<1>5. /\ RestOf(t, a, e) \in Seq(Symbol) /\ Len(RestOf(t, a, e)) = e - a
      /\ a \in Nat /\ e \in Nat /\ a <= e
  BY RestType
<1>6. s + 2 \in 1 .. ((e - a) + 1) /\ s \in 0 .. Len(RestOf(t, a, e))
  BY <1>4, <1>5
<1>7. x \in Seq(Symbol) /\ y \in Seq(Symbol) /\ d \in Symbol
  <2>1. x \in Seq(Symbol)
    BY <1>3, <1>5, <1>6, Cut
  <2>2. y \in Seq(Symbol)
    BY <1>2, <1>3, <1>6, Behind
  <2>3. d \in Symbol
    BY <1>2, <1>3, Zenon DEF StandIn
  <2> QED BY <2>1, <2>2, <2>3
<1>8. Reader(t)[a][m] = x \o (<<d>> \o y)
  BY <1>4, Zenon DEF Around
<1>9. d # Odd /\ NoOdd(y)
  BY <1>1, <1>7, <1>8, OddRead, Zenon
<1>10. d = Space /\ ~ Glued(t, (a - 1) + s)
  BY <1>3, <1>9, Zenon DEF StandIn
<1>11. CodeTokens(Reader(t)[a][m]) = CodeTokens(x) \o CodeTokens(y)
  BY <1>7, <1>8, <1>10, BlankRead, Zenon
<1> QED BY <1>1, <1>3, <1>4, <1>6, <1>7, <1>9, <1>10, <1>11, Zenon

\* A block comment that goes on beyond the line.
LEMMA BlockGoesOn ==
  ASSUME NEW t \in Seq(Symbol), NEW a, NEW e, InLine(t, a, e), OpensBlock(RestOf(t, a, e)),
         NoOdd(Reader(t)[a]["code"]), NEW s, s = Find(RestOf(t, a, e), Opening),
         FindFrom(RestOf(t, a, e), Closing, s + 2) = npos
  PROVE  LineRead(t, a, e, "code", Before(RestOf(t, a, e), s), "block")
<1>1. /\ s + 2 \in 1 .. ((e - a) + 1)
      /\ NoOdd(Reader(t)[(a - 1) + (s + 2)]["block"])
      /\ CodeTokens(Reader(t)[a]["code"]) =
           CodeTokens(Before(RestOf(t, a, e), s)) \o CodeTokens(Reader(t)[(a - 1) + (s + 2)]["block"])
  BY OpenLine
<1>2. PICK k : k = s + 2
  OBVIOUS
<1>3. k \in 1 .. ((e - a) + 1) /\ FindFrom(RestOf(t, a, e), Closing, k) = npos
  BY <1>1, <1>2
<1>4. Reader(t)[(a - 1) + k]["block"] = Reader(t)[e + 1]["block"]
  BY <1>3, BlockLeft
<1> QED BY <1>1, <1>2, <1>4, Zenon DEF LineRead

\* A block comment in a line.
LEMMA BlockCloses ==
  ASSUME NEW t \in Seq(Symbol), NEW a, NEW e, InLine(t, a, e), OpensBlock(RestOf(t, a, e)),
         NoOdd(Reader(t)[a]["code"]), NEW s, s = Find(RestOf(t, a, e), Opening),
         NEW i, i = FindFrom(RestOf(t, a, e), Closing, s + 2), i # npos
  PROVE  LineRead(t, a, e, "code",
                  LeftOf(Before(RestOf(t, a, e), s) \o After(RestOf(t, a, e), i)), "code")
<1>1. PICK l : l = RestOf(t, a, e)
  OBVIOUS
<1>2. PICK x, w, y : x = Before(l, s) /\ w = After(l, i) /\ y = Reader(t)[e + 1]["code"]
  OBVIOUS
<1>3. PICK b, n : b = (a - 1) + (s + 2) /\ n = (a - 1) + (i + 2)
  OBVIOUS
<1>4. /\ s \in 1 .. ((e - a) - 1) /\ s + 2 \in 1 .. ((e - a) + 1) /\ s # npos
      /\ x \in Seq(Symbol) /\ ~ Glued(t, (a - 1) + s) /\ NoOdd(Reader(t)[b]["block"])
      /\ CodeTokens(Reader(t)[a]["code"]) = CodeTokens(x) \o CodeTokens(Reader(t)[b]["block"])
  BY <1>1, <1>2, <1>3, OpenLine, Zenon
<1>5. s \in 1 .. ((e - a) - 1)
  BY <1>4
<1>6. /\ i \in (s + 2) .. ((e - a) - 1) /\ InLine(t, n, e) /\ RestOf(t, n, e) = w
      /\ Reader(t)[b]["block"] = Reader(t)[n]["after"]
  <2>1. PICK k : k = s + 2
    OBVIOUS
  <2>2. k \in 1 .. ((e - a) + 1) /\ i = FindFrom(RestOf(t, a, e), Closing, k)
    BY <1>4, <2>1
  <2>3. /\ i \in k .. ((e - a) - 1) /\ InLine(t, n, e) /\ RestOf(t, n, e) = w
        /\ Reader(t)[(a - 1) + k]["block"] = Reader(t)[n]["after"]
    <3>1. /\ i \in k .. ((e - a) - 1)
          /\ InLine(t, (a - 1) + (i + 2), e)
          /\ RestOf(t, (a - 1) + (i + 2), e) = After(RestOf(t, a, e), i)
          /\ Reader(t)[(a - 1) + k]["block"] = Reader(t)[(a - 1) + (i + 2)]["after"]
      BY <2>2, BlockLeft
    <3> QED BY <1>1, <1>2, <1>3, <3>1, Zenon
  <2> QED BY <1>3, <2>1, <2>3, Zenon
<1>7. NoOdd(y) /\ CodeTokens(Reader(t)[n]["after"]) = CodeTokens(LeftOf(w)) \o CodeTokens(y)
  <2>1. NoOdd(Reader(t)[n]["after"]) /\ InLine(t, n, e)
    BY <1>4, <1>6, Zenon
  <2>2. /\ NoOdd(Reader(t)[e + 1]["code"])
        /\ CodeTokens(Reader(t)[n]["after"]) =
             CodeTokens(LeftOf(RestOf(t, n, e))) \o CodeTokens(Reader(t)[e + 1]["code"])
    BY <2>1, AfterLeft, Zenon
  <2> QED BY <1>2, <1>6, <2>2, Zenon
<1>8. w \in Seq(Symbol) /\ y \in Seq(Symbol) /\ LeftOf(w) \in Seq(Symbol)
  <2>1. "code" \in Modes
    BY DEF Modes
  <2>2. w \in Seq(Symbol)
    BY <1>6, RestType
  <2> QED BY <1>2, <2>1, <2>2, Behind, LeftType
<1>9. Separate(x, w)
  BY <1>1, <1>2, <1>4, NotGlued, Zenon
<1>10. Find(x, Slashes) = npos
  <2>1. /\ l \in Seq(Symbol) /\ Len(l) = e - a /\ Len(l) \in Nat /\ e - a \in Nat
        /\ a \in Nat /\ e \in Nat
    BY <1>1, RestType
  <2>2. PICK q : q = Find(l, Slashes)
    OBVIOUS
  <2>3. q = npos \/ s < q
    BY <1>1, <2>2, Zenon DEF OpensBlock
  <2>4. 1 \in Nat \ {0}
    OBVIOUS
  <2>5. /\ q = npos => \A j \in 1 .. Len(l) : TwoAt(l, j) # Slashes
        /\ q # npos => q \in 1 .. Len(l) /\ \A j \in 1 .. (q - 1) : TwoAt(l, j) # Slashes
    BY <2>1, <2>2, <2>4, FindMeans DEF Find
  <2>6. \A j \in 1 .. (s - 1) : TwoAt(l, j) # Slashes
    <3> SUFFICES ASSUME NEW j \in 1 .. (s - 1) PROVE TwoAt(l, j) # Slashes
      OBVIOUS
    <3>1. j \in 1 .. Len(l)
      BY <1>5, <2>1
    <3>2. CASE q = npos
      BY <2>5, <3>1, <3>2
    <3>3. CASE q # npos
      <4>1. j \in 1 .. (q - 1)
        BY <1>5, <2>3, <2>5, <3>3
      <4> QED BY <2>5, <3>3, <4>1
    <3> QED BY <3>2, <3>3
  <2>7. Len(x) = s - 1 /\ Len(x) \in Nat /\ \A j \in 1 .. (s - 1) : x[j] = l[j]
    BY <1>2, <1>5, <2>1 DEF Before
  <2> SUFFICES ASSUME Find(x, Slashes) # npos PROVE FALSE
    OBVIOUS
  <2>8. PICK j : j = Find(x, Slashes)
    OBVIOUS
  <2>9. j \in 1 .. Len(x) /\ TwoAt(x, j) = Slashes
    BY <2>4, <2>7, <2>8, FindMeans DEF Find
  <2>10. j \in 1 .. (Len(x) - 1)
    <3>1. Slashes \in Marks
      BY DEF Marks
    <3> QED BY <1>4, <2>9, <3>1, MarkChars
  <2>11. /\ j \in 1 .. (s - 1) /\ j + 1 \in 1 .. (s - 1) /\ j \in 1 .. (Len(l) - 1)
    BY <1>5, <2>1, <2>7, <2>10
  <2>12. TwoAt(l, j) = TwoAt(x, j)
    <3>1. TwoAt(l, j) = <<l[j], l[j + 1]>> /\ TwoAt(x, j) = <<x[j], x[j + 1]>>
      BY <2>10, <2>11 DEF TwoAt
    <3>2. x[j] = l[j] /\ x[j + 1] = l[j + 1]
      BY <2>7, <2>11
    <3> QED BY <3>1, <3>2
  <2> QED BY <2>6, <2>9, <2>11, <2>12
<1>11. LeftOf(x \o w) = x \o LeftOf(w) /\ Separate(x, LeftOf(w))
  BY <1>4, <1>8, <1>9, <1>10, LeftJoin, Zenon
<1>12. CodeTokens(x \o LeftOf(w)) = CodeTokens(x) \o CodeTokens(LeftOf(w))
  BY <1>4, <1>8, <1>11, TokensJoin, Zenon
<1>13. CodeTokens(x) \o (CodeTokens(LeftOf(w)) \o CodeTokens(y)) =
         (CodeTokens(x) \o CodeTokens(LeftOf(w))) \o CodeTokens(y)
  BY <1>4, <1>8, TokensRegroup, Zenon
<1>14. CodeTokens(Reader(t)[a]["code"]) = CodeTokens(LeftOf(x \o w)) \o CodeTokens(y)
  BY <1>4, <1>6, <1>7, <1>11, <1>12, <1>13, Zenon
<1> QED BY <1>1, <1>2, <1>7, <1>14, Zenon DEF LineRead

\* A line that begins in a block comment.
LEMMA BlockLine ==
  ASSUME NEW t \in Seq(Symbol), NEW a, NEW e, InLine(t, a, e), NoOdd(Reader(t)[a]["block"]),
         NEW i, i = Find(RestOf(t, a, e), Closing)
  PROVE  /\ i = npos => LineRead(t, a, e, "block", <<>>, "block")
         /\ i # npos => LineRead(t, a, e, "block", LeftOf(After(RestOf(t, a, e), i)), "code")
<1>1. PICK k : k = 1
  OBVIOUS
<1>2. a \in Nat /\ e \in Nat /\ 1 <= a /\ a <= e
  BY RestType
<1>3. k \in 1 .. ((e - a) + 1) /\ (a - 1) + k = a
  BY <1>1, <1>2
<1>4. i = FindFrom(RestOf(t, a, e), Closing, k)
  BY <1>1 DEF Find
<1>5. CASE i = npos
  <2>1. Reader(t)[a]["block"] = Reader(t)[e + 1]["block"]
    <3>1. Reader(t)[(a - 1) + k]["block"] = Reader(t)[e + 1]["block"]
      <4>1. k \in 1 .. ((e - a) + 1) /\ FindFrom(RestOf(t, a, e), Closing, k) = npos
        BY <1>3, <1>4, <1>5
      <4> QED BY <4>1, BlockLeft
    <3> QED BY <1>3, <3>1, Zenon
  <2>2. PICK y : y = Reader(t)[e + 1]["block"]
    OBVIOUS
  <2>3. y \in Seq(Symbol)
    <3>1. "block" \in Modes
      BY DEF Modes
    <3> QED BY <2>2, <3>1, Behind
  <2>4. CodeTokens(y) = <<>> \o CodeTokens(y)
    <3>1. CodeTokens(y) \in Seq(AnyToken)
      BY <2>3, TokensType
    <3>2. PICK u : u = CodeTokens(y)
      OBVIOUS
    <3>3. u = <<>> \o u
      BY <3>1, <3>2
    <3> QED BY <3>2, <3>3, Zenon
  <2>5. CodeTokens(y) = CodeTokens(<<>>) \o CodeTokens(y)
    BY <2>4, NoTokensInNothing, Zenon
  <2> QED BY <1>5, <2>1, <2>2, <2>5, Zenon DEF LineRead
<1>6. CASE i # npos
  <2>1. PICK n : n = (a - 1) + (i + 2)
    OBVIOUS
  <2>2. /\ InLine(t, n, e) /\ RestOf(t, n, e) = After(RestOf(t, a, e), i)
        /\ Reader(t)[a]["block"] = Reader(t)[n]["after"]
    BY <1>3, <1>4, <1>6, <2>1, BlockLeft
  <2>3. /\ NoOdd(Reader(t)[e + 1]["code"])
        /\ CodeTokens(Reader(t)[n]["after"]) =
             CodeTokens(LeftOf(RestOf(t, n, e))) \o CodeTokens(Reader(t)[e + 1]["code"])
    BY <2>2, AfterLeft, Zenon
  <2> QED BY <1>6, <2>2, <2>3, Zenon DEF LineRead
<1> QED BY <1>5, <1>6

Half(x, open) == [text |-> x, open |-> open]

LEMMA HalfLeft ==
  ASSUME NEW x, NEW open \in BOOLEAN
  PROVE  /\ Half(x, open).open = open
         /\ ~ open => WithoutSlashes(Half(x, open)) = LeftOf(x)
         /\ open => WithoutSlashes(Half(x, open)) = x
<1>1. PICK p : p = Half(x, open)
  OBVIOUS
<1>2. p.text = x /\ p.open = open
  BY <1>1 DEF Half
<1>3. open => WithoutSlashes(p) = x
  BY <1>2, Zenon DEF WithoutSlashes
<1>4. ~ open => WithoutSlashes(p) = LeftOf(x)
  BY <1>2, Zenon DEF WithoutSlashes, LeftOf
<1> QED BY <1>1, <1>2, <1>3, <1>4, Zenon

\* What preprocess leaves of a line has the tokens that are read of it from left to
\* right, and the next line begins in a block comment for both or for none.
LEMMA LineLeaves ==
  ASSUME NEW t \in Seq(Symbol), NEW a, NEW e, InLine(t, a, e), inBlockComment \in BOOLEAN,
         NoOdd(Reader(t)[a][ModeOf(inBlockComment)]),
         NEW p, p = WithoutBlock(RestOf(t, a, e))
  PROVE  LineRead(t, a, e, ModeOf(inBlockComment), WithoutSlashes(p), ModeOf(p.open))
<1>1. PICK l : l = RestOf(t, a, e)
  OBVIOUS
<1>2. ModeOf(TRUE) = "block" /\ ModeOf(FALSE) = "code"
  BY Zenon DEF ModeOf
<1>3. /\ \A x : WithoutSlashes(Half(x, FALSE)) = LeftOf(x) /\ Half(x, FALSE).open = FALSE
      /\ \A x : WithoutSlashes(Half(x, TRUE)) = x /\ Half(x, TRUE).open = TRUE
  BY HalfLeft
<1>4. CASE inBlockComment = TRUE
  <2>1. PICK i : i = Find(l, Closing)
    OBVIOUS
  <2>2. NoOdd(Reader(t)[a]["block"])
    BY <1>2, <1>4, Zenon
  <2>3. CASE i = npos
    <3>1. p = Half(<<>>, TRUE)
      BY <1>1, <1>4, <2>1, <2>3, Zenon DEF WithoutBlock, Half
    <3>2. LineRead(t, a, e, "block", <<>>, "block")
      BY <1>1, <2>1, <2>2, <2>3, BlockLine
    <3> QED BY <1>2, <1>3, <1>4, <3>1, <3>2, Zenon
  <2>4. CASE i # npos
    <3>1. p = Half(After(l, i), FALSE)
      BY <1>1, <1>4, <2>1, <2>4, Zenon DEF WithoutBlock, Half
    <3>2. LineRead(t, a, e, "block", LeftOf(After(l, i)), "code")
      BY <1>1, <2>1, <2>2, <2>4, BlockLine
    <3> QED BY <1>2, <1>3, <1>4, <3>1, <3>2, Zenon
  <2> QED BY <2>3, <2>4
<1>5. CASE inBlockComment = FALSE
  <2>1. PICK s, i : s = Find(l, Opening) /\ i = FindFrom(l, Closing, s + 2)
    OBVIOUS
  <2>2. NoOdd(Reader(t)[a]["code"])
    BY <1>2, <1>5, Zenon
  <2>3. CASE ~ OpensBlock(l)
    <3>1. p = Half(l, FALSE)
      BY <1>1, <1>5, <2>3, Zenon DEF WithoutBlock, Half
    <3>2. LineRead(t, a, e, "code", LeftOf(l), "code")
      BY <1>1, <2>2, <2>3, CodeLine
    <3> QED BY <1>2, <1>3, <1>5, <3>1, <3>2, Zenon
  <2>4. CASE OpensBlock(l) /\ i = npos
    <3>1. p = Half(Before(l, s), TRUE)
      BY <1>1, <1>5, <2>1, <2>4, Zenon DEF WithoutBlock, Half
    <3>2. LineRead(t, a, e, "code", Before(l, s), "block")
      BY <1>1, <2>1, <2>2, <2>4, BlockGoesOn
    <3> QED BY <1>2, <1>3, <1>5, <3>1, <3>2, Zenon
  <2>5. CASE OpensBlock(l) /\ i # npos
    <3>1. p = Half(Before(l, s) \o After(l, i), FALSE)
      BY <1>1, <1>5, <2>1, <2>5, Zenon DEF WithoutBlock, Half
    <3>2. LineRead(t, a, e, "code", LeftOf(Before(l, s) \o After(l, i)), "code")
      BY <1>1, <2>1, <2>2, <2>5, BlockCloses
    <3> QED BY <1>2, <1>3, <1>5, <3>1, <3>2, Zenon
  <2> QED BY <2>3, <2>4, <2>5
<1> QED BY <1>4, <1>5

-----------------------------------------------------------------------------
(* The lines of a file in its text.                                         *)

Begins(x, y) == Len(x) <= Len(y) /\ \A j \in 1 .. Len(x) : y[j] = x[j]

\* A beginning of the first part is a beginning of the whole.
LEMMA BeginsJoined ==
  ASSUME NEW S, NEW x \in Seq(S), NEW y \in Seq(S), NEW w \in Seq(S), Begins(w, x)
  PROVE  Begins(w, x \o y)
<1>1. PICK z : z = x \o y
  OBVIOUS
<1>2. /\ Len(z) = Len(x) + Len(y) /\ Len(x) \in Nat /\ Len(y) \in Nat /\ Len(w) \in Nat
      /\ \A j \in 1 .. Len(x) : z[j] = x[j]
  BY <1>1
<1>3. Len(w) <= Len(x) /\ \A j \in 1 .. Len(w) : x[j] = w[j]
  BY DEF Begins
<1>4. Len(w) <= Len(z)
  BY <1>2, <1>3
<1>5. ASSUME NEW j \in 1 .. Len(w) PROVE z[j] = w[j]
  <2>1. j \in 1 .. Len(x)
    BY <1>2, <1>3
  <2> QED BY <1>2, <1>3, <2>1
<1>6. Begins(w, z)
  BY <1>4, <1>5 DEF Begins
<1> QED BY <1>1, <1>6

LEMMA BeginsItself ==
  ASSUME NEW S, NEW x \in Seq(S)
  PROVE  Begins(x, x)
BY DEF Begins

\* What is put together grows.
LEMMA FlatGrows ==
  ASSUME NEW S, NEW s \in Seq(Seq(S)), NEW n \in 1 .. Len(s)
  PROVE  Flat(s)[n] \in Seq(S) /\ \A m \in 1 .. n : Begins(Flat(s)[m], Flat(s)[n])
<1>0. Len(s) \in Nat /\ \A i \in 1 .. Len(s) : s[i] \in Seq(S)
  OBVIOUS
<1> DEFINE g == Flat(s)
           Grows(i) == g[i] \in Seq(S) /\ \A m \in 1 .. i : Begins(g[m], g[i])
           Q == {i \in 1 .. Len(s) : ~ Grows(i)}
<1>1. \A i \in 1 .. Len(s) : g[i] = IF i = 1 THEN s[i] ELSE g[i - 1] \o s[i]
  <2>1. IsFlat(g, s)
    BY <1>0, FlatThere
  <2> HIDE DEF g
  <2> QED BY <2>1 DEF IsFlat
<1>2. Q = {}
  <2> SUFFICES ASSUME Q # {} PROVE FALSE
    OBVIOUS
  <2> HIDE DEF g
  <2>1. PICK i \in Q : \A k \in Q : i <= k
    <3>1. Q \subseteq Nat
      OBVIOUS
    <3> HIDE DEF Q
    <3> QED BY <3>1, LeastNat
  <2>2. i \in 1 .. Len(s) /\ ~ Grows(i)
    BY <2>1
  <2>3. i # 1 => i - 1 \in 1 .. Len(s) /\ Grows(i - 1)
    <3> SUFFICES ASSUME i # 1 PROVE i - 1 \in 1 .. Len(s) /\ Grows(i - 1)
      OBVIOUS
    <3>1. i - 1 \in 1 .. Len(s)
      BY <1>0, <2>2
    <3>2. ~(i <= i - 1)
      BY <2>2
    <3> HIDE DEF Grows
    <3> QED BY <2>1, <3>1, <3>2
  <2>4. CASE i = 1
    <3>1. g[1] = s[1] /\ s[1] \in Seq(S)
      BY <1>0, <1>1, <2>2, <2>4
    <3>2. \A m \in 1 .. 1 : m = 1
      OBVIOUS
    <3>3. Begins(g[1], g[1])
      BY <3>1, BeginsItself
    <3> QED BY <2>2, <2>4, <3>1, <3>2, <3>3, Zenon
  <2>5. CASE i # 1
    <3>1. PICK x, y : x = g[i - 1] /\ y = s[i]
      OBVIOUS
    <3>2. x \in Seq(S) /\ y \in Seq(S) /\ g[i] = x \o y
      BY <1>0, <1>1, <2>2, <2>3, <2>5, <3>1
    <3>3. g[i] \in Seq(S)
      BY <3>2
    <3>4. ASSUME NEW m \in 1 .. i PROVE Begins(g[m], g[i])
      <4>1. CASE m = i
        BY <3>3, <4>1, BeginsItself
      <4>2. CASE m # i
        <5>1. m \in 1 .. (i - 1) /\ m \in 1 .. Len(s) /\ i - 1 \in 1 .. Len(s)
          BY <1>0, <2>2, <4>2
        <5>2. Begins(g[m], x)
          BY <2>3, <2>5, <3>1, <5>1
        <5>3. Grows(m)
          <6>1. ~(i <= m)
            BY <2>2, <5>1
          <6> HIDE DEF Grows
          <6> QED BY <2>1, <5>1, <6>1
        <5>4. g[m] \in Seq(S)
          BY <5>3
        <5> QED BY <3>2, <5>2, <5>4, BeginsJoined
      <4> QED BY <4>1, <4>2
    <3> QED BY <2>2, <3>3, <3>4
  <2> QED BY <2>4, <2>5
<1> HIDE DEF g
<1>3. Grows(n)
  <2> HIDE DEF Grows
  <2> QED BY <1>2
<1> QED BY <1>3 DEF g

\* The lines of f with what ends them, and where the n-th ends and begins in the text.
Ended(f) == [k \in DOMAIN f |-> Append(f[k], NewLine)]
EndOf(f, n) == IF n = 0 THEN 0 ELSE Len(Flat(Ended(f))[n])
StartOf(f, n) == EndOf(f, n - 1) + 1

LEMMA EndedType ==
  ASSUME NEW f \in Seq(Seq(STRING))
  PROVE  Ended(f) \in Seq(Seq(Symbol)) /\ Len(Ended(f)) = Len(f)
<1>1. \A x \in Seq(STRING) : x \in Seq(Symbol)
  BY DEF Symbol
<1>2. \A k \in DOMAIN f : f[k] \in Seq(STRING)
  OBVIOUS
<1>3. NewLine \in Symbol
  BY DEF Symbol
<1>4. \A x \in Seq(Symbol) : Append(x, NewLine) \in Seq(Symbol)
  BY <1>3
<1>5. \A k \in DOMAIN f : Append(f[k], NewLine) \in Seq(Symbol)
  BY <1>1, <1>2, <1>4
<1>6. DOMAIN f = 1 .. Len(f) /\ Len(f) \in Nat
  OBVIOUS
<1> HIDE DEF NewLine
<1>7. Ended(f) \in [1 .. Len(f) -> Seq(Symbol)]
  BY <1>5, <1>6 DEF Ended
<1> QED BY <1>6, <1>7

\* The text of a file is its lines with what ends them, all put together.
LEMMA TextIs ==
  ASSUME NEW f \in Seq(Seq(STRING))
  PROVE  /\ Text(f) \in Seq(Symbol) /\ Len(Text(f)) = EndOf(f, Len(f))
         /\ Len(f) # 0 => Text(f) = Flat(Ended(f))[Len(f)]
<1>1. Ended(f) \in Seq(Seq(Symbol)) /\ Len(Ended(f)) = Len(f) /\ Len(f) \in Nat
  BY EndedType
<1>2. Text(f) = FlattenSeq(Ended(f))
  BY Zenon DEF Text, Ended
<1>3. CASE Len(f) = 0
  <2>1. Text(f) = Ended(f)
    BY <1>1, <1>2, <1>3, FlattenIsFlat
  <2>2. Ended(f) = <<>>
    BY <1>1, <1>3
  <2> QED BY <1>3, <2>1, <2>2 DEF EndOf
<1>4. CASE Len(f) # 0
  <2>1. Text(f) = Flat(Ended(f))[Len(f)]
    BY <1>1, <1>2, <1>4, FlattenIsFlat
  <2>2. Len(f) \in 1 .. Len(Ended(f))
    BY <1>1, <1>4
  <2>3. Flat(Ended(f))[Len(f)] \in Seq(Symbol)
    BY <1>1, <2>2, FlatGrows
  <2> QED BY <1>4, <2>1, <2>3 DEF EndOf
<1> QED BY <1>3, <1>4

\* A line in a text: behind h, with l in it.
LEMMA LinePlaced ==
  ASSUME NEW h \in Seq(Symbol), NEW l \in Seq(Symbol), \A j \in 1 .. Len(l) : l[j] # NewLine,
         NEW x, x = h \o Append(l, NewLine), NEW t \in Seq(Symbol), Begins(x, t)
  PROVE  /\ Len(x) = (Len(h) + Len(l)) + 1
         /\ InLine(t, Len(h) + 1, Len(x)) /\ RestOf(t, Len(h) + 1, Len(x)) = l
<1>1. PICK y, d : d = NewLine /\ y = Append(l, d)
  OBVIOUS
<1>2. d \in Symbol
  BY <1>1 DEF Symbol
<1>3. /\ y \in Seq(Symbol) /\ Len(y) = Len(l) + 1 /\ y[Len(l) + 1] = d
      /\ \A j \in 1 .. Len(l) : y[j] = l[j]
      /\ Len(l) \in Nat /\ Len(h) \in Nat /\ Len(t) \in Nat
  BY <1>1, <1>2
<1>4. x = h \o y
  BY <1>1, Zenon
<1>5. Len(x) = Len(h) + Len(y) /\ \A j \in 1 .. Len(y) : x[Len(h) + j] = y[j]
  <2>1. y \in Seq(Symbol)
    BY <1>3
  <2>2. /\ Len(h \o y) = Len(h) + Len(y)
        /\ \A j \in 1 .. Len(y) : (h \o y)[Len(h) + j] = y[j]
    BY <2>1, JoinAt
  <2> QED BY <1>4, <2>2, Zenon
<1>6. Len(x) = (Len(h) + Len(l)) + 1 /\ Len(x) \in Nat
  <2>1. Len(y) = Len(l) + 1 /\ Len(x) = Len(h) + Len(y) /\ Len(l) \in Nat /\ Len(h) \in Nat
    BY <1>3, <1>5
  <2> QED BY <2>1
<1>7. Len(x) <= Len(t) /\ \A j \in 1 .. Len(x) : t[j] = x[j]
  BY DEF Begins
<1>8. PICK a, e : a = Len(h) + 1 /\ e = Len(x)
  OBVIOUS
<1>9. a \in 1 .. e /\ e \in 1 .. Len(t) /\ e - a = Len(l) /\ e = Len(h) + (Len(l) + 1)
      /\ e \in Nat /\ a - 1 = Len(h)
  <2>1. Len(x) <= Len(t)
    BY <1>7
  <2>2. Len(l) \in Nat /\ Len(h) \in Nat /\ Len(t) \in Nat
    BY <1>3
  <2> QED BY <1>6, <1>8, <2>1, <2>2
<1>10. t[e] = NewLine
  <2>1. Len(l) + 1 \in 1 .. Len(y)
    BY <1>3
  <2>2. x[Len(h) + (Len(l) + 1)] = d
    BY <1>3, <1>5, <2>1
  <2>3. e \in 1 .. Len(x)
    BY <1>6, <1>8, <1>9
  <2> QED BY <1>1, <1>7, <1>9, <2>2, <2>3
<1>11. ASSUME NEW j \in 1 .. Len(l) PROVE t[Len(h) + j] = l[j]
  <2>1. j \in 1 .. Len(y) /\ Len(h) + j \in 1 .. Len(x)
    <3>1. Len(y) = Len(l) + 1 /\ Len(l) \in Nat /\ Len(h) \in Nat
      BY <1>3
    <3> QED BY <1>6, <3>1
  <2>2. y[j] = l[j]
    BY <1>3
  <2>3. x[Len(h) + j] = y[j]
    BY <1>5, <2>1
  <2>4. t[Len(h) + j] = x[Len(h) + j]
    BY <1>7, <2>1
  <2> QED BY <2>2, <2>3, <2>4
<1>12. InLine(t, a, e)
  <2>1. ASSUME NEW j \in a .. (e - 1) PROVE t[j] # NewLine
    <3>1. PICK n : n = j - Len(h)
      OBVIOUS
    <3>2. n \in 1 .. Len(l) /\ Len(h) + n = j
      <4>1. Len(l) \in Nat /\ Len(h) \in Nat
        BY <1>3
      <4>2. a = Len(h) + 1 /\ e - a = Len(l) /\ e \in Nat
        BY <1>8, <1>9
      <4> QED BY <3>1, <4>1, <4>2
    <3> QED BY <1>11, <3>2
  <2> QED BY <1>9, <1>10, <2>1 DEF InLine
<1>13. RestOf(t, a, e) = l
  <2>1. PICK r : r = RestOf(t, a, e)
    OBVIOUS
  <2>2. r \in Seq(Symbol) /\ Len(r) = e - a /\ \A j \in 1 .. (e - a) : r[j] = t[(a - 1) + j]
    BY <1>12, <2>1, RestType
  <2>3. Len(r) = Len(l)
    BY <1>9, <2>2
  <2>4. ASSUME NEW j \in 1 .. Len(l) PROVE r[j] = l[j]
    <3>1. j \in 1 .. (e - a) /\ (a - 1) + j = Len(h) + j
      BY <1>9
    <3> QED BY <1>11, <2>2, <3>1
  <2>5. r = l
    BY <2>2, <2>3, <2>4
  <2> QED BY <2>1, <2>5
<1> QED BY <1>6, <1>8, <1>12, <1>13

\* The lines of a file are where its text has them.
LEMMA LineThere ==
  ASSUME NEW f \in Sources, NEW n \in 1 .. Len(f)
  PROVE  /\ InLine(Text(f), StartOf(f, n), EndOf(f, n))
         /\ RestOf(Text(f), StartOf(f, n), EndOf(f, n)) = f[n]
         /\ StartOf(f, n + 1) = EndOf(f, n) + 1
<1>1. f \in Seq(Seq(STRING)) /\ Len(f) \in Nat /\ \A j \in DOMAIN f[n] : f[n][j] # NewLine
      /\ n \in DOMAIN f
  <2>1. f \in Seq(Seq(STRING))
    BY SourcesAssumption
  <2>2. n \in DOMAIN f /\ Len(f) \in Nat
    BY <2>1
  <2> QED BY <2>1, <2>2, SourcesAssumption
<1>2. PICK s, g : s = Ended(f) /\ g = Flat(s)
  OBVIOUS
<1>3. s \in Seq(Seq(Symbol)) /\ Len(s) = Len(f)
  BY <1>1, <1>2, EndedType
<1>4. PICK l : l = f[n]
  OBVIOUS
<1>5. l \in Seq(Symbol) /\ \A j \in 1 .. Len(l) : l[j] # NewLine
  <2>1. l \in Seq(STRING)
    BY <1>1, <1>4
  <2>2. l \in Seq(Symbol)
    BY <2>1 DEF Symbol
  <2>3. DOMAIN l = 1 .. Len(l)
    BY <2>2
  <2> QED BY <1>1, <1>4, <2>2, <2>3
<1>6. PICK h : h = IF n = 1 THEN <<>> ELSE g[n - 1]
  OBVIOUS
<1>7. n # 1 => n - 1 \in 1 .. Len(s)
  BY <1>1, <1>3
<1>8. h \in Seq(Symbol) /\ g[n] \in Seq(Symbol)
  <2>1. n \in 1 .. Len(s)
    BY <1>3
  <2> QED BY <1>2, <1>3, <1>6, <1>7, <2>1, FlatGrows
<1>9. Len(h) = EndOf(f, n - 1)
  <2>1. n - 1 = 0 <=> n = 1
    OBVIOUS
  <2>2. Len(<<>>) = 0
    OBVIOUS
  <2>3. CASE n = 1
    BY <1>6, <2>1, <2>2, <2>3, Zenon DEF EndOf
  <2>4. CASE n # 1
    BY <1>2, <1>6, <2>1, <2>4, Zenon DEF EndOf
  <2> QED BY <2>3, <2>4
<1>10. g[n] = h \o Append(l, NewLine)
  <2>1. IsFlat(g, s)
    BY <1>1, <1>2, <1>3, FlatThere
  <2>2. g[n] = IF n = 1 THEN s[n] ELSE g[n - 1] \o s[n]
    BY <1>3, <2>1 DEF IsFlat
  <2>3. s[n] = Append(l, NewLine)
    <3>1. Ended(f)[n] = Append(f[n], NewLine)
      BY <1>1 DEF Ended
    <3> QED BY <1>2, <1>4, <3>1, Zenon
  <2>4. s[n] \in Seq(Symbol)
    BY <1>3
  <2>5. s[n] = <<>> \o s[n]
    <3>1. PICK y : y = s[n]
      OBVIOUS
    <3>2. y \in Seq(Symbol)
      BY <2>4, <3>1
    <3>3. y = <<>> \o y
      BY <3>2
    <3> QED BY <3>1, <3>3, Zenon
  <2>6. CASE n = 1
    BY <1>6, <2>2, <2>3, <2>5, <2>6, Zenon
  <2>7. CASE n # 1
    BY <1>6, <2>2, <2>3, <2>7, Zenon
  <2> QED BY <2>6, <2>7
<1>11. PICK t : t = Text(f)
  OBVIOUS
<1>12. t \in Seq(Symbol) /\ Begins(g[n], t)
  <2>1. Len(f) # 0
    BY <1>1
  <2>2. t \in Seq(Symbol) /\ t = g[Len(f)]
    BY <1>1, <1>2, <1>11, <2>1, TextIs
  <2>3. Len(f) \in 1 .. Len(s) /\ n \in 1 .. Len(f)
    BY <1>1, <1>3
  <2>4. Begins(g[n], g[Len(f)])
    BY <1>2, <1>3, <2>3, FlatGrows
  <2> QED BY <2>2, <2>4
<1>13. PICK x : x = g[n]
  OBVIOUS
<1>14. x = h \o Append(l, NewLine) /\ Begins(x, t)
  BY <1>10, <1>12, <1>13, Zenon
<1>15. InLine(t, Len(h) + 1, Len(x)) /\ RestOf(t, Len(h) + 1, Len(x)) = l
  BY <1>5, <1>8, <1>12, <1>14, LinePlaced, Zenon
<1>16. n # 0 /\ (n + 1) - 1 = n
  OBVIOUS
<1>17. Len(x) = EndOf(f, n)
  BY <1>2, <1>13, <1>16, Zenon DEF EndOf
<1>18. StartOf(f, n) = Len(h) + 1 /\ StartOf(f, n + 1) = EndOf(f, n) + 1
  BY <1>9, <1>16, Zenon DEF StartOf
<1> QED BY <1>4, <1>11, <1>15, <1>17, <1>18, Zenon

-----------------------------------------------------------------------------
(* The invariant.                                                           *)

\* What is read from the next line on.
ToRead == Reader(Text(file))[StartOf(file, line)][ModeOf(inBlockComment)]
\* What preprocess has put together has the tokens of what is read of the lines before.
HalfRead ==
  NoOdd(Comments(Text(file))) =>
    NoOdd(ToRead) /\ CodeTokens(Comments(Text(file))) = CodeTokens(ss) \o CodeTokens(ToRead)
ReadInv == line \in 1 .. (Len(file) + 1) /\ HalfRead

LEMMA NothingPrefixed ==
  ASSUME NEW t \in Seq(Symbol)
  PROVE  CodeTokens(t) = CodeTokens(<<>>) \o CodeTokens(t) /\ CodeTokens(t) = CodeTokens(t) \o CodeTokens(<<>>)
<1>1. PICK u : u = CodeTokens(t)
  OBVIOUS
<1>2. u \in Seq(AnyToken)
  BY <1>1, TokensType
<1>3. u = <<>> \o u /\ u = u \o <<>>
  BY <1>2
<1> QED BY <1>1, <1>3, NoTokensInNothing, Zenon

LEMMA StartType ==
  ASSUME NEW f \in Sources
  PROVE  /\ f \in Seq(Seq(STRING)) /\ Len(f) \in Nat /\ Text(f) \in Seq(Symbol)
         /\ StartOf(f, 1) = 1 /\ StartOf(f, Len(f) + 1) = Len(Text(f)) + 1
<1>1. f \in Seq(Seq(STRING))
  BY SourcesAssumption
<1>2. Len(f) \in Nat
  BY <1>1
<1>3. Text(f) \in Seq(Symbol) /\ Len(Text(f)) = EndOf(f, Len(f))
  BY <1>1, TextIs
<1>4. StartOf(f, 1) = 1
  <2>1. 1 - 1 = 0 /\ 0 + 1 = 1
    OBVIOUS
  <2> QED BY <2>1, Zenon DEF StartOf, EndOf
<1>5. StartOf(f, Len(f) + 1) = Len(Text(f)) + 1
  <2>1. (Len(f) + 1) - 1 = Len(f)
    BY <1>2
  <2> QED BY <1>3, <2>1, Zenon DEF StartOf
<1> QED BY <1>1, <1>2, <1>3, <1>4, <1>5

\* Nothing is together, and everything is to be read.
LEMMA ReadBegins == ScanInit => ReadInv
<1> SUFFICES ASSUME ScanInit PROVE ReadInv
  OBVIOUS
<1>1. file \in Sources /\ line = 1 /\ inBlockComment = FALSE /\ ss = <<>>
  BY DEF ScanInit
<1>2. PICK t : t = Text(file)
  OBVIOUS
<1>3. Len(file) \in Nat /\ t \in Seq(Symbol) /\ StartOf(file, line) = 1
  BY <1>1, <1>2, StartType
<1>4. ToRead = Reader(t)[1]["code"]
  BY <1>1, <1>2, <1>3, Zenon DEF ToRead, ModeOf
<1>5. Comments(t) = Reader(t)[1]["code"]
  BY <1>3, CommentsAreRead
<1>6. Reader(t)[1]["code"] \in Seq(Symbol)
  <2>1. 1 \in 1 .. (Len(t) + 1) /\ "code" \in Modes
    BY <1>3 DEF Modes
  <2> QED BY <1>3, <2>1, ReadType
<1>7. CodeTokens(Comments(t)) = CodeTokens(ss) \o CodeTokens(ToRead)
  <2>1. PICK y : y = Reader(t)[1]["code"]
    OBVIOUS
  <2>2. CodeTokens(y) = CodeTokens(<<>>) \o CodeTokens(y)
    BY <1>6, <2>1, NothingPrefixed, Zenon
  <2> QED BY <1>1, <1>4, <1>5, <2>1, <2>2, Zenon
<1>8. HalfRead
  BY <1>2, <1>4, <1>5, <1>7, Zenon DEF HalfRead
<1>9. line \in 1 .. (Len(file) + 1)
  BY <1>1, <1>3
<1> QED BY <1>8, <1>9 DEF ReadInv

\* A line behind a text that ends in a blank, or behind nothing.
LEMMA BlankBetween ==
  ASSUME NEW s \in Seq(Symbol), BlankLast(s), NEW x \in Seq(Symbol)
  PROVE  /\ CodeTokens(s \o x) = CodeTokens(s) \o CodeTokens(x)
         /\ CodeTokens((s \o x) \o <<Space>>) = CodeTokens(s) \o CodeTokens(x)
<1>1. Separate(s, x)
  BY DEF BlankLast, Separate
<1>2. PICK z : z = s \o x
  OBVIOUS
<1>3. z \in Seq(Symbol)
  BY <1>2
<1>4. CodeTokens(z) = CodeTokens(s) \o CodeTokens(x)
  BY <1>1, <1>2, TokensJoin, Zenon
<1>5. CodeTokens(z \o <<Space>>) = CodeTokens(z)
  <2>1. <<>> \in Seq(Symbol)
    OBVIOUS
  <2>2. (z \o <<Space>>) \o <<>> = z \o <<Space>>
    <3>1. PICK y : y = z \o <<Space>>
      OBVIOUS
    <3>2. <<Space>> \in Seq(Symbol)
      BY DEF Symbol
    <3>3. y \in Seq(Symbol)
      BY <1>3, <3>1, <3>2
    <3>4. y \o <<>> = y
      BY <3>3
    <3> QED BY <3>1, <3>4, Zenon
  <2>3. CodeTokens((z \o <<Space>>) \o <<>>) = CodeTokens(z) \o CodeTokens(<<>>)
    BY <1>3, <2>1, BlankSeparates, Zenon
  <2> QED BY <1>3, <2>2, <2>3, NothingPrefixed, Zenon
<1> QED BY <1>2, <1>4, <1>5, Zenon

\* A line more, and a line less to be read.
LEMMA PreprocessReads ==
  ASSUME ScanInv, ReadInv, Preprocess
  PROVE  ReadInv'
<1>1. PICK l, p, left : l = file[line] /\ p = WithoutBlock(l) /\ left = WithoutSlashes(p)
  OBVIOUS
<1>2. /\ line <= Len(file) /\ line' = line + 1 /\ file' = file /\ inBlockComment' = p.open
      /\ ss' = IF left = <<>> THEN ss ELSE (ss \o left) \o <<Space>>
  BY <1>1, Zenon DEF Preprocess, Joined, Space
<1>3. /\ file \in Sources /\ inBlockComment \in BOOLEAN /\ ss \in Seq(Symbol) /\ BlankLast(ss)
  BY Zenon DEF ScanInv, ScanType, EndsInBlank
<1>4. line \in 1 .. (Len(file) + 1)
  BY DEF ReadInv
<1>5. PICK t : t = Text(file)
  OBVIOUS
<1>6. t \in Seq(Symbol) /\ Len(file) \in Nat /\ file \in Seq(Seq(STRING))
  BY <1>3, <1>5, StartType
<1>7. line \in 1 .. Len(file) /\ line + 1 \in 1 .. (Len(file) + 1)
  BY <1>2, <1>4, <1>6
<1>8. PICK a, e : a = StartOf(file, line) /\ e = EndOf(file, line)
  OBVIOUS
<1>9. InLine(t, a, e) /\ RestOf(t, a, e) = l /\ StartOf(file, line + 1) = e + 1
  BY <1>1, <1>3, <1>5, <1>7, <1>8, LineThere, Zenon
<1>10. l \in Seq(Symbol) /\ left \in Seq(Symbol)
  <2>1. l \in Seq(Symbol)
    BY <1>9, <1>6, RestType
  <2> QED BY <1>1, <2>1, LineLeft
<1>11. PICK m, n : m = ModeOf(inBlockComment) /\ n = ModeOf(p.open)
  OBVIOUS
<1>12. ToRead = Reader(t)[a][m] /\ ToRead' = Reader(t)[e + 1][n]
  <2>1. ToRead = Reader(t)[a][m]
    BY <1>5, <1>8, <1>11, Zenon DEF ToRead
  <2>2. StartOf(file, line)' = e + 1
    BY <1>2, <1>9, Zenon
  <2>3. ModeOf(inBlockComment)' = n /\ Text(file)' = t
    BY <1>2, <1>5, <1>11, Zenon
  <2> QED BY <2>1, <2>2, <2>3, Zenon DEF ToRead
<1>13. HalfRead'
  <2> SUFFICES ASSUME NoOdd(Comments(t))
               PROVE  /\ NoOdd(Reader(t)[e + 1][n])
                      /\ CodeTokens(Comments(t)) = CodeTokens(ss') \o CodeTokens(Reader(t)[e + 1][n])
    <3>1. Text(file)' = t
      BY <1>2, <1>5, Zenon
    <3> QED BY <1>12, <3>1, Zenon DEF HalfRead
  <2>1. NoOdd(Reader(t)[a][m]) /\ CodeTokens(Comments(t)) = CodeTokens(ss) \o CodeTokens(Reader(t)[a][m])
    BY <1>5, <1>12, Zenon DEF ReadInv, HalfRead
  <2>2. LineRead(t, a, e, m, left, n)
    BY <1>1, <1>3, <1>6, <1>9, <1>11, <2>1, LineLeaves, Zenon
  <2>3. PICK y : y = Reader(t)[e + 1][n]
    OBVIOUS
  <2>4. NoOdd(y) /\ CodeTokens(Reader(t)[a][m]) = CodeTokens(left) \o CodeTokens(y)
    BY <2>2, <2>3, Zenon DEF LineRead
  <2>5. y \in Seq(Symbol)
    <3>1. n \in Modes
      BY <1>11, Zenon DEF ModeOf, Modes
    <3> QED BY <1>6, <1>9, <2>3, <3>1, Behind
  <2>6. CodeTokens(ss') = CodeTokens(ss) \o CodeTokens(left)
    <3>1. CASE left = <<>>
      BY <1>2, <1>3, <3>1, NothingPrefixed, NoTokensInNothing, Zenon
    <3>2. CASE left # <<>>
      BY <1>2, <1>3, <1>10, <3>2, BlankBetween, Zenon
    <3> QED BY <3>1, <3>2
  <2>7. CodeTokens(ss) \o (CodeTokens(left) \o CodeTokens(y)) =
          (CodeTokens(ss) \o CodeTokens(left)) \o CodeTokens(y)
    BY <1>3, <1>10, <2>5, TokensRegroup, Zenon
  <2> QED BY <2>1, <2>3, <2>4, <2>6, <2>7, Zenon
<1>14. (line \in 1 .. (Len(file) + 1))'
  BY <1>2, <1>7
<1> QED BY <1>13, <1>14 DEF ReadInv

LEMMA ReadStutters ==
  ASSUME ReadInv, UNCHANGED <<file, line, inBlockComment, ss>>
  PROVE  ReadInv'
<1>1. ToRead' = ToRead
  BY Zenon DEF ToRead
<1>2. HalfRead' <=> HalfRead
  BY <1>1, Zenon DEF HalfRead
<1> QED BY <1>2 DEF ReadInv

LEMMA TextIsRead ==
  ASSUME ScanInv
  PROVE  Comments(Text(file)) \in Seq(Symbol)
<1>1. PICK t : t = Text(file)
  OBVIOUS
<1>2. file \in Sources
  BY DEF ScanInv, ScanType
<1>3. t \in Seq(Symbol)
  BY <1>1, <1>2, StartType
<1>4. 1 \in 1 .. (Len(t) + 1) /\ "code" \in Modes
  BY <1>3 DEF Modes
<1>5. Reader(t)[1]["code"] \in Seq(Symbol)
  BY <1>3, <1>4, ReadType
<1> QED BY <1>1, <1>3, <1>5, CommentsAreRead

\* The two readings have the same tokens at the end.
LEMMA SameTokens ==
  ASSUME ScanInv, ReadInv, line > Len(file), AllCut(Comments(Text(file)))
  PROVE  CodeTokens(Comments(Text(file))) = CodeTokens(ss)
<1>1. PICK t : t = Text(file)
  OBVIOUS
<1>2. file \in Sources /\ ss \in Seq(Symbol)
  BY DEF ScanInv, ScanType
<1>3. t \in Seq(Symbol) /\ Len(file) \in Nat /\ StartOf(file, Len(file) + 1) = Len(t) + 1
  BY <1>1, <1>2, StartType
<1>4. line = Len(file) + 1
  BY <1>3 DEF ReadInv
<1>5. PICK m : m = ModeOf(inBlockComment)
  OBVIOUS
<1>6. m \in Modes
  BY <1>5, Zenon DEF ModeOf, Modes
<1>7. ToRead = Reader(t)[Len(t) + 1][m]
  BY <1>1, <1>3, <1>4, <1>5, Zenon DEF ToRead
<1>8. ToRead = <<>>
  BY <1>3, <1>6, <1>7, ReadEnd
<1>9. Comments(t) \in Seq(Symbol)
  BY <1>1, TextIsRead
<1>10. NoOdd(Comments(t))
  BY <1>1, <1>9, TokensHaveNoOdd, Zenon
<1>11. CodeTokens(Comments(t)) = CodeTokens(ss) \o CodeTokens(<<>>)
  BY <1>1, <1>8, <1>10, Zenon DEF ReadInv, HalfRead
<1> QED BY <1>1, <1>2, <1>11, NothingPrefixed, Zenon

\* Whatever the files: a source whose text is a sequence of tokens, with every comment
\* for a blank, is scanned into them, and none of the assertions of the automaton fails
\* (lexical.cpp:52-175, 195-258).
THEOREM SourceScanned == LexerSpec => []ScansTheSource
<1> DEFINE Inv == ScanInv /\ CutInv /\ ReadInv
<1>1. ScanInit => Inv
  BY ScanBegins, CutBegins, ReadBegins
<1>2. Inv /\ [ScanNext]_scanner => Inv'
  <2> SUFFICES ASSUME ScanInv, CutInv, ReadInv, [ScanNext]_scanner
               PROVE  ScanInv' /\ CutInv' /\ ReadInv'
    OBVIOUS
  <2>1. CASE Preprocess
    BY <2>1, PreprocessAccounts, PreprocessCuts, PreprocessReads
  <2>2. CASE Blank \/ BlankAgain \/ FromEmpty \/ FromFloatLiteral \/ FromIdent \/ FromIntLiteral
             \/ FromOp
    <3>1. UNCHANGED <<file, line, inBlockComment, ss>>
      BY <2>2, Zenon DEF Blank, BlankAgain, FromEmpty, FromFloatLiteral, FromIdent,
                         FromIntLiteral, FromOp, Emit, Longer, Failing, Read, InText
    <3> QED BY <2>2, <3>1, AutomatonAccounts, AutomatonCuts, ReadStutters
  <2>3. CASE Scanned \/ UNCHANGED scanner
    <3>1. UNCHANGED scanner
      BY <2>3, Zenon DEF Scanned
    <3>2. UNCHANGED <<file, line, inBlockComment, ss>>
      BY <3>1 DEF scanner
    <3> QED BY <3>1, <3>2, ScanStutters, CutStutters, ReadStutters
  <2> QED BY <2>1, <2>2, <2>3, Zenon DEF ScanNext
<1>3. Inv => ScansTheSource
  <2> SUFFICES ASSUME ScanInv, CutInv, ReadInv, ScanDone, AllTokens(Comments(Text(file)))
               PROVE  CutInto(Comments(Text(file)))
    BY Zenon DEF ScansTheSource
  <2>1. line > Len(file)
    BY Zenon DEF ScanDone
  <2>2. Comments(Text(file)) \in Seq(Symbol)
    BY TextIsRead
  <2>3. AllCut(Comments(Text(file)))
    BY <2>2, SameSpelling, Zenon
  <2>4. CodeTokens(Comments(Text(file))) = CodeTokens(ss)
    BY <2>1, <2>3, SameTokens
  <2>5. AllCut(ss)
    BY <2>3, <2>4, Zenon DEF AllCut
  <2>6. Going /\ ans = CodeTokens(ss)
    BY <2>5, CodeMeans
  <2> QED BY <2>2, <2>4, <2>6, SameSpelling, Zenon DEF CutInto, Going
<1> QED BY <1>1, <1>2, <1>3, PTL DEF LexerSpec
=============================================================================
