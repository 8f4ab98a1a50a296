-------------------------- MODULE SeparationProofs --------------------------
(***************************************************************************)
(* What does not depend on the scanner: two texts with a blank between      *)
(* them have the tokens of the one and then those of the other, and a text  *)
(* that is a sequence of tokens has no character that belongs to none.      *)
(***************************************************************************)
EXTENDS CuttingProofs

-----------------------------------------------------------------------------
(* A blank separates tokens.                                                *)

\* The characters of t from the k-th on are in u, d characters further on, and end there.
Ending(t, k, u, d) ==
  /\ k \in 1 .. Len(t) /\ d \in Nat /\ d + Len(t) <= Len(u)
  /\ \A j \in k .. Len(t) : u[d + j] = t[j]
  /\ d + Len(t) < Len(u) => u[d + Len(t) + 1] = Space

LEMMA SameLength ==
  ASSUME NEW t \in Seq(Symbol), NEW u \in Seq(Symbol), NEW k, NEW d, Ending(t, k, u, d)
  PROVE  LengthAt(u, d + k) = LengthAt(t, k)
<1>1. /\ k \in 1 .. Len(t) /\ d \in Nat /\ Len(t) \in Nat /\ Len(u) \in Nat /\ d + Len(t) <= Len(u)
      /\ \A j \in k .. Len(t) : u[d + j] = t[j]
      /\ d + Len(t) < Len(u) => u[d + Len(t) + 1] = Space
  BY DEF Ending
<1>2. d + k \in 1 .. Len(u) /\ u[d + k] = t[k]
  BY <1>1
<1>3. CASE t[k] \in WordChars
  <2> DEFINE n == LengthAt(t, k)  m == LengthAt(u, d + k)
  <2>1. /\ n \in 1 .. (Len(t) - k + 1)
        /\ \A j \in k .. (k + n - 1) : t[j] \in WordChars
        /\ \A i \in 1 .. (Len(t) - k + 1) :
             (\A j \in k .. (k + i - 1) : t[j] \in WordChars) => i <= n
    BY <1>1, <1>3, WordLength
  <2>2. /\ m \in 1 .. (Len(u) - (d + k) + 1)
        /\ \A j \in (d + k) .. (d + k + m - 1) : u[j] \in WordChars
        /\ \A i \in 1 .. (Len(u) - (d + k) + 1) :
             (\A j \in (d + k) .. (d + k + i - 1) : u[j] \in WordChars) => i <= m
    BY <1>1, <1>2, <1>3, WordLength
  <2> HIDE DEF n, m
  <2>3. n <= m
    <3>1. n \in 1 .. (Len(u) - (d + k) + 1)
      BY <1>1, <2>1
    <3>2. ASSUME NEW j \in (d + k) .. (d + k + n - 1) PROVE u[j] \in WordChars
      <4>1. j - d \in k .. (k + n - 1) /\ j - d \in k .. Len(t) /\ d + (j - d) = j
        BY <1>1, <2>1
      <4>2. u[d + (j - d)] = t[j - d]
        BY <1>1, <4>1
      <4> QED BY <2>1, <4>1, <4>2
    <3> QED BY <2>2, <3>1, <3>2
  <2>4. m \in 1 .. (Len(t) - k + 1)
    <3> SUFFICES ASSUME m > Len(t) - k + 1 PROVE FALSE
      BY <1>1, <2>2
    <3>1. d + Len(t) + 1 \in (d + k) .. (d + k + m - 1) /\ d + Len(t) < Len(u)
      BY <1>1, <2>2
    <3>2. Space \in WordChars
      BY <1>1, <2>2, <3>1
    <3> QED BY <3>2, Classes
  <2>5. m <= n
    <3>1. ASSUME NEW j \in k .. (k + m - 1) PROVE t[j] \in WordChars
      <4>1. d + j \in (d + k) .. (d + k + m - 1) /\ j \in k .. Len(t)
        BY <1>1, <2>4
      <4>2. u[d + j] = t[j]
        BY <1>1, <4>1
      <4> QED BY <2>2, <4>1, <4>2
    <3> QED BY <2>1, <2>4, <3>1
  <2>6. m = n
    BY <1>1, <2>1, <2>2, <2>3, <2>5
  <2> QED BY <2>6 DEF n, m
<1>4. CASE t[k] \notin WordChars
  <2>1. TwoAt(u, d + k) \in opwords2 <=> TwoAt(t, k) \in opwords2
    <3>1. CASE k < Len(t)
      <4>1. /\ k \in 1 .. (Len(t) - 1) /\ d + k \in 1 .. (Len(u) - 1)
            /\ k + 1 \in k .. Len(t) /\ d + (k + 1) = d + k + 1
        BY <1>1, <3>1
      <4>2. u[d + k + 1] = t[k + 1]
        BY <1>1, <4>1
      <4> QED BY <1>2, <4>1, <4>2 DEF TwoAt
    <3>2. CASE ~(k < Len(t))
      <4>1. k = Len(t) /\ k \notin 1 .. (Len(t) - 1)
        BY <1>1, <3>2
      <4>2. TwoAt(t, k) = <<>>
        BY <4>1 DEF TwoAt
      <4>3. <<>> \notin opwords2
        <5>1. Len(<<>>) = 0
          OBVIOUS
        <5> QED BY <5>1, Pairs
      <4>4. TwoAt(u, d + k) \notin opwords2
        <5>1. CASE d + k \in 1 .. (Len(u) - 1)
          <6>1. u[d + k + 1] = Space
            BY <1>1, <4>1, <5>1
          <6>2. TwoAt(u, d + k) = <<u[d + k], Space>> /\ TwoAt(u, d + k)[2] = Space
            BY <5>1, <6>1 DEF TwoAt
          <6> QED BY <6>2, Pairs, Chars
        <5>2. CASE d + k \notin 1 .. (Len(u) - 1)
          BY <4>3, <5>2 DEF TwoAt
        <5> QED BY <5>1, <5>2
      <4> QED BY <4>2, <4>3, <4>4
    <3> QED BY <3>1, <3>2
  <2> QED BY <1>2, <1>4, <2>1, Zenon DEF LengthAt
<1> QED BY <1>3, <1>4

\* The token at k, when the same comes behind an operator or not.
LEMMA SameToken ==
  ASSUME NEW t \in Seq(Symbol), NEW u \in Seq(Symbol), NEW k, NEW d, Ending(t, k, u, d),
         BehindOp(u, d + k) <=> BehindOp(t, k)
  PROVE  TokenAt(u, d + k) = TokenAt(t, k) /\ WordAt(u, d + k) = WordAt(t, k)
<1>1. /\ k \in 1 .. Len(t) /\ d \in Nat /\ Len(t) \in Nat /\ Len(u) \in Nat /\ d + Len(t) <= Len(u)
      /\ \A j \in k .. Len(t) : u[d + j] = t[j]
  BY DEF Ending
<1>2. LengthAt(u, d + k) = LengthAt(t, k) /\ LengthAt(t, k) \in 1 .. (Len(t) - k + 1)
  BY <1>1, SameLength, TokenLength
<1> DEFINE n == LengthAt(t, k)
<1>3. WordAt(u, d + k) = SubSeq(u, d + k, d + k + n - 1) /\ WordAt(t, k) = SubSeq(t, k, k + n - 1)
  BY <1>2 DEF WordAt
<1>4. n \in 1 .. (Len(t) - k + 1)
  BY <1>2
<1> HIDE DEF n
<1>5. SubSeq(u, d + k, d + k + n - 1) = SubSeq(t, k, k + n - 1)
  <2> DEFINE x == SubSeq(u, d + k, d + k + n - 1)  y == SubSeq(t, k, k + n - 1)
  <2>1. d + k \in 1 .. Len(u) /\ d + k + n - 1 \in 1 .. Len(u) /\ k + n - 1 \in 1 .. Len(t)
    BY <1>1, <1>4
  <2>2. x \in Seq(Symbol) /\ y \in Seq(Symbol) /\ Len(x) = n /\ Len(y) = n
    BY <1>1, <1>4, <2>1
  <2>3. ASSUME NEW i \in 1 .. n PROVE x[i] = y[i]
    <3>1. x[i] = u[d + k + i - 1] /\ y[i] = t[k + i - 1]
      BY <1>1, <1>4, <2>1
    <3>2. k + i - 1 \in k .. Len(t) /\ d + (k + i - 1) = d + k + i - 1
      BY <1>1, <1>4
    <3> QED BY <1>1, <3>1, <3>2
  <2> HIDE DEF x, y
  <2>4. x = y
    BY <2>2, <2>3
  <2> QED BY <2>4 DEF x, y
<1>6. WordAt(u, d + k) = WordAt(t, k)
  BY <1>3, <1>5
<1>7. \A w : KindAt(u, d + k, w) = KindAt(t, k, w)
  BY KindAtMeans, Zenon DEF BehindOp
<1> QED BY <1>6, <1>7 DEF TokenAt

LEMMA CutEnd ==
  ASSUME NEW t \in Seq(Symbol)
  PROVE  Cutting(t)[Len(t) + 1] = <<>>
<1>1. CASE t = <<>>
  <2>1. Len(t) + 1 = 1
    BY <1>1
  <2> QED BY <1>1, <2>1, CutNothing
<1>2. CASE t # <<>>
  <2>1. 1 \in 1 .. Len(t)
    BY <1>2
  <2> QED BY <2>1, CutHere
<1> QED BY <1>1, <1>2

\* Behind a blank the tokens are those of what is there.
LEMMA CutBehind ==
  ASSUME NEW b \in Seq(Symbol), NEW u \in Seq(Symbol), NEW d \in Nat, Len(u) = d + Len(b),
         \A j \in 1 .. Len(b) : u[d + j] = b[j], d > 0 => u[d] = Space,
         NEW k \in 1 .. (Len(b) + 1)
  PROVE  Cutting(u)[d + k] = Cutting(b)[k]
<1>0. Len(b) \in Nat
  OBVIOUS
<1> DEFINE Q == {n \in 0 .. Len(b) : Cutting(u)[d + (Len(b) + 1 - n)] # Cutting(b)[Len(b) + 1 - n]}
<1>1. ASSUME Q # {} PROVE FALSE
  <2>1. PICK n \in Q : \A j \in Q : n <= j
    <3>1. Q \subseteq Nat
      OBVIOUS
    <3> HIDE DEF Q
    <3> QED BY <1>1, <3>1, LeastNat
  <2> DEFINE m == Len(b) + 1 - n
  <2>2. n \in 0 .. Len(b) /\ m \in 1 .. (Len(b) + 1) /\ Cutting(u)[d + m] # Cutting(b)[m]
    BY <1>0
  <2>3. ASSUME NEW e \in (m + 1) .. (Len(b) + 1) PROVE Cutting(u)[d + e] = Cutting(b)[e]
    <3> DEFINE j == Len(b) + 1 - e
    <3>1. j \in 0 .. Len(b) /\ ~(n <= j) /\ Len(b) + 1 - j = e
      BY <1>0, <2>2
    <3> HIDE DEF j
    <3>2. j \notin Q
      <4> HIDE DEF Q
      <4> QED BY <2>1, <3>1
    <3> QED BY <3>1, <3>2
  <2> HIDE DEF Q, m
  <2>4. CASE m = Len(b) + 1
    <3>1. d + m = Len(u) + 1
      BY <1>0, <2>4
    <3> QED BY <2>2, <2>4, <3>1, CutEnd
  <2>5. CASE m # Len(b) + 1
    <3>1. m \in 1 .. Len(b) /\ d + m \in 1 .. Len(u) /\ u[d + m] = b[m] /\ (d + m) + 1 = d + (m + 1)
      BY <1>0, <2>2, <2>5
    <3>2. Ending(b, m, u, d)
      BY <1>0, <3>1 DEF Ending
    <3>3. BehindOp(u, d + m) <=> BehindOp(b, m)
      <4>1. CASE m = 1
        <5>1. ~ BehindOp(b, m)
          BY <4>1 DEF BehindOp
        <5>2. (d + m) - 1 = d
          BY <4>1
        <5>3. ~ BehindOp(u, d + m)
          BY <4>1, <5>2, Chars DEF BehindOp
        <5> QED BY <5>1, <5>3
      <4>2. CASE m # 1
        <5>1. m - 1 \in 1 .. Len(b) /\ (d + m) - 1 = d + (m - 1) /\ m > 1 /\ d + m > 1
          BY <1>0, <3>1, <4>2
        <5>2. u[(d + m) - 1] = b[m - 1]
          BY <5>1
        <5> QED BY <5>1, <5>2, Zenon DEF BehindOp
      <4> QED BY <4>1, <4>2
    <3>4. TokenAt(u, d + m) = TokenAt(b, m) /\ WordAt(u, d + m) = WordAt(b, m)
      BY <3>2, <3>3, SameToken
    <3> DEFINE len == Len(WordAt(b, m))
    <3>5. m + len \in (m + 1) .. (Len(b) + 1) /\ len \in Nat
      BY <3>1, WordThere
    <3> HIDE DEF len
    <3>6. m + 1 \in (m + 1) .. (Len(b) + 1)
      BY <1>0, <3>1
    <3>7. /\ Cutting(u)[d + (m + 1)] = Cutting(b)[m + 1]
          /\ Cutting(u)[d + (m + len)] = Cutting(b)[m + len]
      BY <2>3, <3>5, <3>6
    <3>8. (d + m) + len = d + (m + len)
      BY <3>1, <3>5, <1>0
    <3>9. /\ b[m] = Space => Cutting(b)[m] = Cutting(b)[m + 1]
          /\ b[m] # Space => Cutting(b)[m] = <<TokenAt(b, m)>> \o Cutting(b)[m + len]
      BY <3>1, CutHere DEF len
    <3>10. /\ u[d + m] = Space => Cutting(u)[d + m] = Cutting(u)[(d + m) + 1]
           /\ u[d + m] # Space => Cutting(u)[d + m] = <<TokenAt(u, d + m)>> \o Cutting(u)[(d + m) + len]
      BY <3>1, <3>4, CutHere DEF len
    <3> QED BY <2>2, <3>1, <3>4, <3>7, <3>8, <3>9, <3>10, Zenon
  <2> QED BY <2>4, <2>5
<1>2. k = Len(b) + 1 - (Len(b) + 1 - k) /\ Len(b) + 1 - k \in 0 .. Len(b)
  BY <1>0
<1>3. \A n \in 0 .. Len(b) : Cutting(u)[d + (Len(b) + 1 - n)] = Cutting(b)[Len(b) + 1 - n]
  BY <1>1
<1> HIDE DEF Q
<1> QED BY <1>2, <1>3

\* u is a and b with a blank between them.
Between(u, a, b) ==
  /\ Len(u) = (Len(a) + 1) + Len(b) /\ u[Len(a) + 1] = Space
  /\ \A j \in 1 .. Len(a) : u[j] = a[j]
  /\ \A j \in 1 .. Len(b) : u[(Len(a) + 1) + j] = b[j]

\* Three sequences of tokens are put together in either order.
LEMMA TokensAssociate ==
  ASSUME NEW x \in Seq(AnyToken), NEW y \in Seq(AnyToken), NEW z \in Seq(AnyToken)
  PROVE  (x \o y) \o z = x \o (y \o z)
BY ConcatAssociative

\* In front of a blank the tokens are those of what is there, and those behind it.
LEMMA CutAhead ==
  ASSUME NEW a \in Seq(Symbol), NEW b \in Seq(Symbol), NEW u \in Seq(Symbol), Between(u, a, b),
         NEW k \in 1 .. (Len(a) + 1)
  PROVE  Cutting(u)[k] = Cutting(a)[k] \o Cutting(b)[1]
<1>0. Len(a) \in Nat /\ Len(b) \in Nat
  OBVIOUS
<1>1. Cutting(u)[Len(a) + 2] = Cutting(b)[1]
  <2>1. Cutting(u)[(Len(a) + 1) + 1] = Cutting(b)[1]
    <3> DEFINE d == Len(a) + 1
    <3>1. d \in Nat /\ Len(u) = d + Len(b) /\ u[d] = Space /\ 1 \in 1 .. (Len(b) + 1)
          /\ \A j \in 1 .. Len(b) : u[d + j] = b[j]
      BY <1>0 DEF Between
    <3> HIDE DEF d
    <3>2. Cutting(u)[d + 1] = Cutting(b)[1]
      BY <3>1, CutBehind
    <3> QED BY <3>2 DEF d
  <2>2. (Len(a) + 1) + 1 = Len(a) + 2
    BY <1>0
  <2> QED BY <2>1, <2>2
<1>2. Cutting(b)[1] \in Seq(AnyToken)
  BY <1>0, CutType
<1> DEFINE Split(e) == Cutting(u)[e] = Cutting(a)[e] \o Cutting(b)[1]
           Q == {n \in 0 .. Len(a) : ~ Split(Len(a) + 1 - n)}
<1>3. ASSUME Q # {} PROVE FALSE
  <2>1. PICK n \in Q : \A j \in Q : n <= j
    <3>1. Q \subseteq Nat
      <4> HIDE DEF Split
      <4> QED OBVIOUS
    <3> HIDE DEF Q
    <3> QED BY <1>3, <3>1, LeastNat
  <2> DEFINE m == Len(a) + 1 - n
  <2>2. n \in 0 .. Len(a) /\ m \in 1 .. (Len(a) + 1) /\ ~ Split(m)
    <3> HIDE DEF Split
    <3> QED BY <1>0
  <2>3. ASSUME NEW e \in (m + 1) .. (Len(a) + 1) PROVE Split(e)
    <3> HIDE DEF Split
    <3> DEFINE j == Len(a) + 1 - e
    <3>1. j \in 0 .. Len(a) /\ ~(n <= j) /\ Len(a) + 1 - j = e
      BY <1>0, <2>2
    <3> HIDE DEF j
    <3>2. j \notin Q
      <4> HIDE DEF Q
      <4> QED BY <2>1, <3>1
    <3> QED BY <3>1, <3>2
  <2> HIDE DEF Q, m
  <2>4. CASE m = Len(a) + 1
    <3>1. m \in 1 .. Len(u) /\ u[m] = Space /\ m + 1 = Len(a) + 2
      BY <1>0, <2>4 DEF Between
    <3>2. Cutting(u)[m] = Cutting(b)[1]
      BY <1>1, <3>1, CutHere
    <3>3. <<>> \o Cutting(b)[1] = Cutting(b)[1]
      BY <1>2
    <3> QED BY <2>2, <2>4, <3>2, <3>3, CutEnd, Zenon
  <2>5. CASE m # Len(a) + 1
    <3>1. m \in 1 .. Len(a) /\ m \in 1 .. Len(u) /\ u[m] = a[m] /\ 0 + m = m
      BY <1>0, <2>2, <2>5 DEF Between
    <3>2. Ending(a, m, u, 0)
      BY <1>0, <3>1 DEF Ending, Between
    <3>3. BehindOp(u, 0 + m) <=> BehindOp(a, m)
      <4>1. m > 1 => u[m - 1] = a[m - 1]
        <5>1. m > 1 => m - 1 \in 1 .. Len(a)
          BY <1>0, <3>1
        <5> QED BY <5>1 DEF Between
      <4> QED BY <3>1, <4>1, Zenon DEF BehindOp
    <3>4. TokenAt(u, m) = TokenAt(a, m) /\ WordAt(u, m) = WordAt(a, m)
      <4> HIDE DEF Split
      <4>1. PICK d : d = 0
        OBVIOUS
      <4>2. Ending(a, m, u, d) /\ (BehindOp(u, d + m) <=> BehindOp(a, m))
        BY <3>2, <3>3, <4>1
      <4>3. TokenAt(u, d + m) = TokenAt(a, m) /\ WordAt(u, d + m) = WordAt(a, m)
        BY <4>2, SameToken
      <4> QED BY <3>1, <4>1, <4>3
    <3> DEFINE len == Len(WordAt(a, m))
    <3>5. m + len \in (m + 1) .. (Len(a) + 1) /\ len \in Nat /\ WordAt(a, m) \in Seq(Symbol)
      BY <3>1, WordThere
    <3> HIDE DEF len
    <3>6. m + 1 \in (m + 1) .. (Len(a) + 1)
      BY <1>0, <3>1
    <3>7. /\ Cutting(u)[m + 1] = Cutting(a)[m + 1] \o Cutting(b)[1]
          /\ Cutting(u)[m + len] = Cutting(a)[m + len] \o Cutting(b)[1]
      BY <2>3, <3>5, <3>6
    <3>8. /\ a[m] = Space => Cutting(a)[m] = Cutting(a)[m + 1]
          /\ a[m] # Space => Cutting(a)[m] = <<TokenAt(a, m)>> \o Cutting(a)[m + len]
      BY <3>1, CutHere DEF len
    <3>9. /\ u[m] = Space => Cutting(u)[m] = Cutting(u)[m + 1]
          /\ u[m] # Space => Cutting(u)[m] = <<TokenAt(u, m)>> \o Cutting(u)[m + len]
      BY <3>1, <3>4, CutHere DEF len
    <3>10. m + len \in 1 .. (Len(a) + 1)
      BY <1>0, <3>1, <3>5
    <3>11. TokenAt(a, m) \in AnyToken /\ Cutting(a)[m + len] \in Seq(AnyToken)
      <4>1. Cutting(a)[m + len] \in Seq(AnyToken)
        BY <3>10, CutType
      <4>2. TokenAt(a, m) \in AnyToken
        BY <3>5, KindKnown DEF TokenAt, AnyToken
      <4> QED BY <4>1, <4>2
    <3>12. <<TokenAt(a, m)>> \o (Cutting(a)[m + len] \o Cutting(b)[1]) =
             (<<TokenAt(a, m)>> \o Cutting(a)[m + len]) \o Cutting(b)[1]
      <4> HIDE DEF Split
      <4> DEFINE x == <<TokenAt(a, m)>>  y == Cutting(a)[m + len]  z == Cutting(b)[1]
      <4>1. x \in Seq(AnyToken) /\ y \in Seq(AnyToken) /\ z \in Seq(AnyToken)
        BY <1>2, <3>11
      <4> HIDE DEF x, y, z
      <4>2. (x \o y) \o z = x \o (y \o z)
        BY <4>1, TokensAssociate
      <4> QED BY <4>2 DEF x, y, z
    <3> QED BY <2>2, <3>1, <3>4, <3>7, <3>8, <3>9, <3>12, Zenon
  <2> QED BY <2>4, <2>5
<1>4. k = Len(a) + 1 - (Len(a) + 1 - k) /\ Len(a) + 1 - k \in 0 .. Len(a)
  BY <1>0
<1>5. Split(k)
  <2> HIDE DEF Split
  <2> QED BY <1>3, <1>4
<1> QED BY <1>5

LEMMA BlankSeparates ==
  ASSUME NEW a \in Seq(Symbol), NEW b \in Seq(Symbol)
  PROVE  CodeTokens((a \o <<Space>>) \o b) = CodeTokens(a) \o CodeTokens(b)
<1>1. 1 \in 1 .. (Len(a) + 1)
  OBVIOUS
<1>2. PICK u : u = (a \o <<Space>>) \o b
  OBVIOUS
<1>3. u \in Seq(Symbol)
  <2>1. Space \in Symbol
    BY DEF Symbol
  <2>2. a \o <<Space>> \in Seq(Symbol)
    BY <2>1
  <2> QED BY <1>2, <2>2
<1>4. Between(u, a, b)
  <2>1. Space \in Symbol
    BY DEF Symbol
  <2> QED BY <1>2, <2>1 DEF Between
<1>5. Cutting(u)[1] = Cutting(a)[1] \o Cutting(b)[1]
  BY <1>1, <1>3, <1>4, CutAhead
<1> QED BY <1>2, <1>5, Zenon DEF CodeTokens

LEMMA TokensType ==
  ASSUME NEW t \in Seq(Symbol)
  PROVE  CodeTokens(t) \in Seq(AnyToken)
<1>1. 1 \in 1 .. (Len(t) + 1)
  OBVIOUS
<1> QED BY <1>1, CutType DEF CodeTokens

LEMMA NoTokensInNothing == CodeTokens(<<>>) = <<>>
BY CutNothing DEF CodeTokens

\* Two parts can be put together when a blank, or nothing, is on one side.
Separate(p, r) == p = <<>> \/ r = <<>> \/ p[Len(p)] = Space \/ r[1] = Space

LEMMA TokensJoin ==
  ASSUME NEW p \in Seq(Symbol), NEW r \in Seq(Symbol), Separate(p, r)
  PROVE  CodeTokens(p \o r) = CodeTokens(p) \o CodeTokens(r)
<1>1. CodeTokens(p) \in Seq(AnyToken) /\ CodeTokens(r) \in Seq(AnyToken)
  BY TokensType
<1>2. CodeTokens(p) \o <<>> = CodeTokens(p) /\ <<>> \o CodeTokens(r) = CodeTokens(r)
  BY <1>1
<1>3. <<>> \in Seq(Symbol) /\ Space \in Symbol
  BY DEF Symbol
<1>4. CASE p = <<>>
  <2>1. p \o r = r
    BY <1>4
  <2> QED BY <1>2, <1>4, <2>1, NoTokensInNothing
<1>5. CASE r = <<>>
  <2>1. p \o r = p
    BY <1>5
  <2> QED BY <1>2, <1>5, <2>1, NoTokensInNothing
<1>6. CASE p # <<>> /\ p[Len(p)] = Space
  <2> DEFINE a == SubSeq(p, 1, Len(p) - 1)
  <2>1. a \in Seq(Symbol) /\ p = a \o <<Space>>
    BY <1>6
  <2> HIDE DEF a
  <2>2. CodeTokens(a) \in Seq(AnyToken)
    BY <2>1, TokensType
  <2>3. (a \o <<Space>>) \o <<>> = p
    BY <2>1
  <2>4. CodeTokens((a \o <<Space>>) \o <<>>) = CodeTokens(a) \o CodeTokens(<<>>)
    BY <1>3, <2>1, BlankSeparates
  <2>5. CodeTokens(p) = CodeTokens(a)
    <3>1. CodeTokens(a) \o <<>> = CodeTokens(a)
      BY <2>2
    <3> QED BY <2>3, <2>4, <3>1, NoTokensInNothing, Zenon
  <2> QED BY <2>1, <2>5, BlankSeparates
<1>7. CASE r # <<>> /\ r[1] = Space
  <2> DEFINE b == SubSeq(r, 2, Len(r))
  <2>1. b \in Seq(Symbol) /\ r = <<Space>> \o b
    BY <1>7
  <2> HIDE DEF b
  <2>2. (<<>> \o <<Space>>) \o b = r
    BY <1>3, <2>1
  <2>3. CodeTokens((<<>> \o <<Space>>) \o b) = CodeTokens(<<>>) \o CodeTokens(b)
    BY <1>3, <2>1, BlankSeparates
  <2>4. CodeTokens(b) \in Seq(AnyToken)
    BY <2>1, TokensType
  <2>5. CodeTokens(r) = CodeTokens(b)
    <3>1. <<>> \o CodeTokens(b) = CodeTokens(b)
      BY <2>4
    <3> QED BY <2>2, <2>3, <3>1, NoTokensInNothing, Zenon
  <2>6. <<Space>> \in Seq(Symbol)
    BY <1>3
  <2>7. p \o r = (p \o <<Space>>) \o b
    BY <2>1, <2>6, ConcatAssociative
  <2> QED BY <2>1, <2>5, <2>7, BlankSeparates
<1> QED BY <1>4, <1>5, <1>6, <1>7 DEF Separate

-----------------------------------------------------------------------------
(* Odd is in no token.                                                      *)

LEMMA OddIsStray ==
  /\ Odd \notin WordChars \cup opwords1 /\ Odd # Space /\ Odd # NewLine /\ Space # NewLine
<1>1. Odd \notin WordChars
  BY Zenon DEF Odd, WordChars, AlNum, Letters, Digits, keywords
<1>2. Odd \notin opwords1
  BY Zenon DEF Odd, opwords1
<1>3. Odd # Space /\ Odd # NewLine /\ Space # NewLine
  BY Zenon DEF Odd, Space, NewLine
<1> QED BY <1>1, <1>2, <1>3

\* Something from the k-th character on is no token.
Strays(t, k) == \E j \in DOMAIN Cutting(t)[k] : Cutting(t)[k][j].type \in NoTokens

\* The token at k ends before a character of no token.
LEMMA EndsBefore ==
  ASSUME NEW t \in Seq(Symbol), NEW p \in 1 .. Len(t), t[p] \notin WordChars \cup opwords1,
         NEW k \in 1 .. (p - 1)
  PROVE  k + LengthAt(t, k) \in (k + 1) .. p
<1>1. /\ Len(t) \in Nat /\ p \in Nat /\ k \in Nat /\ 1 <= k /\ k < p /\ p <= Len(t)
      /\ k \in 1 .. Len(t)
  OBVIOUS
<1>2. CASE t[k] \in WordChars
  <2> DEFINE n == LengthAt(t, k)
  <2>1. n \in 1 .. (Len(t) - k + 1) /\ \A j \in k .. (k + n - 1) : t[j] \in WordChars
    BY <1>1, <1>2, WordLength
  <2> HIDE DEF n
  <2>2. ~(k + n > p)
    <3> SUFFICES ASSUME k + n > p PROVE FALSE
      OBVIOUS
    <3>1. p \in k .. (k + n - 1)
      BY <1>1, <2>1
    <3> QED BY <2>1, <3>1
  <2>3. k + n \in (k + 1) .. p
    BY <1>1, <2>1, <2>2
  <2> QED BY <2>3 DEF n
<1>3. CASE t[k] \notin WordChars
  <2>1. LengthAt(t, k) = IF TwoAt(t, k) \in opwords2 THEN 2 ELSE 1
    BY <1>3 DEF LengthAt
  <2>2. ASSUME TwoAt(t, k) \in opwords2 PROVE k + 1 # p
    <3>1. k \in 1 .. (Len(t) - 1)
      BY <1>1
    <3>2. TwoAt(t, k) = <<t[k], t[k + 1]>> /\ TwoAt(t, k)[2] = t[k + 1]
      BY <3>1 DEF TwoAt
    <3>3. t[k + 1] \in opwords1
      BY <2>2, <3>2, Pairs
    <3> QED BY <3>3
  <2>3. 1 + k \in (k + 1) .. p /\ (k + 1 # p => k + 2 \in (k + 1) .. p)
    BY <1>1
  <2> QED BY <1>1, <2>1, <2>2, <2>3
<1> QED BY <1>2, <1>3

LEMMA StrayBehind ==
  ASSUME NEW tok \in AnyToken, NEW y \in Seq(AnyToken), NEW x, x = <<tok>> \o y, NEW j \in DOMAIN y
  PROVE  j + 1 \in DOMAIN x /\ x[j + 1] = y[j]
<1>1. Len(y) \in Nat /\ j \in 1 .. Len(y)
  OBVIOUS
<1>2. Len(x) = 1 + Len(y) /\ x \in Seq(AnyToken)
  OBVIOUS
<1>3. j + 1 \in 1 .. Len(x) /\ j + 1 > 1
  BY <1>1, <1>2
<1>4. x[j + 1] = y[j]
  BY <1>1, <1>3
<1> QED BY <1>2, <1>3, <1>4

LEMMA StrayFound ==
  ASSUME NEW t \in Seq(Symbol), NEW p \in 1 .. Len(t), t[p] \notin WordChars \cup opwords1,
         t[p] # Space, NEW k \in 1 .. p
  PROVE  Strays(t, k)
<1>0. Len(t) \in Nat /\ p \in Nat
  OBVIOUS
<1> DEFINE Q == {n \in 0 .. (p - 1) : ~ Strays(t, p - n)}
<1>1. ASSUME Q # {} PROVE FALSE
  <2>1. PICK n \in Q : \A j \in Q : n <= j
    <3>1. Q \subseteq Nat
      BY <1>0
    <3> HIDE DEF Q
    <3> QED BY <1>1, <3>1, LeastNat
  <2> DEFINE m == p - n
  <2>2. n \in 0 .. (p - 1) /\ m \in 1 .. p /\ ~ Strays(t, m)
    BY <1>0
  <2>3. ASSUME NEW e \in (m + 1) .. p PROVE Strays(t, e)
    <3> DEFINE j == p - e
    <3>1. j \in 0 .. (p - 1) /\ ~(n <= j) /\ p - j = e
      BY <1>0, <2>2
    <3> HIDE DEF j
    <3>2. j \notin Q
      <4> HIDE DEF Q
      <4> QED BY <2>1, <3>1
    <3> QED BY <3>1, <3>2
  <2> HIDE DEF Q, m
  <2>4. m \in 1 .. Len(t) /\ m \in Nat
    BY <1>0, <2>2
  <2>5. /\ Len(WordAt(t, m)) = LengthAt(t, m) /\ WordAt(t, m) \in Seq(Symbol)
        /\ m + Len(WordAt(t, m)) \in (m + 1) .. (Len(t) + 1)
        /\ WordAt(t, m)[1] = t[m]
    <3>1. LengthAt(t, m) \in 1 .. (Len(t) - m + 1)
      BY <1>0, <2>4, TokenLength
    <3>2. WordAt(t, m)[1] = t[m]
      BY <2>4, <3>1 DEF WordAt
    <3> QED BY <2>4, <3>2, WordThere
  <2> DEFINE rest == Cutting(t)[m + Len(WordAt(t, m))]
  <2>6. TokenAt(t, m) \in AnyToken /\ rest \in Seq(AnyToken)
    <3>1. TokenAt(t, m) \in AnyToken
      BY <2>5, KindKnown DEF TokenAt, AnyToken
    <3>2. m + Len(WordAt(t, m)) \in 1 .. (Len(t) + 1)
      BY <1>0, <2>4, <2>5
    <3> QED BY <3>1, <3>2, CutType
  <2>7. CASE m = p
    <3>1. Cutting(t)[m] = <<TokenAt(t, m)>> \o rest
      BY <2>4, <2>7, CutHere
    <3>2. TokenAt(t, m).type \in NoTokens
      BY <2>5, <2>7, StrayCharacter DEF TokenAt, NoTokens
    <3>3. 1 \in DOMAIN Cutting(t)[m] /\ Cutting(t)[m][1] = TokenAt(t, m)
      <4> HIDE DEF rest
      <4> QED BY <2>6, <3>1
    <3> QED BY <2>2, <3>2, <3>3 DEF Strays
  <2>8. CASE m # p
    <3>1. m \in 1 .. (p - 1) /\ m + 1 \in (m + 1) .. p
      BY <1>0, <2>2, <2>8
    <3>2. m + LengthAt(t, m) \in (m + 1) .. p
      BY <3>1, EndsBefore
    <3>3. Strays(t, m + 1) /\ Strays(t, m + Len(WordAt(t, m)))
      BY <2>3, <2>5, <3>1, <3>2
    <3>4. CASE t[m] = Space
      BY <2>2, <2>4, <3>3, <3>4, CutHere DEF Strays
    <3>5. CASE t[m] # Space
      <4>1. Cutting(t)[m] = <<TokenAt(t, m)>> \o rest
        BY <2>4, <3>5, CutHere
      <4>2. PICK j \in DOMAIN rest : rest[j].type \in NoTokens
        BY <3>3 DEF Strays
      <4> HIDE DEF rest
      <4>3. j + 1 \in DOMAIN Cutting(t)[m] /\ Cutting(t)[m][j + 1] = rest[j]
        BY <2>6, <4>1, StrayBehind
      <4> QED BY <2>2, <4>2, <4>3 DEF Strays
    <3> QED BY <3>4, <3>5
  <2> QED BY <2>7, <2>8
<1>2. k = p - (p - k) /\ p - k \in 0 .. (p - 1)
  BY <1>0
<1>3. \A n \in 0 .. (p - 1) : Strays(t, p - n)
  BY <1>1
<1> HIDE DEF Q
<1> QED BY <1>2, <1>3

\* Nothing in s is Odd; so it is when s is a sequence of tokens.
NoOdd(s) == \A k \in DOMAIN s : s[k] # Odd

LEMMA TokensHaveNoOdd ==
  ASSUME NEW t \in Seq(Symbol), AllCut(t)
  PROVE  NoOdd(t)
<1> SUFFICES ASSUME NEW p \in 1 .. Len(t), t[p] = Odd PROVE FALSE
  BY DEF NoOdd
<1>1. 1 \in 1 .. p
  OBVIOUS
<1>2. Strays(t, 1)
  BY <1>1, OddIsStray, StrayFound
<1>3. \A j \in DOMAIN Cutting(t)[1] : Cutting(t)[1][j].type \notin NoTokens
  BY Zenon DEF AllCut, CodeTokens
<1> QED BY <1>2, <1>3 DEF Strays
=============================================================================
