---------------------------- MODULE CuttingProofs ----------------------------
(***************************************************************************)
(* Proofs about the scanner: the automaton, which sees one character at a  *)
(* time, cuts the text into the longest tokens.                            *)
(*                                                                         *)
(* The reference cuts the text from the right end of the recursion, the    *)
(* automaton from the left.  What meets in the middle is Fed: what is cut   *)
(* from the text is the tokens so far and what is cut from here on.        *)
(***************************************************************************)
EXTENDS LexerProofs, SequenceTheorems

-----------------------------------------------------------------------------
(* Characters, and the longest token at a place.                            *)

\* The characters of words and of operators.
LEMMA Chars ==
  /\ \A d \in opwords1 : d \notin WordChars
  /\ Space \notin WordChars /\ Space \notin opwords1
  /\ AlNum \cup {"."} \subseteq WordChars /\ Letters \cup Digits = AlNum
  /\ \A d \in Digits : d \notin Letters
<1>1. \A d \in opwords1 : d \notin WordChars
  BY Zenon DEF opwords1, WordChars, AlNum, Letters, Digits, keywords
<1>2. Space \notin WordChars /\ Space \notin opwords1
  BY Zenon DEF Space, opwords1, WordChars, AlNum, Letters, Digits, keywords
<1>3. AlNum \cup {"."} \subseteq WordChars /\ Letters \cup Digits = AlNum
  BY Zenon DEF WordChars, AlNum
<1>4. \A d \in Digits : d \notin Letters
  BY Zenon DEF Letters, Digits, keywords
<1> QED BY <1>1, <1>2, <1>3, <1>4

\* Besides them there are the point and the underscore.
LEMMA Underscore ==
  /\ "_" \in WordChars /\ "_" \notin AlNum /\ "_" # "."
  /\ "." \notin AlNum
  /\ WordChars = AlNum \cup {"_", "."}
BY Zenon DEF WordChars, AlNum, Letters, Digits, keywords

LEMMA Pairs ==
  ASSUME NEW p \in opwords2
  PROVE  Len(p) = 2 /\ p[1] \in opwords1 /\ p[2] \in opwords1
<1>1. \A a, b : Len(<<a, b>>) = 2 /\ <<a, b>>[1] = a /\ <<a, b>>[2] = b
  OBVIOUS
<1>2. \E a \in opwords1, b \in opwords1 : p = <<a, b>>
  <2>1. {"<", "=", ">", "!", "&", "|"} \subseteq opwords1
    BY Zenon DEF opwords1
  <2> QED BY <2>1, Zenon DEF opwords2
<1> QED BY <1>1, <1>2

LEMMA Greatest ==
  ASSUME NEW b \in Nat, NEW S, S \subseteq 0 .. b, S # {}
  PROVE  Max(S) \in S /\ \A x \in S : x <= Max(S)
<1> DEFINE Q == {b - x : x \in S}
<1>1. Q \subseteq Nat /\ Q # {}
  <2>1. \A x \in 0 .. b : b - x \in Nat
    OBVIOUS
  <2>2. \A x \in S : b - x \in Nat
    BY <2>1
  <2> QED BY <2>2
<1>2. PICK n \in Q : \A k \in Q : n <= k
  <2> HIDE DEF Q
  <2> QED BY <1>1, LeastNat
<1>3. PICK y \in S : n = b - y
  BY <1>2
<1>4. \A x \in S : x <= y
  <2> SUFFICES ASSUME NEW x \in S PROVE x <= y
    OBVIOUS
  <2>1. b - y <= b - x
    BY <1>2, <1>3
  <2>2. x \in 0 .. b /\ y \in 0 .. b
    OBVIOUS
  <2> HIDE DEF Q
  <2> QED BY <2>1, <2>2
<1>5. \E y0 \in S : \A x \in S : y0 >= x
  BY <1>3, <1>4
<1> HIDE DEF Q
<1>6. Max(S) \in S /\ \A x \in S : Max(S) >= x
  BY <1>5 DEF Max
<1> QED BY <1>6

LEMMA WordLength ==
  ASSUME NEW t, Len(t) \in Nat, NEW k \in 1 .. Len(t), t[k] \in WordChars
  PROVE  /\ LengthAt(t, k) \in 1 .. (Len(t) - k + 1)
         /\ \A j \in k .. (k + LengthAt(t, k) - 1) : t[j] \in WordChars
         /\ \A n \in 1 .. (Len(t) - k + 1) :
              (\A j \in k .. (k + n - 1) : t[j] \in WordChars) => n <= LengthAt(t, k)
<1> DEFINE S == {n \in 1 .. (Len(t) - k + 1) : \A j \in k .. (k + n - 1) : t[j] \in WordChars}
<1>1. LengthAt(t, k) = Max(S)
  BY DEF LengthAt
<1>2. S \subseteq 0 .. Len(t)
  OBVIOUS
<1>3. 1 \in S
  OBVIOUS
<1>4. Max(S) \in S /\ \A x \in S : x <= Max(S)
  <2> HIDE DEF S
  <2> QED BY <1>2, <1>3, Greatest
<1> QED BY <1>1, <1>4

\* A word that ends before e.
LEMMA WordEnds ==
  ASSUME NEW t, Len(t) \in Nat, NEW k \in 1 .. Len(t), NEW e \in (k + 1) .. Len(t),
         \A j \in k .. (e - 1) : t[j] \in WordChars, t[e] \notin WordChars
  PROVE  LengthAt(t, k) = e - k
<1>1. t[k] \in WordChars
  OBVIOUS
<1> DEFINE n == LengthAt(t, k)
<1>2. /\ n \in 1 .. (Len(t) - k + 1)
      /\ \A j \in k .. (k + n - 1) : t[j] \in WordChars
      /\ (\A j \in k .. (k + (e - k) - 1) : t[j] \in WordChars) => e - k <= n
  <2>1. e - k \in 1 .. (Len(t) - k + 1)
    OBVIOUS
  <2> QED BY <1>1, <2>1, WordLength
<1> HIDE DEF n
<1>3. e - k <= n
  BY <1>2
<1>4. ~(e - k < n)
  <2> SUFFICES ASSUME e - k < n PROVE FALSE
    OBVIOUS
  <2>1. e \in k .. (k + n - 1)
    BY <1>2
  <2> QED BY <1>2, <2>1
<1> QED BY <1>2, <1>3, <1>4 DEF n

\* Words and operators end in the text.
LEMMA TokenLength ==
  ASSUME NEW t, Len(t) \in Nat, NEW k \in 1 .. Len(t)
  PROVE  LengthAt(t, k) \in 1 .. (Len(t) - k + 1)
<1>1. CASE t[k] \in WordChars
  BY <1>1, WordLength
<1>2. CASE t[k] \notin WordChars
  <2>1. LengthAt(t, k) = IF TwoAt(t, k) \in opwords2 THEN 2 ELSE 1
    BY <1>2 DEF LengthAt
  <2>2. CASE k < Len(t)
    <3>1. 1 \in 1 .. (Len(t) - k + 1) /\ 2 \in 1 .. (Len(t) - k + 1)
      BY <2>2
    <3> QED BY <2>1, <3>1
  <2>3. CASE ~(k < Len(t))
    <3>1. TwoAt(t, k) = <<>>
      BY <2>3 DEF TwoAt
    <3>2. TwoAt(t, k) \notin opwords2
      <4>1. Len(<<>>) = 0
        OBVIOUS
      <4> QED BY <3>1, <4>1, Pairs
    <3>3. 1 \in 1 .. (Len(t) - k + 1)
      OBVIOUS
    <3> QED BY <2>1, <3>2, <3>3
  <2> QED BY <2>2, <2>3
<1> QED BY <1>1, <1>2

-----------------------------------------------------------------------------
(* The tokens from the k-th character on.                                   *)

NoToken  == "no token"
BadOp    == "invalid operator!"
NoTokens == {NoToken, BadOp}
AnyToken == [type : TokenTypes \cup NoTokens, value : Seq(Symbol)]

\* The kind the automaton gives to a word: a number that begins with a point right
\* behind an operator is an INTLTR to it, and a FLOATLTR to the language.
KindAt(t, k, w) ==
  IF k > 1 /\ w[1] = "." /\ t[k - 1] \in opwords1 /\ IsFloat(w) THEN "INTLTR" ELSE KindOf(w)

\* The text is cut into words, which the automaton (code) or the language gives a kind.
WordAt(t, k)  == SubSeq(t, k, k + LengthAt(t, k) - 1)
TokenAt(t, k) == [type |-> KindAt(t, k, WordAt(t, k)), value |-> WordAt(t, k)]
TrueTokenAt(t, k) == [type |-> KindOf(WordAt(t, k)), value |-> WordAt(t, k)]
TokenBy(t, k, code) == IF code THEN TokenAt(t, k) ELSE TrueTokenAt(t, k)
From(f, t, k, code) ==
  IF k > Len(t) THEN <<>>
  ELSE IF t[k] = " " THEN f[k + 1] ELSE <<TokenBy(t, k, code)>> \o f[k + Len(WordAt(t, k))]
IsCutting(f, t, code) == f = [k \in 1 .. (Len(t) + 1) |-> From(f, t, k, code)]
CuttingBy(t, code) == CHOOSE f : IsCutting(f, t, code)
Cutting(t) == CuttingBy(t, TRUE)
\* What the automaton makes of a text.
CodeTokens(t) == Cutting(t)[1]
AllCut(t) == \A k \in DOMAIN CodeTokens(t) : CodeTokens(t)[k].type \notin NoTokens

\* What the language makes of it.
TrueFrom(f, t, k) ==
  IF k > Len(t) THEN <<>>
  ELSE IF t[k] = " " THEN f[k + 1] ELSE <<TrueTokenAt(t, k)>> \o f[k + Len(WordAt(t, k))]
IsTrueCutting(f, t) == f = [k \in 1 .. (Len(t) + 1) |-> TrueFrom(f, t, k)]
TrueCutting(t) == CHOOSE f : IsTrueCutting(f, t)

LEMMA TokensAreCut ==
  ASSUME NEW t
  PROVE  TokensOf(t) = TrueCutting(t)[1]
BY Zenon DEF TokensOf, TrueCutting, IsTrueCutting, TrueFrom, TrueTokenAt, WordAt

LEMMA WordThere ==
  ASSUME NEW S, NEW t \in Seq(S), NEW k \in 1 .. Len(t)
  PROVE  /\ Len(WordAt(t, k)) = LengthAt(t, k) /\ WordAt(t, k) \in Seq(S)
         /\ k + Len(WordAt(t, k)) \in (k + 1) .. (Len(t) + 1)
<1>1. Len(t) \in Nat
  OBVIOUS
<1>2. LengthAt(t, k) \in 1 .. (Len(t) - k + 1)
  BY <1>1, TokenLength
<1> QED BY <1>2 DEF WordAt

LEMMA CuttingThere ==
  ASSUME NEW S, NEW t \in Seq(S), NEW code
  PROVE  IsCutting(CuttingBy(t, code), t, code)
<1> DEFINE Downto(f, n) == f = [k \in (Len(t) + 1 - n) .. (Len(t) + 1) |-> From(f, t, k, code)]
           Q == {n \in 0 .. Len(t) : ~ \E f : Downto(f, n)}
<1>0. Len(t) \in Nat
  OBVIOUS
<1>1. Q = {}
  <2> SUFFICES ASSUME Q # {} PROVE FALSE
    OBVIOUS
  <2>1. PICK n \in Q : \A k \in Q : n <= k
    <3>1. Q \subseteq Nat
      OBVIOUS
    <3> HIDE DEF Q
    <3> QED BY <3>1, LeastNat
  <2>2. n \in 0 .. Len(t) /\ ~ \E f : Downto(f, n)
    <3> HIDE DEF Downto
    <3> QED OBVIOUS
  <2>3. n = 0 \/ \E g : Downto(g, n - 1)
    <3> HIDE DEF Downto
    <3>1. n # 0 => n - 1 \in 0 .. Len(t) /\ ~(n <= n - 1)
      BY <2>2
    <3> QED BY <2>1, <3>1
  <2> HIDE DEF Q
  <2>4. PICK g : n = 0 \/ Downto(g, n - 1)
    <3> HIDE DEF Downto
    <3> QED BY <2>3
  <2> DEFINE m == Len(t) + 1 - n
             f == [k \in m .. (Len(t) + 1) |-> IF k = m THEN From(g, t, m, code) ELSE g[k]]
  <2>5. m \in 1 .. (Len(t) + 1) /\ (n # 0 => Len(t) + 1 - (n - 1) = m + 1) /\ (n = 0 => m = Len(t) + 1)
    BY <1>0, <2>2
  <2>6. \A k \in m .. (Len(t) + 1) : From(f, t, k, code) = From(g, t, k, code)
    <3> HIDE DEF Downto
    <3> SUFFICES ASSUME NEW k \in m .. (Len(t) + 1) PROVE From(f, t, k, code) = From(g, t, k, code)
      OBVIOUS
    <3>1. CASE k > Len(t)
      BY <3>1 DEF From
    <3>2. CASE ~(k > Len(t))
      <4> DEFINE e == k + Len(WordAt(t, k))
      <4>1. k \in 1 .. Len(t)
        <5> HIDE DEF m
        <5> QED BY <1>0, <2>5, <3>2
      <4>2. e \in (k + 1) .. (Len(t) + 1)
        BY <4>1, WordThere
      <4> HIDE DEF e
      <4>3. /\ e \in m .. (Len(t) + 1) /\ e # m
            /\ k + 1 \in m .. (Len(t) + 1) /\ k + 1 # m
        <5> HIDE DEF m
        <5> QED BY <1>0, <2>5, <4>1, <4>2
      <4>4. f[e] = g[e] /\ f[k + 1] = g[k + 1]
        <5> HIDE DEF m
        <5> QED BY <4>3
      <4> HIDE DEF f
      <4> QED BY <3>2, <4>4, Zenon DEF From, e
    <3> QED BY <3>1, <3>2
  <2>7. \A k \in m .. (Len(t) + 1) : f[k] = From(g, t, k, code)
    <3> SUFFICES ASSUME NEW k \in m .. (Len(t) + 1) PROVE f[k] = From(g, t, k, code)
      OBVIOUS
    <3>1. CASE k = m
      <4> HIDE DEF Downto, m
      <4> QED BY <3>1
    <3>2. CASE k # m
      <4>1. f[k] = g[k]
        <5> HIDE DEF Downto, m
        <5> QED BY <3>2
      <4>2. k \in (Len(t) + 1 - (n - 1)) .. (Len(t) + 1) /\ n # 0
        <5> HIDE DEF Downto, m
        <5> QED BY <1>0, <2>5, <3>2
      <4>3. g[k] = From(g, t, k, code)
        <5> HIDE DEF m, f
        <5> QED BY <2>4, <4>2
      <4> QED BY <4>1, <4>3
    <3> QED BY <3>1, <3>2
  <2>8. Downto(f, n)
    <3>1. \A k \in m .. (Len(t) + 1) : f[k] = From(f, t, k, code)
      <4> HIDE DEF f, m
      <4> QED BY <2>6, <2>7
    <3>2. f = [k \in m .. (Len(t) + 1) |-> f[k]]
      <4> HIDE DEF m, Downto
      <4> QED OBVIOUS
    <3>3. f = [k \in m .. (Len(t) + 1) |-> From(f, t, k, code)]
      <4> HIDE DEF f, m
      <4> QED BY <3>1, <3>2
    <3> HIDE DEF f
    <3> QED BY <3>3
  <2> HIDE DEF Downto, f
  <2> QED BY <2>2, <2>8
<1>2. \E f : Downto(f, Len(t))
  <2>1. Len(t) \in 0 .. Len(t)
    BY <1>0
  <2> HIDE DEF Downto
  <2> QED BY <1>1, <2>1
<1>3. Len(t) + 1 - Len(t) = 1
  BY <1>0
<1>4. \E f : IsCutting(f, t, code)
  BY <1>2, <1>3 DEF IsCutting
<1> QED BY <1>4 DEF CuttingBy

LEMMA KindKnown ==
  ASSUME NEW t, NEW k, NEW w
  PROVE  KindAt(t, k, w) \in TokenTypes \cup NoTokens
<1>1. get_Ident_type(w) \in TokenTypes /\ "INTLTR" \in TokenTypes /\ "FLOATLTR" \in TokenTypes
  BY DEF get_Ident_type, TokenTypes
<1>2. get_op_type(w) \in TokenTypes \cup {BadOp}
  BY Zenon DEF get_op_type, TokenTypes, BadOp
<1>3. KindOf(w) \in {get_Ident_type(w), "INTLTR", "FLOATLTR", get_op_type(w), NoToken}
  <2> HIDE DEF get_Ident_type, get_op_type, IsIdent, IsInt, IsFloat
  <2> QED BY Zenon DEF KindOf, NoToken
<1>4. KindAt(t, k, w) \in {"INTLTR", KindOf(w)}
  <2> HIDE DEF KindOf
  <2> QED BY Zenon DEF KindAt
<1> QED BY <1>1, <1>2, <1>3, <1>4 DEF NoTokens

\* What is cut from k on begins with a blank or with a token.
LEMMA CutHereBy ==
  ASSUME NEW t \in Seq(Symbol), NEW k \in 1 .. Len(t), NEW code, NEW f, IsCutting(f, t, code)
  PROVE  /\ t[k] = Space => f[k] = f[k + 1]
         /\ t[k] # Space => f[k] = <<TokenBy(t, k, code)>> \o f[k + Len(WordAt(t, k))]
<1>1. Len(t) \in Nat /\ k \in 1 .. (Len(t) + 1) /\ ~(k > Len(t))
  OBVIOUS
<1>2. \A j \in 1 .. (Len(t) + 1) : f[j] = From(f, t, j, code)
  BY DEF IsCutting
<1>3. f[k] = From(f, t, k, code)
  BY <1>1, <1>2
<1> QED BY <1>1, <1>3, Zenon DEF From, Space

LEMMA CutEndBy ==
  ASSUME NEW t \in Seq(Symbol), NEW code, NEW f, IsCutting(f, t, code)
  PROVE  f[Len(t) + 1] = <<>>
<1>1. Len(t) \in Nat /\ Len(t) + 1 \in 1 .. (Len(t) + 1) /\ Len(t) + 1 > Len(t)
  OBVIOUS
<1>2. f[Len(t) + 1] = From(f, t, Len(t) + 1, code)
  BY <1>1 DEF IsCutting
<1> QED BY <1>1, <1>2, Zenon DEF From

LEMMA CodeCut ==
  ASSUME NEW t \in Seq(Symbol)
  PROVE  IsCutting(Cutting(t), t, TRUE)
BY CuttingThere DEF Cutting

LEMMA TrueCut ==
  ASSUME NEW t \in Seq(Symbol)
  PROVE  IsCutting(TrueCutting(t), t, FALSE)
<1>1. \A f, k : TrueFrom(f, t, k) = From(f, t, k, FALSE)
  BY Zenon DEF TrueFrom, From, TokenBy
<1>2. \A f : IsTrueCutting(f, t) <=> IsCutting(f, t, FALSE)
  <2> SUFFICES ASSUME NEW f
               PROVE  [k \in 1 .. (Len(t) + 1) |-> TrueFrom(f, t, k)] =
                        [k \in 1 .. (Len(t) + 1) |-> From(f, t, k, FALSE)]
    BY Zenon DEF IsTrueCutting, IsCutting
  <2>1. \A k \in 1 .. (Len(t) + 1) : TrueFrom(f, t, k) = From(f, t, k, FALSE)
    BY <1>1, Zenon
  <2> QED BY <2>1
<1>3. IsTrueCutting(CuttingBy(t, FALSE), t)
  BY <1>2, CuttingThere, Zenon
<1>4. IsTrueCutting(TrueCutting(t), t)
  BY <1>3, Zenon DEF TrueCutting
<1> QED BY <1>2, <1>4, Zenon

LEMMA CutHere ==
  ASSUME NEW t \in Seq(Symbol), NEW k \in 1 .. Len(t)
  PROVE  /\ t[k] = Space => Cutting(t)[k] = Cutting(t)[k + 1]
         /\ t[k] # Space =>
              Cutting(t)[k] = <<TokenAt(t, k)>> \o Cutting(t)[k + Len(WordAt(t, k))]
         /\ Cutting(t)[Len(t) + 1] = <<>>
<1>1. TokenBy(t, k, TRUE) = TokenAt(t, k)
  BY Zenon DEF TokenBy
<1>2. PICK f, code : f = Cutting(t) /\ code = TRUE
  OBVIOUS
<1>3. IsCutting(f, t, code)
  BY <1>2, CodeCut
<1>4. /\ t[k] = Space => f[k] = f[k + 1]
      /\ t[k] # Space => f[k] = <<TokenBy(t, k, code)>> \o f[k + Len(WordAt(t, k))]
  BY <1>3, CutHereBy
<1>5. f[Len(t) + 1] = <<>>
  BY <1>3, CutEndBy
<1> QED BY <1>1, <1>2, <1>4, <1>5, Zenon

LEMMA TrueCutHere ==
  ASSUME NEW t \in Seq(Symbol), NEW k \in 1 .. Len(t)
  PROVE  /\ t[k] = Space => TrueCutting(t)[k] = TrueCutting(t)[k + 1]
         /\ t[k] # Space =>
              TrueCutting(t)[k] = <<TrueTokenAt(t, k)>> \o TrueCutting(t)[k + Len(WordAt(t, k))]
<1>1. TokenBy(t, k, FALSE) = TrueTokenAt(t, k)
  BY Zenon DEF TokenBy
<1>2. PICK f, code : f = TrueCutting(t) /\ code = FALSE
  OBVIOUS
<1>3. IsCutting(f, t, code)
  BY <1>2, TrueCut
<1>4. /\ t[k] = Space => f[k] = f[k + 1]
      /\ t[k] # Space => f[k] = <<TokenBy(t, k, code)>> \o f[k + Len(WordAt(t, k))]
  BY <1>3, CutHereBy
<1> QED BY <1>1, <1>2, <1>4, Zenon

LEMMA CutNothing == Cutting(<<>>)[1] = <<>>
<1>1. <<>> \in Seq(Symbol) /\ Len(<<>>) + 1 = 1
  OBVIOUS
<1> QED BY <1>1, CodeCut, CutEndBy, Zenon

LEMMA CutType ==
  ASSUME NEW t \in Seq(Symbol), NEW k \in 1 .. (Len(t) + 1)
  PROVE  Cutting(t)[k] \in Seq(AnyToken)
<1>0. Len(t) \in Nat
  OBVIOUS
<1> DEFINE Q == {n \in 0 .. Len(t) : Cutting(t)[Len(t) + 1 - n] \notin Seq(AnyToken)}
<1>1. ASSUME Q # {} PROVE FALSE
  <2>1. PICK n \in Q : \A j \in Q : n <= j
    <3>1. Q \subseteq Nat
      OBVIOUS
    <3> HIDE DEF Q
    <3> QED BY <1>1, <3>1, LeastNat
  <2> DEFINE m == Len(t) + 1 - n
  <2>2. n \in 0 .. Len(t) /\ m \in 1 .. (Len(t) + 1) /\ Cutting(t)[m] \notin Seq(AnyToken)
    BY <1>0
  <2>3. ASSUME NEW e \in (m + 1) .. (Len(t) + 1) PROVE Cutting(t)[e] \in Seq(AnyToken)
    <3> DEFINE j == Len(t) + 1 - e
    <3>1. j \in 0 .. Len(t) /\ ~(n <= j) /\ Len(t) + 1 - j = e
      BY <1>0, <2>2
    <3> HIDE DEF j
    <3>2. j \notin Q
      <4> HIDE DEF Q
      <4> QED BY <2>1, <3>1
    <3> QED BY <3>1, <3>2
  <2> HIDE DEF Q, m
  <2>4. CASE m = Len(t) + 1
    <3>1. CASE t = <<>>
      <4>1. Len(t) = 0 /\ <<>> \in Seq(AnyToken)
        BY <3>1
      <4>2. m = 1
        BY <2>4, <4>1
      <4> QED BY <2>2, <3>1, <4>1, <4>2, CutNothing
    <3>2. CASE t # <<>>
      <4>1. 1 \in 1 .. Len(t)
        BY <3>2
      <4>2. Cutting(t)[Len(t) + 1] = <<>>
        BY <4>1, CutHere
      <4> QED BY <2>2, <2>4, <4>2
    <3> QED BY <3>1, <3>2
  <2>5. CASE m # Len(t) + 1
    <3>1. m \in 1 .. Len(t)
      BY <1>0, <2>2, <2>5
    <3>2. /\ t[m] = Space => Cutting(t)[m] = Cutting(t)[m + 1]
          /\ t[m] # Space =>
               Cutting(t)[m] = <<TokenAt(t, m)>> \o Cutting(t)[m + Len(WordAt(t, m))]
      BY <3>1, CutHere
    <3>3. /\ WordAt(t, m) \in Seq(Symbol)
          /\ m + Len(WordAt(t, m)) \in (m + 1) .. (Len(t) + 1)
      BY <3>1, WordThere
    <3>4. m + 1 \in (m + 1) .. (Len(t) + 1)
      BY <1>0, <3>1
    <3>5. Cutting(t)[m + 1] \in Seq(AnyToken) /\ Cutting(t)[m + Len(WordAt(t, m))] \in Seq(AnyToken)
      BY <2>3, <3>3, <3>4
    <3>6. TokenAt(t, m) \in AnyToken
      BY <3>3, KindKnown DEF TokenAt, AnyToken
    <3>7. <<TokenAt(t, m)>> \o Cutting(t)[m + Len(WordAt(t, m))] \in Seq(AnyToken)
      BY <3>5, <3>6
    <3> QED BY <2>2, <3>2, <3>5, <3>7
  <2> QED BY <2>4, <2>5
<1>2. k = Len(t) + 1 - (Len(t) + 1 - k) /\ Len(t) + 1 - k \in 0 .. Len(t)
  BY <1>0
<1>3. \A n \in 0 .. Len(t) : Cutting(t)[Len(t) + 1 - n] \in Seq(AnyToken)
  BY <1>1
<1> HIDE DEF Q
<1> QED BY <1>2, <1>3

-----------------------------------------------------------------------------
(* What a word is, from its characters.                                     *)

IdentChars == AlNum \cup {"_"}
IdentFirst == Letters \cup {"_"}
IsPoint(d) == d = "."

LEMMA Classes ==
  /\ \A d \in IdentChars : d \in WordChars /\ ~ IsPoint(d) /\ d \notin opwords1 /\ d # Space
  /\ \A d \in AlNum : d \in IdentChars
  /\ \A d \in IdentFirst : d \in IdentChars /\ d \notin Digits
  /\ \A d \in Digits : d \in AlNum /\ d \notin Letters /\ d \notin IdentFirst
  /\ \A d \in Letters : d \in AlNum /\ d \in IdentFirst
  /\ \A d : IsPoint(d) => /\ d \in WordChars /\ d \notin IdentChars /\ d \notin IdentFirst
                          /\ d \notin Digits /\ d \notin opwords1 /\ d # Space
  /\ \A d \in WordChars : d \in IdentChars \/ IsPoint(d)
  /\ \A d \in opwords1 : d \notin WordChars /\ d # Space
  /\ Space \notin WordChars
<1>1. "_" \notin Digits /\ "_" \in WordChars /\ "_" # "." /\ "_" \notin AlNum
  BY Zenon DEF Digits, WordChars, AlNum, Letters, keywords
<1>2. "." \notin AlNum /\ WordChars = AlNum \cup {"_", "."} /\ "." \in WordChars
  BY Zenon, Underscore DEF WordChars
<1>3. \A d \in opwords1 : d \notin WordChars
  BY Chars
<1>4. Space \notin WordChars /\ Space \notin opwords1
  BY Chars
<1>5. Letters \cup Digits = AlNum
  BY Chars
<1>6. \A d \in Digits : d \notin Letters
  BY Chars
<1> HIDE DEF WordChars, AlNum, Letters, Digits, opwords1
<1>7. \A d \in IdentChars : d \in WordChars /\ ~ IsPoint(d) /\ d \notin opwords1 /\ d # Space
  BY <1>1, <1>2, <1>3, <1>4, Zenon DEF IdentChars, IsPoint
<1>8. \A d \in AlNum : d \in IdentChars
  BY Zenon DEF IdentChars
<1>9. \A d \in IdentFirst : d \in IdentChars /\ d \notin Digits
  BY <1>1, <1>5, <1>6, Zenon DEF IdentChars, IdentFirst
<1>10. \A d \in Digits : d \in AlNum /\ d \notin Letters /\ d \notin IdentFirst
  BY <1>5, <1>6, <1>9, Zenon
<1>11. \A d \in Letters : d \in AlNum /\ d \in IdentFirst
  BY <1>5, Zenon DEF IdentFirst
<1>12. \A d : IsPoint(d) => /\ d \in WordChars /\ d \notin IdentChars /\ d \notin IdentFirst
                            /\ d \notin Digits /\ d \notin opwords1 /\ d # Space
  BY <1>2, <1>3, <1>4, <1>7, <1>9, <1>10, Zenon DEF IsPoint
<1>13. \A d \in WordChars : d \in IdentChars \/ IsPoint(d)
  BY <1>2, Zenon DEF IdentChars, IsPoint
<1>14. \A d \in opwords1 : d \notin WordChars /\ d # Space
  BY <1>3, <1>4, Zenon
<1> QED BY <1>4, <1>7, <1>8, <1>9, <1>10, <1>11, <1>12, <1>13, <1>14, Zenon

LEMMA KindCases ==
  ASSUME NEW w
  PROVE  /\ w[1] \in opwords1 => KindOf(w) = get_op_type(w)
         /\ w[1] \in WordChars /\ IsIdent(w) /\ ~ IsInt(w) /\ ~ IsFloat(w) => KindOf(w) = get_Ident_type(w)
         /\ w[1] \in WordChars /\ ~ IsIdent(w) /\ IsInt(w) /\ ~ IsFloat(w) => KindOf(w) = "INTLTR"
         /\ w[1] \in WordChars /\ ~ IsIdent(w) /\ ~ IsInt(w) /\ IsFloat(w) => KindOf(w) = "FLOATLTR"
         /\ w[1] \in WordChars /\ ~ IsIdent(w) /\ ~ IsInt(w) /\ ~ IsFloat(w) => KindOf(w) = NoToken
         /\ w[1] \notin WordChars \cup opwords1 => KindOf(w) = NoToken
<1>1. \A d \in opwords1 : d \notin WordChars
  BY Chars
<1> HIDE DEF get_Ident_type, get_op_type, IsIdent, IsInt, IsFloat, WordChars, opwords1
<1> QED BY <1>1, Zenon DEF KindOf, NoToken

\* Of its conditions, with the names of the classes of characters.
LEMMA IdentMeans ==
  ASSUME NEW w
  PROVE  IsIdent(w) <=> w[1] \in IdentFirst /\ \A k \in DOMAIN w : ~ IsPoint(w[k])
BY Zenon DEF IsIdent, IdentFirst, IsPoint

LEMMA IntMeans ==
  ASSUME NEW w
  PROVE  IsInt(w) <=> \/ \A k \in DOMAIN w : w[k] \in Digits
                      \/ /\ Len(w) > 2 /\ w[1] = "0" /\ w[1] \in Digits
                         /\ w[2] = "x" /\ w[2] \in Letters /\ \A k \in 3 .. Len(w) : w[k] \in AlNum
<1>1. "0" \in Digits
  BY Zenon DEF Digits
<1>2. "x" \in Letters
  BY Zenon DEF Letters
<1> QED BY <1>1, <1>2, Zenon DEF IsInt

LEMMA FloatMeans ==
  ASSUME NEW w
  PROVE  IsFloat(w) <=> /\ \E k \in DOMAIN w : IsPoint(w[k]) /\ \A j \in DOMAIN w \ {k} : w[j] \in Digits
                        /\ Len(w) > 1
BY Zenon DEF IsFloat, IsPoint

LEMMA KindAtMeans ==
  ASSUME NEW t, NEW k, NEW w
  PROVE  KindAt(t, k, w) =
           IF k > 1 /\ IsPoint(w[1]) /\ t[k - 1] \in opwords1 /\ IsFloat(w) THEN "INTLTR" ELSE KindOf(w)
BY Zenon DEF KindAt, IsPoint

-----------------------------------------------------------------------------
(* What the automaton knows of the characters it has put together, and what *)
(* that says of their kind.                                                 *)

IdentShape(w)       == w[1] \in IdentFirst /\ \A k \in DOMAIN w : w[k] \in IdentChars
BehindOp(t, s)      == s > 1 /\ t[s - 1] \in opwords1
IntShape(t, s, w)   == /\ w[1] \in Digits \/ (IsPoint(w[1]) /\ BehindOp(t, s))
                       /\ \A k \in DOMAIN w : k # 1 => w[k] \in AlNum
\* A point, and a second one if the first is right behind an operator.
FloatShape(t, s, w) == /\ w[1] \in Digits \/ IsPoint(w[1])
                       /\ \A k \in DOMAIN w : w[k] \in WordChars
                       /\ \E k \in DOMAIN w :
                            IsPoint(w[k]) /\ (IsPoint(w[1]) /\ BehindOp(t, s) => k # 1)
OpShape(w)          == w \in opwords2 \/ (Len(w) = 1 /\ w[1] \in opwords1)
Shape(t, s, w, state) ==
  /\ state = "Ident" => IdentShape(w)
  /\ state = "IntLiteral" => IntShape(t, s, w)
  /\ state = "FloatLiteral" => FloatShape(t, s, w)
  /\ state = "op" => OpShape(w)

IsText(w) == Len(w) \in Nat \ {0} /\ DOMAIN w = 1 .. Len(w)

\* Not even a number: a second character that is no digit besides a point.
LEMMA NoFloat ==
  ASSUME NEW w, IsText(w), w[1] \in Digits \/ IsPoint(w[1]),
         NEW j \in DOMAIN w, IsPoint(w[j]), NEW k \in DOMAIN w, k # j, w[k] \notin Digits
  PROVE  ~ IsIdent(w) /\ ~ IsInt(w) /\ ~ IsFloat(w)
<1>1. ~ IsIdent(w)
  BY Classes, IdentMeans
<1>2. ~ IsInt(w)
  <2>1. w[j] \notin Digits /\ w[j] \notin AlNum /\ w[j] \notin Letters
    BY Classes
  <2>2. j \in 1 .. Len(w) /\ Len(w) \in Nat
    BY DEF IsText
  <2>3. j = 1 \/ j = 2 \/ j \in 3 .. Len(w)
    BY <2>2
  <2> QED BY <2>1, <2>3, IntMeans
<1>3. ~ IsFloat(w)
  <2> SUFFICES ASSUME IsFloat(w) PROVE FALSE
    OBVIOUS
  <2>1. PICK i \in DOMAIN w : IsPoint(w[i]) /\ \A m \in DOMAIN w \ {i} : w[m] \in Digits
    BY FloatMeans
  <2>2. w[j] \notin Digits
    BY Classes
  <2> QED BY <2>1, <2>2
<1> QED BY <1>1, <1>2, <1>3

LEMMA IdentKind ==
  ASSUME NEW w, IsText(w), IdentShape(w), NEW t, NEW s
  PROVE  KindAt(t, s, w) = get_Ident_type(w)
<1>1. w[1] \in IdentFirst /\ w[1] \in WordChars /\ w[1] \notin Digits /\ ~ IsPoint(w[1])
      /\ \A k \in DOMAIN w : ~ IsPoint(w[k])
  BY Classes DEF IdentShape
<1>2. 1 \in DOMAIN w
  BY DEF IsText
<1>3. IsIdent(w) /\ ~ IsInt(w) /\ ~ IsFloat(w)
  BY <1>1, <1>2, IdentMeans, IntMeans, FloatMeans, Zenon
<1>4. KindOf(w) = get_Ident_type(w)
  BY <1>1, <1>3, KindCases
<1> QED BY <1>1, <1>4, KindAtMeans, Zenon

LEMMA IntKind ==
  ASSUME NEW t, NEW s, NEW w, IsText(w), IntShape(t, s, w)
  PROVE  KindAt(t, s, w) \in {"INTLTR", NoToken}
<1>1. 1 \in DOMAIN w
  BY DEF IsText
<1>2. w[1] \in WordChars /\ ~ IsIdent(w)
  BY Classes, IdentMeans DEF IntShape
<1>3. CASE w[1] \in Digits
  <2>1. \A k \in DOMAIN w : ~ IsPoint(w[k])
    BY <1>3, Classes DEF IntShape
  <2>2. ~ IsFloat(w)
    BY <2>1, FloatMeans
  <2>3. KindOf(w) \in {"INTLTR", NoToken}
    BY <1>2, <2>2, KindCases, Zenon
  <2>4. ~ IsPoint(w[1])
    BY <1>3, Classes
  <2> QED BY <2>3, <2>4, KindAtMeans, Zenon
<1>4. CASE w[1] \notin Digits
  <2>1. IsPoint(w[1]) /\ BehindOp(t, s)
    BY <1>4 DEF IntShape
  <2>2. ~ IsInt(w)
    BY <1>1, <1>4, IntMeans, Zenon
  <2>3. KindOf(w) = NoToken \/ IsFloat(w)
    BY <1>2, <2>2, KindCases, Zenon
  <2>4. IsFloat(w) => KindAt(t, s, w) = "INTLTR"
    BY <2>1, KindAtMeans, Zenon DEF BehindOp
  <2>5. ~ IsFloat(w) => KindAt(t, s, w) = KindOf(w)
    BY KindAtMeans, Zenon
  <2> QED BY <2>3, <2>4, <2>5, Zenon
<1> QED BY <1>3, <1>4, Zenon

LEMMA FloatKind ==
  ASSUME NEW t, NEW s, NEW w, IsText(w), FloatShape(t, s, w)
  PROVE  KindAt(t, s, w) \in {"FLOATLTR", NoToken}
<1>1. PICK j \in DOMAIN w : IsPoint(w[j]) /\ (IsPoint(w[1]) /\ BehindOp(t, s) => j # 1)
  BY DEF FloatShape
<1>2. 1 \in DOMAIN w
  BY DEF IsText
<1>3. w[1] \in WordChars /\ (w[1] \in Digits \/ IsPoint(w[1]))
  BY Classes DEF FloatShape
<1>4. CASE \A k \in DOMAIN w : k # j => w[k] \in Digits
  <2>1. ~ IsIdent(w)
    BY <1>1, IdentMeans
  <2>2. ~ IsInt(w)
    <3>1. w[j] \notin Digits /\ w[j] \notin AlNum /\ w[j] \notin Letters
      BY <1>1, Classes
    <3>2. j \in 1 .. Len(w) /\ Len(w) \in Nat
      BY DEF IsText
    <3>3. j = 1 \/ j = 2 \/ j \in 3 .. Len(w)
      BY <3>2
    <3> QED BY <3>1, <3>3, IntMeans
  <2>3. ~ (IsPoint(w[1]) /\ BehindOp(t, s))
    <3> SUFFICES ASSUME IsPoint(w[1]), BehindOp(t, s) PROVE FALSE
      OBVIOUS
    <3>1. w[1] \in Digits
      BY <1>1, <1>2, <1>4
    <3> QED BY <3>1, Classes
  <2>4. KindOf(w) \in {"FLOATLTR", NoToken}
    BY <1>3, <2>1, <2>2, KindCases, Zenon
  <2> QED BY <2>3, <2>4, KindAtMeans, Zenon DEF BehindOp
<1>5. CASE ~ \A k \in DOMAIN w : k # j => w[k] \in Digits
  <2>1. PICK k \in DOMAIN w : k # j /\ w[k] \notin Digits
    BY <1>5
  <2>2. ~ IsIdent(w) /\ ~ IsInt(w) /\ ~ IsFloat(w)
    BY <1>1, <1>3, <2>1, NoFloat
  <2>3. KindOf(w) = NoToken
    BY <1>3, <2>2, KindCases, Zenon
  <2> QED BY <2>2, <2>3, KindAtMeans, Zenon
<1> QED BY <1>4, <1>5, Zenon

LEMMA OpKind ==
  ASSUME NEW w, OpShape(w), NEW t, NEW s
  PROVE  KindAt(t, s, w) = get_op_type(w)
<1>1. w[1] \in opwords1
  BY Pairs DEF OpShape
<1>2. ~ IsPoint(w[1])
  BY <1>1, Classes
<1> QED BY <1>1, <1>2, KindAtMeans, KindCases, Zenon

\* Where the automaton fails there is no token.
LEMMA PointInIdent ==
  ASSUME NEW w, IsText(w), w[1] \in IdentFirst, NEW k \in DOMAIN w, IsPoint(w[k]), NEW t, NEW s
  PROVE  KindAt(t, s, w) = NoToken
<1>1. w[1] \in WordChars /\ w[1] \notin Digits /\ ~ IsPoint(w[1])
  BY Classes
<1>2. 1 \in DOMAIN w
  BY DEF IsText
<1>3. ~ IsIdent(w)
  BY IdentMeans
<1>4. ~ IsInt(w)
  BY <1>1, <1>2, IntMeans, Zenon
<1>5. ~ IsFloat(w)
  <2> SUFFICES ASSUME IsFloat(w) PROVE FALSE
    OBVIOUS
  <2>1. PICK i \in DOMAIN w : IsPoint(w[i]) /\ \A m \in DOMAIN w \ {i} : w[m] \in Digits
    BY FloatMeans
  <2> QED BY <1>1, <1>2, <2>1
<1>6. KindOf(w) = NoToken
  BY <1>1, <1>3, <1>4, <1>5, KindCases, Zenon
<1> QED BY <1>5, <1>6, KindAtMeans, Zenon

LEMMA NoDigitInFloat ==
  ASSUME NEW w, IsText(w), w[1] \in Digits \/ IsPoint(w[1]),
         NEW j \in DOMAIN w, IsPoint(w[j]), NEW k \in DOMAIN w, k # j, w[k] \notin Digits, NEW t, NEW s
  PROVE  KindAt(t, s, w) = NoToken
<1>1. ~ IsIdent(w) /\ ~ IsInt(w) /\ ~ IsFloat(w)
  BY NoFloat
<1>2. w[1] \in WordChars
  BY Classes
<1>3. KindOf(w) = NoToken
  BY <1>1, <1>2, KindCases, Zenon
<1> QED BY <1>1, <1>3, KindAtMeans, Zenon

LEMMA UnderscoreInInt ==
  ASSUME NEW w, IsText(w), w[1] \in Digits \/ IsPoint(w[1]),
         NEW k \in DOMAIN w, w[k] \notin AlNum, ~ IsPoint(w[k]), NEW t, NEW s
  PROVE  KindAt(t, s, w) = NoToken
<1>1. ~ IsIdent(w) /\ w[1] \in WordChars
  BY Classes, IdentMeans
<1>2. w[k] \notin Digits /\ w[k] \notin Letters
  BY Classes
<1>3. ~ IsInt(w)
  <2>1. k \in 1 .. Len(w) /\ Len(w) \in Nat
    BY DEF IsText
  <2>2. k = 1 \/ k = 2 \/ k \in 3 .. Len(w)
    BY <2>1
  <2> QED BY <1>2, <2>2, IntMeans
<1>4. ~ IsFloat(w)
  <2> SUFFICES ASSUME IsFloat(w) PROVE FALSE
    OBVIOUS
  <2>1. PICK i \in DOMAIN w : IsPoint(w[i]) /\ \A m \in DOMAIN w \ {i} : w[m] \in Digits
    BY FloatMeans
  <2> QED BY <1>2, <2>1
<1>5. KindOf(w) = NoToken
  BY <1>1, <1>3, <1>4, KindCases, Zenon
<1> QED BY <1>4, <1>5, KindAtMeans, Zenon

LEMMA StrayCharacter ==
  ASSUME NEW w, w[1] \notin WordChars \cup opwords1, NEW t, NEW s
  PROVE  KindAt(t, s, w) = NoToken
<1>1. ~ IsPoint(w[1])
  BY Classes
<1> QED BY <1>1, KindCases, KindAtMeans, Zenon

-----------------------------------------------------------------------------
(* The tokens so far, and the one in progress.                              *)

DfaStates == {"Empty", "Ident", "IntLiteral", "FloatLiteral", "op"}
\* What is cut from t is toks and what is cut from the k-th character on, all of it tokens.
Fed(t, k, toks) ==
  /\ Cutting(t)[1] = toks \o Cutting(t)[k]
  /\ \A j \in DOMAIN Cutting(t)[k] : Cutting(t)[k][j].type \notin NoTokens
\* The characters before p are in toks and, behind s, in str.
InToken(t, p, s, state, str, toks) ==
  /\ s \in 1 .. (p - 1) /\ Len(str) = p - s /\ str = SubSeq(t, s, p - 1)
  /\ t[s] # Space /\ Fed(t, s, toks) /\ Shape(t, s, str, state)
CutState(t, p, state, str, toks) ==
  /\ state \in DfaStates
  /\ state = "Empty" => Fed(t, p, toks) /\ (p > 1 => t[p - 1] = Space)
  /\ state # "Empty" => \E s \in 1 .. p : InToken(t, p, s, state, str, toks)

LEMMA FedKind ==
  ASSUME NEW t \in Seq(Symbol), NEW k \in 1 .. Len(t), NEW toks \in Seq(AnyToken), Fed(t, k, toks),
         t[k] # Space
  PROVE  /\ KindAt(t, k, WordAt(t, k)) \notin NoTokens
         /\ Fed(t, k + Len(WordAt(t, k)), Append(toks, TokenAt(t, k)))
<1> DEFINE next == k + Len(WordAt(t, k))
<1>1. Cutting(t)[k] = <<TokenAt(t, k)>> \o Cutting(t)[next]
  BY CutHere
<1>2. next \in (k + 1) .. (Len(t) + 1) /\ WordAt(t, k) \in Seq(Symbol)
  BY WordThere
<1> HIDE DEF next
<1>3. next \in 1 .. (Len(t) + 1)
  BY <1>2
<1> DEFINE rest == Cutting(t)[next]
           tok  == TokenAt(t, k)
<1>4. rest \in Seq(AnyToken)
  BY <1>3, CutType
<1>5. tok \in AnyToken /\ tok.type = KindAt(t, k, WordAt(t, k))
  BY <1>2, KindKnown DEF TokenAt, AnyToken
<1> HIDE DEF rest, tok
<1>6. Cutting(t)[k] = <<tok>> \o rest
  BY <1>1 DEF rest, tok
<1>7. /\ \A j \in DOMAIN rest : j + 1 \in DOMAIN (<<tok>> \o rest) /\ (<<tok>> \o rest)[j + 1] = rest[j]
      /\ 1 \in DOMAIN (<<tok>> \o rest) /\ (<<tok>> \o rest)[1] = tok
      /\ toks \o (<<tok>> \o rest) = Append(toks, tok) \o rest
  <2>1. <<tok>> \o rest \in Seq(AnyToken) /\ Len(<<tok>> \o rest) = 1 + Len(rest) /\ Len(rest) \in Nat
    BY <1>4, <1>5
  <2>2. DOMAIN rest = 1 .. Len(rest) /\ DOMAIN (<<tok>> \o rest) = 1 .. (1 + Len(rest))
    BY <1>4, <2>1
  <2>3. (<<tok>> \o rest)[1] = tok
    BY <1>4, <1>5
  <2>4. \A j \in 1 .. Len(rest) : j + 1 \in 1 .. (1 + Len(rest)) /\ (<<tok>> \o rest)[j + 1] = rest[j]
    BY <1>4, <1>5
  <2>5. toks \o (<<tok>> \o rest) = Append(toks, tok) \o rest
    <3>1. tok \in AnyToken
      BY <1>5, Zenon
    <3>2. <<tok>> \in Seq(AnyToken)
      BY <3>1
    <3>3. (toks \o <<tok>>) \o rest = toks \o (<<tok>> \o rest)
      BY <1>4, <3>2, ConcatAssociative
    <3>4. toks \o <<tok>> = Append(toks, tok)
      BY <3>1
    <3> QED BY <3>3, <3>4
  <2>6. 1 \in 1 .. (1 + Len(rest))
    BY <2>1
  <2> QED BY <2>2, <2>3, <2>4, <2>5, <2>6
<1>8. \A j \in DOMAIN (<<tok>> \o rest) : (<<tok>> \o rest)[j].type \notin NoTokens
  BY <1>6, Zenon DEF Fed
<1>9. tok.type \notin NoTokens
  BY <1>7, <1>8, Zenon
<1>10. \A j \in DOMAIN rest : rest[j].type \notin NoTokens
  BY <1>7, <1>8, Zenon
<1>11. Cutting(t)[1] = Append(toks, tok) \o rest
  BY <1>6, <1>7, Zenon DEF Fed
<1> QED BY <1>5, <1>9, <1>10, <1>11, Zenon DEF Fed, rest, next, tok

LEMMA BlankSkipped ==
  ASSUME NEW t \in Seq(Symbol), NEW p \in 1 .. Len(t), NEW toks, Fed(t, p, toks), t[p] = Space
  PROVE  Fed(t, p + 1, toks)
BY CutHere, Zenon DEF Fed

LEMMA TokenStarts ==
  ASSUME NEW t \in Seq(Symbol), NEW p \in 1 .. Len(t), NEW toks, Fed(t, p, toks), t[p] # Space,
         NEW next \in DfaStates \ {"Empty"}, Shape(t, p, <<t[p]>>, next)
  PROVE  CutState(t, p + 1, next, <<t[p]>>, toks)
<1>1. /\ p \in 1 .. ((p + 1) - 1) /\ Len(<<t[p]>>) = (p + 1) - p /\ p \in 1 .. (p + 1)
      /\ <<t[p]>> = SubSeq(t, p, (p + 1) - 1)
  OBVIOUS
<1>2. InToken(t, p + 1, p, next, <<t[p]>>, toks)
  BY <1>1 DEF InToken
<1> QED BY <1>1, <1>2, Zenon DEF CutState

LEMMA TokenGrows ==
  ASSUME NEW t \in Seq(Symbol), NEW p \in 1 .. Len(t), NEW s, NEW str, NEW toks, NEW state,
         InToken(t, p, s, state, str, toks),
         NEW next \in DfaStates \ {"Empty"}, Shape(t, s, Append(str, t[p]), next)
  PROVE  CutState(t, p + 1, next, Append(str, t[p]), toks)
<1>1. s \in 1 .. (p - 1) /\ Len(str) = p - s /\ str = SubSeq(t, s, p - 1)
  BY DEF InToken
<1>2. str \in Seq(Symbol)
  BY <1>1
<1>3. /\ s \in 1 .. ((p + 1) - 1) /\ s \in 1 .. (p + 1)
      /\ Len(Append(str, t[p])) = (p + 1) - s
  BY <1>1, <1>2
<1>4. Append(str, t[p]) = SubSeq(t, s, (p + 1) - 1)
  <2>1. (p + 1) - 1 = p /\ s \in 1 .. Len(t)
    BY <1>1
  <2>2. Append(SubSeq(t, s, p - 1), t[p]) = SubSeq(t, s, p)
    BY <1>1, <2>1
  <2> QED BY <1>1, <2>1, <2>2
<1>5. InToken(t, p + 1, s, next, Append(str, t[p]), toks)
  BY <1>3, <1>4 DEF InToken
<1> QED BY <1>3, <1>5, Zenon DEF CutState

\* A token as long as what has been put together is what has been put together.
LEMMA TokenEnds ==
  ASSUME NEW t \in Seq(Symbol), NEW p \in 1 .. (Len(t) + 1), NEW s, NEW str, NEW toks \in Seq(AnyToken),
         NEW state, InToken(t, p, s, state, str, toks), LengthAt(t, s) = p - s
  PROVE  /\ KindAt(t, s, str) \notin NoTokens
         /\ Fed(t, p, Append(toks, [type |-> KindAt(t, s, str), value |-> str]))
<1>1. /\ s \in 1 .. (p - 1) /\ s \in 1 .. Len(t) /\ str = SubSeq(t, s, p - 1) /\ Len(str) = p - s
      /\ t[s] # Space /\ Fed(t, s, toks)
  BY DEF InToken
<1>2. WordAt(t, s) = str
  <2>1. s + LengthAt(t, s) - 1 = p - 1
    BY <1>1
  <2> QED BY <1>1, <2>1 DEF WordAt
<1>3. s + Len(WordAt(t, s)) = p
  BY <1>1, <1>2
<1> QED BY <1>1, <1>2, <1>3, FedKind, Zenon DEF TokenAt

\* The characters of the token in progress.
Spelled(t, p, s, str) ==
  /\ DOMAIN str = 1 .. (p - s)
  /\ \A j \in 1 .. (p - s) : str[j] = t[s + j - 1]
  /\ \A j \in s .. (p - 1) : t[j] = str[j - s + 1] /\ j - s + 1 \in DOMAIN str

LEMMA InProgress ==
  ASSUME NEW t \in Seq(Symbol), NEW p \in 1 .. (Len(t) + 1), NEW s, NEW str, NEW toks, NEW state,
         InToken(t, p, s, state, str, toks)
  PROVE  /\ IsText(str) /\ s \in 1 .. Len(t) /\ p - s \in 1 .. Len(t) /\ s < p
         /\ str \in Seq(Symbol) /\ Spelled(t, p, s, str) /\ Shape(t, s, str, state)
<1>1. s \in 1 .. (p - 1) /\ Len(str) = p - s /\ str = SubSeq(t, s, p - 1)
  BY DEF InToken
<1>2. s \in 1 .. Len(t) /\ p - s \in 1 .. Len(t) /\ s < p
  BY <1>1
<1>3. str \in Seq(Symbol)
  BY <1>1
<1>4. DOMAIN str = 1 .. (p - s) /\ Len(str) \in Nat \ {0}
  BY <1>1, <1>2, <1>3
<1>5. \A j \in 1 .. (p - s) : str[j] = t[s + j - 1]
  BY <1>1, <1>2
<1>6. \A j \in s .. (p - 1) : t[j] = str[j - s + 1] /\ j - s + 1 \in DOMAIN str
  <2> SUFFICES ASSUME NEW j \in s .. (p - 1) PROVE t[j] = str[j - s + 1] /\ j - s + 1 \in DOMAIN str
    OBVIOUS
  <2>1. j - s + 1 \in 1 .. (p - s) /\ s + (j - s + 1) - 1 = j
    BY <1>1
  <2> QED BY <1>4, <1>5, <2>1
<1> QED BY <1>1, <1>2, <1>3, <1>4, <1>5, <1>6 DEF IsText, InToken, Spelled

-----------------------------------------------------------------------------
(* A token ends where the automaton ends it.                                *)

LEMMA ShapeChars ==
  ASSUME NEW t, NEW s, NEW str, NEW state \in {"Ident", "IntLiteral", "FloatLiteral"}, IsText(str),
         Shape(t, s, str, state)
  PROVE  /\ \A j \in DOMAIN str : str[j] \in WordChars
         /\ state = "Ident" => str[1] \in IdentFirst
         /\ state # "Ident" => str[1] \in Digits \/ IsPoint(str[1])
<1>1. CASE state = "Ident"
  BY <1>1, Classes DEF Shape, IdentShape
<1>2. CASE state = "IntLiteral"
  <2>1. IntShape(t, s, str)
    BY <1>2 DEF Shape
  <2>2. str[1] \in Digits \/ IsPoint(str[1])
    BY <2>1 DEF IntShape
  <2>3. \A j \in DOMAIN str : str[j] \in WordChars
    BY <2>1, <2>2, Classes DEF IntShape
  <2> QED BY <1>2, <2>2, <2>3
<1>3. CASE state = "FloatLiteral"
  <2>1. FloatShape(t, s, str)
    BY <1>3 DEF Shape
  <2> QED BY <1>3, <2>1 DEF FloatShape
<1> QED BY <1>1, <1>2, <1>3

LEMMA WordCompleted ==
  ASSUME NEW t \in Seq(Symbol), NEW p \in 1 .. Len(t), NEW s, NEW str, NEW toks,
         NEW state \in {"Ident", "IntLiteral", "FloatLiteral"},
         InToken(t, p, s, state, str, toks), t[p] \notin WordChars
  PROVE  LengthAt(t, s) = p - s
<1>0. p \in 1 .. (Len(t) + 1)
  OBVIOUS
<1>1. /\ IsText(str) /\ s \in 1 .. Len(t) /\ s < p /\ Shape(t, s, str, state)
      /\ Spelled(t, p, s, str)
  BY <1>0, InProgress, Zenon
<1>2. \A j \in DOMAIN str : str[j] \in WordChars
  BY <1>1, ShapeChars
<1>3. \A j \in s .. (p - 1) : t[j] \in WordChars
  BY <1>1, <1>2 DEF Spelled
<1>4. p \in (s + 1) .. Len(t) /\ Len(t) \in Nat
  BY <1>1
<1> QED BY <1>1, <1>3, <1>4, WordEnds

LEMMA AppendTwo ==
  ASSUME NEW a, NEW b
  PROVE  Append(<<a>>, b) = <<a, b>>
<1> DEFINE l == Append(<<a>>, b)
<1>1. Len(l) = 2 /\ l[1] = a /\ l[2] = b /\ l \in Seq({a, b})
  OBVIOUS
<1>2. <<a, b>> \in Seq({a, b})
  OBVIOUS
<1> HIDE DEF l
<1>3. l = <<a, b>>
  BY <1>1, <1>2
<1> QED BY <1>3 DEF l

LEMMA OpCompleted ==
  ASSUME NEW t \in Seq(Symbol), NEW p \in 1 .. Len(t), NEW s, NEW str, NEW toks,
         InToken(t, p, s, "op", str, toks), Append(str, t[p]) \notin opwords2
  PROVE  LengthAt(t, s) = p - s
<1>0. p \in 1 .. (Len(t) + 1)
  OBVIOUS
<1>1. /\ s \in 1 .. Len(t) /\ p - s \in 1 .. Len(t) /\ s < p /\ str \in Seq(Symbol)
      /\ \A j \in 1 .. (p - s) : str[j] = t[s + j - 1]
      /\ DOMAIN str = 1 .. (p - s) /\ OpShape(str) /\ Len(str) = p - s
  <2>1. Len(str) = p - s
    BY DEF InToken
  <2>2. s \in 1 .. Len(t) /\ p - s \in 1 .. Len(t) /\ s < p /\ str \in Seq(Symbol)
    BY <1>0, InProgress, Zenon
  <2>3. Spelled(t, p, s, str)
    BY <1>0, InProgress, Zenon
  <2>5. Shape(t, s, str, "op")
    BY <1>0, InProgress, Zenon
  <2> QED BY <2>1, <2>2, <2>3, <2>5, Zenon DEF Shape, Spelled
<1>2. str[1] = t[s] /\ t[s] \in opwords1
  <2>1. 1 \in 1 .. (p - s) /\ s + 1 - 1 = s
    BY <1>1
  <2>2. str[1] \in opwords1
    BY <1>1, Pairs DEF OpShape
  <2> QED BY <1>1, <2>1, <2>2
<1>3. LengthAt(t, s) = IF TwoAt(t, s) \in opwords2 THEN 2 ELSE 1
  BY <1>2, Chars DEF LengthAt
<1>4. TwoAt(t, s) = <<t[s], t[s + 1]>>
  <2>1. s \in 1 .. (Len(t) - 1)
    BY <1>1
  <2> QED BY <2>1 DEF TwoAt
<1>5. CASE str \in opwords2
  <2>0. \E a, b : str = <<a, b>>
    BY <1>5, Zenon DEF opwords2
  <2>1. Len(str) = 2 /\ p - s = 2
    BY <1>1, <1>5, Pairs
  <2>2. str[2] = t[s + 1]
    <3>1. 2 \in 1 .. (p - s) /\ s + 2 - 1 = s + 1
      BY <1>1, <2>1
    <3> QED BY <1>1, <3>1
  <2>3. str = <<str[1], str[2]>>
    BY <2>0
  <2> QED BY <1>2, <1>3, <1>4, <1>5, <2>1, <2>2, <2>3
<1>6. CASE str \notin opwords2
  <2>1. Len(str) = 1 /\ p = s + 1
    BY <1>1, <1>6 DEF OpShape
  <2>2. str = <<t[s]>>
    BY <1>1, <1>2, <2>1
  <2>3. str = <<t[s]>> /\ t[p] = t[s + 1]
    BY <2>1, <2>2
  <2>4. Append(str, t[p]) = <<t[s], t[s + 1]>>
    BY <2>3, AppendTwo, Zenon
  <2> QED BY <1>1, <1>3, <1>4, <2>1, <2>4
<1> QED BY <1>5, <1>6

LEMMA KindIsType ==
  ASSUME NEW t, NEW s, cur_state \in {"FloatLiteral", "IntLiteral", "Ident", "op"}, IsText(cur_str),
         Shape(t, s, cur_str, cur_state), KindAt(t, s, cur_str) \notin NoTokens
  PROVE  TokenType = KindAt(t, s, cur_str) /\ TokenType \notin NoTokens
<1>1. CASE cur_state = "Ident"
  <2>1. IdentShape(cur_str)
    BY <1>1 DEF Shape
  <2>2. TokenType = get_Ident_type(cur_str)
    <3> HIDE DEF get_Ident_type, get_op_type
    <3> QED BY <1>1, Zenon DEF TokenType
  <2> QED BY <2>1, <2>2, IdentKind, Zenon
<1>2. CASE cur_state = "IntLiteral"
  <2>1. IntShape(t, s, cur_str)
    BY <1>2 DEF Shape
  <2>2. TokenType = "INTLTR"
    <3> HIDE DEF get_Ident_type, get_op_type
    <3> QED BY <1>2, Zenon DEF TokenType
  <2> QED BY <2>1, <2>2, IntKind, Zenon DEF NoTokens
<1>3. CASE cur_state = "FloatLiteral"
  <2>1. FloatShape(t, s, cur_str)
    BY <1>3 DEF Shape
  <2>2. TokenType = "FLOATLTR"
    <3> HIDE DEF get_Ident_type, get_op_type
    <3> QED BY <1>3, Zenon DEF TokenType
  <2> QED BY <2>1, <2>2, FloatKind, Zenon DEF NoTokens
<1>4. CASE cur_state = "op"
  <2>1. OpShape(cur_str)
    BY <1>4 DEF Shape
  <2>2. TokenType = get_op_type(cur_str)
    <3> HIDE DEF get_Ident_type, get_op_type
    <3> QED BY <1>4, Zenon DEF TokenType
  <2> QED BY <2>1, <2>2, OpKind, Zenon
<1> QED BY <1>1, <1>2, <1>3, <1>4, Zenon

\* No character stops the automaton inside of something that is cut into tokens.
LEMMA NoStray ==
  ASSUME NEW t \in Seq(Symbol), NEW p \in 1 .. Len(t), NEW toks \in Seq(AnyToken), Fed(t, p, toks),
         t[p] # Space, t[p] \notin opwords1 \cup WordChars
  PROVE  FALSE
<1>1. KindAt(t, p, WordAt(t, p)) \notin NoTokens
  BY FedKind
<1>2. WordAt(t, p)[1] = t[p]
  <2>1. LengthAt(t, p) \in 1 .. (Len(t) - p + 1)
    BY TokenLength
  <2> QED BY <2>1 DEF WordAt
<1>3. KindAt(t, p, WordAt(t, p)) = NoToken
  BY <1>2, StrayCharacter
<1> QED BY <1>1, <1>3 DEF NoTokens

\* A character of a word belongs to the token in progress, and so do those before.
LEMMA WordGoesOn ==
  ASSUME NEW t \in Seq(Symbol), NEW p \in 1 .. Len(t), NEW s, NEW str, NEW toks \in Seq(AnyToken),
         NEW state \in {"Ident", "IntLiteral", "FloatLiteral"},
         InToken(t, p, s, state, str, toks), t[p] \in WordChars
  PROVE  \E w : /\ IsText(w) /\ KindAt(t, s, w) \notin NoTokens
                /\ \A j \in DOMAIN str : j \in DOMAIN w /\ w[j] = str[j] /\ j # p - s + 1
                /\ p - s + 1 \in DOMAIN w /\ w[p - s + 1] = t[p]
<1>0. p \in 1 .. (Len(t) + 1)
  OBVIOUS
<1>1. /\ IsText(str) /\ s \in 1 .. Len(t) /\ s < p /\ Shape(t, s, str, state)
      /\ Spelled(t, p, s, str)
  BY <1>0, InProgress, Zenon
<1>2. \A j \in s .. p : t[j] \in WordChars
  <2>1. \A j \in DOMAIN str : str[j] \in WordChars
    BY <1>1, ShapeChars
  <2>2. \A j \in s .. (p - 1) : t[j] \in WordChars
    BY <1>1, <2>1 DEF Spelled
  <2>3. \A j \in s .. p : j \in s .. (p - 1) \/ j = p
    BY <1>1
  <2> QED BY <2>2, <2>3
<1>3. p - s + 1 <= LengthAt(t, s) /\ LengthAt(t, s) \in 1 .. (Len(t) - s + 1)
  <2>1. t[s] \in WordChars
    <3>1. s \in s .. p
      BY <1>1
    <3> QED BY <1>2, <3>1
  <2>2. p - s + 1 \in 1 .. (Len(t) - s + 1) /\ s + (p - s + 1) - 1 = p /\ Len(t) \in Nat
    BY <1>1
  <2> QED BY <1>1, <1>2, <2>1, <2>2, WordLength
<1> DEFINE w == WordAt(t, s)  n == LengthAt(t, s)
<1>4. Len(w) = n /\ DOMAIN w = 1 .. n /\ \A j \in 1 .. n : w[j] = t[s + j - 1]
  BY <1>1, <1>3 DEF WordAt
<1>5. KindAt(t, s, w) \notin NoTokens
  <2>1. Fed(t, s, toks) /\ t[s] # Space
    BY DEF InToken
  <2> QED BY <1>1, <2>1, FedKind
<1> HIDE DEF w, n
<1>6. n \in Nat \ {0} /\ p - s + 1 \in 1 .. n /\ p - s \in Nat /\ s + (p - s + 1) - 1 = p
      /\ \A j \in 1 .. (p - s) : j \in 1 .. n /\ j # p - s + 1
  BY <1>1, <1>3 DEF n
<1>7. IsText(w) /\ p - s + 1 \in DOMAIN w /\ w[p - s + 1] = t[p]
  BY <1>4, <1>6 DEF IsText
<1>8. \A j \in DOMAIN str : j \in DOMAIN w /\ w[j] = str[j] /\ j # p - s + 1
  <2> SUFFICES ASSUME NEW j \in 1 .. (p - s) PROVE j \in DOMAIN w /\ w[j] = str[j] /\ j # p - s + 1
    BY <1>1 DEF Spelled
  <2>1. str[j] = t[s + j - 1]
    BY <1>1 DEF Spelled
  <2> QED BY <1>4, <1>6, <2>1
<1> QED BY <1>5, <1>7, <1>8, Zenon

LEMMA NoFailing ==
  ASSUME NEW t \in Seq(Symbol), NEW p \in 1 .. Len(t), NEW s, NEW str, NEW toks \in Seq(AnyToken),
         NEW state \in {"Ident", "IntLiteral", "FloatLiteral"},
         InToken(t, p, s, state, str, toks), t[p] # Space, t[p] \notin opwords1,
         \/ t[p] \notin WordChars
         \/ state = "Ident" /\ t[p] \notin IdentChars
         \/ state = "IntLiteral" /\ t[p] \notin AlNum /\ ~ IsPoint(t[p])
         \/ state = "FloatLiteral" /\ t[p] \notin Digits
  PROVE  FALSE
<1>0. p \in 1 .. (Len(t) + 1)
  OBVIOUS
<1>1. IsText(str) /\ Shape(t, s, str, state)
  BY <1>0, InProgress, Zenon
<1>2. CASE t[p] \notin WordChars
  <2>1. LengthAt(t, s) = p - s
    BY <1>2, WordCompleted, Zenon
  <2>2. Fed(t, p, Append(toks, [type |-> KindAt(t, s, str), value |-> str]))
    BY <1>0, <2>1, TokenEnds, Zenon
  <2>3. Append(toks, [type |-> KindAt(t, s, str), value |-> str]) \in Seq(AnyToken)
    <3>1. str \in Seq(Symbol)
      BY <1>0, InProgress, Zenon
    <3>2. [type |-> KindAt(t, s, str), value |-> str] \in AnyToken
      BY <3>1, KindKnown DEF AnyToken
    <3> QED BY <3>2
  <2>4. t[p] \notin opwords1 \cup WordChars
    BY <1>2
  <2> QED BY <2>2, <2>3, <2>4, NoStray, Zenon
<1>3. CASE t[p] \in WordChars
  <2>1. PICK w : /\ IsText(w) /\ KindAt(t, s, w) \notin NoTokens
                 /\ \A j \in DOMAIN str : j \in DOMAIN w /\ w[j] = str[j] /\ j # p - s + 1
                 /\ p - s + 1 \in DOMAIN w /\ w[p - s + 1] = t[p]
    BY <1>3, WordGoesOn
  <2>2. KindAt(t, s, w) # NoToken
    BY <2>1 DEF NoTokens
  <2>3. 1 \in DOMAIN str /\ w[1] = str[1]
    <3>1. 1 \in DOMAIN str
      BY <1>1 DEF IsText
    <3> QED BY <2>1, <3>1
  <2>4. CASE state = "Ident" /\ t[p] \notin IdentChars
    <3>1. w[1] \in IdentFirst
      BY <1>1, <2>3, <2>4, ShapeChars
    <3>2. IsPoint(t[p])
      BY <1>3, <2>4, Classes
    <3> QED BY <2>1, <2>2, <3>1, <3>2, PointInIdent
  <2>5. CASE state = "IntLiteral" /\ t[p] \notin AlNum /\ ~ IsPoint(t[p])
    <3>1. w[1] \in Digits \/ IsPoint(w[1])
      BY <1>1, <2>3, <2>5, ShapeChars
    <3> QED BY <2>1, <2>2, <2>5, <3>1, UnderscoreInInt
  <2>6. CASE state = "FloatLiteral" /\ t[p] \notin Digits
    <3>1. w[1] \in Digits \/ IsPoint(w[1])
      BY <1>1, <2>3, <2>6, ShapeChars
    <3>2. PICK j \in DOMAIN str : IsPoint(str[j])
      BY <1>1, <2>6 DEF Shape, FloatShape
    <3>3. j \in DOMAIN w /\ IsPoint(w[j]) /\ j # p - s + 1
      BY <2>1, <3>2
    <3> QED BY <2>1, <2>2, <2>6, <3>1, <3>3, NoDigitInFloat
  <2> QED BY <1>3, <2>4, <2>5, <2>6
<1> QED BY <1>2, <1>3

-----------------------------------------------------------------------------
(* The shapes of what begins and of what goes on.                           *)

LEMMA ShapeBegins ==
  ASSUME NEW t, NEW p, NEW d, NEW next
  PROVE  /\ next = "Ident" /\ d \in IdentFirst => Shape(t, p, <<d>>, next)
         /\ next = "op" /\ d \in opwords1 => Shape(t, p, <<d>>, next)
         /\ next = "IntLiteral" /\ (d \in Digits \/ (IsPoint(d) /\ BehindOp(t, p))) =>
              Shape(t, p, <<d>>, next)
         /\ next = "FloatLiteral" /\ IsPoint(d) /\ ~ BehindOp(t, p) => Shape(t, p, <<d>>, next)
<1> DEFINE w == <<d>>
<1>1. DOMAIN w = {1} /\ w[1] = d /\ Len(w) = 1
  OBVIOUS
<1> HIDE DEF w
<1>2. d \in IdentFirst => IdentShape(w)
  BY <1>1, Classes DEF IdentShape
<1>3. d \in opwords1 => OpShape(w)
  BY <1>1 DEF OpShape
<1>4. d \in Digits \/ (IsPoint(d) /\ BehindOp(t, p)) => IntShape(t, p, w)
  BY <1>1 DEF IntShape
<1>5. IsPoint(d) /\ ~ BehindOp(t, p) => FloatShape(t, p, w)
  BY <1>1, Classes DEF FloatShape
<1> QED BY <1>2, <1>3, <1>4, <1>5 DEF Shape, w

LEMMA ShapeGoesOn ==
  ASSUME NEW t, NEW s, NEW str \in Seq(Symbol), IsText(str), NEW d \in Symbol, NEW state, NEW next,
         Shape(t, s, str, state),
         \/ state = "Ident" /\ next = "Ident" /\ d \in IdentChars
         \/ state = "IntLiteral" /\ next = "IntLiteral" /\ d \in AlNum
         \/ state = "IntLiteral" /\ next = "FloatLiteral" /\ IsPoint(d)
         \/ state = "FloatLiteral" /\ next = "FloatLiteral" /\ d \in Digits
         \/ next = "op" /\ Append(str, d) \in opwords2
  PROVE  Shape(t, s, Append(str, d), next)
<1> DEFINE w == Append(str, d)  n == Len(str) + 1
<1>1. /\ w[1] = str[1] /\ w[n] = d /\ DOMAIN w = 1 .. n /\ n \in DOMAIN w /\ n # 1
      /\ \A j \in DOMAIN str : j \in DOMAIN w /\ w[j] = str[j]
      /\ \A j \in DOMAIN w : j \in DOMAIN str \/ j = n
  BY DEF IsText
<1>2. 1 \in DOMAIN str
  BY DEF IsText
<1> HIDE DEF w, n
<1>3. CASE state = "Ident" /\ next = "Ident" /\ d \in IdentChars
  <2>1. IdentShape(str)
    BY <1>3 DEF Shape
  <2>2. IdentShape(w)
    BY <1>1, <1>3, <2>1 DEF IdentShape
  <2> QED BY <1>3, <2>2 DEF Shape, w
<1>4. CASE state = "IntLiteral" /\ next = "IntLiteral" /\ d \in AlNum
  <2>1. IntShape(t, s, str)
    BY <1>4 DEF Shape
  <2>2. IntShape(t, s, w)
    BY <1>1, <1>4, <2>1 DEF IntShape
  <2> QED BY <1>4, <2>2 DEF Shape, w
<1>5. CASE state = "IntLiteral" /\ next = "FloatLiteral" /\ IsPoint(d)
  <2>1. \A j \in DOMAIN str : str[j] \in WordChars
    BY <1>5, ShapeChars
  <2>2. str[1] \in Digits \/ IsPoint(str[1])
    BY <1>5, ShapeChars
  <2>3. d \in WordChars
    BY <1>5, Classes
  <2>4. FloatShape(t, s, w)
    <3>1. \A j \in DOMAIN w : w[j] \in WordChars
      BY <1>1, <2>1, <2>3
    <3>2. IsPoint(w[n]) /\ n \in DOMAIN w /\ n # 1
      BY <1>1, <1>5
    <3> QED BY <1>1, <2>2, <3>1, <3>2 DEF FloatShape
  <2> QED BY <1>5, <2>4 DEF Shape, w
<1>6. CASE state = "FloatLiteral" /\ next = "FloatLiteral" /\ d \in Digits
  <2>1. FloatShape(t, s, str)
    BY <1>6 DEF Shape
  <2>2. d \in WordChars
    BY <1>6, Classes
  <2>3. FloatShape(t, s, w)
    BY <1>1, <2>1, <2>2 DEF FloatShape
  <2> QED BY <1>6, <2>3 DEF Shape, w
<1>7. CASE next = "op" /\ Append(str, d) \in opwords2
  <2>1. OpShape(w)
    BY <1>7 DEF OpShape, w
  <2> QED BY <1>7, <2>1 DEF Shape, w
<1> QED BY <1>3, <1>4, <1>5, <1>6, <1>7

\* A point is not a part of an operator, and is right behind one in the state "op".
LEMMA LastOfOp ==
  ASSUME NEW t \in Seq(Symbol), NEW p \in 1 .. Len(t), NEW s, NEW str, NEW toks,
         InToken(t, p, s, "op", str, toks)
  PROVE  BehindOp(t, p)
<1>0. p \in 1 .. (Len(t) + 1)
  OBVIOUS
<1>1. /\ IsText(str) /\ s \in 1 .. Len(t) /\ s < p /\ Shape(t, s, str, "op") /\ Spelled(t, p, s, str)
  BY <1>0, InProgress, Zenon
<1>2. OpShape(str)
  BY <1>1 DEF Shape
<1>3. \A j \in DOMAIN str : str[j] \in opwords1
  <2>1. CASE str \in opwords2
    <3>1. Len(str) = 2 /\ str[1] \in opwords1 /\ str[2] \in opwords1
      BY <2>1, Pairs
    <3> QED BY <1>1, <3>1 DEF IsText
  <2>2. CASE Len(str) = 1 /\ str[1] \in opwords1
    BY <1>1, <2>2 DEF IsText
  <2> QED BY <1>2, <2>1, <2>2 DEF OpShape
<1>4. t[p - 1] \in opwords1
  <2>1. p - 1 \in s .. (p - 1)
    BY <1>1
  <2> QED BY <1>1, <1>3, <2>1 DEF Spelled
<1> QED BY <1>1, <1>4 DEF BehindOp

-----------------------------------------------------------------------------
(* The steps of the automaton.                                              *)

\* The text is being cut into tokens; the states in which one is in progress.
BeingCut == CutState(ss, pos, cur_state, cur_str, ans)
Words    == {"FloatLiteral", "IntLiteral", "Ident"}
Pending  == Words \cup {"op"}

LEMMA TokensAsCut == ASSUME ScanInv PROVE ans \in Seq(AnyToken)
<1>1. ans \in Seq(Token)
  BY DEF ScanInv, ScanType
<1>2. Token \subseteq AnyToken
  BY DEF Token, AnyToken
<1> HIDE DEF Token, AnyToken
<1> QED BY <1>1, <1>2

LEMMA Steps ==
  ASSUME ScanInv, BeingCut, NEW state, Reading(state)
  PROVE  /\ ss \in Seq(Symbol) /\ pos \in 1 .. Len(ss) /\ c = ss[pos] /\ c \in Symbol
         /\ ans \in Seq(AnyToken) /\ Going /\ cur_state = state
         /\ state = "Empty" => Fed(ss, pos, ans) /\ cur_str = <<>> /\ ~ BehindOp(ss, pos)
         /\ state # "Empty" => \E s \in 1 .. pos : InToken(ss, pos, s, state, cur_str, ans)
<1>1. ss \in Seq(Symbol) /\ pos \in 1 .. Len(ss) /\ c \in Symbol /\ Going
  BY Character DEF ScanInv, ScanType
<1>2. c = ss[pos] /\ cur_state = state
  BY DEF c, Reading
<1>3. ans \in Seq(AnyToken)
  BY TokensAsCut
<1>4. ASSUME state = "Empty" PROVE Fed(ss, pos, ans) /\ cur_str = <<>> /\ ~ BehindOp(ss, pos)
  <2>1. Fed(ss, pos, ans) /\ (pos > 1 => ss[pos - 1] = Space)
    BY <1>2, <1>4, Zenon DEF BeingCut, CutState
  <2>2. cur_str = <<>>
    BY <1>2, <1>4 DEF ScanInv, NothingPending
  <2>3. ~ BehindOp(ss, pos)
    BY <2>1, Chars, Zenon DEF BehindOp
  <2> QED BY <2>1, <2>2, <2>3
<1>5. ASSUME state # "Empty" PROVE \E s \in 1 .. pos : InToken(ss, pos, s, state, cur_str, ans)
  BY <1>2, <1>5, Zenon DEF BeingCut, CutState
<1> QED BY <1>1, <1>2, <1>3, <1>4, <1>5

\* What a step leaves: the text and where it goes on.
LEMMA ReadMoves ==
  ASSUME NEW next, NEW str, Read(next, str)
  PROVE  pos' = pos + 1 /\ ss' = ss /\ cur_state' = next /\ cur_str' = str
BY DEF Read, InText

LEMMA LongerCuts ==
  ASSUME ScanInv, BeingCut, NEW state, Reading(state), NEW next \in Pending, c # Space, Longer(next),
         \/ state = "Empty" /\ Shape(ss, pos, <<c>>, next)
         \/ state # "Empty" /\ \A s : InToken(ss, pos, s, state, cur_str, ans) =>
                                        Shape(ss, s, Append(cur_str, c), next)
  PROVE  Going' /\ BeingCut'
<1>1. /\ pos' = pos + 1 /\ ss' = ss /\ cur_state' = next /\ cur_str' = Append(cur_str, c)
      /\ ans' = ans /\ failed' = failed
  BY ReadMoves DEF Longer
<1>2. /\ ss \in Seq(Symbol) /\ pos \in 1 .. Len(ss) /\ c = ss[pos] /\ ans \in Seq(AnyToken) /\ Going
      /\ state = "Empty" => Fed(ss, pos, ans) /\ cur_str = <<>>
      /\ state # "Empty" => \E s \in 1 .. pos : InToken(ss, pos, s, state, cur_str, ans)
  BY Steps
<1>3. next \in DfaStates \ {"Empty"}
  BY DEF Pending, Words, DfaStates
<1>4. CutState(ss, pos + 1, next, Append(cur_str, c), ans)
  <2>1. CASE state = "Empty"
    <3>1. CutState(ss, pos + 1, next, <<c>>, ans)
      BY <1>2, <1>3, <2>1, TokenStarts, Zenon
    <3>2. Append(cur_str, c) = <<c>>
      BY <1>2, <2>1
    <3> QED BY <3>1, <3>2
  <2>2. CASE state # "Empty"
    <3>1. PICK s : InToken(ss, pos, s, state, cur_str, ans)
      BY <1>2, <2>2
    <3>2. Shape(ss, s, Append(cur_str, c), next)
      BY <2>2, <3>1
    <3> QED BY <1>2, <1>3, <3>1, <3>2, TokenGrows, Zenon
  <2> QED BY <2>1, <2>2
<1> QED BY <1>1, <1>2, <1>4, Zenon DEF Going, BeingCut

LEMMA EmitCuts ==
  ASSUME ScanInv, BeingCut, NEW state \in Pending, Reading(state), NEW next \in DfaStates, NEW str,
         Emit(next, str),
         \A s : InToken(ss, pos, s, state, cur_str, ans) => LengthAt(ss, s) = pos - s,
         \/ c = Space /\ next = "Empty" /\ str = <<>>
         \/ c # Space /\ next \in Pending /\ str = <<c>> /\ Shape(ss, pos, <<c>>, next)
  PROVE  Going' /\ BeingCut'
<1>1. /\ ss \in Seq(Symbol) /\ pos \in 1 .. Len(ss) /\ c = ss[pos] /\ ans \in Seq(AnyToken) /\ Going
      /\ cur_state = state /\ \E s \in 1 .. pos : InToken(ss, pos, s, state, cur_str, ans)
  <2>1. state # "Empty"
    BY DEF Pending, Words
  <2> QED BY <2>1, Steps
<1>2. PICK s \in 1 .. pos : InToken(ss, pos, s, state, cur_str, ans)
  BY <1>1
<1>3. pos \in 1 .. (Len(ss) + 1) /\ LengthAt(ss, s) = pos - s
  BY <1>1, <1>2
<1> DEFINE kind == KindAt(ss, s, cur_str)  next_ans == Append(ans, [type |-> kind, value |-> cur_str])
<1>4. kind \notin NoTokens /\ Fed(ss, pos, next_ans)
  BY <1>1, <1>2, <1>3, TokenEnds, Zenon
<1>5. TokenType = kind /\ TokenType \notin NoTokens
  <2>1. IsText(cur_str) /\ Shape(ss, s, cur_str, state)
    BY <1>1, <1>2, <1>3, InProgress, Zenon
  <2>2. cur_state \in {"FloatLiteral", "IntLiteral", "Ident", "op"}
    BY <1>1 DEF Pending, Words
  <2>3. Shape(ss, s, cur_str, cur_state)
    BY <1>1, <2>1
  <2> QED BY <1>4, <2>1, <2>2, <2>3, KindIsType
<1>6. ans' = next_ans /\ Read(next, str) /\ failed' = failed
  <2>1. TokenType # "invalid operator!"
    BY <1>5, Zenon DEF NoTokens, BadOp
  <2> QED BY <1>5, <2>1, Zenon DEF Emit
<1>7. pos' = pos + 1 /\ ss' = ss /\ cur_state' = next /\ cur_str' = str
  BY <1>6, ReadMoves
<1> HIDE DEF next_ans, kind
<1>8. CutState(ss, pos + 1, next, str, next_ans)
  <2>1. CASE c = Space /\ next = "Empty" /\ str = <<>>
    <3>1. Fed(ss, pos + 1, next_ans)
      BY <1>1, <1>4, <2>1, BlankSkipped, Zenon
    <3>2. (pos + 1) - 1 = pos
      BY <1>1
    <3>3. ss[(pos + 1) - 1] = Space
      BY <1>1, <2>1, <3>2
    <3> QED BY <2>1, <3>1, <3>3, Zenon DEF CutState
  <2>2. CASE c # Space /\ next \in Pending /\ str = <<c>> /\ Shape(ss, pos, <<c>>, next)
    <3>1. next \in DfaStates \ {"Empty"}
      BY <2>2 DEF Pending, Words
    <3> QED BY <1>1, <1>4, <2>2, <3>1, TokenStarts, Zenon
  <2> QED BY <2>1, <2>2
<1> QED BY <1>1, <1>6, <1>7, <1>8, Zenon DEF Going, BeingCut

\* The step ends a word, or an operator.
LEMMA WordDone ==
  ASSUME ScanInv, BeingCut, NEW state \in Words, Reading(state), c \notin WordChars
  PROVE  \A s : InToken(ss, pos, s, state, cur_str, ans) => LengthAt(ss, s) = pos - s
<1>1. ss \in Seq(Symbol) /\ pos \in 1 .. Len(ss) /\ c = ss[pos]
  BY Steps
<1> SUFFICES ASSUME NEW s, InToken(ss, pos, s, state, cur_str, ans) PROVE LengthAt(ss, s) = pos - s
  OBVIOUS
<1>2. state \in {"Ident", "IntLiteral", "FloatLiteral"}
  BY DEF Words
<1> QED BY <1>1, <1>2, WordCompleted, Zenon

LEMMA OpDone ==
  ASSUME ScanInv, BeingCut, Reading("op"), Append(cur_str, c) \notin opwords2
  PROVE  \A s : InToken(ss, pos, s, "op", cur_str, ans) => LengthAt(ss, s) = pos - s
<1>1. ss \in Seq(Symbol) /\ pos \in 1 .. Len(ss) /\ c = ss[pos]
  BY Steps
<1> SUFFICES ASSUME NEW s, InToken(ss, pos, s, "op", cur_str, ans) PROVE LengthAt(ss, s) = pos - s
  OBVIOUS
<1> QED BY <1>1, OpCompleted, Zenon

\* An operator of two characters ends in a character of operators.
LEMMA NotInOp ==
  ASSUME NEW str \in Seq(Symbol), NEW d \in Symbol, d \notin opwords1, str # <<>>
  PROVE  Append(str, d) \notin opwords2
<1> DEFINE w == Append(str, d)
<1>1. Len(w) = Len(str) + 1 /\ Len(str) \in Nat \ {0} /\ w[Len(str) + 1] = d
  OBVIOUS
<1> HIDE DEF w
<1>2. w \notin opwords2
  <2> SUFFICES ASSUME w \in opwords2 PROVE FALSE
    OBVIOUS
  <2>1. Len(w) = 2 /\ w[2] \in opwords1
    BY Pairs
  <2>2. Len(str) + 1 = 2
    BY <1>1, <2>1
  <2> QED BY <1>1, <2>1, <2>2
<1> QED BY <1>2 DEF w

LEMMA NeverStuck ==
  ASSUME ScanInv, BeingCut, NEW state \in Words, Reading(state), c # Space, c \notin opwords1,
         \/ c \notin WordChars
         \/ state = "Ident" /\ c \notin IdentChars
         \/ state = "IntLiteral" /\ c \notin AlNum /\ ~ IsPoint(c)
         \/ state = "FloatLiteral" /\ c \notin Digits
  PROVE  FALSE
<1>1. state \in {"Ident", "IntLiteral", "FloatLiteral"} /\ state # "Empty"
  BY DEF Words
<1>2. /\ ss \in Seq(Symbol) /\ pos \in 1 .. Len(ss) /\ c = ss[pos] /\ ans \in Seq(AnyToken)
      /\ \E s \in 1 .. pos : InToken(ss, pos, s, state, cur_str, ans)
  BY <1>1, Steps
<1>3. PICK s \in 1 .. pos : InToken(ss, pos, s, state, cur_str, ans)
  BY <1>2
<1> QED BY <1>1, <1>2, <1>3, NoFailing, Zenon

\* What is known of the token in progress when the next one begins, or goes on.
LEMMA ShapeKnown ==
  ASSUME ScanInv, BeingCut, NEW state \in Pending, Reading(state)
  PROVE  \A s : InToken(ss, pos, s, state, cur_str, ans) =>
                  /\ IsText(cur_str) /\ cur_str \in Seq(Symbol) /\ Shape(ss, s, cur_str, state)
                  /\ state = "op" => BehindOp(ss, pos)
<1>1. ss \in Seq(Symbol) /\ pos \in 1 .. Len(ss) /\ c = ss[pos]
  BY Steps
<1>2. pos \in 1 .. (Len(ss) + 1)
  BY <1>1
<1> SUFFICES ASSUME NEW s, InToken(ss, pos, s, state, cur_str, ans)
             PROVE  /\ IsText(cur_str) /\ cur_str \in Seq(Symbol) /\ Shape(ss, s, cur_str, state)
                    /\ state = "op" => BehindOp(ss, pos)
  OBVIOUS
<1>3. IsText(cur_str) /\ cur_str \in Seq(Symbol) /\ Shape(ss, s, cur_str, state)
  BY <1>1, <1>2, InProgress, Zenon
<1>4. state = "op" => BehindOp(ss, pos)
  BY <1>1, LastOfOp, Zenon
<1> QED BY <1>3, <1>4

LEMMA GoesOn ==
  ASSUME ScanInv, BeingCut, NEW state \in Pending, Reading(state), NEW next,
         \/ state = "Ident" /\ next = "Ident" /\ c \in IdentChars
         \/ state = "IntLiteral" /\ next = "IntLiteral" /\ c \in AlNum
         \/ state = "IntLiteral" /\ next = "FloatLiteral" /\ IsPoint(c)
         \/ state = "FloatLiteral" /\ next = "FloatLiteral" /\ c \in Digits
         \/ next = "op" /\ Append(cur_str, c) \in opwords2
  PROVE  \A s : InToken(ss, pos, s, state, cur_str, ans) => Shape(ss, s, Append(cur_str, c), next)
<1>1. c \in Symbol
  BY Steps
<1> SUFFICES ASSUME NEW s, InToken(ss, pos, s, state, cur_str, ans)
             PROVE  Shape(ss, s, Append(cur_str, c), next)
  OBVIOUS
<1>2. IsText(cur_str) /\ cur_str \in Seq(Symbol) /\ Shape(ss, s, cur_str, state)
  BY ShapeKnown
<1> QED BY <1>1, <1>2, ShapeGoesOn, Zenon

LEMMA BlankCuts ==
  ASSUME ScanInv, BeingCut, Blank
  PROVE  Going' /\ BeingCut'
<1>1. PICK state \in Pending : Reading(state)
  BY Zenon DEF Blank, Pending, Words
<1>2. c = Space /\ Emit("Empty", <<>>)
  BY Zenon DEF Blank, Space
<1>3. \A s : InToken(ss, pos, s, state, cur_str, ans) => LengthAt(ss, s) = pos - s
  <2>1. CASE state \in Words
    BY <1>1, <1>2, <2>1, WordDone, Chars
  <2>2. CASE state = "op"
    <3>1. PICK s : InToken(ss, pos, s, state, cur_str, ans)
      BY <1>1, <2>2, Steps
    <3>2. cur_str \in Seq(Symbol) /\ cur_str # <<>>
      BY <1>1, <3>1, ShapeKnown DEF IsText
    <3>3. c \notin opwords1 /\ c \in Symbol
      BY <1>1, <1>2, Chars, Steps
    <3>4. Append(cur_str, c) \notin opwords2
      BY <3>2, <3>3, NotInOp
    <3> QED BY <1>1, <2>2, <3>4, OpDone
  <2> QED BY <2>1, <2>2 DEF Pending
<1>4. "Empty" \in DfaStates
  BY DEF DfaStates
<1> QED BY <1>1, <1>2, <1>3, <1>4, EmitCuts

LEMMA BlankAgainCuts ==
  ASSUME ScanInv, BeingCut, BlankAgain
  PROVE  Going' /\ BeingCut'
<1>1. Reading("Empty") /\ c = Space /\ Read("Empty", <<>>) /\ ans' = ans /\ failed' = failed
  BY Zenon DEF BlankAgain, Space
<1>2. /\ ss \in Seq(Symbol) /\ pos \in 1 .. Len(ss) /\ c = ss[pos] /\ Going
      /\ Fed(ss, pos, ans)
  BY <1>1, Steps
<1>3. pos' = pos + 1 /\ ss' = ss /\ cur_state' = "Empty" /\ cur_str' = <<>>
  BY <1>1, ReadMoves
<1>4. Fed(ss, pos + 1, ans)
  BY <1>1, <1>2, BlankSkipped, Zenon
<1>5. (pos + 1) - 1 = pos
  BY <1>2
<1>6. ss[(pos + 1) - 1] = Space
  BY <1>1, <1>2, <1>5
<1>7. CutState(ss, pos + 1, "Empty", <<>>, ans)
  BY <1>4, <1>6, Zenon DEF CutState, DfaStates
<1> QED BY <1>1, <1>2, <1>3, <1>7, Zenon DEF Going, BeingCut

LEMMA FromEmptyCuts ==
  ASSUME ScanInv, BeingCut, FromEmpty
  PROVE  Going' /\ BeingCut'
<1>1. Reading("Empty") /\ c # Space
  BY Zenon DEF FromEmpty, Space
<1>2. ~ BehindOp(ss, pos)
  BY <1>1, Steps
<1>3. \/ c \in IdentFirst /\ Longer("Ident")
      \/ c \in opwords1 /\ Longer("op")
      \/ IsPoint(c) /\ Longer("FloatLiteral")
      \/ c \in Digits /\ Longer("IntLiteral")
  BY Zenon DEF FromEmpty, IdentFirst, IsPoint
<1>4. PICK next \in Pending : Longer(next) /\ Shape(ss, pos, <<c>>, next)
  <2>1. {"Ident", "op", "FloatLiteral", "IntLiteral"} \subseteq Pending
    BY DEF Pending, Words
  <2> QED BY <1>2, <1>3, <2>1, ShapeBegins
<1> QED BY <1>1, <1>4, LongerCuts

\* An operator begins behind a word.
LEMMA OpBegins ==
  ASSUME ScanInv, BeingCut, NEW state \in Words, Reading(state), c \in opwords1, Emit("op", <<c>>)
  PROVE  Going' /\ BeingCut'
<1>1. c \notin WordChars /\ c # Space
  BY Classes
<1>2. \A s : InToken(ss, pos, s, state, cur_str, ans) => LengthAt(ss, s) = pos - s
  BY <1>1, WordDone
<1>3. Shape(ss, pos, <<c>>, "op")
  BY ShapeBegins
<1>4. state \in Pending /\ "op" \in Pending /\ "op" \in DfaStates
  BY DEF Pending, DfaStates
<1> QED BY <1>1, <1>2, <1>3, <1>4, EmitCuts

LEMMA WordGoesOnCuts ==
  ASSUME ScanInv, BeingCut, NEW state \in Words, Reading(state), NEW next, Longer(next),
         \/ state = "Ident" /\ next = "Ident" /\ c \in IdentChars
         \/ state = "IntLiteral" /\ next = "IntLiteral" /\ c \in AlNum
         \/ state = "IntLiteral" /\ next = "FloatLiteral" /\ IsPoint(c)
         \/ state = "FloatLiteral" /\ next = "FloatLiteral" /\ c \in Digits
  PROVE  Going' /\ BeingCut'
<1>1. c # Space
  <2>1. c \in WordChars
    BY Classes
  <2> QED BY <2>1, Classes
<1>2. state \in Pending /\ next \in Pending /\ state # "Empty"
  BY DEF Pending, Words
<1>3. \A s : InToken(ss, pos, s, state, cur_str, ans) => Shape(ss, s, Append(cur_str, c), next)
  BY <1>2, GoesOn, Zenon
<1> QED BY <1>1, <1>2, <1>3, LongerCuts, Zenon

LEMMA FromFloatLiteralCuts ==
  ASSUME ScanInv, BeingCut, FromFloatLiteral
  PROVE  Going' /\ BeingCut'
<1>1. Reading("FloatLiteral") /\ c # Space /\ "FloatLiteral" \in Words
  BY Zenon DEF FromFloatLiteral, Space, Words
<1>2. CASE c \in Digits /\ Longer("FloatLiteral")
  BY <1>1, <1>2, WordGoesOnCuts
<1>3. CASE c \in opwords1 /\ Emit("op", <<c>>)
  BY <1>1, <1>3, OpBegins
<1>4. CASE c \notin Digits \cup opwords1
  BY <1>1, <1>4, NeverStuck
<1> QED BY <1>2, <1>3, <1>4, Zenon DEF FromFloatLiteral

LEMMA FromIdentCuts ==
  ASSUME ScanInv, BeingCut, FromIdent
  PROVE  Going' /\ BeingCut'
<1>1. Reading("Ident") /\ c # Space /\ "Ident" \in Words
  BY Zenon DEF FromIdent, Space, Words
<1>2. CASE c \in IdentChars /\ Longer("Ident")
  BY <1>1, <1>2, WordGoesOnCuts
<1>3. CASE c \in opwords1 /\ Emit("op", <<c>>)
  BY <1>1, <1>3, OpBegins
<1>4. CASE c \notin IdentChars \cup opwords1
  BY <1>1, <1>4, NeverStuck
<1> QED BY <1>2, <1>3, <1>4, Zenon DEF FromIdent, IdentChars

LEMMA FromIntLiteralCuts ==
  ASSUME ScanInv, BeingCut, FromIntLiteral
  PROVE  Going' /\ BeingCut'
<1>1. Reading("IntLiteral") /\ c # Space /\ "IntLiteral" \in Words
  BY Zenon DEF FromIntLiteral, Space, Words
<1>2. CASE IsPoint(c) /\ Longer("FloatLiteral")
  BY <1>1, <1>2, WordGoesOnCuts
<1>3. CASE c \in AlNum /\ Longer("IntLiteral")
  BY <1>1, <1>3, WordGoesOnCuts
<1>4. CASE c \in opwords1 /\ Emit("op", <<c>>)
  BY <1>1, <1>4, OpBegins
<1>5. CASE c = "_"
  <2>1. c \notin AlNum /\ ~ IsPoint(c) /\ c \notin opwords1
    <3>1. "_" \in IdentChars
      BY Zenon DEF IdentChars
    <3> QED BY <1>5, <3>1, Underscore, Classes, Zenon
  <2> QED BY <1>1, <2>1, NeverStuck
<1> QED BY <1>2, <1>3, <1>4, <1>5, Zenon DEF FromIntLiteral, IsPoint

LEMMA FromOpCuts ==
  ASSUME ScanInv, BeingCut, FromOp
  PROVE  Going' /\ BeingCut'
<1>1. Reading("op") /\ c # Space /\ "op" \in Pending /\ "op" # "Empty"
  BY Zenon DEF FromOp, Space, Pending
<1>2. PICK s : InToken(ss, pos, s, "op", cur_str, ans)
  BY <1>1, Steps
<1>3. cur_str \in Seq(Symbol) /\ cur_str # <<>> /\ BehindOp(ss, pos) /\ c \in Symbol
  BY <1>1, <1>2, ShapeKnown, Steps DEF IsText
<1>4. CASE c \in opwords1 /\ Append(cur_str, c) \in opwords2 /\ Longer("op")
  <2>1. \A i : InToken(ss, pos, i, "op", cur_str, ans) => Shape(ss, i, Append(cur_str, c), "op")
    BY <1>1, <1>4, GoesOn
  <2> QED BY <1>1, <1>4, <2>1, LongerCuts
<1>5. ASSUME NEW next \in Pending, Emit(next, <<c>>), Append(cur_str, c) \notin opwords2,
             Shape(ss, pos, <<c>>, next)
      PROVE  Going' /\ BeingCut'
  <2>1. \A i : InToken(ss, pos, i, "op", cur_str, ans) => LengthAt(ss, i) = pos - i
    BY <1>1, <1>5, OpDone
  <2>2. next \in DfaStates
    BY DEF Pending, Words, DfaStates
  <2> QED BY <1>1, <1>5, <2>1, <2>2, EmitCuts
<1>6. "IntLiteral" \in Pending /\ "Ident" \in Pending
  BY DEF Pending, Words
<1>7. CASE (c \in Digits \/ IsPoint(c)) /\ Emit("IntLiteral", <<c>>)
  <2>1. c \notin opwords1
    BY <1>7, Classes
  <2>2. Shape(ss, pos, <<c>>, "IntLiteral")
    BY <1>3, <1>7, ShapeBegins
  <2> QED BY <1>3, <1>5, <1>6, <1>7, <2>1, <2>2, NotInOp
<1>8. CASE c \in IdentFirst /\ Emit("Ident", <<c>>)
  <2>1. c \notin opwords1
    BY <1>8, Classes
  <2>2. Shape(ss, pos, <<c>>, "Ident")
    BY <1>8, ShapeBegins
  <2> QED BY <1>3, <1>5, <1>6, <1>8, <2>1, <2>2, NotInOp
<1>9. CASE c \in opwords1 /\ Append(cur_str, c) \notin opwords2 /\ Emit("op", <<c>>)
  <2>1. Shape(ss, pos, <<c>>, "op")
    BY <1>9, ShapeBegins
  <2> QED BY <1>1, <1>5, <1>9, <2>1
<1> QED BY <1>4, <1>7, <1>8, <1>9, Zenon DEF FromOp, OneOperator, IsPoint, IdentFirst

-----------------------------------------------------------------------------
(* The tokens of the automaton and those of the language: the same words,   *)
(* and the same kinds where no point is behind an operator.                 *)

LEMMA KindsAlike ==
  ASSUME NEW t, NEW k, NEW w, IsText(w)
  PROVE  /\ KindAt(t, k, w) \in NoTokens <=> KindOf(w) \in NoTokens
         /\ KindAt(t, k, w) # KindOf(w) => k > 1 /\ IsPoint(w[1]) /\ t[k - 1] \in opwords1
<1>1. CASE ~(k > 1 /\ IsPoint(w[1]) /\ t[k - 1] \in opwords1 /\ IsFloat(w))
  BY <1>1, KindAtMeans, Zenon
<1>2. CASE k > 1 /\ IsPoint(w[1]) /\ t[k - 1] \in opwords1 /\ IsFloat(w)
  <2>1. w[1] \in WordChars /\ w[1] \notin IdentFirst /\ w[1] \notin Digits
    BY <1>2, Classes
  <2>2. 1 \in DOMAIN w
    BY DEF IsText
  <2>3. ~ IsIdent(w) /\ ~ IsInt(w)
    BY <2>1, <2>2, IdentMeans, IntMeans, Zenon
  <2>4. KindOf(w) = "FLOATLTR" /\ KindAt(t, k, w) = "INTLTR"
    BY <1>2, <2>1, <2>3, KindCases, KindAtMeans, Zenon
  <2> QED BY <1>2, <2>4 DEF NoTokens, NoToken, BadOp
<1> QED BY <1>1, <1>2

Alike(x, y) == x.value = y.value /\ (x.type \in NoTokens <=> y.type \in NoTokens)
\* x is what the automaton cuts from a part of t, y what the language does.
Agree(t, x, y) ==
  /\ x \in Seq(AnyToken) /\ y \in Seq(AnyToken) /\ Len(x) = Len(y)
  /\ \A j \in 1 .. Len(x) : Alike(x[j], y[j])
  /\ ~ PointBehindOperator(t) => x = y

LEMMA TokensAgree ==
  ASSUME NEW t \in Seq(Symbol), NEW k \in 1 .. Len(t)
  PROVE  /\ TokenAt(t, k) \in AnyToken /\ TrueTokenAt(t, k) \in AnyToken
         /\ Alike(TokenAt(t, k), TrueTokenAt(t, k))
         /\ ~ PointBehindOperator(t) => TokenAt(t, k) = TrueTokenAt(t, k)
<1> DEFINE w == WordAt(t, k)
<1>1. IsText(w) /\ w[1] = t[k] /\ w \in Seq(Symbol)
  <2>1. LengthAt(t, k) \in 1 .. (Len(t) - k + 1)
    BY TokenLength
  <2>2. w \in Seq(Symbol) /\ Len(w) = LengthAt(t, k)
    BY WordThere
  <2>3. w[1] = t[k]
    BY <2>1 DEF WordAt
  <2> QED BY <2>1, <2>2, <2>3 DEF IsText
<1>2. KindAt(t, 1, w) \in TokenTypes \cup NoTokens /\ KindAt(t, k, w) \in TokenTypes \cup NoTokens
  BY KindKnown
<1> HIDE DEF w
<1>3. KindAt(t, 1, w) = KindOf(w)
  <2>1. ~(1 > 1)
    OBVIOUS
  <2> QED BY <2>1, KindAtMeans, Zenon
<1>4. /\ KindAt(t, k, w) \in NoTokens <=> KindOf(w) \in NoTokens
      /\ KindAt(t, k, w) # KindOf(w) => k > 1 /\ IsPoint(w[1]) /\ t[k - 1] \in opwords1
  BY <1>1, KindsAlike
<1>5. ~ PointBehindOperator(t) => KindAt(t, k, w) = KindOf(w)
  <2> SUFFICES ASSUME k > 1, t[k] = ".", t[k - 1] \in opwords1 PROVE PointBehindOperator(t)
    BY <1>1, <1>4 DEF IsPoint
  <2>1. k \in 2 .. Len(t)
    OBVIOUS
  <2> QED BY <2>1, Zenon DEF PointBehindOperator
<1> QED BY <1>1, <1>2, <1>3, <1>4, <1>5 DEF TokenAt, TrueTokenAt, Alike, AnyToken, w

LEMMA OneMoreAgrees ==
  ASSUME NEW t, NEW a \in AnyToken, NEW b \in AnyToken, Alike(a, b),
         ~ PointBehindOperator(t) => a = b, NEW x, NEW y, Agree(t, x, y)
  PROVE  Agree(t, <<a>> \o x, <<b>> \o y)
<1>1. x \in Seq(AnyToken) /\ y \in Seq(AnyToken) /\ Len(x) = Len(y)
  BY DEF Agree
<1>2. /\ <<a>> \o x \in Seq(AnyToken) /\ <<b>> \o y \in Seq(AnyToken)
      /\ Len(<<a>> \o x) = Len(x) + 1 /\ Len(<<b>> \o y) = Len(x) + 1
  BY <1>1
<1>3. ASSUME NEW j \in 1 .. (Len(x) + 1) PROVE Alike((<<a>> \o x)[j], (<<b>> \o y)[j])
  <2>1. CASE j = 1
    <3>1. (<<a>> \o x)[1] = a /\ (<<b>> \o y)[1] = b
      BY <1>1
    <3> QED BY <2>1, <3>1
  <2>2. CASE j # 1
    <3>1. j - 1 \in 1 .. Len(x)
      BY <1>1, <2>2
    <3>2. (<<a>> \o x)[j] = x[j - 1] /\ (<<b>> \o y)[j] = y[j - 1]
      BY <1>1, <2>2
    <3> QED BY <3>1, <3>2, Zenon DEF Agree
  <2> QED BY <2>1, <2>2
<1>4. ~ PointBehindOperator(t) => <<a>> \o x = <<b>> \o y
  BY Zenon DEF Agree
<1> QED BY <1>2, <1>3, <1>4 DEF Agree

LEMMA CutAgrees ==
  ASSUME NEW t \in Seq(Symbol), NEW k \in 1 .. (Len(t) + 1)
  PROVE  Agree(t, Cutting(t)[k], TrueCutting(t)[k])
<1>0. Len(t) \in Nat
  OBVIOUS
<1> DEFINE At(m) == Agree(t, Cutting(t)[m], TrueCutting(t)[m])
           Q == {n \in 0 .. Len(t) : ~ At(Len(t) + 1 - n)}
<1>1. ASSUME Q # {} PROVE FALSE
  <2>1. PICK n \in Q : \A j \in Q : n <= j
    <3>1. Q \subseteq Nat
      OBVIOUS
    <3> HIDE DEF Q
    <3> QED BY <1>1, <3>1, LeastNat
  <2> DEFINE m == Len(t) + 1 - n
  <2>2. n \in 0 .. Len(t) /\ m \in 1 .. (Len(t) + 1) /\ ~ At(m)
    <3> HIDE DEF At
    <3> QED BY <1>0
  <2>3. ASSUME NEW e \in (m + 1) .. (Len(t) + 1) PROVE At(e)
    <3> HIDE DEF At
    <3> DEFINE j == Len(t) + 1 - e
    <3>1. j \in 0 .. Len(t) /\ ~(n <= j) /\ Len(t) + 1 - j = e
      BY <1>0, <2>2
    <3> HIDE DEF j
    <3>2. j \notin Q
      <4> HIDE DEF Q
      <4> QED BY <2>1, <3>1
    <3> QED BY <3>1, <3>2
  <2> HIDE DEF Q, m
  <2>4. CASE m = Len(t) + 1
    <3>1. Cutting(t)[m] = <<>> /\ TrueCutting(t)[m] = <<>>
      BY <2>4, CodeCut, TrueCut, CutEndBy, Zenon
    <3>2. <<>> \in Seq(AnyToken) /\ Len(<<>>) = 0 /\ 1 .. 0 = {}
      OBVIOUS
    <3>3. Agree(t, <<>>, <<>>)
      BY <3>2 DEF Agree
    <3> QED BY <2>2, <3>1, <3>3
  <2>5. CASE m # Len(t) + 1
    <3>1. m \in 1 .. Len(t)
      BY <1>0, <2>2, <2>5
    <3> DEFINE e == m + Len(WordAt(t, m))
    <3>2. /\ t[m] = Space => Cutting(t)[m] = Cutting(t)[m + 1]
          /\ t[m] # Space => Cutting(t)[m] = <<TokenAt(t, m)>> \o Cutting(t)[e]
      BY <3>1, CutHere
    <3>3. /\ t[m] = Space => TrueCutting(t)[m] = TrueCutting(t)[m + 1]
          /\ t[m] # Space => TrueCutting(t)[m] = <<TrueTokenAt(t, m)>> \o TrueCutting(t)[e]
      BY <3>1, TrueCutHere
    <3>4. e \in (m + 1) .. (Len(t) + 1)
      BY <3>1, WordThere
    <3> HIDE DEF e
    <3>5. m + 1 \in (m + 1) .. (Len(t) + 1)
      BY <3>1
    <3>6. At(m + 1) /\ At(e)
      BY <2>3, <3>4, <3>5, Zenon
    <3>7. CASE t[m] = Space
      BY <2>2, <3>2, <3>3, <3>6, <3>7, Zenon
    <3>8. CASE t[m] # Space
      <4>1. At(m)
        BY <3>1, <3>2, <3>3, <3>6, <3>8, TokensAgree, OneMoreAgrees, Zenon
      <4> QED BY <2>2, <4>1
    <3> QED BY <3>7, <3>8
  <2> QED BY <2>4, <2>5
<1>4. k = Len(t) + 1 - (Len(t) + 1 - k) /\ Len(t) + 1 - k \in 0 .. Len(t)
  BY <1>0
<1>5. At(k)
  <2> HIDE DEF At
  <2> QED BY <1>1, <1>4
<1> QED BY <1>5

\* A text of tokens of the language is one of tokens of the automaton: the same words
\* and, but for points behind operators, the same kinds.
LEMMA SameSpelling ==
  ASSUME NEW t \in Seq(Symbol)
  PROVE  /\ AllTokens(t) <=> AllCut(t)
         /\ Spelling(CodeTokens(t)) = Spelling(TokensOf(t))
         /\ ~ PointBehindOperator(t) => CodeTokens(t) = TokensOf(t)
<1>1. PICK x, y : x = CodeTokens(t) /\ y = TokensOf(t)
  OBVIOUS
<1>2. Agree(t, x, y)
  <2>1. 1 \in 1 .. (Len(t) + 1)
    OBVIOUS
  <2> QED BY <1>1, <2>1, CutAgrees, TokensAreCut DEF CodeTokens
<1>3. DOMAIN x = 1 .. Len(x) /\ DOMAIN y = 1 .. Len(x)
  BY <1>2 DEF Agree
<1>4. \A j \in 1 .. Len(x) : Alike(x[j], y[j])
  BY <1>2 DEF Agree
<1>5. AllTokens(t) <=> AllCut(t)
  <2>1. AllTokens(t) <=> \A j \in DOMAIN y : y[j].type \notin NoTokens
    BY <1>1, Zenon DEF AllTokens, NoTokens, NoToken, BadOp
  <2>2. AllCut(t) <=> \A j \in DOMAIN x : x[j].type \notin NoTokens
    BY <1>1, Zenon DEF AllCut
  <2> QED BY <1>3, <1>4, <2>1, <2>2, Zenon DEF Alike
<1>6. Spelling(x) = Spelling(y)
  <2>1. \A j \in 1 .. Len(x) : x[j].value = y[j].value
    BY <1>4, Zenon DEF Alike
  <2> QED BY <1>3, <2>1 DEF Spelling
<1> QED BY <1>1, <1>2, <1>5, <1>6, Zenon DEF Agree

-----------------------------------------------------------------------------
(* From the beginning to the end.                                           *)

\* A text that is cut into tokens is being cut into them.
CutInv == line > Len(file) /\ AllCut(ss) => Going /\ BeingCut

LEMMA NothingRead ==
  ASSUME NEW t \in Seq(Symbol), AllCut(t), NEW str
  PROVE  CutState(t, 1, "Empty", str, <<>>)
<1>1. \A k \in DOMAIN Cutting(t)[1] : Cutting(t)[1][k].type \notin NoTokens
  BY Zenon DEF AllCut, CodeTokens
<1>2. Cutting(t)[1] = <<>> \o Cutting(t)[1]
  <2>1. 1 \in 1 .. (Len(t) + 1)
    OBVIOUS
  <2>2. Cutting(t)[1] \in Seq(AnyToken)
    BY <2>1, CutType
  <2> QED BY <2>2
<1>3. Fed(t, 1, <<>>)
  BY <1>1, <1>2, Zenon DEF Fed
<1>4. ~(1 > 1)
  OBVIOUS
<1> QED BY <1>3, <1>4, Zenon DEF CutState, DfaStates

LEMMA CutBegins == ScanInit => CutInv
<1> SUFFICES ASSUME ScanInit, AllCut(ss) PROVE Going /\ BeingCut
  BY DEF CutInv
<1>1. /\ ss = <<>> /\ pos = 1 /\ cur_state = "Empty" /\ ans = <<>>
  BY DEF ScanInit
<1>2. Going
  BY DEF ScanInit, Going
<1>3. ss \in Seq(Symbol)
  BY <1>1
<1>4. CutState(ss, 1, "Empty", cur_str, <<>>)
  BY <1>3, NothingRead
<1> QED BY <1>1, <1>2, <1>4 DEF BeingCut

LEMMA PreprocessCuts ==
  ASSUME ScanInv, ScanInv', Preprocess
  PROVE  CutInv'
<1> SUFFICES ASSUME AllCut(ss)' PROVE Going' /\ BeingCut'
  BY DEF CutInv
<1>1. pos = 1 /\ ans = <<>> /\ cur_state = "Empty" /\ Going
  BY DEF Preprocess, ScanInv, NotBegun
<1>2. UNCHANGED <<pos, cur_state, cur_str, ans, failed>>
  BY DEF Preprocess
<1>3. PICK t : t = ss'
  OBVIOUS
<1>4. t \in Seq(Symbol)
  BY <1>3 DEF ScanInv, ScanType
<1>5. AllCut(t)
  BY <1>3, Zenon
<1>6. CutState(t, 1, "Empty", cur_str, <<>>)
  BY <1>4, <1>5, NothingRead
<1> QED BY <1>1, <1>2, <1>3, <1>6, Zenon DEF BeingCut, Going

LEMMA AutomatonCuts ==
  ASSUME ScanInv, CutInv, Blank \/ BlankAgain \/ FromEmpty \/ FromFloatLiteral \/ FromIdent
                            \/ FromIntLiteral \/ FromOp
  PROVE  CutInv'
<1>1. line > Len(file) /\ UNCHANGED <<file, line, ss>>
  BY Zenon DEF Blank, BlankAgain, FromEmpty, FromFloatLiteral, FromIdent, FromIntLiteral, FromOp,
               Reading, Emit, Longer, Failing, Read, InText
<1> SUFFICES ASSUME AllCut(ss)' PROVE Going' /\ BeingCut'
  BY DEF CutInv
<1>2. AllCut(ss)
  BY <1>1, Zenon
<1>3. BeingCut
  BY <1>1, <1>2 DEF CutInv
<1> QED BY <1>3, BlankCuts, BlankAgainCuts, FromEmptyCuts, FromFloatLiteralCuts, FromIdentCuts,
           FromIntLiteralCuts, FromOpCuts, Zenon

LEMMA CutStutters ==
  ASSUME CutInv, UNCHANGED scanner
  PROVE  CutInv'
<1>1. UNCHANGED <<file, line, ss, pos, cur_state, cur_str, ans, failed>>
  BY DEF scanner
<1>2. (line > Len(file))' <=> line > Len(file)
  BY <1>1
<1>3. AllCut(ss)' <=> AllCut(ss)
  BY <1>1, Zenon
<1>4. Going' <=> Going
  BY <1>1, Zenon DEF Going
<1>5. BeingCut' <=> BeingCut
  BY <1>1, Zenon DEF BeingCut
<1> QED BY <1>2, <1>3, <1>4, <1>5, Zenon DEF CutInv

LEMMA CodeMeans ==
  ASSUME ScanInv, CutInv, ScanDone, AllCut(ss)
  PROVE  Going /\ ans = CodeTokens(ss)
<1>1. Going /\ BeingCut
  BY Zenon DEF CutInv, ScanDone
<1>2. ss \in Seq(Symbol) /\ pos \in 1 .. (Len(ss) + 1) /\ Len(ss) \in Nat /\ ans \in Seq(Token)
  BY DEF ScanInv, ScanType
<1>3. pos > Len(ss)
  BY <1>1, Zenon DEF ScanDone, Going
<1>4. pos = Len(ss) + 1 /\ pos - 1 = Len(ss)
  BY <1>2, <1>3
<1>5. cur_str = <<>>
  <2>1. pos = 1 \/ ss[pos - 1] = Space
    <3>1. CASE ss = <<>>
      BY <1>4, <3>1
    <3>2. CASE ss # <<>>
      BY <1>4, <3>2 DEF ScanInv, EndsInBlank, BlankLast
    <3> QED BY <3>1, <3>2
  <2> QED BY <1>1, <2>1 DEF ScanInv, NothingPending
<1>6. cur_state = "Empty"
  <2> SUFFICES ASSUME cur_state # "Empty" PROVE FALSE
    OBVIOUS
  <2>1. PICK s \in 1 .. pos : InToken(ss, pos, s, cur_state, cur_str, ans)
    BY <1>1, Zenon DEF BeingCut, CutState
  <2>2. s \in 1 .. (pos - 1) /\ Len(cur_str) = pos - s
    BY <2>1 DEF InToken
  <2>3. Len(cur_str) = 0
    BY <1>5
  <2> QED BY <1>2, <2>2, <2>3
<1>7. Cutting(ss)[1] = ans \o Cutting(ss)[Len(ss) + 1]
  BY <1>1, <1>4, <1>6, Zenon DEF BeingCut, CutState, Fed
<1>8. Cutting(ss)[Len(ss) + 1] = <<>>
  <2>1. CASE ss = <<>>
    <3>1. Len(ss) + 1 = 1
      BY <2>1
    <3> QED BY <2>1, <3>1, CutNothing
  <2>2. CASE ss # <<>>
    <3>1. 1 \in 1 .. Len(ss)
      BY <1>2, <2>2
    <3> QED BY <1>2, <3>1, CutHere
  <2> QED BY <2>1, <2>2
<1>9. ans \o <<>> = ans
  BY <1>2
<1> QED BY <1>1, <1>7, <1>8, <1>9, Zenon DEF CodeTokens

LEMMA CutMeans == ScanInv /\ CutInv => CutsTheText
<1> SUFFICES ASSUME ScanInv, CutInv, ScanDone, AllTokens(ss) PROVE CutInto(ss)
  BY Zenon DEF CutsTheText
<1>1. ss \in Seq(Symbol)
  BY DEF ScanInv, ScanType
<1>2. AllCut(ss)
  BY <1>1, SameSpelling, Zenon
<1>3. Going /\ ans = CodeTokens(ss)
  BY <1>2, CodeMeans
<1> QED BY <1>1, <1>3, SameSpelling, Zenon DEF CutInto, Going

\* Whatever the files: a text that can be cut into the longest tokens the language
\* knows is cut into them, and none of the assertions of the automaton fails
\* (lexical.cpp:52-175, 252-258).
THEOREM LongestTokens == LexerSpec => []CutsTheText
<1> DEFINE Inv == ScanInv /\ CutInv
<1>1. ScanInit => Inv
  BY ScanBegins, CutBegins
<1>2. Inv /\ [ScanNext]_scanner => Inv'
  <2> SUFFICES ASSUME ScanInv, CutInv, [ScanNext]_scanner PROVE ScanInv' /\ CutInv'
    OBVIOUS
  <2>1. CASE Preprocess
    BY <2>1, PreprocessAccounts, PreprocessCuts
  <2>2. CASE Blank \/ BlankAgain \/ FromEmpty \/ FromFloatLiteral \/ FromIdent \/ FromIntLiteral
             \/ FromOp
    BY <2>2, AutomatonAccounts, AutomatonCuts
  <2>3. CASE Scanned \/ UNCHANGED scanner
    <3>1. UNCHANGED scanner
      BY <2>3, Zenon DEF Scanned
    <3> QED BY <3>1, ScanStutters, CutStutters
  <2> QED BY <2>1, <2>2, <2>3, Zenon DEF ScanNext
<1>3. Inv => CutsTheText
  BY CutMeans
<1> QED BY <1>1, <1>2, <1>3, PTL DEF LexerSpec
=============================================================================
