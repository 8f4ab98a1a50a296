----------------------------- MODULE LexerProofs -----------------------------
(***************************************************************************)
(* The scanner loses no character, whatever the source (Lexer's            *)
(* NothingLost).  What is in the tokens and what has been read are both    *)
(* defined by recursion over a sequence; FlattenAppend and NonBlankNext    *)
(* say what one more element adds, by induction from LeastNat.             *)
(***************************************************************************)
EXTENDS Lexer, FiniteSetTheorems, TLAPS

-----------------------------------------------------------------------------
(* A set of natural numbers has a least one: the induction of this module.  *)

\* 0 .. n is the smaller the smaller n is, and strict inclusion of finite sets is
\* well-founded.
LEMMA LeastNat ==
  ASSUME NEW Q, Q \subseteq Nat, Q # {}
  PROVE  \E n \in Q : \A k \in Q : n <= k
<1> DEFINE T == {0 .. n : n \in Q}
<1>1. \A n \in Nat : 0 .. n \in FiniteSubsetsOf(Nat)
  BY FS_Interval DEF FiniteSubsetsOf
<1>2. T \subseteq FiniteSubsetsOf(Nat) /\ T # {}
  BY <1>1
<1>3. PICK x \in T : \A y \in T : ~(<<y, x>> \in StrictSubsetOrdering(Nat))
  <2> HIDE DEF T
  <2>1. IsWellFoundedOn(StrictSubsetOrdering(Nat), FiniteSubsetsOf(Nat))
    BY FS_StrictSubsetOrderingWellFounded
  <2> QED BY <1>2, <2>1, WFMin
<1>4. PICK n \in Q : x = 0 .. n
  BY <1>3
<1>5. ASSUME NEW k \in Q, k < n PROVE FALSE
  <2>1. 0 .. k \in SUBSET Nat /\ 0 .. n \in SUBSET Nat
    OBVIOUS
  <2>2. 0 .. k \subseteq 0 .. n /\ 0 .. k # 0 .. n
    BY <1>5
  <2>3. <<0 .. k, 0 .. n>> \in StrictSubsetOrdering(Nat)
    BY <2>1, <2>2 DEF StrictSubsetOrdering
  <2> QED BY <1>3, <1>4, <2>3
<1> QED BY <1>5

-----------------------------------------------------------------------------
(* FlattenSeq, a sequence at a time.                                        *)

\* The function in the definition of FlattenSeq.
IsFlat(f, s) == f = [i \in 1 .. Len(s) |-> IF i = 1 THEN s[i] ELSE f[i - 1] \o s[i]]
Flat(s) == CHOOSE f : IsFlat(f, s)

LEMMA FlattenIsFlat ==
  ASSUME NEW s
  PROVE  FlattenSeq(s) = IF Len(s) = 0 THEN s ELSE Flat(s)[Len(s)]
BY DEF FlattenSeq, Flat, IsFlat

LEMMA FlatThere ==
  ASSUME NEW s, Len(s) \in Nat
  PROVE  IsFlat(Flat(s), s)
<1> DEFINE Upto(f, n) == f = [i \in 1 .. n |-> IF i = 1 THEN s[i] ELSE f[i - 1] \o s[i]]
           Q == {n \in Nat : ~ \E f : Upto(f, n)}
<1>1. Q = {}
  <2> SUFFICES ASSUME Q # {} PROVE FALSE
    OBVIOUS
  <2>1. PICK n \in Q : \A k \in Q : n <= k
    <3> HIDE DEF Upto
    <3> QED BY LeastNat
  <2>2. n # 0
    <3>1. Upto([i \in 1 .. 0 |-> <<>>], 0)
      OBVIOUS
    <3> HIDE DEF Upto
    <3> QED BY <3>1
  <2>3. n - 1 \in Nat /\ n - 1 \notin Q
    <3> HIDE DEF Upto
    <3> QED BY <2>1, <2>2
  <2>4. PICK g : Upto(g, n - 1)
    <3> HIDE DEF Upto
    <3> QED BY <2>3
  <2> DEFINE f == [i \in 1 .. n |-> IF i = n THEN (IF n = 1 THEN s[n] ELSE g[n - 1] \o s[n])
                                   ELSE g[i]]
  <2>5. \A i \in 1 .. n : f[i] = IF i = 1 THEN s[i] ELSE f[i - 1] \o s[i]
    <3> SUFFICES ASSUME NEW i \in 1 .. n
                 PROVE  f[i] = IF i = 1 THEN s[i] ELSE f[i - 1] \o s[i]
      OBVIOUS
    <3>1. CASE i = n
      <4>1. n # 1 => n - 1 \in 1 .. n /\ f[n - 1] = g[n - 1]
        BY <2>2
      <4> QED BY <3>1, <4>1
    <3>2. CASE i # n
      <4>1. i \in 1 .. (n - 1)
        BY <3>2
      <4>2. g[i] = IF i = 1 THEN s[i] ELSE g[i - 1] \o s[i]
        BY <2>4, <4>1
      <4>3. f[i] = g[i] /\ (i # 1 => f[i - 1] = g[i - 1])
        BY <4>1
      <4> QED BY <4>2, <4>3
    <3> QED BY <3>1, <3>2
  <2>6. Upto(f, n)
    BY <2>5
  <2> HIDE DEF Upto, f
  <2> QED BY <2>1, <2>6
<1>2. \E f : Upto(f, Len(s))
  <2> HIDE DEF Upto
  <2> QED BY <1>1
<1>3. \E f : IsFlat(f, s)
  BY <1>2 DEF IsFlat
<1> QED BY <1>3 DEF Flat

\* Beginnings that agree are put together in the same way.
LEMMA FlatSame ==
  ASSUME NEW s, NEW t, NEW f, NEW g, Len(s) \in Nat, Len(t) \in Nat, Len(s) <= Len(t),
         \A i \in 1 .. Len(s) : s[i] = t[i], IsFlat(f, s), IsFlat(g, t)
  PROVE  \A i \in 1 .. Len(s) : f[i] = g[i]
<1> DEFINE Q == {i \in 1 .. Len(s) : f[i] # g[i]}
<1> SUFFICES ASSUME Q # {} PROVE FALSE
  OBVIOUS
<1>1. PICK i \in Q : \A k \in Q : i <= k
  <2>1. Q \subseteq Nat
    OBVIOUS
  <2> HIDE DEF Q
  <2> QED BY <2>1, LeastNat
<1>2. i \in 1 .. Len(s) /\ i \in 1 .. Len(t) /\ s[i] = t[i]
  OBVIOUS
<1>3. /\ f[i] = IF i = 1 THEN s[i] ELSE f[i - 1] \o s[i]
      /\ g[i] = IF i = 1 THEN t[i] ELSE g[i - 1] \o t[i]
  BY <1>2 DEF IsFlat
<1>4. i # 1 => i - 1 \in 1 .. Len(s) /\ i - 1 \notin Q
  BY <1>1
<1>5. i # 1 => f[i - 1] = g[i - 1]
  BY <1>4
<1> QED BY <1>2, <1>3, <1>5

LEMMA FlattenAppend ==
  ASSUME NEW S, NEW s \in Seq(Seq(S)), NEW e \in Seq(S)
  PROVE  FlattenSeq(Append(s, e)) = FlattenSeq(s) \o e
<1> DEFINE t == Append(s, e)
<1>1. /\ Len(s) \in Nat /\ Len(t) = Len(s) + 1 /\ t[Len(s) + 1] = e
      /\ \A i \in 1 .. Len(s) : s[i] = t[i]
  OBVIOUS
<1> HIDE DEF t
<1>2. IsFlat(Flat(t), t)
  BY <1>1, FlatThere
<1>3. FlattenSeq(t) = Flat(t)[Len(s) + 1]
  BY <1>1, FlattenIsFlat
<1>4. Flat(t)[Len(s) + 1] = IF Len(s) = 0 THEN e ELSE Flat(t)[Len(s)] \o e
  <2>1. Len(s) + 1 \in 1 .. Len(t) /\ Len(s) + 1 - 1 = Len(s) /\ (Len(s) + 1 = 1 <=> Len(s) = 0)
    BY <1>1
  <2>2. \A i \in 1 .. Len(t) : Flat(t)[i] = IF i = 1 THEN t[i] ELSE Flat(t)[i - 1] \o t[i]
    BY <1>2 DEF IsFlat
  <2> QED BY <1>1, <2>1, <2>2
<1>5. CASE Len(s) = 0
  <2>1. s = <<>> /\ FlattenSeq(s) = s /\ <<>> \o e = e
    BY <1>5, FlattenIsFlat
  <2> QED BY <1>3, <1>4, <1>5, <2>1 DEF t
<1>6. CASE Len(s) # 0
  <2>1. IsFlat(Flat(s), s)
    BY <1>1, FlatThere
  <2>2. Flat(s)[Len(s)] = Flat(t)[Len(s)]
    BY <1>1, <1>2, <1>6, <2>1, FlatSame
  <2>3. FlattenSeq(s) = Flat(s)[Len(s)]
    BY <1>6, FlattenIsFlat
  <2> QED BY <1>3, <1>4, <1>6, <2>2, <2>3 DEF t
<1> QED BY <1>5, <1>6

-----------------------------------------------------------------------------
(* NonBlank, a character at a time.                                         *)

IsUpto(f, s) ==
  f = [n \in 0 .. Len(s) |-> IF n = 0 THEN <<>>
                             ELSE IF s[n] = " " THEN f[n - 1] ELSE Append(f[n - 1], s[n])]
Upto(s) == CHOOSE f : IsUpto(f, s)

LEMMA NonBlankIsUpto ==
  ASSUME NEW s
  PROVE  NonBlank(s) = Upto(s)[Len(s)]
BY DEF NonBlank, Upto, IsUpto

LEMMA UptoThere ==
  ASSUME NEW s, Len(s) \in Nat
  PROVE  IsUpto(Upto(s), s)
<1> DEFINE Long(f, m) == f = [n \in 0 .. m |-> IF n = 0 THEN <<>>
                              ELSE IF s[n] = " " THEN f[n - 1] ELSE Append(f[n - 1], s[n])]
           Q == {m \in Nat : ~ \E f : Long(f, m)}
<1>1. Q = {}
  <2> SUFFICES ASSUME Q # {} PROVE FALSE
    OBVIOUS
  <2>1. PICK m \in Q : \A k \in Q : m <= k
    <3> HIDE DEF Long
    <3> QED BY LeastNat
  <2>2. m # 0
    <3> DEFINE f == [n \in 0 .. 0 |-> <<>>]
    <3>1. f = [n \in 0 .. 0 |-> <<>>]
      OBVIOUS
    <3> HIDE DEF f
    <3>2. \A n \in 0 .. 0 : n = 0
      <4> HIDE DEF Long, Q
      <4> QED OBVIOUS
    <3>3. \A n \in 0 .. 0 : f[n] = IF n = 0 THEN <<>>
                    ELSE IF s[n] = " " THEN f[n - 1] ELSE Append(f[n - 1], s[n])
      BY <3>1, <3>2
    <3>4. f = [n \in 0 .. 0 |-> f[n]]
      BY <3>1
    <3>5. Long(f, 0)
      BY <3>3, <3>4
    <3> HIDE DEF Long
    <3> QED BY <3>5
  <2>3. m \in Nat /\ m - 1 \in Nat /\ m - 1 \notin Q
    <3> HIDE DEF Long
    <3> QED BY <2>1, <2>2
  <2>4. PICK g : Long(g, m - 1)
    <3> HIDE DEF Long
    <3> QED BY <2>3
  <2> HIDE DEF Q
  <2> DEFINE last == IF s[m] = " " THEN g[m - 1] ELSE Append(g[m - 1], s[m])
             f == [n \in 0 .. m |-> IF n = m THEN last ELSE g[n]]
  <2>5. \A n \in 0 .. m :
          f[n] = IF n = 0 THEN <<>> ELSE IF s[n] = " " THEN f[n - 1] ELSE Append(f[n - 1], s[n])
    <3> SUFFICES ASSUME NEW n \in 0 .. m
                 PROVE  f[n] = IF n = 0 THEN <<>>
                               ELSE IF s[n] = " " THEN f[n - 1] ELSE Append(f[n - 1], s[n])
      OBVIOUS
    <3>1. CASE n = m
      <4>1. m - 1 \in 0 .. m /\ m - 1 # m
        <5> HIDE DEF Long, f
        <5> QED BY <2>3
      <4>2. f[m - 1] = g[m - 1]
        BY <4>1
      <4>3. f[n] = last /\ s[n] = s[m] /\ n - 1 = m - 1
        BY <3>1
      <4> QED BY <2>2, <3>1, <4>2, <4>3
    <3>2. CASE n # m
      <4>1. n \in 0 .. (m - 1)
        <5> HIDE DEF Long, f
        <5> QED BY <2>3, <3>2
      <4>2. g[n] = IF n = 0 THEN <<>>
                   ELSE IF s[n] = " " THEN g[n - 1] ELSE Append(g[n - 1], s[n])
        BY <2>4, <4>1
      <4>3. f[n] = g[n]
        BY <3>2
      <4>4. n # 0 => n - 1 \in 0 .. m /\ n - 1 # m
        <5> HIDE DEF Long, f
        <5> QED BY <2>3, <4>1
      <4>5. n # 0 => f[n - 1] = g[n - 1]
        BY <4>4
      <4> QED BY <4>2, <4>3, <4>5
    <3> QED BY <3>1, <3>2
  <2>6. Long(f, m)
    BY <2>5
  <2> HIDE DEF Long, f
  <2> QED BY <2>1, <2>6 DEF Q
<1>2. \E f : Long(f, Len(s))
  <2> HIDE DEF Long
  <2> QED BY <1>1
<1>3. \E f : IsUpto(f, s)
  BY <1>2 DEF IsUpto
<1> QED BY <1>3 DEF Upto

LEMMA UptoSame ==
  ASSUME NEW s, NEW t, NEW f, NEW g, Len(s) \in Nat, Len(t) \in Nat, Len(s) <= Len(t),
         \A i \in 1 .. Len(s) : s[i] = t[i], IsUpto(f, s), IsUpto(g, t)
  PROVE  \A i \in 0 .. Len(s) : f[i] = g[i]
<1> DEFINE Q == {i \in 0 .. Len(s) : f[i] # g[i]}
<1> SUFFICES ASSUME Q # {} PROVE FALSE
  OBVIOUS
<1>1. PICK i \in Q : \A k \in Q : i <= k
  <2>1. Q \subseteq Nat
    OBVIOUS
  <2> HIDE DEF Q
  <2> QED BY <2>1, LeastNat
<1>2. i \in 0 .. Len(s) /\ i \in 0 .. Len(t) /\ (i # 0 => s[i] = t[i])
  OBVIOUS
<1>3. /\ f[i] = IF i = 0 THEN <<>> ELSE IF s[i] = " " THEN f[i - 1] ELSE Append(f[i - 1], s[i])
      /\ g[i] = IF i = 0 THEN <<>> ELSE IF t[i] = " " THEN g[i - 1] ELSE Append(g[i - 1], t[i])
  BY <1>2 DEF IsUpto
<1>4. i # 0 => i - 1 \in 0 .. Len(s) /\ i - 1 \notin Q
  BY <1>1
<1>5. i # 0 => f[i - 1] = g[i - 1]
  BY <1>4
<1> QED BY <1>2, <1>3, <1>5

LEMMA NonBlankNext ==
  ASSUME NEW S, NEW s \in Seq(S), NEW p \in 1 .. Len(s)
  PROVE  NonBlank(SubSeq(s, 1, p)) =
           IF s[p] = " " THEN NonBlank(SubSeq(s, 1, p - 1))
           ELSE Append(NonBlank(SubSeq(s, 1, p - 1)), s[p])
<1> DEFINE t == SubSeq(s, 1, p)  r == SubSeq(s, 1, p - 1)
<1>1. /\ Len(t) = p /\ Len(r) = p - 1 /\ p \in Nat /\ p - 1 \in Nat /\ t[p] = s[p]
      /\ \A i \in 1 .. Len(r) : r[i] = t[i]
  OBVIOUS
<1> HIDE DEF t, r
<1>2. IsUpto(Upto(t), t) /\ IsUpto(Upto(r), r)
  BY <1>1, UptoThere
<1>3. \A i \in 0 .. Len(r) : Upto(r)[i] = Upto(t)[i]
  <2>1. Len(r) \in Nat /\ Len(t) \in Nat /\ Len(r) <= Len(t)
    BY <1>1
  <2> QED BY <1>1, <1>2, <2>1, UptoSame
<1>4. Upto(r)[p - 1] = Upto(t)[p - 1]
  BY <1>1, <1>3
<1>5. Upto(t)[p] = IF t[p] = " " THEN Upto(t)[p - 1] ELSE Append(Upto(t)[p - 1], t[p])
  <2>1. p \in 0 .. Len(t) /\ p # 0
    BY <1>1
  <2> QED BY <1>2, <2>1 DEF IsUpto
<1>6. NonBlank(t) = Upto(t)[p] /\ NonBlank(r) = Upto(r)[p - 1]
  BY <1>1, NonBlankIsUpto
<1> QED BY <1>1, <1>4, <1>5, <1>6 DEF t, r

LEMMA NonBlankEmpty == NonBlank(<<>>) = <<>>
<1>1. Len(<<>>) = 0 /\ Len(<<>>) \in Nat
  OBVIOUS
<1>2. IsUpto(Upto(<<>>), <<>>)
  BY <1>1, UptoThere
<1>3. Upto(<<>>)[0] = <<>>
  BY <1>1, <1>2 DEF IsUpto
<1> QED BY <1>1, <1>3, NonBlankIsUpto

-----------------------------------------------------------------------------
(* preprocess: what is left of a line is a sequence of characters.          *)

\* Names for what the SMT backend cannot be given: the literals " " and "", and that a
\* literal is a string.  Besides strings, a text has blanks, ends of lines, and Odd.
Space  == " "
Symbol == STRING \cup {Space, NewLine, Odd}
Going  == failed = ""

LEMMA Found ==
  ASSUME NEW l \in Seq(Symbol), NEW mark, NEW k \in Nat
  PROVE  FindFrom(l, mark, k) \in 0 .. Len(l)
<1> DEFINE at == {j \in k .. Len(l) : TwoAt(l, j) = mark}
<1>1. at \subseteq Nat /\ at \subseteq 0 .. Len(l)
  OBVIOUS
<1>2. FindFrom(l, mark, k) = IF at = {} THEN 0 ELSE Min(at)
  BY DEF FindFrom, npos
<1>3. Len(l) \in Nat
  OBVIOUS
<1> HIDE DEF at
<1>4. CASE at # {}
  <2>1. PICK n \in at : \A j \in at : n <= j
    BY <1>1, <1>4, LeastNat
  <2>2. Min(at) \in at
    BY <2>1 DEF Min
  <2> QED BY <1>1, <1>2, <1>4, <2>2
<1> QED BY <1>2, <1>3, <1>4

LEMMA Cut ==
  ASSUME NEW l \in Seq(Symbol), NEW k \in 0 .. Len(l)
  PROVE  Before(l, k) \in Seq(Symbol) /\ After(l, k) \in Seq(Symbol)
<1>1. Before(l, k) \in Seq(Symbol)
  BY DEF Before
<1>2. After(l, k) \in Seq(Symbol)
  BY DEF After
<1> QED BY <1>1, <1>2

LEMMA LineLeft ==
  ASSUME NEW l \in Seq(Symbol)
  PROVE  WithoutSlashes(WithoutBlock(l)) \in Seq(Symbol)
<1>1. \A m : Find(l, m) \in 0 .. Len(l)
  BY Found DEF Find
<1>2. WithoutBlock(l).text \in Seq(Symbol)
  <2> DEFINE start == Find(l, Opening)
             end   == IF inBlockComment THEN Find(l, Closing) ELSE FindFrom(l, Closing, start + 2)
  <2>1. start \in 0 .. Len(l)
    BY <1>1
  <2>2. FindFrom(l, Closing, start + 2) \in 0 .. Len(l)
    <3>1. start + 2 \in Nat
      <4> HIDE DEF start
      <4> QED BY <2>1
    <3> HIDE DEF start
    <3> QED BY <3>1, Found
  <2>3. end \in 0 .. Len(l)
    BY <1>1, <2>2
  <2>4. WithoutBlock(l) \in {[text |-> After(l, end), open |-> FALSE], [text |-> <<>>, open |-> TRUE],
                             [text |-> Before(l, start) \o After(l, end), open |-> FALSE],
                             [text |-> Before(l, start), open |-> TRUE],
                             [text |-> l, open |-> FALSE]}
    <3> HIDE DEF OpensBlock
    <3> QED BY Zenon DEF WithoutBlock
  <2> HIDE DEF start, end
  <2>5. Before(l, start) \in Seq(Symbol) /\ After(l, end) \in Seq(Symbol)
    BY <2>1, <2>3, Cut
  <2>6. Before(l, start) \o After(l, end) \in Seq(Symbol)
    BY <2>5
  <2>7. WithoutBlock(l).text \in {After(l, end), <<>>, Before(l, start) \o After(l, end),
                                  Before(l, start), l}
    <3> HIDE DEF WithoutBlock
    <3> QED BY <2>4
  <2>8. <<>> \in Seq(Symbol)
    OBVIOUS
  <2> HIDE DEF WithoutBlock
  <2> QED BY <2>5, <2>6, <2>7, <2>8
<1>3. \A p : p.text \in Seq(Symbol) => WithoutSlashes(p) \in Seq(Symbol)
  <2> SUFFICES ASSUME NEW p, p.text \in Seq(Symbol) PROVE WithoutSlashes(p) \in Seq(Symbol)
    OBVIOUS
  <2>1. Find(p.text, Slashes) \in 0 .. Len(p.text)
    BY Found DEF Find
  <2>2. Before(p.text, Find(p.text, Slashes)) \in Seq(Symbol)
    BY <2>1, Cut
  <2> QED BY <2>2 DEF WithoutSlashes
<1> QED BY <1>2, <1>3

-----------------------------------------------------------------------------
(* The invariant.                                                           *)

TokenTypes ==
  {keywords[w] : w \in DOMAIN keywords} \cup {"IDENFR", "INTLTR", "FLOATLTR"}
    \cup {TwoCharOps[s] : s \in opwords2} \cup {OneCharOps[w] : w \in DOMAIN OneCharOps}
Token     == [type : TokenTypes, value : Seq(Symbol)]
Values(a) == [k \in DOMAIN a |-> a[k].value]

ScanType ==
  /\ file \in Sources
  /\ line \in Nat \ {0} /\ pos \in 1 .. (Len(ss) + 1)
  /\ inBlockComment \in BOOLEAN
  /\ ss \in Seq(Symbol) /\ cur_str \in Seq(Symbol) /\ ans \in Seq(Token)
  /\ Values(ans) \in Seq(Seq(Symbol)) /\ FlattenSeq(Values(ans)) \in Seq(Symbol)

\* The automaton begins when preprocess is done, with nothing.
NotBegun ==
  line <= Len(file) => pos = 1 /\ ans = <<>> /\ cur_str = <<>> /\ cur_state = "Empty" /\ Going
\* preprocess puts a blank after every line, so that the last token is completed.
BlankLast(s) == s # <<>> => s[Len(s)] = Space
EndsInBlank  == BlankLast(ss)
\* Nothing is pending at the beginning, after a blank, and in the state "Empty".
NothingPending ==
  /\ cur_state = "Empty" => cur_str = <<>>
  /\ Going /\ (pos = 1 \/ ss[pos - 1] = Space) => cur_str = <<>>
Accounted ==
  Going => FlattenSeq(Values(ans)) \o cur_str = NonBlank(SubSeq(ss, 1, pos - 1))
ScanInv == ScanType /\ NotBegun /\ EndsInBlank /\ NothingPending /\ Accounted

LEMMA ValuesAppend ==
  ASSUME NEW a \in Seq(Token), NEW e \in Token
  PROVE  Values(Append(a, e)) = Append(Values(a), e.value)
BY DEF Values, Token

LEMMA TypeIsKnown ==
  ASSUME cur_state \in {"FloatLiteral", "IntLiteral", "Ident", "op"}
  PROVE  TokenType \in TokenTypes \cup {"invalid operator!"}
<1>1. \A s : get_Ident_type(s) \in TokenTypes
  BY DEF get_Ident_type, TokenTypes
<1>2. \A s : get_op_type(s) \in TokenTypes \cup {"invalid operator!"}
  BY DEF get_op_type, TokenTypes
<1>3. "INTLTR" \in TokenTypes /\ "FLOATLTR" \in TokenTypes
  BY DEF TokenTypes
<1> HIDE DEF TokenTypes, get_Ident_type, get_op_type
<1> QED BY <1>1, <1>2, <1>3 DEF TokenType

\* A character that is read, and what it adds.
LEMMA Character ==
  ASSUME ScanInv, NEW state, Reading(state)
  PROVE  /\ c \in Symbol /\ pos \in 1 .. Len(ss) /\ pos + 1 \in 1 .. (Len(ss) + 1)
         /\ line > Len(file) /\ Going
         /\ FlattenSeq(Values(ans)) \o cur_str = NonBlank(SubSeq(ss, 1, pos - 1))
         /\ c = Space => NonBlank(SubSeq(ss, 1, pos)) = NonBlank(SubSeq(ss, 1, pos - 1))
         /\ c # Space => NonBlank(SubSeq(ss, 1, pos)) = Append(NonBlank(SubSeq(ss, 1, pos - 1)), c)
<1>1. /\ line > Len(file) /\ Going
      /\ pos <= Len(ss)
  BY DEF Reading, Going
<1>2. ss \in Seq(Symbol) /\ pos \in 1 .. (Len(ss) + 1)
  BY DEF ScanInv, ScanType
<1>3. pos \in 1 .. Len(ss) /\ pos + 1 \in 1 .. (Len(ss) + 1)
  <2>1. Len(ss) \in Nat
    BY <1>2
  <2> QED BY <1>1, <1>2, <2>1
<1>4. c \in Symbol
  BY <1>2, <1>3 DEF c
<1>5. NonBlank(SubSeq(ss, 1, pos)) =
        IF c = Space THEN NonBlank(SubSeq(ss, 1, pos - 1))
        ELSE Append(NonBlank(SubSeq(ss, 1, pos - 1)), c)
  BY <1>2, <1>3, NonBlankNext, Zenon DEF c, Space
<1>6. FlattenSeq(Values(ans)) \o cur_str = NonBlank(SubSeq(ss, 1, pos - 1))
  BY <1>1 DEF ScanInv, Accounted
<1> QED BY <1>1, <1>3, <1>4, <1>5, <1>6

-----------------------------------------------------------------------------
(* Every step keeps the invariant.                                          *)

LEMMA ScanBegins == ScanInit => ScanInv
<1> SUFFICES ASSUME ScanInit PROVE ScanInv
  OBVIOUS
<1>1. /\ file \in Sources /\ line = 1 /\ inBlockComment = FALSE /\ ss = <<>> /\ pos = 1
      /\ cur_state = "Empty" /\ cur_str = <<>> /\ ans = <<>>
  BY DEF ScanInit
<1>2. Values(ans) = <<>>
  BY <1>1 DEF Values
<1>3. FlattenSeq(<<>>) = <<>>
  BY FlattenIsFlat
<1>4. ScanType
  <2>1. <<>> \in Seq(Symbol) /\ <<>> \in Seq(Token) /\ <<>> \in Seq(Seq(Symbol)) /\ Len(<<>>) = 0
    OBVIOUS
  <2>2. line \in Nat \ {0}
    BY <1>1
  <2>3. inBlockComment \in BOOLEAN
    BY <1>1, Zenon
  <2>4. Len(ss) = 0
    BY <1>1
  <2>5. pos \in 1 .. (Len(ss) + 1)
    BY <1>1, <2>4
  <2> HIDE DEF Token, Symbol
  <2> QED BY <1>1, <1>2, <1>3, <2>1, <2>2, <2>3, <2>5 DEF ScanType
<1>5. Accounted
  <2>1. SubSeq(ss, 1, pos - 1) = <<>> /\ <<>> \o <<>> = <<>>
    BY <1>1
  <2> QED BY <1>1, <1>2, <1>3, <2>1, NonBlankEmpty DEF Accounted
<1>6. Going
  BY DEF ScanInit, Going
<1> QED BY <1>1, <1>4, <1>5, <1>6 DEF ScanInv, NotBegun, EndsInBlank, BlankLast, NothingPending

LEMMA PreprocessAccounts ==
  ASSUME ScanInv, Preprocess
  PROVE  ScanInv'
<1> DEFINE left == WithoutSlashes(WithoutBlock(file[line]))
<1>1. /\ line <= Len(file) /\ line' = line + 1
      /\ ss' = IF left = <<>> THEN ss ELSE (ss \o left) \o <<Space>>
      /\ UNCHANGED <<file, pos, cur_state, cur_str, ans, failed>>
      /\ inBlockComment' = WithoutBlock(file[line]).open
  BY Zenon DEF Preprocess, Joined, Space
<1>2. /\ pos = 1 /\ ans = <<>> /\ cur_str = <<>> /\ cur_state = "Empty" /\ Going
      /\ file \in Sources /\ line \in Nat \ {0} /\ ss \in Seq(Symbol)
  BY <1>1 DEF ScanInv, NotBegun, ScanType
<1>3. left \in Seq(Symbol)
  <2>1. file \in Seq(Seq(STRING))
    BY <1>2, SourcesAssumption
  <2>2. file[line] \in Seq(STRING)
    BY <1>1, <1>2, <2>1
  <2>3. file[line] \in Seq(Symbol)
    BY <2>2 DEF Symbol
  <2> QED BY <2>3, LineLeft
<1> HIDE DEF left
<1>4. PICK text : text = ss'
  OBVIOUS
<1>5. text \in Seq(Symbol) /\ BlankLast(text)
  <2>1. CASE left = <<>>
    BY <1>1, <1>2, <1>4, <2>1 DEF ScanInv, EndsInBlank
  <2>2. CASE left # <<>>
    <3>1. Space \in Symbol
      BY DEF Symbol
    <3>2. ss \o left \in Seq(Symbol)
      BY <1>2, <1>3
    <3>3. text = (ss \o left) \o <<Space>>
      BY <1>1, <1>4, <2>2
    <3>4. Len(text) = Len(ss \o left) + 1 /\ text[Len(text)] = Space
      BY <3>1, <3>2, <3>3
    <3>5. text \in Seq(Symbol)
      BY <3>1, <3>2, <3>3
    <3> QED BY <3>4, <3>5 DEF BlankLast
  <2> QED BY <2>1, <2>2
<1>6. ScanType'
  <2>1. WithoutBlock(file[line]).open \in BOOLEAN
    BY DEF WithoutBlock
  <2>2. Len(text) \in Nat
    BY <1>5
  <2>3. pos' \in 1 .. (Len(text) + 1) /\ line' \in Nat \ {0}
    BY <1>1, <1>2, <2>2
  <2>4. Values(ans)' = Values(ans)
    BY <1>1 DEF Values
  <2>5. FlattenSeq(Values(ans))' = FlattenSeq(Values(ans))
    BY <1>1 DEF Values
  <2> QED BY <1>1, <1>4, <1>5, <2>1, <2>3, <2>4, <2>5 DEF ScanInv, ScanType
<1>7. Accounted'
  <2>1. FlattenSeq(Values(ans))' = FlattenSeq(Values(ans))
    BY <1>1 DEF Values
  <2>2. SubSeq(ss, 1, 0) = <<>> /\ SubSeq(text, 1, 0) = <<>> /\ pos - 1 = 0 /\ pos' - 1 = 0
    BY <1>1, <1>2, <1>5
  <2>3. FlattenSeq(Values(ans)) \o cur_str = NonBlank(<<>>)
    BY <1>2, <2>2 DEF ScanInv, Accounted
  <2>4. NonBlank(SubSeq(ss, 1, pos - 1))' = NonBlank(<<>>)
    BY <1>4, <2>2
  <2> QED BY <1>1, <2>1, <2>3, <2>4 DEF Accounted
<1>8. EndsInBlank'
  BY <1>4, <1>5 DEF EndsInBlank
<1>9. Going'
  BY <1>1, <1>2, Zenon DEF Going
<1>10. NotBegun'
  BY <1>1, <1>2, <1>9 DEF NotBegun
<1>11. NothingPending'
  BY <1>1, <1>2 DEF NothingPending
<1> QED BY <1>6, <1>7, <1>8, <1>10, <1>11 DEF ScanInv

\* What a step of the automaton has to say for itself.
LEMMA Moves ==
  ASSUME ScanInv, NEW state, Reading(state), pos' = pos + 1, InText,
         cur_str' \in Seq(Symbol), ans' \in Seq(Token), Values(ans') \in Seq(Seq(Symbol)),
         FlattenSeq(Values(ans')) \in Seq(Symbol),
         cur_state' = "Empty" => cur_str' = <<>>,
         Going' /\ c = Space => cur_str' = <<>>,
         Going' => FlattenSeq(Values(ans')) \o cur_str' = NonBlank(SubSeq(ss, 1, pos))
  PROVE  ScanInv'
<1>1. UNCHANGED <<file, line, inBlockComment, ss>>
  BY DEF InText
<1>2. /\ file \in Sources /\ line \in Nat /\ ss \in Seq(Symbol) /\ inBlockComment \in BOOLEAN
      /\ line \in Nat \ {0}
  BY DEF ScanInv, ScanType
<1>3. pos \in 1 .. Len(ss) /\ pos + 1 \in 1 .. (Len(ss) + 1) /\ line > Len(file)
  BY Character
<1>4. pos' - 1 = pos /\ pos' # 1
  BY <1>3
<1>5. ScanType'
  BY <1>1, <1>2, <1>3 DEF ScanType
<1>6. NotBegun'
  <2>1. Len(file) \in Nat
    BY <1>2, SourcesAssumption
  <2>2. ~(line <= Len(file))
    BY <1>2, <1>3, <2>1
  <2>3. ~(line' <= Len(file'))
    BY <1>1, <2>2
  <2> QED BY <2>3 DEF NotBegun
<1>7. EndsInBlank'
  BY <1>1 DEF ScanInv, EndsInBlank
<1>8. NothingPending'
  <2>1. ASSUME Going', ss'[pos' - 1] = Space PROVE cur_str' = <<>>
    <3>1. c = Space
      BY <1>1, <1>4, <2>1 DEF c
    <3> QED BY <2>1, <3>1
  <2> QED BY <1>4, <2>1 DEF NothingPending
<1>9. Accounted'
  BY <1>1, <1>4 DEF Accounted
<1> QED BY <1>5, <1>6, <1>7, <1>8, <1>9 DEF ScanInv

LEMMA FailingAccounts ==
  ASSUME ScanInv, NEW state, Reading(state), NEW what, what # "", Failing(what)
  PROVE  ScanInv'
<1>1. /\ pos' = pos + 1 /\ InText /\ UNCHANGED <<cur_state, cur_str, ans>>
  BY DEF Failing
<1>2. ~ Going'
  BY Zenon DEF Failing, Going
<1>3. /\ cur_str \in Seq(Symbol) /\ ans \in Seq(Token) /\ Values(ans) \in Seq(Seq(Symbol))
      /\ FlattenSeq(Values(ans)) \in Seq(Symbol)
      /\ cur_state = "Empty" => cur_str = <<>>
  BY DEF ScanInv, ScanType, NothingPending
<1>4. Values(ans') = Values(ans)
  BY <1>1
<1> QED BY <1>1, <1>2, <1>3, <1>4, Moves

LEMMA LongerAccounts ==
  ASSUME ScanInv, NEW state, Reading(state), c # Space, NEW next, next # "Empty", Longer(next)
  PROVE  ScanInv'
<1>1. /\ pos' = pos + 1 /\ InText /\ UNCHANGED ans
      /\ cur_state' = next /\ cur_str' = Append(cur_str, c)
  BY DEF Longer, Read
<1>2. /\ c \in Symbol
      /\ FlattenSeq(Values(ans)) \o cur_str = NonBlank(SubSeq(ss, 1, pos - 1))
      /\ NonBlank(SubSeq(ss, 1, pos)) = Append(NonBlank(SubSeq(ss, 1, pos - 1)), c)
  BY Character
<1>3. /\ cur_str \in Seq(Symbol) /\ ans \in Seq(Token) /\ Values(ans) \in Seq(Seq(Symbol))
      /\ FlattenSeq(Values(ans)) \in Seq(Symbol)
  BY DEF ScanInv, ScanType
<1>4. Values(ans') = Values(ans)
  BY <1>1
<1>5. FlattenSeq(Values(ans)) \o Append(cur_str, c) = NonBlank(SubSeq(ss, 1, pos))
  <2> DEFINE done == FlattenSeq(Values(ans))
  <2>1. done \in Seq(Symbol)
    BY <1>3
  <2> HIDE DEF done
  <2>2. done \o Append(cur_str, c) = Append(done \o cur_str, c)
    BY <1>2, <1>3, <2>1
  <2>3. done \o cur_str = NonBlank(SubSeq(ss, 1, pos - 1))
    BY <1>2 DEF done
  <2> QED BY <1>2, <2>2, <2>3 DEF done
<1>6. cur_str' \in Seq(Symbol) /\ cur_state' # "Empty"
  BY <1>1, <1>2, <1>3
<1>7. FlattenSeq(Values(ans')) \o cur_str' = NonBlank(SubSeq(ss, 1, pos))
  BY <1>1, <1>4, <1>5
<1>8. FlattenSeq(Values(ans')) \in Seq(Symbol) /\ Values(ans') \in Seq(Seq(Symbol))
  BY <1>3, <1>4
<1> QED BY <1>1, <1>3, <1>6, <1>7, <1>8, Moves

LEMMA EmitAccounts ==
  ASSUME ScanInv, NEW state \in {"FloatLiteral", "IntLiteral", "Ident", "op"}, Reading(state),
         NEW next, NEW str, Emit(next, str),
         \/ c = Space /\ str = <<>>
         \/ c # Space /\ str = <<c>> /\ next # "Empty"
  PROVE  ScanInv'
<1> DEFINE done  == FlattenSeq(Values(ans))
           token == [type |-> TokenType, value |-> cur_str]
<1>1. CASE TokenType = "invalid operator!"
  <2>1. Failing("invalid operator!")
    BY <1>1, Zenon DEF Emit
  <2>2. "invalid operator!" # ""
    BY Zenon
  <2> QED BY <2>1, <2>2, FailingAccounts, Zenon
<1>2. CASE TokenType # "invalid operator!"
  <2>1. /\ ans' = Append(ans, token) /\ pos' = pos + 1 /\ InText
        /\ cur_state' = next /\ cur_str' = str
    BY <1>2, Zenon DEF Emit, Read
  <2>2. TokenType \in TokenTypes
    <3>1. cur_state \in {"FloatLiteral", "IntLiteral", "Ident", "op"}
      BY DEF Reading
    <3> QED BY <1>2, <3>1, TypeIsKnown, Zenon
  <2>3. /\ cur_str \in Seq(Symbol) /\ ans \in Seq(Token) /\ Values(ans) \in Seq(Seq(Symbol))
        /\ done \in Seq(Symbol)
    BY DEF ScanInv, ScanType
  <2>4. token \in Token /\ token.value = cur_str
    BY <2>2, <2>3 DEF Token
  <2> HIDE DEF token
  <2>5. Values(ans') = Append(Values(ans), cur_str)
    BY <2>1, <2>3, <2>4, ValuesAppend
  <2>6. FlattenSeq(Values(ans')) = done \o cur_str
    BY <2>3, <2>5, FlattenAppend
  <2>7. /\ done \o cur_str = NonBlank(SubSeq(ss, 1, pos - 1))
        /\ c \in Symbol
        /\ c = Space => NonBlank(SubSeq(ss, 1, pos)) = NonBlank(SubSeq(ss, 1, pos - 1))
        /\ c # Space => NonBlank(SubSeq(ss, 1, pos)) = Append(NonBlank(SubSeq(ss, 1, pos - 1)), c)
    BY Character
  <2> HIDE DEF done
  <2>8. /\ ans' \in Seq(Token) /\ Values(ans') \in Seq(Seq(Symbol)) /\ str \in Seq(Symbol)
        /\ done \o cur_str \in Seq(Symbol)
    <3>1. ans' \in Seq(Token)
      BY <2>1, <2>3, <2>4
    <3>2. Values(ans') \in Seq(Seq(Symbol))
      <4> DEFINE V == Values(ans)  W == Seq(Symbol)
      <4>1. V \in Seq(W) /\ cur_str \in W
        BY <2>3
      <4> HIDE DEF V, W
      <4>2. Append(V, cur_str) \in Seq(W)
        BY <4>1
      <4> QED BY <2>5, <4>2 DEF V, W
    <3>3. str \in Seq(Symbol)
      <4>1. <<>> \in Seq(Symbol) /\ <<c>> \in Seq(Symbol)
        BY <2>7
      <4> QED BY <4>1
    <3>4. done \o cur_str \in Seq(Symbol)
      BY <2>3
    <3> QED BY <3>1, <3>2, <3>3, <3>4
  <2>9. (done \o cur_str) \o str = NonBlank(SubSeq(ss, 1, pos))
    <3> DEFINE all == done \o cur_str
    <3>1. all \in Seq(Symbol) /\ all = NonBlank(SubSeq(ss, 1, pos - 1))
      BY <2>7, <2>8
    <3> HIDE DEF all
    <3>2. all \o <<>> = all /\ all \o <<c>> = Append(all, c)
      BY <2>7, <3>1
    <3>3. all \o str = NonBlank(SubSeq(ss, 1, pos))
      BY <2>7, <3>1, <3>2
    <3> QED BY <3>3 DEF all
  <2>10. /\ cur_str' \in Seq(Symbol) /\ FlattenSeq(Values(ans')) \in Seq(Symbol)
         /\ cur_state' = "Empty" => cur_str' = <<>>
         /\ c = Space => cur_str' = <<>>
         /\ FlattenSeq(Values(ans')) \o cur_str' = NonBlank(SubSeq(ss, 1, pos))
    BY <2>1, <2>6, <2>8, <2>9
  <2> QED BY <2>1, <2>8, <2>10, Moves
<1> QED BY <1>1, <1>2, Zenon

LEMMA AutomatonAccounts ==
  ASSUME ScanInv, Blank \/ BlankAgain \/ FromEmpty \/ FromFloatLiteral \/ FromIdent
                    \/ FromIntLiteral \/ FromOp
  PROVE  ScanInv'
<1>1. CASE Blank
  <2>1. PICK state \in {"FloatLiteral", "IntLiteral", "Ident", "op"} : Reading(state)
    BY <1>1 DEF Blank
  <2>2. c = Space /\ Emit("Empty", <<>>)
    BY <1>1, Zenon DEF Blank, Space
  <2> QED BY <2>1, <2>2, EmitAccounts
<1>2. CASE BlankAgain
  <2>1. /\ Reading("Empty") /\ c = Space /\ pos' = pos + 1 /\ InText
        /\ cur_str' = <<>> /\ UNCHANGED <<ans, failed>>
    BY <1>2, Zenon DEF BlankAgain, Read, Space
  <2>2. /\ Going
        /\ FlattenSeq(Values(ans)) \o cur_str = NonBlank(SubSeq(ss, 1, pos - 1))
        /\ NonBlank(SubSeq(ss, 1, pos)) = NonBlank(SubSeq(ss, 1, pos - 1))
    BY <2>1, Character
  <2>3. /\ ans \in Seq(Token) /\ Values(ans) \in Seq(Seq(Symbol)) /\ cur_str = <<>>
        /\ FlattenSeq(Values(ans)) \in Seq(Symbol)
    BY <2>1 DEF ScanInv, ScanType, NothingPending, Reading
  <2>4. Values(ans') = Values(ans) /\ <<>> \in Seq(Symbol)
    BY <2>1
  <2> QED BY <2>1, <2>2, <2>3, <2>4, Moves
<1>3. CASE FromEmpty
  <2>1. Reading("Empty") /\ c # Space
    BY <1>3, Zenon DEF FromEmpty, Space
  <2>2. Longer("Ident") \/ Longer("op") \/ Longer("FloatLiteral") \/ Longer("IntLiteral")
    BY <1>3, Zenon DEF FromEmpty, Space
  <2> QED BY <2>1, <2>2, LongerAccounts
<1>4. CASE FromFloatLiteral
  <2>1. Reading("FloatLiteral") /\ c # Space
    BY <1>4, Zenon DEF FromFloatLiteral, Space
  <2>2. \/ Longer("FloatLiteral") \/ Emit("op", <<c>>) \/ Failing("invalid FloatLiteral char")
    BY <1>4, Zenon DEF FromFloatLiteral, Space
  <2> QED BY <2>1, <2>2, LongerAccounts, EmitAccounts, FailingAccounts
<1>5. CASE FromIdent
  <2>1. Reading("Ident") /\ c # Space
    BY <1>5, Zenon DEF FromIdent, Space
  <2>2. \/ Longer("Ident") \/ Emit("op", <<c>>) \/ Failing("invalid Ident char")
    BY <1>5, Zenon DEF FromIdent, Space
  <2> QED BY <2>1, <2>2, LongerAccounts, EmitAccounts, FailingAccounts
<1>6. CASE FromIntLiteral
  <2>1. Reading("IntLiteral") /\ c # Space
    BY <1>6, Zenon DEF FromIntLiteral, Space
  <2>2. \/ Longer("FloatLiteral") \/ Longer("IntLiteral") \/ Emit("op", <<c>>)
        \/ Failing("invalid Ident char")
    BY <1>6, Zenon DEF FromIntLiteral, Space
  <2> QED BY <2>1, <2>2, LongerAccounts, EmitAccounts, FailingAccounts
<1>7. CASE FromOp
  <2>1. Reading("op") /\ c # Space
    BY <1>7, Zenon DEF FromOp, Space
  <2>2. Longer("op") \/ Emit("IntLiteral", <<c>>) \/ Emit("Ident", <<c>>) \/ Emit("op", <<c>>)
    BY <1>7, Zenon DEF FromOp, Space
  <2> QED BY <2>1, <2>2, LongerAccounts, EmitAccounts
<1> QED BY <1>1, <1>2, <1>3, <1>4, <1>5, <1>6, <1>7, Zenon

LEMMA ScanStutters ==
  ASSUME ScanInv, UNCHANGED scanner
  PROVE  ScanInv'
BY DEF scanner, ScanInv, ScanType, NotBegun, EndsInBlank, NothingPending, Accounted, Going, Values

LEMMA AccountedMeans == ScanInv => NothingLost
<1> SUFFICES ASSUME ScanInv, Going PROVE NothingLost
  BY Zenon DEF NothingLost, Going
<1>1. FlattenSeq([k \in DOMAIN ans |-> ans[k].value]) \o cur_str = NonBlank(SubSeq(ss, 1, pos - 1))
  BY DEF ScanInv, Accounted, Values
<1>2. ASSUME ScanDone PROVE cur_str = <<>>
  <2>1. ss \in Seq(Symbol) /\ pos \in 1 .. (Len(ss) + 1)
    BY DEF ScanInv, ScanType
  <2>2. pos > Len(ss)
    BY <1>2, Zenon DEF ScanDone, Going
  <2>3. Len(ss) \in Nat
    BY <2>1
  <2>4. pos = Len(ss) + 1 /\ pos - 1 = Len(ss)
    BY <2>1, <2>2, <2>3
  <2>5. pos = 1 \/ ss[pos - 1] = Space
    <3>1. CASE ss = <<>>
      BY <2>4, <3>1
    <3>2. CASE ss # <<>>
      BY <2>4, <3>2 DEF ScanInv, EndsInBlank, BlankLast
    <3> QED BY <3>1, <3>2
  <2> QED BY <2>5 DEF ScanInv, NothingPending
<1> QED BY <1>1, <1>2, Zenon DEF NothingLost

\* Whatever the files: the scanner puts every character that it reads and that is no
\* blank into exactly one token, in its order, and leaves none over at the end
\* (lexical.cpp:52-175, 252).
THEOREM EveryCharacterScanned == LexerSpec => []NothingLost
<1>1. ScanInit => ScanInv
  BY ScanBegins
<1>2. ScanInv /\ [ScanNext]_scanner => ScanInv'
  <2> SUFFICES ASSUME ScanInv, [ScanNext]_scanner PROVE ScanInv'
    OBVIOUS
  <2>1. CASE Preprocess
    BY <2>1, PreprocessAccounts
  <2>2. CASE Blank \/ BlankAgain \/ FromEmpty \/ FromFloatLiteral \/ FromIdent \/ FromIntLiteral
             \/ FromOp
    BY <2>2, AutomatonAccounts
  <2>3. CASE Scanned \/ UNCHANGED scanner
    BY <2>3, ScanStutters DEF Scanned
  <2> QED BY <2>1, <2>2, <2>3, Zenon DEF ScanNext
<1>3. ScanInv => NothingLost
  BY AccountedMeans
<1> QED BY <1>1, <1>2, <1>3, PTL DEF LexerSpec

=============================================================================
