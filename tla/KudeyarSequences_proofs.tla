----------------------- MODULE KudeyarSequences_proofs -----------------------
(***************************************************************************)
(* Facts that proofs about several components need: about positions in     *)
(* sequences, functions defined by recursion, and sums.                    *)
(***************************************************************************)
EXTENDS Integers, SequencesExt, SequenceTheorems, FiniteSetTheorems, WellFoundedInduction, TLAPS

\* An interval from 1 determines its end.
LEMMA IntervalEnd ==
    ASSUME NEW m \in Nat, NEW n \in Nat, 1 .. m = 1 .. n
    PROVE  m = n
<1>1. CASE m > n
  <2>1. m \in 1 .. m /\ m \notin 1 .. n BY <1>1
  <2> QED BY <2>1
<1>2. CASE n > m
  <2>1. n \in 1 .. n /\ n \notin 1 .. m BY <1>2
  <2> QED BY <2>1
<1> QED BY <1>1, <1>2

\* A function on 1 .. n is a sequence of length n.
LEMMA FunctionIsSeq ==
    ASSUME NEW S, NEW n \in Nat, NEW f \in [1 .. n -> S]
    PROVE  f \in Seq(S) /\ Len(f) = n
<1>1. f \in Seq(S) BY SeqDef
<1>2. Len(f) \in Nat /\ DOMAIN f = 1 .. Len(f) BY <1>1, LenProperties
<1>3. Len(f) = n BY <1>2, IntervalEnd
<1> QED BY <1>1, <1>3

LEMMA NatWellFounded == IsWellFoundedOn(OpToRel(<, Nat), Nat)
BY NatLessThanWellFounded

\* A set of natural numbers that is not empty has a smallest member.
LEMMA LeastNat ==
    ASSUME NEW T, T \subseteq Nat, T # {}
    PROVE  \E x \in T : \A y \in T : x <= y
<1>1. PICK x \in T : \A y \in T : ~(<<y, x>> \in OpToRel(<, Nat))
  BY NatLessThanWellFounded, WFMin
<1>2. \A y \in T : ~(y < x)
  BY <1>1 DEF OpToRel
<1> QED BY <1>2

\* So have positions in a sequence a last one.
LEMMA LastPosition ==
    ASSUME NEW n \in Nat, NEW I, I \subseteq 1 .. n, I # {}
    PROVE  Max(I) \in I /\ \A y \in I : Max(I) >= y
<1> DEFINE T == {k \in Nat : \E i \in I : k = n - i}
<1>1. T \subseteq Nat /\ T # {}
  <2>1. PICK i \in I : TRUE OBVIOUS
  <2>2. n - i \in Nat BY <2>1
  <2> QED BY <2>1, <2>2
<1>2. PICK k \in T : \A y \in T : k <= y BY <1>1, LeastNat
<1>3. PICK i \in I : k = n - i BY <1>2
<1>4. ASSUME NEW y \in I PROVE i >= y
  <2>1. n - y \in T BY <1>4
  <2>2. k <= n - y BY <2>1, <1>2
  <2> QED BY <2>2, <1>3
<1>5. \E x \in I : \A y \in I : x >= y BY <1>4
<1> QED BY <1>5 DEF Max

-----------------------------------------------------------------------------

\* The one position of a member in a sequence without repetitions.
PositionOf(s, x) == SelectInSeq(s, LAMBDA v : v = x)

LEMMA PositionInInjective ==
    ASSUME NEW S, NEW s \in Seq(S), IsInjective(s), NEW i \in 1 .. Len(s)
    PROVE  PositionOf(s, s[i]) = i
<1> DEFINE I == {k \in 1 .. Len(s) : s[k] = s[i]}
<1>1. DOMAIN s = 1 .. Len(s) /\ Len(s) \in Nat BY LenProperties
<1>2. I = {i} BY <1>1 DEF IsInjective
<1>3. Min({i}) = i BY DEF Min
<1>4. PositionOf(s, s[i]) = IF I # {} THEN Min(I) ELSE 0
  BY DEF PositionOf, SelectInSeq
<1> QED BY <1>2, <1>3, <1>4

\* The last member that passes a test, where it is known.
LEMMA LastPassing ==
    ASSUME NEW S, NEW s \in Seq(S), NEW Good, NEW k \in 0 .. Len(s),
           k > 0 => s[k] \in Good,
           \A i \in k + 1 .. Len(s) : s[i] \notin Good
    PROVE  SelectLastInSeq(s, LAMBDA v : v \in Good) = k
<1> DEFINE I == {i \in 1 .. Len(s) : s[i] \in Good}
<1>1. Len(s) \in Nat BY LenProperties
<1>2. CASE k = 0
  <2>1. I = {} BY <1>1, <1>2
  <2> QED BY <2>1, <1>2 DEF SelectLastInSeq
<1>3. CASE k > 0
  <2>1. k \in I BY <1>1, <1>3
  <2>2. \A i \in I : k >= i BY <1>1
  <2>3. Max(I) = k
    <3>1. \A x \in I : (\A y \in I : x >= y) => x = k BY <2>1, <2>2, <1>1
    <3> QED BY <3>1, <2>1, <2>2 DEF Max
  <2> QED BY <2>1, <2>3 DEF SelectLastInSeq
<1> QED BY <1>1, <1>2, <1>3

\* The last member that passes a test, wherever it is.
LEMMA LastPassingBounds ==
    ASSUME NEW S, NEW s \in Seq(S), NEW Good
    PROVE  LET k == SelectLastInSeq(s, LAMBDA v : v \in Good)
           IN /\ k \in 0 .. Len(s)
              /\ k > 0 => s[k] \in Good
              /\ \A i \in k + 1 .. Len(s) : s[i] \notin Good
<1> DEFINE I == {i \in 1 .. Len(s) : s[i] \in Good}
           k == SelectLastInSeq(s, LAMBDA v : v \in Good)
<1>1. Len(s) \in Nat BY LenProperties
<1>2. k = IF I # {} THEN Max(I) ELSE 0 BY DEF SelectLastInSeq
<1>3. I # {} => Max(I) \in I /\ \A y \in I : Max(I) >= y BY <1>1, LastPosition
<1> HIDE DEF k
<1>4. /\ k \in 0 .. Len(s)
      /\ k > 0 => s[k] \in Good
  BY <1>1, <1>2, <1>3
<1>5. ASSUME NEW i \in k + 1 .. Len(s) PROVE s[i] \notin Good
  <2>1. SUFFICES ASSUME s[i] \in Good PROVE FALSE OBVIOUS
  <2>2. i \in 1 .. Len(s) BY <1>1, <1>4
  <2>3. i \in I BY <2>1, <2>2
  <2>4. k >= i BY <2>3, <1>2, <1>3
  <2> QED BY <2>4, <1>1, <1>4
<1> QED BY <1>4, <1>5 DEF k

-----------------------------------------------------------------------------

\* The members of a sequence without its i-th.
LEMMA RemoveAtProperties ==
    ASSUME NEW S, NEW s \in Seq(S), NEW i \in 1 .. Len(s)
    PROVE  /\ RemoveAt(s, i) \in Seq(S)
           /\ Len(RemoveAt(s, i)) = Len(s) - 1
           /\ \A k \in 1 .. Len(s) - 1 : RemoveAt(s, i)[k] = IF k < i THEN s[k] ELSE s[k + 1]
<1>1. Len(s) \in Nat /\ \A k \in 1 .. Len(s) : s[k] \in S
  BY LenProperties, ElementOfSeq
<1> DEFINE a == SubSeq(s, 1, i - 1)
           b == SubSeq(s, i + 1, Len(s))
<1>2. /\ a \in Seq(S) /\ Len(a) = i - 1
      /\ \A k \in 1 .. i - 1 : a[k] = s[k]
  <2>1. \A k \in 1 .. i - 1 : s[k] \in S BY <1>1
  <2>2. i - 1 \in Int /\ 1 \in Int BY <1>1
  <2>3. /\ a \in Seq(S) /\ Len(a) = IF 1 <= i - 1 THEN (i - 1) - 1 + 1 ELSE 0
        /\ \A k \in 1 .. (i - 1) - 1 + 1 : a[k] = s[1 + k - 1]
    BY <2>1, <2>2, SubSeqProperties
  <2> QED BY <2>3, <1>1
<1>3. /\ b \in Seq(S) /\ Len(b) = Len(s) - i
      /\ \A k \in 1 .. Len(s) - i : b[k] = s[i + k]
  <2>1. \A k \in i + 1 .. Len(s) : s[k] \in S BY <1>1
  <2>2. i + 1 \in Int /\ Len(s) \in Int BY <1>1
  <2>3. /\ b \in Seq(S) /\ Len(b) = IF i + 1 <= Len(s) THEN Len(s) - (i + 1) + 1 ELSE 0
        /\ \A k \in 1 .. Len(s) - (i + 1) + 1 : b[k] = s[(i + 1) + k - 1]
    BY <2>1, <2>2, SubSeqProperties
  <2> QED BY <2>3, <1>1
<1> HIDE DEF a, b
<1>4. /\ a \o b \in Seq(S) /\ Len(a \o b) = Len(a) + Len(b)
      /\ \A k \in 1 .. Len(a) + Len(b) : (a \o b)[k] = IF k <= Len(a) THEN a[k] ELSE b[k - Len(a)]
  BY <1>2, <1>3, ConcatProperties
<1>5. RemoveAt(s, i) = a \o b BY DEF RemoveAt, a, b
<1>6. Len(a \o b) = Len(s) - 1 BY <1>1, <1>2, <1>3, <1>4
<1>7. ASSUME NEW k \in 1 .. Len(s) - 1
      PROVE  (a \o b)[k] = IF k < i THEN s[k] ELSE s[k + 1]
  <2>1. (a \o b)[k] = IF k <= i - 1 THEN a[k] ELSE b[k - (i - 1)]
    BY <1>1, <1>2, <1>3, <1>4
  <2>2. CASE k < i BY <2>1, <2>2, <1>1, <1>2
  <2>3. CASE ~(k < i)
    <3>1. k - (i - 1) \in 1 .. Len(s) - i BY <2>3, <1>1
    <3>2. b[k - (i - 1)] = s[i + (k - (i - 1))] BY <3>1, <1>3
    <3>3. i + (k - (i - 1)) = k + 1 BY <1>1
    <3> QED BY <2>1, <2>3, <3>2, <3>3, <1>1
  <2> QED BY <2>2, <2>3
<1> QED BY <1>4, <1>5, <1>6, <1>7

\* The members of a sequence with another one put behind its i-th.
LEMMA SpliceProperties ==
    ASSUME NEW S, NEW s \in Seq(S), NEW i \in 0 .. Len(s), NEW c \in Seq(S)
    PROVE  LET r == SubSeq(s, 1, i) \o c \o SubSeq(s, i + 1, Len(s))
           IN /\ r \in Seq(S) /\ Len(r) = Len(s) + Len(c)
              /\ \A k \in 1 .. i : r[k] = s[k]
              /\ \A k \in 1 .. Len(c) : r[i + k] = c[k]
              /\ \A k \in i + 1 .. Len(s) : r[k + Len(c)] = s[k]
<1>1. Len(s) \in Nat /\ Len(c) \in Nat /\ \A k \in 1 .. Len(s) : s[k] \in S
  BY LenProperties, ElementOfSeq
<1> DEFINE a == SubSeq(s, 1, i)
           b == SubSeq(s, i + 1, Len(s))
           d == a \o c
<1>2. /\ a \in Seq(S) /\ Len(a) = i
      /\ \A k \in 1 .. i : a[k] = s[k]
  <2>1. \A k \in 1 .. i : s[k] \in S BY <1>1
  <2>2. i \in Int /\ 1 \in Int BY <1>1
  <2>3. /\ a \in Seq(S) /\ Len(a) = IF 1 <= i THEN i - 1 + 1 ELSE 0
        /\ \A k \in 1 .. i - 1 + 1 : a[k] = s[1 + k - 1]
    BY <2>1, <2>2, SubSeqProperties
  <2> QED BY <2>3, <1>1
<1>3. /\ b \in Seq(S) /\ Len(b) = Len(s) - i
      /\ \A k \in 1 .. Len(s) - i : b[k] = s[i + k]
  <2>1. \A k \in i + 1 .. Len(s) : s[k] \in S BY <1>1
  <2>2. i + 1 \in Int /\ Len(s) \in Int BY <1>1
  <2>3. /\ b \in Seq(S) /\ Len(b) = IF i + 1 <= Len(s) THEN Len(s) - (i + 1) + 1 ELSE 0
        /\ \A k \in 1 .. Len(s) - (i + 1) + 1 : b[k] = s[(i + 1) + k - 1]
    BY <2>1, <2>2, SubSeqProperties
  <2> QED BY <2>3, <1>1
<1> HIDE DEF a, b
<1>4. /\ d \in Seq(S) /\ Len(d) = Len(a) + Len(c)
      /\ \A k \in 1 .. Len(a) + Len(c) : d[k] = IF k <= Len(a) THEN a[k] ELSE c[k - Len(a)]
  BY <1>2, ConcatProperties
<1> HIDE DEF d
<1>5. Len(d) = i + Len(c) BY <1>4, <1>2
<1>6. ASSUME NEW k \in 1 .. i PROVE d[k] = s[k]
  <2>1. k \in 1 .. i + Len(c) /\ k <= i BY <1>1
  <2> QED BY <2>1, <1>2, <1>4
<1>7. ASSUME NEW k \in 1 .. Len(c) PROVE d[i + k] = c[k]
  <2>1. i + k \in 1 .. i + Len(c) /\ ~(i + k <= i) /\ (i + k) - i = k BY <1>1
  <2> QED BY <2>1, <1>2, <1>4
<1>8. /\ d \o b \in Seq(S) /\ Len(d \o b) = Len(d) + Len(b)
      /\ \A k \in 1 .. Len(d) + Len(b) : (d \o b)[k] = IF k <= Len(d) THEN d[k] ELSE b[k - Len(d)]
  <2>1. d \in Seq(S) /\ b \in Seq(S) BY <1>3, <1>4
  <2> QED BY <2>1, ConcatProperties
<1>9. Len(d \o b) = Len(s) + Len(c) BY <1>1, <1>3, <1>5, <1>8
<1>10. ASSUME NEW k \in 1 .. i PROVE (d \o b)[k] = s[k]
  <2>1. k \in 1 .. Len(d) + Len(b) /\ k <= Len(d) BY <1>1, <1>3, <1>5
  <2> QED BY <2>1, <1>6, <1>8
<1>11. ASSUME NEW k \in 1 .. Len(c) PROVE (d \o b)[i + k] = c[k]
  <2>1. i + k \in 1 .. Len(d) + Len(b) /\ i + k <= Len(d) BY <1>1, <1>3, <1>5
  <2> QED BY <2>1, <1>7, <1>8
<1>12. ASSUME NEW k \in i + 1 .. Len(s) PROVE (d \o b)[k + Len(c)] = s[k]
  <2>1. /\ k + Len(c) \in 1 .. Len(d) + Len(b) /\ ~(k + Len(c) <= Len(d))
        /\ (k + Len(c)) - Len(d) = k - i
    BY <1>1, <1>3, <1>5
  <2>2. k - i \in 1 .. Len(s) - i /\ i + (k - i) = k BY <1>1
  <2> QED BY <2>1, <2>2, <1>3, <1>8
<1> QED BY <1>8, <1>9, <1>10, <1>11, <1>12 DEF a, b, d

\* The members of a sequence with one inserted.
LEMMA InsertAtProperties ==
    ASSUME NEW S, NEW s \in Seq(S), NEW i \in 1 .. Len(s) + 1, NEW e \in S
    PROVE  LET r == InsertAt(s, i, e)
           IN /\ r \in Seq(S) /\ Len(r) = Len(s) + 1
              /\ \A k \in 1 .. i - 1 : r[k] = s[k]
              /\ r[i] = e
              /\ \A k \in i .. Len(s) : r[k + 1] = s[k]
<1>1. Len(s) \in Nat BY LenProperties
<1> DEFINE c == <<e>>
           r == SubSeq(s, 1, i - 1) \o c \o SubSeq(s, (i - 1) + 1, Len(s))
<1>2. c \in Seq(S) /\ Len(c) = 1 /\ c[1] = e OBVIOUS
<1>3. r = InsertAt(s, i, e)
  <2>1. (i - 1) + 1 = i BY <1>1
  <2> QED BY <2>1 DEF InsertAt
<1> HIDE DEF c
<1>4. i - 1 \in 0 .. Len(s) BY <1>1
<1>5. /\ r \in Seq(S) /\ Len(r) = Len(s) + Len(c)
      /\ \A k \in 1 .. i - 1 : r[k] = s[k]
      /\ \A k \in 1 .. Len(c) : r[(i - 1) + k] = c[k]
      /\ \A k \in (i - 1) + 1 .. Len(s) : r[k + Len(c)] = s[k]
  BY <1>2, <1>4, SpliceProperties
<1> HIDE DEF r
<1>6. r[i] = e
  <2>1. 1 \in 1 .. Len(c) /\ (i - 1) + 1 = i BY <1>1, <1>2
  <2> QED BY <2>1, <1>2, <1>5
<1>7. \A k \in i .. Len(s) : r[k + 1] = s[k] BY <1>1, <1>2, <1>5
<1> QED BY <1>2, <1>3, <1>5, <1>6, <1>7

-----------------------------------------------------------------------------
(* Short sequences.                                                        *)

LEMMA OneAndOne ==
    ASSUME NEW S, NEW x \in S, NEW y \in S
    PROVE  <<x>> \o <<y>> = <<x, y>>
<1> DEFINE a == <<x>>
           b == <<y>>
           c == <<x, y>>
<1>1. a \in Seq(S) /\ Len(a) = 1 /\ a[1] = x OBVIOUS
<1>2. b \in Seq(S) /\ Len(b) = 1 /\ b[1] = y OBVIOUS
<1>3. c \in Seq(S) /\ Len(c) = 2 /\ c[1] = x /\ c[2] = y OBVIOUS
<1> HIDE DEF a, b, c
<1>4. /\ a \o b \in Seq(S) /\ Len(a \o b) = Len(a) + Len(b)
      /\ \A i \in 1 .. Len(a) + Len(b) : (a \o b)[i] = IF i <= Len(a) THEN a[i] ELSE b[i - Len(a)]
  BY <1>1, <1>2, ConcatProperties
<1>5. \A i \in 1 .. 2 : (a \o b)[i] = c[i] BY <1>1, <1>2, <1>3, <1>4
<1>6. a \o b = c BY <1>1, <1>2, <1>3, <1>4, <1>5, SeqEqual
<1> QED BY <1>6 DEF a, b, c

LEMMA FirstOfTwo ==
    ASSUME NEW S, NEW x \in S, NEW y \in S
    PROVE  SubSeq(<<x, y>>, 1, 1) = <<x>>
<1> DEFINE a == <<x, y>>
           b == <<x>>
<1>1. a \in Seq(S) /\ Len(a) = 2 /\ a[1] = x OBVIOUS
<1>2. b \in Seq(S) /\ Len(b) = 1 /\ b[1] = x OBVIOUS
<1> HIDE DEF a, b
<1>3. \A i \in 1 .. 1 : a[i] \in S BY <1>1, ElementOfSeq
<1>4. /\ SubSeq(a, 1, 1) \in Seq(S) /\ Len(SubSeq(a, 1, 1)) = IF 1 <= 1 THEN 1 - 1 + 1 ELSE 0
      /\ \A i \in 1 .. 1 - 1 + 1 : SubSeq(a, 1, 1)[i] = a[1 + i - 1]
  <2>1. 1 \in Int OBVIOUS
  <2> QED BY <1>3, <2>1, SubSeqProperties
<1>5. Len(SubSeq(a, 1, 1)) = 1 /\ SubSeq(a, 1, 1)[1] = x BY <1>1, <1>4
<1>6. SubSeq(a, 1, 1) = b BY <1>2, <1>4, <1>5, SeqEqual
<1> QED BY <1>6 DEF a, b

LEMMA OneAndTwo ==
    ASSUME NEW S, NEW x \in S, NEW y \in S, NEW w \in S
    PROVE  <<x>> \o <<y, w>> = <<x, y, w>>
<1> DEFINE a == <<x>>
           b == <<y, w>>
           c == <<x, y, w>>
<1>1. a \in Seq(S) /\ Len(a) = 1 /\ a[1] = x OBVIOUS
<1>2. b \in Seq(S) /\ Len(b) = 2 /\ b[1] = y /\ b[2] = w OBVIOUS
<1>3. c \in Seq(S) /\ Len(c) = 3 /\ c[1] = x /\ c[2] = y /\ c[3] = w OBVIOUS
<1> HIDE DEF a, b, c
<1>4. /\ a \o b \in Seq(S) /\ Len(a \o b) = Len(a) + Len(b)
      /\ \A i \in 1 .. Len(a) + Len(b) : (a \o b)[i] = IF i <= Len(a) THEN a[i] ELSE b[i - Len(a)]
  BY <1>1, <1>2, ConcatProperties
<1>5. \A i \in 1 .. 3 : (a \o b)[i] = c[i] BY <1>1, <1>2, <1>3, <1>4
<1>6. a \o b = c BY <1>1, <1>2, <1>3, <1>4, <1>5, SeqEqual
<1> QED BY <1>6 DEF a, b, c

LEMMA TwoAndOne ==
    ASSUME NEW S, NEW x \in S, NEW y \in S, NEW w \in S
    PROVE  <<x, y>> \o <<w>> = <<x, y, w>>
<1> DEFINE a == <<x, y>>
           b == <<w>>
           c == <<x, y, w>>
<1>1. a \in Seq(S) /\ Len(a) = 2 /\ a[1] = x /\ a[2] = y OBVIOUS
<1>2. b \in Seq(S) /\ Len(b) = 1 /\ b[1] = w OBVIOUS
<1>3. c \in Seq(S) /\ Len(c) = 3 /\ c[1] = x /\ c[2] = y /\ c[3] = w OBVIOUS
<1> HIDE DEF a, b, c
<1>4. /\ a \o b \in Seq(S) /\ Len(a \o b) = Len(a) + Len(b)
      /\ \A i \in 1 .. Len(a) + Len(b) : (a \o b)[i] = IF i <= Len(a) THEN a[i] ELSE b[i - Len(a)]
  BY <1>1, <1>2, ConcatProperties
<1>5. \A i \in 1 .. 3 : (a \o b)[i] = c[i] BY <1>1, <1>2, <1>3, <1>4
<1>6. a \o b = c BY <1>1, <1>2, <1>3, <1>4, <1>5, SeqEqual
<1> QED BY <1>6 DEF a, b, c

\* A sequence behind one member.
LEMMA OneAndMore ==
    ASSUME NEW S, NEW x \in S, NEW s \in Seq(S)
    PROVE  LET r == <<x>> \o s
           IN /\ r \in Seq(S) /\ Len(r) = Len(s) + 1 /\ r[1] = x
              /\ \A i \in 1 .. Len(s) : r[i + 1] = s[i]
              /\ Tail(r) = s
<1> DEFINE a == <<x>>
           r == a \o s
<1>1. a \in Seq(S) /\ Len(a) = 1 /\ a[1] = x OBVIOUS
<1>2. Len(s) \in Nat BY LenProperties
<1> HIDE DEF a
<1>3. /\ r \in Seq(S) /\ Len(r) = Len(a) + Len(s)
      /\ \A i \in 1 .. Len(a) + Len(s) : r[i] = IF i <= Len(a) THEN a[i] ELSE s[i - Len(a)]
  BY <1>1, ConcatProperties
<1> HIDE DEF r
<1>4. Len(r) = Len(s) + 1 /\ r[1] = x BY <1>1, <1>2, <1>3
<1>5. ASSUME NEW i \in 1 .. Len(s) PROVE r[i + 1] = s[i]
  <2>1. i + 1 \in 1 .. Len(a) + Len(s) /\ ~(i + 1 <= Len(a)) /\ (i + 1) - Len(a) = i
    BY <1>1, <1>2
  <2> QED BY <2>1, <1>3
<1>6. r # <<>> BY <1>2, <1>3, <1>4, EmptySeq
<1>7. /\ Tail(r) \in Seq(S) /\ Len(Tail(r)) = Len(r) - 1
      /\ \A i \in 1 .. Len(Tail(r)) : Tail(r)[i] = r[i + 1]
  BY <1>3, <1>6, HeadTailProperties
<1>8. Len(Tail(r)) = Len(s) /\ \A i \in 1 .. Len(Tail(r)) : Tail(r)[i] = s[i]
  BY <1>2, <1>4, <1>5, <1>7
<1>9. Tail(r) = s BY <1>7, <1>8, SeqEqual
<1> QED BY <1>3, <1>4, <1>5, <1>9 DEF r, a

\* A sequence behind two members.
LEMMA TwoAndMore ==
    ASSUME NEW S, NEW x \in S, NEW y \in S, NEW s \in Seq(S)
    PROVE  LET r == <<x, y>> \o s
           IN /\ r \in Seq(S) /\ Len(r) = Len(s) + 2 /\ r[1] = x /\ r[2] = y
              /\ \A i \in 1 .. Len(s) : r[i + 2] = s[i]
              /\ SubSeq(r, 1, 1) = <<x>> /\ SubSeq(r, 3, Len(r)) = s
<1> DEFINE a == <<x, y>>
           b == <<x>>
           r == a \o s
<1>1. a \in Seq(S) /\ Len(a) = 2 /\ a[1] = x /\ a[2] = y OBVIOUS
<1>2. b \in Seq(S) /\ Len(b) = 1 /\ b[1] = x OBVIOUS
<1>3. Len(s) \in Nat BY LenProperties
<1> HIDE DEF a, b
<1>4. /\ r \in Seq(S) /\ Len(r) = Len(a) + Len(s)
      /\ \A i \in 1 .. Len(a) + Len(s) : r[i] = IF i <= Len(a) THEN a[i] ELSE s[i - Len(a)]
  BY <1>1, ConcatProperties
<1> HIDE DEF r
<1>5. Len(r) = Len(s) + 2 /\ r[1] = x /\ r[2] = y BY <1>1, <1>3, <1>4
<1>6. ASSUME NEW i \in 1 .. Len(s) PROVE r[i + 2] = s[i]
  <2>1. i + 2 \in 1 .. Len(a) + Len(s) /\ ~(i + 2 <= Len(a)) /\ (i + 2) - Len(a) = i
    BY <1>1, <1>3
  <2> QED BY <2>1, <1>4
<1>7. SubSeq(r, 1, 1) = b
  <2>1. \A i \in 1 .. 1 : r[i] \in S BY <1>5
  <2>2. /\ SubSeq(r, 1, 1) \in Seq(S)
        /\ Len(SubSeq(r, 1, 1)) = IF 1 <= 1 THEN 1 - 1 + 1 ELSE 0
        /\ \A i \in 1 .. 1 - 1 + 1 : SubSeq(r, 1, 1)[i] = r[1 + i - 1]
    BY <2>1, SubSeqProperties
  <2>3. Len(SubSeq(r, 1, 1)) = Len(b) /\ \A i \in 1 .. 1 : SubSeq(r, 1, 1)[i] = b[i]
    BY <2>2, <1>2, <1>5
  <2> QED BY <2>2, <2>3, <1>2, SeqEqual
<1>8. SubSeq(r, 3, Len(r)) = s
  <2>1. Len(r) \in Int /\ 3 \in Int BY <1>3, <1>5
  <2>2. \A i \in 3 .. Len(r) : r[i] \in S BY <1>4, <2>1, ElementOfSeq
  <2>3. /\ SubSeq(r, 3, Len(r)) \in Seq(S)
        /\ Len(SubSeq(r, 3, Len(r))) = IF 3 <= Len(r) THEN Len(r) - 3 + 1 ELSE 0
        /\ \A i \in 1 .. Len(r) - 3 + 1 : SubSeq(r, 3, Len(r))[i] = r[3 + i - 1]
    BY <2>1, <2>2, SubSeqProperties
  <2>4. Len(SubSeq(r, 3, Len(r))) = Len(s) BY <2>3, <1>3, <1>5
  <2>5. ASSUME NEW i \in 1 .. Len(s) PROVE SubSeq(r, 3, Len(r))[i] = s[i]
    <3>1. i \in 1 .. Len(r) - 3 + 1 /\ 3 + i - 1 = i + 2 BY <1>3, <1>5
    <3> QED BY <3>1, <2>3, <1>6
  <2> QED BY <2>3, <2>4, <2>5, SeqEqual
<1> QED BY <1>4, <1>5, <1>6, <1>7, <1>8 DEF r, a, b

-----------------------------------------------------------------------------
(* What stands behind a member of a sequence without repetitions, and what *)
(* moving members does to it.                                              *)

Behind(s, none, m) ==
    LET i == PositionOf(s, m)
    IN IF i < Len(s) THEN s[i + 1] ELSE none

LEMMA BehindAt ==
    ASSUME NEW S, NEW s \in Seq(S), IsInjective(s), NEW i \in 1 .. Len(s), NEW none
    PROVE  Behind(s, none, s[i]) = IF i < Len(s) THEN s[i + 1] ELSE none
<1>1. PositionOf(s, s[i]) = i BY PositionInInjective
<1> QED BY <1>1 DEF Behind

\* It is a member, if anything.
LEMMA BehindIn ==
    ASSUME NEW S, NEW s \in Seq(S), NEW none, NEW m
    PROVE  Behind(s, none, m) \in S \cup {none}
<1> DEFINE I == {k \in 1 .. Len(s) : s[k] = m}
           i == PositionOf(s, m)
<1>1. Len(s) \in Nat BY LenProperties
<1>2. i = IF I # {} THEN Min(I) ELSE 0 BY DEF PositionOf, SelectInSeq
<1>3. I # {} => Min(I) \in I
  <2>1. I \subseteq Nat OBVIOUS
  <2>2. I # {} => \E x \in I : \A y \in I : x <= y BY <2>1, LeastNat
  <2> QED BY <2>2 DEF Min
<1> HIDE DEF i
<1>4. i \in 0 .. Len(s) BY <1>1, <1>2, <1>3
<1>5. i < Len(s) => i + 1 \in 1 .. Len(s) BY <1>1, <1>4
<1>6. i < Len(s) => s[i + 1] \in S BY <1>5, ElementOfSeq
<1> QED BY <1>6 DEF Behind, i

\* Removing a member disturbs only what stands before it.
Removed(r, s, i) ==
    /\ IsInjective(r) /\ Len(r) = Len(s) - 1 /\ r[1] = s[1]
    /\ \A k \in 1 .. Len(r) : r[k] # s[i] /\ \E j \in 1 .. Len(s) : r[k] = s[j]
    /\ \A j \in 1 .. Len(s) : j # i => \E k \in 1 .. Len(r) : r[k] = s[j]
    /\ \A none : \A j \in 1 .. Len(s) : j \notin {i - 1, i} =>
         Behind(r, none, s[j]) = Behind(s, none, s[j])

LEMMA BehindRemoveAt ==
    ASSUME NEW S, NEW s \in Seq(S), IsInjective(s), NEW i \in 2 .. Len(s)
    PROVE  RemoveAt(s, i) \in Seq(S) /\ Removed(RemoveAt(s, i), s, i)
<1> DEFINE r == RemoveAt(s, i)
<1>1. Len(s) \in Nat /\ DOMAIN s = 1 .. Len(s) BY LenProperties
<1>2. i \in 1 .. Len(s) BY <1>1
<1>3. /\ r \in Seq(S) /\ Len(r) = Len(s) - 1
      /\ \A k \in 1 .. Len(s) - 1 : r[k] = IF k < i THEN s[k] ELSE s[k + 1]
  BY <1>2, RemoveAtProperties
<1> HIDE DEF r
<1>4. DOMAIN r = 1 .. Len(r) BY <1>3, LenProperties
<1>5. \A a, b \in 1 .. Len(s) : s[a] = s[b] => a = b BY <1>1 DEF IsInjective
<1>6. IsInjective(r)
  <2>1. SUFFICES ASSUME NEW a \in 1 .. Len(s) - 1, NEW b \in 1 .. Len(s) - 1, r[a] = r[b]
                 PROVE  a = b
    BY <1>3, <1>4 DEF IsInjective
  <2>2. a \in 1 .. Len(s) /\ a + 1 \in 1 .. Len(s) /\ b \in 1 .. Len(s) /\ b + 1 \in 1 .. Len(s)
    BY <1>1
  <2>3. CASE a < i /\ b < i BY <2>1, <2>2, <2>3, <1>3, <1>5
  <2>4. CASE a < i /\ ~(b < i) BY <2>1, <2>2, <2>4, <1>1, <1>3, <1>5
  <2>5. CASE ~(a < i) /\ b < i BY <2>1, <2>2, <2>5, <1>1, <1>3, <1>5
  <2>6. CASE ~(a < i) /\ ~(b < i) BY <2>1, <2>2, <2>6, <1>1, <1>3, <1>5
  <2> QED BY <2>3, <2>4, <2>5, <2>6
<1>7. r[1] = s[1] BY <1>1, <1>2, <1>3
<1>8. ASSUME NEW k \in 1 .. Len(r)
      PROVE  r[k] # s[i] /\ \E j \in 1 .. Len(s) : r[k] = s[j]
  <2>1. k \in 1 .. Len(s) - 1 /\ k \in 1 .. Len(s) /\ k + 1 \in 1 .. Len(s) BY <1>1, <1>3
  <2>2. CASE k < i
    <3>1. r[k] = s[k] /\ k # i BY <2>1, <2>2, <1>1, <1>3
    <3> QED BY <3>1, <2>1, <1>2, <1>5
  <2>3. CASE ~(k < i)
    <3>1. r[k] = s[k + 1] /\ k + 1 # i BY <2>1, <2>3, <1>1, <1>3
    <3> QED BY <3>1, <2>1, <1>2, <1>5
  <2> QED BY <2>2, <2>3
<1>9. ASSUME NEW j \in 1 .. Len(s), j # i
      PROVE  \E k \in 1 .. Len(r) : r[k] = s[j]
  <2>1. CASE j < i
    <3>1. j \in 1 .. Len(s) - 1 /\ j \in 1 .. Len(r) /\ r[j] = s[j] BY <2>1, <1>1, <1>2, <1>3
    <3> QED BY <3>1
  <2>2. CASE j > i
    <3>1. j - 1 \in 1 .. Len(s) - 1 /\ ~(j - 1 < i) /\ (j - 1) + 1 = j BY <2>2, <1>1, <1>2
    <3>2. j - 1 \in 1 .. Len(r) /\ r[j - 1] = s[j] BY <3>1, <1>1, <1>3
    <3> QED BY <3>2
  <2> QED BY <2>1, <2>2, <1>9, <1>1
<1>10. ASSUME NEW none, NEW j \in 1 .. Len(s), j \notin {i - 1, i}
       PROVE  Behind(r, none, s[j]) = Behind(s, none, s[j])
  <2>1. Behind(s, none, s[j]) = IF j < Len(s) THEN s[j + 1] ELSE none BY BehindAt
  <2>2. CASE j < i
    <3>1. /\ j \in 1 .. Len(r) /\ j \in 1 .. Len(s) - 1 /\ j < Len(s) - 1 /\ j + 1 < i
          /\ j + 1 \in 1 .. Len(s) - 1 /\ j < Len(s)
      BY <2>2, <1>10, <1>1, <1>2, <1>3
    <3>2. r[j] = s[j] /\ r[j + 1] = s[j + 1] BY <3>1, <2>2, <1>3
    <3>3. Behind(r, none, r[j]) = IF j < Len(r) THEN r[j + 1] ELSE none
      BY <3>1, <1>3, <1>6, BehindAt
    <3> QED BY <3>1, <3>2, <3>3, <2>1, <1>3
  <2>3. CASE j > i
    <3>1. /\ j - 1 \in 1 .. Len(r) /\ j - 1 \in 1 .. Len(s) - 1 /\ ~(j - 1 < i) /\ (j - 1) + 1 = j
          /\ (j - 1 < Len(r)) <=> (j < Len(s))
      BY <2>3, <1>1, <1>2, <1>3
    <3>2. r[j - 1] = s[j] BY <3>1, <1>3
    <3>3. Behind(r, none, r[j - 1]) = IF j - 1 < Len(r) THEN r[(j - 1) + 1] ELSE none
      BY <3>1, <1>3, <1>6, BehindAt
    <3>4. CASE j < Len(s)
      <4>1. j \in 1 .. Len(s) - 1 /\ ~(j < i) BY <3>4, <2>3, <1>1, <1>2
      <4>2. r[j] = s[j + 1] BY <4>1, <1>3
      <4> QED BY <4>2, <3>1, <3>2, <3>3, <3>4, <2>1
    <3>5. CASE ~(j < Len(s)) BY <3>1, <3>2, <3>3, <3>5, <2>1
    <3> QED BY <3>4, <3>5
  <2> QED BY <2>2, <2>3, <1>10, <1>1
<1>11. Removed(r, s, i) BY <1>3, <1>6, <1>7, <1>8, <1>9, <1>10 DEF Removed
<1> QED BY <1>3, <1>11 DEF r

\* Inserting a member disturbs only what stands before it.
Inserted(r, s, i, e) ==
    /\ IsInjective(r) /\ Len(r) = Len(s) + 1 /\ r[1] = s[1]
    /\ \A k \in 1 .. Len(r) : r[k] = e \/ \E j \in 1 .. Len(s) : r[k] = s[j]
    /\ \E k \in 1 .. Len(r) : r[k] = e
    /\ \A j \in 1 .. Len(s) : \E k \in 1 .. Len(r) : r[k] = s[j]
    /\ \A none : \A j \in 1 .. Len(s) : j # i - 1 =>
         Behind(r, none, s[j]) = Behind(s, none, s[j])

LEMMA BehindInsertAt ==
    ASSUME NEW S, NEW s \in Seq(S), IsInjective(s), NEW i \in 2 .. Len(s) + 1, NEW e \in S,
           \A k \in 1 .. Len(s) : s[k] # e
    PROVE  InsertAt(s, i, e) \in Seq(S) /\ Inserted(InsertAt(s, i, e), s, i, e)
<1> DEFINE r == InsertAt(s, i, e)
<1>1. Len(s) \in Nat /\ DOMAIN s = 1 .. Len(s) BY LenProperties
<1>2. i \in 1 .. Len(s) + 1 BY <1>1
<1>30. /\ r \in Seq(S) /\ Len(r) = Len(s) + 1
       /\ \A k \in 1 .. i - 1 : r[k] = s[k]
       /\ r[i] = e
       /\ \A k \in i .. Len(s) : r[k + 1] = s[k]
  BY <1>2, InsertAtProperties
<1> HIDE DEF r
<1>3. /\ r \in Seq(S) /\ Len(r) = Len(s) + 1
      /\ \A k \in 1 .. Len(s) + 1 : r[k] = IF k < i THEN s[k] ELSE IF k = i THEN e ELSE s[k - 1]
  <2>1. ASSUME NEW k \in 1 .. Len(s) + 1, k > i PROVE r[k] = s[k - 1]
    <3>1. k - 1 \in i .. Len(s) /\ (k - 1) + 1 = k BY <2>1, <1>1
    <3>2. r[(k - 1) + 1] = s[k - 1] BY <3>1, <1>30
    <3> QED BY <3>1, <3>2
  <2>2. ASSUME NEW k \in 1 .. Len(s) + 1, k < i PROVE r[k] = s[k] BY <2>2, <1>1, <1>30
  <2> QED BY <2>1, <2>2, <1>1, <1>30
<1>4. DOMAIN r = 1 .. Len(r) BY <1>3, LenProperties
<1>5. \A a, b \in 1 .. Len(s) : s[a] = s[b] => a = b BY <1>1 DEF IsInjective
<1>6. IsInjective(r)
  <2>1. SUFFICES ASSUME NEW a \in 1 .. Len(s) + 1, NEW b \in 1 .. Len(s) + 1, r[a] = r[b]
                 PROVE  a = b
    BY <1>3, <1>4 DEF IsInjective
  <2> DEFINE at(k) == IF k < i THEN k ELSE k - 1
  <2>2. \A k \in 1 .. Len(s) + 1 : k # i => at(k) \in 1 .. Len(s) /\ r[k] = s[at(k)] /\ r[k] # e
    BY <1>1, <1>3
  <2>3. r[i] = e BY <1>2, <1>3
  <2>4. CASE a = i BY <2>1, <2>2, <2>3, <2>4
  <2>5. CASE b = i BY <2>1, <2>2, <2>3, <2>5
  <2>6. CASE a # i /\ b # i
    <3>1. s[at(a)] = s[at(b)] BY <2>1, <2>2, <2>6
    <3>2. at(a) \in 1 .. Len(s) /\ at(b) \in 1 .. Len(s) BY <2>2, <2>6
    <3>3. at(a) = at(b) BY <3>1, <3>2, <1>5
    <3> QED BY <3>3, <2>6, <1>1
  <2> QED BY <2>4, <2>5, <2>6
<1>7. r[1] = s[1] BY <1>1, <1>2, <1>3
<1>8. ASSUME NEW k \in 1 .. Len(r)
      PROVE  r[k] = e \/ \E j \in 1 .. Len(s) : r[k] = s[j]
  <2>1. k \in 1 .. Len(s) + 1 BY <1>3
  <2>2. CASE k < i
    <3>1. k \in 1 .. Len(s) /\ r[k] = s[k] BY <2>1, <2>2, <1>1, <1>3
    <3> QED BY <3>1
  <2>3. CASE k = i BY <2>1, <2>3, <1>3, <1>1
  <2>4. CASE k > i
    <3>1. k - 1 \in 1 .. Len(s) /\ r[k] = s[k - 1] BY <2>1, <2>4, <1>1, <1>3
    <3> QED BY <3>1
  <2> QED BY <2>1, <2>2, <2>3, <2>4, <1>1
<1>9. \E k \in 1 .. Len(r) : r[k] = e
  <2>1. i \in 1 .. Len(r) /\ r[i] = e BY <1>1, <1>2, <1>3
  <2> QED BY <2>1
<1>10. ASSUME NEW j \in 1 .. Len(s)
       PROVE  \E k \in 1 .. Len(r) : r[k] = s[j]
  <2>1. CASE j < i
    <3>1. j \in 1 .. Len(r) /\ j \in 1 .. Len(s) + 1 /\ r[j] = s[j] BY <2>1, <1>1, <1>3
    <3> QED BY <3>1
  <2>2. CASE ~(j < i)
    <3>1. /\ j + 1 \in 1 .. Len(r) /\ j + 1 \in 1 .. Len(s) + 1 /\ j + 1 # i
          /\ ~(j + 1 < i) /\ (j + 1) - 1 = j
      BY <2>2, <1>1, <1>3
    <3>2. r[j + 1] = s[j] BY <3>1, <1>3
    <3> QED BY <3>1, <3>2
  <2> QED BY <2>1, <2>2
<1>11. ASSUME NEW none, NEW j \in 1 .. Len(s), j # i - 1
       PROVE  Behind(r, none, s[j]) = Behind(s, none, s[j])
  <2>1. Behind(s, none, s[j]) = IF j < Len(s) THEN s[j + 1] ELSE none BY BehindAt
  <2>2. CASE j < i
    <3>1. /\ j \in 1 .. Len(r) /\ j \in 1 .. Len(s) + 1 /\ j < Len(r)
          /\ j + 1 \in 1 .. Len(s) + 1 /\ j + 1 < i /\ j < Len(s)
      BY <2>2, <1>11, <1>1, <1>2, <1>3
    <3>2. r[j] = s[j] /\ r[j + 1] = s[j + 1] BY <3>1, <2>2, <1>3
    <3>3. Behind(r, none, r[j]) = IF j < Len(r) THEN r[j + 1] ELSE none
      BY <3>1, <1>3, <1>6, BehindAt
    <3> QED BY <3>1, <3>2, <3>3, <2>1
  <2>3. CASE ~(j < i)
    <3>1. /\ j + 1 \in 1 .. Len(r) /\ j + 1 \in 1 .. Len(s) + 1 /\ j + 1 # i
          /\ ~(j + 1 < i) /\ (j + 1) - 1 = j /\ (j + 1 < Len(r)) <=> (j < Len(s))
      BY <2>3, <1>1, <1>3
    <3>2. r[j + 1] = s[j] BY <3>1, <1>3
    <3>3. Behind(r, none, r[j + 1]) = IF j + 1 < Len(r) THEN r[(j + 1) + 1] ELSE none
      BY <3>1, <1>3, <1>6, BehindAt
    <3>4. CASE j < Len(s)
      <4>1. /\ (j + 1) + 1 \in 1 .. Len(s) + 1 /\ ~((j + 1) + 1 < i) /\ (j + 1) + 1 # i
            /\ ((j + 1) + 1) - 1 = j + 1
        BY <3>4, <2>3, <1>1, <1>2
      <4>2. r[(j + 1) + 1] = s[j + 1] BY <4>1, <1>3
      <4> QED BY <4>2, <3>1, <3>2, <3>3, <3>4, <2>1
    <3>5. CASE ~(j < Len(s)) BY <3>1, <3>2, <3>3, <3>5, <2>1
    <3> QED BY <3>4, <3>5
  <2> QED BY <2>2, <2>3
<1>12. Inserted(r, s, i, e) BY <1>3, <1>6, <1>7, <1>8, <1>9, <1>10, <1>11 DEF Inserted
<1> QED BY <1>3, <1>12 DEF r

\* Two members put behind the i-th stand between it and what stood behind it.
TwoBehind(s, i, d, e) == SubSeq(s, 1, i) \o <<d, e>> \o SubSeq(s, i + 1, Len(s))
Spliced(r, s, i, d, e) ==
    /\ IsInjective(r) /\ Len(r) = Len(s) + 2 /\ r[1] = s[1]
    /\ \A k \in 1 .. Len(r) : r[k] \in {d, e} \/ \E j \in 1 .. Len(s) : r[k] = s[j]
    /\ \E k \in 1 .. Len(r) : r[k] = d
    /\ \E k \in 1 .. Len(r) : r[k] = e
    /\ \A j \in 1 .. Len(s) : \E k \in 1 .. Len(r) : r[k] = s[j]
    /\ \A none : Behind(r, none, s[i]) = d /\ Behind(r, none, d) = e
    /\ \A none : Behind(r, none, e) = Behind(s, none, s[i])
    /\ \A none : \A j \in 1 .. Len(s) : j # i =>
         Behind(r, none, s[j]) = Behind(s, none, s[j])

LEMMA BehindSplice ==
    ASSUME NEW S, NEW s \in Seq(S), IsInjective(s), NEW i \in 1 .. Len(s),
           NEW d \in S, NEW e \in S, d # e,
           \A k \in 1 .. Len(s) : s[k] # d /\ s[k] # e
    PROVE  TwoBehind(s, i, d, e) \in Seq(S) /\ Spliced(TwoBehind(s, i, d, e), s, i, d, e)
<1> DEFINE c == <<d, e>>
           r == SubSeq(s, 1, i) \o c \o SubSeq(s, i + 1, Len(s))
<1>0. TwoBehind(s, i, d, e) = r BY DEF TwoBehind
<1>1. Len(s) \in Nat /\ DOMAIN s = 1 .. Len(s) BY LenProperties
<1>2. c \in Seq(S) /\ Len(c) = 2 /\ c[1] = d /\ c[2] = e OBVIOUS
<1> HIDE DEF c
<1>3. /\ r \in Seq(S) /\ Len(r) = Len(s) + Len(c)
      /\ \A k \in 1 .. i : r[k] = s[k]
      /\ \A k \in 1 .. Len(c) : r[i + k] = c[k]
      /\ \A k \in i + 1 .. Len(s) : r[k + Len(c)] = s[k]
  <2>1. i \in 0 .. Len(s) /\ c \in Seq(S) BY <1>1, <1>2
  <2> QED BY <2>1, SpliceProperties, Zenon
<1> HIDE DEF r
<1>4. Len(r) = Len(s) + 2 /\ DOMAIN r = 1 .. Len(r) BY <1>2, <1>3, LenProperties
<1>5. r[i + 1] = d /\ r[i + 2] = e
  <2>1. 1 \in 1 .. Len(c) /\ 2 \in 1 .. Len(c) BY <1>2
  <2> QED BY <2>1, <1>2, <1>3
<1> DEFINE at(k) == IF k <= i THEN k ELSE k - 2
           to(k) == IF k <= i THEN k ELSE k + 2
<1>6. ASSUME NEW k \in 1 .. Len(s)
      PROVE  to(k) \in 1 .. Len(r) /\ r[to(k)] = s[k]
  <2>1. CASE k <= i BY <2>1, <1>1, <1>3, <1>4
  <2>2. CASE ~(k <= i)
    <3>1. k \in i + 1 .. Len(s) /\ k + 2 \in 1 .. Len(r) BY <2>2, <1>1, <1>4
    <3> QED BY <3>1, <2>2, <1>2, <1>3
  <2> QED BY <2>1, <2>2
<1>7. ASSUME NEW k \in 1 .. Len(r), k # i + 1, k # i + 2
      PROVE  at(k) \in 1 .. Len(s) /\ to(at(k)) = k /\ r[k] = s[at(k)]
  <2>1. at(k) \in 1 .. Len(s) /\ to(at(k)) = k BY <1>7, <1>1, <1>4
  <2> QED BY <2>1, <1>6
<1>8. \A a, b \in 1 .. Len(s) : s[a] = s[b] => a = b BY <1>1 DEF IsInjective
<1>9. IsInjective(r)
  <2>1. SUFFICES ASSUME NEW a \in 1 .. Len(r), NEW b \in 1 .. Len(r), r[a] = r[b]
                 PROVE  a = b
    BY <1>4 DEF IsInjective
  <2> HIDE DEF at, to
  <2>2. CASE a \in {i + 1, i + 2} /\ b \in {i + 1, i + 2} BY <2>1, <2>2, <1>5
  <2>3. CASE a \in {i + 1, i + 2} /\ b \notin {i + 1, i + 2}
    <3>1. r[a] \in {d, e} /\ \E k \in 1 .. Len(s) : r[b] = s[k] BY <2>3, <1>5, <1>7
    <3> QED BY <3>1, <2>1
  <2>4. CASE a \notin {i + 1, i + 2} /\ b \in {i + 1, i + 2}
    <3>1. r[b] \in {d, e} /\ \E k \in 1 .. Len(s) : r[a] = s[k] BY <2>4, <1>5, <1>7
    <3> QED BY <3>1, <2>1
  <2>5. CASE a \notin {i + 1, i + 2} /\ b \notin {i + 1, i + 2}
    <3>1. /\ at(a) \in 1 .. Len(s) /\ to(at(a)) = a /\ r[a] = s[at(a)]
          /\ at(b) \in 1 .. Len(s) /\ to(at(b)) = b /\ r[b] = s[at(b)]
      BY <2>5, <1>7
    <3>2. at(a) = at(b) BY <3>1, <2>1, <1>8
    <3> QED BY <3>1, <3>2
  <2> QED BY <2>2, <2>3, <2>4, <2>5
<1>10. r[1] = s[1] BY <1>1, <1>3
<1>11. \A k \in 1 .. Len(r) : r[k] \in {d, e} \/ \E j \in 1 .. Len(s) : r[k] = s[j]
  <2> HIDE DEF at, to
  <2> QED BY <1>5, <1>7
<1>12. i + 1 \in 1 .. Len(r) /\ i + 2 \in 1 .. Len(r) /\ i \in 1 .. Len(r) /\ i < Len(r)
       /\ i + 1 < Len(r) /\ (i + 1) + 1 = i + 2
  BY <1>1, <1>4
<1>13. \A j \in 1 .. Len(s) : \E k \in 1 .. Len(r) : r[k] = s[j]
  <2> HIDE DEF at, to
  <2> QED BY <1>6
<1>14. ASSUME NEW none, NEW k \in 1 .. Len(r)
       PROVE  Behind(r, none, r[k]) = IF k < Len(r) THEN r[k + 1] ELSE none
  BY <1>3, <1>9, BehindAt
<1>15. ASSUME NEW none, NEW k \in 1 .. Len(s)
       PROVE  Behind(s, none, s[k]) = IF k < Len(s) THEN s[k + 1] ELSE none
  BY BehindAt
<1>16. r[i] = s[i] BY <1>1, <1>3
<1>17. \A none : Behind(r, none, s[i]) = d BY <1>5, <1>12, <1>14, <1>16
<1>18. \A none : Behind(r, none, d) = e BY <1>5, <1>12, <1>14
<1>19. ASSUME NEW none PROVE Behind(r, none, e) = Behind(s, none, s[i])
  <2>1. Behind(r, none, e) = IF i + 2 < Len(r) THEN r[(i + 2) + 1] ELSE none BY <1>5, <1>12, <1>14
  <2>2. CASE i < Len(s)
    <3>1. i + 1 \in 1 .. Len(s) /\ to(i + 1) = (i + 2) + 1 /\ i + 2 < Len(r) BY <2>2, <1>1, <1>4
    <3>2. r[(i + 2) + 1] = s[i + 1] BY <3>1, <1>6
    <3> QED BY <3>1, <3>2, <2>1, <2>2, <1>15
  <2>3. CASE ~(i < Len(s))
    <3>1. ~(i + 2 < Len(r)) BY <2>3, <1>1, <1>4
    <3> QED BY <3>1, <2>1, <2>3, <1>15
  <2> QED BY <2>2, <2>3
<1>20. ASSUME NEW none, NEW j \in 1 .. Len(s), j # i
       PROVE  Behind(r, none, s[j]) = Behind(s, none, s[j])
  <2>1. Behind(r, none, s[j]) = IF to(j) < Len(r) THEN r[to(j) + 1] ELSE none
    <3>1. to(j) \in 1 .. Len(r) /\ r[to(j)] = s[j] BY <1>6
    <3> HIDE DEF to
    <3> QED BY <3>1, <1>14
  <2>2. (to(j) < Len(r)) <=> (j < Len(s)) BY <1>20, <1>1, <1>4
  <2>3. CASE j < Len(s)
    <3>1. j + 1 \in 1 .. Len(s) /\ to(j + 1) = to(j) + 1 BY <2>3, <1>20, <1>1
    <3>2. r[to(j) + 1] = s[j + 1] BY <3>1, <1>6
    <3> QED BY <3>2, <2>1, <2>2, <2>3, <1>15
  <2>4. CASE ~(j < Len(s)) BY <2>1, <2>2, <2>4, <1>15
  <2> QED BY <2>3, <2>4
<1>21. (\E k \in 1 .. Len(r) : r[k] = d) /\ (\E k \in 1 .. Len(r) : r[k] = e) BY <1>5, <1>12
<1>22. r \in Seq(S) BY <1>3
<1>23. Spliced(r, s, i, d, e)
  BY <1>4, <1>9, <1>10, <1>11, <1>13, <1>17, <1>18, <1>19, <1>20, <1>21 DEF Spliced
<1> QED BY <1>22, <1>23, <1>0

-----------------------------------------------------------------------------
(* Recursion.  A function is defined by what it is at every argument, given *)
(* what it is at arguments of lower rank.                                  *)

Recursion(F, D, R, rank) ==
    /\ F \in [[D -> R] -> [D -> R]]
    /\ \A f, g \in [D -> R] : \A x \in D :
         (\A y \in D : rank[y] < rank[x] => f[y] = g[y]) => F[f][x] = F[g][x]

\* Function h is the one F defines, below rank k.
Solves(h, F, D, rank, k) == \A x \in D : rank[x] < k => F[h][x] = h[x]

LEMMA SolutionsAgree ==
    ASSUME NEW D, NEW R, NEW rank \in [D -> Nat], NEW F, Recursion(F, D, R, rank),
           NEW g \in [D -> R], NEW h \in [D -> R], NEW j \in Nat, NEW k \in Nat,
           Solves(g, F, D, rank, j), Solves(h, F, D, rank, k)
    PROVE  \A x \in D : rank[x] < j /\ rank[x] < k => g[x] = h[x]
<1> DEFINE T == {r \in Nat : \E x \in D : rank[x] = r /\ r < j /\ r < k /\ g[x] # h[x]}
<1>1. SUFFICES ASSUME T # {} PROVE FALSE OBVIOUS
<1>2. T \subseteq Nat OBVIOUS
<1>3. PICK r \in T : \A s \in T : r <= s
  <2> HIDE DEF T
  <2> QED BY <1>1, <1>2, LeastNat
<1>4. PICK x \in D : rank[x] = r /\ r < j /\ r < k /\ g[x] # h[x] BY <1>3
<1>5. ASSUME NEW y \in D, rank[y] < rank[x] PROVE g[y] = h[y]
  <2>1. rank[y] \in Nat /\ rank[y] < r BY <1>4, <1>5
  <2>2. rank[y] \notin T BY <1>2, <1>3, <2>1
  <2>3. rank[y] < j /\ rank[y] < k BY <1>2, <1>3, <1>4, <2>1
  <2> QED BY <2>1, <2>2, <2>3
<1>6. F[g][x] = F[h][x] BY <1>5 DEF Recursion
<1> QED BY <1>4, <1>6 DEF Solves

LEMMA SolvedBelow ==
    ASSUME NEW D, NEW R, R # {}, NEW rank \in [D -> Nat], NEW F, Recursion(F, D, R, rank),
           NEW k \in Nat
    PROVE  \E h \in [D -> R] : Solves(h, F, D, rank, k)
<1> DEFINE T == {j \in Nat : ~ \E h \in [D -> R] : Solves(h, F, D, rank, j)}
<1>1. SUFFICES ASSUME T # {} PROVE FALSE OBVIOUS
<1>2. T \subseteq Nat OBVIOUS
<1>3. PICK j \in T : \A s \in T : j <= s
  <2> HIDE DEF T
  <2> QED BY <1>1, <1>2, LeastNat
<1>4. j # 0
  <2>1. PICK r \in R : TRUE OBVIOUS
  <2>2. [x \in D |-> r] \in [D -> R] BY <2>1
  <2>3. Solves([x \in D |-> r], F, D, rank, 0) BY DEF Solves
  <2> QED BY <1>3, <2>2, <2>3
<1>5. j - 1 \in Nat /\ j - 1 \notin T BY <1>2, <1>3, <1>4
<1>6. PICK h \in [D -> R] : Solves(h, F, D, rank, j - 1) BY <1>5
<1>7. F[h] \in [D -> R] BY DEF Recursion
<1>8. ASSUME NEW x \in D, rank[x] < j PROVE F[F[h]][x] = F[h][x]
  <2>1. ASSUME NEW y \in D, rank[y] < rank[x] PROVE F[h][y] = h[y]
    <3>1. rank[y] < j - 1 BY <1>2, <1>3, <1>8, <2>1
    <3> QED BY <1>6, <3>1 DEF Solves
  <2> QED BY <1>7, <2>1 DEF Recursion
<1>9. Solves(F[h], F, D, rank, j) BY <1>8 DEF Solves
<1> QED BY <1>3, <1>7, <1>9

\* Such a definition has a solution.
LEMMA RecursionSolved ==
    ASSUME NEW D, NEW R, R # {}, NEW rank \in [D -> Nat], NEW F, Recursion(F, D, R, rank)
    PROVE  \E f \in [D -> R] : f = F[f]
<1> DEFINE At(k) == CHOOSE h \in [D -> R] : Solves(h, F, D, rank, k)
           f == [x \in D |-> At(rank[x] + 1)[x]]
<1>1. ASSUME NEW k \in Nat PROVE At(k) \in [D -> R] /\ Solves(At(k), F, D, rank, k)
  BY SolvedBelow
<1>2. ASSUME NEW x \in D PROVE f[x] = At(rank[x] + 1)[x] OBVIOUS
<1>3. f \in [D -> R]
  <2>1. ASSUME NEW x \in D PROVE f[x] \in R
    <3>1. rank[x] + 1 \in Nat OBVIOUS
    <3>2. At(rank[x] + 1) \in [D -> R] BY <1>1, <3>1
    <3> HIDE DEF At
    <3> QED BY <3>2
  <2> QED BY <2>1
<1> HIDE DEF At, f
<1>4. ASSUME NEW x \in D PROVE F[f][x] = f[x]
  <2>1. rank[x] + 1 \in Nat OBVIOUS
  <2>2. PICK h \in [D -> R] : h = At(rank[x] + 1) /\ Solves(h, F, D, rank, rank[x] + 1)
    BY <1>1, <2>1
  <2>3. ASSUME NEW y \in D, rank[y] < rank[x] PROVE f[y] = h[y]
    <3>1. rank[y] + 1 \in Nat OBVIOUS
    <3>2. At(rank[y] + 1) \in [D -> R] /\ Solves(At(rank[y] + 1), F, D, rank, rank[y] + 1)
      BY <1>1, <3>1
    <3>3. At(rank[y] + 1)[y] = h[y]
      <4>1. rank[y] < rank[y] + 1 /\ rank[y] < rank[x] + 1 BY <2>3
      <4> QED BY <2>1, <2>2, <3>1, <3>2, <4>1, SolutionsAgree
    <3> QED BY <1>2, <3>3
  <2>4. F[f][x] = F[h][x] BY <1>3, <2>3 DEF Recursion
  <2>5. F[h][x] = h[x] BY <2>2 DEF Solves
  <2> QED BY <1>2, <2>2, <2>4, <2>5
<1>5. F[f] \in [D -> R] BY <1>3 DEF Recursion
<1>6. f = F[f] BY <1>3, <1>4, <1>5
<1> QED BY <1>3, <1>6

\* A sum of integers is an integer.
LEMMA SumIsInt ==
    ASSUME NEW f, IsFiniteSet(DOMAIN f), \A x \in DOMAIN f : f[x] \in Int
    PROVE  SumFunction(f) \in Int
<1> DEFINE D == SUBSET DOMAIN f
           one(s) == CHOOSE x \in s : TRUE
           sum(g, s) == IF s = {} THEN 0 ELSE f[one(s)] + g[s \ {one(s)}]
           rank == [s \in D |-> Cardinality(s)]
           F == [g \in [D -> Int] |-> [s \in D |-> sum(g, s)]]
           iter == CHOOSE g : g = [s \in D |-> sum(g, s)]
<1>1. SumFunction(f) = iter[DOMAIN f]
  BY DEF SumFunction, SumFunctionOnSet, FoldFunctionOnSet, MapThenFoldSet
<1>2. ASSUME NEW s \in D
      PROVE  IsFiniteSet(s) /\ Cardinality(s) \in Nat
  BY FS_Subset, FS_CardinalityType
<1>3. ASSUME NEW s \in D, s # {}
      PROVE  /\ one(s) \in DOMAIN f /\ s \ {one(s)} \in D
             /\ Cardinality(s \ {one(s)}) < Cardinality(s)
  <2>1. one(s) \in s BY <1>3
  <2>2. Cardinality(s \ {one(s)}) = Cardinality(s) - 1
    <3> HIDE DEF one
    <3> QED BY <1>2, <2>1, FS_RemoveElement
  <2> QED BY <1>2, <2>1, <2>2
<1>4. rank \in [D -> Nat] BY <1>2
<1> HIDE DEF one, D
<1>5. ASSUME NEW g \in [D -> Int], NEW s \in D PROVE sum(g, s) \in Int
  <2>1. CASE s = {} BY <2>1
  <2>2. CASE s # {}
    <3>1. f[one(s)] \in Int BY <1>3, <2>2
    <3>2. g[s \ {one(s)}] \in Int BY <1>3, <2>2
    <3> QED BY <2>2, <3>1, <3>2
  <2> QED BY <2>1, <2>2
<1>6. Recursion(F, D, Int, rank)
  <2>1. F \in [[D -> Int] -> [D -> Int]]
    <3>1. ASSUME NEW g \in [D -> Int] PROVE [s \in D |-> sum(g, s)] \in [D -> Int]
      <4> HIDE DEF sum
      <4> QED BY <1>5
    <3> HIDE DEF sum
    <3> QED BY <3>1
  <2>2. ASSUME NEW g \in [D -> Int], NEW h \in [D -> Int], NEW s \in D,
               \A t \in D : rank[t] < rank[s] => g[t] = h[t]
        PROVE  F[g][s] = F[h][s]
    <3>1. sum(g, s) = sum(h, s)
      <4>1. CASE s = {} BY <4>1
      <4>2. CASE s # {}
        <5>1. g[s \ {one(s)}] = h[s \ {one(s)}] BY <1>3, <2>2, <4>2
        <5> QED BY <4>2, <5>1
      <4> QED BY <4>1, <4>2
    <3> HIDE DEF sum
    <3> QED BY <3>1
  <2> HIDE DEF F, rank
  <2> QED BY <2>1, <2>2 DEF Recursion
<1>7. iter = [s \in D |-> sum(iter, s)]
  <2>1. PICK g \in [D -> Int] : g = F[g]
    <3> HIDE DEF F, rank
    <3> QED BY <1>4, <1>6, RecursionSolved
  <2>2. g = [s \in D |-> sum(g, s)]
    <3> HIDE DEF sum
    <3> QED BY <2>1
  <2> HIDE DEF sum
  <2> QED BY <2>2
<1>8. ASSUME NEW s \in D PROVE iter[s] = sum(iter, s)
  <2> HIDE DEF iter, sum
  <2> QED BY <1>7
<1> HIDE DEF iter
<1> DEFINE T == {r \in Nat : \E s \in D : Cardinality(s) = r /\ iter[s] \notin Int}
<1>9. T = {}
  <2>1. SUFFICES ASSUME T # {} PROVE FALSE OBVIOUS
  <2>2. T \subseteq Nat OBVIOUS
  <2>3. PICK r \in T : \A q \in T : r <= q
    <3> HIDE DEF T
    <3> QED BY <2>1, <2>2, LeastNat
  <2>4. PICK s \in D : Cardinality(s) = r /\ iter[s] \notin Int BY <2>3
  <2>5. s # {} BY <1>8, <2>4
  <2>6. s \ {one(s)} \in D /\ Cardinality(s \ {one(s)}) < r /\ f[one(s)] \in Int BY <1>3, <2>4, <2>5
  <2>7. Cardinality(s \ {one(s)}) \in Nat BY <1>2, <2>6
  <2>8. iter[s \ {one(s)}] \in Int
    <3>1. Cardinality(s \ {one(s)}) \notin T BY <2>2, <2>3, <2>6, <2>7
    <3> QED BY <2>6, <2>7, <3>1
  <2> QED BY <1>8, <2>4, <2>5, <2>6, <2>8
<1>10. DOMAIN f \in D /\ Cardinality(DOMAIN f) \in Nat BY <1>2 DEF D
<1> QED BY <1>1, <1>9, <1>10

=============================================================================
