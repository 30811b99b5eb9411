------------------------ MODULE KudeyarSelect_proofs ------------------------
(***************************************************************************)
(* Proofs about KudeyarSelect, for every set of blocks and inputs: what    *)
(* matching and folding make of a graph is again a graph of the selector's *)
(* types without cycles, so selection always finds a node whose users are  *)
(* all selected, and the machine an instruction whose operands are there.  *)
(***************************************************************************)
EXTENDS KudeyarSelect, KudeyarSequences_proofs, FiniteSetTheorems

-----------------------------------------------------------------------------
(* Graphs.                                                                 *)

Linked(d) == IsFiniteSet(DOMAIN d) /\ \A n \in DOMAIN d : OperandNodes(d, n) \subseteq DOMAIN d
Closed(d, S) == \A n \in S : OperandNodes(d, n) \subseteq S

(* What a node depends on (the recursion of Reached) is the least set of    *)
(* nodes that has the node and is closed under operands.                   *)
LEMMA ReachedIsLeast ==
    ASSUME NEW d, Linked(d), NEW n \in DOMAIN d
    PROVE  /\ n \in Reached(d, n) /\ Reached(d, n) \subseteq DOMAIN d
           /\ Closed(d, Reached(d, n))
           /\ \A S \in SUBSET DOMAIN d : Closed(d, S) /\ n \in S => Reached(d, n) \subseteq S
<1> DEFINE N == DOMAIN d
           D == SUBSET N
           more(s) == s \cup UNION {OperandNodes(d, m) : m \in s}
           step(g, s) == IF more(s) = s THEN s ELSE g[more(s)]
           least(s) == {m \in N : \A S \in D : Closed(d, S) /\ s \subseteq S => m \in S}
           closure == CHOOSE g : g = [s \in D |-> step(g, s)]
<1>1. Reached(d, n) = closure[{n}] BY DEF Reached
<1>2. ASSUME NEW s \in D
      PROVE  /\ more(s) \in D /\ s \subseteq more(s)
             /\ more(s) = s <=> Closed(d, s)
             /\ \A S \in D : Closed(d, S) /\ s \subseteq S => more(s) \subseteq S
  BY DEF Linked, Closed
<1>3. ASSUME NEW s \in D
      PROVE  /\ more(s) = s => least(s) = s
             /\ least(more(s)) = least(s)
  <2>1. ASSUME more(s) = s PROVE least(s) = s
    <3>1. Closed(d, s) BY <1>2, <2>1
    <3> QED BY <3>1
  <2>2. \A S \in D : s \subseteq S /\ Closed(d, S) <=> more(s) \subseteq S /\ Closed(d, S)
    <3> HIDE DEF more
    <3> QED BY <1>2
  <2>3. least(more(s)) = least(s)
    <3> HIDE DEF more
    <3> QED BY <2>2
  <2> QED BY <2>1, <2>3
<1>4. closure = [s \in D |-> step(closure, s)]
  <2> DEFINE g == [s \in D |-> least(s)]
  <2>1. ASSUME NEW s \in D PROVE step(g, s) = least(s)
    <3>1. more(s) \in D BY <1>2
    <3> HIDE DEF more, least
    <3> QED BY <1>3, <3>1
  <2>2. g = [s \in D |-> step(g, s)]
    <3> HIDE DEF step, least
    <3> QED BY <2>1
  <2> HIDE DEF g, step
  <2> QED BY <2>2
<1>5. ASSUME NEW s \in D PROVE closure[s] = step(closure, s)
  <2> HIDE DEF closure, step
  <2> QED BY <1>4
<1> HIDE DEF closure, least
<1> DEFINE rest(s) == Cardinality(N) - Cardinality(s)
<1>6. ASSUME NEW s \in D
      PROVE  rest(s) \in Nat /\ (more(s) # s => rest(more(s)) \in Nat /\ rest(more(s)) < rest(s))
  <2>1. ASSUME NEW t \in D
        PROVE  IsFiniteSet(t) /\ Cardinality(t) \in Nat /\ Cardinality(t) <= Cardinality(N)
    BY FS_Subset, FS_CardinalityType DEF Linked
  <2>2. Cardinality(N) \in Nat BY <2>1
  <2>3. more(s) \in D /\ s \subseteq more(s) BY <1>2
  <2> HIDE DEF more
  <2>4. Cardinality(s) <= Cardinality(more(s))
        /\ (Cardinality(s) = Cardinality(more(s)) => s = more(s))
    BY <2>1, <2>3, FS_Subset
  <2> QED BY <2>1, <2>2, <2>3, <2>4
<1> HIDE DEF rest
<1> DEFINE T == {r \in Nat : \E s \in D : rest(s) = r /\ closure[s] # least(s)}
<1>7. T = {}
  <2>1. SUFFICES ASSUME T # {} PROVE FALSE OBVIOUS
  <2>2. T \subseteq Nat OBVIOUS
  <2>3. PICK r \in T : \A q \in T : r <= q
    <3> HIDE DEF T
    <3> QED BY <2>1, <2>2, LeastNat
  <2>4. PICK s \in D : rest(s) = r /\ closure[s] # least(s) BY <2>3
  <2>5. more(s) # s BY <1>3, <1>5, <2>4
  <2>6. more(s) \in D /\ rest(more(s)) \in Nat /\ rest(more(s)) < r BY <1>2, <1>6, <2>4, <2>5
  <2> HIDE DEF more
  <2>7. closure[more(s)] = least(more(s))
    <3>1. rest(more(s)) \notin T BY <2>2, <2>3, <2>6
    <3> QED BY <2>6, <3>1
  <2>8. closure[s] = closure[more(s)] BY <1>5, <2>5
  <2> QED BY <1>3, <2>4, <2>7, <2>8
<1>8. Reached(d, n) = least({n})
  <2>1. {n} \in D /\ rest({n}) \in Nat BY <1>6
  <2> QED BY <1>1, <1>7, <2>1
<1>9. Reached(d, n) = {m \in N : \A S \in D : Closed(d, S) /\ n \in S => m \in S}
  BY <1>8 DEF least
<1>10. Closed(d, Reached(d, n))
  <2> SUFFICES ASSUME NEW m \in Reached(d, n), NEW o \in OperandNodes(d, m)
               PROVE  o \in Reached(d, n)
    BY DEF Closed
  <2>1. o \in N BY <1>9 DEF Linked
  <2>2. ASSUME NEW S \in D, Closed(d, S), n \in S PROVE o \in S
    <3>1. m \in S BY <1>9, <2>2
    <3> QED BY <2>2, <3>1 DEF Closed
  <2> QED BY <1>9, <2>1, <2>2
<1> QED BY <1>9, <1>10

\* What a node depends on depends on nothing more.
LEMMA ReachedFromReached ==
    ASSUME NEW d, Linked(d), NEW n \in DOMAIN d, NEW m \in Reached(d, n)
    PROVE  m \in DOMAIN d /\ Reached(d, m) \subseteq Reached(d, n)
<1>1. /\ Reached(d, n) \in SUBSET DOMAIN d /\ Closed(d, Reached(d, n)) BY ReachedIsLeast
<1>2. m \in DOMAIN d BY <1>1
<1> QED BY <1>1, <1>2, ReachedIsLeast

LEMMA ReachedFromOperand ==
    ASSUME NEW d, Linked(d), NEW n \in DOMAIN d, NEW m \in OperandNodes(d, n)
    PROVE  m \in DOMAIN d /\ m \in Reached(d, n) /\ Reached(d, m) \subseteq Reached(d, n)
<1>1. n \in Reached(d, n) /\ Closed(d, Reached(d, n)) BY ReachedIsLeast
<1>2. m \in Reached(d, n) BY <1>1 DEF Closed
<1> QED BY <1>2, ReachedFromReached

Acyclic(d) == \A n \in DOMAIN d : \A m \in OperandNodes(d, n) : n \notin Reached(d, m)

\* What an operand depends on is strictly less than what its user does.
Depth(d, n) == Cardinality(Reached(d, n))

LEMMA DepthOfOperand ==
    ASSUME NEW d, Linked(d), Acyclic(d), NEW n \in DOMAIN d, NEW m \in OperandNodes(d, n)
    PROVE  /\ Depth(d, n) \in Nat /\ Depth(d, m) \in Nat
           /\ Depth(d, m) < Depth(d, n)
<1>1. m \in DOMAIN d /\ Reached(d, m) \subseteq Reached(d, n) BY ReachedFromOperand
<1>2. n \in Reached(d, n) /\ n \notin Reached(d, m) BY ReachedIsLeast DEF Acyclic
<1>3. Reached(d, n) \in SUBSET DOMAIN d /\ Reached(d, m) \in SUBSET DOMAIN d BY <1>1, ReachedIsLeast
<1>4. IsFiniteSet(Reached(d, n)) /\ IsFiniteSet(Reached(d, m)) BY <1>3, FS_Subset DEF Linked
<1>5. Cardinality(Reached(d, n)) \in Nat /\ Cardinality(Reached(d, m)) \in Nat
  BY <1>4, FS_CardinalityType
<1>6. /\ Cardinality(Reached(d, m)) <= Cardinality(Reached(d, n))
      /\ Cardinality(Reached(d, n)) = Cardinality(Reached(d, m)) => Reached(d, m) = Reached(d, n)
  BY <1>1, <1>4, FS_Subset
<1> QED BY <1>2, <1>5, <1>6 DEF Depth

(* A graph stays without cycles when node n gets operands among nodes that  *)
(* do not reach it, and other nodes, none of those, use n instead.         *)
LEMMA RewiringKeepsAcyclic ==
    ASSUME NEW d, Linked(d), Acyclic(d), NEW e, Linked(e), DOMAIN e = DOMAIN d,
           NEW n \in DOMAIN d, NEW N \in SUBSET DOMAIN d, Closed(d, N), n \notin N,
           OperandNodes(e, n) \subseteq N,
           \A m \in DOMAIN d \ {n} : OperandNodes(e, m) \subseteq OperandNodes(d, m) \cup {n},
           \A m \in N : OperandNodes(e, m) \subseteq OperandNodes(d, m)
    PROVE  Acyclic(e)
<1>1. Closed(e, N) BY DEF Closed
<1>2. Closed(e, N \cup {n}) BY <1>1 DEF Closed
<1> SUFFICES ASSUME NEW x \in DOMAIN d, NEW y \in OperandNodes(e, x) PROVE x \notin Reached(e, y)
  BY DEF Acyclic
<1>3. y \in DOMAIN d BY DEF Linked
<1>4. CASE y \in N
  <2>1. x \notin N => x \notin Reached(e, y) BY <1>1, <1>3, <1>4, ReachedIsLeast
  <2>2. ASSUME x \in N PROVE x \notin Reached(e, y)
    <3>1. y \in OperandNodes(d, x) BY <2>2
    <3>2. x \notin Reached(d, y) BY <3>1 DEF Acyclic
    <3>3. Reached(d, y) \subseteq N BY <1>3, <1>4, ReachedIsLeast
    <3>4. /\ y \in Reached(d, y) /\ Reached(d, y) \in SUBSET DOMAIN d
          /\ Closed(d, Reached(d, y))
      BY <1>3, ReachedIsLeast
    <3>5. Closed(e, Reached(d, y)) BY <3>3, <3>4 DEF Closed
    <3>6. Reached(e, y) \subseteq Reached(d, y) BY <1>3, <3>4, <3>5, ReachedIsLeast
    <3> QED BY <3>2, <3>6
  <2> QED BY <2>1, <2>2
<1>5. CASE y \notin N
  <2>1. x # n /\ x \notin N BY <1>5, <1>1 DEF Closed
  <2>2. CASE y = n
    <3>1. Reached(e, y) \subseteq N \cup {n} BY <1>2, <1>3, <2>2, ReachedIsLeast
    <3> QED BY <2>1, <3>1
  <2>3. CASE y # n
    <3>1. y \in OperandNodes(d, x) BY <2>1, <2>3
    <3>2. x \notin Reached(d, y) BY <3>1 DEF Acyclic
    <3>3. /\ y \in Reached(d, y) /\ Reached(d, y) \in SUBSET DOMAIN d
          /\ Closed(d, Reached(d, y))
      BY <1>3, ReachedIsLeast
    <3>4. Closed(e, Reached(d, y) \cup N \cup {n})
      <4> SUFFICES ASSUME NEW m \in Reached(d, y) \cup N \cup {n}, NEW o \in OperandNodes(e, m)
                   PROVE  o \in Reached(d, y) \cup N \cup {n}
        BY DEF Closed
      <4>1. CASE m \in N \cup {n} BY <1>2, <4>1 DEF Closed
      <4>2. CASE m \notin N \cup {n}
        <5>1. o \in OperandNodes(d, m) \cup {n} BY <3>3, <4>2
        <5> QED BY <3>3, <4>2, <5>1 DEF Closed
      <4> QED BY <4>1, <4>2
    <3>5. Reached(e, y) \subseteq Reached(d, y) \cup N \cup {n}
      BY <1>3, <3>3, <3>4, ReachedIsLeast
    <3> QED BY <2>1, <3>2, <3>5
  <2> QED BY <2>2, <2>3
<1> QED BY <1>4, <1>5

-----------------------------------------------------------------------------
(* Matching of addresses.                                                  *)

\* Half of int16_t's values are negative.
LEMMA SpanEven == \E k \in Nat : k > 0 /\ Span(2) = 2 * k
<1>1. Byte \in {2, 4, 8, 16, 32, 64, 128, 256} BY ByteAssumption
<1>2. CASE Byte = 2 BY <1>2, 2 ^ 2 = 2 * 2 DEF Span
<1>3. CASE Byte = 4 BY <1>3, 4 ^ 2 = 2 * 8 DEF Span
<1>4. CASE Byte = 8 BY <1>4, 8 ^ 2 = 2 * 32 DEF Span
<1>5. CASE Byte = 16 BY <1>5, 16 ^ 2 = 2 * 128 DEF Span
<1>6. CASE Byte = 32 BY <1>6, 32 ^ 2 = 2 * 512 DEF Span
<1>7. CASE Byte = 64 BY <1>7, 64 ^ 2 = 2 * 2048 DEF Span
<1>8. CASE Byte = 128 BY <1>8, 128 ^ 2 = 2 * 8192 DEF Span
<1>9. CASE Byte = 256 BY <1>9, 256 ^ 2 = 2 * 32768 DEF Span
<1> QED BY <1>1, <1>2, <1>3, <1>4, <1>5, <1>6, <1>7, <1>8, <1>9

\* Any number of bytes that is asked about has a positive number of values.
LEMMA SpanIsNat == \A k \in 0 .. 4 : Span(k) \in Nat /\ Span(k) > 0
<1> SUFFICES ASSUME NEW k \in 0 .. 4 PROVE Byte ^ k \in Int /\ Byte ^ k > 0 BY DEF Span
<1>1. k \in {0, 1, 2, 3, 4} OBVIOUS
<1>2. Byte \in {2, 4, 8, 16, 32, 64, 128, 256} BY ByteAssumption
<1>3. Byte ^ k \in Int BY <1>2
<1>4. Byte ^ 0 > 0
  <2>1. 2 ^ 0 > 0 /\ 4 ^ 0 > 0 /\ 8 ^ 0 > 0 /\ 16 ^ 0 > 0 OBVIOUS
  <2>2. 32 ^ 0 > 0 /\ 64 ^ 0 > 0 /\ 128 ^ 0 > 0 /\ 256 ^ 0 > 0 OBVIOUS
  <2> QED BY <1>2, <2>1, <2>2
<1>5. Byte ^ 1 > 0
  <2>1. 2 ^ 1 > 0 /\ 4 ^ 1 > 0 /\ 8 ^ 1 > 0 /\ 16 ^ 1 > 0 OBVIOUS
  <2>2. 32 ^ 1 > 0 /\ 64 ^ 1 > 0 /\ 128 ^ 1 > 0 /\ 256 ^ 1 > 0 OBVIOUS
  <2> QED BY <1>2, <2>1, <2>2
<1>6. Byte ^ 2 > 0
  <2>1. 2 ^ 2 > 0 /\ 4 ^ 2 > 0 /\ 8 ^ 2 > 0 /\ 16 ^ 2 > 0 OBVIOUS
  <2>2. 32 ^ 2 > 0 /\ 64 ^ 2 > 0 /\ 128 ^ 2 > 0 /\ 256 ^ 2 > 0 OBVIOUS
  <2> QED BY <1>2, <2>1, <2>2
<1>7. Byte ^ 3 > 0
  <2>1. 2 ^ 3 > 0 /\ 4 ^ 3 > 0 /\ 8 ^ 3 > 0 /\ 16 ^ 3 > 0 OBVIOUS
  <2>2. 32 ^ 3 > 0 /\ 64 ^ 3 > 0 /\ 128 ^ 3 > 0 /\ 256 ^ 3 > 0 OBVIOUS
  <2> QED BY <1>2, <2>1, <2>2
<1>8. Byte ^ 4 > 0
  <2>1. 2 ^ 4 > 0 /\ 4 ^ 4 > 0 /\ 8 ^ 4 > 0 /\ 16 ^ 4 > 0 OBVIOUS
  <2>2. 32 ^ 4 > 0 /\ 64 ^ 4 > 0 /\ 128 ^ 4 > 0 /\ 256 ^ 4 > 0 OBVIOUS
  <2> QED BY <1>2, <2>1, <2>2
<1> QED BY <1>1, <1>3, <1>4, <1>5, <1>6, <1>7, <1>8

LEMMA RegisterIsInt == Register \subseteq Int
<1>1. Span(4) \in Int BY SpanIsNat
<1> QED BY <1>1 DEF Register

\* Whatever is added to it, a displacement fits.
LEMMA Int16InDisps == ASSUME NEW v \in Int PROVE Int16(v) \in Disps
<1>1. PICK k \in Nat : k > 0 /\ Span(2) = 2 * k BY SpanEven
<1>2. Span(2) \div 2 = k BY <1>1
<1>3. (v + k) % (2 * k) \in 0 .. 2 * k - 1
  <2>1. PICK w \in Int : w = v + k OBVIOUS
  <2>2. PICK j \in Nat : j > 0 /\ j = 2 * k BY <1>1
  <2> QED BY <2>1, <2>2
<1> QED BY <1>1, <1>2, <1>3 DEF Int16, Disps

LEMMA DispsAreInts == Disps \subseteq Int
<1>1. PICK k \in Nat : k > 0 /\ Span(2) = 2 * k BY SpanEven
<1>2. Span(2) \div 2 = k BY <1>1
<1> QED BY <1>2 DEF Disps

\* A mode that gets a displacement, a base or a symbol stays a mode.
LEMMA ModesUpdated ==
    ASSUME NEW d, NEW am \in AddressModes(d)
    PROVE  /\ am.base \in ({NoNode} \cup DOMAIN d) \X (0 .. 2) /\ am.disp \in Disps
           /\ \A k \in Disps : LET x == [am EXCEPT !.disp = k]
                               IN x \in AddressModes(d) /\ x.base = am.base
           /\ \A v \in Values(d) : LET x == [am EXCEPT !.base = v]
                                   IN x \in AddressModes(d) /\ x.base = v
           /\ \A n \in DOMAIN d : LET x == [am EXCEPT !.symbol = n]
                                  IN x \in AddressModes(d) /\ x.base = am.base
           /\ \A n \in DOMAIN d : LET x == [am EXCEPT !.blockAddr = n]
                                  IN x \in AddressModes(d) /\ x.base = am.base
BY DEF AddressModes, Values

LEMMA EmptyModeIsOne == ASSUME NEW d PROVE EmptyMode \in AddressModes(d) /\ EmptyMode.base = NoValue
<1>1. 0 \in Disps
  <2>1. PICK k \in Nat : k > 0 /\ Span(2) = 2 * k BY SpanEven
  <2>2. Span(2) \div 2 = k BY <2>1
  <2> QED BY <2>1, <2>2 DEF Disps
<1> QED BY <1>1 DEF EmptyMode, AddressModes, NoValue, NoNode

Matchable(d) ==
    /\ Linked(d) /\ Acyclic(d)
    /\ \A n \in DOMAIN d :
         /\ d[n].imm \in Int
         /\ d[n].op = "BIN" => \A i \in {1, 2} : i \in DOMAIN d[n].ops /\ d[n].ops[i] \in Values(d)

Bases(d) == ({NoNode} \cup DOMAIN d) \X (0 .. 2)

\* The modes that mode am may become when only values of V are added to it.
Adds(d, V, am) == {x \in AddressModes(d) : x.base = am.base \/ x.base \in V}

(* One step of the matching adds only values of V, if the matching of the   *)
(* operands does.                                                          *)
LEMMA MatchNodeAdds ==
    ASSUME NEW d, Matchable(d), NEW V \in SUBSET Bases(d), NEW v \in V \cap Values(d),
           NEW am \in AddressModes(d), NEW f,
           d[v[1]].op = "BIN" => \A i \in {1, 2} : \A a \in AddressModes(d) :
                                   f[<<d[v[1]].ops[i], a>>] \subseteq Adds(d, V, a)
    PROVE  MatchNode(d, f, v, am) \subseteq Adds(d, V, am)
<1> DEFINE n == d[v[1]]
           Const(i) == d[n.ops[i][1]].imm
           BothOps(i, j) == UNION {f[<<n.ops[j], a>>] : a \in f[<<n.ops[i], am>>]}
           BitsClear == MaskedValueIsZero(d, n.ops[1][1], Const(2))
           Or == {[a EXCEPT !.disp = Int16(@ + Const(2))] :
                    a \in {b \in f[<<n.ops[1], am>>] :
                             /\ b.symbol # NoNode => d[b.symbol].op # "GV"
                             /\ BitsClear}}
<1>1. v[1] \in DOMAIN d /\ v \in Values(d) BY DEF Values
<1>2. MatchAddressBase(v, am) \subseteq Adds(d, V, am)
  <2> SUFFICES ASSUME NEW x \in MatchAddressBase(v, am) PROVE x \in Adds(d, V, am) OBVIOUS
  <2>1. x = [am EXCEPT !.base = v] BY DEF MatchAddressBase
  <2>2. x \in AddressModes(d) /\ x.base = v BY <1>1, <2>1, ModesUpdated
  <2> QED BY <2>2 DEF Adds
<1>3. CASE n.op = "CONST"
  <2>1. n.imm \in Int /\ am.disp \in Int BY <1>1, ModesUpdated, DispsAreInts DEF Matchable
  <2>2. PICK k \in Disps : k = Int16(am.disp + n.imm) BY <2>1, Int16InDisps
  <2>3. [am EXCEPT !.disp = k] \in Adds(d, V, am) BY ModesUpdated DEF Adds
  <2>4. MatchNode(d, f, v, am) = {[am EXCEPT !.disp = k]}
    BY <1>3, <2>2 DEF MatchNode, Symbols
  <2> QED BY <2>3, <2>4
<1>4. CASE n.op \in Symbols
  <2>1. MatchWrapper(n.op, v[1], am) \subseteq Adds(d, V, am)
    <3> SUFFICES ASSUME NEW x \in MatchWrapper(n.op, v[1], am) PROVE x \in Adds(d, V, am)
      OBVIOUS
    <3>1. PICK m \in DOMAIN d : m = v[1] BY <1>1
    <3>2. [am EXCEPT !.blockAddr = m] \in Adds(d, V, am)
      <4>1. PICK y : y = [am EXCEPT !.blockAddr = m] OBVIOUS
      <4>2. y \in AddressModes(d) /\ y.base = am.base BY <4>1, ModesUpdated
      <4> QED BY <4>1, <4>2 DEF Adds
    <3>3. [am EXCEPT !.symbol = m] \in Adds(d, V, am)
      <4>1. PICK y : y = [am EXCEPT !.symbol = m] OBVIOUS
      <4>2. y \in AddressModes(d) /\ y.base = am.base BY <4>1, ModesUpdated
      <4> QED BY <4>1, <4>2 DEF Adds
    <3> QED BY <3>1, <3>2, <3>3 DEF MatchWrapper
  <2>2. MatchNode(d, f, v, am) = FirstMatch(MatchWrapper(n.op, v[1], am), MatchAddressBase(v, am))
    BY <1>4 DEF MatchNode, Symbols
  <2> QED BY <1>2, <2>1, <2>2 DEF FirstMatch
<1>5. ASSUME NEW i \in {1, 2}, NEW j \in {1, 2}, n.op = "BIN"
      PROVE  BothOps(i, j) \subseteq Adds(d, V, am)
  <2> SUFFICES ASSUME NEW a \in f[<<n.ops[i], am>>], NEW x \in f[<<n.ops[j], a>>]
               PROVE  x \in Adds(d, V, am)
    OBVIOUS
  <2>1. a \in Adds(d, V, am) BY <1>5
  <2>2. a \in AddressModes(d) /\ (a.base = am.base \/ a.base \in V) BY <2>1 DEF Adds
  <2>3. x \in Adds(d, V, a) BY <1>5, <2>2
  <2> QED BY <2>2, <2>3 DEF Adds
<1>6. CASE n.op = "BIN" /\ n.alu = "ADD"
  <2>1. MatchNode(d, f, v, am)
          = FirstMatch(BothOps(1, 2), FirstMatch(BothOps(2, 1), MatchAddressBase(v, am)))
    BY <1>6 DEF MatchNode, Symbols
  <2>2. BothOps(1, 2) \subseteq Adds(d, V, am) /\ BothOps(2, 1) \subseteq Adds(d, V, am)
    BY <1>5, <1>6
  <2> HIDE DEF BothOps
  <2> QED BY <1>2, <2>1, <2>2 DEF FirstMatch
<1>7. CASE n.op = "BIN" /\ n.alu = "OR" /\ d[n.ops[2][1]].op = "CONST"
  <2>1. MatchNode(d, f, v, am) = FirstMatch(Or, MatchAddressBase(v, am))
    BY <1>7 DEF MatchNode, Symbols
  <2>2. Or \subseteq Adds(d, V, am)
    <3> SUFFICES ASSUME NEW a \in f[<<n.ops[1], am>>]
                 PROVE  [a EXCEPT !.disp = Int16(@ + Const(2))] \in Adds(d, V, am)
      OBVIOUS
    <3>1. a \in Adds(d, V, am) BY <1>7
    <3>2. a \in AddressModes(d) /\ (a.base = am.base \/ a.base \in V) BY <3>1 DEF Adds
    <3>3. Const(2) \in Int
      <4>1. n.ops[2] \in Values(d) BY <1>1, <1>7 DEF Matchable
      <4> QED BY <4>1 DEF Matchable, Values
    <3>4. PICK k \in Disps : k = Int16(a.disp + Const(2))
      <4>1. a.disp \in Int BY <3>2, ModesUpdated, DispsAreInts
      <4> QED BY <3>3, <4>1, Int16InDisps
    <3>5. [a EXCEPT !.disp = k] \in AddressModes(d) /\ [a EXCEPT !.disp = k].base = a.base
      BY <3>2, ModesUpdated
    <3> QED BY <3>2, <3>4, <3>5 DEF Adds
  <2> HIDE DEF Or
  <2> QED BY <1>2, <2>1, <2>2 DEF FirstMatch
<1>8. CASE /\ n.op # "CONST" /\ n.op \notin Symbols
           /\ ~(n.op = "BIN" /\ n.alu = "ADD")
           /\ ~(n.op = "BIN" /\ n.alu = "OR" /\ d[n.ops[2][1]].op = "CONST")
  <2>1. MatchNode(d, f, v, am) = MatchAddressBase(v, am) BY <1>8 DEF MatchNode
  <2> QED BY <1>2, <2>1
<1> QED BY <1>3, <1>4, <1>6, <1>7, <1>8

(* Matching adds values to a mode that the address consists of: those of a  *)
(* set closed under the operands of arithmetic.                            *)
LEMMA MatchAddressAdds ==
    ASSUME NEW d, Matchable(d), NEW V \in SUBSET Values(d),
           \A v \in V : d[v[1]].op = "BIN" => d[v[1]].ops[1] \in V /\ d[v[1]].ops[2] \in V,
           NEW value \in V, NEW mode \in AddressModes(d)
    PROVE  MatchAddress(d, value, mode) \subseteq Adds(d, V, mode)
<1> DEFINE D == Values(d) \X AddressModes(d)
           R == SUBSET AddressModes(d)
           rank == [q \in D |-> Depth(d, q[1][1])]
           F == [g \in [D -> R] |-> [q \in D |-> MatchNode(d, g, q[1], q[2])]]
           match == CHOOSE g : g = [q \in D |-> MatchNode(d, g, q[1], q[2])]
<1>1. MatchAddress(d, value, mode) = match[<<value, mode>>] BY DEF MatchAddress
<1>2. ASSUME NEW n \in DOMAIN d
      PROVE  /\ Depth(d, n) \in Nat
             /\ d[n].op = "BIN" => \A i \in {1, 2} :
                  /\ i \in DOMAIN d[n].ops /\ d[n].ops[i] \in Values(d)
                  /\ Depth(d, d[n].ops[i][1]) < Depth(d, n)
  <2>1. Depth(d, n) \in Nat
    <3>1. Reached(d, n) \in SUBSET DOMAIN d BY ReachedIsLeast DEF Matchable
    <3> QED BY <3>1, FS_Subset, FS_CardinalityType DEF Matchable, Linked, Depth
  <2>2. ASSUME d[n].op = "BIN", NEW i \in {1, 2}
        PROVE  /\ i \in DOMAIN d[n].ops /\ d[n].ops[i] \in Values(d)
               /\ Depth(d, d[n].ops[i][1]) < Depth(d, n)
    <3>1. i \in DOMAIN d[n].ops /\ d[n].ops[i] \in Values(d) BY <2>2 DEF Matchable
    <3>2. d[n].ops[i][1] \in OperandNodes(d, n) BY <3>1 DEF OperandNodes, Range
    <3> QED BY <3>1, <3>2, DepthOfOperand DEF Matchable
  <2> QED BY <2>1, <2>2
<1>3. rank \in [D -> Nat] BY <1>2 DEF Values
<1>4. ASSUME NEW g \in [D -> R], NEW v \in Values(d), NEW am \in AddressModes(d)
      PROVE  MatchNode(d, g, v, am) \in R
  <2>1. PICK B : B = Bases(d) OBVIOUS
  <2>2. ASSUME NEW a \in AddressModes(d) PROVE Adds(d, B, a) = AddressModes(d)
    BY <2>1 DEF Adds, AddressModes, Bases
  <2>3. v \in B \cap Values(d) BY <2>1 DEF Bases, Values
  <2>4. ASSUME d[v[1]].op = "BIN", NEW i \in {1, 2}, NEW a \in AddressModes(d)
        PROVE  g[<<d[v[1]].ops[i], a>>] \subseteq Adds(d, B, a)
    <3>1. d[v[1]].ops[i] \in Values(d) BY <1>2, <2>4 DEF Values
    <3>2. PICK q \in D : q = <<d[v[1]].ops[i], a>> BY <3>1
    <3>3. g[q] \in R OBVIOUS
    <3> QED BY <2>2, <3>2, <3>3
  <2>5. MatchNode(d, g, v, am) \subseteq Adds(d, B, am)
    <3>1. B \in SUBSET Bases(d) BY <2>1
    <3> HIDE <2>1
    <3> QED BY <2>3, <2>4, <3>1, MatchNodeAdds
  <2> QED BY <2>2, <2>5
<1>5. Recursion(F, D, R, rank)
  <2>1. F \in [[D -> R] -> [D -> R]]
    <3>1. ASSUME NEW g \in [D -> R] PROVE [q \in D |-> MatchNode(d, g, q[1], q[2])] \in [D -> R]
      BY <1>4
    <3> QED BY <3>1
  <2>2. ASSUME NEW g \in [D -> R], NEW h \in [D -> R], NEW q \in D,
               \A x \in D : rank[x] < rank[q] => g[x] = h[x]
        PROVE  F[g][q] = F[h][q]
    <3>1. PICK v \in Values(d), am \in AddressModes(d) : q = <<v, am>> OBVIOUS
    <3>2. v[1] \in DOMAIN d BY DEF Values
    <3>3. ASSUME d[v[1]].op = "BIN", NEW i \in {1, 2}, NEW a \in AddressModes(d)
          PROVE  g[<<d[v[1]].ops[i], a>>] = h[<<d[v[1]].ops[i], a>>]
                 /\ g[<<d[v[1]].ops[i], a>>] \subseteq AddressModes(d)
      <4>1. /\ d[v[1]].ops[i] \in Values(d)
            /\ Depth(d, d[v[1]].ops[i][1]) < Depth(d, v[1])
        BY <1>2, <3>2, <3>3
      <4>2. PICK x \in D : x = <<d[v[1]].ops[i], a>> BY <4>1
      <4>3. x[1][1] = d[v[1]].ops[i][1] /\ q[1][1] = v[1] BY <3>1, <4>2
      <4>4. rank[x] < rank[q] BY <4>1, <4>3
      <4>5. g[x] = h[x] BY <2>2, <4>4
      <4>6. g[x] \in R OBVIOUS
      <4> QED BY <4>2, <4>5, <4>6
    <3>4. MatchNode(d, g, v, am) = MatchNode(d, h, v, am)
      <4>1. PICK n : n = d[v[1]] OBVIOUS
      <4>2. ASSUME n.op = "BIN", NEW i \in {1, 2}, NEW j \in {1, 2}
            PROVE  UNION {g[<<n.ops[j], a>>] : a \in g[<<n.ops[i], am>>]}
                     = UNION {h[<<n.ops[j], a>>] : a \in h[<<n.ops[i], am>>]}
        <5>1. /\ g[<<n.ops[i], am>>] = h[<<n.ops[i], am>>]
              /\ g[<<n.ops[i], am>>] \subseteq AddressModes(d)
          BY <3>3, <4>1, <4>2
        <5>2. \A a \in g[<<n.ops[i], am>>] : g[<<n.ops[j], a>>] = h[<<n.ops[j], a>>]
          BY <3>3, <4>1, <4>2, <5>1
        <5> QED BY <5>1, <5>2
      <4>3. n.op = "BIN" => g[<<n.ops[1], am>>] = h[<<n.ops[1], am>>] BY <3>3, <4>1
      <4>4. n.op \notin Symbols \/ n.op # "BIN" BY DEF Symbols
      <4>5. CASE n.op = "BIN" /\ n.alu = "ADD" BY <4>1, <4>2, <4>5 DEF MatchNode, Symbols
      <4>6. CASE n.op = "BIN" /\ n.alu = "OR" BY <4>1, <4>3, <4>6 DEF MatchNode, Symbols
      <4>7. CASE ~(n.op = "BIN" /\ n.alu \in {"ADD", "OR"}) BY <4>1, <4>7 DEF MatchNode
      <4> QED BY <4>5, <4>6, <4>7
    <3> QED BY <3>1, <3>4
  <2> HIDE DEF F, rank, D, R
  <2> QED BY <2>1, <2>2 DEF Recursion
<1>6. match = [q \in D |-> MatchNode(d, match, q[1], q[2])]
  <2>1. R # {} OBVIOUS
  <2>2. PICK g \in [D -> R] : g = F[g]
    <3> HIDE DEF F, rank, D, R
    <3> QED BY <1>3, <1>5, <2>1, RecursionSolved
  <2>3. g = [q \in D |-> MatchNode(d, g, q[1], q[2])] BY <2>2
  <2> HIDE DEF F, rank, D, R
  <2> QED BY <2>3
<1> HIDE DEF match
<1>7. ASSUME NEW v \in Values(d), NEW am \in AddressModes(d)
      PROVE  match[<<v, am>>] = MatchNode(d, match, v, am)
  <2>1. PICK q \in D : q = <<v, am>> OBVIOUS
  <2>2. match[q] = MatchNode(d, match, q[1], q[2])
    <3> HIDE DEF D
    <3> QED BY <1>6
  <2> QED BY <2>1, <2>2
<1> DEFINE T == {k \in Nat : \E v \in V, am \in AddressModes(d) :
                               /\ Depth(d, v[1]) = k
                               /\ ~(match[<<v, am>>] \subseteq Adds(d, V, am))}
<1>8. T = {}
  <2>1. SUFFICES ASSUME T # {} PROVE FALSE OBVIOUS
  <2>2. T \subseteq Nat OBVIOUS
  <2>3. PICK k \in T : \A j \in T : k <= j
    <3> HIDE DEF T
    <3> QED BY <2>1, <2>2, LeastNat
  <2>4. PICK v \in V, am \in AddressModes(d) :
          Depth(d, v[1]) = k /\ ~(match[<<v, am>>] \subseteq Adds(d, V, am))
    BY <2>3
  <2>5. ASSUME d[v[1]].op = "BIN", NEW i \in {1, 2}, NEW a \in AddressModes(d)
        PROVE  match[<<d[v[1]].ops[i], a>>] \subseteq Adds(d, V, a)
    <3>1. PICK w : w = d[v[1]].ops[i] OBVIOUS
    <3>2. w \in V
      <4>1. i = 1 \/ i = 2 OBVIOUS
      <4> QED BY <2>5, <3>1, <4>1
    <3>3. Depth(d, w[1]) \in Nat /\ Depth(d, w[1]) < k
      <4>1. v[1] \in DOMAIN d /\ w[1] \in DOMAIN d BY <3>2 DEF Values
      <4>2. Depth(d, w[1]) < Depth(d, v[1]) BY <1>2, <2>5, <3>1, <4>1
      <4> QED BY <1>2, <2>4, <4>1, <4>2
    <3>4. Depth(d, w[1]) \notin T
      <4>1. PICK j : j = Depth(d, w[1]) OBVIOUS
      <4>2. j \in Nat /\ k \in Nat /\ j < k BY <2>2, <3>3, <4>1
      <4> HIDE DEF T
      <4>3. j \notin T BY <2>3, <4>2
      <4> QED BY <4>1, <4>3
    <3> QED BY <3>1, <3>2, <3>3, <3>4
  <2>6. MatchNode(d, match, v, am) \subseteq Adds(d, V, am)
    <3>1. V \in SUBSET Bases(d) BY DEF Values, Bases
    <3>2. v \in V \cap Values(d) OBVIOUS
    <3> QED BY <2>5, <3>1, <3>2, MatchNodeAdds
  <2> QED BY <1>7, <2>4, <2>6
<1>9. Depth(d, value[1]) \in Nat BY <1>2 DEF Values
<1> QED BY <1>1, <1>8, <1>9

-----------------------------------------------------------------------------
(* What every node looks like.                                             *)

Extended(i) ==
    /\ i.vt \in Widths /\ i.ext \in {"none"} \cup Extensions
    /\ i.ext = "none" <=> i.vt = 4
Plain(i) == i.vt \in Widths /\ i.ext = "none"

Shaped(i) ==
    /\ i = Node(i.op, i.alu, i.ops, i.vt, i.ext, i.imm)
    /\ i.op \in Leaves \cup Symbols \cup Accesses \cup Instructions \cup {"BIN", "RR", "TF", "END"}
    /\ i.op \in {"LOAD"} \cup Loads => Extended(i)
    /\ i.op \in Loads => i.ext # "any"
    /\ i.op \in {"STORE"} \cup Stores => Plain(i)
    /\ i.op \in {"BIN", "RR"} \cup Symbols => i.vt = 0 /\ i.ext = "none"
    /\ i.op \in {"BIN", "RR"} => i.alu \in Alu
    /\ i.op \in {"RM", "RM_POST", "MR", "MR_POST"} => i.alu \in Alu \cup {"-"}
    /\ i.op \in Accesses \cup Symbols \cup {"RMr", "RMA", "MRr", "MAR"} => i.alu = "-"
    /\ i.op \in {"RMr", "RMA", "RM_POST", "MRr", "MAR", "MR_POST"} => i.imm = 0

-----------------------------------------------------------------------------
(* The graph keeps its form.  TextReadsBack says nothing of the nodes that *)
(* are still to be selected, so it is not inductive: what those look like, *)
(* that their operands are nodes, and that no global is ever replaced is   *)
(* what the instructions made of them need.                                *)

PointsTo(d, i, last) == \A j \in 1 .. last : j \in DOMAIN i.ops /\ i.ops[j][1] \in DOMAIN d
References(d, i) ==
    /\ i.op \in {"LOAD", "BIN"} => PointsTo(d, i, 2)
    /\ i.op = "STORE" => PointsTo(d, i, 3)
Names(d, i) ==
    i.op \in {"RMA", "MAR"} => PointsTo(d, i, 1) /\ d[i.ops[1][1]].op = "GV"

WellFormed(d) ==
    /\ Len(d) \in Nat /\ DOMAIN d = 1 .. Len(d)
    /\ \A k \in DOMAIN d : Shaped(d[k]) /\ References(d, d[k]) /\ Names(d, d[k])

FormInv == WellFormed(dag)

\* What ReplaceUses may be asked: to use nodes instead of what is no global.
Renames(d, by) ==
    \A v \in DOMAIN by : v[1] \in DOMAIN d /\ d[v[1]].op # "GV" /\ by[v][1] \in DOMAIN d

\* A function on 1 .. n has n for its length.
LEMMA FunctionLen ==
    ASSUME NEW f, NEW n \in Nat, DOMAIN f = 1 .. n, f = [k \in DOMAIN f |-> f[k]]
    PROVE  Len(f) = n
<1> DEFINE S == {f[k] : k \in DOMAIN f}
<1>1. f \in [1 .. n -> S] OBVIOUS
<1> HIDE DEF S
<1> QED BY <1>1, FunctionIsSeq

LEMMA FieldsOfNode ==
    ASSUME NEW op, NEW alu, NEW ops, NEW vt, NEW ext, NEW imm, NEW i,
           i = Node(op, alu, ops, vt, ext, imm)
    PROVE  /\ i.op = op /\ i.alu = alu /\ i.ops = ops /\ i.vt = vt /\ i.ext = ext /\ i.imm = imm
           /\ i = Node(i.op, i.alu, i.ops, i.vt, i.ext, i.imm)
BY DEF Node

LEMMA NewOperands ==
    ASSUME NEW i, i = Node(i.op, i.alu, i.ops, i.vt, i.ext, i.imm), NEW x
    PROVE  [i EXCEPT !.ops = x] = Node(i.op, i.alu, x, i.vt, i.ext, i.imm)
BY DEF Node

\* Using other values instead of some keeps the form of a graph.
LEMMA ReplacingKeepsForm ==
    ASSUME NEW d, WellFormed(d), NEW by, Renames(d, by)
    PROVE  WellFormed(ReplaceUses(d, by))
<1> DEFINE f(k) == [j \in DOMAIN d[k].ops |->
                      IF d[k].ops[j] \in DOMAIN by THEN by[d[k].ops[j]] ELSE d[k].ops[j]]
           r == [k \in DOMAIN d |-> [d[k] EXCEPT !.ops = f(k)]]
<1>1. ReplaceUses(d, by) = r BY DEF ReplaceUses
<1>2. DOMAIN r = DOMAIN d /\ r = [k \in DOMAIN r |-> r[k]] OBVIOUS
<1>3. Len(d) \in Nat /\ DOMAIN d = 1 .. Len(d) BY DEF WellFormed
<1>4. ASSUME NEW k \in DOMAIN d
      PROVE  /\ r[k] = Node(d[k].op, d[k].alu, f(k), d[k].vt, d[k].ext, d[k].imm)
             /\ DOMAIN f(k) = DOMAIN d[k].ops
             /\ \A j \in DOMAIN d[k].ops : f(k)[j] = IF d[k].ops[j] \in DOMAIN by
                                                     THEN by[d[k].ops[j]] ELSE d[k].ops[j]
  <2>1. d[k] = Node(d[k].op, d[k].alu, d[k].ops, d[k].vt, d[k].ext, d[k].imm)
    BY DEF WellFormed, Shaped
  <2>2. DOMAIN f(k) = DOMAIN d[k].ops
        /\ \A j \in DOMAIN d[k].ops : f(k)[j] = IF d[k].ops[j] \in DOMAIN by
                                                THEN by[d[k].ops[j]] ELSE d[k].ops[j]
    OBVIOUS
  <2>3. r[k] = [d[k] EXCEPT !.ops = f(k)] OBVIOUS
  <2> HIDE DEF f, r
  <2> QED BY <2>1, <2>2, <2>3, NewOperands
<1> HIDE DEF f, r
<1>5. Len(r) = Len(d) BY <1>2, <1>3, FunctionLen
<1>6. ASSUME NEW k \in DOMAIN d
      PROVE  /\ r[k].op = d[k].op /\ r[k].alu = d[k].alu /\ r[k].ops = f(k)
             /\ r[k].vt = d[k].vt /\ r[k].ext = d[k].ext /\ r[k].imm = d[k].imm
             /\ r[k] = Node(r[k].op, r[k].alu, r[k].ops, r[k].vt, r[k].ext, r[k].imm)
  <2>1. PICK g : g = f(k) OBVIOUS
  <2>2. PICK x : x = r[k] OBVIOUS
  <2>3. x = Node(d[k].op, d[k].alu, g, d[k].vt, d[k].ext, d[k].imm) BY <2>1, <2>2, <1>4
  <2> QED BY <2>1, <2>2, <2>3, FieldsOfNode
<1>7. ASSUME NEW k \in DOMAIN d PROVE Shaped(r[k])
  <2>1. Shaped(d[k]) BY DEF WellFormed
  <2> QED BY <2>1, <1>6 DEF Shaped, Extended, Plain
<1>8. ASSUME NEW k \in DOMAIN d, NEW last, PointsTo(d, d[k], last)
      PROVE  PointsTo(r, r[k], last)
  <2> SUFFICES ASSUME NEW j \in 1 .. last
               PROVE  j \in DOMAIN r[k].ops /\ r[k].ops[j][1] \in DOMAIN r
    BY DEF PointsTo
  <2>1. j \in DOMAIN d[k].ops /\ d[k].ops[j][1] \in DOMAIN d BY <1>8 DEF PointsTo
  <2>2. r[k].ops[j] = IF d[k].ops[j] \in DOMAIN by THEN by[d[k].ops[j]] ELSE d[k].ops[j]
    BY <1>4, <1>6, <2>1
  <2>3. r[k].ops[j][1] \in DOMAIN d BY <2>1, <2>2 DEF Renames
  <2> QED BY <1>2, <1>4, <1>6, <2>1, <2>3
<1>9. ASSUME NEW k \in DOMAIN d PROVE References(r, r[k])
  <2>1. References(d, d[k]) BY DEF WellFormed
  <2> QED BY <2>1, <1>6, <1>8 DEF References
<1>10. ASSUME NEW k \in DOMAIN d PROVE Names(r, r[k])
  <2> SUFFICES ASSUME r[k].op \in {"RMA", "MAR"}
               PROVE  PointsTo(r, r[k], 1) /\ r[r[k].ops[1][1]].op = "GV"
    BY DEF Names
  <2>1. PointsTo(d, d[k], 1) /\ d[d[k].ops[1][1]].op = "GV" BY <1>6 DEF WellFormed, Names
  <2>2. 1 \in DOMAIN d[k].ops /\ d[k].ops[1][1] \in DOMAIN d BY <2>1 DEF PointsTo
  <2>3. d[k].ops[1] \notin DOMAIN by BY <2>1 DEF Renames
  <2>4. r[k].ops[1] = d[k].ops[1] BY <1>4, <1>6, <2>2, <2>3
  <2>5. r[r[k].ops[1][1]].op = "GV" BY <1>6, <2>1, <2>2, <2>4
  <2> QED BY <1>8, <2>1, <2>5
<1> QED BY <1>1, <1>2, <1>3, <1>5, <1>7, <1>9, <1>10 DEF WellFormed

\* A node that is not a global's becomes an instruction.
LEMMA SettingKeepsForm ==
    ASSUME NEW d, WellFormed(d), NEW n \in DOMAIN d, d[n].op # "GV",
           NEW node, Shaped(node), node.op \in Instructions \cup {"RR"}, Names(d, node)
    PROVE  LET e == [d EXCEPT ![n] = node]
           IN WellFormed(e) /\ DOMAIN e = DOMAIN d /\ e[n] = node
              /\ \A k \in DOMAIN d \ {n} : e[k] = d[k]
<1> DEFINE e == [d EXCEPT ![n] = node]
<1>1. DOMAIN e = DOMAIN d /\ e = [k \in DOMAIN e |-> e[k]] OBVIOUS
<1>2. Len(d) \in Nat /\ DOMAIN d = 1 .. Len(d) BY DEF WellFormed
<1>3. e[n] = node /\ \A k \in DOMAIN d \ {n} : e[k] = d[k] OBVIOUS
<1> HIDE DEF e
<1>4. Len(e) = Len(d) BY <1>1, <1>2, FunctionLen
<1>5. ASSUME NEW i, NEW last, PointsTo(d, i, last) PROVE PointsTo(e, i, last)
  BY <1>1, <1>5 DEF PointsTo
<1>6. ASSUME NEW i, Names(d, i) PROVE Names(e, i)
  <2> SUFFICES ASSUME i.op \in {"RMA", "MAR"}
               PROVE  PointsTo(e, i, 1) /\ e[i.ops[1][1]].op = "GV"
    BY DEF Names
  <2>1. PointsTo(d, i, 1) /\ d[i.ops[1][1]].op = "GV" BY <1>6 DEF Names
  <2>2. i.ops[1][1] \in DOMAIN d \ {n} BY <2>1 DEF PointsTo
  <2> QED BY <1>3, <1>5, <2>1, <2>2
<1>7. ASSUME NEW k \in DOMAIN d
      PROVE  Shaped(e[k]) /\ References(e, e[k]) /\ Names(e, e[k])
  <2>1. CASE k = n
    <3>1. References(e, node) BY DEF References, Instructions, Loads, Stores
    <3> QED BY <1>3, <1>6, <2>1, <3>1
  <2>2. CASE k # n
    <3>1. Shaped(d[k]) /\ References(d, d[k]) /\ Names(d, d[k]) BY DEF WellFormed
    <3>2. References(e, d[k]) BY <1>5, <3>1 DEF References
    <3> QED BY <1>3, <1>6, <2>2, <3>1, <3>2
  <2> QED BY <2>1, <2>2
<1>8. WellFormed(e) BY <1>1, <1>2, <1>4, <1>7 DEF WellFormed
<1> QED BY <1>1, <1>3, <1>8 DEF e

\* What Become does to the graph.
LEMMA BecomingKeepsForm ==
    ASSUME NEW d, WellFormed(d), NEW n \in DOMAIN d, d[n].op # "GV",
           NEW node, Shaped(node), node.op \in Instructions \cup {"RR"}, Names(d, node),
           NEW by, Renames(d, by)
    PROVE  WellFormed(ReplaceUses([d EXCEPT ![n] = node], by))
<1>1. PICK e : e = [d EXCEPT ![n] = node] OBVIOUS
<1>2. WellFormed(e) /\ DOMAIN e = DOMAIN d /\ e[n] = node /\ \A k \in DOMAIN d \ {n} : e[k] = d[k]
  BY <1>1, SettingKeepsForm
<1>3. ASSUME NEW v \in DOMAIN by
      PROVE  v[1] \in DOMAIN e /\ e[v[1]].op # "GV" /\ by[v][1] \in DOMAIN e
  <2>1. v[1] \in DOMAIN d /\ d[v[1]].op # "GV" /\ by[v][1] \in DOMAIN d BY DEF Renames
  <2>2. node.op # "GV" BY DEF Instructions, Loads, Stores
  <2>3. CASE v[1] = n BY <1>2, <2>1, <2>2, <2>3
  <2>4. CASE v[1] # n BY <1>2, <2>1, <2>4
  <2> QED BY <2>3, <2>4
<1>4. Renames(e, by) BY <1>3 DEF Renames
<1>5. WellFormed(ReplaceUses(e, by)) BY <1>2, <1>4, ReplacingKeepsForm
<1> QED BY <1>1, <1>5

LEMMA TwoRenames ==
    ASSUME NEW d, NEW a \in DOMAIN d, NEW b \in DOMAIN d, NEW n \in DOMAIN d,
           d[a].op # "GV", d[b].op # "GV", NEW i, NEW j, NEW k, NEW m
    PROVE  Renames(d, Replace(<<a, i>>, <<n, k>>, <<b, j>>, <<n, m>>))
<1>1. PICK v : v = <<a, i>> OBVIOUS
<1>2. PICK w : w = <<b, j>> OBVIOUS
<1>3. PICK x : x = <<n, k>> OBVIOUS
<1>4. PICK y : y = <<n, m>> OBVIOUS
<1>5. v[1] = a /\ w[1] = b /\ x[1] = n /\ y[1] = n BY <1>1, <1>2, <1>3, <1>4
<1>6. PICK by : by = Replace(v, x, w, y) OBVIOUS
<1>7. DOMAIN by = {v, w} /\ \A u \in {v, w} : by[u] = x \/ by[u] = y BY <1>6 DEF Replace
<1>8. Renames(d, by) BY <1>5, <1>7 DEF Renames
<1> QED BY <1>1, <1>2, <1>3, <1>4, <1>6, <1>8

LEMMA NoRenames == ASSUME NEW d PROVE Renames(d, <<>>)
<1>1. DOMAIN <<>> = {} OBVIOUS
<1> QED BY <1>1 DEF Renames

-----------------------------------------------------------------------------
(* The nodes selection makes.                                              *)

\* A load instruction has the shape of one.
LEMMA MakesLoad ==
    ASSUME NEW op \in Loads, NEW alu \in Alu \cup {"-"}, NEW ops, NEW vt \in Widths,
           NEW ext \in {"none", "sext", "zext"}, ext = "none" <=> vt = 4, NEW imm,
           op \in {"RMr", "RMA"} => alu = "-", op # "RM" => imm = 0
    PROVE  Shaped(Node(op, alu, ops, vt, ext, imm))
<1>1. PICK i : i = Node(op, alu, ops, vt, ext, imm) OBVIOUS
<1>2. /\ i.op = op /\ i.alu = alu /\ i.vt = vt /\ i.ext = ext /\ i.imm = imm
      /\ i = Node(i.op, i.alu, i.ops, i.vt, i.ext, i.imm)
  BY <1>1, FieldsOfNode
<1>3. Extended(i) /\ i.ext # "any" BY <1>2 DEF Extended, Extensions
<1>4. Shaped(i)
  BY <1>2, <1>3 DEF Shaped, Loads, Stores, Instructions, Symbols, Accesses
<1> QED BY <1>1, <1>4

\* A store instruction has the shape of one.
LEMMA MakesStore ==
    ASSUME NEW op \in Stores, NEW alu \in Alu \cup {"-"}, NEW ops, NEW vt \in Widths, NEW imm,
           op \in {"MRr", "MAR"} => alu = "-", op # "MR" => imm = 0
    PROVE  Shaped(Node(op, alu, ops, vt, "none", imm))
<1>1. PICK i : i = Node(op, alu, ops, vt, "none", imm) OBVIOUS
<1>2. /\ i.op = op /\ i.alu = alu /\ i.vt = vt /\ i.ext = "none" /\ i.imm = imm
      /\ i = Node(i.op, i.alu, i.ops, i.vt, i.ext, i.imm)
  BY <1>1, FieldsOfNode
<1>3. Plain(i) BY <1>2 DEF Plain
<1>4. Shaped(i)
  BY <1>2, <1>3 DEF Shaped, Loads, Stores, Instructions, Symbols, Accesses
<1> QED BY <1>1, <1>4

\* A node that is no access by name has no name to get wrong.
LEMMA NamesNothing ==
    ASSUME NEW d, NEW op, op \notin {"RMA", "MAR"},
           NEW alu, NEW ops, NEW vt, NEW ext, NEW imm
    PROVE  Names(d, Node(op, alu, ops, vt, ext, imm))
<1>1. PICK i : i = Node(op, alu, ops, vt, ext, imm) OBVIOUS
<1>2. i.op = op BY <1>1 DEF Node
<1>3. Names(d, i) BY <1>2 DEF Names
<1> QED BY <1>1, <1>3

\* Opcodes of a folded load have a width and an extension that go together.
LEMMA PostOpcodes ==
    ASSUME NEW alu, NEW vt
    PROVE  LET o == PostOpcode(alu, vt)
           IN /\ o[1] \in Widths /\ o[2] \in {"none", "sext", "zext"}
              /\ o[2] = "none" <=> o[1] = 4
BY DEF PostOpcode, Widths

\* The move made of a load extends what it reads one way.
LEMMA MoveExtensions ==
    ASSUME NEW i, Extended(i)
    PROVE  /\ i.vt \in Widths /\ MoveExtension(i.ext) \in {"none", "sext", "zext"}
           /\ MoveExtension(i.ext) = "none" <=> i.vt = 4
BY DEF Extended, Extensions, MoveExtension

\* The opcodes chosen for a folded load extend what they read.
LEMMA FoldedOpcodes ==
    ASSUME NEW alu, NEW vt \in Widths, NEW ext, NEW o \in FoldedAs(alu, vt, ext)
    PROVE  /\ o[1] \in Widths /\ o[2] \in {"none", "sext", "zext"}
           /\ o[2] = "none" <=> o[1] = 4
<1>1. CASE vt = 4
  <2>1. o = <<4, "none">> BY <1>1 DEF FoldedAs
  <2> QED BY <2>1 DEF Widths
<1>2. CASE vt # 4 /\ alu \in {"ADD", "SUB"}
  <2>1. o = <<vt, "sext">> BY <1>2 DEF FoldedAs
  <2> QED BY <1>2, <2>1 DEF Widths
<1>3. CASE vt # 4 /\ alu \notin {"ADD", "SUB"}
  <2>1. o = <<2, "zext">> \/ o = <<1, "zext">> BY <1>3 DEF FoldedAs
  <2> QED BY <2>1 DEF Widths
<1> QED BY <1>1, <1>2, <1>3

\* The form an address takes.
LEMMA ModeForms ==
    ASSUME NEW v, NEW m \in Modes(v)
    PROVE  /\ m.form \in {"mem", "reg", "abs"}
           /\ m.form # "mem" => m.disp = 0
           /\ m.form = "abs" => m.base = v /\ dag[v[1]].op = "GV"
<1>1. CASE dag[v[1]].op = "GV"
  <2>1. m = [form |-> "abs", base |-> v, disp |-> 0] BY <1>1 DEF Modes
  <2> QED BY <1>1, <2>1
<1>2. CASE dag[v[1]].op # "GV"
  <2>1. m \in MemoryOperands(v) \/ m = [form |-> "reg", base |-> v, disp |-> 0]
    BY <1>2 DEF Modes, FirstMatch
  <2>2. ASSUME m \in MemoryOperands(v) PROVE m.form = "mem" BY <2>2 DEF MemoryOperands
  <2> QED BY <2>1, <2>2
<1> QED BY <1>1, <1>2

-----------------------------------------------------------------------------
(* Every step keeps the form.                                              *)

LEMMA BecomeKeepsForm ==
    ASSUME FormInv, NEW n \in DOMAIN dag, dag[n].op # "GV",
           NEW node, Shaped(node), node.op \in Instructions \cup {"RR"}, Names(dag, node),
           NEW by, Renames(dag, by), Become(n, node, by)
    PROVE  FormInv'
<1>1. PICK d : d = dag OBVIOUS
<1>2. WellFormed(ReplaceUses([d EXCEPT ![n] = node], by))
  BY <1>1, BecomingKeepsForm DEF FormInv
<1>3. dag' = ReplaceUses([d EXCEPT ![n] = node], by) BY <1>1 DEF Become
<1> QED BY <1>2, <1>3 DEF FormInv

\* The nodes of the graph, in the terms of the model.
LEMMA NodesOfGraph ==
    FormInv => /\ Nodes = DOMAIN dag
               /\ \A n \in Nodes :
                    /\ Shaped(dag[n]) /\ References(dag, dag[n]) /\ Names(dag, dag[n])
                    /\ dag[n].op = "LOAD" => Ptr(n)[1] \in Nodes
                    /\ dag[n].op = "STORE" => Ptr(n)[1] \in Nodes /\ dag[n].ops[2][1] \in Nodes
                    /\ dag[n].op = "BIN" => \A i \in {1, 2} : dag[n].ops[i][1] \in Nodes
<1> SUFFICES ASSUME FormInv
             PROVE  /\ Nodes = DOMAIN dag
                    /\ \A n \in Nodes :
                         /\ Shaped(dag[n]) /\ References(dag, dag[n]) /\ Names(dag, dag[n])
                         /\ dag[n].op = "LOAD" => Ptr(n)[1] \in Nodes
                         /\ dag[n].op = "STORE" => Ptr(n)[1] \in Nodes /\ dag[n].ops[2][1] \in Nodes
                         /\ dag[n].op = "BIN" => \A i \in {1, 2} : dag[n].ops[i][1] \in Nodes
  OBVIOUS
<1>1. Nodes = DOMAIN dag BY DEF FormInv, WellFormed, Nodes
<1>2. ASSUME NEW n \in Nodes
      PROVE  Shaped(dag[n]) /\ References(dag, dag[n]) /\ Names(dag, dag[n])
  BY <1>1, <1>2 DEF FormInv, WellFormed
<1>3. 1 \in 1 .. 2 /\ 2 \in 1 .. 2 /\ 2 \in 1 .. 3 /\ 3 \in 1 .. 3 OBVIOUS
<1>4. ASSUME NEW n \in Nodes, dag[n].op = "LOAD" PROVE Ptr(n)[1] \in Nodes
  BY <1>1, <1>2, <1>3, <1>4 DEF References, PointsTo, Ptr
<1>5. ASSUME NEW n \in Nodes, dag[n].op = "STORE"
      PROVE  Ptr(n)[1] \in Nodes /\ dag[n].ops[2][1] \in Nodes
  <2>1. PointsTo(dag, dag[n], 3) BY <1>2, <1>5 DEF References
  <2> QED BY <1>1, <1>3, <1>5, <2>1 DEF PointsTo, Ptr
<1>6. ASSUME NEW n \in Nodes, dag[n].op = "BIN"
      PROVE  \A i \in {1, 2} : dag[n].ops[i][1] \in Nodes
  BY <1>1, <1>2, <1>3, <1>6 DEF References, PointsTo
<1> QED BY <1>1, <1>2, <1>4, <1>5, <1>6

\* A folded load leaves its writeback and its chain to node n.
LEMMA TransferRenames ==
    ASSUME FormInv, NEW n \in Nodes, dag[n].op \in Accesses \cup {"BIN"},
           NEW l \in Nodes, dag[l].op = "LOAD"
    PROVE  Renames(dag, Transfer(n, l))
<1>1. PICK d : d = dag OBVIOUS
<1>2. n \in DOMAIN d /\ l \in DOMAIN d /\ d[l].op # "GV" BY <1>1, NodesOfGraph
<1> QED BY <1>1, <1>2, TwoRenames DEF Transfer

LEMMA SelectLoadKeepsForm ==
    ASSUME FormInv, NEW n \in Nodes, SelectLoad(n) PROVE FormInv'
<1>1. dag[n].op = "LOAD" BY DEF SelectLoad
<1>2. Extended(dag[n]) BY <1>1, NodesOfGraph DEF Shaped
<1>3. n \in DOMAIN dag /\ dag[n].op # "GV" BY <1>1, NodesOfGraph
<1>4. Renames(dag, <<>>)
  <2>1. PICK d : d = dag OBVIOUS
  <2> QED BY <2>1, NoRenames
<1>5. CASE SelectIndexedLoad(n)
  <2>1. PICK ops : ops = <<Ptr(n), dag[n].ops[1]>> OBVIOUS
  <2>2. PICK node : node = Node("RM_POST", "-", ops, dag[n].vt, MoveExtension(dag[n].ext), 0)
    OBVIOUS
  <2>3. Shaped(node)
    <3>1. PICK vt, ext : vt = dag[n].vt /\ ext = MoveExtension(dag[n].ext) OBVIOUS
    <3>2. vt \in Widths /\ ext \in {"none", "sext", "zext"} /\ (ext = "none" <=> vt = 4)
      BY <1>2, <3>1, MoveExtensions
    <3> QED BY <2>2, <3>1, <3>2, MakesLoad DEF Loads
  <2>4. node.op = "RM_POST" BY <2>2 DEF Node
  <2>5. Names(dag, node) BY <2>4 DEF Names
  <2>6. Become(n, node, <<>>) BY <1>5, <2>1, <2>2 DEF SelectIndexedLoad
  <2>7. node.op \in Instructions \cup {"RR"} BY <2>4 DEF Instructions, Loads
  <2> QED BY <1>3, <1>4, <2>3, <2>5, <2>6, <2>7, BecomeKeepsForm
<1>6. ASSUME NEW m \in Modes(Ptr(n)),
             Become(n, Node(LoadForm[m.form], "-", <<m.base, dag[n].ops[1]>>,
                            dag[n].vt, MoveExtension(dag[n].ext), m.disp), <<>>)
      PROVE  FormInv'
  <2>1. PICK p : p = Ptr(n) OBVIOUS
  <2>2. /\ m.form \in {"mem", "reg", "abs"}
        /\ m.form # "mem" => m.disp = 0
        /\ m.form = "abs" => m.base = p /\ dag[p[1]].op = "GV"
    BY <1>6, <2>1, ModeForms
  <2>3. PICK ops : ops = <<m.base, dag[n].ops[1]>> OBVIOUS
  <2>4. PICK op : op = LoadForm[m.form] OBVIOUS
  <2>5. /\ op \in Loads /\ op # "RM_POST" /\ (op # "RM" => m.disp = 0)
        /\ op = "RMA" => m.form = "abs"
        /\ op # "MAR"
    BY <2>2, <2>4 DEF LoadForm, Loads
  <2>6. PICK node : node = Node(op, "-", ops, dag[n].vt, MoveExtension(dag[n].ext), m.disp)
    OBVIOUS
  <2>7. Shaped(node)
    <3>1. PICK vt, ext, imm : vt = dag[n].vt /\ ext = MoveExtension(dag[n].ext) /\ imm = m.disp
      OBVIOUS
    <3>2. vt \in Widths /\ ext \in {"none", "sext", "zext"} /\ (ext = "none" <=> vt = 4)
      BY <1>2, <3>1, MoveExtensions
    <3> QED BY <2>5, <2>6, <3>1, <3>2, MakesLoad
  <2>8. node.op = op /\ node.ops = ops BY <2>6 DEF Node
  <2>9. Names(dag, node)
    <3> SUFFICES ASSUME op = "RMA"
                 PROVE  PointsTo(dag, node, 1) /\ dag[node.ops[1][1]].op = "GV"
      BY <2>5, <2>8 DEF Names
    <3>1. m.base = p /\ dag[p[1]].op = "GV" BY <2>2, <2>5
    <3>2. DOMAIN ops = 1 .. 2 /\ ops[1] = p BY <2>3, <3>1
    <3>3. p[1] \in DOMAIN dag BY <1>1, <2>1, NodesOfGraph
    <3>4. \A j \in 1 .. 1 : j = 1 /\ j \in 1 .. 2 OBVIOUS
    <3> QED BY <2>8, <3>1, <3>2, <3>3, <3>4 DEF PointsTo
  <2>10. Become(n, node, <<>>) BY <1>6, <2>3, <2>4, <2>6
  <2>11. node.op \in Instructions \cup {"RR"} BY <2>5, <2>8 DEF Instructions
  <2> QED BY <1>3, <1>4, <2>7, <2>9, <2>10, <2>11, BecomeKeepsForm
<1> QED BY <1>5, <1>6 DEF SelectLoad

LEMMA IndexedBinOpLoadKeepsForm ==
    ASSUME FormInv, NEW n \in Nodes, dag[n].op = "BIN",
           NEW v1, v1[1] \in Nodes, Foldable(n, v1), NEW v2, SelectIndexedBinOpLoad(n, v1, v2)
    PROVE  FormInv'
<1>1. PICK l : l = v1[1] OBVIOUS
<1>2. l \in Nodes /\ dag[l].op = "LOAD" BY <1>1 DEF Foldable
<1>3. PICK alu : alu = dag[n].alu OBVIOUS
<1>4. alu \in Alu BY <1>3, NodesOfGraph DEF Shaped
<1>5. PICK opc : opc = PostOpcode(alu, dag[l].vt) OBVIOUS
<1>6. opc[1] \in Widths /\ opc[2] \in {"none", "sext", "zext"} /\ (opc[2] = "none" <=> opc[1] = 4)
  <2>1. PICK vt : vt = dag[l].vt OBVIOUS
  <2> QED BY <1>5, <2>1, PostOpcodes
<1>7. PICK ops : ops = <<v2, Ptr(l), dag[l].ops[1]>> OBVIOUS
<1>8. PICK node : node = Node("RM_POST", alu, ops, opc[1], opc[2], 0) OBVIOUS
<1>9. Shaped(node)
  <2>1. PICK vt, ext : vt = opc[1] /\ ext = opc[2] OBVIOUS
  <2> QED BY <1>4, <1>6, <1>8, <2>1, MakesLoad DEF Loads
<1>10. node.op = "RM_POST" BY <1>8 DEF Node
<1>11. Names(dag, node) /\ node.op \in Instructions \cup {"RR"}
  BY <1>10 DEF Names, Instructions, Loads
<1>12. PICK by : by = Transfer(n, l) OBVIOUS
<1>13. Renames(dag, by) BY <1>2, <1>12, TransferRenames
<1>14. Become(n, node, by)
  BY <1>1, <1>3, <1>5, <1>7, <1>8, <1>12 DEF SelectIndexedBinOpLoad
<1>15. n \in DOMAIN dag /\ dag[n].op # "GV" BY NodesOfGraph
<1> QED BY <1>9, <1>11, <1>13, <1>14, <1>15, BecomeKeepsForm

LEMMA IndexedBinOpStoreKeepsForm ==
    ASSUME FormInv, NEW n \in Nodes, dag[n].op = "STORE", dag[dag[n].ops[2][1]].op = "BIN",
           NEW v1, v1[1] \in Nodes, dag[v1[1]].op = "LOAD", NEW v2,
           SelectIndexedBinOpStore(n, v1, v2)
    PROVE  FormInv'
<1>1. PICK l : l = v1[1] OBVIOUS
<1>2. l \in Nodes /\ dag[l].op = "LOAD" BY <1>1
<1>3. PICK alu : alu = dag[dag[n].ops[2][1]].alu OBVIOUS
<1>4. alu \in Alu
  <2>1. dag[n].ops[2][1] \in Nodes BY NodesOfGraph
  <2>2. Shaped(dag[dag[n].ops[2][1]]) BY <2>1, NodesOfGraph
  <2> QED BY <1>3, <2>2 DEF Shaped
<1>5. PICK opc : opc = PostOpcode(alu, dag[l].vt) OBVIOUS
<1>6. opc[1] \in Widths
  <2>1. PICK vt : vt = dag[l].vt OBVIOUS
  <2> QED BY <1>5, <2>1, PostOpcodes
<1>7. PICK ops : ops = <<Ptr(l), v2, dag[l].ops[1]>> OBVIOUS
<1>8. PICK node : node = Node("MR_POST", alu, ops, opc[1], "none", 0) OBVIOUS
<1>9. Shaped(node)
  <2>1. PICK vt : vt = opc[1] OBVIOUS
  <2> QED BY <1>4, <1>6, <1>8, <2>1, MakesStore DEF Stores
<1>10. node.op = "MR_POST" BY <1>8 DEF Node
<1>11. Names(dag, node) /\ node.op \in Instructions \cup {"RR"}
  BY <1>10 DEF Names, Instructions, Stores
<1>12. PICK by : by = Transfer(n, l) OBVIOUS
<1>13. Renames(dag, by) BY <1>2, <1>12, TransferRenames DEF Accesses
<1>14. Become(n, node, by)
  BY <1>1, <1>3, <1>5, <1>7, <1>8, <1>12 DEF SelectIndexedBinOpStore
<1>15. n \in DOMAIN dag /\ dag[n].op # "GV" BY NodesOfGraph
<1> QED BY <1>9, <1>11, <1>13, <1>14, <1>15, BecomeKeepsForm

LEMMA CodeBinOpLoadKeepsForm ==
    ASSUME FormInv, NEW n \in Nodes, dag[n].op = "BIN", SelectCodeBinOpLoad(n)
    PROVE  FormInv'
<1>1. PICK i \in {1, 2} :
        LET v == dag[n].ops[i]
            l == v[1]
        IN /\ Foldable(n, v) /\ ~IsValidIndexed(l)
           /\ \E m \in MemoryOperands(Ptr(l)), opc \in FoldedAs(dag[n].alu, dag[l].vt, dag[l].ext) :
                Become(n, Node("RM", dag[n].alu, <<dag[n].ops[3 - i], m.base, dag[l].ops[1]>>,
                               opc[1], opc[2], m.disp), Transfer(n, l))
  BY DEF SelectCodeBinOpLoad
<1>2. PICK l : l = dag[n].ops[i][1] OBVIOUS
<1>3. l \in Nodes /\ dag[l].op = "LOAD"
  <2>1. dag[n].ops[i][1] \in Nodes BY <1>1, NodesOfGraph
  <2> QED BY <1>1, <1>2, <2>1 DEF Foldable
<1>4. PICK m \in MemoryOperands(Ptr(l)), opc \in FoldedAs(dag[n].alu, dag[l].vt, dag[l].ext) :
        Become(n, Node("RM", dag[n].alu, <<dag[n].ops[3 - i], m.base, dag[l].ops[1]>>,
                       opc[1], opc[2], m.disp), Transfer(n, l))
  BY <1>1, <1>2
<1>5. PICK alu : alu = dag[n].alu OBVIOUS
<1>6. alu \in Alu BY <1>5, NodesOfGraph DEF Shaped
<1>7. opc[1] \in Widths /\ opc[2] \in {"none", "sext", "zext"} /\ (opc[2] = "none" <=> opc[1] = 4)
  <2>1. PICK vt, ext : vt = dag[l].vt /\ ext = dag[l].ext OBVIOUS
  <2>2. Extended(dag[l]) BY <1>3, NodesOfGraph DEF Shaped
  <2>3. vt \in Widths BY <2>1, <2>2 DEF Extended
  <2>4. opc \in FoldedAs(alu, vt, ext) BY <1>4, <1>5, <2>1
  <2> QED BY <2>3, <2>4, FoldedOpcodes
<1>8. PICK ops : ops = <<dag[n].ops[3 - i], m.base, dag[l].ops[1]>> OBVIOUS
<1>9. PICK node : node = Node("RM", alu, ops, opc[1], opc[2], m.disp) OBVIOUS
<1>10. Shaped(node)
  <2>1. PICK vt, ext, imm : vt = opc[1] /\ ext = opc[2] /\ imm = m.disp OBVIOUS
  <2> QED BY <1>6, <1>7, <1>9, <2>1, MakesLoad DEF Loads
<1>11. node.op = "RM" BY <1>9 DEF Node
<1>12. Names(dag, node) /\ node.op \in Instructions \cup {"RR"}
  BY <1>11 DEF Names, Instructions, Loads
<1>13. PICK by : by = Transfer(n, l) OBVIOUS
<1>14. Renames(dag, by) BY <1>3, <1>13, TransferRenames
<1>15. Become(n, node, by) BY <1>4, <1>5, <1>8, <1>9, <1>13
<1>16. n \in DOMAIN dag /\ dag[n].op # "GV" BY NodesOfGraph
<1> QED BY <1>10, <1>12, <1>14, <1>15, <1>16, BecomeKeepsForm

LEMMA CodeBinOpStoreKeepsForm ==
    ASSUME FormInv, NEW n \in Nodes, dag[n].op = "STORE", SelectCodeBinOpStore(n)
    PROVE  FormInv'
<1>1. PICK s : s = dag[n].ops[2] OBVIOUS
<1>2. PICK b : b = dag[s[1]] OBVIOUS
<1>3. /\ b.op = "BIN"
      /\ \E i \in {1, 2} :
           \E m \in MemoryOperands(Ptr(n)) :
             Become(n, Node("MR", b.alu, <<m.base, b.ops[3 - i], dag[b.ops[i][1]].ops[1]>>,
                            dag[n].vt, "none", m.disp), <<>>)
  BY <1>1, <1>2 DEF SelectCodeBinOpStore
<1>4. PICK i \in {1, 2}, m \in MemoryOperands(Ptr(n)) :
        Become(n, Node("MR", b.alu, <<m.base, b.ops[3 - i], dag[b.ops[i][1]].ops[1]>>,
                       dag[n].vt, "none", m.disp), <<>>)
  BY <1>3
<1>5. PICK alu : alu = b.alu OBVIOUS
<1>6. alu \in Alu
  <2>1. s[1] \in Nodes BY <1>1, NodesOfGraph
  <2>2. Shaped(b) BY <1>2, <2>1, NodesOfGraph
  <2> QED BY <1>3, <1>5, <2>2 DEF Shaped
<1>7. PICK vt : vt = dag[n].vt OBVIOUS
<1>8. vt \in Widths BY <1>7, NodesOfGraph DEF Shaped, Plain
<1>9. PICK ops : ops = <<m.base, b.ops[3 - i], dag[b.ops[i][1]].ops[1]>> OBVIOUS
<1>10. PICK node : node = Node("MR", alu, ops, vt, "none", m.disp) OBVIOUS
<1>11. Shaped(node)
  <2>1. PICK imm : imm = m.disp OBVIOUS
  <2> QED BY <1>6, <1>8, <1>10, <2>1, MakesStore DEF Stores
<1>12. node.op = "MR" BY <1>10 DEF Node
<1>13. Names(dag, node) /\ node.op \in Instructions \cup {"RR"}
  BY <1>12 DEF Names, Instructions, Stores
<1>14. Renames(dag, <<>>)
  <2>1. PICK d : d = dag OBVIOUS
  <2> QED BY <2>1, NoRenames
<1>15. Become(n, node, <<>>) BY <1>4, <1>5, <1>7, <1>9, <1>10
<1>16. n \in DOMAIN dag /\ dag[n].op # "GV" BY NodesOfGraph
<1> QED BY <1>11, <1>13, <1>14, <1>15, <1>16, BecomeKeepsForm

LEMMA SelectStoreKeepsForm ==
    ASSUME FormInv, NEW n \in Nodes, SelectStore(n) PROVE FormInv'
<1>1. dag[n].op = "STORE" BY DEF SelectStore
<1>2. PICK b : b = dag[n].ops[2][1] OBVIOUS
<1>3. b \in Nodes BY <1>1, <1>2, NodesOfGraph
<1>4. PICK v1, v2 : v1 = dag[b].ops[1] /\ v2 = dag[b].ops[2] OBVIOUS
<1>5. n \in DOMAIN dag /\ dag[n].op # "GV" BY <1>1, NodesOfGraph
<1>6. PICK vt : vt = dag[n].vt OBVIOUS
<1>7. vt \in Widths BY <1>1, <1>6, NodesOfGraph DEF Shaped, Plain
<1>8. Renames(dag, <<>>)
  <2>1. PICK d : d = dag OBVIOUS
  <2> QED BY <2>1, NoRenames
<1>9. ASSUME dag[b].op = "BIN" PROVE v1[1] \in Nodes /\ v2[1] \in Nodes
  <2>1. \A i \in {1, 2} : dag[b].ops[i][1] \in Nodes BY <1>3, <1>9, NodesOfGraph
  <2> QED BY <1>4, <2>1
<1>10. ASSUME dag[b].op = "BIN", CanBinOpStore(n, v1), SelectIndexedBinOpStore(n, v1, v2)
       PROVE  FormInv'
  <2>1. dag[v1[1]].op = "LOAD" BY <1>10 DEF CanBinOpStore, Foldable
  <2> QED BY <1>1, <1>2, <1>9, <1>10, <2>1, IndexedBinOpStoreKeepsForm
<1>11. ASSUME dag[b].op = "BIN", CanBinOpStore(n, v2), SelectIndexedBinOpStore(n, v2, v1)
       PROVE  FormInv'
  <2>1. dag[v2[1]].op = "LOAD" BY <1>11 DEF CanBinOpStore, Foldable
  <2> QED BY <1>1, <1>2, <1>9, <1>11, <2>1, IndexedBinOpStoreKeepsForm
<1>12. CASE SelectIndexedStore(n)
  <2>1. PICK ops : ops = <<dag[n].ops[2], Ptr(n), dag[n].ops[1]>> OBVIOUS
  <2>2. PICK node : node = Node("MR_POST", "-", ops, vt, "none", 0) OBVIOUS
  <2>3. Shaped(node) BY <1>7, <2>2, MakesStore DEF Stores
  <2>4. node.op = "MR_POST" BY <2>2 DEF Node
  <2>5. Names(dag, node) /\ node.op \in Instructions \cup {"RR"}
    BY <2>4 DEF Names, Instructions, Stores
  <2>6. Become(n, node, <<>>) BY <1>6, <1>12, <2>1, <2>2 DEF SelectIndexedStore
  <2> QED BY <1>5, <1>8, <2>3, <2>5, <2>6, BecomeKeepsForm
<1>13. CASE SelectCodeBinOpStore(n) BY <1>1, <1>13, CodeBinOpStoreKeepsForm
<1>14. ASSUME NEW m \in Modes(Ptr(n)),
              Become(n, Node(StoreForm[m.form], "-", <<m.base, dag[n].ops[2], dag[n].ops[1]>>,
                             dag[n].vt, "none", m.disp), <<>>)
       PROVE  FormInv'
  <2>1. PICK p : p = Ptr(n) OBVIOUS
  <2>2. /\ m.form \in {"mem", "reg", "abs"}
        /\ m.form # "mem" => m.disp = 0
        /\ m.form = "abs" => m.base = p /\ dag[p[1]].op = "GV"
    BY <1>14, <2>1, ModeForms
  <2>3. PICK ops : ops = <<m.base, dag[n].ops[2], dag[n].ops[1]>> OBVIOUS
  <2>4. PICK op : op = StoreForm[m.form] OBVIOUS
  <2>5. /\ op \in Stores /\ op # "MR_POST" /\ (op # "MR" => m.disp = 0)
        /\ op = "MAR" => m.form = "abs"
        /\ op # "RMA"
    BY <2>2, <2>4 DEF StoreForm, Stores
  <2>6. PICK node : node = Node(op, "-", ops, vt, "none", m.disp) OBVIOUS
  <2>7. Shaped(node)
    <3>1. PICK imm : imm = m.disp OBVIOUS
    <3> QED BY <1>7, <2>5, <2>6, <3>1, MakesStore
  <2>8. node.op = op /\ node.ops = ops BY <2>6 DEF Node
  <2>9. Names(dag, node)
    <3> SUFFICES ASSUME op = "MAR"
                 PROVE  PointsTo(dag, node, 1) /\ dag[node.ops[1][1]].op = "GV"
      BY <2>5, <2>8 DEF Names
    <3>1. m.base = p /\ dag[p[1]].op = "GV" BY <2>2, <2>5
    <3>2. DOMAIN ops = 1 .. 3 /\ ops[1] = p BY <2>3, <3>1
    <3>3. p[1] \in DOMAIN dag BY <1>1, <2>1, NodesOfGraph
    <3>4. \A j \in 1 .. 1 : j = 1 /\ j \in 1 .. 3 OBVIOUS
    <3> QED BY <2>8, <3>1, <3>2, <3>3, <3>4 DEF PointsTo
  <2>10. Become(n, node, <<>>) BY <1>6, <1>14, <2>3, <2>4, <2>6
  <2>11. node.op \in Instructions \cup {"RR"} BY <2>5, <2>8 DEF Instructions
  <2> QED BY <1>5, <1>8, <2>7, <2>9, <2>10, <2>11, BecomeKeepsForm
<1>15. CASE dag[b].op = "BIN" /\ CanBinOpStore(n, v1)
  <2>1. SelectIndexedBinOpStore(n, v1, v2) BY <1>2, <1>4, <1>15 DEF SelectStore
  <2> QED BY <1>10, <1>15, <2>1
<1>16. CASE dag[b].op = "BIN" /\ ~CanBinOpStore(n, v1) /\ CanBinOpStore(n, v2)
  <2>1. SelectIndexedBinOpStore(n, v2, v1) BY <1>2, <1>4, <1>16 DEF SelectStore
  <2> QED BY <1>11, <1>16, <2>1
<1>17. CASE ~(dag[b].op = "BIN" /\ (CanBinOpStore(n, v1) \/ CanBinOpStore(n, v2)))
  <2>1. \/ SelectIndexedStore(n)
        \/ SelectCodeBinOpStore(n)
        \/ \E m \in Modes(Ptr(n)) :
             Become(n, Node(StoreForm[m.form], "-", <<m.base, dag[n].ops[2], dag[n].ops[1]>>,
                            dag[n].vt, "none", m.disp), <<>>)
    BY <1>2, <1>4, <1>17 DEF SelectStore
  <2> QED BY <1>12, <1>13, <1>14, <2>1
<1> QED BY <1>15, <1>16, <1>17

LEMMA SelectBinaryKeepsForm ==
    ASSUME FormInv, NEW n \in Nodes, SelectBinary(n) PROVE FormInv'
<1>1. dag[n].op = "BIN" BY DEF SelectBinary
<1>2. PICK a, b : a = dag[n].ops[1] /\ b = dag[n].ops[2] OBVIOUS
<1>3. a[1] \in Nodes /\ b[1] \in Nodes
  <2>1. \A i \in {1, 2} : dag[n].ops[i][1] \in Nodes BY <1>1, NodesOfGraph
  <2> QED BY <1>2, <2>1
<1>4. CASE CanBinOpLoad(n, a)
  <2>1. SelectIndexedBinOpLoad(n, a, b) BY <1>2, <1>4 DEF SelectBinary
  <2>2. Foldable(n, a) BY <1>4 DEF CanBinOpLoad
  <2> QED BY <1>1, <1>3, <2>1, <2>2, IndexedBinOpLoadKeepsForm
<1>5. CASE ~CanBinOpLoad(n, a) /\ CanBinOpLoad(n, b)
  <2>1. SelectIndexedBinOpLoad(n, b, a) BY <1>2, <1>5 DEF SelectBinary
  <2>2. Foldable(n, b) BY <1>5 DEF CanBinOpLoad
  <2> QED BY <1>1, <1>3, <2>1, <2>2, IndexedBinOpLoadKeepsForm
<1>6. CASE ~CanBinOpLoad(n, a) /\ ~CanBinOpLoad(n, b)
  <2>1. SelectCodeBinOpLoad(n) \/ Become(n, [dag[n] EXCEPT !.op = "RR"], <<>>)
    BY <1>2, <1>6 DEF SelectBinary
  <2>2. CASE SelectCodeBinOpLoad(n) BY <1>1, <2>2, CodeBinOpLoadKeepsForm
  <2>3. CASE Become(n, [dag[n] EXCEPT !.op = "RR"], <<>>)
    <3>1. PICK i : i = dag[n] OBVIOUS
    <3>2. PICK node : node = [i EXCEPT !.op = "RR"] OBVIOUS
    <3>3. /\ i = Node(i.op, i.alu, i.ops, i.vt, i.ext, i.imm)
          /\ i.alu \in Alu /\ i.vt = 0 /\ i.ext = "none"
      BY <1>1, <3>1, NodesOfGraph DEF Shaped
    <3>4. node = Node("RR", i.alu, i.ops, i.vt, i.ext, i.imm) BY <3>2, <3>3 DEF Node
    <3>5. /\ node.op = "RR" /\ node.alu = i.alu /\ node.vt = i.vt /\ node.ext = i.ext
          /\ node = Node(node.op, node.alu, node.ops, node.vt, node.ext, node.imm)
      BY <3>4, FieldsOfNode
    <3>6. Shaped(node)
      BY <3>3, <3>5 DEF Shaped, Loads, Stores, Instructions, Symbols, Accesses
    <3>7. Names(dag, node) BY <3>5 DEF Names
    <3>8. Renames(dag, <<>>)
      <4>1. PICK d : d = dag OBVIOUS
      <4> QED BY <4>1, NoRenames
    <3>9. n \in DOMAIN dag /\ dag[n].op # "GV" BY <1>1, NodesOfGraph
    <3>10. Become(n, node, <<>>) BY <2>3, <3>1, <3>2
    <3>11. node.op \in Instructions \cup {"RR"} BY <3>5
    <3> QED BY <3>6, <3>7, <3>8, <3>9, <3>10, <3>11, BecomeKeepsForm
  <2> QED BY <2>1, <2>2, <2>3
<1> QED BY <1>4, <1>5, <1>6

LEMMA CombiningKeepsForm ==
    ASSUME FormInv, CombineToPostIndexed PROVE FormInv'
<1>1. PICK n \in Live, a \in Live \ {End} :
        /\ GetPostIndexedAddressParts(n, a)
        /\ dag' = ReplaceUses(dag,
             IF dag[n].op = "LOAD" THEN Replace(<<n, 1>>, <<n, 2>>, <<a, 0>>, <<n, 1>>)
                                   ELSE Replace(<<n, 0>>, <<n, 1>>, <<a, 0>>, <<n, 0>>))
  BY DEF CombineToPostIndexed
<1>2. PICK d : d = dag OBVIOUS
<1>3. n \in DOMAIN d /\ a \in DOMAIN d BY <1>2, NodesOfGraph DEF Live
<1>4. d[n].op # "GV" /\ d[a].op # "GV"
  BY <1>1, <1>2 DEF GetPostIndexedAddressParts, Accesses
<1>5. PICK by : by = IF d[n].op = "LOAD" THEN Replace(<<n, 1>>, <<n, 2>>, <<a, 0>>, <<n, 1>>)
                                         ELSE Replace(<<n, 0>>, <<n, 1>>, <<a, 0>>, <<n, 0>>)
  OBVIOUS
<1>6. Renames(d, by)
  <2>1. Renames(d, Replace(<<n, 1>>, <<n, 2>>, <<a, 0>>, <<n, 1>>)) BY <1>3, <1>4, TwoRenames
  <2>2. Renames(d, Replace(<<n, 0>>, <<n, 1>>, <<a, 0>>, <<n, 0>>)) BY <1>3, <1>4, TwoRenames
  <2> QED BY <1>5, <2>1, <2>2
<1>7. WellFormed(ReplaceUses(d, by)) BY <1>2, <1>6, ReplacingKeepsForm DEF FormInv
<1>8. dag' = ReplaceUses(d, by) BY <1>1, <1>2, <1>5
<1> QED BY <1>7, <1>8 DEF FormInv

\* The blocks start in that form.
LEMMA BlocksWellFormed == ASSUME NEW p \in Programs PROVE WellFormed(p)
<1>1. DOMAIN p = 1 .. Len(p) /\ Len(p) \in Nat BY BlocksAssumption
<1>2. ASSUME NEW k \in DOMAIN p
      PROVE  /\ p[k] \in [op : Leaves \cup Symbols \cup Accesses \cup {"BIN", "TF", "END"},
                          alu : Alu \cup {"-"}, ops : Seq((1 .. k - 1) \X (0 .. 2)),
                          vt : Widths \cup {0}, ext : {"none"} \cup Extensions, imm : Register]
             /\ p[k].alu # "-" <=> p[k].op = "BIN"
             /\ p[k].vt # 0 <=> p[k].op \in Accesses
             /\ p[k].ext # "none" <=> p[k].op = "LOAD" /\ p[k].vt < 4
             /\ p[k].op \in {"BIN", "LOAD"} => Len(p[k].ops) = 2
             /\ p[k].op = "STORE" => Len(p[k].ops) = 3
  BY <1>1, BlocksAssumption
<1>3. ASSUME NEW k \in DOMAIN p PROVE Shaped(p[k])
  <2>1. PICK i : i = p[k] OBVIOUS
  <2>2. i = Node(i.op, i.alu, i.ops, i.vt, i.ext, i.imm) BY <1>2, <2>1 DEF Node
  <2>3. /\ i.op \in Leaves \cup Symbols \cup Accesses \cup {"BIN", "TF", "END"}
        /\ i.alu \in Alu \cup {"-"} /\ i.vt \in Widths \cup {0} /\ i.ext \in {"none"} \cup Extensions
        /\ i.alu # "-" <=> i.op = "BIN"
        /\ i.vt # 0 <=> i.op \in Accesses
        /\ i.ext # "none" <=> i.op = "LOAD" /\ i.vt < 4
    BY <1>2, <2>1
  <2>4. i.op = "LOAD" => Extended(i)
    <3> SUFFICES ASSUME i.op = "LOAD" PROVE Extended(i) OBVIOUS
    <3>1. i.vt \in Widths BY <2>3 DEF Accesses
    <3>2. i.vt < 4 <=> i.vt # 4 BY <3>1 DEF Widths
    <3> QED BY <2>3, <3>1, <3>2 DEF Extended
  <2>5. i.op = "STORE" => Plain(i) BY <2>3 DEF Plain, Accesses
  <2>6. i.op \notin Instructions \cup {"RR"}
    BY <2>3 DEF Instructions, Loads, Stores, Leaves, Symbols, Accesses
  <2>7. i.op \in {"BIN"} \cup Symbols => i.vt = 0 /\ i.ext = "none"
    BY <2>3 DEF Symbols, Accesses
  <2>8. (i.op = "BIN" => i.alu \in Alu) /\ (i.op \in Accesses \cup Symbols => i.alu = "-")
    BY <2>3 DEF Symbols, Accesses
  <2>9. Shaped(i)
    BY <2>2, <2>3, <2>4, <2>5, <2>6, <2>7, <2>8 DEF Shaped, Instructions, Loads, Stores
  <2> QED BY <2>1, <2>9
<1>4. ASSUME NEW k \in DOMAIN p, NEW last \in Nat, Len(p[k].ops) = last
      PROVE  PointsTo(p, p[k], last)
  <2>1. PICK S : S = (1 .. k - 1) \X (0 .. 2) OBVIOUS
  <2>2. p[k].ops \in Seq(S) BY <1>2, <2>1
  <2>3. ASSUME NEW j \in 1 .. last PROVE j \in DOMAIN p[k].ops /\ p[k].ops[j][1] \in DOMAIN p
    <3>1. j \in DOMAIN p[k].ops BY <1>4, <2>2, LenProperties
    <3>2. p[k].ops[j] \in S BY <1>4, <2>2, ElementOfSeq
    <3>3. p[k].ops[j][1] \in 1 .. k - 1 BY <2>1, <3>2
    <3>4. 1 .. k - 1 \subseteq DOMAIN p BY <1>1
    <3> QED BY <3>1, <3>3, <3>4
  <2> QED BY <2>3 DEF PointsTo
<1>5. ASSUME NEW k \in DOMAIN p PROVE References(p, p[k]) /\ Names(p, p[k])
  <2>1. p[k].op \notin {"RMA", "MAR"} BY <1>2 DEF Leaves, Symbols, Accesses
  <2> QED BY <1>2, <1>4, <2>1 DEF References, Names
<1> QED BY <1>1, <1>3, <1>5 DEF WellFormed

\* Whatever happens to a block, its graph keeps the form of one.
THEOREM FormInvHolds == Spec => []FormInv
<1>1. Init => FormInv BY BlocksWellFormed DEF Init, FormInv
<1>2. FormInv /\ [Next]_vars => FormInv'
  <2> SUFFICES ASSUME FormInv, [Next]_vars PROVE FormInv' OBVIOUS
  <2>1. ASSUME dag' = dag PROVE FormInv'
    <3>1. PICK d : d = dag OBVIOUS
    <3>2. WellFormed(d) /\ dag' = d BY <2>1, <3>1 DEF FormInv
    <3> QED BY <3>2 DEF FormInv
  <2>2. CASE CombineToPostIndexed BY <2>2, CombiningKeepsForm
  <2>3. CASE Select
    <3>1. PICK n \in Selectable : SelectLoad(n) \/ SelectStore(n) \/ SelectBinary(n)
      BY <2>3 DEF Select
    <3>2. n \in Nodes BY DEF Selectable, Live
    <3> QED BY <3>1, <3>2, SelectLoadKeepsForm, SelectStoreKeepsForm, SelectBinaryKeepsForm
  <2>4. CASE StartSelection BY <2>1, <2>4 DEF StartSelection
  <2>5. CASE FinishSelection BY <2>1, <2>5 DEF FinishSelection
  <2>6. CASE \E n \in Nodes : Execute(n) BY <2>1, <2>6 DEF Execute
  <2>7. CASE Finish BY <2>1, <2>7 DEF Finish
  <2>8. CASE UNCHANGED vars BY <2>1, <2>8 DEF vars
  <2> QED BY <2>2, <2>3, <2>4, <2>5, <2>6, <2>7, <2>8 DEF Next
<1> QED BY <1>1, <1>2, PTL DEF Spec

-----------------------------------------------------------------------------
(* The graph stays typed.                                                  *)

\* A node has the operands of its operation.
Counted(i) ==
    /\ i.op \in {"LOAD", "BIN", "RR"} => Len(i.ops) = 2
    /\ i.op \in Loads => Len(i.ops) = IF i.alu = "-" THEN 2 ELSE 3
    /\ i.op \in {"STORE"} \cup Stores => Len(i.ops) = 3

Sized(d) == \A n \in DOMAIN d : d[n].ops \in Seq(Values(d)) /\ Counted(d[n])

\* Every operand of node i is a result of graph d that its operation can have.
IsData(d, indexed, v) == IsValue(d, indexed, v) \/ v = NoRegister
Fits(d, indexed, i) ==
    \A k \in DOMAIN i.ops :
      IF k \in Chains(i) THEN IsChain(d, indexed, i.ops[k]) ELSE IsData(d, indexed, i.ops[k])

Subst(v, by) == IF v \in DOMAIN by THEN by[v] ELSE v

\* What replaces a chain of graph d is a chain of e, and a value a value.
Carries(d, P, e, Q, by) ==
    \A v \in Values(d) :
      /\ IsChain(d, P, v) => IsChain(e, Q, Subst(v, by))
      /\ IsData(d, P, v) => IsData(e, Q, Subst(v, by))

\* Node x is node i but for the operands that are replaced.
Redirected(x, i, by) ==
    /\ x.op = i.op /\ x.alu = i.alu /\ x.vt = i.vt /\ x.ext = i.ext /\ x.imm = i.imm
    /\ x.ops = [k \in DOMAIN i.ops |-> Subst(i.ops[k], by)]

\* ReplaceUses changes nothing but operands.
LEMMA UsesReplaced ==
    ASSUME NEW d, WellFormed(d), NEW by, NEW n \in DOMAIN d
    PROVE  /\ DOMAIN ReplaceUses(d, by) = DOMAIN d
           /\ Redirected(ReplaceUses(d, by)[n], d[n], by)
<1>1. PICK f : f = [i \in DOMAIN d[n].ops |-> Subst(d[n].ops[i], by)] OBVIOUS
<1>2. PICK e : e = ReplaceUses(d, by) OBVIOUS
<1>3. DOMAIN e = DOMAIN d /\ e[n] = [d[n] EXCEPT !.ops = f] BY <1>1, <1>2 DEF ReplaceUses, Subst
<1>4. PICK i : i = d[n] OBVIOUS
<1>5. i = Node(i.op, i.alu, i.ops, i.vt, i.ext, i.imm) BY <1>4 DEF WellFormed, Shaped
<1>6. e[n] = Node(i.op, i.alu, f, i.vt, i.ext, i.imm) BY <1>3, <1>4, <1>5, NewOperands
<1>7. PICK x : x = e[n] OBVIOUS
<1>8. /\ x.op = i.op /\ x.alu = i.alu /\ x.ops = f /\ x.vt = i.vt /\ x.ext = i.ext /\ x.imm = i.imm
  BY <1>6, <1>7, FieldsOfNode
<1> QED BY <1>1, <1>2, <1>3, <1>4, <1>7, <1>8 DEF Redirected

LEMMA CountedAlike ==
    ASSUME NEW i, NEW x, Counted(i), x.op = i.op, x.alu = i.alu, Len(x.ops) = Len(i.ops)
    PROVE  Counted(x)
BY DEF Counted

LEMMA ChainsAlike ==
    ASSUME NEW i, NEW x, x.op = i.op, Len(x.ops) = Len(i.ops), DOMAIN x.ops = DOMAIN i.ops
    PROVE  Chains(x) = Chains(i)
BY DEF Chains

\* In graph e node n has become node, and what it takes over is replaced.
Rewired(d, n, node, by, e) ==
    LET b == [d EXCEPT ![n] = node]
    IN WellFormed(b) /\ e = ReplaceUses(b, by)

LEMMA RewiredNodes ==
    ASSUME NEW d, NEW n \in DOMAIN d, NEW node, NEW by, NEW e, Rewired(d, n, node, by, e),
           NEW m \in DOMAIN d, NEW i, i = IF m = n THEN node ELSE d[m]
    PROVE  /\ DOMAIN e = DOMAIN d
           /\ Redirected(e[m], i, by)
<1>1. PICK b : b = [d EXCEPT ![n] = node] OBVIOUS
<1>2. WellFormed(b) /\ e = ReplaceUses(b, by) BY <1>1 DEF Rewired
<1>3. DOMAIN b = DOMAIN d /\ m \in DOMAIN b /\ b[m] = i BY <1>1
<1> QED BY <1>2, <1>3, UsesReplaced

(* A graph stays typed when a node becomes one that fits and what replaces  *)
(* a result is a result of its kind.                                       *)
LEMMA RewiringKeepsTypes ==
    ASSUME NEW d, Sized(d), NEW P, WellTyped(d, P), NEW n \in DOMAIN d,
           NEW node, node.ops \in Seq(Values(d)), Counted(node), Fits(d, P, node),
           NEW by, \A v \in DOMAIN by : by[v] \in Values(d),
           NEW e, Rewired(d, n, node, by, e), NEW Q, Carries(d, P, e, Q, by)
    PROVE  Sized(e) /\ WellTyped(e, Q)
<1>1. ASSUME NEW m \in DOMAIN d, NEW i, i = IF m = n THEN node ELSE d[m]
      PROVE  /\ i.ops \in Seq(Values(d)) /\ Counted(i) /\ Fits(d, P, i)
             /\ Counted(e[m]) /\ Fits(e, Q, e[m])
             /\ DOMAIN e = DOMAIN d /\ e[m].ops \in Seq(Values(d))
  <2>1. i.ops \in Seq(Values(d)) /\ Counted(i) /\ Fits(d, P, i)
    <3>1. CASE m = n BY <1>1, <3>1
    <3>2. CASE m # n
      <4>1. i = d[m] BY <1>1, <3>2
      <4>2. d[m].ops \in Seq(Values(d)) /\ Counted(d[m]) BY DEF Sized
      <4>3. Fits(d, P, d[m]) BY DEF WellTyped, Fits, IsData
      <4> QED BY <4>1, <4>2, <4>3
    <3> QED BY <3>1, <3>2
  <2>2. /\ DOMAIN e = DOMAIN d
        /\ e[m].op = i.op /\ e[m].alu = i.alu
        /\ e[m].ops = [k \in DOMAIN i.ops |-> Subst(i.ops[k], by)]
    BY <1>1, RewiredNodes DEF Redirected
  <2>3. PICK s \in Seq(Values(d)) : s = i.ops BY <2>1
  <2>4. PICK k \in Nat : k = Len(s) /\ DOMAIN s = 1 .. k BY LenProperties
  <2>5. \A j \in 1 .. k : s[j] \in Values(d) BY <2>4, ElementOfSeq
  <2>6. \A j \in 1 .. k : Subst(s[j], by) \in Values(d) BY <2>5 DEF Subst
  <2>7. e[m].ops \in [1 .. k -> Values(d)] BY <2>2, <2>3, <2>4, <2>6
  <2>8. e[m].ops \in Seq(Values(d)) /\ Len(e[m].ops) = k /\ DOMAIN e[m].ops = 1 .. k
    BY <2>7, FunctionIsSeq
  <2>9. Counted(e[m]) BY <2>1, <2>2, <2>3, <2>4, <2>8, CountedAlike
  <2>10. Chains(e[m]) = Chains(i) BY <2>2, <2>3, <2>4, <2>8, ChainsAlike
  <2>11. Fits(e, Q, e[m])
    <3> SUFFICES ASSUME NEW j \in 1 .. k
                 PROVE  IF j \in Chains(i) THEN IsChain(e, Q, e[m].ops[j])
                                          ELSE IsData(e, Q, e[m].ops[j])
      BY <2>8, <2>10 DEF Fits
    <3>1. IF j \in Chains(i) THEN IsChain(d, P, s[j]) ELSE IsData(d, P, s[j])
      BY <2>1, <2>3, <2>4 DEF Fits
    <3>2. e[m].ops[j] = Subst(s[j], by) BY <2>2, <2>3, <2>4
    <3> QED BY <2>5, <3>1, <3>2 DEF Carries
  <2> QED BY <2>1, <2>2, <2>8, <2>9, <2>11
<1>2. ASSUME NEW m \in DOMAIN d
      PROVE  /\ Counted(e[m]) /\ Fits(e, Q, e[m])
             /\ DOMAIN e = DOMAIN d /\ e[m].ops \in Seq(Values(d))
  <2>1. PICK i : i = IF m = n THEN node ELSE d[m] OBVIOUS
  <2> QED BY <1>1, <2>1
<1>3. DOMAIN e = DOMAIN d /\ Values(e) = Values(d) BY <1>2 DEF Values
<1>4. Sized(e) BY <1>2, <1>3 DEF Sized
<1>5. WellTyped(e, Q)
  <2> SUFFICES ASSUME NEW m \in DOMAIN d, NEW j \in DOMAIN e[m].ops
               PROVE  /\ e[m].ops[j] \in Values(e)
                      /\ IF j \in Chains(e[m]) THEN IsChain(e, Q, e[m].ops[j])
                                               ELSE IsData(e, Q, e[m].ops[j])
    BY <1>3 DEF WellTyped, IsData
  <2>1. PICK s \in Seq(Values(d)) : s = e[m].ops BY <1>2
  <2>2. \A k \in DOMAIN s : s[k] \in Values(d) BY LenProperties, ElementOfSeq
  <2>3. e[m].ops[j] \in Values(e) BY <1>3, <2>1, <2>2
  <2> QED BY <1>2, <2>3 DEF Fits
<1> QED BY <1>4, <1>5

\* The operands of a node are nodes.
LEMMA SizedIsLinked ==
    ASSUME NEW d, WellFormed(d), Sized(d)
    PROVE  Linked(d)
<1>1. IsFiniteSet(DOMAIN d)
  <2>1. Len(d) \in Nat /\ DOMAIN d = 1 .. Len(d) BY DEF WellFormed
  <2> QED BY <2>1, FS_Interval
<1>2. ASSUME NEW n \in DOMAIN d PROVE OperandNodes(d, n) \subseteq DOMAIN d
  <2>1. PICK s \in Seq(Values(d)) : s = d[n].ops BY DEF Sized
  <2>2. \A i \in DOMAIN s : s[i] \in Values(d) BY LenProperties, ElementOfSeq
  <2>3. \A i \in DOMAIN s : s[i][1] \in DOMAIN d BY <2>2 DEF Values
  <2> QED BY <2>1, <2>3 DEF OperandNodes, Range
<1> QED BY <1>1, <1>2 DEF Linked

\* What the operands of a node depend on, and the node that is no register.
Under(d, n) == {1} \cup UNION {Reached(d, o) : o \in OperandNodes(d, n)}

\* What the operands of node n depend on does not depend on n.
LEMMA UnderIsClosed ==
    ASSUME NEW d, Linked(d), Acyclic(d), 1 \in DOMAIN d, OperandNodes(d, 1) = {},
           NEW n \in DOMAIN d \ {1}
    PROVE  /\ Under(d, n) \in SUBSET DOMAIN d /\ Closed(d, Under(d, n)) /\ n \notin Under(d, n)
           /\ OperandNodes(d, n) \subseteq Under(d, n)
<1>1. ASSUME NEW o \in OperandNodes(d, n)
      PROVE  /\ o \in Reached(d, o) /\ Reached(d, o) \subseteq DOMAIN d
             /\ Closed(d, Reached(d, o)) /\ n \notin Reached(d, o)
  <2>1. o \in DOMAIN d BY DEF Linked
  <2> QED BY <2>1, ReachedIsLeast DEF Acyclic
<1>2. Under(d, n) \in SUBSET DOMAIN d BY <1>1 DEF Under
<1>3. Closed(d, Under(d, n))
  <2> SUFFICES ASSUME NEW m \in Under(d, n), NEW x \in OperandNodes(d, m) PROVE x \in Under(d, n)
    BY DEF Closed
  <2>1. m # 1 OBVIOUS
  <2>2. PICK o \in OperandNodes(d, n) : m \in Reached(d, o) BY <2>1 DEF Under
  <2>3. x \in Reached(d, o) BY <1>1, <2>2 DEF Closed
  <2> QED BY <2>3 DEF Under
<1> QED BY <1>1, <1>2, <1>3 DEF Under

\* A node gets other operands, and takes results over from what those do not
\* depend on.
LEMMA TakingOverKeepsAcyclic ==
    ASSUME NEW d, Linked(d), Acyclic(d), NEW n \in DOMAIN d,
           NEW N \in SUBSET DOMAIN d, Closed(d, N), n \notin N,
           NEW node, \A k \in DOMAIN node.ops : node.ops[k][1] \in N,
           NEW by, \A v \in DOMAIN by : v[1] \notin N /\ by[v][1] = n,
           NEW e, Rewired(d, n, node, by, e), Linked(e)
    PROVE  Acyclic(e)
<1>1. ASSUME NEW m \in DOMAIN d, NEW i, i = IF m = n THEN node ELSE d[m],
             NEW x \in OperandNodes(e, m)
      PROVE  \E k \in DOMAIN i.ops : x = Subst(i.ops[k], by)[1]
  <2>1. e[m].ops = [k \in DOMAIN i.ops |-> Subst(i.ops[k], by)] BY <1>1, RewiredNodes DEF Redirected
  <2>2. PICK f : f = [k \in DOMAIN i.ops |-> Subst(i.ops[k], by)] OBVIOUS
  <2>3. PICK k \in DOMAIN f : x = f[k][1] BY <2>1, <2>2 DEF OperandNodes, Range
  <2> QED BY <2>2, <2>3
<1>2. OperandNodes(e, n) \subseteq N
  <2> SUFFICES ASSUME NEW x \in OperandNodes(e, n) PROVE x \in N OBVIOUS
  <2>1. PICK k \in DOMAIN node.ops : x = Subst(node.ops[k], by)[1] BY <1>1
  <2>2. node.ops[k][1] \in N OBVIOUS
  <2>3. node.ops[k] \notin DOMAIN by BY <2>2
  <2> QED BY <2>1, <2>2, <2>3 DEF Subst
<1>3. ASSUME NEW m \in DOMAIN d \ {n}, NEW x \in OperandNodes(e, m)
      PROVE  /\ x \in OperandNodes(d, m) \cup {n}
             /\ m \in N => x \in OperandNodes(d, m)
  <2>1. PICK k \in DOMAIN d[m].ops : x = Subst(d[m].ops[k], by)[1] BY <1>1
  <2>2. d[m].ops[k][1] \in OperandNodes(d, m) BY DEF OperandNodes, Range
  <2>3. ASSUME m \in N PROVE d[m].ops[k] \notin DOMAIN by
    <3>1. d[m].ops[k][1] \in N BY <2>2, <2>3 DEF Closed
    <3> QED BY <3>1
  <2>4. CASE d[m].ops[k] \in DOMAIN by
    <3>1. x = n BY <2>1, <2>4 DEF Subst
    <3> QED BY <2>3, <2>4, <3>1
  <2>5. CASE d[m].ops[k] \notin DOMAIN by BY <2>1, <2>2, <2>5 DEF Subst
  <2> QED BY <2>4, <2>5
<1>4. /\ \A m \in DOMAIN d \ {n} : OperandNodes(e, m) \subseteq OperandNodes(d, m) \cup {n}
      /\ \A m \in N : OperandNodes(e, m) \subseteq OperandNodes(d, m)
  BY <1>3
<1>5. DOMAIN e = DOMAIN d BY DEF Rewired, ReplaceUses
<1> QED BY <1>2, <1>4, <1>5, RewiringKeepsAcyclic

-----------------------------------------------------------------------------
(* What replaces the results of a node.                                    *)

\* A result of another node is what it was.
LEMMA OthersCarried ==
    ASSUME NEW d, NEW e, NEW P, NEW Q, NEW v, e[v[1]].op = d[v[1]].op, v[1] \in P <=> v[1] \in Q
    PROVE  /\ IsChain(d, P, v) => IsChain(e, Q, v)
           /\ IsData(d, P, v) => IsData(e, Q, v)
BY DEF IsChain, IsData, IsValue, NumValues

\* So is one of a node that becomes an instruction with as many results.
LEMMA AlikeCarried ==
    ASSUME NEW d, NEW n \in DOMAIN d, NEW e, NEW P,
           \A m \in DOMAIN d \ {n} : e[m].op = d[m].op,
           NumValues(e, P, n) = NumValues(d, P, n),
           d[n].op \in Accesses => e[n].op \in Instructions,
           d[n].op \in Accesses \cup {"BIN"}
    PROVE  Carries(d, P, e, P, <<>>)
<1> SUFFICES ASSUME NEW v \in Values(d)
             PROVE  /\ IsChain(d, P, v) => IsChain(e, P, v)
                    /\ IsData(d, P, v) => IsData(e, P, v)
  <2>1. DOMAIN <<>> = {} OBVIOUS
  <2> QED BY <2>1 DEF Carries, Subst
<1>1. v[1] \in DOMAIN d BY DEF Values
<1>2. CASE v[1] # n BY <1>1, <1>2, OthersCarried
<1>3. CASE v[1] = n
  <2>1. IsData(d, P, v) => IsData(e, P, v) BY <1>3 DEF IsData, IsValue
  <2>2. IsChain(d, P, v) => IsChain(e, P, v)
    BY <1>3 DEF IsChain, Accesses, Instructions, Loads, Stores
  <2> QED BY <2>1, <2>2
<1> QED BY <1>2, <1>3

LEMMA ReplaceIs ==
    ASSUME NEW v, NEW x, NEW w, NEW y, NEW by, by = Replace(v, x, w, y)
    PROVE  DOMAIN by = {v, w} /\ by[v] = x /\ (v # w => by[w] = y)
<1>1. PICK S : S = {v, w} OBVIOUS
<1>2. by = [u \in S |-> IF u = v THEN x ELSE y] BY <1>1 DEF Replace
<1> QED BY <1>1, <1>2

LEMMA SubstIs ==
    ASSUME NEW v, NEW x, NEW w, NEW y, NEW by, by = Replace(v, x, w, y), NEW u
    PROVE  /\ u = v => Subst(u, by) = x
           /\ u = w /\ v # w => Subst(u, by) = y
           /\ u # v /\ u # w => Subst(u, by) = u
<1>1. PICK S : S = {v, w} OBVIOUS
<1>2. by = [t \in S |-> IF t = v THEN x ELSE y] BY <1>1 DEF Replace
<1>3. DOMAIN by = {v, w} /\ by[v] = x /\ (v # w => by[w] = y) BY <1>1, <1>2
<1> QED BY <1>3 DEF Subst

\* How many values the nodes of each operation result in.
LEMMA NumValuesOf ==
    ASSUME NEW d, NEW P, NEW n
    PROVE  /\ d[n].op \in {"LOAD"} \cup Loads =>
                NumValues(d, P, n) = IF n \in P \/ d[n].op = "RM_POST" THEN 2 ELSE 1
           /\ d[n].op \in {"STORE"} \cup Stores => NumValues(d, P, n) = IF n \in P THEN 1 ELSE 0
           /\ d[n].op \in {"BIN", "RR"} => NumValues(d, P, n) = 1
           /\ d[n].op = "ENTRY" => NumValues(d, P, n) = 0
<1>1. PICK o : o = d[n].op OBVIOUS
<1>2. CASE o \in {"LOAD"} \cup Loads
  <2>1. o \notin {"STORE", "BIN", "RR", "ENTRY"} \cup Stores BY <1>2 DEF Loads, Stores
  <2>2. NumValues(d, P, n) = IF n \in P \/ o = "RM_POST" THEN 2 ELSE 1
    BY <1>1, <1>2 DEF NumValues, Loads, Stores
  <2> QED BY <1>1, <2>1, <2>2
<1>3. CASE o \in {"STORE"} \cup Stores
  <2>1. o \notin {"LOAD", "BIN", "RR", "ENTRY"} \cup Loads BY <1>3 DEF Loads, Stores
  <2>2. NumValues(d, P, n) = IF n \in P THEN 1 ELSE 0
    BY <1>1, <1>3, <2>1 DEF NumValues, Loads, Stores
  <2> QED BY <1>1, <2>1, <2>2
<1>4. CASE o \in {"BIN", "RR", "ENTRY"}
  BY <1>1, <1>4 DEF NumValues, Loads, Stores
<1> QED BY <1>1, <1>2, <1>3, <1>4

\* Where the results of load l go when node n becomes the instruction that loads.
LEMMA TransferCarries ==
    ASSUME NEW d, NEW n \in DOMAIN d \ {1}, NEW l \in DOMAIN d \ {1}, n # l, NEW e, NEW P,
           \A m \in DOMAIN d \ {n} : e[m].op = d[m].op,
           d[l].op = "LOAD", e[n].op \in Instructions,
           NumValues(e, P, n) = NumValues(d, P, l),
           d[n].op = "BIN" \/ (d[n].op = "STORE" /\ NumValues(e, P, n) = NumValues(d, P, n)),
           NEW by, by = Transfer(n, l)
    PROVE  Carries(d, P, e, P, by)
<1> SUFFICES ASSUME NEW x \in DOMAIN d, NEW y \in 0 .. 2, NEW v, v = <<x, y>>
             PROVE  /\ IsChain(d, P, v) => IsChain(e, P, Subst(v, by))
                    /\ IsData(d, P, v) => IsData(e, P, Subst(v, by))
  BY DEF Carries, Values
<1>1. v[1] = x /\ v[2] = y OBVIOUS
<1>2. PICK c : c = <<n, 2>> OBVIOUS
<1>3. PICK w : w = <<n, 1>> OBVIOUS
<1>4. c[1] = n /\ c[2] = 2 /\ w[1] = n /\ w[2] = 1 BY <1>2, <1>3
<1>5. PICK r : r = Replace(<<l, 2>>, c, <<l, 1>>, w) OBVIOUS
<1>6. by = r BY <1>2, <1>3, <1>5 DEF Transfer
<1>7. PICK k \in {1, 2} : k = NumValues(d, P, l) BY NumValuesOf
<1>8. CASE x = l
  <2>1. /\ y = 2 => Subst(v, r) = c
        /\ y = 1 => Subst(v, r) = w
        /\ y = 0 => Subst(v, r) = v
    <3>1. PICK a : a = <<l, 2>> OBVIOUS
    <3>2. PICK b : b = <<l, 1>> OBVIOUS
    <3>3. r = Replace(a, c, b, w) BY <1>5, <3>1, <3>2
    <3>4. a # b BY <3>1, <3>2
    <3>5. /\ v = a => Subst(v, r) = c
          /\ v = b => Subst(v, r) = w
          /\ v # a /\ v # b => Subst(v, r) = v
      BY <3>3, <3>4, SubstIs
    <3>6. /\ y = 2 => v = a
          /\ y = 1 => v = b
          /\ y = 0 => v # a /\ v # b
      BY <1>8, <3>1, <3>2
    <3> QED BY <3>5, <3>6
  <2>2. e[x].op = "LOAD" /\ NumValues(e, P, x) = k
    <3>1. e[x].op = "LOAD" BY <1>8
    <3> QED BY <1>7, <1>8, <3>1, NumValuesOf
  <2>3. v # NoRegister BY <1>1, <1>8 DEF NoRegister
  <2>4. IsData(d, P, v) => y < k BY <1>1, <1>7, <1>8, <2>3 DEF IsData, IsValue
  <2>5. IsChain(d, P, v) => y = k BY <1>1, <1>7, <1>8 DEF IsChain
  <2>6. CASE y = 0
    <3>1. IsData(e, P, v) BY <1>1, <2>2, <2>6 DEF IsData, IsValue
    <3> QED BY <1>6, <2>1, <2>5, <2>6, <3>1
  <2>7. CASE y = 1
    <3>1. k = 2 => IsData(e, P, w) BY <1>4, <1>7 DEF IsData, IsValue
    <3>2. k = 1 => IsChain(e, P, w) BY <1>4, <1>7 DEF IsChain
    <3> QED BY <1>6, <2>1, <2>4, <2>5, <2>7, <3>1, <3>2
  <2>8. CASE y = 2
    <3>1. k = 2 => IsChain(e, P, c) BY <1>4, <1>7 DEF IsChain
    <3> QED BY <1>6, <2>1, <2>4, <2>5, <2>8, <3>1
  <2> QED BY <2>6, <2>7, <2>8
<1>9. CASE x # l
  <2>1. Subst(v, by) = v
    <3>1. PICK a : a = <<l, 2>> OBVIOUS
    <3>2. PICK b : b = <<l, 1>> OBVIOUS
    <3>3. r = Replace(a, c, b, w) BY <1>5, <3>1, <3>2
    <3>4. v # a /\ v # b BY <1>9, <3>1, <3>2
    <3> QED BY <1>6, <3>3, <3>4, SubstIs
  <2>2. CASE x # n
    <3>1. e[v[1]].op = d[v[1]].op BY <1>1, <2>2
    <3> QED BY <2>1, <3>1, OthersCarried
  <2>3. CASE x = n
    <3>1. v # NoRegister BY <1>1, <2>3 DEF NoRegister
    <3>2. CASE d[n].op = "BIN"
      <4>1. NumValues(d, P, n) = 1 BY <3>2, NumValuesOf
      <4>2. IsData(d, P, v) => y < 1 BY <1>1, <2>3, <3>1, <4>1 DEF IsData, IsValue
      <4>3. ~IsChain(d, P, v)
        BY <1>1, <2>3, <3>2 DEF IsChain, Accesses, Instructions, Loads, Stores
      <4>4. y < 1 => IsData(e, P, v) BY <1>1, <1>7, <2>3 DEF IsData, IsValue
      <4> QED BY <2>1, <4>2, <4>3, <4>4
    <3>3. CASE d[n].op = "STORE" /\ NumValues(e, P, n) = NumValues(d, P, n)
      <4>1. IsData(d, P, v) => IsData(e, P, v) BY <1>1, <2>3, <3>3 DEF IsData, IsValue
      <4>2. IsChain(d, P, v) => IsChain(e, P, v) BY <1>1, <2>3, <3>3 DEF IsChain
      <4> QED BY <2>1, <4>1, <4>2
    <3> QED BY <3>2, <3>3
  <2> QED BY <2>2, <2>3
<1> QED BY <1>8, <1>9

\* What ReplaceUses is asked for when access n and addition a become one.
Increment(d, n, a) ==
    IF d[n].op = "LOAD" THEN Replace(<<n, 1>>, <<n, 2>>, <<a, 0>>, <<n, 1>>)
                        ELSE Replace(<<n, 0>>, <<n, 1>>, <<a, 0>>, <<n, 0>>)

(* Where the addition and the chain of an access go when the access does    *)
(* the addition.                                                           *)
LEMMA IncrementCarries ==
    ASSUME NEW d, NEW n \in DOMAIN d \ {1}, NEW a \in DOMAIN d \ {1}, n # a, NEW e, NEW P,
           \A m \in DOMAIN d : e[m].op = d[m].op,
           d[n].op \in Accesses, n \notin P, d[a].op = "BIN",
           NEW by, by = Increment(d, n, a)
    PROVE  Carries(d, P, e, P \cup {n}, by)
<1> DEFINE Q == P \cup {n}
<1> HIDE DEF Q
<1> SUFFICES ASSUME NEW x \in DOMAIN d, NEW y \in 0 .. 2, NEW v, v = <<x, y>>
             PROVE  /\ IsChain(d, P, v) => IsChain(e, Q, Subst(v, by))
                    /\ IsData(d, P, v) => IsData(e, Q, Subst(v, by))
  BY DEF Carries, Values, Q
<1>1. v[1] = x /\ v[2] = y OBVIOUS
<1>2. PICK k \in {0, 1} : k = (IF d[n].op = "LOAD" THEN 1 ELSE 0) OBVIOUS
<1>3. NumValues(d, P, n) = k /\ NumValues(e, Q, n) = k + 1
  BY <1>2, NumValuesOf DEF Accesses, Q
<1>4. PICK s : s = <<n, k>> OBVIOUS
<1>5. PICK t : t = <<n, k + 1>> OBVIOUS
<1>6. PICK u : u = <<a, 0>> OBVIOUS
<1>7. s[1] = n /\ s[2] = k /\ t[1] = n /\ t[2] = k + 1 BY <1>4, <1>5
<1>8. by = Replace(s, t, u, s)
  <2>1. CASE d[n].op = "LOAD"
    <3>1. k = 1 /\ k + 1 = 2 BY <1>2, <2>1
    <3>2. s = <<n, 1>> /\ t = <<n, 2>> BY <1>4, <1>5, <3>1
    <3> QED BY <1>6, <2>1, <3>2 DEF Increment
  <2>2. CASE d[n].op # "LOAD"
    <3>1. k = 0 /\ k + 1 = 1 BY <1>2, <2>2
    <3>2. s = <<n, 0>> /\ t = <<n, 1>> BY <1>4, <1>5, <3>1
    <3> QED BY <1>6, <2>2, <3>2 DEF Increment
  <2> QED BY <2>1, <2>2
<1>9. /\ v = s => Subst(v, by) = t
      /\ v = u => Subst(v, by) = s
      /\ v # s /\ v # u => Subst(v, by) = v
  <2>1. s # u BY <1>4, <1>6
  <2>2. PICK r : r = Replace(s, t, u, s) OBVIOUS
  <2>3. /\ v = s => Subst(v, r) = t
        /\ v = u => Subst(v, r) = s
        /\ v # s /\ v # u => Subst(v, r) = v
    BY <2>1, <2>2, SubstIs
  <2> QED BY <1>8, <2>2, <2>3
<1>10. CASE x = n
  <2>1. v # NoRegister /\ v # u BY <1>1, <1>6, <1>10 DEF NoRegister
  <2>2. IsData(d, P, v) => y < k BY <1>1, <1>3, <1>10, <2>1 DEF IsData, IsValue
  <2>3. IsChain(d, P, v) => y = k BY <1>1, <1>3, <1>10 DEF IsChain
  <2>4. y < k => IsData(e, Q, v) BY <1>1, <1>3, <1>10 DEF IsData, IsValue
  <2>5. IsChain(e, Q, t) BY <1>3, <1>7 DEF IsChain
  <2>6. y = k <=> v = s BY <1>4, <1>10
  <2> QED BY <1>9, <2>1, <2>2, <2>3, <2>4, <2>5, <2>6
<1>11. CASE x = a
  <2>1. v # NoRegister /\ v # s BY <1>1, <1>4, <1>11 DEF NoRegister
  <2>2. NumValues(d, P, a) = 1 BY NumValuesOf
  <2>3. IsData(d, P, v) => y < 1 BY <1>1, <1>11, <2>1, <2>2 DEF IsData, IsValue
  <2>4. ~IsChain(d, P, v) BY <1>1, <1>11 DEF IsChain, Accesses, Instructions, Loads, Stores
  <2>5. y < 1 => v = u BY <1>6, <1>11
  <2>6. IsData(e, Q, s) BY <1>3, <1>7 DEF IsData, IsValue
  <2> QED BY <1>9, <2>3, <2>4, <2>5, <2>6
<1>12. CASE x # n /\ x # a
  <2>1. v # s /\ v # u BY <1>4, <1>6, <1>12
  <2>2. e[v[1]].op = d[v[1]].op /\ (v[1] \in P <=> v[1] \in Q) BY <1>1, <1>12 DEF Q
  <2>3. /\ IsChain(d, P, v) => IsChain(e, Q, v)
        /\ IsData(d, P, v) => IsData(e, Q, v)
    BY <2>2, OthersCarried
  <2> QED BY <1>9, <2>1, <2>3
<1> QED BY <1>10, <1>11, <1>12

-----------------------------------------------------------------------------
(* The invariant of selection.                                             *)

\* The registers that hold something when a block starts.
LiveIn == {r \in Int : \A i \in Inputs : i.reg[r] \in Register}

\* What selection has done to node n.
Recorded(d, indexed, chosen, n) ==
    /\ d[n].imm \in Int
    /\ d[n].op = "REG" => d[n].imm \in LiveIn
    /\ n \in indexed => d[n].op \in Accesses \cup {"RM_POST", "MR_POST"}
    /\ d[n].op = "MR_POST" => n \in indexed
    /\ d[n].op \in Instructions \cup {"RR"} => n \in chosen

Bounded(d) ==
    /\ 1 \in DOMAIN d /\ d[1].op = "ENTRY" /\ OperandNodes(d, 1) = {}
    /\ d[Len(d)].op = "END"

Sound(d, indexed, chosen) ==
    /\ WellFormed(d) /\ Sized(d) /\ Bounded(d)
    /\ WellTyped(d, indexed)
    /\ Acyclic(d)
    /\ indexed \subseteq DOMAIN d /\ chosen \subseteq DOMAIN d
    /\ \A n \in DOMAIN d : Recorded(d, indexed, chosen, n)

GraphInv == Sound(dag, post, selected)

\* What Become does to the graph.
Became(d, n, node, by, e) == e = ReplaceUses([d EXCEPT ![n] = node], by)

\* A node can be replaced in a graph that is well formed.
LEMMA Rewirable ==
    ASSUME NEW d, WellFormed(d), NEW n \in DOMAIN d, d[n].op # "GV",
           NEW node, Shaped(node), node.op \in Instructions \cup {"RR"}, Names(d, node),
           NEW by, NEW e, Became(d, n, node, by, e)
    PROVE  /\ Rewired(d, n, node, by, e)
           /\ e[n].op = node.op /\ e[n].imm = node.imm
           /\ \A m \in DOMAIN d \ {n} : e[m].op = d[m].op /\ e[m].imm = d[m].imm
<1>1. Rewired(d, n, node, by, e) BY SettingKeepsForm DEF Rewired, Became
<1>2. PICK b : b = [d EXCEPT ![n] = node] OBVIOUS
<1>3. WellFormed(b) /\ e = ReplaceUses(b, by) BY <1>1, <1>2 DEF Rewired
<1>4. DOMAIN b = DOMAIN d /\ b[n] = node /\ \A m \in DOMAIN d \ {n} : b[m] = d[m] BY <1>2
<1>5. ASSUME NEW m \in DOMAIN d PROVE e[m].op = b[m].op /\ e[m].imm = b[m].imm
  <2>1. m \in DOMAIN b /\ WellFormed(b) BY <1>3, <1>4
  <2>2. ReplaceUses(b, by)[m].op = b[m].op /\ ReplaceUses(b, by)[m].imm = b[m].imm
    <3>1. Redirected(ReplaceUses(b, by)[m], b[m], by) BY <2>1, UsesReplaced
    <3> QED BY <3>1 DEF Redirected
  <2> QED BY <1>3, <2>2
<1> QED BY <1>1, <1>4, <1>5

\* A graph stays sound when node n becomes an instruction that depends on N.
LEMMA BecomingKeepsSound ==
    ASSUME NEW d, NEW P, NEW S, Sound(d, P, S), NEW n \in DOMAIN d, d[n].op \in Accesses \cup {"BIN"},
           NEW node, Shaped(node), node.op \in Instructions \cup {"RR"}, Names(d, node),
           node.imm \in Int, node.ops \in Seq(Values(d)), Counted(node), Fits(d, P, node),
           node.op = "MR_POST" => n \in P, n \in P => node.op \in {"RM_POST", "MR_POST"},
           NEW N \in SUBSET DOMAIN d, Closed(d, N), n \notin N,
           \A k \in DOMAIN node.ops : node.ops[k][1] \in N,
           NEW by, Renames(d, by), \A v \in DOMAIN by : by[v] \in Values(d),
           \A v \in DOMAIN by : v[1] \notin N /\ by[v][1] = n,
           NEW e, Became(d, n, node, by, e), Carries(d, P, e, P, by)
    PROVE  Sound(e, P, S \cup {n})
<1>1. WellFormed(d) /\ Sized(d) /\ WellTyped(d, P) /\ Acyclic(d) /\ Bounded(d) BY DEF Sound
<1>2. d[n].op # "GV" BY DEF Accesses
<1>3. WellFormed(e)
  <2>1. WellFormed(ReplaceUses([d EXCEPT ![n] = node], by)) BY <1>1, <1>2, BecomingKeepsForm
  <2> QED BY <2>1 DEF Became
<1>4. /\ Rewired(d, n, node, by, e)
      /\ e[n].op = node.op /\ e[n].imm = node.imm
      /\ \A m \in DOMAIN d \ {n} : e[m].op = d[m].op /\ e[m].imm = d[m].imm
  BY <1>1, <1>2, Rewirable
<1>5. Sized(e) /\ WellTyped(e, P) BY <1>1, <1>4, RewiringKeepsTypes
<1>6. Linked(d) /\ Linked(e) BY <1>1, <1>3, <1>5, SizedIsLinked
<1>7. Acyclic(e) BY <1>1, <1>4, <1>6, TakingOverKeepsAcyclic
<1>8. DOMAIN e = DOMAIN d BY <1>4 DEF Rewired, ReplaceUses
<1>9. n # 1 /\ n # Len(d) BY <1>1 DEF Bounded, Accesses
<1>10. Bounded(e)
  <2>1. Len(e) = Len(d) /\ Len(d) \in DOMAIN d
    <3>1. Len(d) \in Nat /\ DOMAIN d = 1 .. Len(d) /\ Len(e) \in Nat /\ DOMAIN e = 1 .. Len(e)
      BY <1>1, <1>3 DEF WellFormed
    <3>2. Len(e) = Len(d) BY <1>8, <3>1, IntervalEnd
    <3>3. 1 \in DOMAIN d BY <1>1 DEF Bounded
    <3> QED BY <3>1, <3>2, <3>3
  <2>2. OperandNodes(e, 1) = {}
    <3>1. PICK m \in DOMAIN d : m = 1 BY <1>1 DEF Bounded
    <3>2. PICK i : i = d[m] OBVIOUS
    <3>3. e[m].ops = [k \in DOMAIN i.ops |-> Subst(i.ops[k], by)]
      BY <1>4, <1>9, <3>1, <3>2, RewiredNodes DEF Redirected
    <3>4. DOMAIN i.ops = {}
      <4>1. OperandNodes(d, m) = {} BY <1>1, <3>1 DEF Bounded
      <4>2. \A k \in DOMAIN i.ops : i.ops[k][1] \in OperandNodes(d, m) BY <3>2 DEF OperandNodes, Range
      <4> QED BY <4>1, <4>2
    <3>5. DOMAIN e[m].ops = {} BY <3>3, <3>4
    <3> QED BY <3>1, <3>5 DEF OperandNodes, Range
  <2> QED BY <1>1, <1>4, <1>8, <1>9, <2>1, <2>2 DEF Bounded
<1>11. ASSUME NEW m \in DOMAIN e PROVE Recorded(e, P, S \cup {n}, m)
  <2>1. Recorded(d, P, S, m) BY <1>8 DEF Sound
  <2>2. CASE m = n BY <1>4, <2>2 DEF Recorded, Instructions, Loads, Stores
  <2>3. CASE m # n BY <1>4, <1>8, <2>1, <2>3 DEF Recorded
  <2> QED BY <2>2, <2>3
<1> QED BY <1>3, <1>5, <1>7, <1>8, <1>10, <1>11 DEF Sound

\* Operand k of node i is one that its operation takes.
LEMMA OperandFits ==
    ASSUME NEW d, NEW P, NEW S, Sound(d, P, S), NEW n \in DOMAIN d, NEW k \in 1 .. Len(d[n].ops)
    PROVE  /\ k \in DOMAIN d[n].ops /\ d[n].ops[k] \in Values(d)
           /\ d[n].ops[k][1] \in OperandNodes(d, n) /\ d[n].ops[k][1] \in DOMAIN d
           /\ k \in Chains(d[n]) => IsChain(d, P, d[n].ops[k])
           /\ k \notin Chains(d[n]) => IsData(d, P, d[n].ops[k])
<1>1. PICK s \in Seq(Values(d)) : s = d[n].ops BY DEF Sound, Sized
<1>2. k \in DOMAIN s /\ s[k] \in Values(d) BY <1>1, LenProperties, ElementOfSeq
<1>3. s[k][1] \in OperandNodes(d, n) BY <1>1, <1>2 DEF OperandNodes, Range
<1>4. s[k][1] \in DOMAIN d BY <1>2 DEF Values
<1>5. WellTyped(d, P) BY DEF Sound
<1>6. /\ k \in Chains(d[n]) => IsChain(d, P, s[k])
      /\ k \notin Chains(d[n]) => IsData(d, P, s[k])
  BY <1>1, <1>2, <1>5 DEF WellTyped, IsData
<1> QED BY <1>1, <1>2, <1>3, <1>4, <1>6

\* The operands of the nodes that selection looks at.
LEMMA OperandsOf ==
    ASSUME NEW d, NEW P, NEW S, Sound(d, P, S), NEW n \in DOMAIN d
    PROVE  /\ d[n].op = "BIN" => \A k \in {1, 2} :
                d[n].ops[k] \in Values(d) /\ IsData(d, P, d[n].ops[k])
                /\ d[n].ops[k][1] \in OperandNodes(d, n)
           /\ d[n].op = "LOAD" =>
                /\ d[n].ops[1] \in Values(d) /\ d[n].ops[2] \in Values(d)
                /\ IsChain(d, P, d[n].ops[1]) /\ IsData(d, P, d[n].ops[2])
                /\ d[n].ops[1][1] \in OperandNodes(d, n) /\ d[n].ops[2][1] \in OperandNodes(d, n)
           /\ d[n].op = "STORE" =>
                /\ d[n].ops[1] \in Values(d) /\ d[n].ops[2] \in Values(d) /\ d[n].ops[3] \in Values(d)
                /\ IsChain(d, P, d[n].ops[1])
                /\ IsData(d, P, d[n].ops[2]) /\ IsData(d, P, d[n].ops[3])
                /\ d[n].ops[1][1] \in OperandNodes(d, n) /\ d[n].ops[2][1] \in OperandNodes(d, n)
                /\ d[n].ops[3][1] \in OperandNodes(d, n)
<1>1. Counted(d[n]) BY DEF Sound, Sized
<1>2. ASSUME NEW k \in 1 .. Len(d[n].ops)
      PROVE  /\ d[n].ops[k] \in Values(d) /\ d[n].ops[k][1] \in OperandNodes(d, n)
             /\ k \in Chains(d[n]) => IsChain(d, P, d[n].ops[k])
             /\ k \notin Chains(d[n]) => IsData(d, P, d[n].ops[k])
  BY OperandFits
<1>3. CASE d[n].op = "BIN"
  <2>1. {1, 2} \subseteq 1 .. Len(d[n].ops)
    <3>1. Len(d[n].ops) = 2 BY <1>1, <1>3 DEF Counted
    <3> QED BY <3>1
  <2>2. Chains(d[n]) = {} BY <1>3 DEF Chains, Accesses, Instructions, Loads, Stores
  <2> QED BY <1>2, <1>3, <2>1, <2>2
<1>4. CASE d[n].op = "LOAD"
  <2>1. 1 \in 1 .. Len(d[n].ops) /\ 2 \in 1 .. Len(d[n].ops) BY <1>1, <1>4 DEF Counted
  <2>2. Chains(d[n]) = {1} BY <1>4 DEF Chains, Accesses, Instructions, Loads, Stores
  <2> QED BY <1>2, <1>4, <2>1, <2>2
<1>5. CASE d[n].op = "STORE"
  <2>1. 1 \in 1 .. Len(d[n].ops) /\ 2 \in 1 .. Len(d[n].ops) /\ 3 \in 1 .. Len(d[n].ops)
    BY <1>1, <1>5 DEF Counted
  <2>2. Chains(d[n]) = {1} BY <1>5 DEF Chains, Accesses, Instructions, Loads, Stores
  <2> QED BY <1>2, <1>5, <2>1, <2>2
<1> QED BY <1>3, <1>4, <1>5

LEMMA SoundIsMatchable ==
    ASSUME NEW d, NEW P, NEW S, Sound(d, P, S)
    PROVE  Matchable(d) /\ Linked(d) /\ Acyclic(d)
<1>1. Linked(d) /\ Acyclic(d) BY SizedIsLinked DEF Sound
<1>2. ASSUME NEW n \in DOMAIN d
      PROVE  /\ d[n].imm \in Int
             /\ d[n].op = "BIN" => \A i \in {1, 2} : i \in DOMAIN d[n].ops /\ d[n].ops[i] \in Values(d)
  <2>1. d[n].imm \in Int BY DEF Sound, Recorded
  <2>2. ASSUME d[n].op = "BIN", NEW i \in {1, 2}
        PROVE  i \in DOMAIN d[n].ops /\ d[n].ops[i] \in Values(d)
    <3>1. Counted(d[n]) BY DEF Sound, Sized
    <3>2. Len(d[n].ops) = 2 BY <2>2, <3>1 DEF Counted
    <3>3. i \in 1 .. Len(d[n].ops) BY <3>2
    <3> QED BY <3>3, OperandFits
  <2> QED BY <2>1, <2>2
<1> QED BY <1>1, <1>2 DEF Matchable

\* Operand v of an address is replaced by a value the address consists of, or
\* by no register.
Addresses(d, P, v, base) ==
    /\ base \in Values(d) /\ IsData(d, P, base)
    /\ base[1] \in Reached(d, v[1]) \cup {1}

\* The base of a matched address is a value the address consists of, or none.
LEMMA MatchedBase ==
    ASSUME NEW d, NEW P, NEW S, Sound(d, P, S), NEW v \in Values(d), IsData(d, P, v),
           NEW m \in SelectAddr(d, v)
    PROVE  /\ m.base # NoValue => Addresses(d, P, v, m.base)
           /\ m.disp \in Int
<1> DEFINE V == {b \in Values(d) : b[1] \in Reached(d, v[1]) /\ IsData(d, P, b)}
<1>1. Matchable(d) /\ Linked(d) BY SoundIsMatchable
<1>2. v[1] \in DOMAIN d BY DEF Values
<1>3. /\ v[1] \in Reached(d, v[1]) /\ Reached(d, v[1]) \subseteq DOMAIN d
      /\ Closed(d, Reached(d, v[1]))
  BY <1>1, <1>2, ReachedIsLeast
<1>4. ASSUME NEW b \in V, d[b[1]].op = "BIN" PROVE d[b[1]].ops[1] \in V /\ d[b[1]].ops[2] \in V
  <2>1. PICK n \in DOMAIN d : n = b[1] BY <1>3
  <2>2. ASSUME NEW k \in {1, 2} PROVE d[n].ops[k] \in V
    <3>1. /\ d[n].ops[k] \in Values(d) /\ IsData(d, P, d[n].ops[k])
          /\ d[n].ops[k][1] \in OperandNodes(d, n)
      BY <1>4, <2>1, OperandsOf
    <3>2. d[n].ops[k][1] \in Reached(d, v[1]) BY <1>3, <2>1, <3>1 DEF Closed
    <3> QED BY <3>1, <3>2
  <2> QED BY <2>1, <2>2
<1>5. V \in SUBSET Values(d) /\ v \in V BY <1>3
<1>6. EmptyMode \in AddressModes(d) /\ EmptyMode.base = NoValue BY EmptyModeIsOne
<1> HIDE DEF V
<1>7. MatchAddress(d, v, EmptyMode) \subseteq Adds(d, V, EmptyMode)
  BY <1>1, <1>4, <1>5, <1>6, MatchAddressAdds
<1>8. PICK am \in Adds(d, V, EmptyMode) :
        m = [base |-> am.base,
             disp |-> IF am.blockAddr # NoNode THEN d[am.blockAddr].imm ELSE am.disp]
  BY <1>7 DEF SelectAddr
<1>9. am \in AddressModes(d) /\ (am.base = NoValue \/ am.base \in V) BY <1>6, <1>8 DEF Adds
<1>10. am.disp \in Int /\ am.blockAddr \in {NoNode} \cup DOMAIN d
  BY <1>9, DispsAreInts DEF AddressModes
<1>11. m.disp \in Int BY <1>1, <1>8, <1>10 DEF Matchable
<1>12. m.base # NoValue => Addresses(d, P, v, m.base)
  BY <1>8, <1>9 DEF V, Addresses
<1> QED BY <1>11, <1>12

\* Register 0 can be an operand.
LEMMA NoRegisterAddresses ==
    ASSUME NEW d, NEW P, NEW S, Sound(d, P, S), NEW v
    PROVE  Addresses(d, P, v, NoRegister)
BY DEF Sound, Bounded, Addresses, NoRegister, IsData, Values

\* What an access may have for the address v.
LEMMA OperandAddresses ==
    ASSUME GraphInv, NEW v \in Values(dag), IsData(dag, post, v), NEW m \in MemoryOperands(v)
    PROVE  Addresses(dag, post, v, m.base) /\ m.disp \in Int
<1>1. PICK d, P, S : d = dag /\ P = post /\ S = selected OBVIOUS
<1>2. Sound(d, P, S) /\ v \in Values(d) /\ IsData(d, P, v) BY <1>1 DEF GraphInv
<1>3. PICK a \in SelectAddr(d, v) :
        m = [form |-> "mem", base |-> IF a.base = NoValue THEN NoRegister ELSE a.base, disp |-> a.disp]
  BY <1>1 DEF MemoryOperands
<1>4. /\ a.base # NoValue => Addresses(d, P, v, a.base)
      /\ a.disp \in Int
  BY <1>2, MatchedBase
<1>5. Addresses(d, P, v, NoRegister) BY <1>2, NoRegisterAddresses
<1> QED BY <1>1, <1>3, <1>4, <1>5

\* So can the base of whatever mode a move has.
LEMMA ModeAddresses ==
    ASSUME GraphInv, NEW v \in Values(dag), IsData(dag, post, v), NEW m \in Modes(v)
    PROVE  Addresses(dag, post, v, m.base) /\ m.disp \in Int
<1>1. ASSUME m.base = v, m.disp = 0 PROVE Addresses(dag, post, v, m.base) /\ m.disp \in Int
  <2>1. PICK d, P, S : d = dag /\ P = post /\ S = selected OBVIOUS
  <2>2. Linked(d) BY <2>1, SoundIsMatchable DEF GraphInv
  <2>3. v[1] \in DOMAIN d BY <2>1 DEF Values
  <2>4. v[1] \in Reached(d, v[1]) BY <2>2, <2>3, ReachedIsLeast
  <2> QED BY <1>1, <2>1, <2>4 DEF Addresses
<1>2. CASE m = [form |-> "abs", base |-> v, disp |-> 0] BY <1>1, <1>2
<1>3. CASE m = [form |-> "reg", base |-> v, disp |-> 0] BY <1>1, <1>3
<1>4. CASE m \in MemoryOperands(v) BY <1>4, OperandAddresses
<1>5. \/ m = [form |-> "abs", base |-> v, disp |-> 0]
      \/ m = [form |-> "reg", base |-> v, disp |-> 0]
      \/ m \in MemoryOperands(v)
  BY DEF Modes, FirstMatch
<1> QED BY <1>2, <1>3, <1>4, <1>5

-----------------------------------------------------------------------------
(* Instructions in the place of their nodes.                               *)

\* A node of the selector becomes an instruction of its kind.
Kind(op, indexed, made) ==
    \/ op = "LOAD" /\ made \in Loads /\ (indexed <=> made = "RM_POST")
    \/ op = "STORE" /\ made \in Stores /\ (indexed <=> made = "MR_POST")
    \/ op = "BIN" /\ made = "RR"

\* Node n becomes an instruction of its kind, and keeps what its users use.
LEMMA InPlaceKeepsSound ==
    ASSUME NEW d, NEW P, NEW S, Sound(d, P, S), NEW n \in DOMAIN d,
           NEW node, Shaped(node), Kind(d[n].op, n \in P, node.op), Names(d, node),
           node.imm \in Int, node.ops \in Seq(Values(d)), Counted(node), Fits(d, P, node),
           \A k \in DOMAIN node.ops : node.ops[k][1] \in Under(d, n),
           NEW e, Became(d, n, node, <<>>, e)
    PROVE  Sound(e, P, S \cup {n})
<1>1. Linked(d) /\ Acyclic(d) /\ Bounded(d) /\ WellFormed(d) BY SoundIsMatchable DEF Sound
<1>2. d[n].op \in Accesses \cup {"BIN"} /\ node.op \in Instructions \cup {"RR"}
  BY DEF Kind, Accesses, Instructions
<1>3. n # 1 BY <1>1, <1>2 DEF Bounded, Accesses
<1>4. PICK N : N = Under(d, n) OBVIOUS
<1>5. N \in SUBSET DOMAIN d /\ Closed(d, N) /\ n \notin N
  BY <1>1, <1>3, <1>4, UnderIsClosed DEF Bounded
<1>6. \A k \in DOMAIN node.ops : node.ops[k][1] \in N BY <1>4
<1>7. DOMAIN <<>> = {} OBVIOUS
<1>8. PICK by : by = <<>> OBVIOUS
<1>9. DOMAIN by = {} BY <1>7, <1>8
<1>10. Became(d, n, node, by, e) BY <1>8
<1>11. Renames(d, by) BY <1>9 DEF Renames
<1>12. /\ e[n].op = node.op
       /\ \A m \in DOMAIN d \ {n} : e[m].op = d[m].op
  <2>1. d[n].op # "GV" BY <1>2 DEF Accesses
  <2> QED BY <1>1, <1>2, <1>10, <2>1, Rewirable
<1>13. Recorded(d, P, S, n) BY DEF Sound
<1>14. NumValues(e, P, n) = NumValues(d, P, n)
  <2>1. CASE d[n].op = "LOAD"
    <3>1. e[n].op \in Loads /\ (n \in P <=> e[n].op = "RM_POST") BY <1>12, <2>1 DEF Kind
    <3> QED BY <2>1, <3>1, NumValuesOf
  <2>2. CASE d[n].op = "STORE"
    <3>1. e[n].op \in Stores BY <1>12, <2>2 DEF Kind
    <3> QED BY <2>2, <3>1, NumValuesOf
  <2>3. CASE d[n].op = "BIN"
    <3>1. e[n].op = "RR" BY <1>12, <2>3 DEF Kind
    <3> QED BY <2>3, <3>1, NumValuesOf
  <2> QED BY <1>2, <2>1, <2>2, <2>3 DEF Accesses
<1>15. d[n].op \in Accesses => e[n].op \in Instructions
  BY <1>12 DEF Kind, Accesses, Instructions
<1>16. Carries(d, P, e, P, by) BY <1>2, <1>8, <1>12, <1>14, <1>15, AlikeCarried
<1>17. /\ node.op = "MR_POST" => n \in P
       /\ n \in P => node.op \in {"RM_POST", "MR_POST"}
  <2>1. d[n].op = "BIN" => n \notin P BY <1>13 DEF Recorded, Accesses
  <2> QED BY <2>1 DEF Kind, Loads
<1>18. \A v \in DOMAIN by : by[v] \in Values(d) /\ v[1] \notin N /\ by[v][1] = n BY <1>9
<1> QED BY <1>2, <1>5, <1>6, <1>10, <1>11, <1>16, <1>17, <1>18, BecomingKeepsSound

\* Node n becomes an instruction that loads in place of l.
LEMMA FoldingKeepsSound ==
    ASSUME NEW d, NEW P, NEW S, Sound(d, P, S), NEW n \in DOMAIN d, NEW l \in DOMAIN d,
           d[l].op = "LOAD",
           NEW node, Shaped(node), Names(d, node),
           \/ d[n].op = "BIN" /\ node.op = IF l \in P THEN "RM_POST" ELSE "RM"
           \/ d[n].op = "STORE" /\ n \in P /\ l \notin P /\ node.op = "MR_POST",
           node.imm \in Int, node.ops \in Seq(Values(d)), Counted(node), Fits(d, P, node),
           NEW N \in SUBSET DOMAIN d, Closed(d, N), n \notin N, l \notin N,
           \A k \in DOMAIN node.ops : node.ops[k][1] \in N,
           NEW e, Became(d, n, node, Transfer(n, l), e)
    PROVE  Sound(e, P, S \cup {n})
<1>1. Bounded(d) /\ WellFormed(d) BY DEF Sound
<1>2. d[n].op \in Accesses \cup {"BIN"} /\ node.op \in Instructions /\ n # l
  BY DEF Accesses, Instructions, Loads, Stores
<1>3. n # 1 /\ l # 1 BY <1>1, <1>2 DEF Bounded, Accesses
<1>4. PICK by : by = Transfer(n, l) OBVIOUS
<1>5. Became(d, n, node, by, e) BY <1>4
<1>6. PICK a : a = <<l, 2>> OBVIOUS
<1>7. PICK b : b = <<l, 1>> OBVIOUS
<1>8. PICK x : x = <<n, 2>> OBVIOUS
<1>9. PICK y : y = <<n, 1>> OBVIOUS
<1>10. by = Replace(a, x, b, y) BY <1>4, <1>6, <1>7, <1>8, <1>9 DEF Transfer
<1>11. a # b BY <1>6, <1>7
<1>12. DOMAIN by = {a, b} /\ by[a] = x /\ by[b] = y
  <2>1. PICK T : T = {a, b} OBVIOUS
  <2>2. by = [t \in T |-> IF t = a THEN x ELSE y] BY <1>10, <2>1 DEF Replace
  <2> QED BY <1>11, <2>1, <2>2
<1>13. /\ a[1] = l /\ b[1] = l /\ x[1] = n /\ y[1] = n
       /\ x \in Values(d) /\ y \in Values(d)
  BY <1>6, <1>7, <1>8, <1>9 DEF Values
<1>14. d[n].op # "GV" /\ d[l].op # "GV" BY <1>2 DEF Accesses
<1>15. Renames(d, by)
  <2>1. ASSUME NEW v \in DOMAIN by
        PROVE  v[1] \in DOMAIN d /\ d[v[1]].op # "GV" /\ by[v][1] \in DOMAIN d
    BY <1>12, <1>13, <1>14
  <2> QED BY <2>1 DEF Renames
<1>16. /\ e[n].op = node.op
       /\ \A m \in DOMAIN d \ {n} : e[m].op = d[m].op
  BY <1>1, <1>2, <1>5, <1>14, Rewirable
<1>17. Recorded(d, P, S, n) BY DEF Sound
<1>18. /\ NumValues(e, P, n) = NumValues(d, P, l)
       /\ d[n].op = "BIN" \/ (d[n].op = "STORE" /\ NumValues(e, P, n) = NumValues(d, P, n))
  <2>1. NumValues(d, P, l) = IF l \in P THEN 2 ELSE 1 BY NumValuesOf
  <2>2. CASE d[n].op = "BIN" /\ node.op = IF l \in P THEN "RM_POST" ELSE "RM"
    <3>1. n \notin P BY <1>17, <2>2 DEF Recorded, Accesses
    <3>2. e[n].op \in Loads /\ (l \in P <=> e[n].op = "RM_POST") BY <1>16, <2>2 DEF Loads
    <3>3. NumValues(e, P, n) = IF l \in P THEN 2 ELSE 1 BY <3>1, <3>2, NumValuesOf
    <3> QED BY <2>1, <2>2, <3>3
  <2>3. CASE d[n].op = "STORE" /\ n \in P /\ l \notin P /\ node.op = "MR_POST"
    <3>1. e[n].op \in Stores BY <1>16, <2>3 DEF Stores
    <3>2. NumValues(e, P, n) = 1 BY <2>3, <3>1, NumValuesOf
    <3>3. NumValues(d, P, n) = 1 BY <2>3, NumValuesOf
    <3> QED BY <2>1, <2>3, <3>2, <3>3
  <2> QED BY <2>2, <2>3
<1>19. Carries(d, P, e, P, by) BY <1>2, <1>3, <1>4, <1>16, <1>18, TransferCarries
<1>20. /\ node.op = "MR_POST" => n \in P
       /\ n \in P => node.op \in {"RM_POST", "MR_POST"}
  <2>1. d[n].op = "BIN" => n \notin P BY <1>17 DEF Recorded, Accesses
  <2> QED BY <2>1
<1>21. \A v \in DOMAIN by : by[v] \in Values(d) /\ v[1] \notin N /\ by[v][1] = n
  BY <1>12, <1>13
<1> QED BY <1>2, <1>5, <1>15, <1>19, <1>20, <1>21, BecomingKeepsSound

\* What a node that loads in place of l depends on: the other operands of m,
\* which uses l, and those of l.
Apart(d, m, l) ==
    {1} \cup UNION {Reached(d, o) : o \in (OperandNodes(d, m) \ {l}) \cup OperandNodes(d, l)}

\* What node n may have as operands when it takes over the results of load l.
LEMMA ApartIsClosed ==
    ASSUME NEW d, Linked(d), Acyclic(d), Bounded(d), NEW m \in DOMAIN d \ {1},
           NEW l \in OperandNodes(d, m), l # 1,
           \A o \in OperandNodes(d, m) \ {l} : l \notin Reached(d, o)
    PROVE  /\ Apart(d, m, l) \in SUBSET DOMAIN d /\ Closed(d, Apart(d, m, l))
           /\ l \notin Apart(d, m, l) /\ m \notin Apart(d, m, l)
           /\ Apart(d, m, l) \subseteq Reached(d, m) \cup {1}
           /\ \A o \in (OperandNodes(d, m) \ {l}) \cup OperandNodes(d, l) : Reached(d, o) \subseteq Apart(d, m, l)
<1> DEFINE O == (OperandNodes(d, m) \ {l}) \cup OperandNodes(d, l)
<1>1. 1 \in DOMAIN d /\ OperandNodes(d, 1) = {} BY DEF Bounded
<1>2. l \in DOMAIN d BY DEF Linked
<1>3. ASSUME NEW o \in O
      PROVE  /\ o \in DOMAIN d /\ Reached(d, o) \subseteq DOMAIN d /\ Closed(d, Reached(d, o))
             /\ l \notin Reached(d, o) /\ m \notin Reached(d, o)
             /\ Reached(d, o) \subseteq Reached(d, m)
  <2>1. o \in DOMAIN d BY <1>2 DEF Linked
  <2>2. Reached(d, o) \subseteq DOMAIN d /\ Closed(d, Reached(d, o)) BY <2>1, ReachedIsLeast
  <2>3. CASE o \in OperandNodes(d, m) \ {l}
    <3>1. m \notin Reached(d, o) BY <2>3 DEF Acyclic
    <3>2. Reached(d, o) \subseteq Reached(d, m) BY <2>3, ReachedFromOperand
    <3> QED BY <2>1, <2>2, <2>3, <3>1, <3>2
  <2>4. CASE o \in OperandNodes(d, l)
    <3>1. l \notin Reached(d, o) BY <1>2, <2>4 DEF Acyclic
    <3>2. Reached(d, o) \subseteq Reached(d, l) BY <1>2, <2>4, ReachedFromOperand
    <3>3. Reached(d, l) \subseteq Reached(d, m) BY ReachedFromOperand
    <3>4. m \notin Reached(d, l) BY DEF Acyclic
    <3> QED BY <2>1, <2>2, <3>1, <3>2, <3>3, <3>4
  <2> QED BY <2>3, <2>4
<1>4. Apart(d, m, l) = {1} \cup UNION {Reached(d, o) : o \in O} BY DEF Apart
<1> HIDE DEF O
<1>5. Closed(d, Apart(d, m, l))
  <2> SUFFICES ASSUME NEW x \in Apart(d, m, l), NEW y \in OperandNodes(d, x)
               PROVE  y \in Apart(d, m, l)
    BY DEF Closed
  <2>1. PICK o \in O : x \in Reached(d, o) BY <1>1, <1>4
  <2>2. y \in Reached(d, o) BY <1>3, <2>1 DEF Closed
  <2> QED BY <1>4, <2>2
<1>6. Apart(d, m, l) \in SUBSET DOMAIN d BY <1>1, <1>3, <1>4
<1>7. l \notin Apart(d, m, l) /\ m \notin Apart(d, m, l) BY <1>3, <1>4
<1>8. Apart(d, m, l) \subseteq Reached(d, m) \cup {1} BY <1>3, <1>4
<1>9. \A o \in O : Reached(d, o) \subseteq Apart(d, m, l) BY <1>4
<1> QED BY <1>5, <1>6, <1>7, <1>8, <1>9 DEF O

-----------------------------------------------------------------------------
(* The instructions selection makes are sound.                             *)

\* Operands that are a value, or a chain, of a node of N.
Usable(d, P, N, v) == v \in Values(d) /\ IsData(d, P, v) /\ v[1] \in N
Chained(d, P, N, v) == v \in Values(d) /\ IsChain(d, P, v) /\ v[1] \in N

\* A node whose operands are what its operation takes, all from N.
Made(d, P, N, node) ==
    /\ node.ops \in Seq(Values(d)) /\ Counted(node) /\ Fits(d, P, node)
    /\ \A k \in DOMAIN node.ops : node.ops[k][1] \in N

\* A load has an address and a chain.
LEMMA PlainMade ==
    ASSUME NEW d, NEW P, NEW N, NEW node, node.op \in Loads, node.alu = "-",
           NEW a, Usable(d, P, N, a), NEW c, Chained(d, P, N, c), node.ops = <<a, c>>
    PROVE  Made(d, P, N, node)
<1>1. PICK ops : ops = node.ops OBVIOUS
<1>2. ops = <<a, c>> /\ a \in Values(d) /\ c \in Values(d) BY <1>1 DEF Usable, Chained
<1>3. ops \in Seq(Values(d)) /\ Len(ops) = 2 /\ DOMAIN ops = {1, 2} /\ ops[1] = a /\ ops[2] = c
  BY <1>2
<1>4. Counted(node) BY <1>1, <1>3 DEF Counted, Loads, Stores
<1>5. Chains(node) = {2} BY <1>1, <1>3 DEF Chains, Loads, Stores, Instructions, Accesses
<1>6. Fits(d, P, node) BY <1>1, <1>3, <1>5 DEF Fits, Usable, Chained
<1> QED BY <1>1, <1>3, <1>4, <1>6 DEF Made, Usable, Chained

\* Stores, and loads that compute, have a second value.
LEMMA FoldedMade ==
    ASSUME NEW d, NEW P, NEW N, NEW node,
           node.op \in Stores \/ (node.op \in Loads /\ node.alu # "-"),
           NEW a, Usable(d, P, N, a), NEW b, Usable(d, P, N, b),
           NEW c, Chained(d, P, N, c), node.ops = <<a, b, c>>
    PROVE  Made(d, P, N, node)
<1>1. PICK ops : ops = node.ops OBVIOUS
<1>2. ops = <<a, b, c>> /\ a \in Values(d) /\ b \in Values(d) /\ c \in Values(d)
  BY <1>1 DEF Usable, Chained
<1>3. /\ ops \in Seq(Values(d)) /\ Len(ops) = 3 /\ DOMAIN ops = {1, 2, 3}
      /\ ops[1] = a /\ ops[2] = b /\ ops[3] = c
  BY <1>2
<1>4. Counted(node) BY <1>1, <1>3 DEF Counted, Loads, Stores
<1>5. Chains(node) = {3} BY <1>1, <1>3 DEF Chains, Loads, Stores, Instructions, Accesses
<1>6. Fits(d, P, node) BY <1>1, <1>3, <1>5 DEF Fits, Usable, Chained
<1> QED BY <1>1, <1>3, <1>4, <1>6 DEF Made, Usable, Chained

\* Operands of n, and what they depend on, are under n.
LEMMA UnderOperand ==
    ASSUME NEW d, Linked(d), NEW n \in DOMAIN d, NEW o \in OperandNodes(d, n)
    PROVE  /\ o \in Under(d, n) /\ Reached(d, o) \subseteq Under(d, n)
           /\ \A x \in OperandNodes(d, o) : x \in Under(d, n) /\ Reached(d, x) \subseteq Under(d, n)
<1>1. o \in DOMAIN d BY DEF Linked
<1>2. o \in Reached(d, o) /\ Reached(d, o) \subseteq Under(d, n) BY <1>1, ReachedIsLeast DEF Under
<1>3. ASSUME NEW x \in OperandNodes(d, o) PROVE x \in Reached(d, o) /\ Reached(d, x) \subseteq Reached(d, o)
  BY <1>1, ReachedFromOperand
<1> QED BY <1>2, <1>3

LEMMA AddressUnder ==
    ASSUME NEW d, NEW P, Linked(d), NEW n \in DOMAIN d, NEW v, v[1] \in OperandNodes(d, n),
           NEW base, Addresses(d, P, v, base)
    PROVE  Usable(d, P, Under(d, n), base)
<1>1. PICK o : o = v[1] OBVIOUS
<1>2. Reached(d, o) \subseteq Under(d, n) BY <1>1, UnderOperand
<1>3. 1 \in Under(d, n) BY DEF Under
<1> QED BY <1>1, <1>2, <1>3 DEF Addresses, Usable

\* Node n becomes an instruction of its own.
LEMMA BecomeInPlace ==
    ASSUME GraphInv, NEW n \in DOMAIN dag, NEW node, Shaped(node), Names(dag, node),
           Kind(dag[n].op, n \in post, node.op), node.imm \in Int,
           Made(dag, post, Under(dag, n), node), Become(n, node, <<>>)
    PROVE  GraphInv'
<1>1. PICK d, P, S, e : d = dag /\ P = post /\ S = selected /\ e = dag' OBVIOUS
<1>2. Became(d, n, node, <<>>, e) BY <1>1 DEF Become, Became
<1>3. post' = P /\ selected' = S \cup {n} BY <1>1 DEF Become
<1>4. Sound(d, P, S) /\ Made(d, P, Under(d, n), node) BY <1>1 DEF GraphInv
<1>5. Kind(d[n].op, n \in P, node.op) /\ Names(d, node) /\ n \in DOMAIN d BY <1>1
<1>6. Sound(e, P, S \cup {n}) BY <1>2, <1>4, <1>5, InPlaceKeepsSound DEF Made
<1> QED BY <1>1, <1>3, <1>6 DEF GraphInv

\* Node n becomes an instruction that does what load l did as well.
LEMMA BecomeFolding ==
    ASSUME GraphInv, NEW n \in DOMAIN dag, NEW l \in DOMAIN dag, dag[l].op = "LOAD",
           NEW node, Shaped(node), Names(dag, node),
           \/ dag[n].op = "BIN" /\ node.op = IF l \in post THEN "RM_POST" ELSE "RM"
           \/ dag[n].op = "STORE" /\ n \in post /\ l \notin post /\ node.op = "MR_POST",
           node.imm \in Int,
           NEW N \in SUBSET DOMAIN dag, Closed(dag, N), n \notin N, l \notin N,
           Made(dag, post, N, node), Become(n, node, Transfer(n, l))
    PROVE  GraphInv'
<1>1. PICK d, P, S, e : d = dag /\ P = post /\ S = selected /\ e = dag' OBVIOUS
<1>2. Became(d, n, node, Transfer(n, l), e) BY <1>1 DEF Become, Became
<1>3. post' = P /\ selected' = S \cup {n} BY <1>1 DEF Become
<1>4. Sound(d, P, S) /\ Made(d, P, N, node) BY <1>1 DEF GraphInv
<1>5. /\ Names(d, node) /\ n \in DOMAIN d /\ l \in DOMAIN d /\ d[l].op = "LOAD"
      /\ \/ d[n].op = "BIN" /\ node.op = IF l \in P THEN "RM_POST" ELSE "RM"
         \/ d[n].op = "STORE" /\ n \in P /\ l \notin P /\ node.op = "MR_POST"
      /\ N \in SUBSET DOMAIN d /\ Closed(d, N)
  BY <1>1
<1>6. Sound(e, P, S \cup {n}) BY <1>2, <1>4, <1>5, FoldingKeepsSound DEF Made
<1> QED BY <1>1, <1>3, <1>6 DEF GraphInv

\* No node uses a value twice that has one use.
LEMMA OneUse ==
    ASSUME GraphInv, NEW n \in Live, dag[n].op = "BIN", NEW v, HasOneUse(v)
    PROVE  ~(dag[n].ops[1] = v /\ dag[n].ops[2] = v)
<1> SUFFICES ASSUME dag[n].ops[1] = v, dag[n].ops[2] = v PROVE FALSE OBVIOUS
<1>1. PICK U : U = {u \in Live \X (1 .. 4) :
                      u[2] \in DOMAIN dag[u[1]].ops /\ dag[u[1]].ops[u[2]] = v}
  OBVIOUS
<1>2. Cardinality(U) = 1 BY <1>1 DEF HasOneUse
<1>3. IsFiniteSet(U)
  <2>1. Linked(dag)
    <3>1. PICK d, P, S : d = dag /\ P = post /\ S = selected OBVIOUS
    <3>2. Linked(d) BY <3>1, SoundIsMatchable DEF GraphInv
    <3> QED BY <3>1, <3>2
  <2>2. IsFiniteSet(Live) BY <2>1, FS_Subset DEF Live, Nodes, Linked
  <2>3. IsFiniteSet(1 .. 4)
    <3>1. PICK j \in Int, k \in Int : j = 1 /\ k = 4 OBVIOUS
    <3> QED BY <3>1, FS_Interval
  <2>4. IsFiniteSet(Live \X (1 .. 4)) BY <2>2, <2>3, FS_Product
  <2> QED BY <1>1, <2>4, FS_Subset
<1>4. 1 \in DOMAIN dag[n].ops /\ 2 \in DOMAIN dag[n].ops
  <2>1. PICK d, P, S : d = dag /\ P = post /\ S = selected OBVIOUS
  <2>2. Matchable(d) BY <2>1, SoundIsMatchable DEF GraphInv
  <2> QED BY <2>1, <2>2 DEF Matchable, Live, Nodes
<1>5. <<n, 1>> \in U /\ <<n, 2>> \in U BY <1>1, <1>4
<1>6. PICK x : U = {x} BY <1>2, <1>3, FS_Singleton
<1>7. <<n, 1>> = <<n, 2>> BY <1>5, <1>6
<1> QED BY <1>7

\* What a graph that is sound is, whatever was selected.
LEMMA GraphFacts ==
    ASSUME GraphInv
    PROVE  /\ FormInv /\ Linked(dag) /\ Acyclic(dag) /\ Bounded(dag)
           /\ Nodes = DOMAIN dag /\ 1 \in DOMAIN dag
           /\ \A n \in DOMAIN dag : dag[n].op \in Accesses \cup {"BIN"} => n # 1 /\ dag[n].op # "GV"
<1>1. PICK d, P, S : d = dag /\ P = post /\ S = selected OBVIOUS
<1>2. Sound(d, P, S) BY <1>1 DEF GraphInv
<1>3. Linked(d) /\ Acyclic(d) BY <1>2, SoundIsMatchable
<1>4. WellFormed(d) /\ Bounded(d) BY <1>2 DEF Sound
<1>5. \A n \in DOMAIN d : d[n].op \in Accesses \cup {"BIN"} => n # 1 /\ d[n].op # "GV"
  BY <1>4 DEF Bounded, Accesses
<1>6. 1 \in DOMAIN d BY <1>4 DEF Bounded
<1> QED BY <1>1, <1>3, <1>4, <1>5, <1>6 DEF FormInv, Nodes

\* What access n has for operands, whose nodes are in N.
LEMMA LoadOperands ==
    ASSUME GraphInv, NEW n \in DOMAIN dag, dag[n].op = "LOAD",
           NEW N, OperandNodes(dag, n) \subseteq N
    PROVE  /\ Usable(dag, post, N, Ptr(n)) /\ Chained(dag, post, N, dag[n].ops[1])
           /\ Ptr(n)[1] \in OperandNodes(dag, n) /\ dag[n].ops[1][1] \in OperandNodes(dag, n)
<1>1. PICK d, P, S : d = dag /\ P = post /\ S = selected OBVIOUS
<1>2. Sound(d, P, S) /\ n \in DOMAIN d /\ d[n].op = "LOAD" BY <1>1 DEF GraphInv
<1>3. /\ d[n].ops[1] \in Values(d) /\ d[n].ops[2] \in Values(d)
      /\ IsChain(d, P, d[n].ops[1]) /\ IsData(d, P, d[n].ops[2])
      /\ d[n].ops[1][1] \in OperandNodes(d, n) /\ d[n].ops[2][1] \in OperandNodes(d, n)
  BY <1>2, OperandsOf
<1>4. Ptr(n) = d[n].ops[2] BY <1>1, <1>2 DEF Ptr
<1> QED BY <1>1, <1>3, <1>4 DEF Usable, Chained

\* The same of a store.
LEMMA StoreOperands ==
    ASSUME GraphInv, NEW n \in DOMAIN dag, dag[n].op = "STORE",
           NEW N, OperandNodes(dag, n) \subseteq N
    PROVE  /\ Usable(dag, post, N, Ptr(n)) /\ Usable(dag, post, N, dag[n].ops[2])
           /\ Chained(dag, post, N, dag[n].ops[1])
           /\ Ptr(n)[1] \in OperandNodes(dag, n) /\ dag[n].ops[2][1] \in OperandNodes(dag, n)
<1>1. PICK d, P, S : d = dag /\ P = post /\ S = selected OBVIOUS
<1>2. Sound(d, P, S) /\ n \in DOMAIN d /\ d[n].op = "STORE" BY <1>1 DEF GraphInv
<1>3. /\ d[n].ops[1] \in Values(d) /\ d[n].ops[2] \in Values(d) /\ d[n].ops[3] \in Values(d)
      /\ IsChain(d, P, d[n].ops[1])
      /\ IsData(d, P, d[n].ops[2]) /\ IsData(d, P, d[n].ops[3])
      /\ d[n].ops[1][1] \in OperandNodes(d, n) /\ d[n].ops[2][1] \in OperandNodes(d, n)
      /\ d[n].ops[3][1] \in OperandNodes(d, n)
  BY <1>2, OperandsOf
<1>4. Ptr(n) = d[n].ops[3] BY <1>1, <1>2 DEF Ptr
<1> QED BY <1>1, <1>3, <1>4 DEF Usable, Chained

\* And of arithmetic.
LEMMA BinaryOperands ==
    ASSUME GraphInv, NEW n \in DOMAIN dag, dag[n].op = "BIN", NEW k \in {1, 2}
    PROVE  /\ dag[n].ops[k][1] \in OperandNodes(dag, n) /\ dag[n].ops[k][1] \in DOMAIN dag
           /\ IsData(dag, post, dag[n].ops[k])
           /\ \A N : dag[n].ops[k][1] \in N => Usable(dag, post, N, dag[n].ops[k])
<1>1. PICK d, P, S : d = dag /\ P = post /\ S = selected OBVIOUS
<1>2. Sound(d, P, S) /\ n \in DOMAIN d /\ d[n].op = "BIN" BY <1>1 DEF GraphInv
<1>3. /\ d[n].ops[k] \in Values(d) /\ IsData(d, P, d[n].ops[k])
      /\ d[n].ops[k][1] \in OperandNodes(d, n)
  BY <1>2, OperandsOf
<1>4. d[n].ops[k][1] \in DOMAIN d BY <1>3 DEF Values
<1> QED BY <1>1, <1>3, <1>4 DEF Usable

LEMMA OperandsUnder ==
    ASSUME GraphInv, NEW n \in DOMAIN dag
    PROVE  OperandNodes(dag, n) \subseteq Under(dag, n)
BY GraphFacts, UnderOperand

-----------------------------------------------------------------------------
(* Every step keeps the graph sound.                                       *)

\* Select of a load.
LEMMA SelectLoadKeepsSound ==
    ASSUME GraphInv, NEW n \in Nodes, SelectLoad(n) PROVE GraphInv'
<1>1. dag[n].op = "LOAD" BY DEF SelectLoad
<1>2. FormInv /\ n \in DOMAIN dag BY GraphFacts
<1>3. Extended(dag[n]) BY <1>1, <1>2, NodesOfGraph DEF Shaped
<1>4. PICK vt, ext : vt = dag[n].vt /\ ext = MoveExtension(dag[n].ext) OBVIOUS
<1>5. vt \in Widths /\ ext \in {"none", "sext", "zext"} /\ (ext = "none" <=> vt = 4)
  BY <1>3, <1>4, MoveExtensions
<1>6. PICK N : N = Under(dag, n) OBVIOUS
<1>7. PICK p, c : p = Ptr(n) /\ c = dag[n].ops[1] OBVIOUS
<1>8. Usable(dag, post, N, p) /\ Chained(dag, post, N, c) /\ p[1] \in OperandNodes(dag, n)
  BY <1>1, <1>2, <1>6, <1>7, OperandsUnder, LoadOperands
<1>9. CASE IsValidIndexed(n)
  <2>1. PICK ops : ops = <<p, c>> OBVIOUS
  <2>2. PICK node : node = Node("RM_POST", "-", ops, vt, ext, 0) OBVIOUS
  <2>3. node.op = "RM_POST" /\ node.alu = "-" /\ node.ops = ops /\ node.imm = 0
    BY <2>2, FieldsOfNode
  <2>4. Shaped(node) BY <1>5, <2>2, MakesLoad DEF Loads
  <2>5. Names(dag, node) BY <2>3 DEF Names
  <2>6. Made(dag, post, N, node) BY <1>8, <2>1, <2>3, PlainMade DEF Loads
  <2>7. Kind(dag[n].op, n \in post, node.op) BY <1>1, <1>9, <2>3 DEF Kind, Loads, IsValidIndexed
  <2>8. Become(n, node, <<>>) BY <1>1, <1>4, <1>7, <1>9, <2>1, <2>2 DEF SelectLoad, SelectIndexedLoad
  <2>9. node.imm \in Int BY <2>3
  <2> QED BY <1>2, <1>6, <2>4, <2>5, <2>6, <2>7, <2>8, <2>9, BecomeInPlace
<1>10. CASE ~IsValidIndexed(n)
  <2>1. PICK m \in Modes(p) :
          Become(n, Node(LoadForm[m.form], "-", <<m.base, c>>, vt, ext, m.disp), <<>>)
    BY <1>4, <1>7, <1>10 DEF SelectLoad
  <2>2. Addresses(dag, post, p, m.base) /\ m.disp \in Int BY <1>8, ModeAddresses DEF Usable
  <2>3. Usable(dag, post, N, m.base) BY <1>2, <1>6, <1>8, <2>2, AddressUnder, GraphFacts
  <2>4. /\ m.form \in {"mem", "reg", "abs"}
        /\ m.form # "mem" => m.disp = 0
        /\ m.form = "abs" => m.base = p /\ dag[p[1]].op = "GV"
    BY ModeForms
  <2>5. PICK op, b, imm : op = LoadForm[m.form] /\ b = m.base /\ imm = m.disp OBVIOUS
  <2>6. /\ op \in Loads /\ op # "RM_POST" /\ (op # "RM" => imm = 0)
        /\ op = "RMA" => m.form = "abs"
        /\ op # "MAR"
    BY <2>4, <2>5 DEF LoadForm, Loads
  <2>7. PICK ops : ops = <<b, c>> OBVIOUS
  <2>8. PICK node : node = Node(op, "-", ops, vt, ext, imm) OBVIOUS
  <2>9. node.op = op /\ node.alu = "-" /\ node.ops = ops /\ node.imm = imm BY <2>8, FieldsOfNode
  <2>10. Shaped(node) BY <1>5, <2>6, <2>8, MakesLoad
  <2>11. Names(dag, node)
    <3> SUFFICES ASSUME op = "RMA"
                 PROVE  PointsTo(dag, node, 1) /\ dag[node.ops[1][1]].op = "GV"
      BY <2>6, <2>9 DEF Names
    <3>1. b = p /\ dag[p[1]].op = "GV" BY <2>4, <2>5, <2>6
    <3>2. DOMAIN ops = 1 .. 2 /\ ops[1] = p BY <2>7, <3>1
    <3>3. p[1] \in DOMAIN dag BY <1>1, <1>2, <1>7, NodesOfGraph
    <3>4. \A j \in 1 .. 1 : j = 1 /\ j \in 1 .. 2 OBVIOUS
    <3> QED BY <2>9, <3>1, <3>2, <3>3, <3>4 DEF PointsTo
  <2>12. Made(dag, post, N, node) BY <1>8, <2>3, <2>5, <2>6, <2>7, <2>9, PlainMade
  <2>13. Kind(dag[n].op, n \in post, node.op) BY <1>1, <1>10, <2>6, <2>9 DEF Kind, IsValidIndexed
  <2>14. Become(n, node, <<>>) BY <2>1, <2>5, <2>7, <2>8
  <2>15. node.imm \in Int BY <2>2, <2>5, <2>9
  <2> QED BY <1>2, <1>6, <2>10, <2>11, <2>12, <2>13, <2>14, <2>15, BecomeInPlace
<1> QED BY <1>9, <1>10

\* Select of an indexed store that nothing is folded into.
LEMMA IndexedStoreKeepsSound ==
    ASSUME GraphInv, NEW n \in Nodes, dag[n].op = "STORE", n \in post, SelectIndexedStore(n)
    PROVE  GraphInv'
<1>1. FormInv /\ n \in DOMAIN dag BY GraphFacts
<1>2. PICK N : N = Under(dag, n) OBVIOUS
<1>3. PICK p, c, x, vt : p = Ptr(n) /\ c = dag[n].ops[1] /\ x = dag[n].ops[2] /\ vt = dag[n].vt
  OBVIOUS
<1>4. vt \in Widths BY <1>1, <1>3, NodesOfGraph DEF Shaped, Plain
<1>5. Usable(dag, post, N, p) /\ Usable(dag, post, N, x) /\ Chained(dag, post, N, c)
  BY <1>1, <1>2, <1>3, OperandsUnder, StoreOperands
<1>6. PICK ops : ops = <<x, p, c>> OBVIOUS
<1>7. PICK node : node = Node("MR_POST", "-", ops, vt, "none", 0) OBVIOUS
<1>8. node.op = "MR_POST" /\ node.ops = ops /\ node.imm = 0 BY <1>7, FieldsOfNode
<1>9. Shaped(node) BY <1>4, <1>7, MakesStore DEF Stores
<1>10. Names(dag, node) BY <1>8 DEF Names
<1>11. Made(dag, post, N, node) BY <1>5, <1>6, <1>8, FoldedMade DEF Stores
<1>12. Kind(dag[n].op, n \in post, node.op) BY <1>8 DEF Kind, Stores
<1>13. Become(n, node, <<>>) BY <1>3, <1>6, <1>7 DEF SelectIndexedStore
<1>14. node.imm \in Int BY <1>8
<1> QED BY <1>1, <1>2, <1>9, <1>10, <1>11, <1>12, <1>13, <1>14, BecomeInPlace

\* Select of a store that is not indexed.
LEMMA PlainStoreKeepsSound ==
    ASSUME GraphInv, NEW n \in Nodes, dag[n].op = "STORE", n \notin post, NEW m \in Modes(Ptr(n)),
           Become(n, Node(StoreForm[m.form], "-", <<m.base, dag[n].ops[2], dag[n].ops[1]>>,
                          dag[n].vt, "none", m.disp), <<>>)
    PROVE  GraphInv'
<1>1. FormInv /\ n \in DOMAIN dag BY GraphFacts
<1>2. PICK N : N = Under(dag, n) OBVIOUS
<1>3. PICK p, c, x, vt : p = Ptr(n) /\ c = dag[n].ops[1] /\ x = dag[n].ops[2] /\ vt = dag[n].vt
  OBVIOUS
<1>4. vt \in Widths BY <1>1, <1>3, NodesOfGraph DEF Shaped, Plain
<1>5. /\ Usable(dag, post, N, p) /\ Usable(dag, post, N, x) /\ Chained(dag, post, N, c)
      /\ p[1] \in OperandNodes(dag, n)
  BY <1>1, <1>2, <1>3, OperandsUnder, StoreOperands
<1>6. Addresses(dag, post, p, m.base) /\ m.disp \in Int BY <1>3, <1>5, ModeAddresses DEF Usable
<1>7. Usable(dag, post, N, m.base) BY <1>1, <1>2, <1>5, <1>6, AddressUnder, GraphFacts
<1>8. /\ m.form \in {"mem", "reg", "abs"}
      /\ m.form # "mem" => m.disp = 0
      /\ m.form = "abs" => m.base = p /\ dag[p[1]].op = "GV"
  BY <1>3, ModeForms
<1>9. PICK op, b, imm : op = StoreForm[m.form] /\ b = m.base /\ imm = m.disp OBVIOUS
<1>10. /\ op \in Stores /\ op # "MR_POST" /\ (op # "MR" => imm = 0)
       /\ op = "MAR" => m.form = "abs"
       /\ op # "RMA"
  BY <1>8, <1>9 DEF StoreForm, Stores
<1>11. PICK ops : ops = <<b, x, c>> OBVIOUS
<1>12. PICK node : node = Node(op, "-", ops, vt, "none", imm) OBVIOUS
<1>13. node.op = op /\ node.ops = ops /\ node.imm = imm BY <1>12, FieldsOfNode
<1>14. Shaped(node) BY <1>4, <1>10, <1>12, MakesStore
<1>15. Names(dag, node)
  <2> SUFFICES ASSUME op = "MAR"
               PROVE  PointsTo(dag, node, 1) /\ dag[node.ops[1][1]].op = "GV"
    BY <1>10, <1>13 DEF Names
  <2>1. b = p /\ dag[p[1]].op = "GV" BY <1>8, <1>9, <1>10
  <2>2. DOMAIN ops = 1 .. 3 /\ ops[1] = p BY <1>11, <2>1
  <2>3. p[1] \in DOMAIN dag BY <1>1, <1>3, NodesOfGraph
  <2>4. \A j \in 1 .. 1 : j = 1 /\ j \in 1 .. 3 OBVIOUS
  <2> QED BY <1>13, <2>1, <2>2, <2>3, <2>4 DEF PointsTo
<1>16. Made(dag, post, N, node) BY <1>5, <1>7, <1>9, <1>10, <1>11, <1>13, FoldedMade
<1>17. Kind(dag[n].op, n \in post, node.op) BY <1>10, <1>13 DEF Kind
<1>18. Become(n, node, <<>>) BY <1>3, <1>9, <1>11, <1>12
<1>19. node.imm \in Int BY <1>6, <1>9, <1>13
<1> QED BY <1>1, <1>2, <1>14, <1>15, <1>16, <1>17, <1>18, <1>19, BecomeInPlace

\* What a live node depends on is live.
LEMMA LiveOperands ==
    ASSUME GraphInv
    PROVE  /\ End \in DOMAIN dag /\ Live \subseteq DOMAIN dag /\ Closed(dag, Live)
           /\ \A n \in Live : Reached(dag, n) \subseteq Live
<1>1. PICK d, P, S : d = dag /\ P = post /\ S = selected OBVIOUS
<1>2. Sound(d, P, S) BY <1>1 DEF GraphInv
<1>3. Linked(d) BY <1>2, SoundIsMatchable
<1>4. Len(d) \in DOMAIN d
  <2>1. Len(d) \in Nat /\ DOMAIN d = 1 .. Len(d) /\ 1 \in DOMAIN d
    BY <1>2 DEF Sound, WellFormed, Bounded
  <2> QED BY <2>1
<1>5. /\ Reached(d, Len(d)) \subseteq DOMAIN d /\ Closed(d, Reached(d, Len(d)))
      /\ \A n \in Reached(d, Len(d)) : Reached(d, n) \subseteq Reached(d, Len(d))
  BY <1>3, <1>4, ReachedIsLeast, ReachedFromReached
<1>6. Live = Reached(d, Len(d)) BY <1>1, <1>5 DEF Live, Nodes, Below, End
<1> QED BY <1>1, <1>4, <1>5, <1>6 DEF End

\* [p] = [p] op x.
LEMMA CodeBinOpStoreKeepsSound ==
    ASSUME GraphInv, NEW n \in Nodes, dag[n].op = "STORE", n \notin post, SelectCodeBinOpStore(n)
    PROVE  GraphInv'
<1>1. FormInv /\ n \in DOMAIN dag /\ Linked(dag) BY GraphFacts
<1>2. PICK s : s = dag[n].ops[2][1] OBVIOUS
<1>3. /\ dag[s].op = "BIN"
      /\ \E i \in {1, 2} :
           /\ dag[dag[s].ops[i][1]].op = "LOAD"
           /\ \E m \in MemoryOperands(Ptr(n)) :
                Become(n, Node("MR", dag[s].alu,
                               <<m.base, dag[s].ops[3 - i], dag[dag[s].ops[i][1]].ops[1]>>,
                               dag[n].vt, "none", m.disp), <<>>)
  BY <1>2 DEF SelectCodeBinOpStore, Foldable
<1>4. PICK i \in {1, 2}, m \in MemoryOperands(Ptr(n)) :
        /\ dag[dag[s].ops[i][1]].op = "LOAD"
        /\ Become(n, Node("MR", dag[s].alu,
                          <<m.base, dag[s].ops[3 - i], dag[dag[s].ops[i][1]].ops[1]>>,
                          dag[n].vt, "none", m.disp), <<>>)
  BY <1>3
<1>5. PICK N : N = Under(dag, n) OBVIOUS
<1>6. PICK p, l, x, c : p = Ptr(n) /\ l = dag[s].ops[i][1] /\ x = dag[s].ops[3 - i] /\ c = dag[l].ops[1]
  OBVIOUS
<1>7. s \in OperandNodes(dag, n) /\ p[1] \in OperandNodes(dag, n) /\ Usable(dag, post, N, p)
  BY <1>1, <1>2, <1>5, <1>6, OperandsUnder, StoreOperands
<1>8. /\ s \in DOMAIN dag
      /\ \A o \in OperandNodes(dag, s) : o \in N /\ Reached(dag, o) \subseteq N
  BY <1>1, <1>5, <1>7, UnderOperand DEF Linked
<1>9. 3 - i \in {1, 2} OBVIOUS
<1>10. x[1] \in OperandNodes(dag, s) /\ (x[1] \in N => Usable(dag, post, N, x))
  BY <1>3, <1>6, <1>8, <1>9, BinaryOperands
<1>11. l \in OperandNodes(dag, s) /\ l \in DOMAIN dag BY <1>3, <1>6, <1>8, BinaryOperands
<1>12. Chained(dag, post, N, c)
  <2>1. OperandNodes(dag, l) \subseteq Reached(dag, l) BY <1>1, <1>11, ReachedIsLeast DEF Closed
  <2>2. OperandNodes(dag, l) \subseteq N BY <1>8, <1>11, <2>1
  <2> QED BY <1>4, <1>6, <1>11, <2>2, LoadOperands
<1>13. Usable(dag, post, N, x) BY <1>8, <1>10
<1>14. Addresses(dag, post, p, m.base) /\ m.disp \in Int
  BY <1>6, <1>7, OperandAddresses DEF Usable
<1>15. Usable(dag, post, N, m.base) BY <1>1, <1>5, <1>7, <1>14, AddressUnder
<1>16. PICK alu, vt, b, imm : alu = dag[s].alu /\ vt = dag[n].vt /\ b = m.base /\ imm = m.disp OBVIOUS
<1>17. alu \in Alu BY <1>1, <1>3, <1>8, <1>16, NodesOfGraph DEF Shaped
<1>18. vt \in Widths BY <1>1, <1>16, NodesOfGraph DEF Shaped, Plain
<1>19. PICK ops : ops = <<b, x, c>> OBVIOUS
<1>20. PICK node : node = Node("MR", alu, ops, vt, "none", imm) OBVIOUS
<1>21. node.op = "MR" /\ node.ops = ops /\ node.imm = imm BY <1>20, FieldsOfNode
<1>22. Shaped(node) BY <1>17, <1>18, <1>20, MakesStore DEF Stores
<1>23. Names(dag, node) BY <1>21 DEF Names
<1>24. Made(dag, post, N, node) BY <1>12, <1>13, <1>15, <1>16, <1>19, <1>21, FoldedMade DEF Stores
<1>25. Kind(dag[n].op, n \in post, node.op) BY <1>21 DEF Kind, Stores
<1>26. Become(n, node, <<>>) BY <1>4, <1>6, <1>16, <1>19, <1>20
<1>27. node.imm \in Int BY <1>14, <1>16, <1>21
<1> QED BY <1>1, <1>5, <1>22, <1>23, <1>24, <1>25, <1>26, <1>27, BecomeInPlace

\* Arithmetic on registers.
LEMMA RegistersKeepSound ==
    ASSUME GraphInv, NEW n \in Nodes, dag[n].op = "BIN", Become(n, [dag[n] EXCEPT !.op = "RR"], <<>>)
    PROVE  GraphInv'
<1>1. FormInv /\ n \in DOMAIN dag BY GraphFacts
<1>2. PICK d, P, S : d = dag /\ P = post /\ S = selected OBVIOUS
<1>3. Sound(d, P, S) BY <1>2 DEF GraphInv
<1>4. PICK i : i = d[n] OBVIOUS
<1>5. PICK node : node = [i EXCEPT !.op = "RR"] OBVIOUS
<1>6. /\ i = Node(i.op, i.alu, i.ops, i.vt, i.ext, i.imm) /\ i.op = "BIN"
      /\ i.alu \in Alu /\ i.vt = 0 /\ i.ext = "none"
  BY <1>1, <1>2, <1>4, NodesOfGraph DEF Shaped
<1>7. node = Node("RR", i.alu, i.ops, i.vt, i.ext, i.imm) BY <1>5, <1>6 DEF Node
<1>8. /\ node.op = "RR" /\ node.alu = i.alu /\ node.ops = i.ops
      /\ node.vt = i.vt /\ node.ext = i.ext /\ node.imm = i.imm
      /\ node = Node(node.op, node.alu, node.ops, node.vt, node.ext, node.imm)
  BY <1>7, FieldsOfNode
<1>9. Shaped(node) BY <1>6, <1>8 DEF Shaped, Loads, Stores, Instructions, Symbols, Accesses
<1>10. Names(dag, node) BY <1>8 DEF Names
<1>11. /\ i.ops \in Seq(Values(d)) /\ Counted(i) /\ Fits(d, P, i) /\ i.imm \in Int
  <2>1. Recorded(d, P, S, n) /\ Sized(d) /\ WellTyped(d, P) BY <1>1, <1>2, <1>3 DEF Sound
  <2>2. Fits(d, P, i) BY <1>1, <1>2, <1>4, <2>1 DEF WellTyped, Fits, IsData
  <2> QED BY <1>1, <1>2, <1>4, <2>1, <2>2 DEF Recorded, Sized
<1>12. Counted(node) BY <1>6, <1>8, <1>11 DEF Counted, Loads, Stores
<1>13. Chains(i) = {} /\ Chains(node) = {}
  BY <1>6, <1>8 DEF Chains, Loads, Stores, Instructions, Accesses
<1>14. Fits(d, P, node) BY <1>8, <1>11, <1>13 DEF Fits
<1>15. PICK N : N = Under(dag, n) OBVIOUS
<1>16. \A k \in DOMAIN node.ops : node.ops[k][1] \in N
  <2>1. \A k \in DOMAIN i.ops : i.ops[k][1] \in OperandNodes(dag, n)
    BY <1>2, <1>4 DEF OperandNodes, Range
  <2> QED BY <1>1, <1>8, <1>15, <2>1, OperandsUnder
<1>17. Made(dag, post, N, node) BY <1>2, <1>8, <1>11, <1>12, <1>14, <1>16 DEF Made
<1>18. Kind(dag[n].op, n \in post, node.op) BY <1>8 DEF Kind
<1>19. Become(n, node, <<>>) BY <1>2, <1>4, <1>5
<1> QED BY <1>1, <1>8, <1>9, <1>10, <1>11, <1>15, <1>17, <1>18, <1>19, BecomeInPlace

\* Operand i of arithmetic m is load l, which can be folded; the other is x.
Folds(m, i, l, x) ==
    /\ l = dag[m].ops[i][1] /\ x = dag[m].ops[3 - i]
    /\ Foldable(m, dag[m].ops[i]) /\ x[1] # l

\* What an instruction needs for operands that does both, from nodes N.
Joins(m, l, x, N) ==
    /\ l \in DOMAIN dag /\ dag[l].op = "LOAD"
    /\ N \in SUBSET DOMAIN dag /\ Closed(dag, N)
    /\ l \notin N /\ m \notin N /\ N \subseteq Reached(dag, m) \cup {1}
    /\ Usable(dag, post, N, x) /\ Usable(dag, post, N, Ptr(l))
    /\ Chained(dag, post, N, dag[l].ops[1])
    /\ \A b : Addresses(dag, post, Ptr(l), b) => Usable(dag, post, N, b)

LEMMA FoldedOperands ==
    ASSUME GraphInv, NEW m \in DOMAIN dag, dag[m].op = "BIN", NEW i \in {1, 2},
           NEW l, NEW x, Folds(m, i, l, x)
    PROVE  Joins(m, l, x, Apart(dag, m, l))
<1> DEFINE N == Apart(dag, m, l)
<1> HIDE DEF N
<1>0. /\ l = dag[m].ops[i][1] /\ x = dag[m].ops[3 - i]
      /\ Foldable(m, dag[m].ops[i]) /\ x[1] # l
  BY DEF Folds
<1>1. Linked(dag) /\ Acyclic(dag) /\ Bounded(dag) BY GraphFacts
<1>2. l \in OperandNodes(dag, m) /\ l \in DOMAIN dag BY <1>0, BinaryOperands
<1>3. dag[l].op = "LOAD" /\ \A o \in OperandNodes(dag, m) \ {l} : l \notin Reached(dag, o)
  BY <1>0 DEF Foldable, OpNodes, Below
<1>4. m # 1 /\ l # 1 BY <1>2, <1>3, GraphFacts DEF Accesses
<1>5. /\ N \in SUBSET DOMAIN dag /\ Closed(dag, N)
      /\ l \notin N /\ m \notin N /\ N \subseteq Reached(dag, m) \cup {1}
      /\ \A o \in (OperandNodes(dag, m) \ {l}) \cup OperandNodes(dag, l) : Reached(dag, o) \subseteq N
  BY <1>1, <1>2, <1>3, <1>4, ApartIsClosed DEF N
<1>6. \A o \in (OperandNodes(dag, m) \ {l}) \cup OperandNodes(dag, l) : o \in N
  <2> SUFFICES ASSUME NEW o \in (OperandNodes(dag, m) \ {l}) \cup OperandNodes(dag, l)
               PROVE  o \in N
    OBVIOUS
  <2>1. o \in DOMAIN dag BY <1>1, <1>2 DEF Linked
  <2> QED BY <1>1, <1>5, <2>1, ReachedIsLeast
<1>7. Usable(dag, post, N, x)
  <2>1. 3 - i \in {1, 2} OBVIOUS
  <2>2. x[1] \in OperandNodes(dag, m) /\ (x[1] \in N => Usable(dag, post, N, x))
    BY <1>0, <2>1, BinaryOperands
  <2> QED BY <1>0, <1>6, <2>2
<1>8. /\ Usable(dag, post, N, Ptr(l)) /\ Chained(dag, post, N, dag[l].ops[1])
      /\ Ptr(l)[1] \in OperandNodes(dag, l)
  BY <1>2, <1>3, <1>6, LoadOperands
<1>9. ASSUME NEW b, Addresses(dag, post, Ptr(l), b) PROVE Usable(dag, post, N, b)
  <2>1. 1 \in N BY DEF Apart, N
  <2>2. Reached(dag, Ptr(l)[1]) \subseteq N BY <1>5, <1>8
  <2> QED BY <1>9, <2>1, <2>2 DEF Addresses, Usable
<1> QED BY <1>2, <1>3, <1>5, <1>7, <1>8, <1>9 DEF Joins, N

\* The other operand of arithmetic that takes a load in: another node.
LEMMA OtherOperand ==
    ASSUME GraphInv, NEW n \in Live, dag[n].op = "BIN", ~Tangled(n), NEW i \in {1, 2},
           Foldable(n, dag[n].ops[i])
    PROVE  dag[n].ops[3 - i][1] # dag[n].ops[i][1]
<1> SUFFICES ASSUME dag[n].ops[3 - i][1] = dag[n].ops[i][1] PROVE FALSE OBVIOUS
<1>1. dag[n].ops[1][1] = dag[n].ops[2][1]
  <2>1. CASE i = 1
    <3>1. 3 - i = 2 BY <2>1
    <3> QED BY <2>1, <3>1
  <2>2. CASE i = 2
    <3>1. 3 - i = 1 BY <2>2
    <3> QED BY <2>2, <3>1
  <2> QED BY <2>1, <2>2
<1>2. dag[dag[n].ops[1][1]].op = "LOAD"
  <2>1. dag[dag[n].ops[i][1]].op = "LOAD" BY DEF Foldable
  <2>2. dag[n].ops[i][1] = dag[n].ops[1][1] BY <1>1
  <2> QED BY <2>1, <2>2
<1>3. dag[n].ops[1] = dag[n].ops[2] BY <1>1, <1>2 DEF Tangled
<1>4. HasOneUse(dag[n].ops[i]) BY DEF Foldable
<1>5. dag[n].ops[1] = dag[n].ops[i] BY <1>3
<1> QED BY <1>3, <1>4, <1>5, OneUse

\* x op [p]+, the load's writeback and chain being the node's from then on.
LEMMA IndexedBinOpLoadKeepsSound ==
    ASSUME GraphInv, NEW n \in Live, dag[n].op = "BIN", ~Tangled(n), NEW i \in {1, 2},
           CanBinOpLoad(n, dag[n].ops[i]),
           SelectIndexedBinOpLoad(n, dag[n].ops[i], dag[n].ops[3 - i])
    PROVE  GraphInv'
<1>1. FormInv /\ n \in DOMAIN dag /\ n \in Nodes BY GraphFacts, LiveOperands
<1>2. PICK l, x : l = dag[n].ops[i][1] /\ x = dag[n].ops[3 - i] OBVIOUS
<1>3. Foldable(n, dag[n].ops[i]) /\ l \in post BY <1>2 DEF CanBinOpLoad, IsValidIndexed
<1>4. x[1] # l BY <1>2, <1>3, OtherOperand
<1>5. PICK N : N = Apart(dag, n, l) OBVIOUS
<1>6. PICK p, c : p = Ptr(l) /\ c = dag[l].ops[1] OBVIOUS
<1>7. /\ l \in DOMAIN dag /\ dag[l].op = "LOAD"
      /\ N \in SUBSET DOMAIN dag /\ Closed(dag, N) /\ l \notin N /\ n \notin N
      /\ Usable(dag, post, N, x) /\ Usable(dag, post, N, p) /\ Chained(dag, post, N, c)
  <2>1. Folds(n, i, l, x) BY <1>2, <1>3, <1>4 DEF Folds
  <2>2. Joins(n, l, x, N) BY <1>1, <1>5, <2>1, FoldedOperands
  <2> QED BY <1>6, <2>2 DEF Joins
<1>8. PICK alu, opc : alu = dag[n].alu /\ opc = PostOpcode(dag[n].alu, dag[l].vt) OBVIOUS
<1>9. alu \in Alu BY <1>1, <1>8, NodesOfGraph DEF Shaped
<1>10. PICK vt, ext : vt = opc[1] /\ ext = opc[2] OBVIOUS
<1>11. vt \in Widths /\ ext \in {"none", "sext", "zext"} /\ (ext = "none" <=> vt = 4)
  <2>1. PICK w : w = dag[l].vt OBVIOUS
  <2>2. opc = PostOpcode(alu, w) BY <1>8, <2>1
  <2> QED BY <1>10, <2>2, PostOpcodes
<1>12. PICK ops : ops = <<x, p, c>> OBVIOUS
<1>13. PICK node : node = Node("RM_POST", alu, ops, vt, ext, 0) OBVIOUS
<1>14. node.op = "RM_POST" /\ node.alu = alu /\ node.ops = ops /\ node.imm = 0
  BY <1>13, FieldsOfNode
<1>15. Shaped(node) BY <1>9, <1>11, <1>13, MakesLoad DEF Loads
<1>16. Names(dag, node) BY <1>14 DEF Names
<1>17. Made(dag, post, N, node)
  <2>1. node.op \in Loads /\ node.alu # "-" BY <1>9, <1>14 DEF Loads, Alu
  <2> QED BY <1>7, <1>12, <1>14, <2>1, FoldedMade
<1>18. Become(n, node, Transfer(n, l))
  BY <1>2, <1>6, <1>8, <1>10, <1>12, <1>13 DEF SelectIndexedBinOpLoad
<1>19. node.op = IF l \in post THEN "RM_POST" ELSE "RM" BY <1>3, <1>14
<1>20. node.imm \in Int BY <1>14
<1> QED BY <1>1, <1>7, <1>15, <1>16, <1>17, <1>18, <1>19, <1>20, BecomeFolding

\* x op [p].
LEMMA CodeBinOpLoadKeepsSound ==
    ASSUME GraphInv, NEW n \in Live, dag[n].op = "BIN", ~Tangled(n), SelectCodeBinOpLoad(n)
    PROVE  GraphInv'
<1>1. FormInv /\ n \in DOMAIN dag /\ n \in Nodes BY GraphFacts, LiveOperands
<1>2. PICK i \in {1, 2} :
        /\ Foldable(n, dag[n].ops[i]) /\ ~IsValidIndexed(dag[n].ops[i][1])
        /\ LET l == dag[n].ops[i][1]
           IN \E m \in MemoryOperands(Ptr(l)), opc \in FoldedAs(dag[n].alu, dag[l].vt, dag[l].ext) :
                Become(n, Node("RM", dag[n].alu, <<dag[n].ops[3 - i], m.base, dag[l].ops[1]>>,
                               opc[1], opc[2], m.disp), Transfer(n, l))
  BY DEF SelectCodeBinOpLoad
<1>3. PICK l, x : l = dag[n].ops[i][1] /\ x = dag[n].ops[3 - i] OBVIOUS
<1>4. l \notin post BY <1>2, <1>3 DEF IsValidIndexed
<1>5. PICK m \in MemoryOperands(Ptr(l)), opc \in FoldedAs(dag[n].alu, dag[l].vt, dag[l].ext) :
        Become(n, Node("RM", dag[n].alu, <<x, m.base, dag[l].ops[1]>>, opc[1], opc[2], m.disp),
               Transfer(n, l))
  BY <1>2, <1>3
<1>6. x[1] # l BY <1>2, <1>3, OtherOperand
<1>7. PICK N : N = Apart(dag, n, l) OBVIOUS
<1>8. PICK p, c : p = Ptr(l) /\ c = dag[l].ops[1] OBVIOUS
<1>9. /\ l \in DOMAIN dag /\ dag[l].op = "LOAD"
      /\ N \in SUBSET DOMAIN dag /\ Closed(dag, N) /\ l \notin N /\ n \notin N
      /\ Usable(dag, post, N, x) /\ Usable(dag, post, N, p) /\ Chained(dag, post, N, c)
      /\ \A b : Addresses(dag, post, p, b) => Usable(dag, post, N, b)
  <2>1. Folds(n, i, l, x) BY <1>2, <1>3, <1>6 DEF Folds
  <2>2. Joins(n, l, x, N) BY <1>1, <1>7, <2>1, FoldedOperands
  <2> QED BY <1>8, <2>2 DEF Joins
<1>10. Addresses(dag, post, p, m.base) /\ m.disp \in Int
  BY <1>5, <1>8, <1>9, OperandAddresses DEF Usable
<1>11. PICK alu, vt, ext, b, imm : alu = dag[n].alu /\ vt = opc[1] /\ ext = opc[2]
                                   /\ b = m.base /\ imm = m.disp
  OBVIOUS
<1>12. alu \in Alu BY <1>1, <1>11, NodesOfGraph DEF Shaped
<1>13. vt \in Widths /\ ext \in {"none", "sext", "zext"} /\ (ext = "none" <=> vt = 4)
  <2>1. PICK w, y : w = dag[l].vt /\ y = dag[l].ext OBVIOUS
  <2>2. Extended(dag[l]) BY <1>1, <1>9, GraphFacts, NodesOfGraph DEF Shaped
  <2>3. w \in Widths BY <2>1, <2>2 DEF Extended
  <2>4. opc \in FoldedAs(alu, w, y) BY <1>5, <1>11, <2>1
  <2> QED BY <1>11, <2>3, <2>4, FoldedOpcodes
<1>14. PICK ops : ops = <<x, b, c>> OBVIOUS
<1>15. PICK node : node = Node("RM", alu, ops, vt, ext, imm) OBVIOUS
<1>16. node.op = "RM" /\ node.alu = alu /\ node.ops = ops /\ node.imm = imm
  BY <1>15, FieldsOfNode
<1>17. Shaped(node) BY <1>12, <1>13, <1>15, MakesLoad DEF Loads
<1>18. Names(dag, node) BY <1>16 DEF Names
<1>19. Made(dag, post, N, node)
  <2>1. node.op \in Loads /\ node.alu # "-" BY <1>12, <1>16 DEF Loads, Alu
  <2>2. Usable(dag, post, N, b) BY <1>9, <1>10, <1>11
  <2> QED BY <1>9, <1>14, <1>16, <2>1, <2>2, FoldedMade
<1>20. Become(n, node, Transfer(n, l)) BY <1>5, <1>8, <1>11, <1>14, <1>15
<1>21. node.op = IF l \in post THEN "RM_POST" ELSE "RM" BY <1>4, <1>16
<1>22. node.imm \in Int BY <1>10, <1>11, <1>16
<1> QED BY <1>1, <1>9, <1>17, <1>18, <1>19, <1>20, <1>21, <1>22, BecomeFolding

LEMMA FirstResult ==
    ASSUME NEW d, NEW v \in Values(d), NEW l, v[1] = l, v[2] < 1
    PROVE  v = <<l, 0>>
<1>1. v = <<v[1], v[2]>> /\ v[2] \in 0 .. 2 BY DEF Values
<1>2. v[2] = 0 BY <1>1
<1> QED BY <1>1, <1>2

\* [p]+ = [p] op x.
LEMMA IndexedBinOpStoreKeepsSound ==
    ASSUME GraphInv, NEW n \in Live, dag[n].op = "STORE", ~Tangled(n),
           NEW s, s = dag[n].ops[2][1], dag[s].op = "BIN", NEW i \in {1, 2},
           CanBinOpStore(n, dag[s].ops[i]),
           SelectIndexedBinOpStore(n, dag[s].ops[i], dag[s].ops[3 - i])
    PROVE  GraphInv'
<1>1. FormInv /\ n \in DOMAIN dag /\ n \in Nodes /\ Linked(dag) /\ Acyclic(dag) /\ 1 \in DOMAIN dag
  BY GraphFacts, LiveOperands
<1>2. s \in OperandNodes(dag, n) BY <1>1, StoreOperands
<1>3. s \in Live /\ s \in DOMAIN dag /\ s \in Nodes BY <1>1, <1>2, LiveOperands DEF Closed, Linked, Live
<1>4. PICK v, l, x : v = dag[s].ops[i] /\ l = dag[s].ops[i][1] /\ x = dag[s].ops[3 - i] OBVIOUS
<1>5. n \in post /\ Foldable(s, v) /\ Ptr(n) = Ptr(l)
  BY <1>4 DEF CanBinOpStore, IsValidIndexed
<1>6. dag[l].op = "LOAD" /\ HasOneUse(v) BY <1>4, <1>5 DEF Foldable
<1>7. l \notin post BY <1>4, <1>5, <1>6 DEF Tangled
<1>8. l \in DOMAIN dag /\ l # 1
  <2>1. l \in DOMAIN dag BY <1>3, <1>4, BinaryOperands
  <2> QED BY <1>6, <2>1, GraphFacts DEF Accesses
<1>9. x[1] # l
  <2> SUFFICES ASSUME x[1] = l PROVE FALSE OBVIOUS
  <2>1. PICK d, P, S : d = dag /\ P = post /\ S = selected OBVIOUS
  <2>2. NumValues(d, P, l) = 1 BY <1>6, <1>7, <2>1, NumValuesOf
  <2>3. 3 - i \in {1, 2} OBVIOUS
  <2>4. ASSUME NEW k \in {1, 2}, dag[s].ops[k][1] = l PROVE dag[s].ops[k] = <<l, 0>>
    <3>1. PICK w : w = dag[s].ops[k] OBVIOUS
    <3>2. IsData(d, P, w) /\ Usable(d, P, {l}, w) BY <1>3, <2>1, <2>4, <3>1, BinaryOperands
    <3>3. w \in Values(d) BY <3>2 DEF Usable
    <3>4. w[1] = l /\ w # NoRegister
      <4>1. NoRegister[1] = 1 BY DEF NoRegister
      <4>2. w[1] = l BY <2>4, <3>1
      <4> QED BY <1>8, <4>1, <4>2
    <3>5. NumValues(d, P, w[1]) = 1 BY <2>2, <3>4
    <3>6. w[2] < 1 BY <3>2, <3>4, <3>5 DEF IsData, IsValue
    <3> QED BY <3>1, <3>3, <3>4, <3>6, FirstResult
  <2>5. v = <<l, 0>> BY <1>4, <2>4
  <2>6. x = <<l, 0>> BY <1>4, <2>3, <2>4
  <2>7. i = 1 \/ i = 2 OBVIOUS
  <2>8. dag[s].ops[1] = v /\ dag[s].ops[2] = v
    <3>1. CASE i = 1
      <4>1. 3 - i = 2 BY <3>1
      <4> QED BY <1>4, <2>5, <2>6, <3>1, <4>1
    <3>2. CASE i = 2
      <4>1. 3 - i = 1 BY <3>2
      <4> QED BY <1>4, <2>5, <2>6, <3>2, <4>1
    <3> QED BY <2>7, <3>1, <3>2
  <2> QED BY <1>3, <1>6, <2>8, OneUse
<1>10. PICK N : N = Apart(dag, s, l) OBVIOUS
<1>11. PICK p, c : p = Ptr(l) /\ c = dag[l].ops[1] OBVIOUS
<1>12. /\ N \in SUBSET DOMAIN dag /\ Closed(dag, N) /\ l \notin N
       /\ N \subseteq Reached(dag, s) \cup {1}
       /\ Usable(dag, post, N, x) /\ Usable(dag, post, N, p) /\ Chained(dag, post, N, c)
  <2>1. Folds(s, i, l, x) BY <1>4, <1>5, <1>9 DEF Folds
  <2>2. Joins(s, l, x, N) BY <1>3, <1>10, <2>1, FoldedOperands
  <2> QED BY <1>11, <2>2 DEF Joins
<1>13. n \notin N
  <2>1. n \notin Reached(dag, s) BY <1>1, <1>2 DEF Acyclic
  <2>2. n # 1 BY <1>1, GraphFacts DEF Accesses
  <2> QED BY <1>12, <2>1, <2>2
<1>14. PICK alu, opc : alu = dag[s].alu /\ opc = PostOpcode(dag[s].alu, dag[l].vt) OBVIOUS
<1>15. alu \in Alu BY <1>1, <1>3, <1>14, NodesOfGraph DEF Shaped
<1>16. PICK vt : vt = opc[1] OBVIOUS
<1>17. vt \in Widths
  <2>1. PICK w : w = dag[l].vt OBVIOUS
  <2>2. opc = PostOpcode(alu, w) BY <1>14, <2>1
  <2> QED BY <1>16, <2>2, PostOpcodes
<1>18. PICK ops : ops = <<p, x, c>> OBVIOUS
<1>19. PICK node : node = Node("MR_POST", alu, ops, vt, "none", 0) OBVIOUS
<1>20. node.op = "MR_POST" /\ node.ops = ops /\ node.imm = 0 BY <1>19, FieldsOfNode
<1>21. Shaped(node) BY <1>15, <1>17, <1>19, MakesStore DEF Stores
<1>22. Names(dag, node) BY <1>20 DEF Names
<1>23. Made(dag, post, N, node)
  <2>1. node.op \in Stores BY <1>20 DEF Stores
  <2> QED BY <1>12, <1>18, <1>20, <2>1, FoldedMade
<1>24. Become(n, node, Transfer(n, l))
  <2>1. v = dag[s].ops[i] /\ v[1] = l BY <1>4
  <2> QED BY <1>4, <1>11, <1>14, <1>16, <1>18, <1>19, <2>1 DEF SelectIndexedBinOpStore
<1>25. node.imm \in Int BY <1>20
<1> QED BY <1>1, <1>5, <1>6, <1>7, <1>8, <1>12, <1>13, <1>20, <1>21, <1>22, <1>23, <1>24, <1>25, BecomeFolding

\* Access n takes over addition a, which it does not depend on.
LEMMA IncrementKeepsSound ==
    ASSUME NEW d, NEW P, NEW S, Sound(d, P, S), NEW n \in DOMAIN d, d[n].op \in Accesses, n \notin P,
           NEW a \in DOMAIN d, d[a].op = "BIN", a \notin Reached(d, n),
           NEW e, e = ReplaceUses(d, Increment(d, n, a))
    PROVE  Sound(e, P \cup {n}, S)
<1>1. WellFormed(d) /\ Sized(d) /\ WellTyped(d, P) /\ Acyclic(d) /\ Bounded(d) BY DEF Sound
<1>2. PICK by : by = Increment(d, n, a) OBVIOUS
<1>3. PICK k \in {0, 1} : k = (IF d[n].op = "LOAD" THEN 1 ELSE 0) OBVIOUS
<1>4. PICK u, v, w : u = <<n, k>> /\ v = <<n, k + 1>> /\ w = <<a, 0>> OBVIOUS
<1>5. by = Replace(u, v, w, u)
  <2>1. CASE k = 1
    <3>1. u = <<n, 1>> /\ v = <<n, 2>> /\ d[n].op = "LOAD" BY <1>3, <1>4, <2>1
    <3> QED BY <1>2, <1>4, <3>1 DEF Increment
  <2>2. CASE k = 0
    <3>1. u = <<n, 0>> /\ v = <<n, 1>> /\ d[n].op # "LOAD" BY <1>3, <1>4, <2>2
    <3> QED BY <1>2, <1>4, <3>1 DEF Increment
  <2> QED BY <2>1, <2>2
<1>6. a # n /\ a # 1 /\ n # 1 /\ d[n].op # "GV" /\ d[a].op # "GV" BY <1>1 DEF Bounded, Accesses
<1>7. DOMAIN by = {u, w} /\ by[u] = v /\ by[w] = u
  <2>1. PICK T : T = {u, w} OBVIOUS
  <2>2. by = [t \in T |-> IF t = u THEN v ELSE u] BY <1>5, <2>1 DEF Replace
  <2>3. u # w BY <1>4, <1>6
  <2> QED BY <2>1, <2>2, <2>3
<1>8. /\ u[1] = n /\ w[1] = a /\ v[1] = n /\ u \in Values(d) /\ v \in Values(d)
  BY <1>4 DEF Values
<1>9. Renames(d, by)
  <2>1. ASSUME NEW x \in DOMAIN by
        PROVE  x[1] \in DOMAIN d /\ d[x[1]].op # "GV" /\ by[x][1] \in DOMAIN d
    BY <1>6, <1>7, <1>8
  <2> QED BY <2>1 DEF Renames
<1>10. e = ReplaceUses(d, by) BY <1>2
<1>11. WellFormed(e)
  <2>1. WellFormed(ReplaceUses(d, by)) BY <1>1, <1>9, ReplacingKeepsForm
  <2> QED BY <1>10, <2>1
<1>12. ASSUME NEW m \in DOMAIN d PROVE DOMAIN e = DOMAIN d /\ Redirected(e[m], d[m], by)
  BY <1>1, <1>10, UsesReplaced
<1>13. DOMAIN e = DOMAIN d /\ \A m \in DOMAIN d : e[m].op = d[m].op /\ e[m].imm = d[m].imm
  BY <1>12 DEF Redirected
<1>14. Carries(d, P, e, P \cup {n}, by) BY <1>2, <1>6, <1>13, IncrementCarries
<1>15. PICK node : node = d[n] OBVIOUS
<1>16. Rewired(d, n, node, by, e)
  <2>1. PICK b : b = [d EXCEPT ![n] = node] OBVIOUS
  <2>2. DOMAIN b = DOMAIN d /\ \A m \in DOMAIN d : b[m] = d[m] BY <1>15, <2>1
  <2>3. WellFormed(b)
    <3>1. Len(d) \in Nat /\ DOMAIN d = 1 .. Len(d) BY <1>1 DEF WellFormed
    <3>2. b = [m \in DOMAIN b |-> b[m]] BY <2>1
    <3>3. Len(b) = Len(d) BY <2>2, <3>1, <3>2, FunctionLen
    <3>4. ASSUME NEW m \in DOMAIN d PROVE Shaped(b[m]) /\ References(b, b[m]) /\ Names(b, b[m])
      <4>1. Shaped(d[m]) /\ References(d, d[m]) /\ Names(d, d[m]) BY <1>1 DEF WellFormed
      <4>2. PICK i : i = d[m] OBVIOUS
      <4>3. b[m] = i BY <2>2, <4>2
      <4>4. \A last : PointsTo(d, i, last) => PointsTo(b, i, last) BY <2>2 DEF PointsTo
      <4>5. References(b, i) BY <4>1, <4>2, <4>4 DEF References
      <4>6. Names(b, i)
        <5> SUFFICES ASSUME i.op \in {"RMA", "MAR"} PROVE PointsTo(b, i, 1) /\ b[i.ops[1][1]].op = "GV"
          BY DEF Names
        <5>1. PointsTo(d, i, 1) /\ d[i.ops[1][1]].op = "GV" BY <4>1, <4>2 DEF Names
        <5>2. i.ops[1][1] \in DOMAIN d
          <6>1. 1 \in 1 .. 1 OBVIOUS
          <6> QED BY <5>1, <6>1 DEF PointsTo
        <5> QED BY <2>2, <4>4, <5>1, <5>2
      <4> QED BY <4>1, <4>2, <4>3, <4>5, <4>6
    <3> QED BY <2>2, <3>1, <3>3, <3>4 DEF WellFormed
  <2>4. ReplaceUses(b, by) = ReplaceUses(d, by) BY <2>2 DEF ReplaceUses
  <2> QED BY <1>10, <2>1, <2>3, <2>4 DEF Rewired
<1>17. /\ node.ops \in Seq(Values(d)) /\ Counted(node) /\ Fits(d, P, node)
  <2>1. Fits(d, P, node) BY <1>1, <1>15 DEF WellTyped, Fits, IsData
  <2> QED BY <1>1, <1>15, <2>1 DEF Sized
<1>18. \A x \in DOMAIN by : by[x] \in Values(d) BY <1>7, <1>8
<1>19. Sized(e) /\ WellTyped(e, P \cup {n})
  BY <1>1, <1>14, <1>16, <1>17, <1>18, RewiringKeepsTypes
<1>20. Linked(d) /\ Linked(e) BY <1>1, <1>11, <1>19, SizedIsLinked
<1>21. PICK N : N = Under(d, n) OBVIOUS
<1>22. /\ N \in SUBSET DOMAIN d /\ Closed(d, N) /\ n \notin N /\ OperandNodes(d, n) \subseteq N
  BY <1>1, <1>6, <1>20, <1>21, UnderIsClosed DEF Bounded
<1>23. a \notin N
  <2> SUFFICES ASSUME NEW o \in OperandNodes(d, n) PROVE a \notin Reached(d, o)
    BY <1>6, <1>21 DEF Under
  <2> QED BY <1>20, ReachedFromOperand
<1>24. \A j \in DOMAIN node.ops : node.ops[j][1] \in N BY <1>15, <1>22 DEF OperandNodes, Range
<1>25. \A x \in DOMAIN by : x[1] \notin N /\ by[x][1] = n BY <1>7, <1>8, <1>22, <1>23
<1>26. Acyclic(e) BY <1>1, <1>16, <1>20, <1>22, <1>24, <1>25, TakingOverKeepsAcyclic
<1>27. Bounded(e)
  <2>1. Len(e) = Len(d) /\ Len(d) \in DOMAIN d
    <3>1. Len(d) \in Nat /\ DOMAIN d = 1 .. Len(d) /\ Len(e) \in Nat /\ DOMAIN e = 1 .. Len(e)
      BY <1>1, <1>11 DEF WellFormed
    <3>2. Len(e) = Len(d) BY <1>13, <3>1, IntervalEnd
    <3>3. 1 \in DOMAIN d BY <1>1 DEF Bounded
    <3> QED BY <3>1, <3>2, <3>3
  <2>2. OperandNodes(e, 1) = {}
    <3>1. PICK m \in DOMAIN d : m = 1 BY <1>1 DEF Bounded
    <3>2. PICK i : i = d[m] OBVIOUS
    <3>3. e[m].ops = [j \in DOMAIN i.ops |-> Subst(i.ops[j], by)]
      BY <1>12, <3>2 DEF Redirected
    <3>4. DOMAIN i.ops = {}
      <4>1. OperandNodes(d, m) = {} BY <1>1, <3>1 DEF Bounded
      <4>2. \A j \in DOMAIN i.ops : i.ops[j][1] \in OperandNodes(d, m) BY <3>2 DEF OperandNodes, Range
      <4> QED BY <4>1, <4>2
    <3>5. DOMAIN e[m].ops = {} BY <3>3, <3>4
    <3> QED BY <3>1, <3>5 DEF OperandNodes, Range
  <2> QED BY <1>1, <1>13, <2>1, <2>2 DEF Bounded
<1>28. ASSUME NEW m \in DOMAIN e PROVE Recorded(e, P \cup {n}, S, m)
  <2>1. Recorded(d, P, S, m) /\ e[m].op = d[m].op /\ e[m].imm = d[m].imm BY <1>13, <1>28 DEF Sound
  <2> QED BY <2>1 DEF Recorded
<1>29. P \subseteq DOMAIN d /\ S \subseteq DOMAIN d BY DEF Sound
<1> QED BY <1>11, <1>13, <1>19, <1>26, <1>27, <1>28, <1>29 DEF Sound

\* The combiner: no access depends on the addition it does, nor the other way round.
LEMMA CombiningKeepsSound ==
    ASSUME GraphInv, CombineToPostIndexed PROVE GraphInv'
<1>1. PICK n \in Live, a \in Live \ {End} :
        /\ n \notin post
        /\ GetPostIndexedAddressParts(n, a)
        /\ a \notin Below(n)
        /\ post' = post \cup {n}
        /\ dag' = ReplaceUses(dag,
             IF dag[n].op = "LOAD" THEN Replace(<<n, 1>>, <<n, 2>>, <<a, 0>>, <<n, 1>>)
                                   ELSE Replace(<<n, 0>>, <<n, 1>>, <<a, 0>>, <<n, 0>>))
  BY DEF CombineToPostIndexed
<1>2. PICK d, P, S, e : d = dag /\ P = post /\ S = selected /\ e = dag' OBVIOUS
<1>3. Sound(d, P, S) BY <1>2 DEF GraphInv
<1>4. n \in DOMAIN d /\ a \in DOMAIN d BY <1>2, LiveOperands
<1>5. d[n].op \in Accesses /\ d[a].op = "BIN" /\ n \notin P /\ a \notin Reached(d, n)
  BY <1>1, <1>2 DEF GetPostIndexedAddressParts, Below
<1>6. e = ReplaceUses(d, Increment(d, n, a)) BY <1>1, <1>2 DEF Increment
<1>7. Sound(e, P \cup {n}, S) BY <1>3, <1>4, <1>5, <1>6, IncrementKeepsSound
<1>8. selected' = S BY <1>2 DEF CombineToPostIndexed
<1> QED BY <1>1, <1>2, <1>7, <1>8 DEF GraphInv

\* Select of a store.
LEMMA SelectStoreKeepsSound ==
    ASSUME GraphInv, NEW n \in Live, ~Tangled(n), SelectStore(n) PROVE GraphInv'
<1>1. dag[n].op = "STORE" BY DEF SelectStore
<1>2. n \in Nodes BY DEF Live
<1>3. PICK s : s = dag[n].ops[2][1] OBVIOUS
<1>4. 3 - 1 = 2 /\ 3 - 2 = 1 OBVIOUS
<1>5. CASE dag[s].op = "BIN" /\ CanBinOpStore(n, dag[s].ops[1])
  <2>1. SelectIndexedBinOpStore(n, dag[s].ops[1], dag[s].ops[3 - 1])
    BY <1>3, <1>4, <1>5 DEF SelectStore
  <2> QED BY <1>1, <1>3, <1>5, <2>1, IndexedBinOpStoreKeepsSound
<1>6. CASE dag[s].op = "BIN" /\ ~CanBinOpStore(n, dag[s].ops[1]) /\ CanBinOpStore(n, dag[s].ops[2])
  <2>1. SelectIndexedBinOpStore(n, dag[s].ops[2], dag[s].ops[3 - 2])
    BY <1>3, <1>4, <1>6 DEF SelectStore
  <2> QED BY <1>1, <1>3, <1>6, <2>1, IndexedBinOpStoreKeepsSound
<1>7. CASE ~(dag[s].op = "BIN" /\ (CanBinOpStore(n, dag[s].ops[1]) \/ CanBinOpStore(n, dag[s].ops[2])))
  <2>1. \/ n \in post /\ SelectIndexedStore(n)
        \/ n \notin post /\ SelectCodeBinOpStore(n)
        \/ n \notin post /\ \E m \in Modes(Ptr(n)) :
             Become(n, Node(StoreForm[m.form], "-", <<m.base, dag[n].ops[2], dag[n].ops[1]>>,
                            dag[n].vt, "none", m.disp), <<>>)
    BY <1>3, <1>7 DEF SelectStore, IsValidIndexed
  <2> QED BY <1>1, <1>2, <2>1, IndexedStoreKeepsSound, PlainStoreKeepsSound, CodeBinOpStoreKeepsSound
<1> QED BY <1>5, <1>6, <1>7

\* Select of arithmetic.
LEMMA SelectBinaryKeepsSound ==
    ASSUME GraphInv, NEW n \in Live, ~Tangled(n), SelectBinary(n) PROVE GraphInv'
<1>1. dag[n].op = "BIN" BY DEF SelectBinary
<1>2. n \in Nodes BY DEF Live
<1>3. 3 - 1 = 2 /\ 3 - 2 = 1 OBVIOUS
<1>4. CASE CanBinOpLoad(n, dag[n].ops[1])
  <2>1. SelectIndexedBinOpLoad(n, dag[n].ops[1], dag[n].ops[3 - 1]) BY <1>3, <1>4 DEF SelectBinary
  <2> QED BY <1>1, <1>4, <2>1, IndexedBinOpLoadKeepsSound
<1>5. CASE ~CanBinOpLoad(n, dag[n].ops[1]) /\ CanBinOpLoad(n, dag[n].ops[2])
  <2>1. SelectIndexedBinOpLoad(n, dag[n].ops[2], dag[n].ops[3 - 2]) BY <1>3, <1>5 DEF SelectBinary
  <2> QED BY <1>1, <1>5, <2>1, IndexedBinOpLoadKeepsSound
<1>6. CASE ~CanBinOpLoad(n, dag[n].ops[1]) /\ ~CanBinOpLoad(n, dag[n].ops[2])
  <2>1. SelectCodeBinOpLoad(n) \/ Become(n, [dag[n] EXCEPT !.op = "RR"], <<>>)
    BY <1>6 DEF SelectBinary
  <2> QED BY <1>1, <1>2, <2>1, CodeBinOpLoadKeepsSound, RegistersKeepSound
<1> QED BY <1>4, <1>5, <1>6

\* A block starts as a sound graph.
LEMMA BlocksSound == ASSUME NEW p \in Programs PROVE Sound(p, {}, {})
<1>1. WellFormed(p) BY BlocksWellFormed
<1>2. PICK len \in Nat \ {0} : len = Len(p) /\ DOMAIN p = 1 .. len BY BlocksAssumption
<1>3. ASSUME NEW k \in DOMAIN p
      PROVE  /\ p[k].op \in Leaves \cup Symbols \cup Accesses \cup {"BIN", "TF", "END"}
             /\ p[k].ops \in Seq((1 .. k - 1) \X (0 .. 2))
             /\ p[k].imm \in Register
             /\ p[k].op \in {"BIN", "LOAD"} => Len(p[k].ops) = 2
             /\ p[k].op = "STORE" => Len(p[k].ops) = 3
  <2>1. /\ p[k] \in [op : Leaves \cup Symbols \cup Accesses \cup {"BIN", "TF", "END"},
                     alu : Alu \cup {"-"}, ops : Seq((1 .. k - 1) \X (0 .. 2)),
                     vt : Widths \cup {0}, ext : {"none"} \cup Extensions, imm : Register]
        /\ p[k].op \in {"BIN", "LOAD"} => Len(p[k].ops) = 2
        /\ p[k].op = "STORE" => Len(p[k].ops) = 3
    BY <1>2, BlocksAssumption
  <2> QED BY <2>1
<1>4. ASSUME NEW k \in DOMAIN p, NEW j \in DOMAIN p[k].ops
      PROVE  p[k].ops[j] \in Values(p) /\ p[k].ops[j][1] < k
  <2>1. PICK s \in Seq((1 .. k - 1) \X (0 .. 2)) : s = p[k].ops BY <1>3
  <2>2. s[j] \in (1 .. k - 1) \X (0 .. 2) BY <2>1, LenProperties, ElementOfSeq
  <2>3. k \in 1 .. len BY <1>2
  <2>4. s[j][1] \in 1 .. k - 1 /\ s[j] \in (DOMAIN p) \X (0 .. 2) BY <1>2, <2>2, <2>3
  <2> QED BY <2>1, <2>3, <2>4 DEF Values
<1>5. Sized(p)
  <2> SUFFICES ASSUME NEW k \in DOMAIN p PROVE p[k].ops \in Seq(Values(p)) /\ Counted(p[k])
    BY DEF Sized
  <2>1. PICK s \in Seq((1 .. k - 1) \X (0 .. 2)) : s = p[k].ops BY <1>3
  <2>2. PICK m \in Nat : m = Len(s) /\ DOMAIN s = 1 .. m BY LenProperties
  <2>3. s \in [1 .. m -> Values(p)]
    <3>1. s \in [1 .. m -> (1 .. k - 1) \X (0 .. 2)] BY <2>2, LenProperties
    <3>2. \A j \in 1 .. m : s[j] \in Values(p) BY <1>4, <2>1, <2>2
    <3> QED BY <3>1, <3>2
  <2>4. s \in Seq(Values(p)) BY <2>3, FunctionIsSeq
  <2>5. Counted(p[k])
    BY <1>3 DEF Counted, Loads, Stores, Leaves, Symbols, Accesses
  <2> QED BY <2>1, <2>4, <2>5
<1>6. OperandNodes(p, 1) = {}
  <2>1. PICK k \in DOMAIN p : k = 1 BY <1>2
  <2>2. PICK s \in Seq((1 .. k - 1) \X (0 .. 2)) : s = p[k].ops BY <1>3
  <2>3. DOMAIN s = {}
    <3>1. \A j \in DOMAIN s : s[j] \in (1 .. k - 1) \X (0 .. 2) BY LenProperties, ElementOfSeq
    <3>2. 1 .. k - 1 = {} BY <2>1
    <3> QED BY <3>1, <3>2
  <2> QED BY <2>1, <2>2, <2>3 DEF OperandNodes, Range
<1>7. Bounded(p)
  <2>1. p[1].op = "ENTRY" /\ p[Len(p)].op = "END" BY BlocksAssumption
  <2> QED BY <1>2, <1>6, <2>1 DEF Bounded
<1>8. Linked(p) BY <1>1, <1>5, SizedIsLinked
<1>9. ASSUME NEW k \in DOMAIN p, NEW m \in OperandNodes(p, k) PROVE m \in DOMAIN p /\ m < k
  <2>1. PICK j \in DOMAIN p[k].ops : m = p[k].ops[j][1] BY DEF OperandNodes, Range
  <2>2. p[k].ops[j] \in Values(p) /\ p[k].ops[j][1] < k BY <1>4
  <2> QED BY <2>1, <2>2 DEF Values
<1>10. Acyclic(p)
  <2> SUFFICES ASSUME NEW n \in DOMAIN p, NEW m \in OperandNodes(p, n) PROVE n \notin Reached(p, m)
    BY DEF Acyclic
  <2>1. m \in 1 .. len /\ n \in 1 .. len /\ m < n BY <1>2, <1>9
  <2>2. PICK N : N = 1 .. m OBVIOUS
  <2>3. N \in SUBSET DOMAIN p /\ m \in N /\ n \notin N BY <1>2, <2>1, <2>2
  <2>4. Closed(p, N)
    <3> SUFFICES ASSUME NEW x \in N, NEW y \in OperandNodes(p, x) PROVE y \in N BY DEF Closed
    <3>1. x \in DOMAIN p BY <2>3
    <3>2. y \in DOMAIN p /\ y < x BY <1>9, <3>1
    <3> QED BY <1>2, <2>1, <2>2, <3>1, <3>2
  <2>5. Reached(p, m) \subseteq N BY <1>8, <1>9, <2>3, <2>4, ReachedIsLeast
  <2> QED BY <2>3, <2>5
<1>11. ASSUME NEW k \in DOMAIN p PROVE Recorded(p, {}, {}, k)
  <2>1. p[k].imm \in Int
    <3>1. p[k].imm \in Register BY <1>3
    <3> QED BY <3>1, RegisterIsInt
  <2>2. p[k].op \notin Instructions \cup {"RR"}
    BY <1>3 DEF Instructions, Loads, Stores, Leaves, Symbols, Accesses
  <2>3. p[k].op # "MR_POST" BY <2>2 DEF Instructions, Stores
  <2>4. p[k].op = "REG" => p[k].imm \in LiveIn BY <2>1, InputsAssumption DEF LiveIn
  <2> QED BY <2>1, <2>2, <2>3, <2>4 DEF Recorded
<1>12. WellTyped(p, {}) BY TypedBlocks
<1> QED BY <1>1, <1>5, <1>7, <1>10, <1>11, <1>12 DEF Sound

\* The invariant holds at first,
LEMMA GraphInvInitially == Init => GraphInv
<1> SUFFICES ASSUME Init PROVE GraphInv OBVIOUS
<1>1. prog \in Programs /\ dag = prog /\ post = {} /\ selected = {} BY DEF Init
<1> QED BY <1>1, BlocksSound DEF GraphInv

\* and every step from a graph that is not tangled keeps it.
LEMMA NextKeepsSound ==
    ASSUME GraphInv, Untangled, [Next]_vars PROVE GraphInv'
<1>1. ASSUME dag' = dag, post' = post, selected' = selected PROVE GraphInv'
  BY <1>1 DEF GraphInv
<1>2. CASE CombineToPostIndexed BY <1>2, CombiningKeepsSound
<1>3. CASE StartSelection BY <1>1, <1>3 DEF StartSelection
<1>4. CASE Select
  <2>1. PICK n \in Selectable : SelectLoad(n) \/ SelectStore(n) \/ SelectBinary(n)
    BY <1>4 DEF Select
  <2>2. n \in Live /\ n \in Nodes /\ ~Tangled(n) BY DEF Selectable, Untangled, Live
  <2> QED BY <2>1, <2>2, SelectLoadKeepsSound, SelectStoreKeepsSound, SelectBinaryKeepsSound
<1>5. CASE FinishSelection BY <1>1, <1>5 DEF FinishSelection
<1>6. CASE \E n \in Nodes : Execute(n) BY <1>1, <1>6 DEF Execute
<1>7. CASE Finish BY <1>1, <1>7 DEF Finish
<1>8. CASE UNCHANGED vars BY <1>1, <1>8 DEF vars
<1> QED BY <1>2, <1>3, <1>4, <1>5, <1>6, <1>7, <1>8 DEF Next

(* Whatever increments are formed and loads folded, the graph of a block is *)
(* well formed, typed, and has no cycles.                                  *)
THEOREM GraphInvHolds == Spec /\ []Untangled => []GraphInv
<1>1. Init => GraphInv BY GraphInvInitially
<1>2. GraphInv /\ Untangled /\ [Next]_vars => GraphInv' BY NextKeepsSound
<1> QED BY <1>1, <1>2, PTL DEF Spec

-----------------------------------------------------------------------------
(* What the machine computes are integers.                                 *)

LEMMA WrapIsInt == ASSUME NEW v \in Int PROVE Wrap(v) \in Int
<1>1. PICK k \in Nat : k = Span(4) /\ k > 0 BY SpanIsNat
<1>2. v % k \in Int BY <1>1
<1> QED BY <1>1, <1>2 DEF Wrap

\* BitAnd is a sum of finitely many bits.
LEMMA BitAndIsInt == ASSUME NEW a, NEW b PROVE BitAnd(a, b) \in Int
<1> DEFINE f == [p \in Bits |-> IF (a \div p) % 2 = 1 /\ (b \div p) % 2 = 1 THEN p ELSE 0]
<1>1. IsFiniteSet(Bits)
  <2>1. PICK m \in Int, k \in Int : m = 0 /\ k = Span(4) - 1 BY SpanIsNat
  <2>2. IsFiniteSet(m .. k) BY FS_Interval
  <2>3. Bits \in SUBSET (m .. k) BY <2>1 DEF Bits, Register
  <2> QED BY <2>2, <2>3, FS_Subset
<1>2. \A p \in Bits : p \in Int BY RegisterIsInt DEF Bits
<1>3. DOMAIN f = Bits /\ \A p \in DOMAIN f : f[p] \in Int BY <1>2
<1> HIDE DEF f
<1>4. SumFunction(f) \in Int BY <1>1, <1>3, SumIsInt
<1> QED BY <1>4 DEF f, BitAnd

LEMMA ApplyIsInt ==
    ASSUME NEW alu \in Alu, NEW a \in Int, NEW b \in Int PROVE Apply(alu, a, b) \in Int
<1>1. Wrap(a + b) \in Int /\ Wrap(a - b) \in Int BY WrapIsInt
<1>2. PICK c \in Int : c = BitAnd(a, b) BY BitAndIsInt
<1> QED BY <1>1, <1>2 DEF Apply, Alu

\* The cells of an access are few, and each has its place in the word.
LEMMA CellsAre ==
    ASSUME NEW a \in Int, NEW bytes \in Widths
    PROVE  /\ IsFiniteSet(Cells(a, bytes))
           /\ \A c \in Cells(a, bytes) : c \in Int /\ Span(c - a) \in Nat /\ Span(c - a) > 0
<1>1. bytes \in 1 .. 4 BY DEF Widths
<1>2. PICK k \in Int : k = a + bytes - 1 BY <1>1
<1>3. IsFiniteSet(a .. k) BY FS_Interval
<1>4. ASSUME NEW c \in a .. k PROVE c - a \in 0 .. 4 BY <1>1, <1>2
<1> QED BY <1>2, <1>3, <1>4, SpanIsNat DEF Cells

\* What is read from memory that holds bytes is an integer.
LEMMA ReadIsInt ==
    ASSUME NEW m, NEW a \in Int, NEW bytes \in Widths, \A c \in Cells(a, bytes) : m[c] \in Int
    PROVE  Read(m, a, bytes) \in Int
<1> DEFINE f == [c \in Cells(a, bytes) |-> m[c] * Span(c - a)]
<1>1. IsFiniteSet(DOMAIN f) BY CellsAre
<1>2. ASSUME NEW c \in Cells(a, bytes) PROVE f[c] \in Int
  <2>1. PICK x \in Int, y \in Int : x = m[c] /\ y = Span(c - a) BY CellsAre
  <2>2. x * y \in Int OBVIOUS
  <2> QED BY <2>1, <2>2
<1>3. \A c \in DOMAIN f : f[c] \in Int BY <1>2
<1> HIDE DEF f
<1>4. SumFunction(f) \in Int BY <1>1, <1>3, SumIsInt
<1> QED BY <1>4 DEF f, Read

LEMMA ExtendIsInt ==
    ASSUME NEW v \in Int, NEW bytes \in Widths, NEW ext PROVE Extend(v, bytes, ext) \in Int
<1>1. bytes \in 0 .. 4 BY DEF Widths
<1>2. PICK k \in Int : k = Span(bytes) BY <1>1, SpanIsNat
<1>3. Wrap(v - k) \in Int BY WrapIsInt
<1> QED BY <1>2, <1>3 DEF Extend

\* Whatever is written, memory holds bytes.
LEMMA WriteIsBytes ==
    ASSUME NEW D, NEW m \in [D -> 0 .. Byte - 1], NEW a \in Int, NEW v \in Int, NEW bytes \in Widths
    PROVE  Write(m, a, v, bytes) \in [D -> 0 .. Byte - 1]
<1>1. PICK b \in Nat : b = Byte /\ b > 0
  <2>1. Byte \in {2, 4, 8, 16, 32, 64, 128, 256} BY ByteAssumption
  <2> QED BY <2>1
<1>2. ASSUME NEW c \in Cells(a, bytes) PROVE (v \div Span(c - a)) % Byte \in 0 .. Byte - 1
  <2>1. PICK k \in Nat : k = Span(c - a) /\ k > 0 BY CellsAre
  <2>2. PICK w \in Int : w = v \div k BY <2>1
  <2>3. w % b \in 0 .. b - 1 BY <1>1
  <2> QED BY <1>1, <2>1, <2>2, <2>3
<1>3. Write(m, a, v, bytes)
        = [c \in D |-> IF c \in Cells(a, bytes) THEN (v \div Span(c - a)) % Byte ELSE m[c]]
  BY DEF Write
<1> QED BY <1>2, <1>3

-----------------------------------------------------------------------------
(* What the instructions compute.                                          *)

\* What the nodes that memory instructions feed need of the instructions.
Computed(N) == \A m \in N : dag[m].op \in Instructions => m \in DOMAIN val /\ val[m] \in [1 .. 3 -> Int]

\* What a node of the graph that is not yet computed has to offer.
LEMMA NodeFacts ==
    ASSUME GraphInv, NEW n \in DOMAIN dag
    PROVE  /\ dag[n].imm \in Int
           /\ dag[n].op = "REG" => \A i \in Inputs : i.reg[dag[n].imm] \in Register
           /\ dag[n].op = "RR" => dag[n].alu \in Alu /\ \A k \in {1, 2} :
                k \in DOMAIN dag[n].ops /\ dag[n].ops[k] \in Values(dag)
                /\ dag[n].ops[k][1] \in OperandNodes(dag, n)
<1>1. PICK d, P, S : d = dag /\ P = post /\ S = selected OBVIOUS
<1>2. Sound(d, P, S) /\ n \in DOMAIN d BY <1>1 DEF GraphInv
<1>3. Recorded(d, P, S, n) /\ Shaped(d[n]) BY <1>2 DEF Sound, WellFormed
<1>4. d[n].imm \in Int /\ (d[n].op = "REG" => \A i \in Inputs : i.reg[d[n].imm] \in Register)
  BY <1>3 DEF Recorded, LiveIn
<1>5. d[n].op = "RR" => d[n].alu \in Alu BY <1>3 DEF Shaped
<1>6. ASSUME d[n].op = "RR", NEW k \in {1, 2}
      PROVE  /\ k \in DOMAIN d[n].ops /\ d[n].ops[k] \in Values(d)
             /\ d[n].ops[k][1] \in OperandNodes(d, n)
  <2>1. d[n].ops \in Seq(Values(d)) /\ Counted(d[n]) BY <1>2 DEF Sound, Sized
  <2>2. PICK s \in Seq(Values(d)) : s = d[n].ops BY <2>1
  <2>3. Len(s) = 2 BY <1>6, <2>1, <2>2 DEF Counted
  <2>4. k \in DOMAIN s /\ s[k] \in Values(d) BY <2>3, LenProperties, ElementOfSeq
  <2> QED BY <2>2, <2>4 DEF OperandNodes, Range
<1> QED BY <1>1, <1>4, <1>5, <1>6

(* What feeds an instruction is an integer once the instructions it depends *)
(* on have run: the recursion of Value ends because the graph has no cycles.*)
LEMMA ValueIsInt ==
    ASSUME GraphInv, in \in Inputs, NEW v \in Values(dag), Computed(Below(v[1]))
    PROVE  Value(v) \in Int
<1> DEFINE D == Below(v[1]) \X (0 .. 2)
           rank == [u \in D |-> Depth(dag, u[1])]
           F == [g \in [D -> Int] |-> [u \in D |-> Result(g, u)]]
           value == CHOOSE g : g = [u \in D |-> Result(g, u)]
<1>1. Value(v) = value[v] BY DEF Value
<1>2. Linked(dag) /\ Acyclic(dag) BY GraphFacts
<1>3. v[1] \in DOMAIN dag /\ v[2] \in 0 .. 2 /\ v = <<v[1], v[2]>> BY DEF Values
<1>4. /\ v[1] \in Below(v[1]) /\ Below(v[1]) \in SUBSET DOMAIN dag
      /\ Closed(dag, Below(v[1]))
  BY <1>2, <1>3, ReachedIsLeast DEF Below
<1>5. ASSUME NEW u \in D
      PROVE  /\ u[1] \in Below(v[1]) /\ u[1] \in DOMAIN dag /\ u[2] + 1 \in 1 .. 3
             /\ Depth(dag, u[1]) \in Nat
             /\ dag[u[1]].op = "RR" => \A k \in {1, 2} :
                  /\ dag[u[1]].ops[k] \in D
                  /\ Depth(dag, dag[u[1]].ops[k][1]) < Depth(dag, u[1])
  <2>1. u[1] \in Below(v[1]) /\ u[1] \in DOMAIN dag /\ u[2] \in 0 .. 2 BY <1>4
  <2>2. Depth(dag, u[1]) \in Nat
    <3>1. Reached(dag, u[1]) \in SUBSET DOMAIN dag BY <1>2, <2>1, ReachedIsLeast
    <3> QED BY <1>2, <3>1, FS_Subset, FS_CardinalityType DEF Linked, Depth
  <2>3. ASSUME dag[u[1]].op = "RR", NEW k \in {1, 2}
        PROVE  /\ dag[u[1]].ops[k] \in D
               /\ Depth(dag, dag[u[1]].ops[k][1]) < Depth(dag, u[1])
    <3>1. /\ dag[u[1]].ops[k] \in Values(dag)
          /\ dag[u[1]].ops[k][1] \in OperandNodes(dag, u[1])
      BY <2>1, <2>3, NodeFacts
    <3>2. dag[u[1]].ops[k][1] \in Below(v[1]) BY <1>4, <2>1, <3>1 DEF Closed
    <3>3. dag[u[1]].ops[k] \in D BY <3>1, <3>2 DEF Values
    <3>4. Depth(dag, dag[u[1]].ops[k][1]) < Depth(dag, u[1]) BY <1>2, <2>1, <3>1, DepthOfOperand
    <3> QED BY <3>3, <3>4
  <2> QED BY <2>1, <2>2, <2>3
<1>6. rank \in [D -> Nat] BY <1>5
<1>7. ASSUME NEW g \in [D -> Int], NEW u \in D PROVE Result(g, u) \in Int
  <2>1. PICK n : n = dag[u[1]] OBVIOUS
  <2>2. CASE n.op \in Instructions
    <3>1. val[u[1]] \in [1 .. 3 -> Int] BY <1>5, <2>1, <2>2 DEF Computed
    <3>2. val[u[1]][u[2] + 1] \in Int BY <1>5, <3>1
    <3> QED BY <2>1, <2>2, <3>2 DEF Result, Instructions, Loads, Stores, Symbols
  <2>3. CASE n.op \notin Instructions /\ n.op # "RR"
    <3>1. n.imm \in Int BY <1>5, <2>1, NodeFacts
    <3>2. n.op = "REG" => in.reg[n.imm] \in Int BY <1>5, <2>1, NodeFacts, RegisterIsInt
    <3>3. n.op = "REG" => n.op \notin {"CONST", "FI"} \cup Symbols BY DEF Symbols
    <3> QED BY <2>1, <2>3, <3>1, <3>2, <3>3 DEF Result
  <2>4. CASE n.op = "RR"
    <3>1. Result(g, u) = Apply(n.alu, g[n.ops[1]], g[n.ops[2]])
      BY <2>1, <2>4 DEF Result, Instructions, Loads, Stores, Symbols
    <3>2. g[n.ops[1]] \in Int /\ g[n.ops[2]] \in Int
      <4>1. n.ops[1] \in D /\ n.ops[2] \in D BY <1>5, <2>1, <2>4
      <4> HIDE DEF D
      <4> QED BY <4>1
    <3>3. n.alu \in Alu BY <1>5, <2>1, <2>4, NodeFacts
    <3> QED BY <3>1, <3>2, <3>3, ApplyIsInt
  <2> QED BY <2>2, <2>3, <2>4
<1>8. Recursion(F, D, Int, rank)
  <2>1. F \in [[D -> Int] -> [D -> Int]]
    <3>1. ASSUME NEW g \in [D -> Int] PROVE [u \in D |-> Result(g, u)] \in [D -> Int]
      BY <1>7
    <3> HIDE DEF D
    <3> QED BY <3>1
  <2>2. ASSUME NEW g \in [D -> Int], NEW h \in [D -> Int], NEW u \in D,
               \A x \in D : rank[x] < rank[u] => g[x] = h[x]
        PROVE  F[g][u] = F[h][u]
    <3>1. ASSUME dag[u[1]].op = "RR", NEW k \in {1, 2}
          PROVE  g[dag[u[1]].ops[k]] = h[dag[u[1]].ops[k]]
      <4>1. PICK x \in D : x = dag[u[1]].ops[k] BY <1>5, <3>1
      <4>2. rank[x] < rank[u] BY <1>5, <3>1, <4>1
      <4> QED BY <2>2, <4>1, <4>2
    <3>2. Result(g, u) = Result(h, u)
      <4>1. PICK n : n = dag[u[1]] OBVIOUS
      <4>2. CASE n.op = "RR"
        <5>1. g[n.ops[1]] = h[n.ops[1]] /\ g[n.ops[2]] = h[n.ops[2]] BY <3>1, <4>1, <4>2
        <5> QED BY <4>1, <5>1 DEF Result
      <4>3. CASE n.op # "RR" BY <4>1, <4>3 DEF Result
      <4> QED BY <4>2, <4>3
    <3> HIDE DEF D
    <3> QED BY <3>2
  <2> HIDE DEF F, rank, D
  <2> QED BY <2>1, <2>2 DEF Recursion
<1>9. PICK g \in [D -> Int] : g = [u \in D |-> Result(g, u)]
  <2>1. Int # {} OBVIOUS
  <2>2. PICK g \in [D -> Int] : g = F[g]
    <3> HIDE DEF F, rank, D
    <3> QED BY <1>6, <1>8, <2>1, RecursionSolved
  <2>3. g = [u \in D |-> Result(g, u)]
    <3> HIDE DEF D
    <3> QED BY <2>2
  <2> HIDE DEF D
  <2> QED BY <2>3
<1>10. value = [u \in D |-> Result(value, u)]
  <2> HIDE DEF D
  <2> QED BY <1>9
<1> HIDE DEF value
<1>11. ASSUME NEW u \in D PROVE value[u] = Result(value, u)
  <2> HIDE DEF D
  <2> QED BY <1>10
<1> DEFINE T == {k \in Nat : \E u \in D : Depth(dag, u[1]) = k /\ value[u] \notin Int}
<1>12. T = {}
  <2>1. SUFFICES ASSUME T # {} PROVE FALSE OBVIOUS
  <2>2. T \subseteq Nat OBVIOUS
  <2>3. PICK k \in T : \A j \in T : k <= j
    <3> HIDE DEF T
    <3> QED BY <2>1, <2>2, LeastNat
  <2>4. PICK u \in D : Depth(dag, u[1]) = k /\ value[u] \notin Int BY <2>3
  <2>5. PICK h \in [D -> Int] : \A w \in D : value[w] \in Int => h[w] = value[w]
    <3> DEFINE h == [w \in D |-> IF value[w] \in Int THEN value[w] ELSE 0]
    <3> HIDE DEF D, T
    <3>1. h \in [D -> Int] /\ \A w \in D : value[w] \in Int => h[w] = value[w] OBVIOUS
    <3> QED BY <3>1
  <2>6. Result(value, u) = Result(h, u)
    <3>1. PICK n : n = dag[u[1]] OBVIOUS
    <3>2. CASE n.op # "RR" BY <3>1, <3>2 DEF Result
    <3>3. ASSUME n.op = "RR", NEW i \in {1, 2} PROVE value[n.ops[i]] = h[n.ops[i]]
      <4>1. PICK w \in D : w = n.ops[i] BY <1>5, <3>1, <3>3
      <4>2. PICK j : j = Depth(dag, w[1]) OBVIOUS
      <4>3. j \in Nat /\ j < k BY <1>5, <2>4, <3>1, <3>3, <4>1, <4>2
      <4>4. j \notin T
        <5> HIDE DEF T
        <5> QED BY <2>2, <2>3, <4>3
      <4>5. value[w] \in Int BY <4>2, <4>3, <4>4
      <4> HIDE DEF D
      <4> QED BY <2>5, <4>1, <4>5
    <3>4. CASE n.op = "RR"
      <4>1. value[n.ops[1]] = h[n.ops[1]] /\ value[n.ops[2]] = h[n.ops[2]] BY <3>3, <3>4
      <4> QED BY <3>1, <4>1 DEF Result
    <3> QED BY <3>2, <3>4
  <2>7. Result(h, u) \in Int
    <3> HIDE DEF D
    <3> QED BY <1>7
  <2> HIDE DEF D
  <2> QED BY <1>11, <2>4, <2>6, <2>7
<1>13. v \in D /\ Depth(dag, v[1]) \in Nat
  <2>1. v \in D BY <1>3, <1>4
  <2> QED BY <1>5, <2>1
<1>14. value[v] \in Int
  <2> HIDE DEF D
  <2> QED BY <1>12, <1>13
<1> HIDE DEF value
<1> QED BY <1>1, <1>14

-----------------------------------------------------------------------------
(* The machine.                                                            *)

Triple == [1 .. 3 -> Int]
MachineInv ==
    /\ in \in Inputs
    /\ stage \in {"combine", "select", "run", "done"}
    /\ DOMAIN val \subseteq selected /\ tied \subseteq selected
    /\ \A m \in DOMAIN val : val[m] \in Triple
    /\ mem \in [DOMAIN in.mem -> 0 .. Byte - 1]

LEMMA ByteIsNat == Byte \in Nat /\ 0 .. Byte - 1 \subseteq Int
<1>1. Byte \in {2, 4, 8, 16, 32, 64, 128, 256} BY ByteAssumption
<1> QED BY <1>1

\* What instruction n is made of.
LEMMA InstructionFacts ==
    ASSUME GraphInv, NEW n \in DOMAIN dag, dag[n].op \in Instructions
    PROVE  /\ n \in selected
           /\ dag[n].vt \in Widths /\ dag[n].imm \in Int
           /\ HasOp(n) => dag[n].alu \in Alu
           /\ Base(n) \in Values(dag) /\ Base(n)[1] \in OpNodes(n)
           /\ dag[n].op \in Stores => dag[n].ops[2] \in Values(dag) /\ dag[n].ops[2][1] \in OpNodes(n)
           /\ dag[n].op \in Loads /\ HasOp(n) =>
                dag[n].ops[1] \in Values(dag) /\ dag[n].ops[1][1] \in OpNodes(n)
<1>1. PICK d, P, S : d = dag /\ P = post /\ S = selected OBVIOUS
<1>2. Sound(d, P, S) /\ n \in DOMAIN d /\ d[n].op \in Instructions BY <1>1 DEF GraphInv
<1>3. Recorded(d, P, S, n) /\ Shaped(d[n]) /\ Counted(d[n]) BY <1>2 DEF Sound, WellFormed, Sized
<1>4. n \in S /\ d[n].imm \in Int BY <1>2, <1>3 DEF Recorded
<1>5. d[n].vt \in Widths BY <1>2, <1>3 DEF Shaped, Extended, Plain, Instructions
<1>6. d[n].alu # "-" => d[n].alu \in Alu
  <2>1. CASE d[n].op \in {"RM", "RM_POST", "MR", "MR_POST"} BY <1>3, <2>1 DEF Shaped
  <2>2. CASE d[n].op \in {"RMr", "RMA", "MRr", "MAR"} BY <1>3, <2>2 DEF Shaped
  <2> QED BY <1>2, <2>1, <2>2 DEF Instructions, Loads, Stores
<1>7. ASSUME NEW k \in 1 .. Len(d[n].ops)
      PROVE  d[n].ops[k] \in Values(d) /\ d[n].ops[k][1] \in OperandNodes(d, n)
  BY <1>2, OperandFits
<1>8. CASE d[n].op \in Stores
  <2>1. Len(d[n].ops) = 3 BY <1>3, <1>8 DEF Counted
  <2>2. 1 \in 1 .. Len(d[n].ops) /\ 2 \in 1 .. Len(d[n].ops) BY <2>1
  <2>3. d[n].op \notin Loads BY <1>8 DEF Loads, Stores
  <2>4. Base(n) = d[n].ops[1] BY <1>1, <2>3 DEF Base
  <2> QED BY <1>1, <1>4, <1>5, <1>6, <1>7, <2>2, <2>3, <2>4 DEF OpNodes, HasOp
<1>9. CASE d[n].op \in Loads /\ d[n].alu = "-"
  <2>1. Len(d[n].ops) = 2 BY <1>3, <1>9 DEF Counted
  <2>2. 1 \in 1 .. Len(d[n].ops) BY <2>1
  <2>3. d[n].op \notin Stores BY <1>9 DEF Loads, Stores
  <2>4. Base(n) = d[n].ops[1] BY <1>1, <1>9 DEF Base, HasOp
  <2> QED BY <1>1, <1>4, <1>5, <1>6, <1>7, <1>9, <2>2, <2>3, <2>4 DEF OpNodes, HasOp
<1>10. CASE d[n].op \in Loads /\ d[n].alu # "-"
  <2>1. Len(d[n].ops) = 3 BY <1>3, <1>10 DEF Counted
  <2>2. 1 \in 1 .. Len(d[n].ops) /\ 2 \in 1 .. Len(d[n].ops) BY <2>1
  <2>3. d[n].op \notin Stores BY <1>10 DEF Loads, Stores
  <2>4. Base(n) = d[n].ops[2] BY <1>1, <1>10 DEF Base, HasOp
  <2> QED BY <1>1, <1>4, <1>5, <1>6, <1>7, <1>10, <2>2, <2>3, <2>4 DEF OpNodes, HasOp
<1> QED BY <1>2, <1>8, <1>9, <1>10 DEF Instructions

\* When an instruction is ready, so are its operands.
LEMMA ReadyOperands ==
    ASSUME GraphInv, MachineInv, NEW n, Ready(n), NEW v \in Values(dag), v[1] \in OpNodes(n)
    PROVE  Value(v) \in Int
<1>1. n \in Live /\ \A m \in OpNodes(n) : Below(m) \cap Memory \subseteq DOMAIN val
  BY DEF Ready, Memory
<1>2. v[1] \in Live BY <1>1, LiveOperands DEF Closed, OpNodes
<1>3. Below(v[1]) \subseteq Live BY <1>2, LiveOperands DEF Below
<1>4. ASSUME NEW m \in Below(v[1]), dag[m].op \in Instructions
      PROVE  m \in DOMAIN val /\ val[m] \in [1 .. 3 -> Int]
  <2>1. m \in Memory BY <1>3, <1>4 DEF Memory
  <2>2. m \in DOMAIN val BY <1>1, <1>4, <2>1
  <2> QED BY <2>2 DEF MachineInv, Triple
<1>5. Computed(Below(v[1])) BY <1>4 DEF Computed
<1>6. in \in Inputs BY DEF MachineInv
<1> QED BY <1>5, <1>6, ValueIsInt

LEMMA TripleIs == ASSUME NEW a \in Int, NEW b \in Int, NEW c \in Int PROVE <<a, b, c>> \in Triple
BY DEF Triple

\* An instruction that runs adds its results to those there are.
LEMMA RanKeeps ==
    ASSUME NEW n \in selected, NEW x \in Triple, MachineInv
    PROVE  /\ DOMAIN Ran(n, x) \subseteq selected
           /\ \A m \in DOMAIN Ran(n, x) : Ran(n, x)[m] \in Triple
BY DEF Ran, MachineInv

\* Whichever register Rd is, it holds an integer.
LEMMA LeftIsInt ==
    ASSUME GraphInv, MachineInv, NEW n, HasOp(n) => Value(dag[n].ops[1]) \in Int,
           NEW x \in LeftInRd(n)
    PROVE  x \in Int
<1>1. CASE n \in Untied
  <2>1. x = 0 \/ \E m \in Nodes : dag[m].op = "REG" /\ x = in.reg[dag[m].imm]
    BY <1>1 DEF LeftInRd
  <2>2. ASSUME NEW m \in Nodes, dag[m].op = "REG" PROVE in.reg[dag[m].imm] \in Int
    <3>1. in \in Inputs BY DEF MachineInv
    <3> QED BY <2>2, <3>1, NodeFacts, RegisterIsInt DEF Nodes
  <2> QED BY <2>1, <2>2
<1>2. CASE n \notin Untied
  <2>1. x = IF HasOp(n) THEN Value(dag[n].ops[1]) ELSE 0 BY <1>2 DEF LeftInRd
  <2> QED BY <2>1
<1> QED BY <1>1, <1>2

\* An instruction leaves integers in registers and bytes in memory.
LEMMA ExecuteKeepsMachine ==
    ASSUME GraphInv, MachineInv, NEW n, Execute(n) PROVE MachineInv'
<1> DEFINE i == dag[n]
           a == Address(n)
           there == Cells(a, i.vt) \subseteq DOMAIN mem
           read == IF there THEN Extend(Read(mem, a, i.vt), i.vt, i.ext) ELSE 0
<1>1. Ready(n) /\ n \in DOMAIN dag /\ i.op \in Instructions
  BY LiveOperands DEF Execute, Ready, Memory
<1>2. UNCHANGED <<in, stage, selected, tied>> BY DEF Execute
<1>3. /\ n \in selected /\ i.vt \in Widths /\ i.imm \in Int
      /\ HasOp(n) => i.alu \in Alu
  BY <1>1, InstructionFacts
<1>4. i.vt \in Int BY <1>3 DEF Widths
<1>5. a \in Int
  <2>1. Value(Base(n)) \in Int BY <1>1, InstructionFacts, ReadyOperands
  <2>2. Value(Base(n)) + i.imm \in Int BY <1>3, <2>1
  <2> QED BY <2>2, WrapIsInt DEF Address
<1>6. mem \in [DOMAIN in.mem -> 0 .. Byte - 1] BY DEF MachineInv
<1>7. read \in Int
  <2>1. ASSUME there PROVE Extend(Read(mem, a, i.vt), i.vt, i.ext) \in Int
    <3>1. \A c \in Cells(a, i.vt) : mem[c] \in Int BY <1>6, <2>1, ByteIsNat
    <3> HIDE DEF a, i
    <3>2. Read(mem, a, i.vt) \in Int BY <1>3, <1>5, <3>1, ReadIsInt
    <3> QED BY <1>3, <3>2, ExtendIsInt
  <2> HIDE DEF there, a, i
  <2> QED BY <2>1
<1>8. Wrap(a + i.vt) \in Int
  <2> HIDE DEF a, i
  <2>1. a + i.vt \in Int BY <1>4, <1>5
  <2> QED BY <2>1, WrapIsInt
<1>9. CASE i.op \in Loads
  <2>1. PICK x \in LeftInRd(n) :
          /\ val' = Ran(n, <<IF HasOp(n) THEN Apply(i.alu, x, read) ELSE read,
                             Wrap(a + i.vt), 0>>)
          /\ mem' = mem
    BY <1>9 DEF Execute
  <2> DEFINE y == IF HasOp(n) THEN Apply(i.alu, x, read) ELSE read
  <2>2. x \in Int
    <3>1. HasOp(n) => Value(i.ops[1]) \in Int BY <1>1, <1>9, InstructionFacts, ReadyOperands
    <3> QED BY <3>1, LeftIsInt
  <2>3. y \in Int
    <3> HIDE DEF read, i
    <3> QED BY <1>3, <1>7, <2>2, ApplyIsInt
  <2>4. val' = Ran(n, <<y, Wrap(a + i.vt), 0>>) /\ mem' = mem BY <2>1
  <2> HIDE DEF y, a, i
  <2>5. PICK z \in Triple : z = <<y, Wrap(a + i.vt), 0>>
    <3>1. 0 \in Int OBVIOUS
    <3>2. <<y, Wrap(a + i.vt), 0>> \in Triple BY <1>8, <2>3, <3>1, TripleIs
    <3> QED BY <3>2
  <2>6. /\ DOMAIN val' \subseteq selected
        /\ \A m \in DOMAIN val' : val'[m] \in Triple
    BY <1>3, <2>4, <2>5, RanKeeps
  <2> QED BY <1>2, <2>4, <2>6 DEF MachineInv, Triple
<1>10. CASE i.op \in Stores
  <2> DEFINE data == Value(i.ops[2])
             new == IF HasOp(n) THEN Apply(i.alu, read, data) ELSE data
  <2>1. data \in Int BY <1>1, <1>10, InstructionFacts, ReadyOperands
  <2>2. new \in Int
    <3> HIDE DEF data, read, i
    <3> QED BY <1>3, <1>7, <2>1, ApplyIsInt
  <2>3. i.op \notin Loads BY <1>10 DEF Loads, Stores
  <2>4. /\ val' = Ran(n, <<Wrap(a + i.vt), 0, 0>>)
        /\ mem' = IF there THEN Write(mem, a, new, i.vt) ELSE mem
    BY <2>3 DEF Execute
  <2> HIDE DEF new, a, i, there
  <2>5. PICK z \in Triple : z = <<Wrap(a + i.vt), 0, 0>>
    <3>1. 0 \in Int OBVIOUS
    <3>2. <<Wrap(a + i.vt), 0, 0>> \in Triple BY <1>8, <3>1, TripleIs
    <3> QED BY <3>2
  <2>6. /\ DOMAIN val' \subseteq selected
        /\ \A m \in DOMAIN val' : val'[m] \in Triple
    BY <1>3, <2>4, <2>5, RanKeeps
  <2>7. Write(mem, a, new, i.vt) \in [DOMAIN in.mem -> 0 .. Byte - 1]
    BY <1>3, <1>5, <1>6, <2>2, WriteIsBytes
  <2>8. mem' \in [DOMAIN in.mem -> 0 .. Byte - 1] BY <1>6, <2>4, <2>7
  <2> QED BY <1>2, <2>6, <2>8 DEF MachineInv, Triple
<1> QED BY <1>1, <1>9, <1>10 DEF Instructions

\* Selecting a node leaves the machine alone.
LEMMA SelectingIs ==
    ASSUME NEW n, SelectLoad(n) \/ SelectStore(n) \/ SelectBinary(n)
    PROVE  selected' = selected \cup {n} /\ UNCHANGED <<in, stage, val, mem, tied>>
<1>1. CASE SelectLoad(n) BY <1>1 DEF SelectLoad, SelectIndexedLoad, Become, machine
<1>2. CASE SelectStore(n)
  BY <1>2 DEF SelectStore, SelectIndexedBinOpStore, SelectIndexedStore, SelectCodeBinOpStore,
              Become, machine
<1>3. CASE SelectBinary(n)
  BY <1>3 DEF SelectBinary, SelectIndexedBinOpLoad, SelectCodeBinOpLoad, Become, machine
<1> QED BY <1>1, <1>2, <1>3

LEMMA MachineInvInitially == Init => MachineInv
<1> SUFFICES ASSUME Init PROVE MachineInv OBVIOUS
<1>1. /\ in \in Inputs /\ stage = "combine" /\ selected = {} /\ val = <<>> /\ mem = in.mem
      /\ tied = {}
  BY DEF Init
<1>2. DOMAIN val = {} BY <1>1
<1>3. in.mem \in [DOMAIN in.mem -> 0 .. Byte - 1] BY <1>1, InputsAssumption
<1> QED BY <1>1, <1>2, <1>3 DEF MachineInv

LEMMA NextKeepsMachine ==
    ASSUME GraphInv, MachineInv, [Next]_vars PROVE MachineInv'
<1>1. ASSUME UNCHANGED <<in, val, mem, tied>>, selected \subseteq selected',
             stage' \in {"combine", "select", "run", "done"}
      PROVE  MachineInv'
  BY <1>1 DEF MachineInv
<1>2. stage \in {"combine", "select", "run", "done"} BY DEF MachineInv
<1>3. CASE CombineToPostIndexed BY <1>1, <1>2, <1>3 DEF CombineToPostIndexed, machine
<1>4. CASE StartSelection BY <1>1, <1>4 DEF StartSelection, machine
<1>5. CASE Select
  <2>1. PICK n : SelectLoad(n) \/ SelectStore(n) \/ SelectBinary(n) BY <1>5 DEF Select
  <2>2. selected' = selected \cup {n} /\ UNCHANGED <<in, stage, val, mem, tied>>
    BY <2>1, SelectingIs
  <2> QED BY <1>1, <1>2, <2>2
<1>6. CASE FinishSelection
  <2>1. tied' \subseteq PostArithmetic /\ UNCHANGED <<in, val, mem, selected>> /\ stage' = "run"
    BY <1>6 DEF FinishSelection
  <2>2. PostArithmetic \subseteq selected
    BY LiveOperands, InstructionFacts DEF PostArithmetic, Memory
  <2> QED BY <2>1, <2>2 DEF MachineInv
<1>7. CASE \E n \in Nodes : Execute(n) BY <1>7, ExecuteKeepsMachine
<1>8. CASE Finish BY <1>1, <1>8 DEF Finish, machine
<1>9. CASE UNCHANGED vars BY <1>1, <1>2, <1>9 DEF vars
<1> QED BY <1>3, <1>4, <1>5, <1>6, <1>7, <1>8, <1>9 DEF Next

LEMMA TypesFollow == GraphInv /\ MachineInv => TypeOK
BY GraphFacts DEF GraphInv, Sound, MachineInv, TypeOK, Nodes

(* Every operand of the selected code is a result its node really has, a   *)
(* chain where one is needed (ReplaceAllUsesOfValueWith by result number,  *)
(* KudeyarISelDAGToDAG.cpp:712-714, 768-770), and registers and memory     *)
(* hold what they can hold, for every set of blocks and inputs.            *)
THEOREM TypeCorrect == Spec /\ []Untangled => []TypeOK
<1>1. Spec /\ []Untangled => []GraphInv BY GraphInvHolds
<1>2. Init => MachineInv BY MachineInvInitially
<1>3. GraphInv /\ MachineInv /\ [Next]_vars => MachineInv' BY NextKeepsMachine
<1>4. GraphInv /\ MachineInv => TypeOK BY TypesFollow
<1> QED BY <1>1, <1>2, <1>3, <1>4, PTL DEF Spec

-----------------------------------------------------------------------------
(* Nothing waits for ever.                                                 *)

\* What a node depends on does not depend on it.
LEMMA DepthOfReached ==
    ASSUME NEW d, Linked(d), Acyclic(d), NEW m \in DOMAIN d, NEW n \in Reached(d, m), n # m
    PROVE  Depth(d, n) < Depth(d, m)
<1>1. n \in DOMAIN d /\ Reached(d, n) \subseteq Reached(d, m) BY ReachedFromReached
<1>2. PICK o \in OperandNodes(d, m) : n \in Reached(d, o)
  <2> DEFINE N == {m} \cup UNION {Reached(d, o) : o \in OperandNodes(d, m)}
  <2>1. ASSUME NEW o \in OperandNodes(d, m)
        PROVE  /\ o \in Reached(d, o) /\ Reached(d, o) \subseteq DOMAIN d
               /\ Closed(d, Reached(d, o))
    <3>1. o \in DOMAIN d BY DEF Linked
    <3> QED BY <3>1, ReachedIsLeast
  <2>2. N \in SUBSET DOMAIN d BY <2>1
  <2>3. Closed(d, N)
    <3> SUFFICES ASSUME NEW x \in N, NEW y \in OperandNodes(d, x) PROVE y \in N BY DEF Closed
    <3>1. CASE x = m BY <2>1, <3>1
    <3>2. CASE x # m
      <4>1. PICK o \in OperandNodes(d, m) : x \in Reached(d, o) BY <3>2
      <4>2. y \in Reached(d, o) BY <2>1, <4>1 DEF Closed
      <4> QED BY <4>2
    <3> QED BY <3>1, <3>2
  <2>4. Reached(d, m) \subseteq N
    <3>1. m \in N OBVIOUS
    <3> HIDE DEF N
    <3> QED BY <2>2, <2>3, <3>1, ReachedIsLeast
  <2> QED BY <2>4
<1>3. m \notin Reached(d, n)
  <2>1. o \in DOMAIN d BY DEF Linked
  <2>2. Reached(d, n) \subseteq Reached(d, o) BY <1>2, <2>1, ReachedFromReached
  <2> QED BY <2>2 DEF Acyclic
<1>4. m \in Reached(d, m) BY ReachedIsLeast
<1>5. Reached(d, n) \in SUBSET DOMAIN d /\ Reached(d, m) \in SUBSET DOMAIN d BY <1>1, ReachedIsLeast
<1>6. IsFiniteSet(Reached(d, n)) /\ IsFiniteSet(Reached(d, m)) BY <1>5, FS_Subset DEF Linked
<1>7. Cardinality(Reached(d, n)) \in Nat /\ Cardinality(Reached(d, m)) \in Nat
  BY <1>6, FS_CardinalityType
<1>8. /\ Cardinality(Reached(d, n)) <= Cardinality(Reached(d, m))
      /\ Cardinality(Reached(d, n)) = Cardinality(Reached(d, m)) => Reached(d, n) = Reached(d, m)
  BY <1>1, <1>6, FS_Subset
<1> QED BY <1>3, <1>4, <1>7, <1>8 DEF Depth

\* A node depends on so many nodes, and not on more than there are.
LEMMA DepthBounded ==
    ASSUME NEW d, Linked(d), NEW n \in DOMAIN d
    PROVE  Depth(d, n) \in Nat /\ Cardinality(DOMAIN d) - Depth(d, n) \in Nat
<1>1. Reached(d, n) \in SUBSET DOMAIN d BY ReachedIsLeast
<1>2. IsFiniteSet(DOMAIN d) BY DEF Linked
<1>3. IsFiniteSet(Reached(d, n)) /\ Cardinality(Reached(d, n)) <= Cardinality(DOMAIN d)
  BY <1>1, <1>2, FS_Subset
<1>4. Cardinality(Reached(d, n)) \in Nat /\ Cardinality(DOMAIN d) \in Nat
  BY <1>2, <1>3, FS_CardinalityType
<1> QED BY <1>3, <1>4 DEF Depth

\* Of some nodes of a graph without cycles, one depends on none of the others.
LEMMA Lowest ==
    ASSUME NEW d, Linked(d), Acyclic(d), NEW S \in SUBSET DOMAIN d, S # {}
    PROVE  \E n \in S : \A m \in S \ {n} : m \notin Reached(d, n)
<1> DEFINE T == {Depth(d, n) : n \in S}
<1>1. T \subseteq Nat /\ T # {} BY DepthBounded
<1>2. PICK k \in T : \A j \in T : k <= j
  <2> HIDE DEF T
  <2> QED BY <1>1, LeastNat
<1>3. PICK n \in S : Depth(d, n) = k OBVIOUS
<1>4. ASSUME NEW m \in S \ {n} PROVE m \notin Reached(d, n)
  <2>1. k <= Depth(d, m) BY <1>2
  <2>2. Depth(d, m) \in Nat /\ k \in Nat BY <1>1
  <2> QED BY <1>3, <2>1, <2>2, DepthOfReached
<1> QED BY <1>3, <1>4

\* And none of the others depends on one of them.
LEMMA Highest ==
    ASSUME NEW d, Linked(d), Acyclic(d), NEW S \in SUBSET DOMAIN d, S # {}
    PROVE  \E n \in S : \A m \in S \ {n} : n \notin Reached(d, m)
<1> DEFINE height(n) == Cardinality(DOMAIN d) - Depth(d, n)
           T == {height(n) : n \in S}
<1>1. ASSUME NEW n \in S PROVE height(n) \in Nat /\ Depth(d, n) \in Nat BY DepthBounded
<1>2. T \subseteq Nat /\ T # {} BY <1>1
<1>3. PICK k \in T : \A j \in T : k <= j
  <2> HIDE DEF T
  <2> QED BY <1>2, LeastNat
<1>4. PICK n \in S : height(n) = k OBVIOUS
<1>5. ASSUME NEW m \in S \ {n} PROVE n \notin Reached(d, m)
  <2>1. height(n) <= height(m) BY <1>3, <1>4
  <2>2. Cardinality(DOMAIN d) \in Nat BY FS_CardinalityType DEF Linked
  <2>3. Depth(d, m) <= Depth(d, n) BY <1>1, <2>1, <2>2
  <2>4. ~(Depth(d, n) < Depth(d, m)) BY <1>1, <2>3
  <2> QED BY <2>4, DepthOfReached
<1> QED BY <1>4, <1>5

\* The node to select next is one that no other waits for.
LEMMA SomeNodeIsDue ==
    ASSUME GraphInv, stage = "select", ~(Selectable \subseteq selected)
    PROVE  \E n \in Selectable : Due(n)
<1>1. Linked(dag) /\ Acyclic(dag) BY GraphFacts
<1>2. PICK S : S = Selectable \ selected OBVIOUS
<1>3. S \in SUBSET DOMAIN dag /\ S # {} BY <1>2, LiveOperands DEF Selectable
<1>4. PICK n \in S : \A m \in S \ {n} : n \notin Reached(dag, m) BY <1>1, <1>3, Highest
<1>5. Due(n) BY <1>2, <1>4 DEF Due, Below
<1> QED BY <1>2, <1>5

\* The instruction to run next is one that waits for no other.
LEMMA SomeInstructionIsReady ==
    ASSUME GraphInv, ~(Memory \subseteq DOMAIN val)
    PROVE  \E n \in Memory : Ready(n)
<1>1. Linked(dag) /\ Acyclic(dag) BY GraphFacts
<1>2. PICK S : S = Memory \ DOMAIN val OBVIOUS
<1>3. S \in SUBSET DOMAIN dag /\ S # {} BY <1>2, LiveOperands DEF Memory
<1>4. PICK n \in S : \A m \in S \ {n} : m \notin Reached(dag, n) BY <1>1, <1>3, Lowest
<1>5. ASSUME NEW o \in OpNodes(n), NEW x \in Below(o) \cap Memory PROVE x \in DOMAIN val
  <2>1. n \in DOMAIN dag /\ o \in OperandNodes(dag, n) /\ x \in Reached(dag, o)
    BY <1>3 DEF OpNodes, Below
  <2>2. Reached(dag, o) \subseteq Reached(dag, n) BY <1>1, <2>1, ReachedFromOperand
  <2>3. x # n BY <1>1, <2>1 DEF Acyclic
  <2>4. x \notin S BY <1>4, <2>1, <2>2, <2>3
  <2> QED BY <1>2, <2>4
<1>6. Ready(n) BY <1>2, <1>5 DEF Ready
<1> QED BY <1>2, <1>6

LEMMA GraphNeverStuck == GraphInv => NeverStuck
BY SomeNodeIsDue, SomeInstructionIsReady DEF NeverStuck

(* As long as a node is left to select, or an instruction to run, one does  *)
(* not wait for any other: no fold, whichever chains it moves, closes a    *)
(* cycle (IsLegalToFold, KudeyarISelDAGToDAG.cpp:697).                     *)
THEOREM DeadlockFree == Spec /\ []Untangled => []NeverStuck
BY GraphInvHolds, GraphNeverStuck, PTL

=============================================================================
