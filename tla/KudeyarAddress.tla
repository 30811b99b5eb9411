--------------------------- MODULE KudeyarAddress ---------------------------
(***************************************************************************)
(* Matching of an address against the mode base + displacement             *)
(* (KudeyarDAGToDAGISel::MatchAddress and SelectAddr).                      *)
(*                                                                         *)
(* A match is a set with the mode it built, or the empty set if it failed. *)
(***************************************************************************)
EXTENDS KudeyarBlock

NoValue == <<0, 0>>
NoNode == 0

\* int16_t Disp: half a register, signed.
Disps == -(Span(2) \div 2) .. (Span(2) \div 2) - 1
Int16(v) == ((v + Span(2) \div 2) % Span(2)) - (Span(2) \div 2)

(* Base.Reg or Base.FrameIndex (a node is one or the other), Disp, the      *)
(* symbol that is GV, ES or JT, and BlockAddr, which                       *)
(* hasSymbolicDisplacement leaves out.  CP is not modelled: no Wrapper of   *)
(* a constant pool entry is ever built.                                    *)
EmptyMode == [base |-> NoValue, disp |-> 0, symbol |-> NoNode, blockAddr |-> NoNode]

MatchWrapper(op, n, am) ==
    IF am.symbol # NoNode THEN {}
    ELSE IF op = "BA" THEN {[am EXCEPT !.blockAddr = n]} ELSE {[am EXCEPT !.symbol = n]}

MatchAddressBase(v, am) == IF am.base = NoValue THEN {[am EXCEPT !.base = v]} ELSE {}

\* CurDAG->MaskedValueIsZero: bits of `mask' that a node is known to have clear.
\* Frame objects are words, and a mask by a constant clears the other bits.
MaskedValueIsZero(d, n, mask) ==
    \/ d[n].op = "FI" /\ mask < 4
    \/ /\ d[n].op = "BIN" /\ d[n].alu = "AND" /\ d[d[n].ops[2][1]].op = "CONST"
       /\ BitAnd(d[d[n].ops[2][1]].imm, mask) = 0

FirstMatch(s, t) == IF s # {} THEN s ELSE t

Values(d) == (DOMAIN d) \X (0 .. 2)
AddressModes(d) ==
    [base : ({NoNode} \cup DOMAIN d) \X (0 .. 2), disp : Disps,
     symbol : {NoNode} \cup DOMAIN d, blockAddr : {NoNode} \cup DOMAIN d]

\* The mode that results from adding value v to mode am, where `match' says
\* what that is for the operands.
MatchNode(d, match, v, am) ==
    LET n == d[v[1]]
        Const(i) == d[n.ops[i][1]].imm
        BothOps(i, j) == UNION {match[<<n.ops[j], a>>] : a \in match[<<n.ops[i], am>>]}
        BitsClear == MaskedValueIsZero(d, n.ops[1][1], Const(2))
    IN CASE n.op = "CONST" -> {[am EXCEPT !.disp = Int16(@ + n.imm)]}
         [] n.op \in Symbols ->
              FirstMatch(MatchWrapper(n.op, v[1], am), MatchAddressBase(v, am))
         [] n.op = "BIN" /\ n.alu = "ADD" ->
              FirstMatch(BothOps(1, 2), FirstMatch(BothOps(2, 1), MatchAddressBase(v, am)))
         [] n.op = "BIN" /\ n.alu = "OR" /\ d[n.ops[2][1]].op = "CONST" ->
              FirstMatch({[a EXCEPT !.disp = Int16(@ + Const(2))] :
                             a \in {b \in match[<<n.ops[1], am>>] :
                                      /\ b.symbol # NoNode => d[b.symbol].op # "GV"
                                      /\ BitsClear}},
                         MatchAddressBase(v, am))
         [] OTHER -> MatchAddressBase(v, am)

MatchAddress(d, value, mode) ==
    LET match[q \in Values(d) \X AddressModes(d)] == MatchNode(d, match, q[1], q[2])
    IN match[<<value, mode>>]

\* The base (NoValue is register 0, no register) and displacement of an address.
SelectAddr(d, v) ==
    {[base |-> am.base,
      disp |-> IF am.blockAddr # NoNode THEN d[am.blockAddr].imm ELSE am.disp] :
        am \in {a \in MatchAddress(d, v, EmptyMode) : a.symbol = NoNode}}

=============================================================================
