------------------------ MODULE KudeyarBranch_proofs ------------------------
(***************************************************************************)
(* Proofs about KudeyarBranch, for every set of functions and registers of *)
(* every width: the lowering of comparisons is sound, and whatever the     *)
(* branch folder does the code is well typed and free of pseudo            *)
(* instructions when the machine runs it.                                  *)
(***************************************************************************)
EXTENDS KudeyarBranch, KudeyarSequences_proofs

\* The two's complement numbers of two values are equal only if the values are.
LEMMA SignedInjective ==
    ASSUME NEW a \in Word \cup {Undef}, NEW b \in Word \cup {Undef}
    PROVE  /\ Signed(a) \in Int /\ Signed(b) \in Int
           /\ Signed(a) = Signed(b) <=> a = b
           /\ a \in Int /\ b \in Int
BY HalfAssumption DEF Word, Signed, Undef

(* Whatever the width of a register, the comparison EmitCMP chooses and the*)
(* sense of the branch or select that tests it hold together exactly when  *)
(* LLVM's condition does, for every condition but SETUGT.                  *)
THEOREM ComparisonsSound ==
    ASSUME NEW cc \in Conditions \ {"SETUGT"},
           NEW a \in Word \cup {Undef}, NEW b \in Word \cup {Undef}
    PROVE  (CmpResult(CmpCode[cc], a, b) <=> cc \in OnTrue) <=> Holds(cc, a, b)
<1>1. /\ Signed(a) \in Int /\ Signed(b) \in Int
      /\ Signed(a) = Signed(b) <=> a = b
      /\ a \in Int /\ b \in Int
  BY SignedInjective
<1>2. CASE cc \in {"SETEQ", "SETNE"}
  BY <1>1, <1>2 DEF CmpResult, CmpCode, OnTrue, Holds
<1>3. CASE cc \in {"SETULE", "SETUGE", "SETULT"}
  BY <1>1, <1>3 DEF CmpResult, CmpCode, OnTrue, Holds
<1>4. CASE cc \in {"SETLE", "SETGE", "SETGT", "SETLT"}
  BY <1>1, <1>4 DEF CmpResult, CmpCode, OnTrue, Holds
<1> QED BY <1>2, <1>3, <1>4 DEF Conditions

(* The condition the DAG builder puts in place of one whose true side is   *)
(* emitted next is its negation.                                           *)
THEOREM InvertedSound ==
    ASSUME NEW cc \in Conditions, NEW a \in Word \cup {Undef}, NEW b \in Word \cup {Undef}
    PROVE  Inverted[cc] \in Conditions /\ (Holds(Inverted[cc], a, b) <=> ~Holds(cc, a, b))
<1>1. /\ Signed(a) \in Int /\ Signed(b) \in Int
      /\ Signed(a) = Signed(b) <=> a = b
      /\ a \in Int /\ b \in Int
  BY SignedInjective
<1>2. CASE cc \in {"SETEQ", "SETNE"}
  BY <1>1, <1>2 DEF Inverted, Holds, Conditions
<1>3. CASE cc \in {"SETULE", "SETUGE", "SETULT", "SETUGT"}
  BY <1>1, <1>3 DEF Inverted, Holds, Conditions
<1>4. CASE cc \in {"SETLE", "SETGE", "SETGT", "SETLT"}
  BY <1>1, <1>4 DEF Inverted, Holds, Conditions
<1> QED BY <1>2, <1>3, <1>4 DEF Conditions

-----------------------------------------------------------------------------
(* The inductive invariant.                                                *)

\* What instructions are made of.  A move reads a name of the function, and
\* a branch goes to a block.
MachineOps == Compares \cup Branches \cup {"MOV", "RET"}
AllOps == MachineOps \cup Selects \cup {"PHI"}
Operands == Names \cup {"z", "-"}
Instrs(ops) ==
    {i \in [op : ops, l : Operands, r : Operands, to : Blocks \cup {NoBlock}] :
        /\ i.op = "MOV" => i.l \in Names
        /\ i.op \in Branches => i.to \in Blocks}

Placed == ToSet(layout)

\* The code selected for block b, in the parts the custom inserter moves.
SelectCode(b) ==
    LET s == prog[b].select
    IN IF HasSelect(prog, b) THEN LowerSELECT_CC(s.cc, s.l, s.r, s.t, s.f) ELSE <<>>
SelectCompare(b) ==
    EmitCMP(prog[b].select.cc, prog[b].select.l, prog[b].select.r)
SelectBranch(b, t) ==
    MI(IF prog[b].select.cc \in OnTrue THEN "BTs" ELSE "BFs", "-", "-", t)
SelectPhi(b) == MI("PHI", prog[b].select.f, prog[b].select.t, NoBlock)
NextBlocks(b) == {<<prog[b].next[i], 0>> : i \in 1 .. Len(prog[b].next)}

\* The branch at the end of block b, and the blocks it leads to.
InvertEnd(b) == prog[b].next[1] = b + 1
EndCondition(b) == IF InvertEnd(b) THEN Inverted[prog[b].cond.cc] ELSE prog[b].cond.cc
Taken(b) == prog[b].next[IF InvertEnd(b) THEN 2 ELSE 1]
NotTaken(b) == prog[b].next[IF InvertEnd(b) THEN 1 ELSE 2]
EndCompare(b) == EmitCMP(EndCondition(b), prog[b].cond.l, prog[b].cond.r)
EndBranch(b, t) == MI(IF EndCondition(b) \in OnTrue THEN "BTs" ELSE "BFs", "-", "-", t)

\* What is emitted behind the code of block b when blocks are in order.
BlockBehind(b) == IF b < Len(prog) THEN <<b + 1, 0>> ELSE NoBlock

\* Block b as it was selected, and as the custom inserter leaves it.
Whole(b) ==
    /\ <<b, 1>> \notin Placed /\ <<b, 2>> \notin Placed
    /\ code[<<b, 0>>] = SelectCode(b) \o EndOfBlock(b)
    /\ code[<<b, 1>>] = <<>> /\ code[<<b, 2>>] = <<>>
    /\ LayoutNext(<<b, 0>>) = BlockBehind(b)
    /\ succs[<<b, 0>>] = NextBlocks(b)
Split(b) ==
    /\ HasSelect(prog, b)
    /\ <<b, 1>> \in Placed /\ <<b, 2>> \in Placed
    /\ code[<<b, 0>>] = <<SelectCompare(b), SelectBranch(b, <<b, 2>>)>>
    /\ code[<<b, 1>>] = <<>>
    /\ code[<<b, 2>>] = <<SelectPhi(b)>> \o EndOfBlock(b)
    /\ LayoutNext(<<b, 0>>) = <<b, 1>> /\ LayoutNext(<<b, 1>>) = <<b, 2>>
    /\ LayoutNext(<<b, 2>>) = BlockBehind(b)
    /\ succs[<<b, 0>>] = {<<b, 1>>, <<b, 2>>} /\ succs[<<b, 1>>] = {<<b, 2>>}
    /\ succs[<<b, 2>>] = NextBlocks(b)

InputOK == prog \in Programs /\ arg \in [Names -> Word]

LayoutOK ==
    /\ layout \in Seq(Blocks) /\ Len(layout) > 0 /\ IsInjective(layout)
    /\ layout[1] = <<1, 0>>

(* Before the machine starts it is at the entry; while instructions are     *)
(* selected every block is whole or split, and when the branch folder      *)
(* starts no pseudo instruction is left.                                   *)
TypeInv ==
    /\ InputOK /\ LayoutOK
    /\ stage \in {"select", "insert", "phis", "fold", "run", "returned", "lost"}
    /\ z \in Word \cup {Undef} /\ psw \in BOOLEAN
    /\ succs \in [Blocks -> SUBSET Blocks]
    /\ code \in [Blocks -> Seq(Instrs(AllOps))]
    /\ stage \in {"select", "insert", "phis", "fold"} => here = <<1, 0>> /\ pc = 1 /\ z = Undef
    /\ here \in Blocks /\ pc \in 1 .. Len(code[here]) + 1
    /\ stage = "select" =>
         /\ layout = [b \in 1 .. Len(prog) |-> <<b, 0>>]
         /\ \A b \in 1 .. Len(prog) : succs[<<b, 0>>] = NextBlocks(b)
    /\ stage \in {"insert", "phis"} =>
         \A b \in 1 .. Len(prog) :
           /\ <<b, 0>> \in Placed
           /\ Split(b) \/ (Whole(b) /\ (stage = "phis" => ~HasSelect(prog, b)))
    /\ stage \in {"fold", "run", "returned", "lost"} =>
         code \in [Blocks -> Seq(Instrs(MachineOps))]

-----------------------------------------------------------------------------
(* Blocks and instructions.                                                *)

LEMMA BlocksAre ==
    ASSUME InputOK
    PROVE  /\ Len(prog) \in Nat \ {0}
           /\ \A b \in 1 .. Len(prog) : <<b, 0>> \in Blocks /\ <<b, 1>> \in Blocks /\ <<b, 2>> \in Blocks
           /\ \A m \in Blocks : /\ m = <<m[1], m[2]>>
                                /\ m[1] \in 1 .. Len(prog) /\ m[2] \in 0 .. 2
           /\ NoBlock \notin Blocks
<1>1. Len(prog) \in Nat \ {0} BY ProgramsAssumption DEF InputOK
<1>2. \A m : m \in Blocks <=> \E b \in 1 .. Len(prog) : m \in {<<b, 0>>, <<b, 1>>, <<b, 2>>}
  BY DEF Blocks
<1>3. ASSUME NEW m \in Blocks
      PROVE  m = <<m[1], m[2]>> /\ m[1] \in 1 .. Len(prog) /\ m[2] \in 0 .. 2
  BY <1>2
<1>4. NoBlock \notin Blocks
  <2>1. NoBlock[1] = 0 BY DEF NoBlock
  <2> QED BY <2>1, <1>1, <1>3
<1> QED BY <1>1, <1>2, <1>3, <1>4

\* What is known of a function the compiler is given.
LEMMA FunctionIs ==
    ASSUME InputOK, NEW b \in 1 .. Len(prog)
    PROVE  /\ prog[b].next \in Seq(1 .. Len(prog)) /\ Len(prog[b].next) \in 0 .. 2
           /\ \A i \in 1 .. Len(prog[b].next) : prog[b].next[i] \in 1 .. Len(prog)
           /\ HasSelect(prog, b) =>
                /\ prog[b].select.cc \in Conditions
                /\ prog[b].select.l \in Names /\ prog[b].select.r \in Names
                /\ prog[b].select.t \in Names /\ prog[b].select.f \in Names
           /\ Len(prog[b].next) = 2 =>
                /\ prog[b].cond.cc \in Conditions
                /\ prog[b].cond.l \in Names \cup {"z"} /\ prog[b].cond.r \in Names \cup {"z"}
<1>1. prog[b].next \in Seq(1 .. Len(prog)) /\ Len(prog[b].next) <= 2
  BY ProgramsAssumption DEF InputOK
<1>2. Len(prog[b].next) \in Nat BY <1>1, LenProperties
<1>3. \A i \in 1 .. Len(prog[b].next) : prog[b].next[i] \in 1 .. Len(prog)
  BY <1>1, ElementOfSeq
<1>4. HasSelect(prog, b) =>
        /\ prog[b].select.cc \in Conditions
        /\ prog[b].select.l \in Names /\ prog[b].select.r \in Names
        /\ prog[b].select.t \in Names /\ prog[b].select.f \in Names
  BY ProgramsAssumption DEF InputOK
<1>5. Len(prog[b].next) = 2 =>
        /\ prog[b].cond.cc \in Conditions
        /\ prog[b].cond.l \in Names \cup {"z"} /\ prog[b].cond.r \in Names \cup {"z"}
  BY ProgramsAssumption DEF InputOK
<1>6. Len(prog[b].next) \in 0 .. 2
  <2>1. \A x \in Nat : x <= 2 => x \in 0 .. 2 OBVIOUS
  <2> QED BY <2>1, <1>1, <1>2
<1> QED BY <1>1, <1>3, <1>4, <1>5, <1>6, Zenon

LEMMA InstrsMonotonic ==
    ASSUME NEW A, NEW B, A \subseteq B
    PROVE  Instrs(A) \subseteq Instrs(B) /\ Seq(Instrs(A)) \subseteq Seq(Instrs(B))
<1>1. Instrs(A) \subseteq Instrs(B) BY DEF Instrs
<1> QED BY <1>1, SeqMonotonic

LEMMA CompareIs ==
    ASSUME NEW cc \in Conditions, NEW l \in Operands, NEW r \in Operands
    PROVE  EmitCMP(cc, l, r) \in Instrs(Compares)
<1>1. CmpCode[cc] \in Compares /\ "MOV" \notin Compares /\ Compares \cap Branches = {}
  BY DEF Conditions, CmpCode, Compares, Branches, CondBranches
<1> QED BY <1>1 DEF EmitCMP, MI, Instrs

LEMMA ConditionalIs ==
    ASSUME NEW op \in CondBranches, NEW t \in Blocks
    PROVE  MI(op, "-", "-", t) \in Instrs(CondBranches)
BY DEF MI, Instrs, Operands, CondBranches

LEMMA JumpIs ==
    ASSUME NEW t \in Blocks
    PROVE  Jump(t) \in Instrs({"Bs"})
BY DEF Jump, MI, Instrs, Operands

EndOps == Compares \cup Branches \cup {"RET"}

\* The code at the end of a block: what it is, and what it is made of.
LEMMA EndOfBlockIs ==
    ASSUME InputOK, NEW b \in 1 .. Len(prog)
    PROVE  /\ EndOfBlock(b) \in Seq(Instrs(EndOps))
           /\ Len(prog[b].next) = 0 => EndOfBlock(b) = <<MI("RET", "-", "-", NoBlock)>>
           /\ Len(prog[b].next) = 1 =>
                EndOfBlock(b) = IF prog[b].next[1] = b + 1 THEN <<>>
                                ELSE <<Jump(<<prog[b].next[1], 0>>)>>
           /\ Len(prog[b].next) = 2 =>
                EndOfBlock(b) = IF NotTaken(b) = b + 1
                                THEN <<EndCompare(b), EndBranch(b, <<Taken(b), 0>>)>>
                                ELSE <<EndCompare(b), EndBranch(b, <<Taken(b), 0>>),
                                       Jump(<<NotTaken(b), 0>>)>>
<1> DEFINE n == prog[b].next
           I == Instrs(EndOps)
<1>1. /\ Len(n) \in 0 .. 2
      /\ \A i \in 1 .. Len(n) : n[i] \in 1 .. Len(prog) /\ <<n[i], 0>> \in Blocks
      /\ Len(n) = 2 => /\ prog[b].cond.cc \in Conditions
                       /\ prog[b].cond.l \in Operands /\ prog[b].cond.r \in Operands
  BY FunctionIs, BlocksAre DEF Operands
<1>2. MI("RET", "-", "-", NoBlock) \in I
  BY DEF MI, Instrs, Operands, EndOps, Branches, CondBranches
<1>3. \A t \in Blocks : Jump(t) \in I
  <2>1. {"Bs"} \subseteq EndOps BY DEF EndOps, Branches
  <2> QED BY <2>1, JumpIs, InstrsMonotonic
<1>4. CASE Len(n) = 0
  <2>1. EndOfBlock(b) = <<MI("RET", "-", "-", NoBlock)>> BY <1>4 DEF EndOfBlock
  <2> QED BY <2>1, <1>2, <1>4
<1>5. CASE Len(n) = 1
  <2>1. EndOfBlock(b) = IF n[1] = b + 1 THEN <<>> ELSE <<Jump(<<n[1], 0>>)>>
    BY <1>5 DEF EndOfBlock
  <2>2. Jump(<<n[1], 0>>) \in I BY <1>1, <1>3, <1>5
  <2>3. EndOfBlock(b) \in Seq(I) BY <2>1, <2>2
  <2> QED BY <2>1, <2>3, <1>5
<1>6. CASE Len(n) = 2
  <2> DEFINE C == EndCompare(b)
             B == EndBranch(b, <<Taken(b), 0>>)
             J == Jump(<<NotTaken(b), 0>>)
  <2>1. EndCondition(b) \in Conditions
    BY <1>1, <1>6 DEF EndCondition, Inverted, Conditions
  <2>2. C \in I
    <3>1. C \in Instrs(Compares) BY <2>1, <1>1, <1>6, CompareIs DEF EndCompare
    <3>2. Compares \subseteq EndOps BY DEF EndOps
    <3> QED BY <3>1, <3>2, InstrsMonotonic
  <2>3. B \in I
    <3>1. <<Taken(b), 0>> \in Blocks BY <1>1, <1>6 DEF Taken
    <3>2. B \in Instrs(CondBranches) BY <3>1, ConditionalIs DEF EndBranch, CondBranches
    <3>3. CondBranches \subseteq EndOps BY DEF EndOps, Branches
    <3> QED BY <3>2, <3>3, InstrsMonotonic
  <2>4. J \in I
    <3>1. <<NotTaken(b), 0>> \in Blocks BY <1>1, <1>6 DEF NotTaken
    <3> QED BY <3>1, <1>3
  <2>5. CASE InvertEnd(b)
    <3>1. EndOfBlock(b) = <<C, B>>
      BY <1>6, <2>5 DEF EndOfBlock, LowerBR_CC, InvertEnd, EndCondition, EndCompare, EndBranch, Taken
    <3>2. NotTaken(b) = b + 1 BY <2>5 DEF NotTaken, InvertEnd
    <3> HIDE DEF C, B, J
    <3>3. <<C, B>> \in Seq(I) BY <2>2, <2>3
    <3> QED BY <3>1, <3>2, <3>3, <1>6 DEF C, B
  <2>6. CASE ~InvertEnd(b)
    <3>1. EndOfBlock(b) = <<C, B>> \o (IF NotTaken(b) = b + 1 THEN <<>> ELSE <<J>>)
      BY <1>6, <2>6 DEF EndOfBlock, LowerBR_CC, InvertEnd, EndCondition, EndCompare, EndBranch, Taken,
                        NotTaken
    <3> HIDE DEF C, B, J
    <3>2. <<C, B>> \in Seq(I) /\ <<C, B, J>> \in Seq(I) BY <2>2, <2>3, <2>4
    <3>3. <<C, B>> \o <<>> = <<C, B>> BY <3>2, ConcatEmptySeq
    <3>4. <<C, B>> \o <<J>> = <<C, B, J>> BY <2>2, <2>3, <2>4, TwoAndOne
    <3>5. EndOfBlock(b) = IF NotTaken(b) = b + 1 THEN <<C, B>> ELSE <<C, B, J>>
      BY <3>1, <3>3, <3>4
    <3>6. EndOfBlock(b) \in Seq(I) BY <3>2, <3>5
    <3> QED BY <3>5, <3>6, <1>6 DEF C, B, J
  <2> QED BY <2>5, <2>6
<1> QED BY <1>1, <1>4, <1>5, <1>6

\* The code selected for block b.
LEMMA SelectCodeIs ==
    ASSUME InputOK, NEW b \in 1 .. Len(prog), HasSelect(prog, b)
    PROVE  LET s == prog[b].select
               pseudo == MI(IF s.cc \in OnTrue THEN "Select32T" ELSE "Select32F", s.t, s.f, NoBlock)
           IN /\ SelectCode(b) = <<SelectCompare(b), pseudo>>
              /\ SelectCompare(b) \in Instrs(Compares) /\ pseudo \in Instrs(Selects)
              /\ \A t \in Blocks : SelectBranch(b, t) \in Instrs(CondBranches)
              /\ SelectPhi(b) \in Instrs({"PHI"})
<1> DEFINE s == prog[b].select
           pseudo == MI(IF s.cc \in OnTrue THEN "Select32T" ELSE "Select32F", s.t, s.f, NoBlock)
<1>1. /\ s.cc \in Conditions /\ s.l \in Operands /\ s.r \in Operands
      /\ s.t \in Operands /\ s.f \in Operands
  BY FunctionIs DEF Operands
<1>2. SelectCode(b) = <<SelectCompare(b), pseudo>>
  BY DEF SelectCode, LowerSELECT_CC, SelectCompare
<1>3. SelectCompare(b) \in Instrs(Compares) BY <1>1, CompareIs DEF SelectCompare
<1>4. pseudo \in Instrs(Selects) BY <1>1 DEF MI, Instrs, Selects, Branches, CondBranches
<1>5. \A t \in Blocks : SelectBranch(b, t) \in Instrs(CondBranches)
  BY ConditionalIs DEF SelectBranch, CondBranches
<1>6. SelectPhi(b) \in Instrs({"PHI"}) BY <1>1 DEF SelectPhi, MI, Instrs, Branches, CondBranches
<1> QED BY <1>2, <1>3, <1>4, <1>5, <1>6

LEMMA OpsAre ==
    /\ EndOps \subseteq AllOps /\ EndOps \subseteq MachineOps /\ MachineOps \subseteq AllOps
    /\ Compares \subseteq MachineOps /\ CondBranches \subseteq MachineOps /\ Selects \subseteq AllOps
    /\ {"PHI"} \subseteq AllOps /\ {"MOV"} \subseteq MachineOps
    /\ EndOps \cap Selects = {} /\ Compares \cap Selects = {}
BY DEF EndOps, AllOps, MachineOps, Branches, CondBranches, Compares, Selects

\* The function, and what is derived from it, never changes.
LEMMA SameFunction ==
    ASSUME prog' = prog
    PROVE  /\ Blocks' = Blocks
           /\ \A ops : Instrs(ops)' = Instrs(ops)
           /\ \A b : /\ EndOfBlock(b)' = EndOfBlock(b) /\ SelectCode(b)' = SelectCode(b)
                     /\ BlockBehind(b)' = BlockBehind(b) /\ NextBlocks(b)' = NextBlocks(b)
                     /\ SelectCompare(b)' = SelectCompare(b) /\ SelectPhi(b)' = SelectPhi(b)
                     /\ \A t : SelectBranch(b, t)' = SelectBranch(b, t)
<1>1. Blocks' = Blocks BY DEF Blocks
<1>2. \A ops : Instrs(ops)' = Instrs(ops) BY <1>1 DEF Instrs
<1>3. ASSUME NEW b
      PROVE  /\ EndOfBlock(b)' = EndOfBlock(b) /\ SelectCode(b)' = SelectCode(b)
             /\ BlockBehind(b)' = BlockBehind(b) /\ NextBlocks(b)' = NextBlocks(b)
             /\ SelectCompare(b)' = SelectCompare(b) /\ SelectPhi(b)' = SelectPhi(b)
             /\ \A t : SelectBranch(b, t)' = SelectBranch(b, t)
  BY DEF EndOfBlock, SelectCode, BlockBehind, NextBlocks, SelectCompare, SelectPhi, SelectBranch
<1> QED BY <1>1, <1>2, <1>3

LEMMA LayoutNextIs ==
    /\ \A m : LayoutNext(m) = Behind(layout, NoBlock, m)
    /\ \A m : LayoutNext(m)' = Behind(layout', NoBlock, m)
BY DEF LayoutNext, Behind, PositionOf, SelectInSeq

LEMMA PlacedIs ==
    ASSUME NEW S, layout \in Seq(S)
    PROVE  \A m : m \in Placed <=> \E i \in 1 .. Len(layout) : layout[i] = m
<1>1. DOMAIN layout = 1 .. Len(layout) BY LenProperties
<1> QED BY <1>1 DEF Placed, ToSet

LEMMA PlacedIsPrimed ==
    ASSUME NEW S, layout' \in Seq(S)
    PROVE  \A m : m \in Placed' <=> \E i \in 1 .. Len(layout') : layout'[i] = m
<1>1. DOMAIN layout' = 1 .. Len(layout') BY LenProperties
<1> QED BY <1>1 DEF Placed, ToSet

-----------------------------------------------------------------------------
(* The invariant holds initially, and every step of the compiler keeps it. *)

LEMMA InitTypeInv == Init => TypeInv
<1> SUFFICES ASSUME Init PROVE TypeInv OBVIOUS
<1>1. InputOK BY DEF Init, InputOK
<1>2. Len(prog) \in Nat \ {0} /\ \A b \in 1 .. Len(prog) : <<b, 0>> \in Blocks BY <1>1, BlocksAre
<1>3. LayoutOK
  <2>1. layout = [b \in 1 .. Len(prog) |-> <<b, 0>>] BY DEF Init
  <2>2. layout \in [1 .. Len(prog) -> Blocks] BY <1>2, <2>1
  <2>3. layout \in Seq(Blocks) /\ Len(layout) = Len(prog) BY <1>2, <2>2, FunctionIsSeq
  <2>4. IsInjective(layout) BY <2>1 DEF IsInjective
  <2>5. layout[1] = <<1, 0>> BY <1>2, <2>1
  <2> QED BY <1>2, <2>3, <2>4, <2>5 DEF LayoutOK
<1>4. succs \in [Blocks -> SUBSET Blocks]
  <2>1. ASSUME NEW m \in Blocks
        PROVE  {<<prog[m[1]].next[i], 0>> : i \in 1 .. Len(prog[m[1]].next)} \subseteq Blocks
    <3>1. m[1] \in 1 .. Len(prog) BY <1>1, BlocksAre
    <3>2. \A i \in 1 .. Len(prog[m[1]].next) : prog[m[1]].next[i] \in 1 .. Len(prog)
      BY <1>1, <3>1, FunctionIs
    <3> QED BY <1>2, <3>2
  <2> QED BY <2>1 DEF Init
<1>5. code \in [Blocks -> Seq(Instrs(AllOps))]
  <2>1. <<>> \in Seq(Instrs(AllOps)) BY EmptySeq
  <2> QED BY <2>1 DEF Init
<1>6. here \in Blocks /\ pc \in 1 .. Len(code[here]) + 1
  <2>1. here = <<1, 0>> /\ pc = 1 BY DEF Init
  <2>2. here \in Blocks BY <2>1, <1>2
  <2>3. code[here] = <<>> BY <2>2 DEF Init
  <2> QED BY <2>1, <2>2, <2>3
<1>7. \A b \in 1 .. Len(prog) : succs[<<b, 0>>] = NextBlocks(b)
  BY <1>2 DEF Init, NextBlocks
<1> QED BY <1>1, <1>3, <1>4, <1>5, <1>6, <1>7 DEF Init, TypeInv

\* Before it starts, the machine is in front of the entry's first instruction.
LEMMA AtEntry ==
    ASSUME InputOK, here = <<1, 0>>, pc = 1, here' = here, pc' = pc,
           NEW S, code' \in [Blocks -> Seq(S)]
    PROVE  here' \in Blocks /\ pc' \in 1 .. Len(code'[here']) + 1
<1>1. Len(prog) \in Nat \ {0} /\ \A b \in 1 .. Len(prog) : <<b, 0>> \in Blocks BY BlocksAre
<1>2. <<1, 0>> \in Blocks BY <1>1
<1>3. here' \in Blocks BY <1>2
<1>4. code'[here'] \in Seq(S) BY <1>3
<1>5. Len(code'[here']) \in Nat BY <1>4, LenProperties
<1>6. \A n \in Nat : 1 \in 1 .. n + 1 OBVIOUS
<1>7. pc' = 1 OBVIOUS
<1> QED BY <1>3, <1>5, <1>6, <1>7

LEMMA InstructionSelectionTypeInv == TypeInv /\ InstructionSelection => TypeInv'
<1> SUFFICES ASSUME TypeInv, InstructionSelection PROVE TypeInv' OBVIOUS
<1>1. /\ prog' = prog /\ arg' = arg /\ layout' = layout /\ succs' = succs
      /\ here' = here /\ pc' = pc /\ psw' = psw /\ z' = z /\ stage' = "insert" /\ stage = "select"
  BY DEF InstructionSelection, input, machine
<1>2. InputOK /\ LayoutOK /\ here = <<1, 0>> /\ pc = 1 /\ z = Undef BY <1>1 DEF TypeInv
<1>3. Blocks' = Blocks /\ \A ops : Instrs(ops)' = Instrs(ops) BY <1>1, SameFunction
<1>4. /\ Len(prog) \in Nat \ {0} /\ NoBlock \notin Blocks
      /\ \A b \in 1 .. Len(prog) : <<b, 0>> \in Blocks /\ <<b, 1>> \in Blocks /\ <<b, 2>> \in Blocks
      /\ \A m \in Blocks : m = <<m[1], m[2]>> /\ m[1] \in 1 .. Len(prog) /\ m[2] \in 0 .. 2
  BY <1>2, BlocksAre
<1>5. code' = [m \in Blocks |-> IF m[2] # 0 THEN <<>> ELSE SelectCode(m[1]) \o EndOfBlock(m[1])]
  BY DEF InstructionSelection, SelectCode, HasSelect
<1>6. ASSUME NEW b \in 1 .. Len(prog)
      PROVE  SelectCode(b) \o EndOfBlock(b) \in Seq(Instrs(AllOps))
  <2>1. EndOfBlock(b) \in Seq(Instrs(AllOps))
    <3>1. EndOfBlock(b) \in Seq(Instrs(EndOps)) BY <1>2, EndOfBlockIs
    <3> QED BY <3>1, InstrsMonotonic, OpsAre
  <2>2. SelectCode(b) \in Seq(Instrs(AllOps))
    <3>1. CASE HasSelect(prog, b)
      <4> DEFINE s == prog[b].select
                 pseudo == MI(IF s.cc \in OnTrue THEN "Select32T" ELSE "Select32F", s.t, s.f, NoBlock)
      <4>1. /\ SelectCode(b) = <<SelectCompare(b), pseudo>>
            /\ SelectCompare(b) \in Instrs(Compares) /\ pseudo \in Instrs(Selects)
        BY <1>2, <3>1, SelectCodeIs
      <4> HIDE DEF pseudo
      <4>2. SelectCompare(b) \in Instrs(AllOps) /\ pseudo \in Instrs(AllOps)
        <5>1. Compares \subseteq AllOps BY OpsAre
        <5> QED BY <4>1, <5>1, OpsAre, InstrsMonotonic
      <4> QED BY <4>1, <4>2
    <3>2. CASE ~HasSelect(prog, b) BY <3>2, EmptySeq DEF SelectCode
    <3> QED BY <3>1, <3>2
  <2> QED BY <2>1, <2>2, ConcatProperties
<1>7. code' \in [Blocks -> Seq(Instrs(AllOps))]
  <2>1. <<>> \in Seq(Instrs(AllOps)) BY EmptySeq
  <2> QED BY <2>1, <1>4, <1>5, <1>6
<1>8. layout = [b \in 1 .. Len(prog) |-> <<b, 0>>] /\ layout \in Seq(Blocks) /\ IsInjective(layout)
  BY <1>1, <1>2 DEF TypeInv, LayoutOK
<1>9. Len(layout) = Len(prog)
  <2>1. layout \in [1 .. Len(prog) -> Blocks] BY <1>4, <1>8
  <2> QED BY <2>1, <1>4, FunctionIsSeq
<1>10. \A m : m \in Placed <=> \E b \in 1 .. Len(prog) : m = <<b, 0>>
  BY <1>8, <1>9, PlacedIs
<1>11. ASSUME NEW b \in 1 .. Len(prog)
       PROVE  <<b, 0>> \in Placed' /\ Whole(b)'
  <2>1. Placed' = Placed BY <1>1 DEF Placed
  <2>2. <<b, 0>> \in Placed' BY <1>10, <2>1
  <2>3. <<b, 1>> \notin Placed' /\ <<b, 2>> \notin Placed' BY <1>10, <2>1
  <2>4. /\ code'[<<b, 0>>] = SelectCode(b) \o EndOfBlock(b)
        /\ code'[<<b, 1>>] = <<>> /\ code'[<<b, 2>>] = <<>>
    <3>1. /\ <<b, 0>> \in Blocks /\ <<b, 0>>[1] = b /\ <<b, 0>>[2] = 0
          /\ <<b, 1>> \in Blocks /\ <<b, 1>>[2] # 0
          /\ <<b, 2>> \in Blocks /\ <<b, 2>>[2] # 0
      BY <1>4
    <3>2. code'[<<b, 0>>] = SelectCode(<<b, 0>>[1]) \o EndOfBlock(<<b, 0>>[1])
      BY <1>5, <3>1, Zenon
    <3>3. code'[<<b, 1>>] = <<>> /\ code'[<<b, 2>>] = <<>> BY <1>5, <3>1, Zenon
    <3> QED BY <3>1, <3>2, <3>3
  <2>5. LayoutNext(<<b, 0>>)' = BlockBehind(b)
    <3>1. b \in 1 .. Len(layout) /\ layout[b] = <<b, 0>> BY <1>8, <1>9
    <3>2. Behind(layout, NoBlock, layout[b]) = IF b < Len(layout) THEN layout[b + 1] ELSE NoBlock
      BY <1>8, <3>1, BehindAt
    <3>3. b < Len(layout) => layout[b + 1] = <<b + 1, 0>> BY <1>4, <1>8, <1>9
    <3> QED BY <3>1, <3>2, <3>3, <1>1, <1>9, LayoutNextIs DEF BlockBehind
  <2>6. succs'[<<b, 0>>] = NextBlocks(b) BY <1>1 DEF TypeInv
  <2> QED BY <2>2, <2>3, <2>4, <2>5, <2>6, <1>1, SameFunction DEF Whole
<1>12. here' \in Blocks /\ pc' \in 1 .. Len(code'[here']) + 1 BY <1>1, <1>2, <1>7, AtEntry
<1>13. InputOK' /\ LayoutOK' BY <1>1, <1>2, <1>3 DEF InputOK, LayoutOK
<1> QED BY <1>1, <1>2, <1>3, <1>7, <1>11, <1>12, <1>13 DEF TypeInv

\* Where the custom inserter finds a select, and what it does with it.
LEMMA SelectFound ==
    ASSUME TypeInv, stage = "insert", NEW b \in 1 .. Len(prog), NEW p \in 1 .. 2,
           p <= Len(code[<<b, 0>>]), code[<<b, 0>>][p].op \in Selects
    PROVE  LET cs == code[<<b, 0>>]
           IN /\ HasSelect(prog, b) /\ Whole(b) /\ <<b, 0>> \in Placed
              /\ SubSeq(cs, 1, p - 1)
                 \o <<MI(IF cs[p].op = "Select32T" THEN "BTs" ELSE "BFs", "-", "-", SelectTarget(b))>>
                 = <<SelectCompare(b), SelectBranch(b, <<b, 2>>)>>
              /\ <<MI("PHI", cs[p].r, cs[p].l, NoBlock)>> \o SubSeq(cs, p + 1, Len(cs))
                 = <<SelectPhi(b)>> \o EndOfBlock(b)
<1> DEFINE cs == code[<<b, 0>>]
           s == prog[b].select
           pseudo == MI(IF s.cc \in OnTrue THEN "Select32T" ELSE "Select32F", s.t, s.f, NoBlock)
           C == SelectCompare(b)
           B == SelectBranch(b, <<b, 2>>)
           E == EndOfBlock(b)
<1>1. InputOK /\ <<b, 0>> \in Placed /\ (Split(b) \/ Whole(b)) BY DEF TypeInv
<1>2. \A ops : \A i \in Instrs(ops) : i.op \in ops BY DEF Instrs
<1>3. E \in Seq(Instrs(EndOps)) BY <1>1, EndOfBlockIs
<1>4. HasSelect(prog, b) =>
        /\ SelectCode(b) = <<C, pseudo>>
        /\ C \in Instrs(Compares) /\ pseudo \in Instrs(Selects)
        /\ \A t \in Blocks : SelectBranch(b, t) \in Instrs(CondBranches)
  BY <1>1, SelectCodeIs
<1>5. <<b, 2>> \in Blocks BY <1>1, BlocksAre
<1>6. ~Split(b)
  <2>1. SUFFICES ASSUME Split(b) PROVE FALSE OBVIOUS
  <2>2. HasSelect(prog, b) /\ cs = <<C, B>> BY <2>1 DEF Split
  <2>3. C.op \in Compares /\ B.op \in CondBranches BY <1>2, <1>4, <1>5, <2>2
  <2>4. cs[p] \in {C, B}
    <3> HIDE DEF C, B
    <3> QED BY <2>2
  <2> QED BY <2>3, <2>4 DEF Selects, Compares, CondBranches
<1>7. Whole(b) BY <1>1, <1>6
<1>8. HasSelect(prog, b)
  <2>1. SUFFICES ASSUME ~HasSelect(prog, b) PROVE FALSE OBVIOUS
  <2>2. cs = <<>> \o E BY <2>1, <1>7 DEF Whole, SelectCode
  <2>3. cs = E BY <2>2, <1>3, ConcatEmptySeq
  <2>4. cs[p] \in Instrs(EndOps)
    <3>1. Len(cs) \in Nat BY <2>3, <1>3, LenProperties
    <3>2. p \in 1 .. Len(cs) BY <3>1
    <3> QED BY <3>2, <2>3, <1>3, ElementOfSeq
  <2> QED BY <2>4, <1>2, OpsAre
<1>9. cs = <<C, pseudo>> \o E BY <1>7, <1>4, <1>8 DEF Whole
<1>10. C \in Instrs(AllOps) /\ pseudo \in Instrs(AllOps) /\ E \in Seq(Instrs(AllOps))
  <2>1. Compares \subseteq AllOps /\ EndOps \subseteq AllOps /\ Selects \subseteq AllOps BY OpsAre
  <2>2. C \in Instrs(AllOps) BY <2>1, <1>4, <1>8, InstrsMonotonic
  <2>3. pseudo \in Instrs(AllOps) BY <2>1, <1>4, <1>8, InstrsMonotonic
  <2> QED BY <2>1, <2>2, <2>3, <1>3, InstrsMonotonic
<1>11. /\ pseudo.l = s.t /\ pseudo.r = s.f
       /\ (pseudo.op = "Select32T") <=> (s.cc \in OnTrue)
  BY DEF MI
<1> HIDE DEF C, E, pseudo
<1>12. /\ cs[1] = C /\ cs[2] = pseudo
       /\ SubSeq(cs, 1, 1) = <<C>> /\ SubSeq(cs, 3, Len(cs)) = E
  BY <1>9, <1>10, TwoAndMore
<1>13. p = 2
  <2>1. C.op \notin Selects BY <1>2, <1>4, <1>8, OpsAre
  <2> QED BY <2>1, <1>12
<1>14. MI(IF cs[p].op = "Select32T" THEN "BTs" ELSE "BFs", "-", "-", SelectTarget(b)) = B
  BY <1>11, <1>12, <1>13 DEF SelectBranch, SelectTarget
<1>15. MI("PHI", cs[p].r, cs[p].l, NoBlock) = SelectPhi(b)
  BY <1>11, <1>12, <1>13 DEF SelectPhi
<1>16. <<C>> \o <<B>> = <<C, B>>
  <2>1. C \in {C, B} /\ B \in {C, B} OBVIOUS
  <2> QED BY <2>1, OneAndOne
<1> HIDE DEF B
<1>17. SubSeq(cs, 1, p - 1) = <<C>> /\ SubSeq(cs, p + 1, Len(cs)) = E BY <1>12, <1>13
<1>18. SubSeq(cs, 1, p - 1)
       \o <<MI(IF cs[p].op = "Select32T" THEN "BTs" ELSE "BFs", "-", "-", SelectTarget(b))>>
       = <<C, B>>
  BY <1>14, <1>16, <1>17
<1>19. <<MI("PHI", cs[p].r, cs[p].l, NoBlock)>> \o SubSeq(cs, p + 1, Len(cs)) = <<SelectPhi(b)>> \o E
  BY <1>15, <1>17
<1> QED BY <1>1, <1>7, <1>8, <1>18, <1>19 DEF C, B, E

\* The two new blocks are put behind the block they are split from.
LEMMA SpliceLayout ==
    ASSUME InputOK, LayoutOK, NEW b \in 1 .. Len(prog), <<b, 0>> \in Placed,
           <<b, 1>> \notin Placed, <<b, 2>> \notin Placed, prog' = prog,
           layout' = LET i == SelectInSeq(layout, LAMBDA m : m = <<b, 0>>)
                     IN SubSeq(layout, 1, i) \o <<<<b, 1>>, <<b, 2>>>>
                          \o SubSeq(layout, i + 1, Len(layout))
    PROVE  /\ LayoutOK'
           /\ \A m : m \in Placed' <=> m \in Placed \/ m \in {<<b, 1>>, <<b, 2>>}
           /\ LayoutNext(<<b, 0>>)' = <<b, 1>> /\ LayoutNext(<<b, 1>>)' = <<b, 2>>
           /\ LayoutNext(<<b, 2>>)' = LayoutNext(<<b, 0>>)
           /\ \A m \in Placed : m # <<b, 0>> => LayoutNext(m)' = LayoutNext(m)
<1> DEFINE this == <<b, 0>>
           d == <<b, 1>>
           e == <<b, 2>>
<1>1. layout \in Seq(Blocks) /\ Len(layout) > 0 /\ IsInjective(layout) /\ layout[1] = <<1, 0>>
  BY DEF LayoutOK
<1>2. /\ d \in Blocks /\ e \in Blocks /\ this \in Blocks /\ d # e BY BlocksAre
<1>3. \A m : m \in Placed <=> \E i \in 1 .. Len(layout) : layout[i] = m BY <1>1, PlacedIs
<1>4. PICK i \in 1 .. Len(layout) : layout[i] = this BY <1>3
<1>5. PositionOf(layout, this) = i BY <1>1, <1>4, PositionInInjective
<1>6. layout' = SubSeq(layout, 1, i) \o <<d, e>> \o SubSeq(layout, i + 1, Len(layout))
  BY <1>5 DEF PositionOf, SelectInSeq
<1>7. \A k \in 1 .. Len(layout) : layout[k] # d /\ layout[k] # e BY <1>3
<1> HIDE DEF d, e, this
<1> DEFINE r == TwoBehind(layout, i, d, e)
<1>8. /\ r \in Seq(Blocks) /\ IsInjective(r) /\ Len(r) = Len(layout) + 2 /\ r[1] = layout[1]
      /\ \A k \in 1 .. Len(r) : r[k] \in {d, e} \/ \E j \in 1 .. Len(layout) : r[k] = layout[j]
      /\ \E k \in 1 .. Len(r) : r[k] = d
      /\ \E k \in 1 .. Len(r) : r[k] = e
      /\ \A j \in 1 .. Len(layout) : \E k \in 1 .. Len(r) : r[k] = layout[j]
      /\ Behind(r, NoBlock, layout[i]) = d /\ Behind(r, NoBlock, d) = e
      /\ Behind(r, NoBlock, e) = Behind(layout, NoBlock, layout[i])
      /\ \A j \in 1 .. Len(layout) : j # i =>
           Behind(r, NoBlock, layout[j]) = Behind(layout, NoBlock, layout[j])
  <2>1. layout \in Seq(Blocks) /\ IsInjective(layout) /\ i \in 1 .. Len(layout) BY <1>1
  <2>2. d \in Blocks /\ e \in Blocks /\ d # e BY <1>2
  <2>3. r \in Seq(Blocks) /\ Spliced(r, layout, i, d, e) BY <2>1, <2>2, <1>7, BehindSplice
  <2> HIDE DEF r
  <2> QED BY <2>3 DEF Spliced
<1>80. layout' = r BY <1>6 DEF TwoBehind
<1> HIDE DEF r
<1>9. \A m : m \in Placed' <=> \E k \in 1 .. Len(r) : r[k] = m
  BY <1>8, <1>80, PlacedIsPrimed
<1>10. ASSUME NEW m PROVE m \in Placed' <=> m \in Placed \/ m \in {d, e}
  <2>1. \A k \in 1 .. Len(r) : r[k] \in {d, e} \/ \E j \in 1 .. Len(layout) : r[k] = layout[j]
    BY <1>8
  <2>2. /\ \E k \in 1 .. Len(r) : r[k] = d
        /\ \E k \in 1 .. Len(r) : r[k] = e
        /\ \A j \in 1 .. Len(layout) : \E k \in 1 .. Len(r) : r[k] = layout[j]
    BY <1>8
  <2>3. ASSUME m \in Placed' PROVE m \in Placed \/ m \in {d, e}
    <3>1. PICK k \in 1 .. Len(r) : r[k] = m BY <2>3, <1>9
    <3>2. m \in {d, e} \/ \E j \in 1 .. Len(layout) : layout[j] = m BY <2>1, <3>1
    <3> QED BY <1>3, <3>2
  <2>4. ASSUME m \in Placed PROVE m \in Placed'
    <3>1. PICK j \in 1 .. Len(layout) : layout[j] = m BY <2>4, <1>3
    <3>2. \E k \in 1 .. Len(r) : r[k] = m BY <2>2, <3>1
    <3> QED BY <1>9, <3>2
  <2>5. m \in {d, e} => m \in Placed' BY <1>9, <2>2
  <2> QED BY <2>3, <2>4, <2>5
<1>11. Blocks' = Blocks BY SameFunction
<1>12. Len(layout) \in Nat BY <1>1, LenProperties
<1>13. LayoutOK'
  <2>1. layout' \in Seq(Blocks') /\ IsInjective(layout') /\ layout'[1] = <<1, 0>>
    BY <1>1, <1>8, <1>80, <1>11
  <2>2. Len(r) > 0 BY <1>8, <1>12
  <2>3. Len(layout') > 0 BY <2>2, <1>80
  <2> QED BY <2>1, <2>3 DEF LayoutOK
<1>14. \A m \in Placed : m # this => LayoutNext(m)' = LayoutNext(m)
  BY <1>3, <1>4, <1>8, <1>80, LayoutNextIs
<1>15. /\ LayoutNext(this)' = d /\ LayoutNext(d)' = e
       /\ LayoutNext(e)' = LayoutNext(this)
  BY <1>4, <1>8, <1>80, LayoutNextIs
<1> QED BY <1>10, <1>13, <1>14, <1>15 DEF this, d, e

LEMMA EmitTypeInv == TypeInv /\ EmitInstrWithCustomInserter => TypeInv'
<1> SUFFICES ASSUME TypeInv, EmitInstrWithCustomInserter PROVE TypeInv' OBVIOUS
<1>1. /\ prog' = prog /\ arg' = arg /\ here' = here /\ pc' = pc /\ psw' = psw /\ z' = z
      /\ stage' = "insert" /\ stage = "insert"
  BY DEF EmitInstrWithCustomInserter, input, machine
<1>2. InputOK /\ LayoutOK /\ here = <<1, 0>> /\ pc = 1 /\ z = Undef /\ psw \in BOOLEAN
      /\ code \in [Blocks -> Seq(Instrs(AllOps))] /\ succs \in [Blocks -> SUBSET Blocks]
  BY <1>1 DEF TypeInv
<1>3. PICK b \in 1 .. Len(prog), p \in 1 .. 2 :
        LET cs == code[<<b, 0>>]
            i == SelectInSeq(layout, LAMBDA m : m = <<b, 0>>)
        IN /\ p <= Len(cs) /\ cs[p].op \in Selects
           /\ layout' = SubSeq(layout, 1, i) \o <<<<b, 1>>, <<b, 2>>>>
                          \o SubSeq(layout, i + 1, Len(layout))
           /\ code' = [code EXCEPT
                ![<<b, 0>>] = SubSeq(cs, 1, p - 1)
                              \o <<MI(IF cs[p].op = "Select32T" THEN "BTs" ELSE "BFs",
                                      "-", "-", SelectTarget(b))>>,
                ![<<b, 2>>] = <<MI("PHI", cs[p].r, cs[p].l, NoBlock)>>
                              \o SubSeq(cs, p + 1, Len(cs))]
           /\ succs' = [succs EXCEPT ![<<b, 0>>] = {<<b, 1>>, <<b, 2>>}, ![<<b, 1>>] = {<<b, 2>>},
                                     ![<<b, 2>>] = succs[<<b, 0>>]]
  BY DEF EmitInstrWithCustomInserter
<1> DEFINE head == <<SelectCompare(b), SelectBranch(b, <<b, 2>>)>>
           end == <<SelectPhi(b)>> \o EndOfBlock(b)
<1>4. /\ HasSelect(prog, b) /\ Whole(b) /\ <<b, 0>> \in Placed
      /\ code' = [code EXCEPT ![<<b, 0>>] = head, ![<<b, 2>>] = end]
  BY <1>1, <1>3, SelectFound
<1>5. /\ LayoutOK'
      /\ \A m : m \in Placed' <=> m \in Placed \/ m \in {<<b, 1>>, <<b, 2>>}
      /\ LayoutNext(<<b, 0>>)' = <<b, 1>> /\ LayoutNext(<<b, 1>>)' = <<b, 2>>
      /\ LayoutNext(<<b, 2>>)' = LayoutNext(<<b, 0>>)
      /\ \A m \in Placed : m # <<b, 0>> => LayoutNext(m)' = LayoutNext(m)
  <2>1. <<b, 1>> \notin Placed /\ <<b, 2>> \notin Placed BY <1>4 DEF Whole
  <2> QED BY <1>1, <1>2, <1>3, <1>4, <2>1, SpliceLayout
<1>6. /\ Blocks' = Blocks /\ \A ops : Instrs(ops)' = Instrs(ops)
      /\ \A a : /\ EndOfBlock(a)' = EndOfBlock(a) /\ SelectCode(a)' = SelectCode(a)
                /\ BlockBehind(a)' = BlockBehind(a) /\ NextBlocks(a)' = NextBlocks(a)
                /\ SelectCompare(a)' = SelectCompare(a) /\ SelectPhi(a)' = SelectPhi(a)
                /\ \A t : SelectBranch(a, t)' = SelectBranch(a, t)
  BY <1>1, SameFunction
<1>7. \A a \in 1 .. Len(prog) : <<a, 0>> \in Blocks /\ <<a, 1>> \in Blocks /\ <<a, 2>> \in Blocks
  BY <1>2, BlocksAre
<1>8. head \in Seq(Instrs(AllOps)) /\ end \in Seq(Instrs(AllOps))
  <2>1. /\ SelectCompare(b) \in Instrs(AllOps) /\ SelectBranch(b, <<b, 2>>) \in Instrs(AllOps)
        /\ SelectPhi(b) \in Instrs(AllOps) /\ EndOfBlock(b) \in Seq(Instrs(AllOps))
    <3>1. /\ Compares \subseteq AllOps /\ CondBranches \subseteq AllOps /\ {"PHI"} \subseteq AllOps
          /\ EndOps \subseteq AllOps
      BY OpsAre
    <3>2. /\ SelectCompare(b) \in Instrs(Compares) /\ SelectBranch(b, <<b, 2>>) \in Instrs(CondBranches)
          /\ SelectPhi(b) \in Instrs({"PHI"})
      BY <1>2, <1>4, <1>7, SelectCodeIs
    <3>3. EndOfBlock(b) \in Seq(Instrs(EndOps)) BY <1>2, EndOfBlockIs
    <3> QED BY <3>1, <3>2, <3>3, InstrsMonotonic
  <2> DEFINE C == SelectCompare(b)
             B == SelectBranch(b, <<b, 2>>)
             P == SelectPhi(b)
  <2> HIDE DEF C, B, P
  <2>2. <<C, B>> \in Seq(Instrs(AllOps)) BY <2>1 DEF C, B
  <2>3. <<P>> \o EndOfBlock(b) \in Seq(Instrs(AllOps)) BY <2>1, OneAndMore DEF P
  <2> QED BY <2>2, <2>3 DEF C, B, P
<1> HIDE DEF head, end
<1>9. code' \in [Blocks -> Seq(Instrs(AllOps))] BY <1>2, <1>4, <1>7, <1>8
<1>10. succs' \in [Blocks -> SUBSET Blocks] BY <1>2, <1>3, <1>7
<1>11. here' \in Blocks /\ pc' \in 1 .. Len(code'[here']) + 1 BY <1>1, <1>2, <1>9, AtEntry
<1>12. Split(b)'
  <2>1. <<b, 0>> # <<b, 1>> /\ <<b, 0>> # <<b, 2>> /\ <<b, 1>> # <<b, 2>> OBVIOUS
  <2>2. code'[<<b, 0>>] = head /\ code'[<<b, 1>>] = <<>> /\ code'[<<b, 2>>] = end
    BY <1>2, <1>4, <1>7, <2>1 DEF Whole
  <2>3. /\ succs'[<<b, 0>>] = {<<b, 1>>, <<b, 2>>} /\ succs'[<<b, 1>>] = {<<b, 2>>}
        /\ succs'[<<b, 2>>] = NextBlocks(b)
    BY <1>2, <1>3, <1>4, <1>7, <2>1 DEF Whole
  <2>4. LayoutNext(<<b, 2>>)' = BlockBehind(b) BY <1>4, <1>5 DEF Whole
  <2> QED BY <1>1, <1>4, <1>5, <1>6, <2>2, <2>3, <2>4 DEF Split, head, end
<1>13. ASSUME NEW a \in 1 .. Len(prog), a # b
       PROVE  <<a, 0>> \in Placed' /\ (Split(a)' \/ Whole(a)')
  <2>1. <<a, 0>> \in Placed /\ (Split(a) \/ Whole(a)) BY <1>1 DEF TypeInv
  <2>2. \A i, j : <<a, i>> # <<b, j>> BY <1>13
  <2>3. \A i : <<a, i>> \in Placed' <=> <<a, i>> \in Placed BY <1>5, <2>2
  <2>4. \A i : <<a, i>> \in Placed => LayoutNext(<<a, i>>)' = LayoutNext(<<a, i>>) BY <1>5, <2>2
  <2>5. \A i \in {0, 1, 2} : /\ code'[<<a, i>>] = code[<<a, i>>]
                             /\ succs'[<<a, i>>] = succs[<<a, i>>]
    <3>1. \A i \in {0, 1, 2} : <<a, i>> \in Blocks BY <1>7
    <3> QED BY <3>1, <2>2, <1>2, <1>3, <1>4, <1>7
  <2>6. CASE Split(a)
    <3>1. Split(a)' BY <2>1, <2>3, <2>4, <2>5, <2>6, <1>1, <1>6 DEF Split
    <3> QED BY <3>1, <2>1, <2>3
  <2>7. CASE Whole(a)
    <3>1. Whole(a)' BY <2>1, <2>3, <2>4, <2>5, <2>7, <1>1, <1>6 DEF Whole
    <3> QED BY <3>1, <2>1, <2>3
  <2> QED BY <2>1, <2>6, <2>7
<1>14. InputOK' BY <1>1, <1>2 DEF InputOK
<1>15. \A a \in 1 .. Len(prog) : <<a, 0>> \in Placed' /\ (Split(a)' \/ Whole(a)')
  BY <1>4, <1>5, <1>12, <1>13
<1> QED BY <1>1, <1>2, <1>5, <1>6, <1>9, <1>10, <1>11, <1>14, <1>15 DEF TypeInv

LEMMA ExpandDoneTypeInv == TypeInv /\ ExpandISelPseudosDone => TypeInv'
<1> SUFFICES ASSUME TypeInv, ExpandISelPseudosDone PROVE TypeInv' OBVIOUS
<1>1. /\ prog' = prog /\ arg' = arg /\ layout' = layout /\ succs' = succs /\ code' = code
      /\ here' = here /\ pc' = pc /\ psw' = psw /\ z' = z /\ stage' = "phis" /\ stage = "insert"
      /\ \A m \in Blocks : \A k \in 1 .. Len(code[m]) : code[m][k].op \notin Selects
  BY DEF ExpandISelPseudosDone, input, machine
<1>2. InputOK /\ LayoutOK /\ here = <<1, 0>> /\ pc = 1 /\ z = Undef /\ psw \in BOOLEAN
      /\ code \in [Blocks -> Seq(Instrs(AllOps))] /\ succs \in [Blocks -> SUBSET Blocks]
      /\ here \in Blocks /\ pc \in 1 .. Len(code[here]) + 1
  BY <1>1 DEF TypeInv
<1>3. Blocks' = Blocks /\ \A ops : Instrs(ops)' = Instrs(ops) BY <1>1, SameFunction
<1>4. ASSUME NEW b \in 1 .. Len(prog)
      PROVE  <<b, 0>> \in Placed /\ (Split(b) \/ Whole(b)) /\ (Whole(b) => ~HasSelect(prog, b))
  <2>1. <<b, 0>> \in Placed /\ (Split(b) \/ Whole(b)) BY <1>1 DEF TypeInv
  <2>2. SUFFICES ASSUME Whole(b), HasSelect(prog, b) PROVE FALSE BY <2>1
  <2> DEFINE s == prog[b].select
             pseudo == MI(IF s.cc \in OnTrue THEN "Select32T" ELSE "Select32F", s.t, s.f, NoBlock)
             C == SelectCompare(b)
             E == EndOfBlock(b)
             cs == code[<<b, 0>>]
  <2>3. SelectCode(b) = <<C, pseudo>> /\ C \in Instrs(Compares) /\ pseudo \in Instrs(Selects)
    BY <1>2, <2>2, SelectCodeIs
  <2>4. cs = <<C, pseudo>> \o E BY <2>2, <2>3 DEF Whole
  <2>5. C \in Instrs(AllOps) /\ pseudo \in Instrs(AllOps) /\ E \in Seq(Instrs(AllOps))
    <3>1. Compares \subseteq AllOps /\ EndOps \subseteq AllOps /\ Selects \subseteq AllOps BY OpsAre
    <3>2. C \in Instrs(AllOps) BY <3>1, <2>3, InstrsMonotonic
    <3>3. pseudo \in Instrs(AllOps) BY <3>1, <2>3, InstrsMonotonic
    <3>4. E \in Seq(Instrs(EndOps)) BY <1>2, EndOfBlockIs
    <3> QED BY <3>1, <3>2, <3>3, <3>4, InstrsMonotonic
  <2>6. pseudo.op \in Selects BY <2>3 DEF Instrs
  <2> HIDE DEF C, E, pseudo
  <2>7. cs[2] = pseudo /\ Len(cs) = Len(E) + 2 BY <2>4, <2>5, TwoAndMore
  <2>8. Len(E) \in Nat BY <2>5, LenProperties
  <2>9. <<b, 0>> \in Blocks BY <1>2, BlocksAre
  <2>10. 2 \in 1 .. Len(cs) BY <2>7, <2>8
  <2> QED BY <1>1, <2>6, <2>7, <2>9, <2>10
<1>5. InputOK' /\ LayoutOK' BY <1>1, <1>2, <1>3 DEF InputOK, LayoutOK
<1>6. ASSUME NEW b \in 1 .. Len(prog)
      PROVE  <<b, 0>> \in Placed' /\ (Split(b)' \/ (Whole(b)' /\ ~HasSelect(prog', b)))
  <2>1. /\ EndOfBlock(b)' = EndOfBlock(b) /\ SelectCode(b)' = SelectCode(b)
        /\ BlockBehind(b)' = BlockBehind(b) /\ NextBlocks(b)' = NextBlocks(b)
        /\ SelectCompare(b)' = SelectCompare(b) /\ SelectPhi(b)' = SelectPhi(b)
        /\ \A t : SelectBranch(b, t)' = SelectBranch(b, t)
    BY <1>1, SameFunction
  <2>2. Placed' = Placed /\ \A m : LayoutNext(m)' = LayoutNext(m) BY <1>1, LayoutNextIs DEF Placed
  <2>3. Whole(b) => Whole(b)' BY <1>1, <2>1, <2>2 DEF Whole
  <2>4. Split(b) => Split(b)' BY <1>1, <2>1, <2>2 DEF Split
  <2> QED BY <1>1, <1>4, <2>2, <2>3, <2>4
<1> QED BY <1>1, <1>2, <1>3, <1>5, <1>6 DEF TypeInv

\* The code that PHI elimination leaves.
SelectMove(n) == MI("MOV", n, "-", NoBlock)

LEMMA EliminatePHIsIs ==
    ASSUME TypeInv, EliminatePHIs, NEW b \in 1 .. Len(prog)
    PROVE  /\ HasSelect(prog, b) =>
                /\ Split(b)
                /\ code'[<<b, 0>>] = <<SelectCompare(b), SelectMove(prog[b].select.t),
                                       SelectBranch(b, <<b, 2>>)>>
                /\ code'[<<b, 1>>] = <<SelectMove(prog[b].select.f)>>
                /\ code'[<<b, 2>>] = EndOfBlock(b)
           /\ ~HasSelect(prog, b) =>
                /\ Whole(b)
                /\ code'[<<b, 0>>] = EndOfBlock(b)
                /\ code'[<<b, 1>>] = <<>> /\ code'[<<b, 2>>] = <<>>
<1> DEFINE C == SelectCompare(b)
           B == SelectBranch(b, <<b, 2>>)
           E == EndOfBlock(b)
           P == SelectPhi(b)
           Phi(a) == code[<<a, 2>>][1]
<1>1. stage = "phis" /\ InputOK /\ (Split(b) \/ (Whole(b) /\ ~HasSelect(prog, b)))
  BY DEF TypeInv, EliminatePHIs
<1>2. E \in Seq(Instrs(EndOps)) BY <1>1, EndOfBlockIs
<1>3. <<b, 0>> \in Blocks /\ <<b, 1>> \in Blocks /\ <<b, 2>> \in Blocks BY <1>1, BlocksAre
<1>4. code' = [m \in Blocks |->
            IF code[<<m[1], 2>>] = <<>> THEN code[m]
            ELSE CASE m[2] = 0 -> SubSeq(code[m], 1, Len(code[m]) - 1)
                                  \o <<SelectMove(Phi(m[1]).r), code[m][Len(code[m])]>>
                   [] m[2] = 1 -> <<SelectMove(Phi(m[1]).l)>>
                   [] m[2] = 2 -> Tail(code[m])]
  BY DEF EliminatePHIs, SelectMove
<1>5. <<b, 0>>[1] = b /\ <<b, 0>>[2] = 0 /\ <<b, 1>>[1] = b /\ <<b, 1>>[2] = 1
      /\ <<b, 2>>[1] = b /\ <<b, 2>>[2] = 2
  OBVIOUS
<1> HIDE DEF Phi
<1>6. code[<<b, 2>>] = <<>> =>
        /\ code'[<<b, 0>>] = code[<<b, 0>>] /\ code'[<<b, 1>>] = code[<<b, 1>>]
        /\ code'[<<b, 2>>] = code[<<b, 2>>]
  BY <1>3, <1>4, <1>5
<1>7. code[<<b, 2>>] # <<>> =>
        /\ code'[<<b, 0>>] = SubSeq(code[<<b, 0>>], 1, Len(code[<<b, 0>>]) - 1)
                             \o <<SelectMove(Phi(b).r), code[<<b, 0>>][Len(code[<<b, 0>>])]>>
        /\ code'[<<b, 1>>] = <<SelectMove(Phi(b).l)>>
        /\ code'[<<b, 2>>] = Tail(code[<<b, 2>>])
  <2> SUFFICES ASSUME code[<<b, 2>>] # <<>>
               PROVE  /\ code'[<<b, 0>>] = SubSeq(code[<<b, 0>>], 1, Len(code[<<b, 0>>]) - 1)
                             \o <<SelectMove(Phi(b).r), code[<<b, 0>>][Len(code[<<b, 0>>])]>>
                      /\ code'[<<b, 1>>] = <<SelectMove(Phi(b).l)>>
                      /\ code'[<<b, 2>>] = Tail(code[<<b, 2>>])
    OBVIOUS
  <2> DEFINE was(m) == code[<<m[1], 2>>] = <<>>
             head(m) == SubSeq(code[m], 1, Len(code[m]) - 1)
                        \o <<SelectMove(Phi(m[1]).r), code[m][Len(code[m])]>>
             arm(m) == <<SelectMove(Phi(m[1]).l)>>
  <2>1. code' = [m \in Blocks |->
            IF was(m) THEN code[m]
            ELSE CASE m[2] = 0 -> head(m) [] m[2] = 1 -> arm(m) [] m[2] = 2 -> Tail(code[m])]
    BY <1>4
  <2>2. ~was(<<b, 0>>) /\ ~was(<<b, 1>>) /\ ~was(<<b, 2>>) BY <1>5
  <2>3. head(<<b, 0>>) = SubSeq(code[<<b, 0>>], 1, Len(code[<<b, 0>>]) - 1)
                             \o <<SelectMove(Phi(b).r), code[<<b, 0>>][Len(code[<<b, 0>>])]>>
    BY <1>5
  <2>4. arm(<<b, 1>>) = <<SelectMove(Phi(b).l)>> BY <1>5
  <2> HIDE DEF was, head, arm
  <2>5. code'[<<b, 0>>] = head(<<b, 0>>) BY <2>1, <2>2, <1>3, <1>5
  <2>6. code'[<<b, 1>>] = arm(<<b, 1>>) BY <2>1, <2>2, <1>3, <1>5
  <2>7. code'[<<b, 2>>] = Tail(code[<<b, 2>>]) BY <2>1, <2>2, <1>3, <1>5
  <2> QED BY <2>3, <2>4, <2>5, <2>6, <2>7
<1>8. CASE ~HasSelect(prog, b)
  <2>1. Whole(b) BY <1>1, <1>8 DEF Split
  <2>2. code[<<b, 0>>] = <<>> \o E BY <2>1, <1>8 DEF Whole, SelectCode
  <2>3. code[<<b, 0>>] = E BY <2>2, <1>2, ConcatEmptySeq
  <2> QED BY <2>1, <2>3, <1>6, <1>8 DEF Whole
<1>9. CASE HasSelect(prog, b)
  <2>1. Split(b) BY <1>1, <1>9
  <2>2. /\ C \in Instrs(AllOps) /\ B \in Instrs(AllOps) /\ P \in Instrs(AllOps)
        /\ E \in Seq(Instrs(AllOps))
    <3>1. /\ Compares \subseteq AllOps /\ CondBranches \subseteq AllOps /\ {"PHI"} \subseteq AllOps
          /\ EndOps \subseteq AllOps
      BY OpsAre
    <3>2. C \in Instrs(Compares) /\ B \in Instrs(CondBranches) /\ P \in Instrs({"PHI"})
      BY <1>1, <1>3, <1>9, SelectCodeIs
    <3> QED BY <3>1, <3>2, <1>2, InstrsMonotonic
  <2>3. code[<<b, 0>>] = <<C, B>> /\ code[<<b, 2>>] = <<P>> \o E BY <2>1 DEF Split
  <2>4. P.l = prog[b].select.f /\ P.r = prog[b].select.t BY DEF SelectPhi, MI
  <2> HIDE DEF C, B, P, E
  <2>5. /\ code[<<b, 2>>] \in Seq(Instrs(AllOps)) /\ Len(code[<<b, 2>>]) = Len(E) + 1
        /\ code[<<b, 2>>][1] = P /\ Tail(code[<<b, 2>>]) = E
    BY <2>2, <2>3, OneAndMore
  <2>6. code[<<b, 2>>] # <<>>
    <3>1. Len(E) \in Nat BY <2>2, LenProperties
    <3>2. Len(code[<<b, 2>>]) # 0 BY <3>1, <2>5
    <3> QED BY <3>2
  <2>7. Phi(b) = P BY <2>5 DEF Phi
  <2>8. Len(code[<<b, 0>>]) = 2 /\ code[<<b, 0>>][2] = B /\ Len(code[<<b, 0>>]) - 1 = 1 BY <2>3
  <2>9. SubSeq(<<C, B>>, 1, 1) = <<C>>
    <3>1. C \in {C, B} /\ B \in {C, B} OBVIOUS
    <3> QED BY <3>1, FirstOfTwo
  <2> DEFINE M == SelectMove(prog[b].select.t)
  <2> HIDE DEF M
  <2>10. <<C>> \o <<M, B>> = <<C, M, B>>
    <3>1. C \in {C, M, B} /\ M \in {C, M, B} /\ B \in {C, M, B} OBVIOUS
    <3> QED BY <3>1, OneAndTwo
  <2>11. code'[<<b, 0>>] = <<C, M, B>> BY <2>3, <2>4, <2>6, <2>7, <2>8, <2>9, <2>10, <1>7 DEF M
  <2> QED BY <2>1, <2>4, <2>5, <2>6, <2>7, <2>11, <1>7, <1>9 DEF C, B, E, M
<1> QED BY <1>8, <1>9

LEMMA EliminatePHIsTypeInv == TypeInv /\ EliminatePHIs => TypeInv'
<1> SUFFICES ASSUME TypeInv, EliminatePHIs PROVE TypeInv' OBVIOUS
<1>1. /\ prog' = prog /\ arg' = arg /\ layout' = layout /\ succs' = succs
      /\ here' = here /\ pc' = pc /\ psw' = psw /\ z' = z /\ stage' = "fold" /\ stage = "phis"
  BY DEF EliminatePHIs, input, machine
<1>2. InputOK /\ LayoutOK /\ here = <<1, 0>> /\ pc = 1 /\ z = Undef /\ psw \in BOOLEAN
      /\ succs \in [Blocks -> SUBSET Blocks]
  BY <1>1 DEF TypeInv
<1>3. Blocks' = Blocks /\ \A ops : Instrs(ops)' = Instrs(ops) BY <1>1, SameFunction
<1>4. /\ \A b \in 1 .. Len(prog) : <<b, 0>> \in Blocks /\ <<b, 1>> \in Blocks /\ <<b, 2>> \in Blocks
      /\ \A m \in Blocks : m = <<m[1], m[2]>> /\ m[1] \in 1 .. Len(prog) /\ m[2] \in 0 .. 2
  BY <1>2, BlocksAre
<1> DEFINE M == Seq(Instrs(MachineOps))
<1>5. ASSUME NEW b \in 1 .. Len(prog)
      PROVE  code'[<<b, 0>>] \in M /\ code'[<<b, 1>>] \in M /\ code'[<<b, 2>>] \in M
  <2>1. EndOfBlock(b) \in M
    <3>1. EndOfBlock(b) \in Seq(Instrs(EndOps)) BY <1>2, EndOfBlockIs
    <3> QED BY <3>1, InstrsMonotonic, OpsAre
  <2>2. <<>> \in M BY EmptySeq
  <2>3. CASE ~HasSelect(prog, b) BY <2>1, <2>2, <2>3, EliminatePHIsIs
  <2>4. CASE HasSelect(prog, b)
    <3> DEFINE C == SelectCompare(b)
               B == SelectBranch(b, <<b, 2>>)
               T == SelectMove(prog[b].select.t)
               F == SelectMove(prog[b].select.f)
    <3>1. C \in Instrs(MachineOps) /\ B \in Instrs(MachineOps)
      <4>1. Compares \subseteq MachineOps /\ CondBranches \subseteq MachineOps BY OpsAre
      <4>2. C \in Instrs(Compares) /\ B \in Instrs(CondBranches) BY <1>2, <1>4, <2>4, SelectCodeIs
      <4> QED BY <4>1, <4>2, InstrsMonotonic
    <3>2. T \in Instrs(MachineOps) /\ F \in Instrs(MachineOps)
      <4>1. prog[b].select.t \in Names /\ prog[b].select.f \in Names BY <1>2, <2>4, FunctionIs
      <4> QED BY <4>1 DEF SelectMove, MI, Instrs, MachineOps, Operands, Branches, CondBranches
    <3>3. code'[<<b, 0>>] = <<C, T, B>> /\ code'[<<b, 1>>] = <<F>> /\ code'[<<b, 2>>] = EndOfBlock(b)
      BY <2>4, EliminatePHIsIs
    <3> HIDE DEF C, B, T, F
    <3>4. <<C, T, B>> \in M /\ <<F>> \in M BY <3>1, <3>2
    <3> QED BY <3>3, <3>4, <2>1
  <2> QED BY <2>3, <2>4
<1>6. code' \in [Blocks -> M]
  <2> DEFINE Phi(b) == code[<<b, 2>>][1]
             now(m) == IF code[<<m[1], 2>>] = <<>> THEN code[m]
                       ELSE CASE m[2] = 0 -> LET k == Len(code[m]) IN
                                             SubSeq(code[m], 1, k - 1)
                                             \o <<MI("MOV", Phi(m[1]).r, "-", NoBlock), code[m][k]>>
                              [] m[2] = 1 -> <<MI("MOV", Phi(m[1]).l, "-", NoBlock)>>
                              [] m[2] = 2 -> Tail(code[m])
  <2>1. code' = [m \in Blocks |-> now(m)] BY DEF EliminatePHIs
  <2> HIDE DEF now
  <2>2. ASSUME NEW m \in Blocks PROVE code'[m] \in M
    <3>1. m = <<m[1], m[2]>> /\ m[1] \in 1 .. Len(prog) /\ m[2] \in {0, 1, 2} BY <1>4
    <3> QED BY <3>1, <1>5
  <2> QED BY <2>1, <2>2
<1>7. here' \in Blocks /\ pc' \in 1 .. Len(code'[here']) + 1 BY <1>1, <1>2, <1>6, AtEntry
<1>8. M \subseteq Seq(Instrs(AllOps)) BY OpsAre, InstrsMonotonic
<1>9. InputOK' /\ LayoutOK' BY <1>1, <1>2, <1>3 DEF InputOK, LayoutOK
<1> QED BY <1>1, <1>2, <1>3, <1>6, <1>7, <1>8, <1>9 DEF TypeInv

-----------------------------------------------------------------------------
(* The branch folder.                                                      *)

\* Where AnalyzeBranch and RemoveBranch stop on their way up.
LastOther(cs) == SelectLastInSeq(cs, LAMBDA i : i.op # "Bs")
LastPlain(cs) == SelectLastInSeq(cs, LAMBDA i : i.op \notin Branches)

LEMMA LastOtherIs ==
    ASSUME NEW S, NEW cs \in Seq(S)
    PROVE  /\ LastOther(cs) \in 0 .. Len(cs)
           /\ LastOther(cs) > 0 => cs[LastOther(cs)].op # "Bs"
           /\ \A i \in LastOther(cs) + 1 .. Len(cs) : cs[i].op = "Bs"
<1> DEFINE I == {i \in 1 .. Len(cs) : cs[i].op # "Bs"}
           k == LastOther(cs)
<1>1. Len(cs) \in Nat BY LenProperties
<1>2. k = IF I # {} THEN Max(I) ELSE 0 BY DEF LastOther, SelectLastInSeq
<1>3. I # {} => Max(I) \in I /\ \A y \in I : Max(I) >= y BY <1>1, LastPosition
<1> HIDE DEF k
<1>4. k \in 0 .. Len(cs) /\ (k > 0 => cs[k].op # "Bs") BY <1>1, <1>2, <1>3
<1>5. ASSUME NEW i \in k + 1 .. Len(cs) PROVE cs[i].op = "Bs"
  <2>1. SUFFICES ASSUME cs[i].op # "Bs" PROVE FALSE OBVIOUS
  <2>2. i \in I BY <2>1, <1>1, <1>4
  <2>3. k >= i BY <2>2, <1>2, <1>3
  <2> QED BY <2>3, <1>1, <1>4
<1> QED BY <1>4, <1>5 DEF k

LEMMA LastPlainIs ==
    ASSUME NEW S, NEW cs \in Seq(S)
    PROVE  /\ LastPlain(cs) \in 0 .. Len(cs)
           /\ LastPlain(cs) > 0 => cs[LastPlain(cs)].op \notin Branches
           /\ \A i \in LastPlain(cs) + 1 .. Len(cs) : cs[i].op \in Branches
<1> DEFINE I == {i \in 1 .. Len(cs) : cs[i].op \notin Branches}
           k == LastPlain(cs)
<1>1. Len(cs) \in Nat BY LenProperties
<1>2. k = IF I # {} THEN Max(I) ELSE 0 BY DEF LastPlain, SelectLastInSeq
<1>3. I # {} => Max(I) \in I /\ \A y \in I : Max(I) >= y BY <1>1, LastPosition
<1> HIDE DEF k
<1>4. k \in 0 .. Len(cs) /\ (k > 0 => cs[k].op \notin Branches) BY <1>1, <1>2, <1>3
<1>5. ASSUME NEW i \in k + 1 .. Len(cs) PROVE cs[i].op \in Branches
  <2>1. SUFFICES ASSUME cs[i].op \notin Branches PROVE FALSE OBVIOUS
  <2>2. i \in I BY <2>1, <1>1, <1>4
  <2>3. k >= i BY <2>2, <1>2, <1>3
  <2> QED BY <2>3, <1>1, <1>4
<1> QED BY <1>4, <1>5 DEF k

LEMMA PrefixIs ==
    ASSUME NEW S, NEW cs \in Seq(S), NEW k \in 0 .. Len(cs)
    PROVE  /\ SubSeq(cs, 1, k) \in Seq(S) /\ Len(SubSeq(cs, 1, k)) = k
           /\ \A i \in 1 .. k : SubSeq(cs, 1, k)[i] = cs[i]
<1>1. Len(cs) \in Nat BY LenProperties
<1>2. 1 \in Int /\ k \in Int /\ \A i \in 1 .. k : cs[i] \in S
  <2>1. \A i \in 1 .. k : i \in 1 .. Len(cs) BY <1>1
  <2> QED BY <2>1, ElementOfSeq
<1>3. /\ SubSeq(cs, 1, k) \in Seq(S)
      /\ Len(SubSeq(cs, 1, k)) = IF 1 <= k THEN k - 1 + 1 ELSE 0
      /\ \A i \in 1 .. k - 1 + 1 : SubSeq(cs, 1, k)[i] = cs[1 + i - 1]
  BY <1>2, SubSeqProperties
<1>4. Len(SubSeq(cs, 1, k)) = k BY <1>1, <1>3
<1>5. \A i \in 1 .. k : SubSeq(cs, 1, k)[i] = cs[i] BY <1>1, <1>3
<1> QED BY <1>3, <1>4, <1>5

\* AnalyzeBranch drops all jumps but the first, and that one where it leads on.
LEMMA AnalyzeIs ==
    ASSUME NEW m, NEW S, code[m] \in Seq(S), NEW k, k = LastOther(code[m])
    PROVE  /\ k \in 0 .. Len(code[m])
           /\ AnalyzeBranch(m, TRUE).fails <=> (k > 0 /\ code[m][k].op \in Unanalyzable)
           /\ k = Len(code[m]) =>
                AnalyzeBranch(m, TRUE).tbb = NoBlock /\ AnalyzeBranch(m, TRUE).after = code[m]
           /\ k < Len(code[m]) /\ code[m][k + 1].to = LayoutNext(m) =>
                /\ AnalyzeBranch(m, TRUE).tbb = NoBlock
                /\ AnalyzeBranch(m, TRUE).after = SubSeq(code[m], 1, k)
           /\ k < Len(code[m]) /\ code[m][k + 1].to # LayoutNext(m) =>
                /\ AnalyzeBranch(m, TRUE).tbb = code[m][k + 1].to
                /\ AnalyzeBranch(m, TRUE).after = SubSeq(code[m], 1, k + 1)
<1> DEFINE cs == code[m]
           jumps == k < Len(cs)
           target == IF jumps THEN cs[k + 1].to ELSE NoBlock
           redundant == jumps /\ target = LayoutNext(m)
           gives == k > 0 /\ cs[k].op \in Unanalyzable
           rest == IF jumps /\ ~redundant THEN <<cs[k + 1]>> ELSE <<>>
           a == AnalyzeBranch(m, TRUE)
<1>1. k \in 0 .. Len(cs) BY LastOtherIs
<1>2. Len(cs) \in Nat BY LenProperties
<1>3. a = [fails |-> gives, tbb |-> IF redundant THEN NoBlock ELSE target,
           after |-> SubSeq(cs, 1, k) \o rest]
  BY DEF AnalyzeBranch, LastOther, IsLayoutSuccessor
<1>4. /\ k = Len(cs) => ~jumps
      /\ k < Len(cs) => jumps /\ target = cs[k + 1].to
      /\ ~jumps => ~redundant /\ target = NoBlock
      /\ ~jumps => rest = <<>>
      /\ redundant => rest = <<>>
      /\ jumps /\ ~redundant => rest = <<cs[k + 1]>>
      /\ jumps => (redundant <=> target = LayoutNext(m))
      /\ gives <=> (k > 0 /\ cs[k].op \in Unanalyzable)
  BY <1>1, <1>2
<1> HIDE DEF a, jumps, target, redundant, gives, rest
<1>5. /\ a.fails = gives
      /\ a.tbb = IF redundant THEN NoBlock ELSE target
      /\ a.after = SubSeq(cs, 1, k) \o rest
  BY <1>3
<1>6. SubSeq(cs, 1, k) \in Seq(S) BY <1>1, PrefixIs
<1>7. SubSeq(cs, 1, k) \o <<>> = SubSeq(cs, 1, k) BY <1>6, ConcatEmptySeq
<1>8. ASSUME k = Len(cs) PROVE a.tbb = NoBlock /\ a.after = cs
  <2>1. SubSeq(cs, 1, k) = cs BY <1>8, SubSeqFull
  <2>2. ~redundant /\ target = NoBlock /\ rest = <<>> BY <1>4, <1>8
  <2> QED BY <2>1, <2>2, <1>5, <1>7
<1>9. ASSUME k < Len(cs), cs[k + 1].to = LayoutNext(m)
      PROVE  a.tbb = NoBlock /\ a.after = SubSeq(cs, 1, k)
  <2>1. redundant /\ rest = <<>> BY <1>4, <1>9
  <2> QED BY <2>1, <1>5, <1>7
<1>10. ASSUME k < Len(cs), cs[k + 1].to # LayoutNext(m)
       PROVE  a.tbb = cs[k + 1].to /\ a.after = SubSeq(cs, 1, k + 1)
  <2>1. SubSeq(cs, 1, k + 1) = SubSeq(cs, 1, k) \o <<cs[k + 1]>>
    <3>1. 1 \in 1 .. Len(cs) /\ k + 1 \in 1 .. Len(cs) /\ (k + 1) - 1 = k BY <1>1, <1>2, <1>10
    <3>2. SubSeq(cs, 1, k + 1) = SubSeq(cs, 1, (k + 1) - 1) \o <<cs[k + 1]>>
      BY <3>1, SubSeqRecursiveSecond
    <3> QED BY <3>1, <3>2
  <2>2. ~redundant /\ rest = <<cs[k + 1]>> /\ target = cs[k + 1].to BY <1>4, <1>10
  <2> QED BY <2>1, <2>2, <1>5
<1>11. a.fails <=> (k > 0 /\ cs[k].op \in Unanalyzable) BY <1>4, <1>5
<1> QED BY <1>1, <1>8, <1>9, <1>10, <1>11 DEF a

\* Jumps to m made to go to block `to' instead.
Redirect(cs, m, to) ==
    [k \in 1 .. Len(cs) |-> IF cs[k].to = m THEN [cs[k] EXCEPT !.to = to] ELSE cs[k]]

LEMMA RedirectIs ==
    ASSUME NEW ops, NEW cs \in Seq(Instrs(ops)), NEW m, NEW to \in Blocks
    PROVE  /\ Redirect(cs, m, to) \in Seq(Instrs(ops)) /\ Len(Redirect(cs, m, to)) = Len(cs)
           /\ \A k \in 1 .. Len(cs) :
                /\ cs[k].to = m => Redirect(cs, m, to)[k] = [cs[k] EXCEPT !.to = to]
                /\ cs[k].to # m => Redirect(cs, m, to)[k] = cs[k]
<1> DEFINE r == Redirect(cs, m, to)
<1>1. Len(cs) \in Nat BY LenProperties
<1>2. ASSUME NEW k \in 1 .. Len(cs)
      PROVE  (IF cs[k].to = m THEN [cs[k] EXCEPT !.to = to] ELSE cs[k]) \in Instrs(ops)
  <2>1. cs[k] \in Instrs(ops) BY ElementOfSeq
  <2>2. \A i \in Instrs(ops) : [i EXCEPT !.to = to] \in Instrs(ops) BY DEF Instrs
  <2> QED BY <2>1, <2>2
<1>3. r = [k \in 1 .. Len(cs) |-> IF cs[k].to = m THEN [cs[k] EXCEPT !.to = to] ELSE cs[k]]
  BY DEF Redirect
<1>4. r \in [1 .. Len(cs) -> Instrs(ops)] BY <1>2, <1>3
<1>5. \A k \in 1 .. Len(cs) : /\ cs[k].to = m => r[k] = [cs[k] EXCEPT !.to = to]
                              /\ cs[k].to # m => r[k] = cs[k]
  BY <1>3
<1> HIDE DEF r
<1>6. r \in Seq(Instrs(ops)) /\ Len(r) = Len(cs) BY <1>1, <1>4, FunctionIsSeq
<1> QED BY <1>5, <1>6 DEF r

LEMMA RemoveBranchIs ==
    ASSUME NEW S, NEW cs \in Seq(S)
    PROVE  RemoveBranch(cs) = SubSeq(cs, 1, LastPlain(cs)) /\ RemoveBranch(cs) \in Seq(S)
<1>1. RemoveBranch(cs) = SubSeq(cs, 1, LastPlain(cs)) BY DEF RemoveBranch, LastPlain
<1>2. LastPlain(cs) \in 0 .. Len(cs) BY LastPlainIs
<1>3. SubSeq(cs, 1, LastPlain(cs)) \in Seq(S) BY <1>2, PrefixIs
<1> QED BY <1>1, <1>3

\* While the folder works, only code, layout and successors change.
LEMMA FoldStepTypeInv ==
    ASSUME TypeInv, stage = "fold", UNCHANGED <<input, stage, machine>>,
           LayoutOK', succs' \in [Blocks -> SUBSET Blocks],
           code' \in [Blocks -> Seq(Instrs(MachineOps))]
    PROVE  TypeInv'
<1>1. /\ prog' = prog /\ arg' = arg /\ stage' = stage
      /\ here' = here /\ pc' = pc /\ psw' = psw /\ z' = z
  BY DEF input, machine
<1>2. InputOK /\ here = <<1, 0>> /\ pc = 1 /\ z = Undef /\ psw \in BOOLEAN BY DEF TypeInv
<1>3. Blocks' = Blocks /\ \A ops : Instrs(ops)' = Instrs(ops) BY <1>1, SameFunction
<1>4. Seq(Instrs(MachineOps)) \subseteq Seq(Instrs(AllOps)) BY OpsAre, InstrsMonotonic
<1>5. code' \in [Blocks -> Seq(Instrs(AllOps))] BY <1>4
<1>6. here' \in Blocks /\ pc' \in 1 .. Len(code'[here']) + 1 BY <1>1, <1>2, AtEntry
<1>7. InputOK' BY <1>1, <1>2 DEF InputOK
<1> QED BY <1>1, <1>2, <1>3, <1>5, <1>6, <1>7 DEF TypeInv

\* What is known while the folder works.
LEMMA FoldFacts ==
    ASSUME TypeInv, stage = "fold"
    PROVE  /\ InputOK /\ LayoutOK /\ layout \in Seq(Blocks) /\ IsInjective(layout)
           /\ Len(layout) \in Nat \ {0} /\ layout[1] = <<1, 0>>
           /\ \A i \in 1 .. Len(layout) : layout[i] \in Blocks
           /\ succs \in [Blocks -> SUBSET Blocks]
           /\ code \in [Blocks -> Seq(Instrs(MachineOps))]
           /\ \A m \in Blocks : code[m] \in Seq(Instrs(MachineOps))
<1>1. layout \in Seq(Blocks) /\ Len(layout) > 0 BY DEF TypeInv, LayoutOK
<1>2. Len(layout) \in Nat BY <1>1, LenProperties
<1>3. \A i \in 1 .. Len(layout) : layout[i] \in Blocks BY <1>1, ElementOfSeq
<1>4. Len(layout) \in Nat \ {0} BY <1>1, <1>2
<1>5. code \in [Blocks -> Seq(Instrs(MachineOps))] BY DEF TypeInv
<1> QED BY <1>1, <1>3, <1>4, <1>5 DEF TypeInv, LayoutOK

LEMMA SameLayout ==
    ASSUME LayoutOK, prog' = prog, layout' = layout
    PROVE  LayoutOK'
BY SameFunction DEF LayoutOK

LEMMA AnalyzeForFoldingTypeInv == TypeInv /\ AnalyzeForFolding => TypeInv'
<1> SUFFICES ASSUME TypeInv, AnalyzeForFolding PROVE TypeInv' OBVIOUS
<1>1. stage = "fold" /\ prog' = prog /\ layout' = layout /\ succs' = succs
      /\ UNCHANGED <<input, stage, machine>>
  BY DEF AnalyzeForFolding, input
<1>2. PICK i \in 1 .. Len(layout) :
        code' = [code EXCEPT ![layout[i]] = AnalyzeBranch(layout[i], TRUE).after]
  BY DEF AnalyzeForFolding
<1> DEFINE m == layout[i]
           cs == code[m]
           k == LastOther(cs)
<1>3. m \in Blocks /\ cs \in Seq(Instrs(MachineOps)) BY <1>1, FoldFacts
<1>4. Len(cs) \in Nat BY <1>3, LenProperties
<1>5. k \in 0 .. Len(cs) BY <1>3, LastOtherIs
<1> HIDE DEF m
<1>6. AnalyzeBranch(m, TRUE).after \in Seq(Instrs(MachineOps))
  <2>1. CASE k = Len(cs)
    <3>1. AnalyzeBranch(m, TRUE).after = cs BY <2>1, <1>3, AnalyzeIs
    <3> QED BY <3>1, <1>3
  <2>2. CASE k < Len(cs) /\ cs[k + 1].to = LayoutNext(m)
    <3>1. AnalyzeBranch(m, TRUE).after = SubSeq(cs, 1, k) BY <2>2, <1>3, AnalyzeIs
    <3> QED BY <3>1, <1>3, <1>5, PrefixIs
  <2>3. CASE k < Len(cs) /\ cs[k + 1].to # LayoutNext(m)
    <3>1. AnalyzeBranch(m, TRUE).after = SubSeq(cs, 1, k + 1) BY <2>3, <1>3, AnalyzeIs
    <3>2. k + 1 \in 0 .. Len(cs) BY <2>3, <1>4, <1>5
    <3> QED BY <3>1, <3>2, <1>3, PrefixIs
  <2>4. k = Len(cs) \/ k < Len(cs) BY <1>4, <1>5
  <2> QED BY <2>1, <2>2, <2>3, <2>4, Zenon
<1>7. code' \in [Blocks -> Seq(Instrs(MachineOps))] BY <1>1, <1>2, <1>3, <1>6, FoldFacts DEF m
<1>8. LayoutOK' /\ succs' \in [Blocks -> SUBSET Blocks] BY <1>1, FoldFacts, SameLayout
<1> QED BY <1>1, <1>7, <1>8, FoldStepTypeInv

LEMMA ForwardTypeInv == TypeInv /\ ForwardAcrossBlock => TypeInv'
<1> SUFFICES ASSUME TypeInv, ForwardAcrossBlock PROVE TypeInv' OBVIOUS
<1>1. stage = "fold" /\ prog' = prog /\ UNCHANGED <<input, stage, machine>>
  BY DEF ForwardAcrossBlock, input
<1> DEFINE Removal(i) ==
             LET m == layout[i]
                 prev == layout[i - 1]
                 to == code[m][1].to
                 falls == CanFallThrough(prev)
             IN /\ layout' = RemoveAt(layout, i)
                /\ succs' = [n \in Blocks |->
                      IF m \in succs[n] THEN (succs[n] \ {m}) \cup {to} ELSE succs[n]]
                /\ code' = [n \in Blocks |->
                      Redirect(IF n = m THEN RemoveBranch(code[m])
                               ELSE IF n = prev /\ falls THEN RemoveBranch(code[prev])
                               ELSE code[n], m, to)]
           Stays(i) ==
             /\ code' = [code EXCEPT ![layout[i]] = RemoveBranch(code[layout[i]])]
             /\ UNCHANGED <<layout, succs>>
<1>2. PICK i \in 2 .. Len(layout) :
        /\ Len(code[layout[i]]) = 1 /\ code[layout[i]][1].op = "Bs"
        /\ Removal(i) \/ Stays(i)
  BY DEF ForwardAcrossBlock, InsertBranch, Redirect
<1> DEFINE m == layout[i]
           to == code[m][1].to
           S == Seq(Instrs(MachineOps))
<1>3. /\ InputOK /\ LayoutOK /\ layout \in Seq(Blocks) /\ IsInjective(layout)
      /\ Len(layout) \in Nat \ {0} /\ layout[1] = <<1, 0>>
      /\ \A j \in 1 .. Len(layout) : layout[j] \in Blocks
      /\ succs \in [Blocks -> SUBSET Blocks] /\ code \in [Blocks -> S]
  BY <1>1, FoldFacts
<1>4. m \in Blocks /\ code[m] \in S BY <1>3
<1>5. to \in Blocks
  <2>1. 1 \in 1 .. Len(code[m]) BY <1>2
  <2>2. code[m][1] \in Instrs(MachineOps) BY <2>1, <1>4, ElementOfSeq
  <2> QED BY <2>2, <1>2 DEF Instrs, Branches
<1>6. \A n \in Blocks : RemoveBranch(code[n]) \in S BY <1>3, RemoveBranchIs
<1>7. CASE Stays(i)
  <2>1. code' \in [Blocks -> S] BY <1>3, <1>4, <1>6, <1>7
  <2> QED BY <2>1, <1>1, <1>3, <1>7, SameLayout, FoldStepTypeInv
<1>8. CASE Removal(i)
  <2>1. layout' = RemoveAt(layout, i) BY <1>8
  <2>2. layout' \in Seq(Blocks) /\ Removed(layout', layout, i) BY <2>1, <1>3, BehindRemoveAt
  <2>3. Len(layout') > 0 /\ IsInjective(layout') /\ layout'[1] = <<1, 0>>
    <3>1. Len(layout') = Len(layout) - 1 BY <2>2 DEF Removed
    <3>2. Len(layout') > 0 BY <3>1, <1>2, <1>3
    <3> QED BY <3>2, <2>2, <1>3 DEF Removed
  <2>4. LayoutOK' BY <2>2, <2>3, <1>1, SameFunction DEF LayoutOK
  <2>5. succs' \in [Blocks -> SUBSET Blocks] BY <1>3, <1>5, <1>8
  <2>6. code' \in [Blocks -> S]
    <3> DEFINE prev == layout[i - 1]
               falls == CanFallThrough(prev)
               was(n) == IF n = m THEN RemoveBranch(code[m])
                         ELSE IF n = prev /\ falls THEN RemoveBranch(code[prev])
                         ELSE code[n]
    <3>1. prev \in Blocks
      <4>1. i - 1 \in 1 .. Len(layout) BY <1>3
      <4> QED BY <4>1, <1>3
    <3>2. \A n \in Blocks : was(n) \in S BY <3>1, <1>3, <1>4, <1>6
    <3>3. code' = [n \in Blocks |-> Redirect(was(n), m, to)] BY <1>8
    <3> HIDE DEF was, m, to
    <3>4. \A n \in Blocks : Redirect(was(n), m, to) \in S BY <3>2, <1>5, RedirectIs
    <3> QED BY <3>3, <3>4
  <2> QED BY <2>4, <2>5, <2>6, <1>1, FoldStepTypeInv
<1> QED BY <1>2, <1>7, <1>8

LEMMA MoveTypeInv == TypeInv /\ MoveAfterPredecessor => TypeInv'
<1> SUFFICES ASSUME TypeInv, MoveAfterPredecessor PROVE TypeInv' OBVIOUS
<1>1. /\ stage = "fold" /\ prog' = prog /\ succs' = succs
      /\ UNCHANGED <<input, stage, machine>>
  BY DEF MoveAfterPredecessor, input
<1>2. PICK i \in 2 .. Len(layout), j \in 1 .. Len(layout) :
        /\ layout[j] # layout[i]
        /\ layout' = InsertAt(RemoveAt(layout, i), IF j < i THEN j + 1 ELSE j, layout[i])
        /\ code' = [code EXCEPT ![layout[i]] = code[layout[i]]]
  BY DEF MoveAfterPredecessor, InsertBranch
<1>3. /\ InputOK /\ LayoutOK /\ layout \in Seq(Blocks) /\ IsInjective(layout)
      /\ Len(layout) \in Nat \ {0} /\ layout[1] = <<1, 0>>
      /\ \A k \in 1 .. Len(layout) : layout[k] \in Blocks
      /\ succs \in [Blocks -> SUBSET Blocks] /\ code \in [Blocks -> Seq(Instrs(MachineOps))]
  BY <1>1, FoldFacts
<1>4. code' \in [Blocks -> Seq(Instrs(MachineOps))] BY <1>2, <1>3
<1> DEFINE rest == RemoveAt(layout, i)
           p == IF j < i THEN j + 1 ELSE j
<1>5. rest \in Seq(Blocks) /\ Removed(rest, layout, i) BY <1>3, BehindRemoveAt
<1>6. /\ Len(rest) = Len(layout) - 1 /\ rest[1] = <<1, 0>> /\ IsInjective(rest)
      /\ \A k \in 1 .. Len(rest) : rest[k] # layout[i]
  BY <1>3, <1>5 DEF Removed
<1>7. p \in 2 .. Len(rest) + 1
  <2>1. j # i BY <1>2
  <2> QED BY <2>1, <1>3, <1>6
<1>8. layout[i] \in Blocks BY <1>3
<1> HIDE DEF rest, p
<1>9. InsertAt(rest, p, layout[i]) \in Seq(Blocks) /\ Inserted(InsertAt(rest, p, layout[i]), rest, p, layout[i])
  BY <1>5, <1>6, <1>7, <1>8, BehindInsertAt
<1>10. layout' = InsertAt(rest, p, layout[i]) BY <1>2 DEF rest, p
<1>11. LayoutOK'
  <2>1. layout' \in Seq(Blocks) /\ IsInjective(layout') /\ layout'[1] = <<1, 0>>
        /\ Len(layout') = Len(rest) + 1
    BY <1>6, <1>9, <1>10 DEF Inserted
  <2>2. Len(layout') > 0 BY <2>1, <1>3, <1>6
  <2> QED BY <2>1, <2>2, <1>1, SameFunction DEF LayoutOK
<1> QED BY <1>1, <1>3, <1>4, <1>11, FoldStepTypeInv

LEMMA StartRunTypeInv == TypeInv /\ StartRun => TypeInv'
<1> SUFFICES ASSUME TypeInv, StartRun PROVE TypeInv' OBVIOUS
<1>1. /\ prog' = prog /\ arg' = arg /\ layout' = layout /\ succs' = succs /\ code' = code
      /\ here' = here /\ pc' = pc /\ psw' = psw /\ z' = z /\ stage' = "run" /\ stage = "fold"
  BY DEF StartRun, input, machine
<1>2. Blocks' = Blocks /\ \A ops : Instrs(ops)' = Instrs(ops) BY <1>1, SameFunction
<1>3. LayoutOK' BY <1>1, SameLayout DEF TypeInv
<1> QED BY <1>1, <1>2, <1>3 DEF TypeInv, InputOK

-----------------------------------------------------------------------------
(* The machine.                                                            *)

\* While the machine runs nothing that is compiled changes.
LEMMA RunStepTypeInv ==
    ASSUME TypeInv, stage = "run", UNCHANGED <<input, layout, code, succs>>,
           stage' \in {"run", "returned", "lost"}, z' \in Word \cup {Undef}, psw' \in BOOLEAN,
           here' \in Blocks, pc' \in 1 .. Len(code[here']) + 1
    PROVE  TypeInv'
<1>1. prog' = prog /\ arg' = arg /\ layout' = layout /\ code' = code /\ succs' = succs BY DEF input
<1>2. Blocks' = Blocks /\ \A ops : Instrs(ops)' = Instrs(ops) BY <1>1, SameFunction
<1>3. LayoutOK' BY <1>1, SameLayout DEF TypeInv
<1> QED BY <1>1, <1>2, <1>3 DEF TypeInv, InputOK

\* What is known while the machine runs.
LEMMA RunFacts ==
    ASSUME TypeInv, stage = "run"
    PROVE  /\ InputOK /\ here \in Blocks /\ pc \in Nat \ {0} /\ pc \in 1 .. Len(code[here]) + 1
           /\ layout \in Seq(Blocks)
           /\ z \in Word \cup {Undef} /\ psw \in BOOLEAN /\ arg \in [Names -> Word]
           /\ \A m \in Blocks : code[m] \in Seq(Instrs(MachineOps)) /\ Len(code[m]) \in Nat
           /\ pc <= Len(code[here]) =>
                /\ Instruction \in Instrs(MachineOps)
                /\ pc + 1 \in 1 .. Len(code[here]) + 1
<1>1. code \in [Blocks -> Seq(Instrs(MachineOps))] BY DEF TypeInv
<1>2. \A m \in Blocks : code[m] \in Seq(Instrs(MachineOps)) /\ Len(code[m]) \in Nat
  BY <1>1, LenProperties
<1>3. here \in Blocks /\ pc \in 1 .. Len(code[here]) + 1 BY DEF TypeInv
<1>4. pc \in Nat \ {0} BY <1>2, <1>3
<1>5. ASSUME pc <= Len(code[here])
      PROVE  Instruction \in Instrs(MachineOps) /\ pc + 1 \in 1 .. Len(code[here]) + 1
  <2>1. pc \in 1 .. Len(code[here]) /\ pc + 1 \in 1 .. Len(code[here]) + 1 BY <1>2, <1>4, <1>5
  <2>2. code[here][pc] \in Instrs(MachineOps) BY <2>1, <1>2, <1>3, ElementOfSeq
  <2> QED BY <2>1, <2>2 DEF Instruction
<1>6. InputOK /\ layout \in Seq(Blocks) /\ z \in Word \cup {Undef} /\ psw \in BOOLEAN
      /\ arg \in [Names -> Word]
  BY DEF TypeInv, LayoutOK, InputOK
<1> QED BY <1>2, <1>3, <1>4, <1>5, <1>6

LEMMA GotoTypeInv ==
    ASSUME TypeInv, stage = "run", NEW m \in Blocks \cup {NoBlock}, Goto(m),
           UNCHANGED <<input, layout, code, succs, psw, z>>
    PROVE  TypeInv'
<1>1. CASE m = NoBlock
  <2>1. stage' = "lost" /\ here' = here /\ pc' = pc BY <1>1 DEF Goto
  <2> QED BY <2>1, RunFacts, RunStepTypeInv
<1>2. CASE m # NoBlock
  <2>1. here' = m /\ pc' = 1 /\ stage' = "run" /\ m \in Blocks BY <1>2 DEF Goto
  <2>2. Len(code[m]) \in Nat BY <2>1, RunFacts
  <2>3. pc' \in 1 .. Len(code[here']) + 1 BY <2>1, <2>2
  <2> QED BY <2>1, <2>3, RunFacts, RunStepTypeInv
<1> QED BY <1>1, <1>2

LEMMA ExecuteTypeInv == TypeInv /\ Execute => TypeInv'
<1> SUFFICES ASSUME TypeInv, Execute PROVE TypeInv' OBVIOUS
<1>1. CASE Compare
  <2>1. stage = "run" /\ pc <= Len(code[here]) /\ pc' = pc + 1 /\ here' = here /\ stage' = "run"
        /\ z' = z /\ UNCHANGED <<input, layout, code, succs>>
    BY <1>1 DEF Compare, Executing
  <2>2. psw' \in BOOLEAN BY <1>1 DEF Compare, CmpResult
  <2> QED BY <2>1, <2>2, RunFacts, RunStepTypeInv
<1>2. CASE Move
  <2>1. stage = "run" /\ pc <= Len(code[here]) /\ pc' = pc + 1 /\ here' = here /\ stage' = "run"
        /\ psw' = psw /\ UNCHANGED <<input, layout, code, succs>> /\ Instruction.op = "MOV"
        /\ z' = Operand(Instruction.l)
    BY <1>2 DEF Move, Executing
  <2>2. Instruction.l \in Names BY <2>1, RunFacts DEF Instrs
  <2>3. z' \in Word BY <2>1, <2>2, RunFacts DEF Operand, Names
  <2> QED BY <2>1, <2>3, RunFacts, RunStepTypeInv
<1>3. CASE ConditionalBranch
  <2>1. /\ stage = "run" /\ pc <= Len(code[here]) /\ Instruction.op \in CondBranches
        /\ UNCHANGED <<input, layout, code, succs, psw, z>>
        /\ Goto(Instruction.to) \/ (pc' = pc + 1 /\ stage' = stage /\ here' = here)
    BY <1>3 DEF ConditionalBranch, Executing
  <2>2. CASE Goto(Instruction.to)
    <3>1. Instruction.to \in Blocks BY <2>1, RunFacts DEF Instrs, Branches
    <3> QED BY <2>1, <2>2, <3>1, GotoTypeInv
  <2>3. CASE pc' = pc + 1 /\ stage' = stage /\ here' = here
    <3>1. UNCHANGED <<input, layout, code, succs>> /\ z' = z /\ psw' = psw BY <2>1
    <3> QED BY <2>1, <2>3, <3>1, RunFacts, RunStepTypeInv
  <2> QED BY <2>1, <2>2, <2>3
<1>4. CASE UnconditionalBranch
  <2>1. /\ stage = "run" /\ pc <= Len(code[here]) /\ Instruction.op = "Bs"
        /\ UNCHANGED <<input, layout, code, succs, psw, z>> /\ Goto(Instruction.to)
    BY <1>4 DEF UnconditionalBranch, Executing
  <2>2. Instruction.to \in Blocks BY <2>1, RunFacts DEF Instrs, Branches
  <2> QED BY <2>1, <2>2, GotoTypeInv
<1>5. CASE FallThrough
  <2>1. /\ stage = "run" /\ Goto(LayoutNext(here))
        /\ UNCHANGED <<input, layout, code, succs, psw, z>>
    BY <1>5 DEF FallThrough
  <2>2. LayoutNext(here) \in Blocks \cup {NoBlock} BY <2>1, RunFacts, LayoutNextIs, BehindIn
  <2> QED BY <2>1, <2>2, GotoTypeInv
<1>6. CASE Return
  <2>1. /\ stage = "run" /\ stage' = "returned" /\ UNCHANGED <<input, layout, code, succs>>
        /\ here' = here /\ pc' = pc /\ z' = z /\ psw' = psw
    BY <1>6 DEF Return, Executing, machine
  <2> QED BY <2>1, RunFacts, RunStepTypeInv
<1> QED BY <1>1, <1>2, <1>3, <1>4, <1>5, <1>6 DEF Execute

LEMMA NextTypeInv == TypeInv /\ [Next]_vars => TypeInv'
<1> SUFFICES ASSUME TypeInv, [Next]_vars PROVE TypeInv' OBVIOUS
<1>1. CASE UNCHANGED vars
  <2>1. /\ prog' = prog /\ arg' = arg /\ layout' = layout /\ succs' = succs /\ code' = code
        /\ here' = here /\ pc' = pc /\ psw' = psw /\ z' = z /\ stage' = stage
    BY <1>1 DEF vars
  <2>2. /\ Blocks' = Blocks /\ \A ops : Instrs(ops)' = Instrs(ops)
        /\ \A b : /\ EndOfBlock(b)' = EndOfBlock(b) /\ SelectCode(b)' = SelectCode(b)
                  /\ BlockBehind(b)' = BlockBehind(b) /\ NextBlocks(b)' = NextBlocks(b)
                  /\ SelectCompare(b)' = SelectCompare(b) /\ SelectPhi(b)' = SelectPhi(b)
                  /\ \A t : SelectBranch(b, t)' = SelectBranch(b, t)
    BY <2>1, SameFunction
  <2>3. LayoutOK' /\ InputOK' BY <2>1, SameLayout DEF TypeInv, InputOK
  <2>4. Placed' = Placed /\ \A m : LayoutNext(m)' = LayoutNext(m) BY <2>1, LayoutNextIs DEF Placed
  <2>5. \A b : Whole(b) => Whole(b)' BY <2>1, <2>2, <2>4 DEF Whole
  <2>6. \A b : Split(b) => Split(b)' BY <2>1, <2>2, <2>4 DEF Split
  <2>7. stage \in {"insert", "phis"} => \A b \in 1 .. Len(prog) :
           /\ <<b, 0>> \in Placed
           /\ Split(b) \/ (Whole(b) /\ (stage = "phis" => ~HasSelect(prog, b)))
    BY DEF TypeInv
  <2>8. stage' \in {"insert", "phis"} => \A b \in 1 .. Len(prog') :
           /\ <<b, 0>> \in Placed'
           /\ Split(b)' \/ (Whole(b)' /\ (stage' = "phis" => ~HasSelect(prog', b)))
    BY <2>1, <2>4, <2>5, <2>6, <2>7
  <2> QED BY <2>1, <2>2, <2>3, <2>8 DEF TypeInv
<1>2. CASE Compile
  BY <1>2, InstructionSelectionTypeInv, EmitTypeInv, ExpandDoneTypeInv, EliminatePHIsTypeInv,
     AnalyzeForFoldingTypeInv, ForwardTypeInv, MoveTypeInv, StartRunTypeInv DEF Compile
<1>3. CASE Execute BY <1>3, ExecuteTypeInv
<1> QED BY <1>1, <1>2, <1>3 DEF Next

THEOREM TypeInvHolds == Spec => []TypeInv
<1>1. TypeInv /\ [Next]_vars => TypeInv' BY NextTypeInv
<1> QED BY InitTypeInv, <1>1, PTL DEF Spec

LEMMA TypeInvImpliesTypeOK == TypeInv => TypeOK
<1> SUFFICES ASSUME TypeInv PROVE TypeOK OBVIOUS
<1>1. layout \in Seq(Blocks) /\ IsInjective(layout) BY DEF TypeInv, LayoutOK
<1>2. ToSet(layout) \subseteq Blocks
  <2>1. DOMAIN layout = 1 .. Len(layout) BY <1>1, LenProperties
  <2>2. \A i \in 1 .. Len(layout) : layout[i] \in Blocks BY <1>1, ElementOfSeq
  <2> QED BY <2>1, <2>2 DEF ToSet
<1>3. DOMAIN code = Blocks /\ \A m \in Blocks : succs[m] \subseteq Blocks BY DEF TypeInv
<1>4. ASSUME stage = "run", NEW m \in Blocks, NEW k \in 1 .. Len(code[m])
      PROVE  code[m][k].op \in Compares \cup Branches \cup {"MOV", "RET"}
  <2>1. code[m] \in Seq(Instrs(MachineOps)) BY <1>4, RunFacts
  <2>2. code[m][k] \in Instrs(MachineOps) BY <2>1, ElementOfSeq
  <2> QED BY <2>2 DEF Instrs, MachineOps
<1> QED BY <1>1, <1>2, <1>3, <1>4 DEF TypeInv, InputOK, TypeOK

(* Whatever the custom inserter, PHI elimination and the branch folder do, *)
(* every variable keeps its type, the blocks that are emitted stay          *)
(* distinct, and no pseudo instruction reaches the machine.                *)
THEOREM Typing == Spec => []TypeOK
BY TypeInvHolds, TypeInvImpliesTypeOK, PTL

=============================================================================
