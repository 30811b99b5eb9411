---------------------- MODULE KudeyarRefinement_proofs ----------------------
(***************************************************************************)
(* The proof that KudeyarBranch implements KudeyarCFG: the machine takes   *)
(* the branches and selects the values the function asks for, whatever the *)
(* branch folder has done to the code, as long as it never needs           *)
(* InsertBranch and every condition is one that is lowered soundly.  First *)
(* the folder: every block keeps the code its part of the function asks    *)
(* for, its branches and its fall-through lead where they should, and      *)
(* AnalyzeBranch tells the truth about its successors.                     *)
(***************************************************************************)
EXTENDS KudeyarBranch_proofs

-----------------------------------------------------------------------------
(* The branch folder.                                                      *)

\* The block with the end of block b's code.
EndBlock(b) == <<b, IF HasSelect(prog, b) THEN 2 ELSE 0>>

\* What is due when control enters machine block m.
Due(m) == IF m[2] = 2 THEN AfterSelect(prog, m[1]) ELSE Enter(prog)[m[1]]

\* Machine block t is emitted, and control that enters it is where it should be.
Leads(t, pt) == t \in Placed /\ t[2] # 1 /\ Due(t) = pt

EndsInJump(m) == Len(code[m]) > 0 /\ code[m][Len(code[m])].op = "Bs"
EndsInReturn(m) == Len(code[m]) > 0 /\ code[m][Len(code[m])].op = "RET"
\* Where control goes at the end of machine block m.
Continues(m) == IF EndsInJump(m) THEN code[m][Len(code[m])].to ELSE LayoutNext(m)

\* The diamond of block b's select.
HeadOK(b) ==
    LET h == <<b, 0>>  c == <<b, 1>>
    IN /\ h \in Placed /\ c \in Placed
       /\ Len(code[h]) = 3 /\ code[h][1] = SelectCompare(b)
       /\ code[h][2] = SelectMove(prog[b].select.t)
       /\ \E t \in Blocks : code[h][3] = SelectBranch(b, t) /\ Leads(t, AfterSelect(prog, b))
       /\ LayoutNext(h) = c /\ c \in succs[h]
       /\ Len(code[c]) = 1 /\ code[c][1] = SelectMove(prog[b].select.f)
       /\ LayoutNext(c) = <<b, 2>> /\ succs[c] = {<<b, 2>>}

\* The end of block b's code, in machine block e.
ReturnOK(b, e) ==
    Len(code[e]) = 1 /\ code[e][1] = MI("RET", "-", "-", NoBlock) /\ succs[e] = {}
JumpOK(b, e) ==
    /\ Len(code[e]) = 0 \/ (Len(code[e]) = 1 /\ \E t \in Blocks : code[e][1] = Jump(t))
    /\ \E t \in Blocks : /\ Continues(e) = t /\ succs[e] = {t}
                         /\ Leads(t, Enter(prog)[prog[b].next[1]])
BranchOK(b, e) ==
    /\ Len(code[e]) = 2 \/ (Len(code[e]) = 3 /\ \E t \in Blocks : code[e][3] = Jump(t))
    /\ code[e][1] = EndCompare(b)
    /\ \E t \in Blocks, n \in Blocks :
         /\ code[e][2] = EndBranch(b, t) /\ Leads(t, Enter(prog)[Taken(b)])
         /\ Continues(e) = n /\ Leads(n, Enter(prog)[NotTaken(b)])
         /\ succs[e] = {t, n}
EndOK(b, e) ==
    /\ Len(prog[b].next) = 0 => ReturnOK(b, e)
    /\ Len(prog[b].next) = 1 => JumpOK(b, e)
    /\ Len(prog[b].next) = 2 => BranchOK(b, e)

FoldCode ==
    /\ \A b \in 1 .. Len(prog) :
         /\ HasSelect(prog, b) => HeadOK(b)
         /\ \A e \in Placed : e = EndBlock(b) => EndOK(b, e)
    /\ \A m \in Placed : m[2] = 0 \/ HasSelect(prog, m[1])

FoldInv == stage \in {"fold", "run", "returned", "lost"} => FoldCode

-----------------------------------------------------------------------------
(* Where jumps lead.                                                       *)

\* A block that does more than jump is where control is when it enters it.
LEMMA EnterWork ==
    ASSUME InputOK, NEW b \in 1 .. Len(prog), b \notin JumpBlocks(prog)
    PROVE  Enter(prog)[b] = <<b, IF HasSelect(prog, b) THEN "select" ELSE "end">>
<1>1. Ends(prog, b) = {b} BY DEF Ends
<1>2. (CHOOSE c \in {b} : TRUE) = b OBVIOUS
<1> QED BY <1>1, <1>2 DEF Enter

\* What a path of jumps from block b passes.
Passed(b, passed) ==
    /\ b \in passed
    /\ \A s \in passed :
         prog[s].next[1] \in JumpBlocks(prog) => prog[s].next[1] \in passed

LEMMA EndsIs ==
    ASSUME NEW b \in JumpBlocks(prog), NEW c
    PROVE  c \in Ends(prog, b) <=>
             /\ c \in 1 .. Len(prog) \ JumpBlocks(prog)
             /\ \A passed \in SUBSET JumpBlocks(prog) :
                  Passed(b, passed) => \E s \in passed : prog[s].next[1] = c
BY DEF Ends, Passed

\* Jumps lead from a block that only jumps to where they lead from the next.
LEMMA EndsOfJump ==
    ASSUME InputOK, NEW b \in JumpBlocks(prog)
    PROVE  Ends(prog, b) = Ends(prog, prog[b].next[1])
<1> DEFINE J == JumpBlocks(prog)
           n == prog[b].next[1]
<1>1. b \in 1 .. Len(prog) /\ Len(prog[b].next) = 1 BY DEF JumpBlocks
<1>2. n \in 1 .. Len(prog) BY <1>1, FunctionIs
<1>3. CASE n \notin J
  <2>1. Ends(prog, n) = {n} BY <1>3 DEF Ends
  <2>2. Passed(b, {b}) /\ {b} \in SUBSET J BY <1>3 DEF Passed
  <2>3. ASSUME NEW c \in Ends(prog, b) PROVE c = n
    <3>1. \E s \in {b} : prog[s].next[1] = c BY <2>2, EndsIs
    <3> QED BY <3>1
  <2>4. n \in Ends(prog, b)
    <3>1. \A passed \in SUBSET J : Passed(b, passed) => \E s \in passed : prog[s].next[1] = n
      BY DEF Passed
    <3> QED BY <3>1, <1>2, <1>3, EndsIs
  <2> QED BY <2>1, <2>3, <2>4
<1>4. CASE n \in J
  <2>1. ASSUME NEW c \in Ends(prog, b) PROVE c \in Ends(prog, n)
    <3>1. ASSUME NEW passed \in SUBSET J, Passed(n, passed)
          PROVE  \E s \in passed : prog[s].next[1] = c
      <4>1. Passed(b, passed \cup {b}) BY <3>1 DEF Passed
      <4>2. passed \cup {b} \in SUBSET J OBVIOUS
      <4>3. PICK s \in passed \cup {b} : prog[s].next[1] = c BY <4>1, <4>2, EndsIs
      <4>4. c # n
        <5>1. c \notin J BY EndsIs
        <5> QED BY <5>1, <1>4
      <4> QED BY <4>3, <4>4
    <3>2. c \in 1 .. Len(prog) \ J BY EndsIs
    <3> QED BY <3>1, <3>2, <1>4, EndsIs
  <2>2. ASSUME NEW c \in Ends(prog, n) PROVE c \in Ends(prog, b)
    <3>1. ASSUME NEW passed \in SUBSET J, Passed(b, passed)
          PROVE  \E s \in passed : prog[s].next[1] = c
      <4>1. Passed(n, passed) BY <3>1, <1>4 DEF Passed
      <4> QED BY <4>1, <2>2, <1>4, EndsIs
    <3>2. c \in 1 .. Len(prog) \ J BY <2>2, <1>4, EndsIs
    <3> QED BY <3>1, <3>2, EndsIs
  <2> QED BY <2>1, <2>2
<1> QED BY <1>3, <1>4

LEMMA EnterJump ==
    ASSUME InputOK, NEW b \in JumpBlocks(prog)
    PROVE  Enter(prog)[b] = Enter(prog)[prog[b].next[1]]
<1>1. b \in 1 .. Len(prog) /\ Len(prog[b].next) = 1 BY DEF JumpBlocks
<1>2. prog[b].next[1] \in 1 .. Len(prog) BY <1>1, FunctionIs
<1>3. Ends(prog, b) = Ends(prog, prog[b].next[1]) BY EndsOfJump
<1> QED BY <1>1, <1>2, <1>3 DEF Enter

-----------------------------------------------------------------------------
(* The shape of the code.                                                  *)

LEMMA PlacedFacts ==
    ASSUME TypeInv
    PROVE  /\ InputOK /\ Placed \subseteq Blocks /\ NoBlock \notin Placed
           /\ \A m \in Placed : m = <<m[1], m[2]>> /\ m[1] \in 1 .. Len(prog) /\ m[2] \in 0 .. 2
<1>1. InputOK /\ layout \in Seq(Blocks) BY DEF TypeInv, LayoutOK
<1>2. \A i \in 1 .. Len(layout) : layout[i] \in Blocks BY <1>1, ElementOfSeq
<1>3. Placed \subseteq Blocks BY <1>1, <1>2, PlacedIs
<1> QED BY <1>1, <1>3, BlocksAre

LEMMA EndBlockIs ==
    ASSUME InputOK, NEW b \in 1 .. Len(prog)
    PROVE  /\ EndBlock(b) \in Blocks
           /\ EndBlock(b)[1] = b /\ EndBlock(b)[2] # 1
           /\ HasSelect(prog, b) => EndBlock(b) = <<b, 2>> /\ EndBlock(b)[2] = 2
           /\ ~HasSelect(prog, b) => EndBlock(b) = <<b, 0>> /\ EndBlock(b)[2] = 0
<1>1. /\ <<b, 0>>[1] = b /\ <<b, 0>>[2] = 0 /\ <<b, 2>>[1] = b /\ <<b, 2>>[2] = 2
      /\ <<b, 0>> \in Blocks /\ <<b, 2>> \in Blocks
  BY BlocksAre
<1> QED BY <1>1 DEF EndBlock

\* What is due in the block with the end of block b's code.
LEMMA DueAtEnd ==
    ASSUME InputOK, NEW b \in 1 .. Len(prog)
    PROVE  /\ Len(prog[b].next) = 1 => Due(EndBlock(b)) = Enter(prog)[prog[b].next[1]]
           /\ Len(prog[b].next) # 1 => Due(EndBlock(b)) = <<b, "end">>
<1>1. CASE HasSelect(prog, b)
  <2>1. EndBlock(b)[1] = b /\ EndBlock(b)[2] = 2 BY <1>1, EndBlockIs
  <2>2. Due(EndBlock(b)) = AfterSelect(prog, b) BY <2>1 DEF Due
  <2> QED BY <2>2 DEF AfterSelect
<1>2. CASE ~HasSelect(prog, b)
  <2>1. EndBlock(b)[1] = b /\ EndBlock(b)[2] = 0 BY <1>2, EndBlockIs
  <2>2. Due(EndBlock(b)) = Enter(prog)[b] BY <2>1 DEF Due
  <2>3. b \in JumpBlocks(prog) <=> Len(prog[b].next) = 1 BY <1>2 DEF JumpBlocks
  <2>4. Len(prog[b].next) = 1 => Enter(prog)[b] = Enter(prog)[prog[b].next[1]]
    BY <2>3, EnterJump
  <2>5. Len(prog[b].next) # 1 => Enter(prog)[b] = <<b, "end">> BY <2>3, <1>2, EnterWork
  <2> QED BY <2>2, <2>4, <2>5
<1> QED BY <1>1, <1>2

LEMMA DueAtSelect ==
    ASSUME InputOK, NEW b \in 1 .. Len(prog), HasSelect(prog, b)
    PROVE  Due(<<b, 0>>) = <<b, "select">>
<1>1. <<b, 0>>[1] = b /\ <<b, 0>>[2] = 0 OBVIOUS
<1>2. b \notin JumpBlocks(prog) BY DEF JumpBlocks
<1> QED BY <1>1, <1>2, EnterWork DEF Due

\* A block is the head or the arm of a diamond, or has the end of its code.
LEMMA ShapeIs ==
    ASSUME TypeInv, FoldCode, NEW m \in Placed
    PROVE  /\ m[1] \in 1 .. Len(prog)
           /\ \/ HasSelect(prog, m[1]) /\ HeadOK(m[1]) /\ m = <<m[1], 0>>
              \/ HasSelect(prog, m[1]) /\ HeadOK(m[1]) /\ m = <<m[1], 1>>
              \/ m = EndBlock(m[1]) /\ EndOK(m[1], m)
<1>1. InputOK /\ m = <<m[1], m[2]>> /\ m[1] \in 1 .. Len(prog) /\ m[2] \in {0, 1, 2}
  BY PlacedFacts
<1>2. m[2] = 0 \/ HasSelect(prog, m[1]) BY DEF FoldCode
<1>3. EndBlock(m[1]) = IF HasSelect(prog, m[1]) THEN <<m[1], 2>> ELSE <<m[1], 0>>
  BY <1>1, EndBlockIs
<1>4. HasSelect(prog, m[1]) => HeadOK(m[1]) BY <1>1 DEF FoldCode
<1>5. m = EndBlock(m[1]) => EndOK(m[1], m) BY <1>1 DEF FoldCode
<1> QED BY <1>1, <1>2, <1>3, <1>4, <1>5

\* What AnalyzeBranch finds when it must not change the code.
LEMMA AnalyzeOnlyIs ==
    ASSUME NEW m, NEW S, code[m] \in Seq(S)
    PROVE  LET k == LastOther(code[m])
               a == AnalyzeBranch(m, FALSE)
           IN /\ a.fails <=> (k > 0 /\ code[m][k].op \in Unanalyzable)
              /\ k = Len(code[m]) => a.tbb = NoBlock
<1> DEFINE cs == code[m]
           k == LastOther(cs)
           gives == k > 0 /\ cs[k].op \in Unanalyzable
           target == IF k < Len(cs) THEN cs[k + 1].to ELSE NoBlock
           a == AnalyzeBranch(m, FALSE)
<1>1. a = [fails |-> gives, tbb |-> target, after |-> cs]
  BY DEF AnalyzeBranch, LastOther
<1>2. k \in 0 .. Len(cs) /\ Len(cs) \in Nat BY LastOtherIs, LenProperties
<1>3. k = Len(cs) => target = NoBlock BY <1>2
<1> HIDE DEF k, gives, target, a
<1>4. a.fails = gives /\ a.tbb = target BY <1>1
<1> QED BY <1>3, <1>4 DEF gives, k, a

\* A block that ends in no jump or return falls into its successor behind it.
LEMMA FallsIfOpen ==
    ASSUME NEW m, NEW S, code[m] \in Seq(S), ~EndsInJump(m), ~EndsInReturn(m),
           LayoutNext(m) # NoBlock, LayoutNext(m) \in succs[m]
    PROVE  CanFallThrough(m)
<1> DEFINE cs == code[m]
           k == LastOther(cs)
           a == AnalyzeBranch(m, FALSE)
<1>1. Len(cs) \in Nat BY LenProperties
<1>2. k \in 0 .. Len(cs) /\ \A i \in k + 1 .. Len(cs) : cs[i].op = "Bs" BY LastOtherIs
<1> HIDE DEF k
<1>3. k = Len(cs)
  <2>1. SUFFICES ASSUME k < Len(cs) PROVE FALSE BY <1>1, <1>2
  <2>2. Len(cs) \in k + 1 .. Len(cs) /\ Len(cs) > 0 BY <2>1, <1>1, <1>2
  <2> QED BY <2>2, <1>2 DEF EndsInJump
<1>4. a.tbb = NoBlock /\ (a.fails => k > 0) BY <1>3, AnalyzeOnlyIs DEF k
<1>5. a.fails => Last(cs).op \notin {"Bs", "RET"}
  BY <1>1, <1>3, <1>4 DEF EndsInJump, EndsInReturn, Last
<1> HIDE DEF a
<1>6. IF a.fails THEN Last(cs).op \notin {"Bs", "RET"} ELSE a.tbb \in {NoBlock, LayoutNext(m)}
  BY <1>4, <1>5
<1> QED BY <1>6 DEF CanFallThrough, a

LEMMA NextIsPlaced ==
    ASSUME TypeInv
    PROVE  \A m : LayoutNext(m) \in Placed \cup {NoBlock}
<1>1. layout \in Seq(Blocks) BY DEF TypeInv, LayoutOK
<1>2. Len(layout) \in Nat /\ layout \in [1 .. Len(layout) -> Blocks] BY <1>1, LenProperties
<1>3. \A i \in 1 .. Len(layout) : layout[i] \in Placed BY <1>1, PlacedIs
<1>4. layout \in [1 .. Len(layout) -> Placed] BY <1>2, <1>3
<1>5. layout \in Seq(Placed) BY <1>2, <1>4, FunctionIsSeq
<1>6. \A m : Behind(layout, NoBlock, m) \in Placed \cup {NoBlock} BY <1>5, BehindIn
<1> QED BY <1>6, LayoutNextIs

\* The operations of the instructions, as far as control depends on them.
LEMMA InstructionKinds ==
    /\ \A b, t : SelectBranch(b, t).op \in CondBranches /\ SelectBranch(b, t).to = t
    /\ \A b, t : EndBranch(b, t).op \in CondBranches /\ EndBranch(b, t).to = t
    /\ \A t : Jump(t).op = "Bs" /\ Jump(t).to = t
    /\ \A n : SelectMove(n).op = "MOV"
    /\ MI("RET", "-", "-", NoBlock).op = "RET"
    /\ "Bs" \notin CondBranches /\ "RET" \notin CondBranches /\ "MOV" \notin CondBranches
    /\ CondBranches \subseteq Unanalyzable /\ "RET" \in Unanalyzable
    /\ "MOV" \notin Unanalyzable /\ "Bs" \notin Unanalyzable
BY DEF SelectBranch, EndBranch, Jump, SelectMove, MI, CondBranches, Unanalyzable

LEMMA EndsWithHead ==
    ASSUME NEW b, HeadOK(b)
    PROVE  /\ ~EndsInJump(<<b, 0>>) /\ ~EndsInReturn(<<b, 0>>)
           /\ ~EndsInJump(<<b, 1>>) /\ ~EndsInReturn(<<b, 1>>)
<1>1. /\ Len(code[<<b, 0>>]) = 3
      /\ \E t : code[<<b, 0>>][3] = SelectBranch(b, t)
      /\ Len(code[<<b, 1>>]) = 1 /\ code[<<b, 1>>][1] = SelectMove(prog[b].select.f)
  BY DEF HeadOK
<1>2. code[<<b, 0>>][3].op \in CondBranches /\ code[<<b, 1>>][1].op = "MOV"
  BY <1>1, InstructionKinds
<1> QED BY <1>1, <1>2, InstructionKinds DEF EndsInJump, EndsInReturn

LEMMA EndsWithEnd ==
    ASSUME NEW b, NEW e
    PROVE  /\ ReturnOK(b, e) => EndsInReturn(e) /\ ~EndsInJump(e)
           /\ JumpOK(b, e) \/ BranchOK(b, e) =>
                /\ ~EndsInReturn(e)
                /\ EndsInJump(e) <=> Len(code[e]) \in {1, 3}
<1>1. ASSUME ReturnOK(b, e) PROVE EndsInReturn(e) /\ ~EndsInJump(e)
  <2>1. Len(code[e]) = 1 /\ code[e][1] = MI("RET", "-", "-", NoBlock) BY <1>1 DEF ReturnOK
  <2>2. code[e][1].op = "RET" BY <2>1, InstructionKinds
  <2> QED BY <2>1, <2>2 DEF EndsInReturn, EndsInJump
<1>2. ASSUME JumpOK(b, e) PROVE ~EndsInReturn(e) /\ (EndsInJump(e) <=> Len(code[e]) \in {1, 3})
  <2>1. Len(code[e]) = 0 \/ (Len(code[e]) = 1 /\ \E t : code[e][1] = Jump(t))
    BY <1>2 DEF JumpOK
  <2>2. Len(code[e]) = 1 => code[e][1].op = "Bs" BY <2>1, InstructionKinds
  <2> QED BY <2>1, <2>2 DEF EndsInReturn, EndsInJump
<1>3. ASSUME BranchOK(b, e) PROVE ~EndsInReturn(e) /\ (EndsInJump(e) <=> Len(code[e]) \in {1, 3})
  <2>1. /\ Len(code[e]) = 2 \/ (Len(code[e]) = 3 /\ \E t : code[e][3] = Jump(t))
        /\ \E t : code[e][2] = EndBranch(b, t)
    BY <1>3 DEF BranchOK
  <2>2. code[e][2].op \in CondBranches BY <2>1, InstructionKinds
  <2>3. Len(code[e]) = 3 => code[e][3].op = "Bs" BY <2>1, InstructionKinds
  <2> QED BY <2>1, <2>2, <2>3, InstructionKinds DEF EndsInReturn, EndsInJump
<1> QED BY <1>1, <1>2, <1>3

\* The three ends of a block.
LEMMA EndCases ==
    ASSUME InputOK, NEW b \in 1 .. Len(prog)
    PROVE  /\ Len(prog[b].next) = 0 \/ Len(prog[b].next) = 1 \/ Len(prog[b].next) = 2
           /\ \A e : EndOK(b, e) => ReturnOK(b, e) \/ JumpOK(b, e) \/ BranchOK(b, e)
<1>1. Len(prog[b].next) \in 0 .. 2 BY FunctionIs
<1>2. \A n \in 0 .. 2 : n = 0 \/ n = 1 \/ n = 2 OBVIOUS
<1> QED BY <1>1, <1>2 DEF EndOK

(* A block that ends in no jump and no return falls into the next one, and *)
(* the branch folder sees that it does.                                    *)
LEMMA OpenFalls ==
    ASSUME TypeInv, stage = "fold", FoldCode, NEW m \in Placed,
           ~EndsInJump(m), ~EndsInReturn(m)
    PROVE  CanFallThrough(m) /\ LayoutNext(m) \in Placed
<1>1. InputOK /\ m \in Blocks /\ NoBlock \notin Placed BY PlacedFacts
<1>2. code[m] \in Seq(Instrs(MachineOps)) BY <1>1, FoldFacts
<1>3. LayoutNext(m) \in succs[m] /\ LayoutNext(m) # NoBlock
  <2>1. m[1] \in 1 .. Len(prog) /\ NoBlock \notin Blocks BY <1>1, BlocksAre
  <2>2. CASE HeadOK(m[1]) /\ m = <<m[1], 0>>
    <3>1. LayoutNext(m) = <<m[1], 1>> /\ <<m[1], 1>> \in succs[m] /\ <<m[1], 1>> \in Placed
      BY <2>2 DEF HeadOK
    <3> QED BY <3>1, <1>1
  <2>3. CASE HeadOK(m[1]) /\ m = <<m[1], 1>>
    <3>1. LayoutNext(m) = <<m[1], 2>> /\ succs[m] = {<<m[1], 2>>} BY <2>3 DEF HeadOK
    <3>2. <<m[1], 2>> \in Blocks BY <1>1, <2>1, BlocksAre
    <3> QED BY <3>1, <3>2, <2>1
  <2>4. CASE m = EndBlock(m[1]) /\ EndOK(m[1], m)
    <3>1. ReturnOK(m[1], m) \/ JumpOK(m[1], m) \/ BranchOK(m[1], m) BY <1>1, <2>1, <2>4, EndCases
    <3>2. ~ReturnOK(m[1], m) BY <2>4, EndsWithEnd
    <3>3. Continues(m) = LayoutNext(m) BY DEF Continues
    <3>4. CASE JumpOK(m[1], m)
      <4>1. succs[m] = {LayoutNext(m)} /\ LayoutNext(m) \in Placed
        BY <3>3, <3>4, <2>4 DEF JumpOK, Leads
      <4> QED BY <4>1, <1>1
    <3>5. CASE BranchOK(m[1], m)
      <4>1. LayoutNext(m) \in succs[m] /\ LayoutNext(m) \in Placed
        BY <3>3, <3>5, <2>4 DEF BranchOK, Leads
      <4> QED BY <4>1, <1>1
    <3> QED BY <3>1, <3>2, <3>4, <3>5
  <2> QED BY <2>2, <2>3, <2>4, ShapeIs
<1>4. LayoutNext(m) \in Placed BY <1>3, NextIsPlaced
<1> QED BY <1>2, <1>3, <1>4, FallsIfOpen

\* Where AnalyzeBranch stops in a block of each shape.
LEMMA LastOtherAt ==
    ASSUME NEW S, NEW cs \in Seq(S)
    PROVE  /\ Len(cs) > 0 /\ cs[Len(cs)].op # "Bs" => LastOther(cs) = Len(cs)
           /\ Len(cs) = 0 => LastOther(cs) = 0
           /\ Len(cs) = 1 /\ cs[1].op = "Bs" => LastOther(cs) = 0
           /\ Len(cs) = 3 /\ cs[2].op # "Bs" /\ cs[3].op = "Bs" => LastOther(cs) = 2
<1> DEFINE k == LastOther(cs)
<1>1. Len(cs) \in Nat BY LenProperties
<1>2. /\ k \in 0 .. Len(cs) /\ (k > 0 => cs[k].op # "Bs")
      /\ \A i \in k + 1 .. Len(cs) : cs[i].op = "Bs"
  BY LastOtherIs
<1> HIDE DEF k
<1>3. ASSUME Len(cs) > 0, cs[Len(cs)].op # "Bs" PROVE k = Len(cs)
  <2>1. SUFFICES ASSUME k < Len(cs) PROVE FALSE BY <1>1, <1>2
  <2>2. Len(cs) \in k + 1 .. Len(cs) BY <2>1, <1>1, <1>2
  <2> QED BY <2>2, <1>2, <1>3
<1>4. Len(cs) = 0 => k = 0 BY <1>2
<1>5. ASSUME Len(cs) = 1, cs[1].op = "Bs" PROVE k = 0
  <2>1. k # 1 BY <1>2, <1>5
  <2> QED BY <2>1, <1>2, <1>5
<1>6. ASSUME Len(cs) = 3, cs[2].op # "Bs", cs[3].op = "Bs" PROVE k = 2
  <2>1. k # 3 BY <1>2, <1>6
  <2>2. ~(2 \in k + 1 .. 3) BY <1>2, <1>6
  <2> QED BY <2>1, <2>2, <1>2, <1>6
<1> QED BY <1>3, <1>4, <1>5, <1>6 DEF k

\* What AnalyzeBranch says of a block of each shape, and what it leaves.
LEMMA AnalysisIs ==
    ASSUME TypeInv, stage = "fold", FoldCode, NEW m \in Placed
    PROVE  LET a == AnalyzeBranch(m, TRUE)
           IN /\ a.after = code[m]
                 \/ /\ EndsInJump(m) /\ code[m][Len(code[m])].to = LayoutNext(m)
                    /\ Len(code[m]) > 0 /\ a.after = SubSeq(code[m], 1, Len(code[m]) - 1)
              /\ a.fails \/ succs[m] = {IF a.tbb = NoBlock THEN LayoutNext(m) ELSE a.tbb}
<1> DEFINE cs == code[m]
           k == LastOther(cs)
           a == AnalyzeBranch(m, TRUE)
           b == m[1]
           Kept == a.after = cs
           Cut == /\ EndsInJump(m) /\ cs[Len(cs)].to = LayoutNext(m)
                  /\ Len(cs) > 0 /\ a.after = SubSeq(cs, 1, Len(cs) - 1)
           True == succs[m] = {IF a.tbb = NoBlock THEN LayoutNext(m) ELSE a.tbb}
<1>1. InputOK /\ m \in Blocks /\ m[1] \in 1 .. Len(prog) /\ NoBlock \notin Placed BY PlacedFacts
<1>2. cs \in Seq(Instrs(MachineOps)) BY <1>1, FoldFacts
<1>3. /\ a.fails <=> (k > 0 /\ cs[k].op \in Unanalyzable)
      /\ k = Len(cs) => a.tbb = NoBlock /\ a.after = cs
      /\ k < Len(cs) /\ cs[k + 1].to = LayoutNext(m) =>
           a.tbb = NoBlock /\ a.after = SubSeq(cs, 1, k)
      /\ k < Len(cs) /\ cs[k + 1].to # LayoutNext(m) =>
           a.tbb = cs[k + 1].to /\ a.after = SubSeq(cs, 1, k + 1)
  BY <1>2, AnalyzeIs
<1>4. /\ Len(cs) > 0 /\ cs[Len(cs)].op # "Bs" => k = Len(cs)
      /\ Len(cs) = 0 => k = 0
      /\ Len(cs) = 1 /\ cs[1].op = "Bs" => k = 0
      /\ Len(cs) = 3 /\ cs[2].op # "Bs" /\ cs[3].op = "Bs" => k = 2
  BY <1>2, LastOtherAt
<1>5. SubSeq(cs, 1, Len(cs)) = cs BY <1>2, SubSeqFull
<1>6. CASE HeadOK(b) /\ m = <<b, 0>>
  <2>1. Len(cs) = 3 /\ \E t : cs[3] = SelectBranch(b, t) BY <1>6 DEF HeadOK
  <2>2. cs[3].op \in CondBranches BY <2>1, InstructionKinds
  <2> HIDE DEF a, k, cs, b
  <2>3. cs[3].op # "Bs" BY <2>2, InstructionKinds
  <2>4. k = 3 BY <2>1, <2>3, <1>4
  <2>5. a.fails /\ a.after = cs BY <2>1, <2>2, <2>4, <1>3, InstructionKinds
  <2> QED BY <2>5 DEF a, cs
<1>7. CASE HeadOK(b) /\ m = <<b, 1>>
  <2>1. /\ Len(cs) = 1 /\ cs[1] = SelectMove(prog[b].select.f)
        /\ LayoutNext(m) = <<b, 2>> /\ succs[m] = {<<b, 2>>}
    BY <1>7 DEF HeadOK
  <2>2. cs[1].op = "MOV" BY <2>1, InstructionKinds
  <2> HIDE DEF a, k, cs, b
  <2>3. k = 1 BY <2>1, <2>2, <1>4
  <2>4. a.tbb = NoBlock /\ a.after = cs BY <2>1, <2>3, <1>3
  <2> QED BY <2>1, <2>4 DEF a, cs
<1>8. CASE m = EndBlock(b) /\ EndOK(b, m)
  <2>1. ReturnOK(b, m) \/ JumpOK(b, m) \/ BranchOK(b, m) BY <1>1, <1>8, EndCases
  <2>2. CASE ReturnOK(b, m)
    <3>1. Len(cs) = 1 /\ cs[1] = MI("RET", "-", "-", NoBlock) BY <1>8, <2>2 DEF ReturnOK
    <3>2. cs[1].op = "RET" BY <3>1, InstructionKinds
    <3> HIDE DEF a, k, cs, b
    <3>3. k = 1 BY <3>1, <3>2, <1>4
    <3>4. a.fails /\ a.after = cs BY <3>1, <3>2, <3>3, <1>3, InstructionKinds
    <3> QED BY <3>4 DEF a, cs
  <2>3. CASE JumpOK(b, m)
    <3>1. /\ Len(cs) = 0 \/ (Len(cs) = 1 /\ \E t : cs[1] = Jump(t))
          /\ succs[m] = {Continues(m)} /\ Continues(m) \in Placed
      BY <1>8, <2>3 DEF JumpOK, Leads
    <3>2. Len(cs) = 1 => cs[1].op = "Bs" BY <3>1, InstructionKinds
    <3>3. Continues(m) = IF EndsInJump(m) THEN cs[Len(cs)].to ELSE LayoutNext(m) BY DEF Continues
    <3>4. EndsInJump(m) <=> Len(cs) = 1 BY <3>1, <3>2 DEF EndsInJump
    <3> HIDE DEF a, k, cs, b
    <3>5. CASE Len(cs) = 0
      <4>1. k = 0 BY <3>5, <1>4
      <4>2. a.tbb = NoBlock /\ a.after = cs BY <4>1, <3>5, <1>3
      <4>3. succs[m] = {LayoutNext(m)} BY <3>1, <3>3, <3>4, <3>5
      <4> QED BY <4>2, <4>3 DEF a, cs
    <3>6. CASE Len(cs) = 1
      <4>1. k = 0 BY <3>2, <3>6, <1>4
      <4>2. Continues(m) = cs[1].to /\ EndsInJump(m) BY <3>3, <3>4, <3>6
      <4>3. CASE cs[1].to = LayoutNext(m)
        <5>1. a.tbb = NoBlock /\ a.after = SubSeq(cs, 1, 0) BY <4>1, <4>3, <3>6, <1>3
        <5>2. Cut BY <5>1, <4>2, <4>3, <3>6
        <5>3. True BY <5>1, <4>2, <4>3, <3>1
        <5> QED BY <5>2, <5>3 DEF a, cs
      <4>4. CASE cs[1].to # LayoutNext(m)
        <5>1. a.tbb = cs[1].to /\ a.after = SubSeq(cs, 1, 1) BY <4>1, <4>4, <3>6, <1>3
        <5>2. Kept BY <5>1, <3>6, <1>5
        <5>3. True BY <5>1, <4>2, <3>1, <1>1
        <5> QED BY <5>2, <5>3 DEF a, cs
      <4> QED BY <4>3, <4>4
    <3> QED BY <3>1, <3>5, <3>6
  <2>4. CASE BranchOK(b, m)
    <3>1. /\ Len(cs) = 2 \/ (Len(cs) = 3 /\ \E t : cs[3] = Jump(t))
          /\ \E t : cs[2] = EndBranch(b, t)
      BY <1>8, <2>4 DEF BranchOK
    <3>2. cs[2].op \in CondBranches /\ (Len(cs) = 3 => cs[3].op = "Bs") BY <3>1, InstructionKinds
    <3>3. cs[2].op # "Bs" /\ cs[2].op \in Unanalyzable BY <3>2, InstructionKinds
    <3>4. EndsInJump(m) <=> Len(cs) = 3 BY <3>1, <3>2, <3>3 DEF EndsInJump
    <3> HIDE DEF a, k, cs, b
    <3>5. k = 2 BY <3>1, <3>2, <3>3, <1>4
    <3>6. a.fails BY <3>3, <3>5, <1>3
    <3>7. CASE Len(cs) = 2
      <4>1. a.after = cs BY <3>5, <3>7, <1>3
      <4> QED BY <4>1, <3>6 DEF a, cs
    <3>8. CASE Len(cs) = 3
      <4>1. CASE cs[3].to = LayoutNext(m)
        <5>1. a.after = SubSeq(cs, 1, 2) BY <4>1, <3>5, <3>8, <1>3
        <5>2. Cut BY <5>1, <4>1, <3>4, <3>8
        <5> QED BY <5>2, <3>6 DEF a, cs
      <4>2. CASE cs[3].to # LayoutNext(m)
        <5>1. a.after = SubSeq(cs, 1, 3) BY <4>2, <3>5, <3>8, <1>3
        <5> QED BY <5>1, <3>6, <3>8, <1>5 DEF a, cs
      <4> QED BY <4>1, <4>2
    <3> QED BY <3>1, <3>7, <3>8
  <2> QED BY <2>1, <2>2, <2>3, <2>4
<1> QED BY <1>6, <1>7, <1>8, ShapeIs

LEMMA FoldInvTruth == TypeInv /\ FoldInv => AnalysisTrue
<1> SUFFICES ASSUME TypeInv, FoldInv, stage = "fold", NEW i \in 1 .. Len(layout)
             PROVE  LET a == AnalyzeBranch(layout[i], TRUE)
                    IN ~a.fails => succs[layout[i]] =
                                     {IF a.tbb = NoBlock THEN LayoutNext(layout[i]) ELSE a.tbb}
  BY DEF AnalysisTrue
<1>1. FoldCode BY DEF FoldInv
<1>2. layout[i] \in Placed BY FoldFacts, PlacedIs
<1> QED BY <1>1, <1>2, AnalysisIs

-----------------------------------------------------------------------------
(* PHI elimination leaves the code the folder may start from.              *)

FreshEnd(b) ==
    /\ EndBlock(b) \in Placed /\ code[EndBlock(b)] = EndOfBlock(b)
    /\ LayoutNext(EndBlock(b)) = BlockBehind(b) /\ succs[EndBlock(b)] = NextBlocks(b)
Fresh(b) ==
    /\ <<b, 0>> \in Placed
    /\ HasSelect(prog, b) =>
         /\ <<b, 1>> \in Placed /\ <<b, 2>> \in Placed
         /\ code[<<b, 0>>] = <<SelectCompare(b), SelectMove(prog[b].select.t),
                               SelectBranch(b, <<b, 2>>)>>
         /\ code[<<b, 1>>] = <<SelectMove(prog[b].select.f)>>
         /\ LayoutNext(<<b, 0>>) = <<b, 1>> /\ LayoutNext(<<b, 1>>) = <<b, 2>>
         /\ succs[<<b, 0>>] = {<<b, 1>>, <<b, 2>>} /\ succs[<<b, 1>>] = {<<b, 2>>}
    /\ ~HasSelect(prog, b) => <<b, 1>> \notin Placed /\ <<b, 2>> \notin Placed
    /\ FreshEnd(b)
AllFresh == \A b \in 1 .. Len(prog) : Fresh(b)

LEMMA NextBlocksAre ==
    ASSUME InputOK, NEW b \in 1 .. Len(prog)
    PROVE  /\ Len(prog[b].next) = 0 => NextBlocks(b) = {}
           /\ Len(prog[b].next) = 1 => NextBlocks(b) = {<<prog[b].next[1], 0>>}
           /\ Len(prog[b].next) = 2 =>
                /\ NextBlocks(b) = {<<Taken(b), 0>>, <<NotTaken(b), 0>>}
                /\ Taken(b) \in 1 .. Len(prog) /\ NotTaken(b) \in 1 .. Len(prog)
<1> DEFINE n == prog[b].next
<1>1. \A i \in 1 .. Len(n) : n[i] \in 1 .. Len(prog) BY FunctionIs
<1>2. NextBlocks(b) = {<<n[i], 0>> : i \in 1 .. Len(n)} BY DEF NextBlocks
<1>3. CASE Len(n) = 0
  <2>1. 1 .. 0 = {} OBVIOUS
  <2>2. NextBlocks(b) = {} BY <2>1, <1>2, <1>3
  <2> QED BY <2>2, <1>3
<1>4. CASE Len(n) = 1
  <2>1. 1 .. 1 = {1} OBVIOUS
  <2>2. NextBlocks(b) = {<<n[1], 0>>} BY <2>1, <1>2, <1>4
  <2> QED BY <2>2, <1>4
<1>5. CASE Len(n) = 2
  <2>1. 1 .. 2 = {1, 2} OBVIOUS
  <2>2. NextBlocks(b) = {<<n[1], 0>>, <<n[2], 0>>} BY <2>1, <1>2, <1>5
  <2>3. n[1] \in 1 .. Len(prog) /\ n[2] \in 1 .. Len(prog) BY <1>1, <1>5
  <2> QED BY <2>2, <2>3, <1>5 DEF Taken, NotTaken
<1>6. Len(n) = 0 \/ Len(n) = 1 \/ Len(n) = 2 BY EndCases
<1> QED BY <1>3, <1>4, <1>5, <1>6

LEMMA FreshEndOK ==
    ASSUME TypeInv, NEW b \in 1 .. Len(prog), \A c \in 1 .. Len(prog) : <<c, 0>> \in Placed,
           FreshEnd(b), NEW e, e = EndBlock(b)
    PROVE  EndOK(b, e)
<1> DEFINE n == prog[b].next
<1>1. /\ InputOK /\ e \in Placed /\ code[e] = EndOfBlock(b)
      /\ LayoutNext(e) = BlockBehind(b) /\ succs[e] = NextBlocks(b)
  BY PlacedFacts DEF FreshEnd
<1>2. \A c \in 1 .. Len(prog) : Leads(<<c, 0>>, Enter(prog)[c])
  <2> SUFFICES ASSUME NEW c \in 1 .. Len(prog) PROVE Leads(<<c, 0>>, Enter(prog)[c]) OBVIOUS
  <2>1. <<c, 0>>[1] = c /\ <<c, 0>>[2] = 0 OBVIOUS
  <2>2. Due(<<c, 0>>) = Enter(prog)[c] BY <2>1 DEF Due
  <2> QED BY <2>1, <2>2 DEF Leads
<1>3. \A c \in 1 .. Len(prog) : c = b + 1 => LayoutNext(e) = <<c, 0>> BY <1>1 DEF BlockBehind
<1>4. /\ Len(n) = 0 => NextBlocks(b) = {}
      /\ Len(n) = 1 => NextBlocks(b) = {<<n[1], 0>>}
      /\ Len(n) = 2 => /\ NextBlocks(b) = {<<Taken(b), 0>>, <<NotTaken(b), 0>>}
                       /\ Taken(b) \in 1 .. Len(prog) /\ NotTaken(b) \in 1 .. Len(prog)
  BY <1>1, NextBlocksAre
<1>5. /\ Len(n) = 0 => code[e] = <<MI("RET", "-", "-", NoBlock)>>
      /\ Len(n) = 1 => code[e] = IF n[1] = b + 1 THEN <<>> ELSE <<Jump(<<n[1], 0>>)>>
      /\ Len(n) = 2 => code[e] = IF NotTaken(b) = b + 1
                                 THEN <<EndCompare(b), EndBranch(b, <<Taken(b), 0>>)>>
                                 ELSE <<EndCompare(b), EndBranch(b, <<Taken(b), 0>>),
                                        Jump(<<NotTaken(b), 0>>)>>
  BY <1>1, EndOfBlockIs
<1>10. \A c \in 1 .. Len(prog) : <<c, 0>> \in Blocks BY <1>1, BlocksAre
<1>6. CASE Len(n) = 0
  <2>1. ReturnOK(b, e) BY <1>1, <1>4, <1>5, <1>6 DEF ReturnOK
  <2> QED BY <2>1, <1>6 DEF EndOK
<1>7. CASE Len(n) = 1
  <2>1. n[1] \in 1 .. Len(prog) BY <1>1, <1>7, FunctionIs
  <2>2. CASE n[1] = b + 1
    <3>1. code[e] = <<>> BY <1>5, <1>7, <2>2
    <3>2. Len(code[e]) = 0 BY <3>1
    <3>3. Continues(e) = <<n[1], 0>> BY <3>2, <2>1, <2>2, <1>3 DEF Continues, EndsInJump
    <3>4. JumpOK(b, e) BY <3>2, <3>3, <2>1, <1>1, <1>2, <1>4, <1>7, <1>10 DEF JumpOK
    <3> QED BY <3>4, <1>7 DEF EndOK
  <2>3. CASE n[1] # b + 1
    <3>1. code[e] = <<Jump(<<n[1], 0>>)>> BY <1>5, <1>7, <2>3
    <3>2. Len(code[e]) = 1 /\ code[e][1] = Jump(<<n[1], 0>>) BY <3>1
    <3>3. code[e][1].op = "Bs" /\ code[e][1].to = <<n[1], 0>> BY <3>2, InstructionKinds
    <3>4. Continues(e) = <<n[1], 0>> BY <3>2, <3>3 DEF Continues, EndsInJump
    <3>5. JumpOK(b, e) BY <3>2, <3>4, <2>1, <1>1, <1>2, <1>4, <1>7, <1>10 DEF JumpOK
    <3> QED BY <3>5, <1>7 DEF EndOK
  <2> QED BY <2>2, <2>3
<1>8. CASE Len(n) = 2
  <2> DEFINE C == EndCompare(b)
             B == EndBranch(b, <<Taken(b), 0>>)
             J == Jump(<<NotTaken(b), 0>>)
  <2>1. /\ Taken(b) \in 1 .. Len(prog) /\ NotTaken(b) \in 1 .. Len(prog)
        /\ succs[e] = {<<Taken(b), 0>>, <<NotTaken(b), 0>>}
    BY <1>1, <1>4, <1>8
  <2>2. B.op \in CondBranches /\ B.to = <<Taken(b), 0>> /\ J.op = "Bs" /\ J.to = <<NotTaken(b), 0>>
    BY InstructionKinds
  <2>3. SUFFICES ASSUME Continues(e) = <<NotTaken(b), 0>>,
                        Len(code[e]) \in {2, 3}, code[e][1] = C, code[e][2] = B,
                        Len(code[e]) = 3 => code[e][3] = J
                 PROVE  BranchOK(b, e)
    <3> HIDE DEF C, B, J
    <3>1. CASE NotTaken(b) = b + 1
      <4>1. code[e] = <<C, B>> BY <1>5, <1>8, <3>1 DEF C, B
      <4>2. Len(code[e]) = 2 /\ code[e][1] = C /\ code[e][2] = B BY <4>1
      <4>3. ~EndsInJump(e) BY <4>2, <2>2, InstructionKinds DEF EndsInJump
      <4>4. Continues(e) = <<NotTaken(b), 0>> BY <4>3, <3>1, <2>1, <1>3 DEF Continues
      <4>5. BranchOK(b, e) BY <4>2, <4>4, <2>3
      <4> QED BY <4>5, <1>8 DEF EndOK
    <3>2. CASE NotTaken(b) # b + 1
      <4>1. code[e] = <<C, B, J>> BY <1>5, <1>8, <3>2 DEF C, B, J
      <4>2. Len(code[e]) = 3 /\ code[e][1] = C /\ code[e][2] = B /\ code[e][3] = J BY <4>1
      <4>3. Continues(e) = <<NotTaken(b), 0>> BY <4>2, <2>2 DEF Continues, EndsInJump
      <4>4. BranchOK(b, e) BY <4>2, <4>3, <2>3
      <4> QED BY <4>4, <1>8 DEF EndOK
    <3> QED BY <3>1, <3>2
  <2>4. Len(code[e]) = 3 => \E t \in Blocks : code[e][3] = Jump(t) BY <2>1, <2>3, <1>10
  <2>5. code[e][2] = EndBranch(b, <<Taken(b), 0>>) BY <2>3
  <2> HIDE DEF C, B, J
  <2>6. Leads(<<Taken(b), 0>>, Enter(prog)[Taken(b)]) /\ Leads(<<NotTaken(b), 0>>, Enter(prog)[NotTaken(b)])
    BY <2>1, <1>2
  <2>7. <<Taken(b), 0>> \in Blocks /\ <<NotTaken(b), 0>> \in Blocks BY <2>1, <1>10
  <2> QED BY <2>1, <2>3, <2>4, <2>5, <2>6, <2>7 DEF BranchOK, C
<1>9. Len(n) = 0 \/ Len(n) = 1 \/ Len(n) = 2 BY <1>1, EndCases
<1> QED BY <1>6, <1>7, <1>8, <1>9

LEMMA FreshFoldCode == TypeInv /\ AllFresh => FoldCode
<1> SUFFICES ASSUME TypeInv, \A b \in 1 .. Len(prog) : Fresh(b) PROVE FoldCode BY DEF AllFresh
<1>1. \A c \in 1 .. Len(prog) : <<c, 0>> \in Placed BY DEF Fresh
<1>2. ASSUME NEW b \in 1 .. Len(prog), HasSelect(prog, b) PROVE HeadOK(b)
  <2> DEFINE C == SelectCompare(b)
             M == SelectMove(prog[b].select.t)
             B == SelectBranch(b, <<b, 2>>)
             F == SelectMove(prog[b].select.f)
  <2>1. Fresh(b) OBVIOUS
  <2>2. code[<<b, 0>>] = <<C, M, B>> /\ code[<<b, 1>>] = <<F>> BY <2>1, <1>2 DEF Fresh
  <2> HIDE DEF C, M, B, F
  <2>4. /\ Len(code[<<b, 0>>]) = 3 /\ code[<<b, 0>>][1] = C /\ code[<<b, 0>>][2] = M
        /\ code[<<b, 0>>][3] = B /\ Len(code[<<b, 1>>]) = 1 /\ code[<<b, 1>>][1] = F
    BY <2>2
  <2>5. Leads(<<b, 2>>, AfterSelect(prog, b))
    <3>1. <<b, 2>> \in Placed /\ <<b, 2>>[1] = b /\ <<b, 2>>[2] = 2 BY <2>1, <1>2 DEF Fresh
    <3> QED BY <3>1 DEF Leads, Due
  <2>6. code[<<b, 0>>][3] = SelectBranch(b, <<b, 2>>) /\ <<b, 2>> \in Blocks
    BY <2>4, PlacedFacts, BlocksAre DEF B
  <2>7. /\ <<b, 0>> \in Placed /\ <<b, 1>> \in Placed
        /\ LayoutNext(<<b, 0>>) = <<b, 1>> /\ LayoutNext(<<b, 1>>) = <<b, 2>>
        /\ <<b, 1>> \in succs[<<b, 0>>] /\ succs[<<b, 1>>] = {<<b, 2>>}
    BY <2>1, <1>2 DEF Fresh
  <2> QED BY <2>4, <2>5, <2>6, <2>7 DEF HeadOK, C, M, F
<1>3. \A b \in 1 .. Len(prog) : \A e : e = EndBlock(b) => EndOK(b, e) BY <1>1, FreshEndOK DEF Fresh
<1>4. ASSUME NEW m \in Placed, m[2] # 0 PROVE HasSelect(prog, m[1])
  <2>1. m = <<m[1], m[2]>> /\ m[1] \in 1 .. Len(prog) /\ m[2] \in {1, 2} BY <1>4, PlacedFacts
  <2>2. m = <<m[1], 1>> \/ m = <<m[1], 2>> BY <2>1
  <2> QED BY <2>1, <2>2 DEF Fresh
<1> QED BY <1>2, <1>3, <1>4 DEF FoldCode

LEMMA EliminatePHIsFresh ==
    ASSUME TypeInv, EliminatePHIs, NEW b \in 1 .. Len(prog)
    PROVE  Fresh(b)'
<1>1. /\ prog' = prog /\ layout' = layout /\ succs' = succs /\ stage = "phis"
  BY DEF EliminatePHIs, input
<1>2. InputOK /\ <<b, 0>> \in Placed BY <1>1 DEF TypeInv
<1>3. /\ Placed' = Placed /\ \A m : LayoutNext(m)' = LayoutNext(m)
      /\ HasSelect(prog', b) = HasSelect(prog, b) /\ EndBlock(b)' = EndBlock(b)
      /\ EndOfBlock(b)' = EndOfBlock(b) /\ BlockBehind(b)' = BlockBehind(b)
      /\ NextBlocks(b)' = NextBlocks(b) /\ SelectCompare(b)' = SelectCompare(b)
      /\ \A t : SelectBranch(b, t)' = SelectBranch(b, t)
  BY <1>1, LayoutNextIs, SameFunction DEF Placed, EndBlock
<1>4. CASE HasSelect(prog, b)
  <2>1. EndBlock(b) = <<b, 2>> BY <1>2, <1>4, EndBlockIs
  <2>2. /\ Split(b)
        /\ code'[<<b, 0>>] = <<SelectCompare(b), SelectMove(prog[b].select.t),
                               SelectBranch(b, <<b, 2>>)>>
        /\ code'[<<b, 1>>] = <<SelectMove(prog[b].select.f)>>
        /\ code'[<<b, 2>>] = EndOfBlock(b)
    BY <1>4, EliminatePHIsIs
  <2>3. FreshEnd(b)' BY <2>1, <2>2, <1>1, <1>3 DEF FreshEnd, Split
  <2> QED BY <2>2, <2>3, <1>1, <1>2, <1>3, <1>4 DEF Fresh, Split
<1>5. CASE ~HasSelect(prog, b)
  <2>1. EndBlock(b) = <<b, 0>> BY <1>2, <1>5, EndBlockIs
  <2>2. Whole(b) /\ code'[<<b, 0>>] = EndOfBlock(b) BY <1>5, EliminatePHIsIs
  <2>3. FreshEnd(b)' BY <2>1, <2>2, <1>1, <1>2, <1>3 DEF FreshEnd, Whole
  <2> QED BY <2>2, <2>3, <1>1, <1>2, <1>3, <1>5 DEF Fresh, Whole
<1> QED BY <1>4, <1>5

LEMMA EliminatePHIsFoldCode == TypeInv /\ TypeInv' /\ EliminatePHIs => FoldCode'
<1>1. ASSUME TypeInv, EliminatePHIs PROVE AllFresh'
  <2>1. prog' = prog BY <1>1 DEF EliminatePHIs, input
  <2> QED BY <2>1, <1>1, EliminatePHIsFresh DEF AllFresh
<1>2. TypeInv' /\ AllFresh' => FoldCode' BY FreshFoldCode, PTL
<1> QED BY <1>1, <1>2

-----------------------------------------------------------------------------
(* What the folder may do to the code.                                     *)

(* A step of the folder after which block R[m] is entered instead of m, and *)
(* nothing else changes where control goes.                                *)
Rewires(R) ==
    /\ prog' = prog /\ Placed' \subseteq Placed
    /\ \A m \in Placed :
         /\ R[m] \in Placed' /\ Due(R[m]) = Due(m) /\ (m[2] # 1 => R[m][2] # 1)
         /\ HasSelect(prog, m[1]) => m \in Placed' /\ R[m] = m
    /\ \A m \in Placed' :
         /\ Len(code'[m]) = Len(code[m])
         /\ \A k \in 1 .. Len(code[m]) :
              IF code[m][k].op \in Branches
              THEN code'[m][k] = [code[m][k] EXCEPT !.to = R[code[m][k].to]]
              ELSE code'[m][k] = code[m][k]
         /\ succs'[m] = {R[n] : n \in succs[m]}
         /\ ~EndsInJump(m) /\ ~EndsInReturn(m) => LayoutNext(m)' = R[LayoutNext(m)]

LEMMA SamePoints ==
    ASSUME prog' = prog
    PROVE  /\ \A m : Due(m)' = Due(m)
           /\ \A b : /\ EndBlock(b)' = EndBlock(b) /\ AfterSelect(prog', b) = AfterSelect(prog, b)
                     /\ Taken(b)' = Taken(b) /\ NotTaken(b)' = NotTaken(b)
                     /\ SelectCompare(b)' = SelectCompare(b) /\ EndCompare(b)' = EndCompare(b)
                     /\ \A t : /\ SelectBranch(b, t)' = SelectBranch(b, t)
                               /\ EndBranch(b, t)' = EndBranch(b, t)
<1>1. \A m : Due(m)' = Due(m) BY DEF Due
<1>2. ASSUME NEW b
      PROVE  /\ EndBlock(b)' = EndBlock(b) /\ AfterSelect(prog', b) = AfterSelect(prog, b)
             /\ Taken(b)' = Taken(b) /\ NotTaken(b)' = NotTaken(b)
             /\ SelectCompare(b)' = SelectCompare(b) /\ EndCompare(b)' = EndCompare(b)
             /\ \A t : /\ SelectBranch(b, t)' = SelectBranch(b, t)
                       /\ EndBranch(b, t)' = EndBranch(b, t)
  BY DEF EndBlock, Taken, NotTaken, InvertEnd, SelectCompare, EndCompare, EndCondition,
         SelectBranch, EndBranch
<1> QED BY <1>1, <1>2

\* The instructions of a block after the step.
LEMMA RewiredCode ==
    ASSUME TypeInv, stage = "fold", NEW R, Rewires(R), NEW m \in Placed'
    PROVE  /\ Len(code'[m]) = Len(code[m]) /\ Len(code[m]) \in Nat
           /\ \A k \in 1 .. Len(code[m]) :
                /\ code'[m][k].op = code[m][k].op
                /\ code[m][k].op \in Branches => code'[m][k].to = R[code[m][k].to]
                /\ code[m][k].op \notin Branches => code'[m][k] = code[m][k]
                /\ \A b, t : code[m][k] = SelectBranch(b, t) => code'[m][k] = SelectBranch(b, R[t])
                /\ \A b, t : code[m][k] = EndBranch(b, t) => code'[m][k] = EndBranch(b, R[t])
                /\ \A t : code[m][k] = Jump(t) => code'[m][k] = Jump(R[t])
<1>1. m \in Blocks BY PlacedFacts DEF Rewires
<1>2. code[m] \in Seq(Instrs(MachineOps)) BY <1>1, FoldFacts
<1>3. Len(code[m]) \in Nat BY <1>2, LenProperties
<1>4. Len(code'[m]) = Len(code[m]) BY DEF Rewires
<1>5. ASSUME NEW k \in 1 .. Len(code[m])
      PROVE  /\ code'[m][k].op = code[m][k].op
             /\ code[m][k].op \in Branches => code'[m][k].to = R[code[m][k].to]
             /\ code[m][k].op \notin Branches => code'[m][k] = code[m][k]
             /\ \A b, t : code[m][k] = SelectBranch(b, t) => code'[m][k] = SelectBranch(b, R[t])
             /\ \A b, t : code[m][k] = EndBranch(b, t) => code'[m][k] = EndBranch(b, R[t])
             /\ \A t : code[m][k] = Jump(t) => code'[m][k] = Jump(R[t])
  <2> DEFINE i == code[m][k]
             j == code'[m][k]
  <2>1. i \in [op : MachineOps, l : Operands, r : Operands, to : Blocks \cup {NoBlock}]
    BY <1>2, ElementOfSeq DEF Instrs
  <2>2. IF i.op \in Branches THEN j = [i EXCEPT !.to = R[i.to]] ELSE j = i BY DEF Rewires
  <2> HIDE DEF i, j
  <2>3. j.op = i.op /\ (i.op \in Branches => j.to = R[i.to]) /\ (i.op \notin Branches => j = i)
    BY <2>1, <2>2
  <2>4. \A op, t : op \in Branches /\ i = MI(op, "-", "-", t) => j = MI(op, "-", "-", R[t])
    BY <2>1, <2>2 DEF MI
  <2>5. \A b, t : i = SelectBranch(b, t) => j = SelectBranch(b, R[t])
    <3>1. {"BTs", "BFs"} \subseteq Branches BY DEF Branches, CondBranches
    <3> QED BY <2>4, <3>1 DEF SelectBranch
  <2>6. \A b, t : i = EndBranch(b, t) => j = EndBranch(b, R[t])
    <3>1. {"BTs", "BFs"} \subseteq Branches BY DEF Branches, CondBranches
    <3> QED BY <2>4, <3>1 DEF EndBranch
  <2>7. \A t : i = Jump(t) => j = Jump(R[t])
    <3>1. "Bs" \in Branches BY DEF Branches
    <3> QED BY <2>4, <3>1 DEF Jump
  <2> QED BY <2>3, <2>5, <2>6, <2>7 DEF i, j
<1> QED BY <1>3, <1>4, <1>5

LEMMA RewiredLeads ==
    ASSUME NEW R, Rewires(R), NEW t \in Placed, t[2] # 1
    PROVE  R[t] \in Placed' /\ R[t][2] # 1 /\ Due(R[t])' = Due(t)
BY SamePoints DEF Rewires

LEMMA RewiredContinues ==
    ASSUME TypeInv, stage = "fold", NEW R, Rewires(R), NEW m \in Placed', ~EndsInReturn(m)
    PROVE  Continues(m)' = R[Continues(m)]
<1>1. /\ Len(code'[m]) = Len(code[m]) /\ Len(code[m]) \in Nat
      /\ \A k \in 1 .. Len(code[m]) :
           /\ code'[m][k].op = code[m][k].op
           /\ code[m][k].op \in Branches => code'[m][k].to = R[code[m][k].to]
  BY RewiredCode
<1>2. Len(code[m]) > 0 => Len(code[m]) \in 1 .. Len(code[m]) BY <1>1
<1>3. EndsInJump(m)' <=> EndsInJump(m) BY <1>1, <1>2 DEF EndsInJump
<1>4. CASE EndsInJump(m)
  <2>1. "Bs" \in Branches BY DEF Branches
  <2>2. code'[m][Len(code'[m])].to = R[code[m][Len(code[m])].to]
    BY <2>1, <1>1, <1>2, <1>4 DEF EndsInJump
  <2> QED BY <2>2, <1>3, <1>4 DEF Continues
<1>5. CASE ~EndsInJump(m)
  <2>1. LayoutNext(m)' = R[LayoutNext(m)] BY <1>5 DEF Rewires
  <2> QED BY <2>1, <1>3, <1>5 DEF Continues
<1> QED BY <1>4, <1>5

LEMMA RewiredHead ==
    ASSUME TypeInv, stage = "fold", NEW R, Rewires(R), NEW b \in 1 .. Len(prog),
           HasSelect(prog, b), HeadOK(b)
    PROVE  HeadOK(b)'
<1>1. prog' = prog /\ Blocks' = Blocks /\ Placed' \subseteq Blocks
  BY PlacedFacts, SameFunction DEF Rewires
<1>2. PICK h, c : h = <<b, 0>> /\ c = <<b, 1>> OBVIOUS
<1>3. h[1] = b /\ c[1] = b /\ c[2] = 1 BY <1>2
<1>4. /\ h \in Placed /\ c \in Placed
      /\ Len(code[h]) = 3 /\ code[h][1] = SelectCompare(b)
      /\ code[h][2] = SelectMove(prog[b].select.t)
      /\ LayoutNext(h) = c /\ c \in succs[h]
      /\ Len(code[c]) = 1 /\ code[c][1] = SelectMove(prog[b].select.f)
      /\ LayoutNext(c) = <<b, 2>> /\ succs[c] = {<<b, 2>>}
  BY <1>2 DEF HeadOK
<1>5. PICK t : code[h][3] = SelectBranch(b, t) /\ t \in Placed /\ t[2] # 1 /\ Due(t) = AfterSelect(prog, b)
  BY <1>2 DEF HeadOK, Leads
<1>6. h \in Placed' /\ c \in Placed' /\ R[c] = c BY <1>3, <1>4 DEF Rewires
<1>7. R[<<b, 2>>] = <<b, 2>>
  <2>1. InputOK /\ NoBlock \notin Blocks /\ <<b, 2>> \in Blocks /\ <<b, 2>>[1] = b
    BY PlacedFacts, BlocksAre
  <2>2. <<b, 2>> \in Placed BY <2>1, <1>4, NextIsPlaced
  <2> QED BY <2>1, <2>2 DEF Rewires
<1>8. SelectCompare(b).op \notin Branches
  <2>1. InputOK BY PlacedFacts
  <2>2. SelectCompare(b) \in Instrs(Compares) BY <2>1, SelectCodeIs
  <2>3. SelectCompare(b).op \in Compares BY <2>2 DEF Instrs
  <2> QED BY <2>3 DEF Compares, Branches, CondBranches
<1>9. \A n : SelectMove(n).op \notin Branches
  BY InstructionKinds DEF Branches, CondBranches, SelectMove, MI
<1>10. 1 \in 1 .. 3 /\ 2 \in 1 .. 3 /\ 3 \in 1 .. 3 /\ 1 \in 1 .. 1 OBVIOUS
<1>11. /\ Len(code'[h]) = 3 /\ code'[h][1] = SelectCompare(b)
       /\ code'[h][2] = SelectMove(prog[b].select.t) /\ code'[h][3] = SelectBranch(b, R[t])
  <2>1. /\ Len(code'[h]) = Len(code[h])
        /\ \A k \in 1 .. 3 :
             /\ code[h][k].op \notin Branches => code'[h][k] = code[h][k]
             /\ \A d, u : code[h][k] = SelectBranch(d, u) => code'[h][k] = SelectBranch(d, R[u])
    BY <1>4, <1>6, RewiredCode
  <2> QED BY <2>1, <1>4, <1>5, <1>8, <1>9, <1>10
<1>12. Len(code'[c]) = 1 /\ code'[c][1] = SelectMove(prog[b].select.f)
  BY <1>4, <1>6, <1>9, <1>10, RewiredCode
<1>13. R[t] \in Blocks /\ R[t] \in Placed' /\ R[t][2] # 1 /\ Due(R[t])' = AfterSelect(prog, b)
  BY <1>1, <1>5, RewiredLeads
<1>14. c \in succs'[h] /\ succs'[c] = {<<b, 2>>}
  <2>1. succs'[h] = {R[n] : n \in succs[h]} /\ succs'[c] = {R[n] : n \in succs[c]}
    BY <1>6 DEF Rewires
  <2> QED BY <2>1, <1>4, <1>6, <1>7
<1>15. LayoutNext(h)' = c /\ LayoutNext(c)' = <<b, 2>>
  <2>1. ~EndsInJump(h) /\ ~EndsInReturn(h) /\ ~EndsInJump(c) /\ ~EndsInReturn(c)
    BY <1>2, EndsWithHead
  <2> QED BY <2>1, <1>4, <1>6, <1>7 DEF Rewires
<1>16. /\ SelectCompare(b)' = SelectCompare(b)
       /\ \A u : SelectBranch(b, u)' = SelectBranch(b, u)
  BY <1>1, SamePoints
<1>17. \E u \in Blocks' : code'[h][3] = SelectBranch(b, u)' /\ u \in Placed' /\ u[2] # 1
                          /\ Due(u)' = AfterSelect(prog', b)
  BY <1>1, <1>11, <1>13, <1>16
<1> QED BY <1>1, <1>2, <1>4, <1>6, <1>11, <1>12, <1>14, <1>15, <1>16, <1>17 DEF HeadOK, Leads

LEMMA EndCompareIs ==
    ASSUME InputOK, NEW b \in 1 .. Len(prog), Len(prog[b].next) = 2
    PROVE  EndCondition(b) \in Conditions /\ EndCompare(b).op \in Compares
           /\ EndCompare(b).op \notin Branches
<1>1. /\ prog[b].cond.cc \in Conditions
      /\ prog[b].cond.l \in Operands /\ prog[b].cond.r \in Operands
  BY FunctionIs DEF Operands
<1>2. EndCondition(b) \in Conditions BY <1>1 DEF EndCondition, Inverted, Conditions
<1>3. EndCompare(b) \in Instrs(Compares) BY <1>1, <1>2, CompareIs DEF EndCompare
<1>4. EndCompare(b).op \in Compares BY <1>3 DEF Instrs
<1> QED BY <1>2, <1>4 DEF Compares, Branches, CondBranches

LEMMA RewiredEnd ==
    ASSUME TypeInv, stage = "fold", NEW R, Rewires(R), NEW b \in 1 .. Len(prog),
           NEW e \in Placed', EndOK(b, e)
    PROVE  EndOK(b, e)'
<1>1. /\ prog' = prog /\ Blocks' = Blocks /\ Placed \subseteq Blocks /\ Placed' \subseteq Blocks
      /\ EndCompare(b)' = EndCompare(b) /\ Taken(b)' = Taken(b) /\ NotTaken(b)' = NotTaken(b)
      /\ \A t : EndBranch(b, t)' = EndBranch(b, t)
  BY PlacedFacts, SamePoints, SameFunction DEF Rewires
<1>2. /\ Len(code'[e]) = Len(code[e]) /\ Len(code[e]) \in Nat
      /\ \A k \in 1 .. Len(code[e]) :
           /\ code[e][k].op \notin Branches => code'[e][k] = code[e][k]
           /\ \A t : code[e][k] = EndBranch(b, t) => code'[e][k] = EndBranch(b, R[t])
           /\ \A t : code[e][k] = Jump(t) =>
                /\ code'[e][k] = Jump(R[t]) /\ code'[e][k].to = R[t]
  BY RewiredCode, InstructionKinds
<1>3. 1 \in 1 .. 1 /\ 1 \in 1 .. 2 /\ 2 \in 1 .. 2 /\ 1 \in 1 .. 3 /\ 2 \in 1 .. 3 /\ 3 \in 1 .. 3
  OBVIOUS
<1>4. succs'[e] = {R[n] : n \in succs[e]} BY DEF Rewires
<1>5. \A t \in Placed : t[2] # 1 =>
        R[t] \in Blocks /\ R[t] \in Placed' /\ R[t][2] # 1 /\ Due(R[t])' = Due(t)
  BY <1>1, RewiredLeads
<1>6. ~EndsInReturn(e) => Continues(e)' = R[Continues(e)] BY RewiredContinues
<1>7. ASSUME ReturnOK(b, e) PROVE ReturnOK(b, e)'
  <2>1. Len(code[e]) = 1 /\ code[e][1] = MI("RET", "-", "-", NoBlock) /\ succs[e] = {}
    BY <1>7 DEF ReturnOK
  <2>2. code[e][1].op \notin Branches BY <2>1, InstructionKinds DEF Branches
  <2>3. Len(code'[e]) = 1 /\ code'[e][1] = MI("RET", "-", "-", NoBlock) BY <2>1, <2>2, <1>2, <1>3
  <2>4. succs'[e] = {} BY <2>1, <1>4
  <2> QED BY <2>3, <2>4 DEF ReturnOK
<1>8. ASSUME JumpOK(b, e) PROVE JumpOK(b, e)'
  <2>1. Len(code[e]) = 0 \/ (Len(code[e]) = 1 /\ \E t : code[e][1] = Jump(t)) BY <1>8 DEF JumpOK
  <2>2. PICK t : /\ Continues(e) = t /\ succs[e] = {t}
                 /\ t \in Placed /\ t[2] # 1 /\ Due(t) = Enter(prog)[prog[b].next[1]]
    BY <1>8 DEF JumpOK, Leads
  <2>3. ~EndsInReturn(e) /\ (EndsInJump(e) <=> Len(code[e]) \in {1, 3}) BY <1>8, EndsWithEnd
  <2>4. Continues(e)' = R[t] BY <2>2, <2>3, <1>6
  <2>5. succs'[e] = {R[t]} BY <2>2, <1>4
  <2>6. /\ R[t] \in Blocks /\ R[t] \in Placed' /\ R[t][2] # 1
        /\ Due(R[t])' = Enter(prog)[prog[b].next[1]]
    BY <2>2, <1>5
  <2>7. Len(code[e]) = 1 => code'[e][1] = Jump(R[t])
    <3> SUFFICES ASSUME Len(code[e]) = 1 PROVE code'[e][1] = Jump(R[t]) OBVIOUS
    <3>1. PICK u : code[e][1] = Jump(u) BY <2>1
    <3>2. code[e][1].to = u BY <3>1, InstructionKinds
    <3>3. u = t BY <3>2, <2>2, <2>3 DEF Continues
    <3> QED BY <3>1, <3>3, <1>2, <1>3
  <2>8. \E u \in Blocks' : /\ Continues(e)' = u /\ succs'[e] = {u}
                           /\ u \in Placed' /\ u[2] # 1 /\ Due(u)' = Enter(prog')[prog'[b].next[1]]
    BY <2>4, <2>5, <2>6, <1>1
  <2>9. Len(code'[e]) = 0 \/ (Len(code'[e]) = 1 /\ \E u \in Blocks' : code'[e][1] = Jump(u))
    BY <2>1, <2>6, <2>7, <1>1, <1>2
  <2> QED BY <2>8, <2>9 DEF JumpOK, Leads
<1>9. ASSUME BranchOK(b, e), Len(prog[b].next) = 2 PROVE BranchOK(b, e)'
  <2>1. /\ Len(code[e]) = 2 \/ (Len(code[e]) = 3 /\ \E t : code[e][3] = Jump(t))
        /\ code[e][1] = EndCompare(b)
    BY <1>9 DEF BranchOK
  <2>2. PICK t, n : /\ code[e][2] = EndBranch(b, t) /\ Continues(e) = n /\ succs[e] = {t, n}
                    /\ t \in Placed /\ t[2] # 1 /\ Due(t) = Enter(prog)[Taken(b)]
                    /\ n \in Placed /\ n[2] # 1 /\ Due(n) = Enter(prog)[NotTaken(b)]
    BY <1>9 DEF BranchOK, Leads
  <2>3. ~EndsInReturn(e) /\ (EndsInJump(e) <=> Len(code[e]) \in {1, 3}) BY <1>9, EndsWithEnd
  <2>4. Continues(e)' = R[n] BY <2>2, <2>3, <1>6
  <2>5. succs'[e] = {R[t], R[n]} BY <2>2, <1>4
  <2>6. /\ R[t] \in Blocks /\ R[t] \in Placed' /\ R[t][2] # 1
        /\ Due(R[t])' = Enter(prog)[Taken(b)]
        /\ R[n] \in Blocks /\ R[n] \in Placed' /\ R[n][2] # 1
        /\ Due(R[n])' = Enter(prog)[NotTaken(b)]
    BY <2>2, <1>5
  <2>7. Len(code[e]) = 3 => code'[e][3] = Jump(R[n])
    <3> SUFFICES ASSUME Len(code[e]) = 3 PROVE code'[e][3] = Jump(R[n]) OBVIOUS
    <3>1. PICK u : code[e][3] = Jump(u) BY <2>1
    <3>2. code[e][3].to = u BY <3>1, InstructionKinds
    <3>3. u = n BY <3>2, <2>2, <2>3 DEF Continues
    <3> QED BY <3>1, <3>3, <1>2, <1>3
  <2>8. EndCompare(b).op \notin Branches
    <3>1. InputOK BY PlacedFacts
    <3> QED BY <3>1, <1>9, EndCompareIs
  <2>9. 1 \in 1 .. Len(code[e]) /\ 2 \in 1 .. Len(code[e])
    <3>1. Len(code[e]) = 2 \/ Len(code[e]) = 3 BY <2>1
    <3> QED BY <3>1
  <2>10. code'[e][1] = EndCompare(b)' BY <2>1, <2>8, <2>9, <1>1, <1>2
  <2>11. code'[e][2] = EndBranch(b, R[t])' BY <2>2, <2>9, <1>1, <1>2
  <2>12. Len(code'[e]) = 2 \/ (Len(code'[e]) = 3 /\ \E u \in Blocks' : code'[e][3] = Jump(u))
    BY <2>1, <2>6, <2>7, <1>1, <1>2
  <2>13. \E u \in Blocks', v \in Blocks' :
           /\ code'[e][2] = EndBranch(b, u)' /\ Continues(e)' = v /\ succs'[e] = {u, v}
           /\ u \in Placed' /\ u[2] # 1 /\ Due(u)' = Enter(prog')[Taken(b)']
           /\ v \in Placed' /\ v[2] # 1 /\ Due(v)' = Enter(prog')[NotTaken(b)']
    BY <2>4, <2>5, <2>6, <2>11, <1>1
  <2> QED BY <2>10, <2>12, <2>13 DEF BranchOK, Leads
<1> QED BY <1>1, <1>7, <1>8, <1>9 DEF EndOK

LEMMA RewiredFoldCode ==
    ASSUME TypeInv, stage = "fold", FoldCode, NEW R, Rewires(R)
    PROVE  FoldCode'
<1>1. prog' = prog /\ Placed' \subseteq Placed BY DEF Rewires
<1>2. \A b : EndBlock(b)' = EndBlock(b) BY <1>1, SamePoints
<1>3. \A b \in 1 .. Len(prog) : HasSelect(prog, b) => HeadOK(b)' BY RewiredHead DEF FoldCode
<1>4. \A b \in 1 .. Len(prog) : \A e \in Placed' : e = EndBlock(b) => EndOK(b, e)'
  BY <1>1, RewiredEnd DEF FoldCode
<1>5. \A m \in Placed' : m[2] = 0 \/ HasSelect(prog, m[1]) BY <1>1 DEF FoldCode
<1> QED BY <1>1, <1>2, <1>3, <1>4, <1>5 DEF FoldCode

-----------------------------------------------------------------------------
(* The steps of the folder.                                                *)

LEMMA SameFoldCode ==
    ASSUME FoldCode, prog' = prog, layout' = layout, code' = code, succs' = succs
    PROVE  FoldCode'
<1>1. /\ \A m : Due(m)' = Due(m)
      /\ \A b : /\ EndBlock(b)' = EndBlock(b) /\ AfterSelect(prog', b) = AfterSelect(prog, b)
                /\ Taken(b)' = Taken(b) /\ NotTaken(b)' = NotTaken(b)
                /\ SelectCompare(b)' = SelectCompare(b) /\ EndCompare(b)' = EndCompare(b)
                /\ \A t : /\ SelectBranch(b, t)' = SelectBranch(b, t)
                          /\ EndBranch(b, t)' = EndBranch(b, t)
  BY SamePoints
<1>2. Placed' = Placed /\ (\A m : LayoutNext(m)' = LayoutNext(m)) /\ Blocks' = Blocks
  BY LayoutNextIs, SameFunction DEF Placed
<1>3. \A m : Continues(m)' = Continues(m) BY <1>2 DEF Continues, EndsInJump
<1>4. \A b : HeadOK(b) => HeadOK(b)' BY <1>1, <1>2 DEF HeadOK, Leads
<1>5. \A b, e : ReturnOK(b, e) => ReturnOK(b, e)' BY DEF ReturnOK
<1>6. \A b, e : JumpOK(b, e) => JumpOK(b, e)' BY <1>1, <1>2, <1>3 DEF JumpOK, Leads
<1>7. \A b, e : BranchOK(b, e) => BranchOK(b, e)' BY <1>1, <1>2, <1>3 DEF BranchOK, Leads
<1>8. \A b, e : EndOK(b, e) => EndOK(b, e)' BY <1>5, <1>6, <1>7 DEF EndOK
<1> QED BY <1>1, <1>2, <1>4, <1>8 DEF FoldCode

\* Blocks may be put in another order if open ones keep what is behind them.
LEMMA ReorderedFoldCode ==
    ASSUME TypeInv, stage = "fold", FoldCode, prog' = prog, code' = code, succs' = succs,
           Placed' = Placed,
           \A m \in Placed : CanFallThrough(m) => LayoutNext(m)' = LayoutNext(m)
    PROVE  FoldCode'
<1> DEFINE R == [m \in Blocks |-> m]
<1>1. Placed \subseteq Blocks BY PlacedFacts
<1>2. \A m \in Blocks : R[m] = m OBVIOUS
<1> HIDE DEF R
<1>3. ASSUME NEW m \in Placed
      PROVE  /\ Len(code'[m]) = Len(code[m])
             /\ \A k \in 1 .. Len(code[m]) :
                  IF code[m][k].op \in Branches
                  THEN code'[m][k] = [code[m][k] EXCEPT !.to = R[code[m][k].to]]
                  ELSE code'[m][k] = code[m][k]
             /\ succs'[m] = {R[n] : n \in succs[m]}
             /\ ~EndsInJump(m) /\ ~EndsInReturn(m) => LayoutNext(m)' = R[LayoutNext(m)]
  <2>1. m \in Blocks /\ code[m] \in Seq(Instrs(MachineOps)) /\ succs[m] \subseteq Blocks
    BY <1>1, FoldFacts
  <2>2. ASSUME NEW k \in 1 .. Len(code[m]), code[m][k].op \in Branches
        PROVE  code'[m][k] = [code[m][k] EXCEPT !.to = R[code[m][k].to]]
    <3>1. code[m][k] \in Instrs(MachineOps) BY <2>1, ElementOfSeq
    <3>2. \A i \in Instrs(MachineOps) : i.op \in Branches => i.to \in Blocks /\ i = [i EXCEPT !.to = i.to]
      BY DEF Instrs
    <3> QED BY <3>1, <3>2, <2>2, <1>2
  <2>3. succs'[m] = {R[n] : n \in succs[m]}
    <3>1. \A n \in succs[m] : R[n] = n BY <2>1, <1>2
    <3> QED BY <3>1
  <2>4. ASSUME ~EndsInJump(m), ~EndsInReturn(m) PROVE LayoutNext(m)' = R[LayoutNext(m)]
    <3>1. CanFallThrough(m) /\ LayoutNext(m) \in Placed BY <2>4, OpenFalls
    <3> QED BY <3>1, <1>1, <1>2
  <2> QED BY <2>2, <2>3, <2>4
<1>4. \A m \in Placed : R[m] = m BY <1>1, <1>2
<1>5. Rewires(R) BY <1>3, <1>4 DEF Rewires
<1> QED BY <1>5, RewiredFoldCode

LEMMA MoveFoldCode ==
    ASSUME ~AllowInserts, TypeInv, FoldCode, MoveAfterPredecessor
    PROVE  FoldCode'
<1>1. stage = "fold" /\ prog' = prog /\ succs' = succs BY DEF MoveAfterPredecessor, input
<1>2. PICK i \in 2 .. Len(layout), j \in 1 .. Len(layout) :
        /\ layout[j] # layout[i]
        /\ ~CanFallThrough(layout[i - 1]) /\ ~CanFallThrough(layout[j]) /\ ~CanFallThrough(layout[i])
        /\ layout' = InsertAt(RemoveAt(layout, i), IF j < i THEN j + 1 ELSE j, layout[i])
        /\ code' = [code EXCEPT ![layout[i]] = code[layout[i]]]
  BY DEF MoveAfterPredecessor, InsertBranch
<1>3. /\ layout \in Seq(Blocks) /\ IsInjective(layout) /\ Len(layout) \in Nat \ {0}
      /\ \A k \in 1 .. Len(layout) : layout[k] \in Blocks
      /\ code \in [Blocks -> Seq(Instrs(MachineOps))]
  BY <1>1, FoldFacts
<1>4. code' = code BY <1>2, <1>3
<1> DEFINE m == layout[i]
           rest == RemoveAt(layout, i)
           p == IF j < i THEN j + 1 ELSE j
<1>5. rest \in Seq(Blocks) /\ Removed(rest, layout, i) BY <1>3, BehindRemoveAt
<1>6. /\ Len(rest) = Len(layout) - 1 /\ IsInjective(rest)
      /\ \A k \in 1 .. Len(rest) : rest[k] # m /\ \E n \in 1 .. Len(layout) : rest[k] = layout[n]
      /\ \A n \in 1 .. Len(layout) : n # i => \E k \in 1 .. Len(rest) : rest[k] = layout[n]
      /\ \A none : \A n \in 1 .. Len(layout) : n \notin {i - 1, i} =>
           Behind(rest, none, layout[n]) = Behind(layout, none, layout[n])
  BY <1>5 DEF Removed
<1>7. j # i /\ p \in 2 .. Len(rest) + 1
  <2>1. j # i BY <1>2
  <2> QED BY <2>1, <1>3, <1>6
<1>8. rest[p - 1] = layout[j]
  <2>1. \A k \in 1 .. Len(layout) - 1 : rest[k] = IF k < i THEN layout[k] ELSE layout[k + 1]
    <3>1. i \in 1 .. Len(layout) BY <1>3
    <3> QED BY <3>1, <1>3, RemoveAtProperties
  <2> HIDE DEF rest
  <2>2. CASE j < i
    <3>1. p - 1 = j /\ j \in 1 .. Len(layout) - 1 BY <2>2, <1>3
    <3> QED BY <3>1, <2>1, <2>2
  <2>3. CASE j > i
    <3>1. p - 1 = j - 1 /\ j - 1 \in 1 .. Len(layout) - 1 /\ ~(j - 1 < i) /\ (j - 1) + 1 = j
      BY <2>3, <1>3
    <3> QED BY <3>1, <2>1
  <2>4. j < i \/ j > i BY <1>7
  <2> QED BY <2>2, <2>3, <2>4
<1>9. m \in Blocks BY <1>3
<1>10. layout' = InsertAt(rest, p, m) BY <1>2
<1> HIDE DEF m, rest, p
<1>11. layout' \in Seq(Blocks) /\ Inserted(layout', rest, p, m)
  BY <1>5, <1>6, <1>7, <1>9, <1>10, BehindInsertAt
<1>12. /\ \A k \in 1 .. Len(layout') : layout'[k] = m \/ \E n \in 1 .. Len(rest) : layout'[k] = rest[n]
       /\ \E k \in 1 .. Len(layout') : layout'[k] = m
       /\ \A n \in 1 .. Len(rest) : \E k \in 1 .. Len(layout') : layout'[k] = rest[n]
       /\ \A none : \A n \in 1 .. Len(rest) : n # p - 1 =>
            Behind(layout', none, rest[n]) = Behind(rest, none, rest[n])
  BY <1>11 DEF Inserted
<1>13. /\ \A x : x \in Placed <=> \E n \in 1 .. Len(layout) : layout[n] = x
       /\ \A x : x \in Placed' <=> \E n \in 1 .. Len(layout') : layout'[n] = x
  BY <1>3, <1>11, PlacedIs, PlacedIsPrimed
<1>14. i \in 1 .. Len(layout) /\ i - 1 \in 1 .. Len(layout) BY <1>3
<1>15. Placed' = Placed
  <2>1. m \in Placed BY <1>13, <1>14 DEF m
  <2>2. ASSUME NEW x \in Placed' PROVE x \in Placed
    <3>1. PICK k \in 1 .. Len(layout') : layout'[k] = x BY <1>13
    <3>2. x = m \/ \E n \in 1 .. Len(rest) : x = rest[n] BY <3>1, <1>12
    <3>3. ASSUME NEW n \in 1 .. Len(rest) PROVE rest[n] \in Placed
      <4>1. PICK o \in 1 .. Len(layout) : rest[n] = layout[o] BY <1>6
      <4> QED BY <4>1, <1>13
    <3> QED BY <3>2, <3>3, <2>1
  <2>3. ASSUME NEW x \in Placed PROVE x \in Placed'
    <3>1. PICK n \in 1 .. Len(layout) : layout[n] = x BY <1>13
    <3>2. CASE n = i BY <3>1, <3>2, <1>12, <1>13 DEF m
    <3>3. CASE n # i
      <4>1. PICK k \in 1 .. Len(rest) : rest[k] = x BY <3>1, <3>3, <1>6
      <4>2. PICK o \in 1 .. Len(layout') : layout'[o] = x BY <4>1, <1>12
      <4> QED BY <4>2, <1>13
    <3> QED BY <3>2, <3>3
  <2> QED BY <2>2, <2>3
<1>16. ASSUME NEW x \in Placed, CanFallThrough(x) PROVE LayoutNext(x)' = LayoutNext(x)
  <2>1. PICK n \in 1 .. Len(layout) : layout[n] = x BY <1>13
  <2>2. n # i /\ n # i - 1 /\ n # j BY <2>1, <1>2, <1>16
  <2>3. PICK k \in 1 .. Len(rest) : rest[k] = x BY <2>1, <2>2, <1>6
  <2>4. k # p - 1 BY <2>1, <2>3, <1>2, <1>8, <1>16
  <2>5. Behind(layout', NoBlock, x) = Behind(rest, NoBlock, x) BY <2>3, <2>4, <1>12
  <2>6. Behind(rest, NoBlock, x) = Behind(layout, NoBlock, x) BY <2>1, <2>2, <1>6
  <2> QED BY <2>5, <2>6, LayoutNextIs
<1> QED BY <1>1, <1>4, <1>15, <1>16, ReorderedFoldCode

\* Only branches name a block.
LEMMA PlainNamesNone ==
    ASSUME TypeInv, FoldCode, NEW m \in Placed, NEW k \in 1 .. Len(code[m]),
           code[m][k].op \notin Branches
    PROVE  code[m][k].to = NoBlock
<1> DEFINE b == m[1]
<1>1. InputOK /\ b \in 1 .. Len(prog) BY PlacedFacts
<1>2. /\ \A t : SelectBranch(b, t).op \in Branches /\ EndBranch(b, t).op \in Branches
      /\ \A t : Jump(t).op \in Branches
  BY InstructionKinds DEF Branches
<1>3. /\ SelectCompare(b).to = NoBlock /\ EndCompare(b).to = NoBlock
      /\ \A n : SelectMove(n).to = NoBlock
      /\ MI("RET", "-", "-", NoBlock).to = NoBlock
  BY DEF SelectCompare, EndCompare, EmitCMP, SelectMove, MI
<1>4. CASE HeadOK(b) /\ m = <<b, 0>>
  <2>1. /\ Len(code[m]) = 3 /\ code[m][1] = SelectCompare(b)
        /\ code[m][2] = SelectMove(prog[b].select.t) /\ \E t : code[m][3] = SelectBranch(b, t)
    BY <1>4 DEF HeadOK
  <2>2. k = 1 \/ k = 2 \/ k = 3 BY <2>1
  <2> HIDE DEF b
  <2>3. k # 3 BY <2>1, <1>2
  <2> QED BY <2>1, <2>2, <2>3, <1>3
<1>5. CASE HeadOK(b) /\ m = <<b, 1>>
  <2>1. Len(code[m]) = 1 /\ code[m][1] = SelectMove(prog[b].select.f) BY <1>5 DEF HeadOK
  <2>2. k = 1 BY <2>1
  <2> QED BY <2>1, <2>2, <1>3
<1>6. CASE EndOK(b, m)
  <2>1. ReturnOK(b, m) \/ JumpOK(b, m) \/ BranchOK(b, m) BY <1>1, <1>6, EndCases
  <2> HIDE DEF b
  <2>2. CASE ReturnOK(b, m)
    <3>1. Len(code[m]) = 1 /\ code[m][1] = MI("RET", "-", "-", NoBlock) BY <2>2 DEF ReturnOK
    <3>2. k = 1 BY <3>1
    <3> QED BY <3>1, <3>2, <1>3
  <2>3. CASE JumpOK(b, m)
    <3>1. Len(code[m]) = 0 \/ (Len(code[m]) = 1 /\ \E t : code[m][1] = Jump(t))
      BY <2>3 DEF JumpOK
    <3>2. k = 1 /\ \E t : code[m][1] = Jump(t) BY <3>1
    <3> QED BY <3>2, <1>2
  <2>4. CASE BranchOK(b, m)
    <3>1. /\ Len(code[m]) = 2 \/ (Len(code[m]) = 3 /\ \E t : code[m][3] = Jump(t))
          /\ code[m][1] = EndCompare(b) /\ \E t : code[m][2] = EndBranch(b, t)
      BY <2>4 DEF BranchOK
    <3>2. k = 1 \/ k = 2 \/ (k = 3 /\ \E t : code[m][3] = Jump(t)) BY <3>1
    <3>3. k = 1 BY <3>1, <3>2, <1>2
    <3> QED BY <3>1, <3>3, <1>3
  <2> QED BY <2>1, <2>2, <2>3, <2>4
<1> QED BY <1>4, <1>5, <1>6, ShapeIs

\* A block that is nothing but a jump.
LEMMA JumpBlockIs ==
    ASSUME TypeInv, FoldCode, NEW m \in Placed, Len(code[m]) = 1, code[m][1].op = "Bs"
    PROVE  /\ m[1] \in 1 .. Len(prog) /\ m = EndBlock(m[1]) /\ m[2] # 1
           /\ code[m][1].to \in Placed /\ code[m][1].to[2] # 1 /\ Due(code[m][1].to) = Due(m)
           /\ EndsInJump(m)
<1> DEFINE b == m[1]
<1>1. InputOK /\ b \in 1 .. Len(prog) BY PlacedFacts
<1>2. EndsInJump(m) BY DEF EndsInJump
<1>3. ~HeadOK(b) \/ (m # <<b, 0>> /\ m # <<b, 1>>) BY <1>2, EndsWithHead
<1>4. m = EndBlock(b) /\ EndOK(b, m) BY <1>3, ShapeIs
<1>5. ~ReturnOK(b, m) BY <1>2, EndsWithEnd
<1>6. ~BranchOK(b, m) BY DEF BranchOK
<1>7. Len(prog[b].next) = 1 BY <1>1, <1>4, <1>5, <1>6, EndCases DEF EndOK
<1>8. JumpOK(b, m) BY <1>4, <1>7 DEF EndOK
<1>9. Continues(m) = code[m][1].to BY <1>2 DEF Continues
<1>10. /\ code[m][1].to \in Placed /\ code[m][1].to[2] # 1
       /\ Due(code[m][1].to) = Enter(prog)[prog[b].next[1]]
  BY <1>8, <1>9 DEF JumpOK, Leads
<1>11. Due(EndBlock(b)) = Enter(prog)[prog[b].next[1]] BY <1>1, <1>7, DueAtEnd
<1>12. m[2] # 1 BY <1>1, <1>4, EndBlockIs
<1> QED BY <1>1, <1>2, <1>4, <1>10, <1>11, <1>12

LEMMA PredecessorIs ==
    ASSUME TypeInv, stage = "fold", NEW x \in Placed, NEW i \in 2 .. Len(layout),
           LayoutNext(x) = layout[i]
    PROVE  x = layout[i - 1]
<1>1. /\ layout \in Seq(Blocks) /\ IsInjective(layout) /\ Len(layout) \in Nat \ {0}
      /\ \A k \in 1 .. Len(layout) : layout[k] \in Blocks
  BY FoldFacts
<1>2. NoBlock \notin Blocks BY FoldFacts, BlocksAre
<1>3. PICK k \in 1 .. Len(layout) : layout[k] = x BY <1>1, PlacedIs
<1>4. LayoutNext(x) = IF k < Len(layout) THEN layout[k + 1] ELSE NoBlock
  BY <1>1, <1>3, BehindAt, LayoutNextIs
<1>5. i \in 1 .. Len(layout) /\ i \in Nat /\ k \in Nat BY <1>1
<1>6. k < Len(layout) /\ layout[k + 1] = layout[i] BY <1>1, <1>2, <1>4, <1>5
<1>7. k + 1 \in 1 .. Len(layout) BY <1>1, <1>6
<1>8. k + 1 = i
  <2>1. DOMAIN layout = 1 .. Len(layout) BY <1>1, LenProperties
  <2> QED BY <2>1, <1>1, <1>5, <1>6, <1>7 DEF IsInjective
<1>9. k = i - 1 BY <1>5, <1>8
<1> QED BY <1>3, <1>9

LEMMA ForwardFoldCode ==
    ASSUME ~AllowInserts, TypeInv, FoldCode, ForwardAcrossBlock
    PROVE  FoldCode'
<1>1. stage = "fold" /\ prog' = prog BY DEF ForwardAcrossBlock, input
<1> DEFINE Was(i, n) ==
             IF n = layout[i] THEN RemoveBranch(code[layout[i]])
             ELSE IF n = layout[i - 1] /\ CanFallThrough(layout[i - 1])
             THEN RemoveBranch(code[layout[i - 1]]) ELSE code[n]
           Left(i, n) == IF n = layout[i] THEN RemoveBranch(code[layout[i]]) ELSE code[n]
<1>2a. PICK i \in 2 .. Len(layout) :
        /\ Len(code[layout[i]]) = 1 /\ code[layout[i]][1].op = "Bs"
        /\ code[layout[i]][1].to # layout[i]
        /\ ~CanFallThrough(layout[i - 1])
        /\ layout' = RemoveAt(layout, i)
        /\ succs' = [n \in Blocks |->
              IF layout[i] \in succs[n] THEN (succs[n] \ {layout[i]}) \cup {code[layout[i]][1].to}
                                        ELSE succs[n]]
        /\ code' = [n \in Blocks |-> Redirect(Was(i, n), layout[i], code[layout[i]][1].to)]
  BY DEF ForwardAcrossBlock, InsertBranch, Redirect
<1>2b. \A n : Was(i, n) = Left(i, n) BY <1>2a
<1>2. /\ Len(code[layout[i]]) = 1 /\ code[layout[i]][1].op = "Bs"
      /\ code[layout[i]][1].to # layout[i]
      /\ ~CanFallThrough(layout[i - 1])
      /\ layout' = RemoveAt(layout, i)
      /\ succs' = [n \in Blocks |->
            IF layout[i] \in succs[n] THEN (succs[n] \ {layout[i]}) \cup {code[layout[i]][1].to}
                                      ELSE succs[n]]
      /\ code' = [n \in Blocks |->
            Redirect(Left(i, n), layout[i], code[layout[i]][1].to)]
  <2> HIDE DEF Was, Left
  <2> QED BY <1>2a, <1>2b
<1> DEFINE m == layout[i]
           prev == layout[i - 1]
           to == code[m][1].to
           R == [x \in Blocks |-> IF x = m THEN to ELSE x]
<1>3. /\ InputOK /\ layout \in Seq(Blocks) /\ IsInjective(layout) /\ Len(layout) \in Nat \ {0}
      /\ \A k \in 1 .. Len(layout) : layout[k] \in Blocks
      /\ \A n \in Blocks : code[n] \in Seq(Instrs(MachineOps)) /\ succs[n] \subseteq Blocks
  BY <1>1, FoldFacts
<1>4. m \in Placed /\ Placed \subseteq Blocks
  <2>1. i \in 1 .. Len(layout) BY <1>3
  <2> QED BY <2>1, <1>3, PlacedIs, PlacedFacts
<1>5. /\ m[1] \in 1 .. Len(prog) /\ m = EndBlock(m[1]) /\ m[2] # 1
      /\ to \in Placed /\ to[2] # 1 /\ Due(to) = Due(m) /\ EndsInJump(m)
  BY <1>2, <1>4, JumpBlockIs
<1>6. layout' \in Seq(Blocks) /\ Removed(layout', layout, i) BY <1>2, <1>3, BehindRemoveAt
<1>7. to # m /\ ~CanFallThrough(prev) BY <1>2
<1>8. code' = [n \in Blocks |-> Redirect(IF n = m THEN RemoveBranch(code[m]) ELSE code[n], m, to)]
  BY <1>2
<1>9. succs' = [n \in Blocks |-> IF m \in succs[n] THEN (succs[n] \ {m}) \cup {to} ELSE succs[n]]
  BY <1>2
<1>10. \A x \in Placed : LayoutNext(x) = m => x = prev BY <1>1, PredecessorIs
<1>11. /\ \A k \in 1 .. Len(layout') : layout'[k] # m /\ \E j \in 1 .. Len(layout) : layout'[k] = layout[j]
       /\ \A j \in 1 .. Len(layout) : layout[j] # m => \E k \in 1 .. Len(layout') : layout'[k] = layout[j]
       /\ \A j \in 1 .. Len(layout) : layout[j] # m /\ layout[j] # prev =>
            Behind(layout', NoBlock, layout[j]) = Behind(layout, NoBlock, layout[j])
  BY <1>6 DEF Removed
<1> HIDE DEF m, prev, to
<1>12. /\ \A x : x \in Placed <=> \E n \in 1 .. Len(layout) : layout[n] = x
       /\ \A x : x \in Placed' <=> \E n \in 1 .. Len(layout') : layout'[n] = x
  BY <1>3, <1>6, PlacedIs, PlacedIsPrimed
<1>13. \A x \in Placed' : x \in Placed /\ x # m BY <1>11, <1>12
<1>14. \A x \in Placed : x # m => x \in Placed' BY <1>11, <1>12
<1>15. \A x \in Blocks : R[x] = IF x = m THEN to ELSE x OBVIOUS
<1> HIDE DEF R
<1>16. ~HasSelect(prog, m[1])
  <2> SUFFICES ASSUME HasSelect(prog, m[1]) PROVE FALSE OBVIOUS
  <2>1. m = <<m[1], 2>> BY <1>3, <1>5, EndBlockIs
  <2>2. HeadOK(m[1]) BY <1>5 DEF FoldCode
  <2>3. PICK c : c = <<m[1], 1>> OBVIOUS
  <2>4. c \in Placed /\ LayoutNext(c) = m BY <2>1, <2>2, <2>3 DEF HeadOK
  <2>5. ~EndsInJump(c) /\ ~EndsInReturn(c) BY <2>2, <2>3, EndsWithHead
  <2>6. CanFallThrough(c) BY <2>4, <2>5, <1>1, OpenFalls
  <2> QED BY <2>4, <2>6, <1>7, <1>10
<1>17. ASSUME NEW x \in Placed
       PROVE  /\ R[x] \in Placed' /\ Due(R[x]) = Due(x) /\ (x[2] # 1 => R[x][2] # 1)
              /\ HasSelect(prog, x[1]) => x \in Placed' /\ R[x] = x
  <2>1. x \in Blocks BY <1>4
  <2>2. CASE x = m BY <2>1, <2>2, <1>5, <1>7, <1>14, <1>15, <1>16
  <2>3. CASE x # m BY <2>1, <2>3, <1>14, <1>15
  <2> QED BY <2>2, <2>3
<1>18. ASSUME NEW x \in Placed'
       PROVE  /\ Len(code'[x]) = Len(code[x])
              /\ \A k \in 1 .. Len(code[x]) :
                   IF code[x][k].op \in Branches
                   THEN code'[x][k] = [code[x][k] EXCEPT !.to = R[code[x][k].to]]
                   ELSE code'[x][k] = code[x][k]
              /\ succs'[x] = {R[n] : n \in succs[x]}
              /\ ~EndsInJump(x) /\ ~EndsInReturn(x) => LayoutNext(x)' = R[LayoutNext(x)]
  <2>1. x \in Placed /\ x # m /\ x \in Blocks /\ m \in Blocks /\ to \in Blocks
    BY <1>4, <1>5, <1>13
  <2>2. code[x] \in Seq(Instrs(MachineOps)) /\ succs[x] \subseteq Blocks BY <2>1, <1>3
  <2>3. code'[x] = Redirect(code[x], m, to) BY <2>1, <1>8
  <2>4. /\ Len(code'[x]) = Len(code[x])
        /\ \A k \in 1 .. Len(code[x]) :
             /\ code[x][k].to = m => code'[x][k] = [code[x][k] EXCEPT !.to = to]
             /\ code[x][k].to # m => code'[x][k] = code[x][k]
    BY <2>1, <2>2, <2>3, RedirectIs
  <2>5. ASSUME NEW k \in 1 .. Len(code[x]), code[x][k].op \in Branches
        PROVE  code'[x][k] = [code[x][k] EXCEPT !.to = R[code[x][k].to]]
    <3>1. code[x][k] \in Instrs(MachineOps) BY <2>2, ElementOfSeq
    <3>2. \A j \in Instrs(MachineOps) : j.op \in Branches => j.to \in Blocks /\ j = [j EXCEPT !.to = j.to]
      BY DEF Instrs
    <3>3. code[x][k].to \in Blocks /\ code[x][k] = [code[x][k] EXCEPT !.to = code[x][k].to]
      BY <3>1, <3>2, <2>5
    <3>4. R[code[x][k].to] = IF code[x][k].to = m THEN to ELSE code[x][k].to BY <3>3, <1>15
    <3> QED BY <3>3, <3>4, <2>4
  <2>6. ASSUME NEW k \in 1 .. Len(code[x]), code[x][k].op \notin Branches
        PROVE  code'[x][k] = code[x][k]
    <3>1. code[x][k].to = NoBlock BY <2>1, <2>6, PlainNamesNone
    <3>2. m # NoBlock BY <1>4, PlacedFacts
    <3> QED BY <3>1, <3>2, <2>4
  <2>7. succs'[x] = {R[n] : n \in succs[x]}
    <3>1. succs'[x] = IF m \in succs[x] THEN (succs[x] \ {m}) \cup {to} ELSE succs[x]
      BY <2>1, <1>9
    <3>2. \A n \in succs[x] : R[n] = IF n = m THEN to ELSE n BY <2>2, <1>15
    <3> QED BY <3>1, <3>2
  <2>8. ASSUME ~EndsInJump(x), ~EndsInReturn(x) PROVE LayoutNext(x)' = R[LayoutNext(x)]
    <3>1. CanFallThrough(x) /\ LayoutNext(x) \in Placed BY <2>1, <2>8, <1>1, OpenFalls
    <3>2. x # prev BY <3>1, <1>7
    <3>3. LayoutNext(x) # m BY <3>2, <2>1, <1>10
    <3>4. R[LayoutNext(x)] = LayoutNext(x) BY <3>1, <3>3, <1>4, <1>15
    <3>5. Behind(layout', NoBlock, x) = Behind(layout, NoBlock, x) BY <3>2, <2>1, <1>11, <1>12
    <3> QED BY <3>4, <3>5, LayoutNextIs
  <2> QED BY <2>4, <2>5, <2>6, <2>7, <2>8
<1>19. Placed' \subseteq Placed BY <1>13
<1>20. Rewires(R) BY <1>1, <1>17, <1>18, <1>19 DEF Rewires
<1> QED BY <1>1, <1>20, RewiredFoldCode

\* AnalyzeBranch only drops a jump to the block it would fall into.
\* AnalyzeBranch drops the jump to the block behind: the block falls into it.
LEMMA DropJumpFoldCode ==
    ASSUME TypeInv, FoldCode, stage = "fold",
           prog' = prog, layout' = layout, succs' = succs,
           NEW m \in Placed, EndsInJump(m), code[m][Len(code[m])].to = LayoutNext(m),
           NEW after, after = SubSeq(code[m], 1, Len(code[m]) - 1),
           Len(code[m]) > 0, code' = [code EXCEPT ![m] = after]
    PROVE  FoldCode'
<1> DEFINE b == m[1]
           cs == code[m]
<1>0. /\ layout \in Seq(Blocks) /\ m \in Blocks /\ cs \in Seq(Instrs(MachineOps))
      /\ code \in [Blocks -> Seq(Instrs(MachineOps))] /\ Len(cs) > 0
  BY FoldFacts, PlacedFacts, LenProperties, EmptySeq DEF EndsInJump
<1>1. Len(cs) \in Nat /\ Len(cs) - 1 \in 0 .. Len(cs)
  <2>1. Len(cs) \in Nat BY <1>0, LenProperties
  <2> QED BY <2>1
<1>2. /\ Len(after) = Len(cs) - 1
      /\ \A k \in 1 .. Len(cs) - 1 : after[k] = cs[k]
  BY <1>1, <1>0, PrefixIs
<1>3. code'[m] = after /\ \A n \in Blocks : n # m => code'[n] = code[n] BY <1>0
<1>4. /\ Placed' = Placed /\ (\A n : LayoutNext(n)' = LayoutNext(n)) /\ Blocks' = Blocks
      /\ Placed \subseteq Blocks
  BY LayoutNextIs, SameFunction, PlacedFacts DEF Placed
<1>5. InputOK /\ b \in 1 .. Len(prog) BY PlacedFacts
<1>6. ~HeadOK(b) \/ (m # <<b, 0>> /\ m # <<b, 1>>) BY EndsWithHead
<1>7. m = EndBlock(b) /\ EndOK(b, m) BY <1>6, ShapeIs
<1>8. ~ReturnOK(b, m) BY EndsWithEnd
<1>9. Continues(m) = LayoutNext(m) BY DEF Continues
<1> HIDE DEF b
<1>10. ASSUME JumpOK(b, m) PROVE JumpOK(b, m)'
  <2>1. Len(cs) = 1 BY <1>1, <1>10 DEF JumpOK
  <2>2. Len(code'[m]) = 0 BY <2>1, <1>2, <1>3
  <2>3. Continues(m)' = Continues(m) BY <2>2, <1>4, <1>9 DEF Continues, EndsInJump
  <2> QED BY <2>2, <2>3, <1>4, <1>10, SamePoints DEF JumpOK, Leads
<1>11. ASSUME BranchOK(b, m) PROVE BranchOK(b, m)'
  <2>1. Len(cs) = 3 BY <1>11, EndsWithEnd DEF BranchOK
  <2>2. 1 \in 1 .. 3 - 1 /\ 2 \in 1 .. 3 - 1 OBVIOUS
  <2>3. Len(code'[m]) = 2 /\ code'[m][1] = code[m][1] /\ code'[m][2] = code[m][2]
    BY <2>1, <2>2, <1>2, <1>3
  <2>4. code[m][2].op # "Bs"
    <3>1. \E t : code[m][2] = EndBranch(b, t) BY <1>11 DEF BranchOK
    <3> QED BY <3>1, InstructionKinds
  <2>5. Continues(m)' = Continues(m) BY <2>3, <2>4, <1>4, <1>9 DEF Continues, EndsInJump
  <2> QED BY <2>3, <2>5, <1>4, <1>11, SamePoints DEF BranchOK, Leads
<1>12. EndOK(b, m)' BY <1>7, <1>8, <1>10, <1>11 DEF EndOK
<1>13. \A n \in Placed : n # m => code'[n] = code[n] /\ Continues(n)' = Continues(n)
  BY <1>3, <1>4 DEF Continues, EndsInJump
<1>14. ASSUME NEW a, NEW e \in Placed, e # m, EndOK(a, e) PROVE EndOK(a, e)'
  <2>1. ReturnOK(a, e) => ReturnOK(a, e)' BY <1>13, <1>14 DEF ReturnOK
  <2>2. JumpOK(a, e) => JumpOK(a, e)'
    BY <1>4, <1>13, <1>14, SamePoints DEF JumpOK, Leads
  <2>3. BranchOK(a, e) => BranchOK(a, e)'
    BY <1>4, <1>13, <1>14, SamePoints DEF BranchOK, Leads
  <2> QED BY <2>1, <2>2, <2>3, <1>14 DEF EndOK
<1>15. ASSUME NEW a, HeadOK(a) PROVE HeadOK(a)'
  <2>1. PICK h, c : h = <<a, 0>> /\ c = <<a, 1>> OBVIOUS
  <2>2. h \in Placed /\ c \in Placed BY <2>1, <1>15 DEF HeadOK
  <2>3. ~EndsInJump(h) /\ ~EndsInJump(c) BY <2>1, <1>15, EndsWithHead
  <2>4. code'[h] = code[h] /\ code'[c] = code[c] BY <2>2, <2>3, <1>13
  <2> QED BY <2>1, <2>4, <1>4, <1>15, SamePoints DEF HeadOK, Leads
<1>16. \A a : EndBlock(a)' = EndBlock(a) BY SamePoints
<1>17. ASSUME NEW a \in 1 .. Len(prog), NEW e \in Placed, e = EndBlock(a) PROVE EndOK(a, e)'
  <2>1. EndOK(a, e) BY <1>17 DEF FoldCode
  <2>2. CASE e # m BY <2>1, <2>2, <1>14
  <2>3. CASE e = m
    <3>1. EndBlock(a)[1] = a BY <1>5, EndBlockIs
    <3>2. EndBlock(b)[1] = b BY <1>5, EndBlockIs
    <3>3. a = b BY <3>1, <3>2, <2>3, <1>7, <1>17
    <3> QED BY <3>3, <2>3, <1>12
  <2> QED BY <2>2, <2>3
<1> QED BY <1>4, <1>15, <1>16, <1>17 DEF FoldCode

LEMMA AnalyzeFoldCode ==
    ASSUME TypeInv, FoldCode, AnalyzeForFolding
    PROVE  FoldCode'
<1>1. stage = "fold" /\ prog' = prog /\ layout' = layout /\ succs' = succs
  BY DEF AnalyzeForFolding, input
<1>2. PICK i \in 1 .. Len(layout) :
        code' = [code EXCEPT ![layout[i]] = AnalyzeBranch(layout[i], TRUE).after]
  BY DEF AnalyzeForFolding
<1> DEFINE m == layout[i]
           cs == code[m]
           after == AnalyzeBranch(m, TRUE).after
<1>3. /\ layout \in Seq(Blocks) /\ m \in Blocks /\ cs \in Seq(Instrs(MachineOps))
      /\ code \in [Blocks -> Seq(Instrs(MachineOps))]
  BY <1>1, FoldFacts
<1>4. m \in Placed BY <1>3, PlacedIs
<1>5. \/ after = cs
      \/ /\ EndsInJump(m) /\ cs[Len(cs)].to = LayoutNext(m)
         /\ Len(cs) > 0 /\ after = SubSeq(cs, 1, Len(cs) - 1)
  BY <1>1, <1>4, AnalysisIs
<1>6. code' = [code EXCEPT ![m] = after] BY <1>2
<1> HIDE DEF m, after
<1>7. CASE after = cs
  <2>1. code' = code BY <1>3, <1>6, <1>7
  <2> QED BY <2>1, <1>1, SameFoldCode
<1>8. CASE EndsInJump(m) /\ cs[Len(cs)].to = LayoutNext(m)
           /\ Len(cs) > 0 /\ after = SubSeq(cs, 1, Len(cs) - 1)
  BY <1>1, <1>4, <1>6, <1>8, DropJumpFoldCode
<1> QED BY <1>5, <1>7, <1>8

LEMMA FoldInvStep ==
    ~AllowInserts /\ TypeInv /\ TypeInv' /\ FoldInv /\ [Next]_vars => FoldInv'
<1> SUFFICES ASSUME ~AllowInserts, TypeInv, TypeInv', FoldInv, [Next]_vars PROVE FoldInv'
  OBVIOUS
<1> DEFINE after == {"fold", "run", "returned", "lost"}
<1>1. CASE UNCHANGED vars \/ StartRun \/ Execute
  <2>1. /\ prog' = prog /\ layout' = layout /\ code' = code /\ succs' = succs
        /\ stage' \in after => stage \in after
    BY <1>1 DEF vars, StartRun, Execute, Compare, Move, ConditionalBranch, UnconditionalBranch,
                FallThrough, Return, Executing, Goto, input
  <2> QED BY <2>1, SameFoldCode DEF FoldInv
<1>2. CASE InstructionSelection \/ EmitInstrWithCustomInserter \/ ExpandISelPseudosDone
  <2>1. stage' \in {"insert", "phis"}
    BY <1>2 DEF InstructionSelection, EmitInstrWithCustomInserter, ExpandISelPseudosDone
  <2> QED BY <2>1 DEF FoldInv
<1>3. CASE EliminatePHIs BY <1>3, EliminatePHIsFoldCode DEF FoldInv
<1>4. CASE AnalyzeForFolding
  <2>1. stage = "fold" BY <1>4 DEF AnalyzeForFolding
  <2> QED BY <2>1, <1>4, AnalyzeFoldCode DEF FoldInv
<1>5. CASE ForwardAcrossBlock
  <2>1. stage = "fold" BY <1>5 DEF ForwardAcrossBlock
  <2> QED BY <2>1, <1>5, ForwardFoldCode DEF FoldInv
<1>6. CASE MoveAfterPredecessor
  <2>1. stage = "fold" BY <1>6 DEF MoveAfterPredecessor
  <2> QED BY <2>1, <1>6, MoveFoldCode DEF FoldInv
<1> QED BY <1>1, <1>2, <1>3, <1>4, <1>5, <1>6 DEF Next, Compile

(* Where the folder never needs InsertBranch, no order of its steps ever   *)
(* loses a branch: every block ends in the code its part of the function   *)
(* asks for, and its branches and the block behind it lead there.          *)
THEOREM FoldInvHolds ==
    ASSUME ~AllowInserts
    PROVE  Spec => []FoldInv
<1>1. Init => FoldInv BY DEF Init, FoldInv
<1>2. TypeInv /\ TypeInv' /\ FoldInv /\ [Next]_vars => FoldInv' BY FoldInvStep
<1> QED BY <1>1, <1>2, TypeInvHolds, PTL DEF Spec

(* Then AnalyzeBranch never lies: a block it does not give up on has one    *)
(* successor, and it is the one AnalyzeBranch reports.                     *)
THEOREM AnalysisIsTrue ==
    ASSUME ~AllowInserts
    PROVE  Spec => []AnalysisTrue
BY FoldInvHolds, TypeInvHolds, FoldInvTruth, PTL

-----------------------------------------------------------------------------
(* The machine.                                                            *)


SelectHolds(b) ==
    Holds(prog[b].select.cc, arg[prog[b].select.l], arg[prog[b].select.r])
EndHolds(b) ==
    Holds(EndCondition(b), Operand(prog[b].cond.l), Operand(prog[b].cond.r))

\* What the machine knows in front of each instruction of machine block h.
HeadRuns(h) ==
    LET s == prog[h[1]].select
    IN /\ pc \in {2, 3} => ((psw <=> s.cc \in OnTrue) <=> SelectHolds(h[1]))
       /\ pc = 3 => z = arg[s.t]
       /\ pc = 4 => ~SelectHolds(h[1])
ArmRuns(h) ==
    /\ ~SelectHolds(h[1])
    /\ pc = 2 => z = arg[prog[h[1]].select.f]
EndRuns(h) ==
    /\ pc = 2 => ((psw <=> EndCondition(h[1]) \in OnTrue) <=> EndHolds(h[1]))
    /\ pc = 3 => ~EndHolds(h[1])
    /\ pc > 1 => pc <= 3 /\ Len(prog[h[1]].next) = 2
Runs(h) ==
    /\ h[2] = 0 /\ HasSelect(prog, h[1]) => HeadRuns(h)
    /\ h[2] = 1 => ArmRuns(h)
    /\ h = EndBlock(h[1]) => EndRuns(h)

RunInv ==
    /\ stage = "run" => \E h \in Placed : here = h /\ Runs(h)
    /\ stage # "lost"

-----------------------------------------------------------------------------
(* The steps of the machine.                                               *)

\* Control enters machine block t.
Enters(t) == t # NoBlock => stage' = "run" /\ here' = t /\ pc' = 1
\* Control goes on in machine block h.
Advances(h, k) == stage' = "run" /\ here' = h /\ pc' = k + 1

LEMMA GotoIs ==
    ASSUME stage = "run", NEW t, Goto(t)
    PROVE  Enters(t)
BY DEF Goto, Enters

LEMMA KindsDiffer ==
    /\ Compares \cap {"MOV", "BTs", "BFs", "Bs", "RET"} = {}
    /\ CondBranches = {"BTs", "BFs"}
BY DEF Compares, CondBranches

\* What the next instruction, the k-th of machine block h, does.
LEMMA ExecuteIs ==
    ASSUME stage = "run", Execute, NEW h, here = h, NEW k \in Nat, pc = k,
           NEW i, code[h][k] = i, Len(code[h]) \in Nat
    PROVE  /\ prog' = prog /\ arg' = arg /\ layout' = layout /\ code' = code /\ succs' = succs
           /\ k > Len(code[h]) => z' = z /\ Enters(LayoutNext(h))
           /\ k <= Len(code[h]) =>
                /\ i.op \in Compares =>
                     /\ Advances(h, k) /\ z' = z
                     /\ psw' = CmpResult(i.op, Operand(i.l), Operand(i.r))
                /\ i.op = "MOV" => Advances(h, k) /\ psw' = psw /\ z' = Operand(i.l)
                /\ i.op \in CondBranches =>
                     /\ z' = z /\ psw' = psw
                     /\ IF psw = (i.op = "BTs") THEN Enters(i.to) ELSE Advances(h, k)
                /\ i.op = "Bs" => z' = z /\ Enters(i.to)
                /\ i.op = "RET" => stage' = "returned" /\ here' = h /\ z' = z
<1>1. Instruction = i BY DEF Instruction
<1>2. CASE Compare
  BY <1>1, <1>2, KindsDiffer DEF Compare, Executing, Advances, input
<1>3. CASE Move
  BY <1>1, <1>3, KindsDiffer DEF Move, Executing, Advances, input
<1>4. CASE ConditionalBranch
  <2>1. /\ prog' = prog /\ arg' = arg /\ layout' = layout /\ code' = code /\ succs' = succs
        /\ z' = z /\ psw' = psw /\ k <= Len(code[h]) /\ i.op \in CondBranches
        /\ IF psw = (i.op = "BTs") THEN Goto(i.to)
           ELSE pc' = k + 1 /\ stage' = stage /\ here' = here
    BY <1>1, <1>4 DEF ConditionalBranch, Executing, input
  <2>2. IF psw = (i.op = "BTs") THEN Enters(i.to) ELSE Advances(h, k)
    BY <2>1, GotoIs DEF Advances
  <2> QED BY <2>1, <2>2, KindsDiffer
<1>5. CASE UnconditionalBranch
  <2>1. /\ prog' = prog /\ arg' = arg /\ layout' = layout /\ code' = code /\ succs' = succs
        /\ z' = z /\ k <= Len(code[h]) /\ i.op = "Bs" /\ Goto(i.to)
    BY <1>1, <1>5 DEF UnconditionalBranch, Executing, input
  <2>2. Enters(i.to) BY <2>1, GotoIs
  <2> QED BY <2>1, <2>2, KindsDiffer
<1>6. CASE FallThrough
  <2>1. /\ prog' = prog /\ arg' = arg /\ layout' = layout /\ code' = code /\ succs' = succs
        /\ z' = z /\ k > Len(code[h]) /\ Goto(LayoutNext(h))
    BY <1>6 DEF FallThrough, input
  <2>2. Enters(LayoutNext(h)) BY <2>1, GotoIs
  <2> QED BY <2>1, <2>2
<1>7. CASE Return
  <2>1. /\ prog' = prog /\ arg' = arg /\ layout' = layout /\ code' = code /\ succs' = succs
        /\ z' = z /\ k <= Len(code[h]) /\ i.op = "RET" /\ stage' = "returned" /\ here' = h
    BY <1>1, <1>7 DEF Return, Executing, input, machine
  <2> QED BY <2>1, KindsDiffer
<1> QED BY <1>2, <1>3, <1>4, <1>5, <1>6, <1>7 DEF Execute

\* A comparison that is lowered soundly leaves its condition in the T flag.
LEMMA CompareHolds ==
    ASSUME NEW cc \in Conditions, NEW l, NEW r, Sound(cc, l),
           Operand(l) \in Word \cup {Undef}, Operand(r) \in Word \cup {Undef},
           NEW i, i = EmitCMP(cc, l, r)
    PROVE  /\ i.op \in Compares
           /\ (CmpResult(i.op, Operand(i.l), Operand(i.r)) <=> cc \in OnTrue)
                <=> Holds(cc, Operand(l), Operand(r))
<1> DEFINE a == Operand(l)
           b == Operand(r)
           op == CmpCode[cc]
<1>1. op \in Compares BY DEF Conditions, CmpCode, Compares
<1>2. i.op = op /\ ((i.l = l /\ i.r = r) \/ (l \in Consts /\ i.l = r /\ i.r = l))
  BY DEF EmitCMP, MI
<1>3. (CmpResult(op, a, b) <=> cc \in OnTrue) <=> Holds(cc, a, b)
  <2>1. cc \in Conditions \ {"SETUGT"} BY DEF Sound
  <2> QED BY <2>1, ComparisonsSound
<1>4. l \in Consts => (CmpResult(op, b, a) <=> CmpResult(op, a, b))
  <2>1. l \in Consts => op = "CMPEQ" BY DEF Sound, CmpCode
  <2>2. CmpResult("CMPEQ", b, a) <=> CmpResult("CMPEQ", a, b) BY DEF CmpResult
  <2> QED BY <2>1, <2>2
<1> HIDE DEF a, b, op
<1>5. \/ i.l = l /\ i.r = r /\ Operand(i.l) = a /\ Operand(i.r) = b
      \/ l \in Consts /\ i.l = r /\ i.r = l /\ Operand(i.l) = b /\ Operand(i.r) = a
  BY <1>2 DEF a, b
<1>6. CmpResult(i.op, Operand(i.l), Operand(i.r)) <=> CmpResult(op, a, b)
  BY <1>2, <1>4, <1>5
<1> QED BY <1>1, <1>2, <1>3, <1>6 DEF a, b

\* The conditions of a block are words and conditions.
LEMMA ConditionsOf ==
    ASSUME InputOK, LoweredSoundly(prog), NEW b \in 1 .. Len(prog)
    PROVE  LET s == prog[b].select  c == prog[b].cond
           IN /\ HasSelect(prog, b) =>
                   /\ s.cc \in Conditions /\ Sound(s.cc, s.l)
                   /\ s.l \in Names /\ s.r \in Names /\ s.t \in Names /\ s.f \in Names
              /\ Len(prog[b].next) = 2 =>
                   /\ c.cc \in Conditions
                   /\ c.l \in Names \cup {"z"} /\ c.r \in Names \cup {"z"}
                   /\ EndCondition(b) \in Conditions /\ Sound(EndCondition(b), c.l)
<1>1. \A cc \in Conditions : Inverted[cc] \in Conditions BY DEF Inverted, Conditions
<1>2. HasSelect(prog, b) => Sound(prog[b].select.cc, prog[b].select.l) BY DEF LoweredSoundly
<1>3. Len(prog[b].next) = 2 => Sound(EndCondition(b), prog[b].cond.l)
  BY DEF LoweredSoundly, EndCondition, InvertEnd
<1>4. Len(prog[b].next) = 2 => EndCondition(b) \in Conditions
  BY <1>1, FunctionIs DEF EndCondition
<1> QED BY <1>2, <1>3, <1>4, FunctionIs

LEMMA OperandIs ==
    ASSUME TypeInv
    PROVE  /\ \A n \in Names : Operand(n) = arg[n] /\ Operand(n) \in Word
           /\ \A n \in Names \cup {"z"} : Operand(n) \in Word \cup {Undef}
BY DEF TypeInv, InputOK, Operand, Names

\* Where the machine is, the step that is due.
LEMMA PointIs ==
    ASSUME stage = "run", NEW h, here = h
    PROVE  PointNow = Due(h)
BY DEF PointNow, Due

LEMMA PointIsPrimed ==
    ASSUME prog' = prog, stage' = "run", NEW h, here' = h
    PROVE  PointNow' = Due(h)
BY DEF PointNow, Due

\* Entering a block that is neither the arm of a select whose condition holds.
LEMMA EntersRunInv ==
    ASSUME prog' = prog, arg' = arg, layout' = layout, NoBlock \notin Placed,
           NEW t \in Placed, Enters(t), t[2] # 1 \/ ~SelectHolds(t[1])
    PROVE  RunInv' /\ PointNow' = Due(t)
<1>1. stage' = "run" /\ here' = t /\ pc' = 1 BY DEF Enters
<1>2. PointNow' = Due(t) BY <1>1, PointIsPrimed
<1>3. SelectHolds(t[1])' <=> SelectHolds(t[1]) BY DEF SelectHolds
<1>4. HeadRuns(t)' /\ EndRuns(t)' BY <1>1 DEF HeadRuns, EndRuns
<1>5. t[2] = 1 => ArmRuns(t)' BY <1>1, <1>3 DEF ArmRuns
<1>6. Runs(t)' BY <1>4, <1>5 DEF Runs
<1>7. t \in Placed' BY DEF Placed
<1> QED BY <1>1, <1>2, <1>6, <1>7 DEF RunInv

-----------------------------------------------------------------------------
(* The steps of KudeyarCFG.                                                *)

LEMMA SameCFG ==
    /\ \A p : CFG!Enter(p) = Enter(p)
    /\ \A p, b : CFG!AfterSelect(p, b) = AfterSelect(p, b)
    /\ \A cc, a, b : CFG!Holds(cc, a, b) <=> Holds(cc, a, b)
    /\ CFG!Undef = Undef /\ CFG!Word = Word /\ CFG!Names = Names
BY DEF CFG!Enter, Enter, CFG!Ends, Ends, CFG!JumpBlocks, JumpBlocks, CFG!HasSelect, HasSelect,
       CFG!NoSelect, NoSelect, CFG!AfterSelect, AfterSelect, CFG!Holds, Holds,
       CFG!Signed, Signed, CFG!Undef, Undef, CFG!Word, Word, CFG!Names, Names

\* The register z as KudeyarCFG sees it.
Shown(p, v) == IF p[2] = "select" THEN Undef ELSE v

LEMMA CFGStutter ==
    ASSUME prog' = prog, arg' = arg, NEW p, PointNow = p, PointNow' = p,
           z' = z \/ p[2] = "select"
    PROVE  UNCHANGED CFG!vars
BY DEF CFG!vars

LEMMA CFGSelect ==
    ASSUME prog' = prog, arg' = arg, NEW b, PointNow = <<b, "select">>,
           PointNow' = AfterSelect(prog, b),
           z' = IF SelectHolds(b) THEN arg[prog[b].select.t] ELSE arg[prog[b].select.f]
    PROVE  CFG!Next
BY SameCFG DEF CFG!Next, CFG!Select, CFG!Goto, SelectHolds

\* A branch takes effect on the block it leads to.
LEMMA CFGBranch ==
    ASSUME InputOK, LoweredSoundly(prog), z \in Word \cup {Undef},
           prog' = prog, arg' = arg, z' = z,
           NEW b \in 1 .. Len(prog), Len(prog[b].next) = 2, PointNow = <<b, "end">>,
           PointNow' = Enter(prog)[IF EndHolds(b) THEN Taken(b) ELSE NotTaken(b)]
    PROVE  CFG!Next
<1> DEFINE c == prog[b].cond
           n == prog[b].next
           v == Operand(c.l)
           w == Operand(c.r)
<1>1. c.cc \in Conditions /\ c.l \in Names \cup {"z"} /\ c.r \in Names \cup {"z"}
  BY FunctionIs
<1>2. v \in Word \cup {Undef} /\ w \in Word \cup {Undef} BY <1>1 DEF InputOK, Operand, Names
<1>3. EndHolds(b) <=> (IF InvertEnd(b) THEN ~Holds(c.cc, v, w) ELSE Holds(c.cc, v, w))
  BY <1>1, <1>2, InvertedSound DEF EndHolds, EndCondition
<1>4. (IF EndHolds(b) THEN Taken(b) ELSE NotTaken(b))
        = (IF Holds(c.cc, v, w) THEN n[1] ELSE n[2])
  BY <1>3 DEF Taken, NotTaken
<1>5. PointNow[1] = b /\ PointNow[2] = "end" BY Zenon
<1>6. CFG!Value(c.l) = v /\ CFG!Value(c.r) = w BY <1>5 DEF CFG!Value, Operand
<1>7. PointNow' = Enter(prog)[IF Holds(c.cc, v, w) THEN n[1] ELSE n[2]] BY <1>4
<1> HIDE DEF v, w
<1>8. CFG!Branch
  BY <1>5, <1>6, <1>7, SameCFG DEF CFG!Branch, CFG!Goto
<1> QED BY <1>8 DEF CFG!Next

LEMMA CFGReturn ==
    ASSUME prog' = prog, arg' = arg, z' = z,
           NEW b, Len(prog[b].next) = 0, PointNow = <<b, "end">>, PointNow' = <<b, "returned">>
    PROVE  CFG!Next
BY DEF CFG!Next, CFG!Return

-----------------------------------------------------------------------------
(* What a step of the machine does in each kind of block.                  *)

Follows == CFG!Next \/ UNCHANGED CFG!vars
Running == TypeInv /\ FoldCode /\ RunInv /\ stage = "run" /\ LoweredSoundly(prog)

LEMMA RunningIs ==
    ASSUME Running, NEW h, here = h
    PROVE  /\ h \in Placed /\ h \in Blocks /\ Runs(h) /\ PointNow = Due(h)
           /\ h[1] \in 1 .. Len(prog) /\ InputOK /\ NoBlock \notin Placed
           /\ z \in Word \cup {Undef} /\ psw \in BOOLEAN
           /\ pc \in Nat \ {0} /\ pc \in 1 .. Len(code[h]) + 1 /\ Len(code[h]) \in Nat
<1>1. h \in Placed /\ Runs(h) BY DEF Running, RunInv
<1>2. h \in Blocks /\ h[1] \in 1 .. Len(prog) /\ InputOK /\ NoBlock \notin Placed
  BY <1>1, PlacedFacts DEF Running
<1>3. PointNow = Due(h) BY PointIs DEF Running
<1> QED BY <1>1, <1>2, <1>3, RunFacts DEF Running

\* Going on in a block whose next instruction is known to be right.
LEMMA AdvancesRunInv ==
    ASSUME prog' = prog, layout' = layout, NEW h \in Placed, NEW k, Advances(h, k), Runs(h)'
    PROVE  RunInv' /\ PointNow' = Due(h) /\ pc' = k + 1
<1>1. stage' = "run" /\ here' = h /\ pc' = k + 1 BY DEF Advances
<1>2. PointNow' = Due(h) BY <1>1, PointIsPrimed
<1>3. h \in Placed' BY DEF Placed
<1> QED BY <1>1, <1>2, <1>3 DEF RunInv

\* In the head of a diamond.
LEMMA HeadStep ==
    ASSUME Running, Execute, NEW b, HasSelect(prog, b), HeadOK(b), NEW h, h = <<b, 0>>, here = h
    PROVE  RunInv' /\ Follows
<1> DEFINE s == prog[b].select
<1>1. /\ h \in Placed /\ h \in Blocks /\ Runs(h) /\ PointNow = Due(h) /\ InputOK
      /\ NoBlock \notin Placed /\ z \in Word \cup {Undef} /\ psw \in BOOLEAN
      /\ h[1] = b /\ h[2] = 0 /\ b \in 1 .. Len(prog)
  BY RunningIs
<1>2. PointNow = <<b, "select">> /\ Due(h) = <<b, "select">> BY <1>1, DueAtSelect
<1>3. /\ Len(code[h]) = 3 /\ code[h][1] = SelectCompare(b)
      /\ code[h][2] = SelectMove(s.t) /\ LayoutNext(h) = <<b, 1>> /\ <<b, 1>> \in Placed
  BY DEF HeadOK
<1>4. PICK t \in Blocks : code[h][3] = SelectBranch(b, t) /\ Leads(t, AfterSelect(prog, b))
  BY DEF HeadOK
<1>5. pc = 1 \/ pc = 2 \/ pc = 3 \/ pc = 4
  <2>1. \A k \in 1 .. 3 + 1 : k = 1 \/ k = 2 \/ k = 3 \/ k = 4 OBVIOUS
  <2> QED BY <2>1, <1>3, RunningIs
<1>6. h # EndBlock(h[1]) BY <1>1, EndBlockIs
<1>7. HeadRuns(h) BY <1>1 DEF Runs
<1>8. /\ s.cc \in Conditions /\ Sound(s.cc, s.l)
      /\ s.l \in Names /\ s.r \in Names /\ s.t \in Names /\ s.f \in Names
  BY <1>1, ConditionsOf DEF Running
<1>9. /\ prog' = prog /\ arg' = arg /\ layout' = layout
      /\ SelectHolds(b)' = SelectHolds(b) /\ EndBlock(b)' = EndBlock(b)
  <2>1. prog' = prog /\ arg' = arg /\ layout' = layout
    BY <1>1, <1>3, ExecuteIs, RunningIs DEF Running
  <2> QED BY <2>1, SamePoints DEF SelectHolds
<1>10. ASSUME HeadRuns(h)' PROVE Runs(h)' BY <1>10, <1>1, <1>6, <1>9 DEF Runs
<1>11. CASE pc = 1
  <2>1. PICK i : i = code[h][1] OBVIOUS
  <2>2. Operand(s.l) \in Word /\ Operand(s.r) \in Word BY <1>8, OperandIs DEF Running
  <2>3. /\ i.op \in Compares
        /\ (CmpResult(i.op, Operand(i.l), Operand(i.r)) <=> s.cc \in OnTrue)
             <=> Holds(s.cc, Operand(s.l), Operand(s.r))
    <3>1. i = EmitCMP(s.cc, s.l, s.r) BY <2>1, <1>3 DEF SelectCompare
    <3> QED BY <3>1, <2>2, <1>8, CompareHolds
  <2>4. Operand(s.l) = arg[s.l] /\ Operand(s.r) = arg[s.r] BY <1>8, OperandIs DEF Running
  <2>5. Advances(h, 1) /\ psw' = CmpResult(i.op, Operand(i.l), Operand(i.r))
    BY <2>1, <2>3, <1>3, <1>11, ExecuteIs DEF Running
  <2>6. ((psw' <=> s.cc \in OnTrue) <=> SelectHolds(b))
    BY <2>3, <2>4, <2>5 DEF SelectHolds
  <2>7. HeadRuns(h)' BY <2>5, <2>6, <1>1, <1>9 DEF HeadRuns, Advances
  <2>8. RunInv' /\ PointNow' = Due(h) BY <2>5, <2>7, <1>1, <1>9, <1>10, AdvancesRunInv
  <2> QED BY <2>8, <1>1, <1>2, <1>9, CFGStutter DEF Follows
<1>12. CASE pc = 2
  <2>1. PICK i : i = code[h][2] OBVIOUS
  <2>2. i.op = "MOV" /\ i.l = s.t BY <2>1, <1>3 DEF SelectMove, MI
  <2>3. Advances(h, 2) /\ psw' = psw /\ z' = Operand(s.t)
    BY <2>1, <2>2, <1>3, <1>12, ExecuteIs DEF Running
  <2>4. z' = arg[s.t] BY <2>3, <1>8, OperandIs DEF Running
  <2>5. HeadRuns(h)' BY <2>3, <2>4, <1>1, <1>7, <1>9, <1>12 DEF HeadRuns, Advances
  <2>6. RunInv' /\ PointNow' = Due(h) BY <2>3, <2>5, <1>1, <1>9, <1>10, AdvancesRunInv
  <2> QED BY <2>6, <1>1, <1>2, <1>9, CFGStutter DEF Follows
<1>13. CASE pc = 3
  <2>1. PICK i : i = code[h][3] OBVIOUS
  <2>2. i = MI(IF s.cc \in OnTrue THEN "BTs" ELSE "BFs", "-", "-", t)
    BY <2>1, <1>4 DEF SelectBranch
  <2>3. i.op \in CondBranches /\ i.to = t BY <2>2 DEF MI, CondBranches
  <2>4. (psw = (i.op = "BTs")) <=> SelectHolds(b)
    <3>1. (i.op = "BTs") <=> s.cc \in OnTrue BY <2>2 DEF MI
    <3>2. (psw <=> s.cc \in OnTrue) <=> SelectHolds(b) BY <1>1, <1>7, <1>13 DEF HeadRuns
    <3> QED BY <3>1, <3>2, <1>1
  <2>5. /\ z' = z /\ psw' = psw
        /\ IF psw = (i.op = "BTs") THEN Enters(t) ELSE Advances(h, 3)
    BY <2>1, <2>3, <1>3, <1>13, ExecuteIs DEF Running
  <2>6. CASE SelectHolds(b)
    <3>1. Enters(t) /\ t \in Placed /\ t[2] # 1 /\ Due(t) = AfterSelect(prog, b)
      BY <2>4, <2>5, <2>6, <1>4 DEF Leads
    <3>2. RunInv' /\ PointNow' = AfterSelect(prog, b) BY <3>1, <1>1, <1>9, EntersRunInv
    <3>3. z' = arg[s.t] BY <2>5, <1>1, <1>7, <1>13 DEF HeadRuns
    <3> QED BY <3>2, <3>3, <2>6, <1>1, <1>2, <1>9, CFGSelect DEF Follows
  <2>7. CASE ~SelectHolds(b)
    <3>1. Advances(h, 3) BY <2>4, <2>5, <2>7
    <3>2. HeadRuns(h)' BY <3>1, <2>7, <1>1, <1>9 DEF HeadRuns, Advances
    <3>3. RunInv' /\ PointNow' = Due(h) BY <3>1, <3>2, <1>1, <1>9, <1>10, AdvancesRunInv
    <3> QED BY <3>3, <1>1, <1>2, <1>9, CFGStutter DEF Follows
  <2> QED BY <2>6, <2>7
<1>14. CASE pc = 4
  <2>1. PICK i : i = code[h][4] OBVIOUS
  <2>2. z' = z /\ Enters(<<b, 1>>) BY <2>1, <1>3, <1>14, ExecuteIs DEF Running
  <2>3. <<b, 1>>[1] = b /\ <<b, 1>>[2] = 1 OBVIOUS
  <2>4. ~SelectHolds(b) BY <1>1, <1>7, <1>14 DEF HeadRuns
  <2>5. RunInv' /\ PointNow' = Due(<<b, 1>>)
    BY <2>2, <2>3, <2>4, <1>1, <1>3, <1>9, EntersRunInv
  <2>6. Due(<<b, 1>>) = Due(h) BY <2>3, <1>1 DEF Due
  <2> QED BY <2>2, <2>5, <2>6, <1>1, <1>2, <1>9, CFGStutter DEF Follows
<1> QED BY <1>5, <1>11, <1>12, <1>13, <1>14

\* In the arm of a diamond.
LEMMA ArmStep ==
    ASSUME Running, Execute, NEW b, HasSelect(prog, b), HeadOK(b), NEW h, h = <<b, 1>>, here = h
    PROVE  RunInv' /\ Follows
<1> DEFINE s == prog[b].select
<1>1. /\ h \in Placed /\ h \in Blocks /\ Runs(h) /\ PointNow = Due(h) /\ InputOK
      /\ NoBlock \notin Placed /\ h[1] = b /\ h[2] = 1 /\ b \in 1 .. Len(prog)
  BY RunningIs
<1>2. PointNow = <<b, "select">> /\ Due(h) = <<b, "select">>
  <2>1. <<b, 0>>[1] = b /\ <<b, 0>>[2] = 0 OBVIOUS
  <2>2. Due(h) = Due(<<b, 0>>) BY <2>1, <1>1 DEF Due
  <2> QED BY <2>2, <1>1, DueAtSelect
<1>3. /\ Len(code[h]) = 1 /\ code[h][1] = SelectMove(s.f) /\ LayoutNext(h) = <<b, 2>>
  BY DEF HeadOK
<1>4. pc = 1 \/ pc = 2
  <2>1. \A k \in 1 .. 1 + 1 : k = 1 \/ k = 2 OBVIOUS
  <2> QED BY <2>1, <1>3, RunningIs
<1>5. ArmRuns(h) /\ h # EndBlock(h[1]) BY <1>1, EndBlockIs DEF Runs
<1>6. ~SelectHolds(b) BY <1>1, <1>5 DEF ArmRuns
<1>7. s.f \in Names BY <1>1, ConditionsOf DEF Running
<1>8. /\ prog' = prog /\ arg' = arg /\ layout' = layout
      /\ SelectHolds(b)' = SelectHolds(b) /\ EndBlock(b)' = EndBlock(b)
  <2>1. prog' = prog /\ arg' = arg /\ layout' = layout
    BY <1>1, <1>3, ExecuteIs, RunningIs DEF Running
  <2> QED BY <2>1, SamePoints DEF SelectHolds
<1>9. CASE pc = 1
  <2>1. PICK i : i = code[h][1] OBVIOUS
  <2>2. i.op = "MOV" /\ i.l = s.f BY <2>1, <1>3 DEF SelectMove, MI
  <2>3. Advances(h, 1) /\ z' = Operand(s.f)
    BY <2>1, <2>2, <1>3, <1>9, ExecuteIs DEF Running
  <2>4. z' = arg[s.f] BY <2>3, <1>7, OperandIs DEF Running
  <2>5. ArmRuns(h)' BY <2>4, <1>1, <1>6, <1>8 DEF ArmRuns
  <2>6. Runs(h)' BY <2>5, <1>1, <1>5, <1>8 DEF Runs
  <2>7. RunInv' /\ PointNow' = Due(h) BY <2>3, <2>6, <1>1, <1>8, AdvancesRunInv
  <2> QED BY <2>7, <1>1, <1>2, <1>8, CFGStutter DEF Follows
<1>10. CASE pc = 2
  <2>1. PICK i : i = code[h][2] OBVIOUS
  <2>2. z' = z /\ Enters(<<b, 2>>) BY <2>1, <1>3, <1>10, ExecuteIs DEF Running
  <2>3. <<b, 2>>[1] = b /\ <<b, 2>>[2] = 2 OBVIOUS
  <2>4. <<b, 2>> \in Placed
    <3>1. <<b, 2>> # NoBlock BY <2>3, <1>1 DEF NoBlock
    <3> QED BY <3>1, <1>3, NextIsPlaced DEF Running
  <2>5. RunInv' /\ PointNow' = Due(<<b, 2>>) BY <2>2, <2>3, <2>4, <1>1, <1>8, EntersRunInv
  <2>6. Due(<<b, 2>>) = AfterSelect(prog, b) BY <2>3 DEF Due
  <2>7. z' = arg[s.f] BY <2>2, <1>1, <1>5, <1>10 DEF ArmRuns
  <2> QED BY <2>5, <2>6, <2>7, <1>2, <1>6, <1>8, CFGSelect DEF Follows
<1> QED BY <1>4, <1>9, <1>10

\* At a return, or where there is nothing but a jump.
LEMMA PlainEndStep ==
    ASSUME Running, Execute, NEW b, NEW h, h = EndBlock(b), here = h, h[1] = b,
           \/ Len(prog[b].next) = 0 /\ ReturnOK(b, h)
           \/ Len(prog[b].next) = 1 /\ JumpOK(b, h)
    PROVE  RunInv' /\ Follows
<1>1. /\ h \in Placed /\ h \in Blocks /\ Runs(h) /\ PointNow = Due(h) /\ InputOK
      /\ NoBlock \notin Placed /\ b \in 1 .. Len(prog)
  BY RunningIs
<1>2. pc = 1
  <2>1. EndRuns(h) /\ Len(prog[b].next) # 2 BY <1>1 DEF Runs
  <2>2. pc \in Nat \ {0} /\ ~(pc > 1) BY <2>1, RunningIs DEF EndRuns
  <2> QED BY <2>2
<1>3. PICK i : i = code[h][1] OBVIOUS
<1>4. prog' = prog /\ arg' = arg /\ layout' = layout
  BY <1>2, <1>3, ExecuteIs, RunningIs DEF Running
<1>5. CASE Len(prog[b].next) = 0 /\ ReturnOK(b, h)
  <2>1. Len(code[h]) = 1 /\ i.op = "RET" BY <1>3, <1>5 DEF ReturnOK, MI
  <2>2. stage' = "returned" /\ here' = h /\ z' = z BY <2>1, <1>2, <1>3, ExecuteIs DEF Running
  <2>3. PointNow = <<b, "end">> BY <1>1, <1>5, DueAtEnd
  <2>4. PointNow' = <<b, "returned">> BY <2>2 DEF PointNow
  <2>5. RunInv' BY <2>2 DEF RunInv
  <2> QED BY <2>2, <2>3, <2>4, <2>5, <1>4, <1>5, CFGReturn DEF Follows
<1>6. CASE Len(prog[b].next) = 1 /\ JumpOK(b, h)
  <2>1. PICK t \in Blocks : Continues(h) = t /\ Leads(t, Enter(prog)[prog[b].next[1]])
    BY <1>6 DEF JumpOK
  <2>2. Due(t) = Due(h) /\ t \in Placed /\ t[2] # 1
    BY <2>1, <1>1, <1>6, DueAtEnd DEF Leads
  <2>3. z' = z /\ Enters(t)
    <3>1. CASE Len(code[h]) = 0
      <4>1. LayoutNext(h) = t BY <3>1, <2>1 DEF Continues, EndsInJump
      <4> QED BY <4>1, <3>1, <1>2, <1>3, ExecuteIs DEF Running
    <3>2. CASE Len(code[h]) = 1 /\ \E u : code[h][1] = Jump(u)
      <4>1. i.op = "Bs" BY <3>2, <1>3, InstructionKinds
      <4>2. i.to = t BY <4>1, <3>2, <2>1, <1>3 DEF Continues, EndsInJump
      <4> QED BY <4>1, <4>2, <3>2, <1>2, <1>3, ExecuteIs DEF Running
    <3> QED BY <3>1, <3>2, <1>6 DEF JumpOK
  <2>4. RunInv' /\ PointNow' = Due(t) BY <2>2, <2>3, <1>1, <1>4, EntersRunInv
  <2> QED BY <2>2, <2>3, <2>4, <1>1, <1>4, CFGStutter DEF Follows
<1> QED BY <1>5, <1>6

\* At the branch that ends block b.
LEMMA BranchStep ==
    ASSUME Running, Execute, NEW b, NEW h, h = EndBlock(b), here = h, h[1] = b,
           Len(prog[b].next) = 2, BranchOK(b, h)
    PROVE  RunInv' /\ Follows
<1> DEFINE c == prog[b].cond
           cc == EndCondition(b)
<1>1. /\ h \in Placed /\ h \in Blocks /\ Runs(h) /\ PointNow = Due(h) /\ InputOK
      /\ NoBlock \notin Placed /\ b \in 1 .. Len(prog) /\ z \in Word \cup {Undef}
      /\ psw \in BOOLEAN
  BY RunningIs
<1>2. PointNow = <<b, "end">> /\ Due(h) = <<b, "end">> BY <1>1, DueAtEnd
<1>3. PICK t \in Blocks, n \in Blocks :
        /\ code[h][2] = EndBranch(b, t) /\ Leads(t, Enter(prog)[Taken(b)])
        /\ Continues(h) = n /\ Leads(n, Enter(prog)[NotTaken(b)])
  BY DEF BranchOK
<1>4. /\ Len(code[h]) = 2 \/ (Len(code[h]) = 3 /\ \E u : code[h][3] = Jump(u))
      /\ code[h][1] = EndCompare(b)
  BY DEF BranchOK
<1>5. /\ t \in Placed /\ t[2] # 1 /\ Due(t) = Enter(prog)[Taken(b)]
      /\ n \in Placed /\ n[2] # 1 /\ Due(n) = Enter(prog)[NotTaken(b)]
  BY <1>3 DEF Leads
<1>6. pc = 1 \/ pc = 2 \/ pc = 3 \/ (pc = 4 /\ Len(code[h]) = 3)
  <2>1. \A k \in 1 .. 2 + 1 : k = 1 \/ k = 2 \/ k = 3 OBVIOUS
  <2>2. \A k \in 1 .. 3 + 1 : k = 1 \/ k = 2 \/ k = 3 \/ k = 4 OBVIOUS
  <2> QED BY <2>1, <2>2, <1>4, RunningIs
<1>7. EndRuns(h) BY <1>1 DEF Runs
<1>8. pc # 4
  <2>1. SUFFICES ASSUME pc = 4 PROVE FALSE OBVIOUS
  <2> QED BY <2>1, <1>7 DEF EndRuns
<1>9. /\ cc \in Conditions /\ Sound(cc, c.l)
      /\ Operand(c.l) \in Word \cup {Undef} /\ Operand(c.r) \in Word \cup {Undef}
  BY <1>1, ConditionsOf, OperandIs DEF Running
<1>10. /\ prog' = prog /\ arg' = arg /\ layout' = layout /\ EndBlock(b)' = EndBlock(b)
       /\ EndCondition(b)' = EndCondition(b) /\ (z' = z => EndHolds(b)' = EndHolds(b))
  <2>1. prog' = prog /\ arg' = arg /\ layout' = layout
    BY <1>1, ExecuteIs, RunningIs DEF Running
  <2>2. EndCondition(b)' = EndCondition(b) BY <2>1 DEF EndCondition, InvertEnd
  <2> QED BY <2>1, <2>2, SamePoints DEF EndHolds, Operand
<1>11. h[2] # 1 /\ ~(h[2] = 0 /\ HasSelect(prog, b)) BY <1>1, EndBlockIs
<1>12. ASSUME EndRuns(h)' PROVE Runs(h)' BY <1>10, <1>11, <1>12 DEF Runs
<1> HIDE DEF cc
<1>13. CASE pc = 1
  <2>1. PICK i : i = code[h][1] OBVIOUS
  <2>2. /\ i.op \in Compares
        /\ (CmpResult(i.op, Operand(i.l), Operand(i.r)) <=> cc \in OnTrue)
             <=> Holds(cc, Operand(c.l), Operand(c.r))
    <3>1. i = EmitCMP(cc, c.l, c.r) BY <2>1, <1>4 DEF EndCompare, cc
    <3> QED BY <3>1, <1>9, CompareHolds
  <2>3. Advances(h, 1) /\ z' = z /\ psw' = CmpResult(i.op, Operand(i.l), Operand(i.r))
    BY <2>1, <2>2, <1>4, <1>13, ExecuteIs DEF Running
  <2>4. (psw' <=> cc \in OnTrue) <=> EndHolds(b) BY <2>2, <2>3 DEF EndHolds, cc
  <2>5. EndRuns(h)' BY <2>3, <2>4, <1>10 DEF EndRuns, Advances, cc
  <2>6. RunInv' /\ PointNow' = Due(h) BY <2>3, <2>5, <1>1, <1>10, <1>12, AdvancesRunInv
  <2> QED BY <2>3, <2>6, <1>1, <1>10, CFGStutter DEF Follows
<1>14. CASE pc = 2
  <2>1. PICK i : i = code[h][2] OBVIOUS
  <2>2. i = MI(IF cc \in OnTrue THEN "BTs" ELSE "BFs", "-", "-", t)
    BY <2>1, <1>3 DEF EndBranch, cc
  <2>3. i.op \in CondBranches /\ i.to = t BY <2>2 DEF MI, CondBranches
  <2>4. (psw = (i.op = "BTs")) <=> EndHolds(b)
    <3>1. (i.op = "BTs") <=> cc \in OnTrue BY <2>2 DEF MI
    <3>2. (psw <=> cc \in OnTrue) <=> EndHolds(b) BY <1>7, <1>14 DEF EndRuns, cc
    <3> QED BY <3>1, <3>2, <1>1
  <2>5. z' = z /\ IF psw = (i.op = "BTs") THEN Enters(t) ELSE Advances(h, 2)
    BY <2>1, <2>3, <1>4, <1>14, ExecuteIs DEF Running
  <2>6. CASE EndHolds(b)
    <3>1. Enters(t) BY <2>4, <2>5, <2>6
    <3>2. RunInv' /\ PointNow' = Enter(prog)[Taken(b)]
      BY <3>1, <1>1, <1>5, <1>10, EntersRunInv
    <3> QED BY <3>2, <2>5, <2>6, <1>1, <1>2, <1>10, CFGBranch DEF Follows, Running
  <2>7. CASE ~EndHolds(b)
    <3>1. Advances(h, 2) BY <2>4, <2>5, <2>7
    <3>2. EndRuns(h)' BY <3>1, <2>5, <2>7, <1>10 DEF EndRuns, Advances
    <3>3. RunInv' /\ PointNow' = Due(h) BY <3>1, <3>2, <1>1, <1>10, <1>12, AdvancesRunInv
    <3> QED BY <2>5, <3>3, <1>1, <1>10, CFGStutter DEF Follows
  <2> QED BY <2>6, <2>7
<1>15. CASE pc = 3
  <2>1. PICK i : i = code[h][3] OBVIOUS
  <2>2. ~EndHolds(b) BY <1>7, <1>15 DEF EndRuns
  <2>3. z' = z /\ Enters(n)
    <3>1. CASE Len(code[h]) = 2
      <4>1. code[h][2].op # "Bs" BY <1>3, InstructionKinds
      <4>2. LayoutNext(h) = n BY <3>1, <4>1, <1>3 DEF Continues, EndsInJump
      <4> QED BY <4>2, <3>1, <1>15, <2>1, ExecuteIs DEF Running
    <3>2. CASE Len(code[h]) = 3 /\ \E u : code[h][3] = Jump(u)
      <4>1. i.op = "Bs" BY <3>2, <2>1, InstructionKinds
      <4>2. i.to = n BY <4>1, <3>2, <2>1, <1>3 DEF Continues, EndsInJump
      <4> QED BY <4>1, <4>2, <3>2, <1>15, <2>1, ExecuteIs DEF Running
    <3> QED BY <3>1, <3>2, <1>4
  <2>4. RunInv' /\ PointNow' = Enter(prog)[NotTaken(b)]
    BY <2>3, <1>1, <1>5, <1>10, EntersRunInv
  <2> QED BY <2>2, <2>3, <2>4, <1>1, <1>2, <1>10, CFGBranch DEF Follows, Running
<1> QED BY <1>6, <1>8, <1>13, <1>14, <1>15

-----------------------------------------------------------------------------
(* Every behavior.                                                         *)

LEMMA ExecuteFollows ==
    Running /\ Execute => RunInv' /\ Follows
<1> SUFFICES ASSUME Running, Execute PROVE RunInv' /\ Follows OBVIOUS
<1>1. PICK h : here = h OBVIOUS
<1>2. h \in Placed /\ InputOK BY <1>1, RunningIs
<1>3. PICK b \in 1 .. Len(prog) : b = h[1] BY <1>1, RunningIs
<1>4. CASE HasSelect(prog, b) /\ HeadOK(b) /\ h = <<b, 0>>
  BY <1>1, <1>4, HeadStep
<1>5. CASE HasSelect(prog, b) /\ HeadOK(b) /\ h = <<b, 1>>
  BY <1>1, <1>5, ArmStep
<1>6. CASE h = EndBlock(b) /\ EndOK(b, h)
  BY <1>1, <1>2, <1>3, <1>6, EndCases, PlainEndStep, BranchStep DEF EndOK
<1> QED BY <1>2, <1>3, <1>4, <1>5, <1>6, ShapeIs DEF Running

\* Before the machine runs, the first step of the function is due.
LEMMA CompileFollows ==
    ASSUME TypeInv, TypeInv', FoldInv, Compile
    PROVE  RunInv' /\ UNCHANGED CFG!vars
<1>1. /\ prog' = prog /\ arg' = arg /\ here' = here /\ pc' = pc /\ z' = z /\ psw' = psw
      /\ stage \in {"select", "insert", "phis", "fold"} /\ stage' \notin {"returned", "lost"}
      /\ stage' = "run" => stage = "fold" /\ layout' = layout
  BY DEF Compile, InstructionSelection, EmitInstrWithCustomInserter, ExpandISelPseudosDone,
         EliminatePHIs, AnalyzeForFolding, ForwardAcrossBlock, MoveAfterPredecessor, StartRun,
         input, machine
<1>2. here = <<1, 0>> /\ pc = 1 BY <1>1 DEF TypeInv
<1>3. PICK h : h = <<1, 0>> /\ h[1] = 1 /\ h[2] = 0
  <2>1. <<1, 0>>[1] = 1 /\ <<1, 0>>[2] = 0 OBVIOUS
  <2> QED BY <2>1
<1>4. PointNow' = PointNow BY <1>1, <1>2, <1>3 DEF PointNow
<1>5. ASSUME stage' = "run" PROVE h \in Placed' /\ here' = h /\ Runs(h)'
  <2>1. layout \in Seq(Blocks) /\ Len(layout) > 0 /\ layout[1] = h BY <1>3 DEF TypeInv, LayoutOK
  <2>2. 1 \in 1 .. Len(layout) BY <2>1, LenProperties
  <2>3. h \in Placed /\ Placed' = Placed BY <2>1, <2>2, <1>1, <1>5, PlacedIs DEF Placed
  <2>4. HeadRuns(h)' /\ EndRuns(h)' BY <1>1, <1>2 DEF HeadRuns, EndRuns
  <2>5. Runs(h)' BY <2>4, <1>3 DEF Runs
  <2> QED BY <2>3, <2>5, <1>1, <1>2, <1>3
<1>6. RunInv' BY <1>1, <1>5 DEF RunInv
<1> QED BY <1>1, <1>4, <1>6, CFGStutter

LEMMA NextFollows ==
    (\A p \in Programs : LoweredSoundly(p)) /\ TypeInv /\ TypeInv' /\ FoldInv /\ RunInv
    /\ [Next]_vars => RunInv' /\ [CFG!Next]_(CFG!vars)
<1> SUFFICES ASSUME \A p \in Programs : LoweredSoundly(p), TypeInv, TypeInv', FoldInv, RunInv,
                    [Next]_vars
             PROVE  RunInv' /\ [CFG!Next]_(CFG!vars)
  OBVIOUS
<1>1. CASE UNCHANGED vars
  <2>1. /\ prog' = prog /\ arg' = arg /\ layout' = layout /\ here' = here /\ pc' = pc
        /\ psw' = psw /\ z' = z /\ stage' = stage
    BY <1>1 DEF vars
  <2>2. Placed' = Placed BY <2>1 DEF Placed
  <2>3. \A h : Runs(h) => Runs(h)'
    BY <2>1 DEF Runs, HeadRuns, ArmRuns, EndRuns, SelectHolds, EndHolds, EndCondition, InvertEnd,
                Operand, EndBlock
  <2>4. PointNow' = PointNow BY <2>1 DEF PointNow
  <2> QED BY <2>1, <2>2, <2>3, <2>4, CFGStutter DEF RunInv
<1>2. CASE Compile BY <1>2, CompileFollows
<1>3. CASE Execute
  <2>1. stage = "run"
    BY <1>3 DEF Execute, Compare, Move, ConditionalBranch, UnconditionalBranch, FallThrough,
                Return, Executing
  <2>2. Running BY <2>1 DEF Running, FoldInv, TypeInv, InputOK
  <2> QED BY <2>2, <1>3, ExecuteFollows DEF Follows
<1> QED BY <1>1, <1>2, <1>3 DEF Next

LEMMA InitFollows == Init => RunInv /\ CFG!Init
<1> SUFFICES ASSUME Init PROVE RunInv /\ CFG!Init OBVIOUS
<1>1. /\ prog \in Programs /\ arg \in [Names -> Word] /\ z = Undef /\ stage = "select"
      /\ here = <<1, 0>>
  BY DEF Init
<1>2. PointNow = Enter(prog)[1] BY <1>1 DEF PointNow
<1>3. RunInv BY <1>1 DEF RunInv
<1> QED BY <1>1, <1>2, <1>3, SameCFG DEF CFG!Init

(* Control is always in a block that is emitted and never runs off the end  *)
(* of the code, and the machine knows what the instructions in front of it  *)
(* have computed: the T flag is the condition that was compared, the arm of *)
(* a select is entered only where its condition fails.                     *)
THEOREM RunInvHolds ==
    ASSUME ~AllowInserts, \A p \in Programs : LoweredSoundly(p)
    PROVE  Spec => []RunInv
<1>1. TypeInv /\ TypeInv' /\ FoldInv /\ RunInv /\ [Next]_vars => RunInv' BY NextFollows
<1> QED BY <1>1, InitFollows, TypeInvHolds, FoldInvHolds, PTL DEF Spec

(* The machine takes exactly the branches the function asks for and selects *)
(* the values it asks for: the backend and the branch folder implement the  *)
(* function, for every set of functions and registers of every width.       *)
THEOREM Refinement ==
    ASSUME ~AllowInserts, \A p \in Programs : LoweredSoundly(p)
    PROVE  Spec => FollowsFunction
<1>1. TypeInv /\ TypeInv' /\ FoldInv /\ RunInv /\ [Next]_vars => [CFG!Next]_(CFG!vars)
  BY NextFollows
<1> QED BY <1>1, InitFollows, TypeInvHolds, FoldInvHolds, RunInvHolds, PTL
        DEF Spec, FollowsFunction, CFG!Spec

=============================================================================
