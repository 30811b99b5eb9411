---------------------------- MODULE KudeyarBranch ----------------------------
(***************************************************************************)
(* The control flow of one function from instruction selection to          *)
(* execution: the lowering of comparisons, branches and selects            *)
(* (KudeyarISelLowering), LLVM's branch folder calling the branch hooks of *)
(* KudeyarInstrInfo in any order it may, and the machine running the result.*)
(*                                                                         *)
(* Block b of the function becomes machine block <<b, 0>>; the custom       *)
(* inserter splits a block with a select into <<b, 0>> (thisMBB), <<b, 1>>  *)
(* (copy0MBB) and <<b, 2>> (copy1MBB).                                      *)
(***************************************************************************)
EXTENDS KudeyarFunction, SequencesExt

CONSTANT
    AllowInserts       \* may the branch folder do what needs InsertBranch?

VARIABLES
    prog, arg,   \* the function and its input
    z,           \* the register that selects write
    stage,       \* "select", "insert", "phis", "fold", "run", "returned", "lost"
    layout,      \* the machine blocks in the order they are emitted
    code,        \* the instructions of each machine block
    succs,       \* the successors recorded in the machine CFG
    here, pc,    \* the next instruction to execute
    psw          \* the T flag that CMPxx sets and BTs, BFs test

vars == <<prog, arg, z, stage, layout, code, succs, here, pc, psw>>
input == <<prog, arg>>
machine == <<here, pc, psw, z>>

ASSUME AllowInsertsAssumption == AllowInserts \in BOOLEAN

NoBlock == <<0, 0>>
Blocks == UNION {{<<b, 0>>, <<b, 1>>, <<b, 2>>} : b \in 1 .. Len(prog)}

Compares == {"CMPEQ", "CMPGT", "CMPLT", "CMPGTU", "CMPLTU"}
SelectsTrueOnly == {"Select32T"}                              \* mutant
Selects == {"Select32T", "Select32F"}
CondBranches == {"BTs", "BFs"}
MI(op, l, r, to) == [op |-> op, l |-> l, r |-> r, to |-> to]
Jump(to) == MI("Bs", "-", "-", to)

-----------------------------------------------------------------------------
(* Lowering of comparisons.                                                *)

CmpCodeStrict ==                        \* mutant: the complement of CMPLT
    [SETEQ |-> "CMPEQ", SETNE |-> "CMPEQ", SETULE |-> "CMPGTU", SETUGE |-> "CMPLTU",
     SETUGT |-> "CMPLTU", SETULT |-> "CMPLTU", SETLE |-> "CMPLT", SETGE |-> "CMPLT",
     SETGT |-> "CMPGT", SETLT |-> "CMPLT"]

\* The comparison EmitCMP chooses.  SETUGT sets CMPGTU and has no break.
CmpCode ==
    [SETEQ |-> "CMPEQ", SETNE |-> "CMPEQ", SETULE |-> "CMPGTU", SETUGE |-> "CMPLTU",
     SETUGT |-> "CMPLTU", SETULT |-> "CMPLTU", SETLE |-> "CMPGT", SETGE |-> "CMPLT",
     SETGT |-> "CMPGT", SETLT |-> "CMPLT"]

\* The conditions whose comparison is tested for true, the others for false.
OnTrue == {"SETEQ", "SETUGT", "SETULT", "SETGT", "SETLT"}

\* A constant on the left is swapped to the right; the condition stays.
EmitCMP(cc, l, r) ==
    IF l \in Consts THEN MI(CmpCode[cc], r, l, NoBlock) ELSE MI(CmpCode[cc], l, r, NoBlock)

LowerBR_CC(cc, l, r, dest) ==
    <<EmitCMP(cc, l, r), MI(IF cc \in OnTrue THEN "BTs" ELSE "BFs", "-", "-", dest)>>

LowerSELECT_CC(cc, l, r, t, f) ==
    <<EmitCMP(cc, l, r), MI(IF cc \in OnTrue THEN "Select32T" ELSE "Select32F", t, f, NoBlock)>>

Inverted ==
    [SETEQ |-> "SETNE", SETNE |-> "SETEQ", SETULE |-> "SETUGT", SETUGT |-> "SETULE",
     SETUGE |-> "SETULT", SETULT |-> "SETUGE", SETLE |-> "SETGT", SETGT |-> "SETLE",
     SETGE |-> "SETLT", SETLT |-> "SETGE"]

\* The DAG builder leaves out the jump to the block that is emitted next, and
\* inverts a condition to make it so.
EndOfBlock(b) ==
    LET n == prog[b].next
        c == prog[b].cond
        JumpUnlessNext(t) == IF t = b + 1 THEN <<>> ELSE <<Jump(<<t, 0>>)>>
    IN CASE Len(n) = 0 -> <<MI("RET", "-", "-", NoBlock)>>
         [] Len(n) = 1 -> JumpUnlessNext(n[1])
         [] Len(n) = 2 /\ n[1] = b + 1 -> LowerBR_CC(Inverted[c.cc], c.l, c.r, <<n[2], 0>>)
         [] OTHER -> LowerBR_CC(c.cc, c.l, c.r, <<n[1], 0>>) \o JumpUnlessNext(n[2])

Init ==
    /\ prog \in Programs
    /\ arg \in [Names -> Word]
    /\ z = Undef
    /\ stage = "select"
    /\ layout = [b \in 1 .. Len(prog) |-> <<b, 0>>]
    /\ code = [m \in Blocks |-> <<>>]
    /\ succs = [m \in Blocks |-> {<<prog[m[1]].next[i], 0>> : i \in 1 .. Len(prog[m[1]].next)}]
    /\ here = <<1, 0>> /\ pc = 1
    /\ psw = FALSE

\* Instruction selection of the whole function.
InstructionSelection ==
    /\ stage = "select"
    /\ stage' = "insert"
    /\ code' = [m \in Blocks |->
                  IF m[2] # 0 THEN <<>>
                  ELSE LET s == prog[m[1]].select
                       IN (IF s = NoSelect THEN <<>>
                           ELSE LowerSELECT_CC(s.cc, s.l, s.r, s.t, s.f))
                          \o EndOfBlock(m[1])]
    /\ UNCHANGED <<input, layout, succs, machine>>

SelectTargetThis(b) == <<b, 0>>                               \* mutant
\* Where the select's branch goes: copy1MBB, past the other operand's block.
SelectTarget(b) == <<b, 2>>

\* The diamond: thisMBB branches to copy1MBB, around copy0MBB.
EmitInstrWithCustomInserter ==
    /\ stage = "insert"
    /\ \E b \in 1 .. Len(prog), p \in 1 .. 2 :
         LET this == <<b, 0>>  copy0 == <<b, 1>>  copy1 == <<b, 2>>
             cs == code[this]
             i == SelectInSeq(layout, LAMBDA m : m = this)
         IN /\ p <= Len(cs) /\ cs[p].op \in Selects
            /\ layout' = SubSeq(layout, 1, i) \o <<copy0, copy1>>
                           \o SubSeq(layout, i + 1, Len(layout))
            /\ code' = [code EXCEPT
                 ![this]  = SubSeq(cs, 1, p - 1)
                            \o <<MI(IF cs[p].op = "Select32T" THEN "BTs" ELSE "BFs",
                                    "-", "-", SelectTarget(b))>>,
                 ![copy1] = <<MI("PHI", cs[p].r, cs[p].l, NoBlock)>>
                            \o SubSeq(cs, p + 1, Len(cs))]
            /\ succs' = [succs EXCEPT ![this] = {copy0, copy1}, ![copy0] = {copy1},
                                      ![copy1] = succs[this]]
    /\ UNCHANGED <<input, stage, machine>>

\* Every pseudo is expanded when instruction selection ends.
ExpandISelPseudosDone ==
    /\ stage = "insert"
    /\ \A m \in Blocks : \A k \in 1 .. Len(code[m]) : code[m][k].op \notin Selects
    /\ stage' = "phis"
    /\ UNCHANGED <<input, layout, code, succs, machine>>

\* PHI elimination: each operand is copied at the end of its block, in front
\* of the branch.  The first operand comes from copy0MBB.
EliminatePHIs ==
    /\ stage = "phis"
    /\ stage' = "fold"
    /\ LET Phi(b) == code[<<b, 2>>][1]
       IN code' = [m \in Blocks |->
            IF code[<<m[1], 2>>] = <<>> THEN code[m]
            ELSE CASE m[2] = 0 -> LET k == Len(code[m]) IN
                                  SubSeq(code[m], 1, k - 1)
                                  \o <<MI("MOV", Phi(m[1]).r, "-", NoBlock), code[m][k]>>
                   [] m[2] = 1 -> <<MI("MOV", Phi(m[1]).l, "-", NoBlock)>>
                   [] m[2] = 2 -> Tail(code[m])]
    /\ UNCHANGED <<input, layout, succs, machine>>

-----------------------------------------------------------------------------
(* The branch hooks.                                                       *)

Branches == CondBranches \cup {"Bs"}

LayoutNext(m) ==
    LET i == SelectInSeq(layout, LAMBDA n : n = m)
    IN IF i < Len(layout) THEN layout[i + 1] ELSE NoBlock
LayoutPrev(m) == layout[SelectInSeq(layout, LAMBDA n : n = m) - 1]

IsLayoutSuccessor(m, t) == t = LayoutNext(m)

UnanalyzableReturnOnly == {"RET"}                             \* mutant
\* The terminators on which AnalyzeBranch gives up.
Unanalyzable == CondBranches \cup {"RET"}

(* AnalyzeBranch scans block m upwards from its end: over jumps, down to    *)
(* the first instruction that is none.  It gives up if that one is a       *)
(* terminator.  With AllowModify it leaves only the topmost jump, and not  *)
(* even that one if it leads to the next block; `after' is the result.     *)
AnalyzeBranch(m, allowModify) ==
    LET cs == code[m]
        k == SelectLastInSeq(cs, LAMBDA i : i.op # "Bs")
        jumps == k < Len(cs)
        target == IF jumps THEN cs[k + 1].to ELSE NoBlock
        redundant == allowModify /\ jumps /\ IsLayoutSuccessor(m, target)
    IN [fails |-> k > 0 /\ cs[k].op \in Unanalyzable,
        tbb   |-> IF redundant THEN NoBlock ELSE target,
        after |-> IF ~allowModify THEN cs
                  ELSE SubSeq(cs, 1, k) \o (IF jumps /\ ~redundant THEN <<cs[k + 1]>> ELSE <<>>)]

RemoveBranch(cs) == SubSeq(cs, 1, SelectLastInSeq(cs, LAMBDA i : i.op \notin Branches))

\* Returns 0 and inserts nothing.
InsertBranch(cs, tbb) == cs

-----------------------------------------------------------------------------
(* LLVM's branch folder, as far as it changes code through these hooks.    *)

CanFallThrough(m) ==
    LET a == AnalyzeBranch(m, FALSE)
    IN /\ LayoutNext(m) # NoBlock /\ LayoutNext(m) \in succs[m]
       /\ IF a.fails THEN Last(code[m]).op \notin {"Bs", "RET"}
          ELSE a.tbb \in {NoBlock, LayoutNext(m)}

\* OptimizeBlock begins with the analysis of the block and its predecessor.
AnalyzeForFolding ==
    /\ stage = "fold"
    /\ \E i \in 1 .. Len(layout) :
         code' = [code EXCEPT ![layout[i]] = AnalyzeBranch(layout[i], TRUE).after]
    /\ UNCHANGED <<input, stage, layout, succs, machine>>

(* A block that is nothing but a jump: its branch is removed, and if the   *)
(* block before it does not fall into it or can be analyzed, its           *)
(* predecessors jump on directly and the block is deleted.  A predecessor  *)
(* that falls into it is first made to branch to it; if the block has to   *)
(* stay, it gets its branch back: both by InsertBranch.                    *)
ForwardAcrossBlock ==
    /\ stage = "fold"
    /\ \E i \in 2 .. Len(layout) :
         LET m == layout[i]
             prev == layout[i - 1]
             to == code[m][1].to
             a == AnalyzeBranch(prev, TRUE)
             falls == CanFallThrough(prev)
             bare == RemoveBranch(code[m])
         IN /\ Len(code[m]) = 1 /\ code[m][1].op = "Bs"
            /\ to \notin {m, LayoutNext(m)}
            /\ AllowInserts \/ ~falls
            /\ IF ~falls \/ ~a.fails
               THEN /\ layout' = RemoveAt(layout, i)
                    /\ succs' = [n \in Blocks |->
                          IF m \in succs[n] THEN (succs[n] \ {m}) \cup {to} ELSE succs[n]]
                    /\ code' = [n \in Blocks |->
                          LET cs == IF n = m THEN bare
                                    ELSE IF n = prev /\ falls
                                    THEN InsertBranch(RemoveBranch(code[prev]), m)
                                    ELSE code[n]
                          IN [k \in 1 .. Len(cs) |->
                                IF cs[k].to = m THEN [cs[k] EXCEPT !.to = to] ELSE cs[k]]]
               ELSE /\ code' = [code EXCEPT ![m] = InsertBranch(bare, to)]
                    /\ UNCHANGED <<layout, succs>>
    /\ UNCHANGED <<input, stage, machine>>

(* A block nothing falls into is moved behind a predecessor that jumps to  *)
(* it.  If it falls through itself it first gets a branch to the block     *)
(* behind it, and is then moved only backwards.                            *)
MoveAfterPredecessor ==
    /\ stage = "fold"
    /\ \E i \in 2 .. Len(layout), j \in 1 .. Len(layout) :
         LET m == layout[i]
             pred == layout[j]
             falls == CanFallThrough(m)
             rest == RemoveAt(layout, i)
         IN /\ pred # m /\ m \in succs[pred]
            /\ ~CanFallThrough(layout[i - 1]) /\ ~CanFallThrough(pred)
            /\ ~AnalyzeBranch(pred, TRUE).fails
            /\ falls => AllowInserts /\ j < i
            /\ layout' = InsertAt(rest, IF j < i THEN j + 1 ELSE j, m)
            /\ code' = [code EXCEPT ![m] = IF falls THEN InsertBranch(code[m], LayoutNext(m))
                                                    ELSE code[m]]
    /\ UNCHANGED <<input, stage, succs, machine>>

StartRun ==
    /\ stage = "fold"
    /\ stage' = "run"
    /\ UNCHANGED <<input, layout, code, succs, machine>>

Compile ==
    \/ InstructionSelection \/ EmitInstrWithCustomInserter \/ ExpandISelPseudosDone
    \/ EliminatePHIs
    \/ AnalyzeForFolding \/ ForwardAcrossBlock \/ MoveAfterPredecessor \/ StartRun

-----------------------------------------------------------------------------
(* The machine.                                                            *)

Operand(n) == IF n = "z" THEN z ELSE arg[n]
Instruction == code[here][pc]
Executing(ops) == stage = "run" /\ pc <= Len(code[here]) /\ Instruction.op \in ops

\* Continue at machine block m, if there is one.
Goto(m) ==
    IF m = NoBlock THEN stage' = "lost" /\ UNCHANGED <<here, pc>>
                   ELSE here' = m /\ pc' = 1 /\ UNCHANGED stage

\* What the compare instructions leave in the T flag.
CmpResult(op, a, b) ==
    \/ op = "CMPEQ"  /\ a = b
    \/ op = "CMPGT"  /\ Signed(a) > Signed(b)
    \/ op = "CMPLT"  /\ Signed(a) < Signed(b)
    \/ op = "CMPGTU" /\ a > b
    \/ op = "CMPLTU" /\ a < b

Compare ==
    /\ Executing(Compares)
    /\ psw' = CmpResult(Instruction.op, Operand(Instruction.l), Operand(Instruction.r))
    /\ pc' = pc + 1
    /\ UNCHANGED <<input, stage, layout, code, succs, here, z>>

Move ==
    /\ Executing({"MOV"})
    /\ z' = Operand(Instruction.l)
    /\ pc' = pc + 1
    /\ UNCHANGED <<input, stage, layout, code, succs, here, psw>>

ConditionalBranch ==
    /\ Executing(CondBranches)
    /\ IF psw = (Instruction.op = "BTs") THEN Goto(Instruction.to)
       ELSE pc' = pc + 1 /\ UNCHANGED <<stage, here>>
    /\ UNCHANGED <<input, layout, code, succs, psw, z>>

UnconditionalBranch ==
    /\ Executing({"Bs"})
    /\ Goto(Instruction.to)
    /\ UNCHANGED <<input, layout, code, succs, psw, z>>

FallThrough ==
    /\ stage = "run" /\ pc > Len(code[here])
    /\ Goto(LayoutNext(here))
    /\ UNCHANGED <<input, layout, code, succs, psw, z>>

Return ==
    /\ Executing({"RET"})
    /\ stage' = "returned"
    /\ UNCHANGED <<input, layout, code, succs, machine>>

Execute ==
    Compare \/ Move \/ ConditionalBranch \/ UnconditionalBranch \/ FallThrough \/ Return

Next == Compile \/ Execute

Spec == Init /\ [][Next]_vars
\* The compiler finishes, and the processor goes on as long as there is code.
FairSpec == Spec /\ WF_vars(Next)

-----------------------------------------------------------------------------
(* Properties.                                                             *)

\* Every variable has its type, and no pseudo instruction is ever executed:
\* the custom inserter and PHI elimination have replaced all of them.
TypeOK ==
    /\ prog \in Programs /\ arg \in [Names -> Word]
    /\ z \in Word \cup {Undef}
    /\ stage \in {"select", "insert", "phis", "fold", "run", "returned", "lost"}
    /\ ToSet(layout) \subseteq Blocks /\ IsInjective(layout)
    /\ DOMAIN code = Blocks
    /\ \A m \in Blocks : succs[m] \subseteq Blocks
    /\ stage = "run" => \A m \in Blocks : \A k \in 1 .. Len(code[m]) :
                          code[m][k].op \in Compares \cup Branches \cup {"MOV", "RET"}
    /\ here \in Blocks /\ pc \in 1 .. Len(code[here]) + 1 /\ psw \in BOOLEAN

\* The step of KudeyarCFG that is due: a select takes effect with the entry
\* of copy1MBB.
PointNow ==
    IF stage \in {"returned", "lost"} THEN <<here[1], stage>>
    ELSE IF here[2] = 2 THEN AfterSelect(prog, here[1])
    ELSE Enter(prog)[here[1]]

CFG == INSTANCE KudeyarCFG
         WITH point <- PointNow, z <- IF PointNow[2] = "select" THEN Undef ELSE z

\* The conditions that are lowered to what they mean: EmitCMP's comparison is
\* right, and it swaps no operands that must not be swapped.
Sound(cc, l) == cc # "SETUGT" /\ (l \in Consts => cc \in {"SETEQ", "SETNE"})
LoweredSoundly(p) ==
    \A b \in 1 .. Len(p) :
        /\ HasSelect(p, b) => Sound(p[b].select.cc, p[b].select.l)
        /\ Len(p[b].next) = 2 =>
             Sound(IF p[b].next[1] = b + 1 THEN Inverted[p[b].cond.cc] ELSE p[b].cond.cc,
                   p[b].cond.l)

(* The machine takes exactly the branches the function asks for and        *)
(* selects the values it asks for, whatever the folder did to the code.    *)
FollowsFunction == CFG!Spec

\* A function without loops returns: compilation ends, and control never runs
\* in circles or off the end of the code.
Returns ==
    (\A b \in 1 .. Len(prog) : \A i \in 1 .. Len(prog[b].next) : prog[b].next[i] > b)
        => <>(stage = "returned")

(* Where AnalyzeBranch does not give up, a block has one successor, and the *)
(* branch it reports (or the fall-through, if it reports none) leads there. *)
AnalysisTrue ==
    stage = "fold" =>
        \A i \in 1 .. Len(layout) :
            LET m == layout[i]
                a == AnalyzeBranch(m, TRUE)
            IN ~a.fails => succs[m] = {IF a.tbb = NoBlock THEN LayoutNext(m) ELSE a.tbb}

=============================================================================
