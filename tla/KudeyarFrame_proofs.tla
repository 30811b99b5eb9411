------------------------ MODULE KudeyarFrame_proofs ------------------------
(***************************************************************************)
(* Proofs about KudeyarFrame, for every set of registers and every set of  *)
(* function shapes that satisfy the assumptions there.                     *)
(***************************************************************************)
EXTENDS KudeyarFrame, SequenceTheorems, FiniteSetTheorems, TLAPS

-----------------------------------------------------------------------------
(* Facts about the registers and the instructions.                         *)

LEMMA RegsFinite == IsFiniteSet(Regs)
<1>1. IsFiniteSet(ArgRegs \cup SavedRegs)
  BY RegsAssumption, FS_Union
<1> QED BY <1>1, FS_Singleton, FS_Union DEF Regs

\* The saved registers are a finite set of registers, so they can be counted.
LEMMA CSIFinite ==
    ASSUME NEW f \in Shapes
    PROVE  /\ CSI(f) \subseteq Regs
           /\ IsFiniteSet(CSI(f))
           /\ Cardinality(CSI(f)) \in Nat
           /\ Cardinality(CSI(f)) = 0 <=> CSI(f) = {}
<1>1. IsFiniteSet(Regs)
  BY RegsFinite
<1>2. CSI(f) \subseteq Regs
  BY DEF CSI, CalleeSavedRegs, Regs
<1>3. IsFiniteSet(CSI(f))
  BY <1>1, <1>2, FS_Subset
<1> QED BY <1>2, <1>3, FS_CardinalityType, FS_EmptySet

\* An instruction that names saved registers is well formed.
LEMMA StackInstr ==
    ASSUME NEW regs \in SUBSET Regs, regs # {}, NEW op \in StackOps
    PROVE  MI(op, regs, 0) \in Instr
BY DEF MI, Instr

\* So is one that names none.
LEMMA OtherInstr ==
    ASSUME NEW op \in OtherOps
    PROVE  MI(op, {}, 0) \in Instr
BY DEF MI, Instr

\* AdjustBy emits at most one instruction, and never for a zero amount.
LEMMA AdjustByType ==
    ASSUME NEW op \in AdjustOps, NEW n \in Int
    PROVE  AdjustBy(op, n) \in Seq(Instr)
<1>1. CASE n = 0
  BY <1>1 DEF AdjustBy
<1>2. CASE n # 0
  <2>1. MI(op, {}, n) \in Instr
    BY <1>2 DEF MI, Instr
  <2> QED BY <2>1, <1>2 DEF AdjustBy
<1> QED BY <1>1, <1>2

\* A piece of code is code.
LEMMA SubCode ==
    ASSUME NEW code \in Seq(Instr), NEW m \in Int, NEW n \in Int,
           m >= 1, n <= Len(code)
    PROVE  SubSeq(code, m, n) \in Seq(Instr)
<1>1. \A i \in m .. n : code[i] \in Instr
  BY ElementOfSeq, LenProperties
<1> QED BY <1>1, SubSeqProperties

LEMMA FPReg == FP \in Regs
BY DEF Regs

\* The depth at which a register of a list is pushed is at least one word.
LEMMA DepthPositive ==
    ASSUME NEW regs \in SUBSET Regs, IsFiniteSet(regs), NEW r \in regs
    PROVE  Depth(regs, r) \in Nat \ {0}
<1> DEFINE nearer == {q \in regs : RegNo[q] <= RegNo[r]}
<1>1. IsFiniteSet(nearer) /\ Cardinality(nearer) \in Nat
  BY FS_Subset, FS_CardinalityType
<1>2. r \in nearer
  BY RegsAssumption
<1>3. Cardinality(nearer) # 0
  BY <1>1, <1>2, FS_EmptySet
<1> QED BY <1>1, <1>3 DEF Depth

-----------------------------------------------------------------------------
(* Type correctness.  The body indexes objOffset and the epilogue looks at *)
(* the last instruction of exit, so TypeOK is inductive only together with *)
(* what the layout has established by the stage it is used in.             *)

Saves == Cardinality(CSI(fn))

AfterSpill  == {"restore", "finalize", "layout", "prologue", "epilogue",
                "entry", "body", "exit", "returned"}
AfterLayout == {"prologue", "epilogue", "entry", "body", "exit", "returned"}

CallArea == IF fn.hasCalls /\ HasReservedCallFrame(fn) THEN 4 * fn.outArgs ELSE 0

LayoutInv ==
    /\ stage \in {"callFrame", "spill"} => csSize = 0
    /\ stage \in AfterSpill => csSize = 4 * Saves
    /\ \A o \in fixedObjs : o >= -4
    /\ stage \in AfterLayout =>
         /\ DOMAIN objOffset = 1 .. fn.locals
         /\ \A i \in 1 .. fn.locals : objOffset[i] <= -8
         /\ stackSize = 4 * Saves + 4 * fn.locals + CallArea
    /\ exit # <<>>

TypeInv == TypeOK /\ LayoutInv

\* What TypeOK says of the function being compiled.
LEMMA ShapeType ==
    ASSUME fn \in Shapes
    PROVE  /\ fn.locals \in Nat /\ fn.outArgs \in Nat /\ fn.inArgs \in Nat
           /\ fn.hasCalls \in BOOLEAN /\ fn.varSized \in BOOLEAN
           /\ fn.used \subseteq Regs
           /\ CallArea \in Nat
BY ShapesAssumption DEF FunctionShape, CallArea

\* The compiler starts well typed.
LEMMA InitType == Init => TypeInv
<1> SUFFICES ASSUME Init PROVE TypeInv
  OBVIOUS
<1> USE DEF Init
<1>1. fn.locals \in Nat /\ fn.inArgs \in Nat
  BY ShapeType
<1>2. exit \in Seq(Instr) /\ exit # <<>> /\ entry \in Seq(Instr)
  BY OtherInstr DEF OtherOps
<1>3. reg \in [Regs -> Value]
  BY DEF Old, Value
<1>4. DOMAIN mem \subseteq Int /\ \A a \in DOMAIN mem : mem[a] \in Value
  <2>1. DOMAIN mem \subseteq Int
    BY <1>1 DEF Word
  <2>2. ASSUME NEW k \in 0 .. fn.inArgs - 1
        PROVE  (4 + 4 * k) \div 4 - 1 \in Nat
    BY <1>1
  <2> QED BY <2>1, <2>2, <1>1 DEF Word, Value, RetAddr, InArg
<1>5. fixedObjs \subseteq Int /\ \A o \in fixedObjs : o >= -4
  BY <1>1 DEF Word
<1>6. DOMAIN objOffset = {}
  OBVIOUS
<1> QED
  BY <1>2, <1>3, <1>4, <1>5, <1>6
  DEF TypeInv, TypeOK, LayoutInv, Stages, AfterSpill, AfterLayout

\* A store keeps memory well typed.
LEMMA StoreType ==
    ASSUME NEW m, DOMAIN m \subseteq Int, \A a \in DOMAIN m : m[a] \in Value,
           NEW s, DOMAIN s \subseteq Int, \A a \in DOMAIN s : s[a] \in Value
    PROVE  /\ DOMAIN Store(m, s) \subseteq Int
           /\ \A a \in DOMAIN Store(m, s) : Store(m, s)[a] \in Value
BY DEF Store

\* So does forgetting the words below an address.
LEMMA AboveType ==
    ASSUME TypeOK, NEW b \in Int
    PROVE  /\ DOMAIN Above(b) \subseteq Int
           /\ \A a \in DOMAIN Above(b) : Above(b)[a] \in Value
BY DEF Above, TypeOK

\* The hooks of the compiler preserve the types.
LEMMA CompileType == TypeInv /\ Compile => TypeInv'
<1> SUFFICES ASSUME TypeInv, Compile PROVE TypeInv'
  OBVIOUS
<1> USE DEF TypeInv
<1>0. fn \in Shapes
  BY DEF TypeOK
<1>1. CASE EliminateCallFramePseudoInstr
  BY <1>1 DEF EliminateCallFramePseudoInstr, TypeOK, LayoutInv, Stages, AfterSpill,
     AfterLayout, compileVars, machineVars, CallArea, Saves, CSI, CalleeSavedRegs
<1>2. CASE SpillCalleeSavedRegisters
  <2> DEFINE push == MI(IF Cardinality(CSI(fn)) > 1 THEN "PUSHA" ELSE "PUSH_R", CSI(fn), 0)
  <2>1. fn' = fn /\ Saves' = Saves /\ Saves \in Nat /\ (CSI(fn) = {} => Saves = 0)
    BY <1>2, <1>0, CSIFinite
    DEF SpillCalleeSavedRegisters, Saves, CSI, CalleeSavedRegs
  <2>2. CSI(fn) # {} => push \in Instr
    BY <1>0, CSIFinite, StackInstr DEF StackOps
  <2>3. entry' \in Seq(Instr)
    BY <1>2, <2>2 DEF SpillCalleeSavedRegisters, TypeOK
  <2>4. csSize' \in Nat /\ (stage = "spill" /\ CSI(fn) # {} => csSize' = 4 * Saves)
        /\ (CSI(fn) = {} => csSize' = csSize)
    BY <1>2, <2>1 DEF SpillCalleeSavedRegisters, Saves, Word, TypeOK
  <2> HIDE DEF push
  <2>5. TypeOK'
    BY <1>2, <2>1, <2>3, <2>4
    DEF SpillCalleeSavedRegisters, TypeOK, Stages, machineVars
  <2>6. CSI(fn) = {} => csSize' = 0
    BY <1>2, <2>4 DEF SpillCalleeSavedRegisters, LayoutInv
  <2> QED
    BY <1>2, <2>1, <2>4, <2>5, <2>6
    DEF SpillCalleeSavedRegisters, LayoutInv, AfterSpill, AfterLayout, machineVars
<1>3. CASE RestoreCalleeSavedRegisters
  <2> DEFINE pop == MI(IF Cardinality(CSI(fn)) > 1 THEN "POPA" ELSE "POP_R", CSI(fn), 0)
  <2>1. CSI(fn) # {} => pop \in Instr
    BY <1>0, CSIFinite, StackInstr DEF StackOps
  <2>2. exit' \in Seq(Instr) /\ exit' # <<>>
    BY <1>3, <2>1 DEF RestoreCalleeSavedRegisters, TypeOK, LayoutInv
  <2> HIDE DEF pop
  <2> QED
    BY <1>3, <2>2
    DEF RestoreCalleeSavedRegisters, TypeOK, LayoutInv, Stages, AfterSpill,
        AfterLayout, machineVars, Saves, CSI, CalleeSavedRegs
<1>4. CASE ProcessFunctionBeforeFrameFinalized
  <2>1. fixedObjs' \subseteq Int /\ \A o \in fixedObjs' : o >= -4
    BY <1>4 DEF ProcessFunctionBeforeFrameFinalized, TypeOK, LayoutInv
  <2> QED
    BY <1>4, <2>1
    DEF ProcessFunctionBeforeFrameFinalized, TypeOK, LayoutInv, Stages, AfterSpill,
        AfterLayout, machineVars, Saves, CSI, CalleeSavedRegs
<1>5. CASE CalculateFrameObjectOffsets
  <2>1. PICK start \in {4} \cup {-o : o \in fixedObjs} :
          LET locals == start + 4 * Saves
          IN  /\ start >= 4
              /\ objOffset' = [i \in 1 .. fn.locals |-> -(locals + 4 * i)]
              /\ stackSize' = locals + 4 * fn.locals + CallArea - 4
    BY <1>5 DEF CalculateFrameObjectOffsets, Saves, CallArea, Word, LocalAreaSize
  <2>2. start = 4
    BY <2>1 DEF TypeOK, LayoutInv
  <2>3. fn.locals \in Nat /\ CallArea \in Nat /\ Saves \in Nat
    BY <1>0, CSIFinite, ShapeType DEF Saves
  <2>4. fn' = fn /\ Saves' = Saves /\ CallArea' = CallArea
    BY <1>5 DEF CalculateFrameObjectOffsets, Saves, CSI, CalleeSavedRegs, CallArea
  <2>5. /\ DOMAIN objOffset' = 1 .. fn.locals
        /\ \A i \in 1 .. fn.locals : objOffset'[i] \in Int /\ objOffset'[i] <= -8
        /\ stackSize' \in Int
        /\ stackSize' = 4 * Saves + 4 * fn.locals + CallArea
    BY <2>1, <2>2, <2>3
  <2>6. TypeOK'
    BY <1>5, <2>4, <2>5
    DEF CalculateFrameObjectOffsets, TypeOK, Stages, machineVars
  <2> QED
    BY <1>5, <2>4, <2>5, <2>6
    DEF CalculateFrameObjectOffsets, LayoutInv, AfterSpill, AfterLayout, machineVars
<1>6. CASE EmitPrologue
  <2>1. NumBytes \in Int
    BY DEF NumBytes, TypeOK
  <2>2. AdjustBy("SUB_SP", NumBytes) \in Seq(Instr)
    BY <2>1, AdjustByType DEF AdjustOps
  <2>3. MI("PUSH_R", {FP}, 0) \in Instr /\ MI("MOV_FP_SP", {}, 0) \in Instr
    BY FPReg, StackInstr, OtherInstr DEF StackOps, OtherOps
  <2>4. PICK k \in 0 .. Len(entry) :
          entry' = (IF HasFP(fn) THEN <<MI("PUSH_R", {FP}, 0), MI("MOV_FP_SP", {}, 0)>>
                                 ELSE <<>>)
                     \o SubSeq(entry, 1, k)
                     \o AdjustBy("SUB_SP", NumBytes)
                     \o SubSeq(entry, k + 1, Len(entry))
    BY <1>6 DEF EmitPrologue
  <2>5. Len(entry) \in Nat /\ entry \in Seq(Instr)
    BY DEF TypeOK
  <2>6. SubSeq(entry, 1, k) \in Seq(Instr) /\ SubSeq(entry, k + 1, Len(entry)) \in Seq(Instr)
    BY <2>5, SubCode
  <2>7. (IF HasFP(fn) THEN <<MI("PUSH_R", {FP}, 0), MI("MOV_FP_SP", {}, 0)>> ELSE <<>>)
          \in Seq(Instr)
    BY <2>3
  <2>8. entry' \in Seq(Instr)
    BY <2>2, <2>4, <2>6, <2>7, ConcatProperties
  <2> QED
    BY <1>6, <2>8
    DEF EmitPrologue, TypeOK, LayoutInv, Stages, AfterSpill, AfterLayout, machineVars,
        Saves, CSI, CalleeSavedRegs, CallArea
<1>7. CASE EmitEpilogue
  <2>1. FreeFrame \in Seq(Instr)
    <3>1. NumBytes \in Int /\ csSize \in Int
      BY DEF NumBytes, TypeOK
    <3>2. AdjustBy("SUB_SP", csSize) \in Seq(Instr) /\ AdjustBy("ADD_SP", NumBytes) \in Seq(Instr)
      BY <3>1, AdjustByType DEF AdjustOps
    <3>3. MI("MOV_SP_FP", {}, 0) \in Instr
      BY OtherInstr DEF OtherOps
    <3> QED BY <3>2, <3>3 DEF FreeFrame
  <2>2. ExitWithPopFP \in Seq(Instr)
    <3>1. exit \in Seq(Instr) /\ Len(exit) \in Nat /\ Len(exit) # 0
      BY DEF TypeOK, LayoutInv
    <3>2. exit[Len(exit)] \in Instr
      BY <3>1, ElementOfSeq
    <3>3. SubSeq(exit, 1, Len(exit) - 1) \in Seq(Instr)
      BY <3>1, SubCode
    <3>4. MI("POP_R", {FP}, 0) \in Instr
      BY FPReg, StackInstr DEF StackOps
    <3> QED BY <3>1, <3>2, <3>3, <3>4 DEF ExitWithPopFP
  <2> DEFINE code == ExitWithPopFP
  <2>3. PICK k \in 1 .. Len(code) :
          exit' = SubSeq(code, 1, k - 1) \o FreeFrame \o SubSeq(code, k, Len(code))
    BY <1>7 DEF EmitEpilogue
  <2> HIDE DEF code
  <2>4. code \in Seq(Instr) /\ Len(code) \in Nat
    BY <2>2 DEF code
  <2>5. SubSeq(code, 1, k - 1) \in Seq(Instr) /\ SubSeq(code, k, Len(code)) \in Seq(Instr)
    BY <2>4, SubCode
  <2>6. Len(SubSeq(code, k, Len(code))) >= 1
    BY <2>4
  <2>7. exit' \in Seq(Instr) /\ Len(exit') >= 1
    <3>1. SubSeq(code, 1, k - 1) \o FreeFrame \in Seq(Instr)
      BY <2>1, <2>5, ConcatProperties
    <3>2. Len(SubSeq(code, 1, k - 1) \o FreeFrame) \in Nat
      BY <3>1
    <3> DEFINE front == SubSeq(code, 1, k - 1) \o FreeFrame
               back  == SubSeq(code, k, Len(code))
    <3>3. exit' = front \o back
      BY <2>3
    <3> HIDE DEF front, back
    <3>4. /\ front \in Seq(Instr) /\ back \in Seq(Instr)
          /\ Len(front) \in Nat /\ Len(back) \in Nat /\ Len(back) >= 1
      BY <2>5, <2>6, <3>1, <3>2 DEF front, back
    <3> QED BY <3>3, <3>4, ConcatProperties
  <2>8. exit' # <<>>
    BY <2>7
  <2> QED
    BY <1>7, <2>7, <2>8
    DEF EmitEpilogue, TypeOK, LayoutInv, Stages, AfterSpill, AfterLayout, machineVars,
        Saves, CSI, CalleeSavedRegs, CallArea
<1> QED
  BY <1>1, <1>2, <1>3, <1>4, <1>5, <1>6, <1>7 DEF Compile

\* LayoutInv is about the compiler's variables and how far the stage is.
LEMMA LayoutKept ==
    ASSUME LayoutInv, UNCHANGED <<fn, compileVars>>,
           stage' = stage \/ (stage \in AfterLayout /\ stage' \in AfterLayout)
    PROVE  LayoutInv'
BY DEF LayoutInv, compileVars, AfterSpill, AfterLayout, Saves, CSI, CalleeSavedRegs,
       CallArea

\* An instruction that is fetched is one of the code's.
LEMMA Fetched ==
    ASSUME TypeOK, NEW ops, Fetch(ops)
    PROVE  /\ Code[ip] \in Instr /\ Code[ip].regs \subseteq Regs
           /\ Code[ip].imm \in Int /\ IsFiniteSet(Code[ip].regs)
           /\ Cardinality(Code[ip].regs) \in Nat
           /\ stage \in {"entry", "exit"} /\ ip \in Nat /\ ip' = ip + 1
<1>1. Code \in Seq(Instr) /\ ip \in 1 .. Len(Code)
  BY DEF Fetch, Code, TypeOK
<1>2. Code[ip] \in Instr
  BY <1>1, ElementOfSeq
<1>3. Code[ip].regs \subseteq Regs /\ Code[ip].imm \in Int
  BY <1>2 DEF Instr
<1>4. IsFiniteSet(Code[ip].regs)
  BY <1>3, RegsFinite, FS_Subset
<1> QED BY <1>1, <1>2, <1>3, <1>4, FS_CardinalityType DEF Fetch

\* Reading memory yields a value.
LEMMA LoadType == ASSUME TypeOK, NEW a PROVE Load(a) \in Value
BY DEF Load, TypeOK, Value, Junk

\* The address eliminateFrameIndex computes is a number.
LEMMA AddrType ==
    ASSUME TypeOK, NEW o \in Int
    PROVE  FrameIndexAddr(o) \in Int
BY DEF FrameIndexAddr, TypeOK

\* The machine preserves the types.
LEMMA ExecuteType == TypeInv /\ Execute => TypeInv'
<1> SUFFICES ASSUME TypeInv, Execute PROVE TypeInv'
  OBVIOUS
<1> USE DEF TypeInv
<1>0. fn \in Shapes
  BY DEF TypeOK
<1>1. CASE Push
  <2> DEFINE list == Code[ip].regs
             At(r) == sp - Word * Depth(list, r)
             saved == [a \in {At(r) : r \in list} |-> reg[CHOOSE r \in list : At(r) = a]]
  <2>1. /\ list \subseteq Regs /\ IsFiniteSet(list) /\ Cardinality(list) \in Nat
        /\ stage \in {"entry", "exit"} /\ ip' \in Nat
    BY <1>1, Fetched DEF Push
  <2>2. \A r \in list : At(r) \in Int
    BY <2>1, DepthPositive DEF TypeOK, Word
  <2>3. DOMAIN saved \subseteq Int
    BY <2>2
  <2>4. \A a \in DOMAIN saved : saved[a] \in Value
    BY <2>1 DEF TypeOK
  <2>5. mem' = Store(mem, saved) /\ sp' = sp - 4 * Cardinality(list)
    BY <1>1 DEF Push, Word
  <2> HIDE DEF saved
  <2>6. DOMAIN mem' \subseteq Int /\ \A a \in DOMAIN mem' : mem'[a] \in Value
    BY <2>3, <2>4, <2>5, StoreType DEF TypeOK
  <2>7. sp' \in Int /\ ip' \in Nat
    BY <2>1, <2>5 DEF TypeOK
  <2>8. UNCHANGED <<fn, stage, compileVars, base, reg, written, inCall>>
    BY <1>1 DEF Push
  <2> HIDE DEF list
  <2>9. TypeOK'
    BY <2>6, <2>7, <2>8 DEF TypeOK, compileVars
  <2> QED BY <2>8, <2>9, LayoutKept
<1>2. CASE Pop
  <2>1. /\ Cardinality(Code[ip].regs) \in Nat /\ ip' \in Nat
    BY <1>2, Fetched DEF Pop
  <2>2. reg' \in [Regs -> Value] /\ sp' \in Int
    BY <1>2, <2>1, LoadType DEF Pop, TypeOK, Word
  <2>3. TypeOK'
    BY <1>2, <2>1, <2>2 DEF Pop, TypeOK, compileVars
  <2> QED BY <1>2, <2>3, LayoutKept DEF Pop
<1>3. CASE SetFP
  <2>1. ip' \in Nat
    BY <1>3, Fetched DEF SetFP
  <2>2. reg' \in [Regs -> Value]
    BY <1>3 DEF SetFP, TypeOK, Base, Value
  <2>3. TypeOK'
    BY <1>3, <2>1, <2>2 DEF SetFP, TypeOK, compileVars
  <2> QED BY <1>3, <2>3, LayoutKept DEF SetFP
<1>4. CASE ResetSP
  <2>1. ip' \in Nat
    BY <1>4, Fetched DEF ResetSP
  <2>2. TypeOK'
    BY <1>4, <2>1 DEF ResetSP, TypeOK, compileVars
  <2> QED BY <1>4, <2>2, LayoutKept DEF ResetSP
<1>5. CASE AdjustSP
  <2>1. ip' \in Nat /\ Code[ip].imm \in Int
    BY <1>5, Fetched DEF AdjustSP
  <2>2. sp' \in Int
    BY <1>5, <2>1 DEF AdjustSP, TypeOK
  <2>3. TypeOK'
    BY <1>5, <2>1, <2>2 DEF AdjustSP, TypeOK, compileVars
  <2> QED BY <1>5, <2>3, LayoutKept DEF AdjustSP
<1>6. CASE Return
  <2>1. ip' \in Nat /\ stage \in {"entry", "exit"}
    BY <1>6, Fetched DEF Return
  <2>2. TypeOK'
    BY <1>6, <2>1 DEF Return, TypeOK, compileVars, Word, Stages
  <2> QED BY <1>6, <2>1, <2>2, LayoutKept DEF Return, AfterLayout
<1>7. CASE EnterBody
  <2>1. TypeOK'
    BY <1>7 DEF EnterBody, TypeOK, compileVars, machineVars, Stages
  <2> QED BY <1>7, <2>1, LayoutKept DEF EnterBody, AfterLayout
<1>8. CASE LeaveBody
  <2>1. TypeOK'
    BY <1>8 DEF LeaveBody, TypeOK, compileVars, Stages
  <2> QED BY <1>8, <2>1, LayoutKept DEF LeaveBody, AfterLayout
<1>9. CASE UseRegister
  <2>1. Junk \in Value
    BY DEF Junk, Value
  <2>2. reg' \in [Regs -> Value]
    BY <1>9, <2>1 DEF UseRegister, TypeOK
  <2>3. TypeOK'
    BY <1>9, <2>2 DEF UseRegister, TypeOK, compileVars
  <2> QED BY <1>9, <2>3, LayoutKept DEF UseRegister
<1>10. CASE StoreLocal
  <2>1. PICK i \in 1 .. fn.locals :
          /\ mem' = Store(mem, [a \in {FrameIndexAddr(objOffset[i])} |-> Local(i)])
          /\ written' = written \cup {i}
    BY <1>10 DEF StoreLocal
  <2>2. objOffset[i] \in Int
    BY <1>10 DEF StoreLocal, LayoutInv, AfterLayout, TypeOK
  <2>3. FrameIndexAddr(objOffset[i]) \in Int
    BY <2>2, AddrType
  <2>4. Local(i) \in Value
    BY <1>0, ShapeType DEF Local, Value
  <2> DEFINE cell == [a \in {FrameIndexAddr(objOffset[i])} |-> Local(i)]
  <2>5. DOMAIN cell \subseteq Int /\ \A a \in DOMAIN cell : cell[a] \in Value
    BY <2>3, <2>4
  <2> HIDE DEF cell
  <2>6. DOMAIN mem' \subseteq Int /\ \A a \in DOMAIN mem' : mem'[a] \in Value
    BY <2>1, <2>5, StoreType DEF TypeOK, cell
  <2>7. TypeOK'
    BY <1>10, <2>1, <2>6 DEF StoreLocal, TypeOK, compileVars
  <2> QED BY <1>10, <2>7, LayoutKept DEF StoreLocal
<1>11. CASE Alloca
  <2>1. TypeOK'
    BY <1>11 DEF Alloca, TypeOK, compileVars, Word
  <2> QED BY <1>11, <2>1, LayoutKept DEF Alloca
<1>12. CASE StartCall
  <2>1. fn.outArgs \in Nat /\ CallFrameBytes \in Nat
    BY <1>0, ShapeType DEF CallFrameBytes, Word
  <2>2. sp' = sp - CallFrameBytes /\ sp' \in Int
    BY <1>12, <2>1 DEF StartCall, TypeOK
  <2> DEFINE cells == [a \in {sp' + Word * k : k \in 0 .. fn.outArgs - 1} |->
                         OutArg((a - sp') \div Word)]
  <2>3. DOMAIN cells \subseteq Int
    BY <2>1, <2>2 DEF Word
  <2>4. ASSUME NEW k \in 0 .. fn.outArgs - 1
        PROVE  ((sp' + 4 * k) - sp') \div 4 \in Nat
    BY <2>1, <2>2
  <2>5. \A a \in DOMAIN cells : cells[a] \in Value
    BY <2>4 DEF Word, OutArg, Value
  <2>6. mem' = Store(mem, cells)
    BY <1>12 DEF StartCall
  <2> HIDE DEF cells
  <2>7. DOMAIN mem' \subseteq Int /\ \A a \in DOMAIN mem' : mem'[a] \in Value
    BY <2>3, <2>5, <2>6, StoreType DEF TypeOK
  <2>8. TypeOK'
    BY <1>12, <2>2, <2>7 DEF StartCall, TypeOK, compileVars
  <2> QED BY <1>12, <2>8, LayoutKept DEF StartCall
<1>13. CASE Call
  <2>1. fn.outArgs \in Nat /\ CallFrameBytes \in Nat
    BY <1>0, ShapeType DEF CallFrameBytes, Word
  <2>2. sp' \in Int /\ sp + Word * fn.outArgs \in Int
    BY <1>13, <2>1 DEF Call, TypeOK, Word
  <2>3. reg' \in [Regs -> Value]
    BY <1>13 DEF Call, TypeOK, Junk, Value
  <2>4. DOMAIN mem' \subseteq Int /\ \A a \in DOMAIN mem' : mem'[a] \in Value
    BY <1>13, <2>2, AboveType DEF Call
  <2>5. TypeOK'
    BY <1>13, <2>2, <2>3, <2>4 DEF Call, TypeOK, compileVars
  <2> QED BY <1>13, <2>5, LayoutKept DEF Call
<1>14. CASE Interrupt
  <2>1. DOMAIN mem' \subseteq Int /\ \A a \in DOMAIN mem' : mem'[a] \in Value
    BY <1>14, AboveType DEF Interrupt, TypeOK
  <2>2. TypeOK'
    BY <1>14, <2>1 DEF Interrupt, TypeOK, compileVars
  <2> QED BY <1>14, <2>2, LayoutKept DEF Interrupt
<1> QED
  BY <1>1, <1>2, <1>3, <1>4, <1>5, <1>6, <1>7, <1>8, <1>9, <1>10, <1>11, <1>12,
     <1>13, <1>14 DEF Execute

\* Nothing moves in a stuttering step.
\* A stutter preserves the types.
LEMMA StutterType == TypeInv /\ UNCHANGED vars => TypeInv'
BY DEF TypeInv, TypeOK, LayoutInv, vars, compileVars, machineVars, Saves, CSI,
       CalleeSavedRegs, CallArea

\* TypeInv is an invariant: the base of every other proof.
THEOREM TypeInvariant == Spec => []TypeInv
<1>1. TypeInv /\ [Next]_vars => TypeInv'
  BY CompileType, ExecuteType, StutterType DEF Next
<1> QED BY <1>1, InitType, PTL DEF Spec

\* Every variable keeps its type: no step of the compiler emits a push or a
\* pop of nothing or an adjustment by zero.
THEOREM TypeCorrect == Spec => []TypeOK
BY TypeInvariant, PTL DEF TypeInv

-----------------------------------------------------------------------------
(* How code moves SP.  Takes(fp, code, a, b) says that code, started with  *)
(* SP at a, ends with SP at b, and that SP is never above the return       *)
(* address on the way; fp says whether FP holds the frame base -4.  It      *)
(* composes, so the loops of the prologue and epilogue                     *)
(* that choose where an adjustment goes need no enumeration of the results.*)

Moves(fp, i, a, b) ==
    /\ a <= 0
    /\ i.op \in {"PUSH_R", "PUSHA"} => b = a - 4 * Cardinality(i.regs)
    /\ i.op \in {"POP_R", "POPA"}   => b = a + 4 * Cardinality(i.regs)
    /\ i.op = "SUB_SP" => b = a - i.imm
    /\ i.op = "ADD_SP" => b = a + i.imm
    /\ i.op = "MOV_FP_SP" => fp /\ a = -4 /\ b = a
    /\ i.op = "MOV_SP_FP" => fp /\ b = -4
    /\ i.op = "RET" => a = 0 /\ b = 4

Trace(fp, code, a, b, h) ==
    /\ h[1] = a /\ h[Len(code) + 1] = b
    /\ \A i \in 1 .. Len(code) : Moves(fp, code[i], h[i], h[i + 1])

Takes(fp, code, a, b) == \E h \in [1 .. Len(code) + 1 -> Int] : Trace(fp, code, a, b, h)

\* No code leaves SP where it is.
LEMMA TakesNone == ASSUME NEW fp, NEW a \in Int PROVE Takes(fp, <<>>, a, a)
<1>1. [i \in 1 .. 1 |-> a] \in [1 .. Len(<<>>) + 1 -> Int]
  OBVIOUS
<1>2. Trace(fp, <<>>, a, a, [i \in 1 .. 1 |-> a])
  BY DEF Trace
<1> QED BY <1>1, <1>2 DEF Takes

\* One instruction moves SP the way Moves says.
LEMMA TakesOne ==
    ASSUME NEW fp, NEW i \in Instr, NEW a \in Int, NEW b \in Int, Moves(fp, i, a, b)
    PROVE  Takes(fp, <<i>>, a, b)
<1> DEFINE h == [k \in 1 .. 2 |-> IF k = 1 THEN a ELSE b]
<1>1. h \in [1 .. Len(<<i>>) + 1 -> Int]
  OBVIOUS
<1>2. Trace(fp, <<i>>, a, b, h)
  BY DEF Trace
<1> QED BY <1>1, <1>2 DEF Takes

\* Code after code moves SP by one after the other.
LEMMA TakesConcat ==
    ASSUME NEW fp, NEW s \in Seq(Instr), NEW t \in Seq(Instr), NEW a, NEW b, NEW c,
           Takes(fp, s, a, b), Takes(fp, t, b, c)
    PROVE  Takes(fp, s \o t, a, c)
<1>1. PICK f \in [1 .. Len(s) + 1 -> Int] : Trace(fp, s, a, b, f)
  BY DEF Takes
<1>2. PICK g \in [1 .. Len(t) + 1 -> Int] : Trace(fp, t, b, c, g)
  BY DEF Takes
<1>3. /\ Len(s) \in Nat /\ Len(t) \in Nat /\ Len(s \o t) = Len(s) + Len(t)
      /\ \A i \in 1 .. Len(s) : (s \o t)[i] = s[i]
      /\ \A i \in Len(s) + 1 .. Len(s) + Len(t) : (s \o t)[i] = t[i - Len(s)]
  BY ConcatProperties, LenProperties
<1> DEFINE h == [i \in 1 .. Len(s) + Len(t) + 1 |->
                   IF i <= Len(s) THEN f[i] ELSE g[i - Len(s)]]
<1>4. h \in [1 .. Len(s \o t) + 1 -> Int]
  BY <1>3
<1>5. f[Len(s) + 1] = g[1]
  BY <1>1, <1>2 DEF Trace
<1>6. h[1] = a /\ h[Len(s \o t) + 1] = c
  BY <1>1, <1>2, <1>3, <1>5 DEF Trace
<1>7. ASSUME NEW i \in 1 .. Len(s \o t) PROVE Moves(fp, (s \o t)[i], h[i], h[i + 1])
  <2>1. CASE i <= Len(s)
    <3>1. Moves(fp, s[i], f[i], f[i + 1])
      BY <1>1, <1>3, <2>1 DEF Trace
    <3>2. (s \o t)[i] = s[i] /\ h[i] = f[i] /\ h[i + 1] = f[i + 1]
      BY <1>3, <1>5, <2>1
    <3> QED BY <3>1, <3>2
  <2>2. CASE i > Len(s)
    <3> DEFINE j == i - Len(s)
    <3>1. j \in 1 .. Len(t)
      BY <1>3, <2>2
    <3>2. (s \o t)[i] = t[j] /\ h[i] = g[j] /\ h[i + 1] = g[j + 1]
      BY <1>3, <2>2
    <3>3. \A k \in 1 .. Len(t) : Moves(fp, t[k], g[k], g[k + 1])
      BY <1>2 DEF Trace
    <3> HIDE DEF j
    <3>4. Moves(fp, t[j], g[j], g[j + 1])
      BY <3>1, <3>3
    <3> QED BY <3>2, <3>4
  <2> QED BY <1>3, <2>1, <2>2
<1>8. Trace(fp, s \o t, a, c, h)
  BY <1>6, <1>7 DEF Trace
<1> QED BY <1>4, <1>8 DEF Takes

\* AdjustBy moves SP by its amount, also when that is zero and it is empty.
LEMMA TakesAdjust ==
    ASSUME NEW fp, NEW a \in Int, a <= 0, NEW n \in Int
    PROVE  /\ Takes(fp, AdjustBy("SUB_SP", n), a, a - n)
           /\ Takes(fp, AdjustBy("ADD_SP", n), a, a + n)
<1>1. CASE n = 0
  <2>1. AdjustBy("SUB_SP", n) = <<>> /\ AdjustBy("ADD_SP", n) = <<>>
    BY <1>1 DEF AdjustBy
  <2> QED BY <1>1, <2>1, TakesNone
<1>2. CASE n # 0
  <2>1. MI("SUB_SP", {}, n) \in Instr /\ MI("ADD_SP", {}, n) \in Instr
    BY <1>2 DEF MI, Instr, AdjustOps
  <2>2. Moves(fp, MI("SUB_SP", {}, n), a, a - n) /\ Moves(fp, MI("ADD_SP", {}, n), a, a + n)
    BY DEF Moves, MI
  <2>3. /\ AdjustBy("SUB_SP", n) = <<MI("SUB_SP", {}, n)>>
        /\ AdjustBy("ADD_SP", n) = <<MI("ADD_SP", {}, n)>>
    BY <1>2 DEF AdjustBy
  <2> QED BY <2>1, <2>2, <2>3, TakesOne
<1> QED BY <1>1, <1>2

\* Code appended later leaves the second instruction where it is.
LEMMA SecondKept ==
    ASSUME NEW s \in Seq(Instr), NEW t \in Seq(Instr), NEW u \in Seq(Instr), Len(s) = 2
    PROVE  Len((s \o t) \o u) >= 2 /\ ((s \o t) \o u)[2] = s[2]
<1>1. /\ s \o t \in Seq(Instr) /\ Len(s \o t) = 2 + Len(t) /\ Len(t) \in Nat
      /\ (s \o t)[2] = s[2]
  <2>1. Len(t) \in Nat /\ 2 \in 1 .. Len(s) + Len(t)
    BY LenProperties
  <2>2. s \o t \in Seq(Instr) /\ Len(s \o t) = Len(s) + Len(t)
    BY ConcatProperties
  <2>3. (s \o t)[2] = IF 2 <= Len(s) THEN s[2] ELSE t[2 - Len(s)]
    BY <2>1, ConcatProperties
  <2> QED BY <2>1, <2>2, <2>3
<1>2. /\ Len((s \o t) \o u) = Len(s \o t) + Len(u) /\ Len(u) \in Nat
      /\ \A i \in 1 .. Len(s \o t) + Len(u) :
           ((s \o t) \o u)[i] = IF i <= Len(s \o t) THEN (s \o t)[i] ELSE u[i - Len(s \o t)]
  BY <1>1, ConcatProperties, LenProperties
<1> QED BY <1>1, <1>2

\* The code before its last instruction.
LEMMA DropLast ==
    ASSUME NEW s \in Seq(Instr), NEW r \in Instr
    PROVE  /\ SubSeq(s \o <<r>>, 1, Len(s \o <<r>>) - 1) = s
           /\ (s \o <<r>>)[Len(s \o <<r>>)] = r
<1>1. Len(s) \in Nat /\ <<r>> \in Seq(Instr) /\ Len(<<r>>) = 1
  OBVIOUS
<1>2. Len(s \o <<r>>) = Len(s) + 1 /\ (s \o <<r>>)[Len(s) + 1] = r
  BY <1>1, ConcatProperties
<1>3. CASE Len(s) = 0
  <2>1. s = <<>>
    BY <1>3, EmptySeq
  <2>2. SubSeq(s \o <<r>>, 1, 0) = <<>>
    BY SubSeqEmpty
  <2> QED BY <1>2, <1>3, <2>1, <2>2
<1>4. CASE Len(s) # 0
  <2>1. SubSeq(s \o <<r>>, 1, Len(s)) = SubSeq(s, 1, Len(s))
    BY <1>1, <1>4, SubSeqOfConcat1
  <2> QED BY <1>1, <1>2, <2>1, SubSeqFull
<1> QED BY <1>3, <1>4

-----------------------------------------------------------------------------
(* What the compiler has emitted, stage by stage.                          *)

FPBytes == IF HasFP(fn) THEN 4 ELSE 0

PushCode ==
    IF CSI(fn) = {} THEN <<>>
    ELSE <<MI(IF Cardinality(CSI(fn)) > 1 THEN "PUSHA" ELSE "PUSH_R", CSI(fn), 0)>>
PopCode ==
    IF CSI(fn) = {} THEN <<>>
    ELSE <<MI(IF Cardinality(CSI(fn)) > 1 THEN "POPA" ELSE "POP_R", CSI(fn), 0)>>
RetCode == <<MI("RET", {}, 0)>>

EntryInstr == {i \in Instr : i.op \notin {"MOV_SP_FP", "RET"}}

\* From stage "epilogue" on: the entry code takes SP to the frame's bottom,
\* and sets FP by its second instruction if there is a frame pointer.
EntryDone ==
    /\ Takes(HasFP(fn), entry, 0, -stackSize)
    /\ entry \in Seq(EntryInstr)
    /\ HasFP(fn) => Len(entry) >= 2 /\ entry[2].op = "MOV_FP_SP"

\* From stage "entry" on: the exit code returns from wherever the body can
\* leave SP.
ExitDone ==
    /\ exit[Len(exit)].op = "RET"
    /\ \A a \in Int : a <= 0 /\ (fn.varSized \/ a = -stackSize) => Takes(HasFP(fn), exit, a, 4)

CodeInv ==
    /\ stage \in {"callFrame", "spill"} => entry = <<>>
    /\ stage \in {"restore", "finalize", "layout", "prologue"} => entry = PushCode
    /\ stage \in {"callFrame", "spill", "restore"} => exit = RetCode
    /\ stage \in {"finalize", "layout", "prologue", "epilogue"} => exit = PopCode \o RetCode
    /\ stage \in {"epilogue", "entry", "body", "exit", "returned"} => EntryDone
    /\ stage \in {"entry", "body", "exit", "returned"} => ExitDone

\* A frame of variable size saves at most one register: PUSHA and POPA do
\* not stand where the epilogue of such a frame needs them.
Balanced == \A f \in Shapes : f.varSized => Cardinality(CSI(f)) <= 1

\* The pieces of code the hooks insert, and how each moves SP.
LEMMA Pieces ==
    ASSUME TypeInv
    PROVE  /\ PushCode \in Seq(Instr) /\ PopCode \in Seq(Instr) /\ RetCode \in Seq(Instr)
           /\ PushCode \in Seq(EntryInstr)
           /\ \A a \in Int : a <= 0 => /\ Takes(HasFP(fn), PushCode, a, a - 4 * Saves)
                                      /\ Takes(HasFP(fn), PopCode, a, a + 4 * Saves)
           /\ Takes(HasFP(fn), RetCode, 0, 4)
           /\ Saves \in Nat
<1>1. fn \in Shapes
  BY DEF TypeInv, TypeOK
<1>2. /\ CSI(fn) \subseteq Regs /\ Saves \in Nat /\ (CSI(fn) = {} => Saves = 0)
  BY <1>1, CSIFinite DEF Saves
<1>3. MI("RET", {}, 0) \in Instr /\ Moves(HasFP(fn), MI("RET", {}, 0), 0, 4)
  BY OtherInstr DEF OtherOps, Moves, MI
<1>4. RetCode \in Seq(Instr) /\ Takes(HasFP(fn), RetCode, 0, 4)
  BY <1>3, TakesOne DEF RetCode
<1>5. CASE CSI(fn) = {}
  <2>1. PushCode = <<>> /\ PopCode = <<>> /\ Saves = 0
    BY <1>2, <1>5 DEF PushCode, PopCode
  <2> QED BY <1>4, <2>1, TakesNone
<1>6. CASE CSI(fn) # {}
  <2> DEFINE push == MI(IF Cardinality(CSI(fn)) > 1 THEN "PUSHA" ELSE "PUSH_R", CSI(fn), 0)
             pop  == MI(IF Cardinality(CSI(fn)) > 1 THEN "POPA" ELSE "POP_R", CSI(fn), 0)
  <2>1. PushCode = <<push>> /\ PopCode = <<pop>>
    BY <1>6 DEF PushCode, PopCode
  <2>2. push \in Instr /\ pop \in Instr
    BY <1>2, <1>6, StackInstr DEF StackOps
  <2>3. push \in EntryInstr
    BY <2>2 DEF EntryInstr, MI
  <2>4. ASSUME NEW a \in Int, a <= 0
        PROVE  Moves(HasFP(fn), push, a, a - 4 * Saves) /\ Moves(HasFP(fn), pop, a, a + 4 * Saves)
    BY <2>4 DEF Moves, MI, Saves
  <2> HIDE DEF push, pop
  <2>5. ASSUME NEW a \in Int, a <= 0
        PROVE  Takes(HasFP(fn), PushCode, a, a - 4 * Saves) /\ Takes(HasFP(fn), PopCode, a, a + 4 * Saves)
    BY <1>2, <2>1, <2>2, <2>4, <2>5, TakesOne
  <2>6. /\ PushCode \in Seq(Instr) /\ PopCode \in Seq(Instr)
        /\ PushCode \in Seq(EntryInstr)
    BY <2>1, <2>2, <2>3
  <2> QED BY <1>2, <1>4, <2>5, <2>6
<1> QED BY <1>5, <1>6

\* The bytes the prologue and the epilogue move SP by.
LEMMA FrameBytes ==
    ASSUME TypeInv, stage \in AfterLayout
    PROVE  /\ Saves \in Nat /\ csSize = 4 * Saves
           /\ NumBytes \in Int /\ NumBytes = stackSize - FPBytes - 4 * Saves
           /\ stackSize \in Nat /\ stackSize >= 4 * Saves
           /\ FPBytes \in Nat
<1>1. fn \in Shapes
  BY DEF TypeInv, TypeOK
<1>2. Saves \in Nat /\ fn.locals \in Nat /\ CallArea \in Nat
  BY <1>1, CSIFinite, ShapeType DEF Saves
<1> QED
  BY <1>2 DEF TypeInv, LayoutInv, AfterLayout, AfterSpill, NumBytes, FPBytes

\* The prologue's code does its work wherever its loop stopped.
LEMMA PrologueDone ==
    ASSUME TypeInv, CodeInv, EmitPrologue
    PROVE  EntryDone'
<1> DEFINE front == IF HasFP(fn) THEN <<MI("PUSH_R", {FP}, 0), MI("MOV_FP_SP", {}, 0)>>
                                 ELSE <<>>
           adjust == AdjustBy("SUB_SP", NumBytes)
<1>1. /\ stage = "prologue" /\ fn' = fn /\ stackSize' = stackSize
      /\ entry = PushCode
  BY DEF EmitPrologue, CodeInv
<1>2. /\ Saves \in Nat /\ stackSize \in Nat /\ FPBytes \in Nat /\ stackSize >= 4 * Saves
      /\ NumBytes \in Int /\ NumBytes = stackSize - FPBytes - 4 * Saves
  BY <1>1, FrameBytes DEF AfterLayout
<1>3. PICK k \in 0 .. Len(entry) :
        entry' = front \o SubSeq(entry, 1, k) \o adjust \o SubSeq(entry, k + 1, Len(entry))
  BY DEF EmitPrologue
<1>4. /\ entry \in Seq(Instr) /\ entry \in Seq(EntryInstr) /\ Len(entry) <= 1
      /\ Len(entry) \in Nat
      /\ \A a \in Int : a <= 0 => Takes(HasFP(fn), entry, a, a - 4 * Saves)
  <2>1. Len(PushCode) <= 1
    BY DEF PushCode
  <2> QED BY <1>1, <2>1, Pieces
<1>5. /\ front \in Seq(Instr) /\ front \in Seq(EntryInstr)
      /\ Takes(HasFP(fn), front, 0, -FPBytes)
      /\ HasFP(fn) => Len(front) = 2 /\ front[2].op = "MOV_FP_SP"
  <2>1. CASE HasFP(fn)
    <3> DEFINE push == MI("PUSH_R", {FP}, 0)
               move == MI("MOV_FP_SP", {}, 0)
    <3>1. push \in Instr /\ move \in Instr
      BY FPReg, StackInstr, OtherInstr DEF StackOps, OtherOps
    <3>2. push \in EntryInstr /\ move \in EntryInstr
      BY <3>1 DEF EntryInstr, MI
    <3>3. Moves(HasFP(fn), push, 0, -4) /\ Moves(HasFP(fn), move, -4, -4)
      <4>1. Cardinality({FP}) = 1
        BY FS_Singleton
      <4> QED BY <2>1, <4>1 DEF Moves, MI
    <3>4. move.op = "MOV_FP_SP"
      BY DEF MI
    <3>5. front = <<push, move>> /\ FPBytes = 4
      BY <2>1 DEF FPBytes
    <3> HIDE DEF push, move, front
    <3>6. Takes(HasFP(fn), front, 0, -4)
      <4> DEFINE h == [i \in 1 .. 3 |-> IF i = 1 THEN 0 ELSE -4]
      <4>1. h \in [1 .. Len(front) + 1 -> Int]
        BY <3>5
      <4>2. Trace(HasFP(fn), front, 0, -4, h)
        BY <3>3, <3>5 DEF Trace
      <4> QED BY <4>1, <4>2 DEF Takes
    <3> QED BY <3>1, <3>2, <3>4, <3>5, <3>6
  <2>2. CASE ~HasFP(fn)
    <3>1. front = <<>> /\ FPBytes = 0
      BY <2>2 DEF FPBytes
    <3> QED BY <2>2, <3>1, TakesNone
  <2> QED BY <2>1, <2>2
<1>6. /\ adjust \in Seq(Instr) /\ adjust \in Seq(EntryInstr)
      /\ \A a \in Int : a <= 0 => Takes(HasFP(fn), adjust, a, a - NumBytes)
  <2>1. adjust \in Seq(Instr)
    BY <1>2, AdjustByType DEF AdjustOps
  <2>2. adjust \in Seq(EntryInstr)
    <3>1. CASE NumBytes = 0
      BY <3>1 DEF AdjustBy
    <3>2. CASE NumBytes # 0
      <4>1. MI("SUB_SP", {}, NumBytes) \in EntryInstr
        BY <1>2, <3>2 DEF MI, EntryInstr, Instr, AdjustOps
      <4> QED BY <4>1, <3>2 DEF AdjustBy
    <3> QED BY <3>1, <3>2
  <2> QED BY <1>2, <2>1, <2>2, TakesAdjust
<1> HIDE DEF front, adjust
<1>7. CASE k = Len(entry)
  <2> DEFINE mid == -FPBytes - 4 * Saves
  <2>1. SubSeq(entry, 1, k) = entry /\ SubSeq(entry, k + 1, Len(entry)) = <<>>
    BY <1>4, <1>7, SubSeqFull, SubSeqEmpty
  <2>2. front \o entry \in Seq(Instr) /\ (front \o entry) \o adjust \in Seq(Instr)
    BY <1>4, <1>5, <1>6, ConcatProperties
  <2>3. entry' = (front \o entry) \o adjust
    BY <1>3, <2>1, <2>2, ConcatEmptySeq
  <2>4. Takes(HasFP(fn), entry, -FPBytes, mid)
    BY <1>2, <1>4
  <2>5. mid \in Int /\ mid <= 0 /\ mid - NumBytes = -stackSize
    BY <1>2
  <2> HIDE DEF mid
  <2>6. Takes(HasFP(fn), adjust, mid, -stackSize)
    BY <1>6, <2>5
  <2>7. Takes(HasFP(fn), front \o entry, 0, mid)
    BY <1>4, <1>5, <2>4, TakesConcat
  <2>8. Takes(HasFP(fn), entry', 0, -stackSize)
    BY <1>6, <2>2, <2>3, <2>6, <2>7, TakesConcat
  <2>9. entry' \in Seq(EntryInstr)
    BY <1>4, <1>5, <1>6, <2>3, ConcatProperties
  <2>10. HasFP(fn) => Len(entry') >= 2 /\ entry'[2] = front[2]
    BY <1>4, <1>5, <1>6, <2>3, SecondKept
  <2> QED BY <1>1, <1>5, <2>8, <2>9, <2>10 DEF EntryDone
<1>8. CASE k # Len(entry)
  <2> DEFINE mid == -FPBytes - NumBytes
  <2>1. k = 0 /\ k + 1 = 1
    BY <1>4, <1>8
  <2>2. SubSeq(entry, 1, k) = <<>> /\ SubSeq(entry, k + 1, Len(entry)) = entry
    BY <1>4, <2>1, SubSeqFull, SubSeqEmpty
  <2>3. front \o <<>> = front
    BY <1>5, ConcatEmptySeq
  <2>4. entry' = (front \o adjust) \o entry /\ front \o adjust \in Seq(Instr)
    BY <1>3, <1>5, <1>6, <2>2, <2>3, ConcatProperties
  <2>5. Takes(HasFP(fn), adjust, -FPBytes, mid)
    BY <1>2, <1>6
  <2>6. mid \in Int /\ mid <= 0 /\ mid - 4 * Saves = -stackSize
    BY <1>2
  <2> HIDE DEF mid
  <2>7. Takes(HasFP(fn), entry, mid, -stackSize)
    BY <1>4, <2>6
  <2>8. Takes(HasFP(fn), front \o adjust, 0, mid)
    BY <1>5, <1>6, <2>5, TakesConcat
  <2>9. Takes(HasFP(fn), entry', 0, -stackSize)
    BY <1>4, <2>4, <2>7, <2>8, TakesConcat
  <2>10. entry' \in Seq(EntryInstr)
    BY <1>4, <1>5, <1>6, <2>4, ConcatProperties
  <2>11. HasFP(fn) => Len(entry') >= 2 /\ entry'[2] = front[2]
    BY <1>4, <1>5, <1>6, <2>4, SecondKept
  <2> QED BY <1>1, <1>5, <2>9, <2>10, <2>11 DEF EntryDone
<1> QED BY <1>7, <1>8

\* The exit code before the epilogue frees the frame: the pops of the saved
\* registers, and then the pop of FP and RET.
TailCode == IF HasFP(fn) THEN <<MI("POP_R", {FP}, 0)>> \o RetCode ELSE RetCode

LEMMA ExitParts ==
    ASSUME TypeInv, exit = PopCode \o RetCode
    PROVE  /\ ExitWithPopFP = PopCode \o TailCode
           /\ TailCode \in Seq(Instr) /\ Len(TailCode) \in 1 .. 2
           /\ TailCode[Len(TailCode)].op = "RET"
           /\ Len(TailCode) = 2 => TailCode[1].op = "POP_R"
           /\ Takes(HasFP(fn), TailCode, -FPBytes, 4)
<1> DEFINE pop == MI("POP_R", {FP}, 0)
           ret == MI("RET", {}, 0)
<1>1. pop \in Instr /\ ret \in Instr /\ RetCode = <<ret>>
  BY FPReg, StackInstr, OtherInstr DEF StackOps, OtherOps, RetCode
<1>2. pop.op = "POP_R" /\ ret.op = "RET"
  BY DEF MI
<1>3. Moves(HasFP(fn), pop, -4, 0)
  <2>1. Cardinality({FP}) = 1
    BY FS_Singleton
  <2> QED BY <2>1 DEF Moves, MI
<1>4. PopCode \in Seq(Instr) /\ Takes(HasFP(fn), RetCode, 0, 4)
  BY Pieces
<1> HIDE DEF pop, ret
<1>5. CASE HasFP(fn)
  <2>1. TailCode = <<pop>> \o <<ret>> /\ FPBytes = 4
    BY <1>1, <1>5 DEF TailCode, FPBytes, pop
  <2>2. SubSeq(exit, 1, Len(exit) - 1) = PopCode /\ exit[Len(exit)] = ret
    BY <1>1, <1>4, DropLast
  <2>3. ExitWithPopFP = (PopCode \o <<pop>>) \o <<ret>>
    BY <1>5, <2>2 DEF ExitWithPopFP, pop
  <2>4. <<pop>> \in Seq(Instr) /\ <<ret>> \in Seq(Instr)
    BY <1>1
  <2>5. ExitWithPopFP = PopCode \o TailCode
    BY <1>4, <2>1, <2>3, <2>4, ConcatAssociative
  <2>6. /\ TailCode \in Seq(Instr) /\ Len(TailCode) = 2
        /\ TailCode[1] = pop /\ TailCode[2] = ret
    BY <2>1, <2>4, ConcatProperties
  <2>7. Takes(HasFP(fn), <<pop>>, -4, 0)
    <3> DEFINE low == -4
    <3>1. low \in Int /\ Moves(HasFP(fn), pop, low, 0)
      BY <1>3
    <3> HIDE DEF low
    <3>2. pop \in Instr /\ 0 \in Int
      BY <1>1
    <3>3. Takes(HasFP(fn), <<pop>>, low, 0)
      BY <3>1, <3>2, TakesOne, Zenon
    <3> QED BY <3>3 DEF low
  <2>8. Takes(HasFP(fn), TailCode, -4, 4)
    BY <1>1, <1>4, <2>1, <2>4, <2>7, TakesConcat
  <2> QED BY <1>2, <2>1, <2>5, <2>6, <2>8
<1>6. CASE ~HasFP(fn)
  <2>1. TailCode = <<ret>> /\ FPBytes = 0 /\ ExitWithPopFP = PopCode \o TailCode
    BY <1>1, <1>6 DEF TailCode, FPBytes, ExitWithPopFP
  <2>2. Takes(HasFP(fn), TailCode, 0, 4)
    BY <1>1, <1>4, <2>1
  <2> QED BY <1>1, <1>2, <2>1, <2>2
<1> QED BY <1>5, <1>6

\* Arithmetic of an index k into a code of p pops and a tail of t.
LEMMA TailIndex ==
    ASSUME NEW p \in 0 .. 1, NEW t \in 1 .. 2, NEW k \in 1 .. p + t, k - 1 > p
    PROVE  t = 2 /\ k - 1 = p + 1
OBVIOUS

\* Where the backward loop stops: in front of all pops, or behind a POPA.
LEMMA LoopStops ==
    ASSUME TypeInv, exit = PopCode \o RetCode,
           NEW k \in 1 .. Len(ExitWithPopFP), SkipsPops(ExitWithPopFP, k)
    PROVE  k = 1 \/ (k = 2 /\ Len(PopCode) = 1 /\ Saves > 1)
<1> DEFINE code == ExitWithPopFP
<1>1. /\ code = PopCode \o TailCode /\ TailCode \in Seq(Instr)
      /\ Len(TailCode) \in 1 .. 2 /\ (Len(TailCode) = 2 => TailCode[1].op = "POP_R")
  BY ExitParts
<1>2. PopCode \in Seq(Instr)
  BY Pieces
<1>3. Len(PopCode) \in 0 .. 1
  BY DEF PopCode
<1>4. /\ Len(code) = Len(PopCode) + Len(TailCode)
      /\ \A i \in 1 .. Len(PopCode) + Len(TailCode) :
           code[i] = IF i <= Len(PopCode) THEN PopCode[i] ELSE TailCode[i - Len(PopCode)]
  BY <1>1, <1>2, ConcatProperties
<1>5. k > 1 => code[k - 1].op # "POP_R"
  BY DEF SkipsPops
<1>6. k \in 1 .. Len(code)
  OBVIOUS
<1> HIDE DEF code
<1>7. k > 1 => Len(PopCode) = 1 /\ k = 2
  <2> SUFFICES ASSUME k > 1 PROVE Len(PopCode) = 1 /\ k = 2
    OBVIOUS
  <2>1. k - 1 <= Len(PopCode)
    <3> SUFFICES ASSUME k - 1 > Len(PopCode) PROVE FALSE
      BY <1>3, <1>6
    <3>1. Len(TailCode) = 2 /\ k - 1 = Len(PopCode) + 1
      <4>1. k \in 1 .. Len(PopCode) + Len(TailCode)
        BY <1>4, <1>6
      <4> QED BY <1>1, <1>3, <4>1, TailIndex
    <3>2. code[k - 1] = TailCode[1]
      BY <1>3, <1>4, <3>1
    <3> QED BY <1>1, <1>5, <3>1, <3>2
  <2> QED BY <1>3, <1>6, <2>1
<1>8. k > 1 => Saves > 1
  <2> SUFFICES ASSUME k > 1 PROVE Saves > 1
    OBVIOUS
  <2>1. Len(PopCode) = 1 /\ code[1] = PopCode[1] /\ code[1].op # "POP_R"
    <3>1. Len(PopCode) = 1 /\ k - 1 = 1
      BY <1>7
    <3>2. 1 \in 1 .. Len(PopCode) + Len(TailCode)
      BY <1>1, <3>1
    <3>3. code[1] = PopCode[1]
      BY <1>4, <3>1, <3>2
    <3> QED BY <1>5, <3>1, <3>3
  <2>2. PopCode = <<MI(IF Cardinality(CSI(fn)) > 1 THEN "POPA" ELSE "POP_R", CSI(fn), 0)>>
    BY <2>1 DEF PopCode
  <2> QED BY <2>1, <2>2 DEF MI, Saves
<1> QED BY <1>6, <1>7, <1>8

\* What the epilogue inserts takes SP from where the body left it, or from
\* behind the pops, to where the rest of the exit code expects it.
LEMMA FreeMoves ==
    ASSUME TypeInv, stage \in AfterLayout, NEW a \in Int, a <= 0,
           fn.varSized \/ a = -stackSize
    PROVE  /\ FreeFrame \in Seq(Instr)
           /\ Takes(HasFP(fn), FreeFrame, a, -FPBytes - 4 * Saves)
           /\ ~fn.varSized => a + 4 * Saves <= 0
                              /\ Takes(HasFP(fn), FreeFrame, a + 4 * Saves, -FPBytes)
<1>1. /\ Saves \in Nat /\ csSize = 4 * Saves /\ csSize \in Int
      /\ NumBytes \in Int /\ NumBytes = stackSize - FPBytes - 4 * Saves
      /\ stackSize \in Nat /\ stackSize >= 4 * Saves /\ FPBytes \in Nat
  BY FrameBytes
<1>2. CASE fn.varSized
  <2> DEFINE move == MI("MOV_SP_FP", {}, 0)
             low == -4
             adjust == AdjustBy("SUB_SP", csSize)
  <2>1. HasFP(fn) /\ FPBytes = 4 /\ FreeFrame = <<move>> \o adjust
    BY <1>2 DEF HasFP, FPBytes, FreeFrame
  <2>2. move \in Instr /\ low \in Int /\ low <= 0 /\ Moves(HasFP(fn), move, a, low)
    BY <2>1, OtherInstr DEF OtherOps, Moves, MI
  <2>3. adjust \in Seq(Instr)
    BY <1>1, AdjustByType DEF AdjustOps
  <2>4. low - csSize = -FPBytes - 4 * Saves
    BY <1>1, <2>1
  <2> HIDE DEF move, low, adjust
  <2>5. Takes(HasFP(fn), adjust, low, low - csSize)
    BY <1>1, <2>2, TakesAdjust DEF adjust
  <2>6. Takes(HasFP(fn), <<move>>, a, low)
    BY <2>2, TakesOne
  <2>7. <<move>> \in Seq(Instr)
    BY <2>2
  <2>8. Takes(HasFP(fn), FreeFrame, a, low - csSize)
    BY <2>1, <2>3, <2>5, <2>6, <2>7, TakesConcat
  <2>9. FreeFrame \in Seq(Instr)
    BY <2>1, <2>3, <2>7, ConcatProperties
  <2> QED BY <1>2, <2>4, <2>8, <2>9
<1>3. CASE ~fn.varSized
  <2> DEFINE behind == a + 4 * Saves
  <2>1. FreeFrame = AdjustBy("ADD_SP", NumBytes)
    BY <1>3 DEF FreeFrame
  <2>2. /\ behind \in Int /\ behind <= 0
        /\ behind + NumBytes = -FPBytes /\ a + NumBytes = -FPBytes - 4 * Saves
    BY <1>1, <1>3
  <2>3. FreeFrame \in Seq(Instr)
    BY <1>1, <2>1, AdjustByType DEF AdjustOps
  <2>4. Takes(HasFP(fn), FreeFrame, a, a + NumBytes)
    BY <1>1, <2>1, TakesAdjust
  <2> HIDE DEF behind
  <2>5. Takes(HasFP(fn), FreeFrame, behind, behind + NumBytes)
    BY <1>1, <2>1, <2>2, TakesAdjust
  <2> QED BY <2>2, <2>3, <2>4, <2>5 DEF behind
<1> QED BY <1>2, <1>3

\* The last instruction of a concatenation.
LEMMA LastOfConcat ==
    ASSUME NEW s \in Seq(Instr), NEW t \in Seq(Instr), Len(t) > 0
    PROVE  (s \o t)[Len(s \o t)] = t[Len(t)]
<1> DEFINE p == Len(s)
           q == Len(t)
<1>1. p \in Nat /\ q \in Nat /\ q > 0
  BY LenProperties
<1>2. /\ Len(s \o t) = p + q
      /\ \A i \in 1 .. p + q : (s \o t)[i] = IF i <= p THEN s[i] ELSE t[i - p]
  BY ConcatProperties
<1> HIDE DEF p, q
<1>3. p + q \in 1 .. p + q /\ ~(p + q <= p) /\ (p + q) - p = q
  BY <1>1
<1> QED BY <1>2, <1>3 DEF q

\* The epilogue leaves exit code that returns from every SP the body can have.
LEMMA EpilogueDone ==
    ASSUME TypeInv, CodeInv, Balanced, EmitEpilogue
    PROVE  ExitDone'
<1> DEFINE code == ExitWithPopFP
<1>1. /\ stage = "epilogue" /\ fn' = fn /\ stackSize' = stackSize
      /\ exit = PopCode \o RetCode
  BY DEF EmitEpilogue, CodeInv
<1>2. PICK k \in 1 .. Len(code) :
        /\ SkipsPops(code, k)
        /\ exit' = SubSeq(code, 1, k - 1) \o FreeFrame \o SubSeq(code, k, Len(code))
  BY DEF EmitEpilogue
<1>3. /\ Saves \in Nat /\ FPBytes \in Nat /\ stackSize \in Nat
  BY <1>1, FrameBytes DEF AfterLayout
<1>4. /\ code = PopCode \o TailCode
      /\ TailCode \in Seq(Instr) /\ Len(TailCode) \in 1 .. 2
      /\ TailCode[Len(TailCode)].op = "RET"
      /\ Takes(HasFP(fn), TailCode, -FPBytes, 4)
  BY <1>1, ExitParts
<1>5. PopCode \in Seq(Instr)
      /\ \A a \in Int : a <= 0 => Takes(HasFP(fn), PopCode, a, a + 4 * Saves)
  BY Pieces
<1>6. k = 1 \/ (k = 2 /\ Len(PopCode) = 1 /\ Saves > 1)
  BY <1>1, <1>2, LoopStops
<1>7. \A a \in Int : a <= 0 /\ (fn.varSized \/ a = -stackSize) =>
        /\ FreeFrame \in Seq(Instr)
        /\ Takes(HasFP(fn), FreeFrame, a, -FPBytes - 4 * Saves)
        /\ ~fn.varSized => a + 4 * Saves <= 0
                           /\ Takes(HasFP(fn), FreeFrame, a + 4 * Saves, -FPBytes)
  BY <1>1, FreeMoves DEF AfterLayout
<1>8. FreeFrame \in Seq(Instr)
  <2>1. -stackSize \in Int /\ -stackSize <= 0
    BY <1>3
  <2> QED BY <1>7, <2>1
<1>9. ASSUME NEW s \in Seq(Instr)
      PROVE  (s \o TailCode)[Len(s \o TailCode)].op = "RET"
  <2>1. Len(TailCode) > 0
    <3>1. Len(TailCode) \in 1 .. 2
      BY <1>4, Zenon
    <3>2. \A n \in 1 .. 2 : n > 0
      OBVIOUS
    <3> QED BY <3>1, <3>2, Zenon
  <2>2. (s \o TailCode)[Len(s \o TailCode)] = TailCode[Len(TailCode)]
    BY <1>4, <2>1, LastOfConcat, Zenon
  <2> QED BY <1>4, <2>2, Zenon
<1> HIDE DEF code
<1>10. code \in Seq(Instr)
  BY <1>4, <1>5, ConcatProperties
<1>11. CASE k = 1
  <2>1. SubSeq(code, 1, k - 1) = <<>> /\ SubSeq(code, k, Len(code)) = code
    BY <1>10, <1>11, SubSeqEmpty, SubSeqFull
  <2>2. exit' = FreeFrame \o code
    BY <1>2, <1>8, <2>1, ConcatEmptySeq
  <2>3. exit' = (FreeFrame \o PopCode) \o TailCode /\ FreeFrame \o PopCode \in Seq(Instr)
    <3>1. FreeFrame \o PopCode \in Seq(Instr)
      BY <1>5, <1>8, ConcatProperties
    <3>2. FreeFrame \o (PopCode \o TailCode) = (FreeFrame \o PopCode) \o TailCode
      BY <1>4, <1>5, <1>8, ConcatAssociative
    <3>3. exit' = FreeFrame \o (PopCode \o TailCode)
      BY <1>4, <2>2
    <3> QED BY <3>1, <3>2, <3>3
  <2> DEFINE mid == -FPBytes - 4 * Saves
  <2>4. mid \in Int /\ mid <= 0 /\ mid + 4 * Saves = -FPBytes
    BY <1>3
  <2>5. ASSUME NEW a \in Int, a <= 0, fn.varSized \/ a = -stackSize
        PROVE  Takes(HasFP(fn), exit', a, 4)
    <3>1. Takes(HasFP(fn), FreeFrame, a, mid)
      BY <1>7, <2>5
    <3> HIDE DEF mid
    <3>2. Takes(HasFP(fn), PopCode, mid, -FPBytes)
      BY <1>5, <2>4
    <3>3. Takes(HasFP(fn), FreeFrame \o PopCode, a, -FPBytes)
      BY <1>5, <1>8, <3>1, <3>2, TakesConcat
    <3> QED BY <1>4, <2>3, <3>3, TakesConcat
  <2> QED BY <1>1, <1>9, <2>3, <2>5 DEF ExitDone
<1>12. CASE k # 1
  <2>1. k = 2 /\ Len(PopCode) = 1 /\ Saves > 1
    BY <1>6, <1>12
  <2>2. ~fn.varSized
    <3>1. fn \in Shapes
      BY DEF TypeInv, TypeOK
    <3> QED BY <1>3, <2>1, <3>1 DEF Balanced, Saves
  <2>3. Len(code) = 1 + Len(TailCode)
    BY <1>4, <1>5, <2>1, ConcatProperties
  <2>4. SubSeq(code, 1, k - 1) = PopCode
    <3>1. SubSeq(code, 1, 1) = SubSeq(PopCode, 1, 1)
      <4>1. 1 \in 1 .. Len(PopCode)
        BY <2>1
      <4> HIDE DEF TailCode, PopCode
      <4>2. SubSeq(PopCode \o TailCode, 1, 1) = SubSeq(PopCode, 1, 1)
        BY <1>4, <1>5, <4>1, SubSeqOfConcat1
      <4> QED BY <1>4, <4>2
    <3>2. SubSeq(PopCode, 1, 1) = PopCode
      BY <1>5, <2>1, SubSeqFull
    <3> QED BY <2>1, <3>1, <3>2
  <2>5. SubSeq(code, k, Len(code)) = TailCode
    <3>1. /\ 2 \in Len(PopCode) + 1 .. Len(PopCode) + Len(TailCode)
          /\ 1 + Len(TailCode) \in Len(PopCode) + 1 .. Len(PopCode) + Len(TailCode)
          /\ 2 - Len(PopCode) = 1 /\ 1 + Len(TailCode) - Len(PopCode) = Len(TailCode)
      BY <1>4, <2>1
    <3>2. SubSeq(code, 2, 1 + Len(TailCode)) = SubSeq(TailCode, 1, Len(TailCode))
      BY <1>4, <1>5, <3>1, SubSeqOfConcat2
    <3> QED BY <1>4, <2>1, <2>3, <3>2, SubSeqFull
  <2>6. exit' = (PopCode \o FreeFrame) \o TailCode /\ PopCode \o FreeFrame \in Seq(Instr)
    BY <1>2, <1>5, <1>8, <2>4, <2>5, ConcatProperties
  <2>7. ASSUME NEW a \in Int, a <= 0, fn.varSized \/ a = -stackSize
        PROVE  Takes(HasFP(fn), exit', a, 4)
    <3>1. Takes(HasFP(fn), FreeFrame, a + 4 * Saves, -FPBytes)
      BY <1>7, <2>2, <2>7
    <3>2. Takes(HasFP(fn), PopCode, a, a + 4 * Saves)
      BY <1>5, <2>7
    <3>3. Takes(HasFP(fn), PopCode \o FreeFrame, a, -FPBytes)
      BY <1>5, <1>8, <3>1, <3>2, TakesConcat
    <3> QED BY <1>4, <2>6, <3>3, TakesConcat
  <2> QED BY <1>1, <1>9, <2>6, <2>7 DEF ExitDone
<1> QED BY <1>11, <1>12

\* What the compiler has emitted stays a correct entry and exit.
LEMMA CodeInit == Init => CodeInv
BY DEF Init, CodeInv, RetCode

\* A step that leaves the compiler's variables alone keeps the code done.
LEMMA CodeKept ==
    ASSUME CodeInv, UNCHANGED <<fn, compileVars>>,
           stage' = stage \/ (stage \in {"entry", "body", "exit"}
                              /\ stage' \in {"entry", "body", "exit", "returned"})
    PROVE  CodeInv'
BY DEF CodeInv, compileVars, EntryDone, ExitDone, PushCode, PopCode, RetCode, CSI,
       CalleeSavedRegs

\* Every hook leaves the code in the shape the next one expects.
LEMMA CodeCompile ==
    ASSUME TypeInv, CodeInv, Balanced, Compile
    PROVE  CodeInv'
<1> DEFINE same == PushCode' = PushCode /\ PopCode' = PopCode /\ RetCode' = RetCode
<1>0. fn' = fn => same
  BY DEF PushCode, PopCode, RetCode, CSI, CalleeSavedRegs
<1> HIDE DEF same
<1>1. CASE EliminateCallFramePseudoInstr
  BY <1>1 DEF EliminateCallFramePseudoInstr, CodeInv, compileVars, RetCode
<1>2. CASE SpillCalleeSavedRegisters
  <2>1. stage = "spill" /\ stage' = "restore" /\ fn' = fn /\ exit' = exit /\ entry = <<>>
        /\ exit = RetCode
    BY <1>2 DEF SpillCalleeSavedRegisters, CodeInv
  <2>2. entry' = PushCode
    <3>1. CASE CSI(fn) = {}
      BY <1>2, <2>1, <3>1 DEF SpillCalleeSavedRegisters, PushCode
    <3>2. CASE CSI(fn) # {}
      <4> DEFINE push == MI(IF Cardinality(CSI(fn)) > 1 THEN "PUSHA" ELSE "PUSH_R", CSI(fn), 0)
      <4>1. entry' = <<push>> \o <<>> /\ PushCode = <<push>>
        BY <1>2, <2>1, <3>2 DEF SpillCalleeSavedRegisters, PushCode
      <4> HIDE DEF push
      <4>2. <<push>> \in Seq({push})
        OBVIOUS
      <4> QED BY <4>1, <4>2, ConcatEmptySeq
    <3> QED BY <3>1, <3>2
  <2> QED BY <1>0, <2>1, <2>2 DEF CodeInv, same
<1>3. CASE RestoreCalleeSavedRegisters
  <2>1. stage = "restore" /\ stage' = "finalize" /\ fn' = fn /\ entry' = entry
        /\ exit = RetCode /\ entry = PushCode
    BY <1>3 DEF RestoreCalleeSavedRegisters, CodeInv
  <2>2. exit' = PopCode \o RetCode
    <3>1. CASE CSI(fn) = {}
      <4>1. PopCode \o RetCode = RetCode
        BY <3>1, Pieces, ConcatEmptySeq DEF PopCode
      <4> QED BY <1>3, <2>1, <3>1, <4>1 DEF RestoreCalleeSavedRegisters
    <3>2. CASE CSI(fn) # {}
      BY <1>3, <2>1, <3>2 DEF RestoreCalleeSavedRegisters, PopCode
    <3> QED BY <3>1, <3>2
  <2> QED BY <1>0, <2>1, <2>2 DEF CodeInv, same
<1>4. CASE ProcessFunctionBeforeFrameFinalized
  BY <1>0, <1>4 DEF ProcessFunctionBeforeFrameFinalized, CodeInv, same
<1>5. CASE CalculateFrameObjectOffsets
  BY <1>0, <1>5 DEF CalculateFrameObjectOffsets, CodeInv, same
<1>6. CASE EmitPrologue
  <2>1. EntryDone'
    BY <1>6, PrologueDone
  <2> QED BY <1>0, <1>6, <2>1 DEF EmitPrologue, CodeInv, same
<1>7. CASE EmitEpilogue
  <2>1. ExitDone'
    BY <1>7, EpilogueDone
  <2>2. EntryDone'
    BY <1>7 DEF EmitEpilogue, CodeInv, EntryDone
  <2> QED BY <1>7, <2>1, <2>2 DEF EmitEpilogue, CodeInv
<1> QED BY <1>1, <1>2, <1>3, <1>4, <1>5, <1>6, <1>7 DEF Compile

-----------------------------------------------------------------------------
(* Where SP, the frame base and the return address are while the code runs.*)

Compiling == {"callFrame", "spill", "restore", "finalize", "layout", "prologue",
              "epilogue", "aborted"}

\* The words of the caller's frame the function relies on: its return address
\* and its stack arguments.
CallerWords == {0} \cup {4 + 4 * k : k \in 0 .. fn.inArgs - 1}
CallerInv ==
    \A a \in CallerWords :
        a \in DOMAIN mem /\ mem[a] = IF a = 0 THEN RetAddr ELSE InArg(a \div 4 - 1)

EntryRun ==
    /\ \E h \in [1 .. Len(entry) + 1 -> Int] :
         Trace(HasFP(fn), entry, 0, -stackSize, h) /\ sp = h[ip]
    /\ ip \in 1 .. Len(entry) + 1
    /\ HasFP(fn) /\ ip > 2 => base = -4
    /\ ~inCall

BodyRun ==
    /\ sp <= 0
    /\ ~fn.varSized => sp = -stackSize
    /\ HasFP(fn) => base = -4
    /\ inCall => sp + 4 * fn.outArgs <= 0

ExitRun ==
    /\ \E h \in [1 .. Len(exit) + 1 -> Int] :
         Trace(HasFP(fn), exit, h[1], 4, h) /\ sp = h[ip]
    /\ ip \in 1 .. Len(exit)
    /\ HasFP(fn) => base = -4

RunInv ==
    /\ CallerInv
    /\ stage \in Compiling => ip = 1 /\ sp = 0 /\ ~inCall
    /\ stage = "entry" => EntryRun
    /\ stage = "body" => BodyRun
    /\ stage = "exit" => ExitRun
    /\ stage = "returned" => sp = 4

\* Before the first hook the machine is at the function's first instruction.
LEMMA RunInit == Init => RunInv
<1> SUFFICES ASSUME Init PROVE RunInv
  OBVIOUS
<1>1. CallerInv
  BY DEF Init, CallerInv, CallerWords, Word
<1> QED BY <1>1 DEF Init, RunInv, Compiling

\* A step that leaves every word from SP at entry upwards as it is.
KeepsAbove == \A a \in DOMAIN mem : a >= 0 => a \in DOMAIN mem' /\ mem'[a] = mem[a]

\* Such a step keeps what the caller left there.
LEMMA CallerKept ==
    ASSUME TypeOK, CallerInv, KeepsAbove, fn' = fn
    PROVE  CallerInv'
<1>1. \A a \in CallerWords : a >= 0
  <2>1. fn.inArgs \in Nat
    BY ShapeType DEF TypeOK
  <2> QED BY <2>1 DEF CallerWords
<1> QED BY <1>1 DEF CallerInv, KeepsAbove, CallerWords

\* Stores below SP at entry are such steps.
LEMMA StoreKeeps ==
    ASSUME NEW s, \A a \in DOMAIN s : ~(a >= 0), mem' = Store(mem, s)
    PROVE  KeepsAbove
BY DEF Store, KeepsAbove

\* So is the use of the stack below an address that is not above it.
LEMMA AboveKeeps ==
    ASSUME TypeOK, NEW a \in Int, a <= 0, mem' = Above(a)
    PROVE  KeepsAbove
<1>1. \A c \in DOMAIN mem : c \in Int
  BY DEF TypeOK
<1> QED BY <1>1 DEF Above, KeepsAbove

Instruction == Push \/ Pop \/ SetFP \/ ResetSP \/ AdjustSP

\* An instruction moves SP the way Moves says and leaves the return address.
LEMMA InstructionMoves ==
    ASSUME TypeOK, Instruction,
           NEW b \in Int, Moves(HasFP(fn), Code[ip], sp, b),
           Code[ip].op = "MOV_SP_FP" => base = -4
    PROVE  /\ sp' = b /\ ip' = ip + 1
           /\ KeepsAbove
           /\ UNCHANGED <<fn, stage, compileVars, inCall>>
           /\ base' = base \/ base' = -4
           /\ Code[ip].op = "MOV_FP_SP" => base' = -4
           /\ Code[ip].op # "RET"
<1>1. sp \in Int /\ base \in Int
  BY DEF TypeOK
<1>2. CASE Push
  <2> DEFINE list == Code[ip].regs
             At(r) == sp - Word * Depth(list, r)
             s == [a \in {At(r) : r \in list} |-> reg[CHOOSE r \in list : At(r) = a]]
  <2>1. Code[ip].regs \subseteq Regs /\ IsFiniteSet(Code[ip].regs)
        /\ Code[ip].op \in {"PUSH_R", "PUSHA"} /\ ip' = ip + 1
    <3>1. Fetch({"PUSH_R", "PUSHA"})
      BY <1>2 DEF Push
    <3> QED BY <3>1, Fetched DEF Fetch
  <2>2. b = sp - 4 * Cardinality(Code[ip].regs) /\ sp <= 0
    BY <2>1 DEF Moves
  <2>3. \A a \in DOMAIN s : ~(a >= 0)
    <3> SUFFICES ASSUME NEW r \in list PROVE ~(At(r) >= 0)
      OBVIOUS
    <3>1. Depth(list, r) \in Nat \ {0}
      BY <2>1, DepthPositive
    <3> QED BY <1>1, <2>2, <3>1 DEF Word
  <2>4. mem' = Store(mem, s) /\ sp' = sp - Word * Cardinality(Code[ip].regs)
        /\ UNCHANGED <<fn, stage, compileVars, base, inCall>>
    BY <1>2 DEF Push
  <2> HIDE DEF s
  <2>5. KeepsAbove
    BY <2>3, <2>4, StoreKeeps
  <2> QED BY <2>1, <2>2, <2>4, <2>5 DEF Word
<1>3. CASE Pop
  <2>1. Fetch({"POP_R", "POPA"}) /\ sp' = sp + Word * Cardinality(Code[ip].regs)
        /\ UNCHANGED <<fn, stage, compileVars, base, mem, inCall>>
    BY <1>3 DEF Pop
  <2> QED BY <2>1 DEF KeepsAbove, Fetch, Moves, Word
<1>4. CASE SetFP
  <2>1. Fetch({"MOV_FP_SP"}) /\ base' = sp
        /\ UNCHANGED <<fn, stage, compileVars, sp, mem, inCall>>
    BY <1>4 DEF SetFP
  <2> QED BY <2>1 DEF KeepsAbove, Fetch, Moves
<1>5. CASE ResetSP
  <2>1. Fetch({"MOV_SP_FP"}) /\ sp' = base
        /\ UNCHANGED <<fn, stage, compileVars, base, mem, inCall>>
    BY <1>5 DEF ResetSP
  <2> QED BY <2>1 DEF KeepsAbove, Fetch, Moves
<1>6. CASE AdjustSP
  <2>1. Fetch({"SUB_SP", "ADD_SP"})
        /\ sp' = (IF Code[ip].op = "SUB_SP" THEN sp - Code[ip].imm ELSE sp + Code[ip].imm)
        /\ UNCHANGED <<fn, stage, compileVars, base, mem, inCall>>
    BY <1>6 DEF AdjustSP
  <2> QED BY <2>1 DEF KeepsAbove, Fetch, Moves
<1> QED BY <1>2, <1>3, <1>4, <1>5, <1>6 DEF Instruction

\* While a hook runs the machine has not started; the last hook hands over
\* with SP and ip at the start of the entry code.
LEMMA RunCompile ==
    ASSUME TypeInv, CodeInv, RunInv, Compile
    PROVE  RunInv'
<1>1. UNCHANGED machineVars /\ stage \in Compiling
  BY DEF Compile, Compiling, EliminateCallFramePseudoInstr, SpillCalleeSavedRegisters,
         RestoreCalleeSavedRegisters, ProcessFunctionBeforeFrameFinalized,
         CalculateFrameObjectOffsets, EmitPrologue, EmitEpilogue
<1>2. /\ CallerInv'
      /\ ip' = 1 /\ sp' = 0 /\ ~inCall'
  <2>1. fn' = fn
    BY DEF Compile, EliminateCallFramePseudoInstr, SpillCalleeSavedRegisters,
         RestoreCalleeSavedRegisters, ProcessFunctionBeforeFrameFinalized,
         CalculateFrameObjectOffsets, EmitPrologue, EmitEpilogue
  <2> QED BY <1>1, <2>1 DEF RunInv, machineVars, CallerInv, CallerWords
<1>3. CASE EmitEpilogue
  <2>1. stage = "epilogue" /\ stage' = "entry"
        /\ UNCHANGED <<fn, stackSize, entry>>
    BY <1>3 DEF EmitEpilogue
  <2>2. Takes(HasFP(fn), entry, 0, -stackSize) /\ entry \in Seq(EntryInstr)
    BY <2>1 DEF CodeInv, EntryDone
  <2>3. PICK h \in [1 .. Len(entry) + 1 -> Int] : Trace(HasFP(fn), entry, 0, -stackSize, h)
    BY <2>2 DEF Takes
  <2>4. h[1] = 0
    BY <2>3 DEF Trace
  <2>5. Len(entry) \in Nat /\ 1 \in 1 .. Len(entry) + 1
    BY <2>2, LenProperties
  <2>6. EntryRun'
    BY <1>2, <2>1, <2>3, <2>4, <2>5 DEF EntryRun
  <2> QED BY <1>2, <2>1, <2>6 DEF RunInv, Compiling
<1>4. CASE ~EmitEpilogue
  <2>1. stage' \in Compiling
    BY <1>4 DEF Compile, Compiling, EliminateCallFramePseudoInstr, SpillCalleeSavedRegisters,
           RestoreCalleeSavedRegisters, ProcessFunctionBeforeFrameFinalized,
           CalculateFrameObjectOffsets, EmitPrologue
  <2> QED BY <1>2, <2>1 DEF RunInv, Compiling
<1> QED BY <1>3, <1>4

\* The value SP has before instruction ip, and what that says of base.
LEMMA RunInstruction ==
    ASSUME TypeInv, CodeInv, RunInv, Instruction
    PROVE  RunInv'
<1>1. stage \in {"entry", "exit"} /\ ip \in 1 .. Len(Code)
  BY DEF Instruction, Push, Pop, SetFP, ResetSP, AdjustSP, Fetch
<1>2. CallerInv /\ TypeOK
  BY DEF RunInv, TypeInv
<1>3. Len(entry) \in Nat /\ Len(exit) \in Nat /\ ip \in Nat
  BY <1>2, LenProperties DEF TypeOK
<1>4. CASE stage = "entry"
  <2>1. Code = entry
    BY <1>4 DEF Code
  <2>2. PICK h \in [1 .. Len(entry) + 1 -> Int] :
          Trace(HasFP(fn), entry, 0, -stackSize, h) /\ sp = h[ip]
    BY <1>4 DEF RunInv, EntryRun
  <2>3. (HasFP(fn) /\ ip > 2 => base = -4) /\ ~inCall
    BY <1>4 DEF RunInv, EntryRun
  <2>4. ip \in 1 .. Len(entry) /\ ip + 1 \in 1 .. Len(entry) + 1
    BY <1>1, <1>3, <2>1
  <2>5. h[ip + 1] \in Int /\ Moves(HasFP(fn), Code[ip], sp, h[ip + 1])
    BY <2>1, <2>2, <2>4 DEF Trace
  <2>6. entry \in Seq(EntryInstr) /\ (HasFP(fn) => entry[2].op = "MOV_FP_SP")
    BY <1>4 DEF CodeInv, EntryDone
  <2>7. Code[ip].op # "MOV_SP_FP"
    <3>1. entry[ip] \in EntryInstr
      BY <2>4, <2>6, ElementOfSeq
    <3> QED BY <2>1, <3>1 DEF EntryInstr
  <2>8. /\ sp' = h[ip + 1] /\ ip' = ip + 1
        /\ KeepsAbove
        /\ UNCHANGED <<fn, stage, compileVars, inCall>>
        /\ base' = base \/ base' = -4
        /\ Code[ip].op = "MOV_FP_SP" => base' = -4
    BY <1>2, <2>5, <2>7, InstructionMoves
  <2>9. HasFP(fn) /\ ip' > 2 => base' = -4
    <3> SUFFICES ASSUME HasFP(fn), ip' > 2 PROVE base' = -4
      OBVIOUS
    <3>1. CASE ip = 2
      BY <2>1, <2>6, <2>8, <3>1
    <3>2. CASE ip # 2
      <4>1. ip > 2
        BY <1>3, <2>8, <3>2
      <4> QED BY <2>3, <2>8, <4>1
    <3> QED BY <3>1, <3>2
  <2>10. fn' = fn /\ stage' = stage /\ entry' = entry /\ stackSize' = stackSize /\ inCall' = inCall
    BY <2>8 DEF compileVars
  <2>11. EntryRun'
    <3>1. Trace(HasFP(fn), entry, 0, -stackSize, h) /\ sp' = h[ip'] /\ ip' \in 1 .. Len(entry) + 1
      BY <2>2, <2>4, <2>8
    <3>2. HasFP(fn)' = HasFP(fn)
      BY <2>10
    <3> QED BY <2>3, <2>9, <2>10, <3>1, <3>2 DEF EntryRun
  <2>12. CallerInv'
    BY <1>2, <2>8, <2>10, CallerKept
  <2> QED BY <1>4, <2>8, <2>10, <2>11, <2>12 DEF RunInv, Compiling
<1>5. CASE stage = "exit"
  <2>1. Code = exit
    BY <1>5 DEF Code
  <2>2. PICK h \in [1 .. Len(exit) + 1 -> Int] :
          Trace(HasFP(fn), exit, h[1], 4, h) /\ sp = h[ip]
    BY <1>5 DEF RunInv, ExitRun
  <2>3. HasFP(fn) => base = -4
    BY <1>5 DEF RunInv, ExitRun
  <2>4. ip \in 1 .. Len(exit) /\ ip + 1 \in 1 .. Len(exit) + 1
    BY <1>1, <1>3, <2>1
  <2>5. h[ip + 1] \in Int /\ Moves(HasFP(fn), Code[ip], sp, h[ip + 1])
    BY <2>1, <2>2, <2>4 DEF Trace
  <2>6. Code[ip].op = "MOV_SP_FP" => base = -4
    BY <2>3, <2>5 DEF Moves
  <2>7. /\ sp' = h[ip + 1] /\ ip' = ip + 1
        /\ KeepsAbove
        /\ UNCHANGED <<fn, stage, compileVars, inCall>>
        /\ base' = base \/ base' = -4
        /\ Code[ip].op # "RET"
    BY <1>2, <2>5, <2>6, InstructionMoves
  <2>8. exit[Len(exit)].op = "RET"
    BY <1>5 DEF CodeInv, ExitDone
  <2>9. ip # Len(exit)
    BY <2>1, <2>7, <2>8
  <2>10. ip' \in 1 .. Len(exit)
    BY <1>3, <2>4, <2>7, <2>9
  <2>11. fn' = fn /\ stage' = stage /\ exit' = exit
    BY <2>7 DEF compileVars
  <2>12. ExitRun'
    <3>1. HasFP(fn)' = HasFP(fn)
      BY <2>11
    <3> QED BY <2>2, <2>3, <2>7, <2>10, <2>11, <3>1 DEF ExitRun
  <2>13. CallerInv'
    BY <1>2, <2>7, <2>11, CallerKept
  <2> QED BY <1>5, <2>7, <2>11, <2>12, <2>13 DEF RunInv, Compiling
<1> QED BY <1>1, <1>4, <1>5

\* RET finds SP at the return address.
LEMMA RunReturn ==
    ASSUME TypeInv, CodeInv, RunInv, Return
    PROVE  RunInv'
<1>1. /\ stage \in {"entry", "exit"} /\ ip \in 1 .. Len(Code) /\ Code[ip].op = "RET"
      /\ stage' = "returned" /\ sp' = sp + 4 /\ mem' = mem /\ fn' = fn
  BY DEF Return, Fetch, Word
<1>0. CallerInv'
  BY <1>1 DEF RunInv, CallerInv, CallerWords
<1>2. CASE stage = "entry"
  <2>1. entry \in Seq(EntryInstr) /\ Code = entry
    BY <1>2 DEF CodeInv, EntryDone, Code
  <2>2. entry[ip] \in EntryInstr
    BY <1>1, <2>1, ElementOfSeq
  <2> QED BY <1>1, <2>1, <2>2 DEF EntryInstr
<1>3. CASE stage = "exit"
  <2>1. PICK h : Trace(HasFP(fn), exit, h[1], 4, h) /\ sp = h[ip]
    BY <1>3 DEF RunInv, ExitRun
  <2>2. Moves(HasFP(fn), exit[ip], sp, h[ip + 1])
    BY <1>1, <1>3, <2>1 DEF Trace, Code
  <2>3. sp = 0
    BY <1>1, <1>3, <2>2 DEF Moves, Code
  <2> QED BY <1>0, <1>1, <2>3 DEF RunInv, Compiling
<1> QED BY <1>1, <1>2, <1>3

\* The body starts at the frame's bottom and can leave from wherever it is.
LEMMA RunEnterLeave ==
    ASSUME TypeInv, CodeInv, RunInv, EnterBody \/ LeaveBody
    PROVE  RunInv'
<1>1. CallerInv'
  BY DEF RunInv, CallerInv, CallerWords, EnterBody, LeaveBody, machineVars
<1>2. CASE EnterBody
  <2>1. /\ stage = "entry" /\ ip > Len(entry) /\ stage' = "body"
        /\ UNCHANGED <<fn, stackSize, sp, base, mem, inCall>>
    BY <1>2 DEF EnterBody, compileVars, machineVars
  <2>2. PICK h \in [1 .. Len(entry) + 1 -> Int] :
          Trace(HasFP(fn), entry, 0, -stackSize, h) /\ sp = h[ip]
    BY <2>1 DEF RunInv, EntryRun
  <2>3. /\ ip \in 1 .. Len(entry) + 1 /\ ~inCall
        /\ HasFP(fn) /\ ip > 2 => base = -4
    BY <2>1 DEF RunInv, EntryRun
  <2>4. Len(entry) \in Nat /\ ip \in Nat
    BY LenProperties DEF TypeInv, TypeOK
  <2>5. ip = Len(entry) + 1
    BY <2>1, <2>3, <2>4
  <2>6. sp = -stackSize
    BY <2>2, <2>5 DEF Trace
  <2>7. HasFP(fn) => base = -4
    <3>1. HasFP(fn) => Len(entry) >= 2
      BY <2>1 DEF CodeInv, EntryDone
    <3> QED BY <2>3, <2>4, <2>5, <3>1
  <2>8. stackSize \in Nat
    BY <2>1, FrameBytes DEF AfterLayout
  <2>9. BodyRun'
    BY <2>1, <2>3, <2>6, <2>7, <2>8 DEF BodyRun
  <2> QED BY <1>1, <2>1, <2>9 DEF RunInv, Compiling
<1>3. CASE LeaveBody
  <2>1. /\ stage = "body" /\ stage' = "exit" /\ ip' = 1
        /\ UNCHANGED <<fn, exit, sp, base, mem>>
    BY <1>3 DEF LeaveBody, compileVars
  <2>2. /\ sp <= 0 /\ (~fn.varSized => sp = -stackSize) /\ (HasFP(fn) => base = -4)
        /\ sp \in Int
    BY <2>1 DEF RunInv, BodyRun, TypeInv, TypeOK
  <2>3. fn.varSized \in BOOLEAN
    BY ShapeType DEF TypeInv, TypeOK
  <2>4. Takes(HasFP(fn), exit, sp, 4)
    BY <2>1, <2>2, <2>3 DEF CodeInv, ExitDone
  <2>5. PICK h \in [1 .. Len(exit) + 1 -> Int] : Trace(HasFP(fn), exit, sp, 4, h)
    BY <2>4 DEF Takes
  <2>6. h[1] = sp
    BY <2>5 DEF Trace
  <2>7. 1 \in 1 .. Len(exit)
    <3>1. exit \in Seq(Instr) /\ exit # <<>>
      BY DEF TypeInv, TypeOK, LayoutInv
    <3> QED BY <3>1, EmptySeq, LenProperties
  <2>8. ExitRun'
    BY <2>1, <2>2, <2>5, <2>6, <2>7 DEF ExitRun
  <2> QED BY <1>1, <2>1, <2>8 DEF RunInv, Compiling
<1> QED BY <1>2, <1>3

\* What the body does moves SP only where the exit code can return from, and
\* stores only below SP at entry.
LEMMA RunBody ==
    ASSUME TypeInv, RunInv, UseRegister \/ StoreLocal \/ Alloca \/ StartCall \/ Call
    PROVE  RunInv'
<1>1. stage = "body" /\ stage' = "body" /\ UNCHANGED <<fn, stackSize, base>>
  BY DEF UseRegister, StoreLocal, Alloca, StartCall, Call, compileVars
<1>2. /\ sp <= 0 /\ (~fn.varSized => sp = -stackSize) /\ (HasFP(fn) => base = -4)
      /\ inCall => sp + 4 * fn.outArgs <= 0
  BY <1>1 DEF RunInv, BodyRun
<1>3. /\ TypeOK /\ fn \in Shapes /\ sp \in Int /\ base \in Int /\ stackSize \in Int
      /\ inCall \in BOOLEAN
  BY DEF TypeInv, TypeOK
<1>4. fn.outArgs \in Nat /\ fn.varSized \in BOOLEAN /\ fn.locals \in Nat
  BY <1>3, ShapeType
<1>5. /\ \A i \in 1 .. fn.locals : objOffset[i] <= -8 /\ objOffset[i] \in Int
      /\ stackSize = 4 * Saves + 4 * fn.locals + CallArea /\ Saves \in Nat
  BY <1>1, <1>3, CSIFinite DEF TypeInv, TypeOK, LayoutInv, AfterLayout, Saves
<1>6. HasFP(fn)' = HasFP(fn)
  BY <1>1
<1>7. CASE UseRegister
  <2>1. UNCHANGED <<sp, mem, inCall>>
    BY <1>7 DEF UseRegister
  <2> QED BY <1>1, <2>1 DEF RunInv, CallerInv, CallerWords, BodyRun, Compiling
<1>8. CASE StoreLocal
  <2>1. PICK i \in 1 .. fn.locals :
          mem' = Store(mem, [a \in {FrameIndexAddr(objOffset[i])} |-> Local(i)])
    BY <1>8 DEF StoreLocal
  <2>2. UNCHANGED <<sp, inCall>>
    BY <1>8 DEF StoreLocal
  <2>3. ~(FrameIndexAddr(objOffset[i]) >= 0)
    BY <1>2, <1>3, <1>4, <1>5 DEF FrameIndexAddr, HasFP
  <2>4. KeepsAbove
    BY <2>1, <2>3, StoreKeeps
  <2>5. CallerInv'
    BY <1>1, <1>3, <2>4, CallerKept DEF RunInv
  <2> QED BY <1>1, <1>2, <2>2, <2>5 DEF RunInv, BodyRun, Compiling
<1>9. CASE Alloca
  <2>1. fn.varSized /\ ~inCall /\ sp' = sp - 4 /\ UNCHANGED <<mem, inCall>>
    BY <1>9 DEF Alloca, Word
  <2> QED BY <1>1, <1>2, <1>3, <2>1 DEF RunInv, CallerInv, CallerWords, BodyRun, Compiling
<1>10. CASE StartCall
  <2> DEFINE s == [a \in {sp' + Word * k : k \in 0 .. fn.outArgs - 1} |->
                      OutArg((a - sp') \div Word)]
  <2>1. sp' = sp - CallFrameBytes /\ mem' = Store(mem, s) /\ fn.hasCalls /\ inCall' = TRUE
    BY <1>10 DEF StartCall
  <2>2. /\ sp' \in Int /\ sp' <= 0 /\ (~fn.varSized => sp' = -stackSize)
        /\ sp' + 4 * fn.outArgs <= 0
    BY <1>2, <1>3, <1>4, <1>5, <2>1
    DEF CallFrameBytes, HasReservedCallFrame, CallArea, Word
  <2>3. \A a \in DOMAIN s : ~(a >= 0)
    BY <1>4, <2>2 DEF Word
  <2> HIDE DEF s
  <2>4. KeepsAbove
    BY <2>1, <2>3, StoreKeeps
  <2>5. CallerInv'
    BY <1>1, <1>3, <2>4, CallerKept DEF RunInv
  <2> QED BY <1>1, <1>2, <2>1, <2>2, <2>5 DEF RunInv, BodyRun, Compiling
<1>11. CASE Call
  <2>1. /\ inCall /\ ~inCall' /\ mem' = Above(sp + Word * fn.outArgs)
        /\ sp' = sp + CallFrameBytes
    BY <1>11 DEF Call
  <2>2. sp + Word * fn.outArgs \in Int /\ sp + Word * fn.outArgs <= 0
    BY <1>2, <1>3, <1>4, <2>1 DEF Word
  <2>3. KeepsAbove
    BY <1>3, <2>1, <2>2, AboveKeeps
  <2>4. CallerInv'
    BY <1>1, <1>3, <2>3, CallerKept DEF RunInv
  <2>5. sp' <= 0 /\ (~fn.varSized => sp' = -stackSize)
    BY <1>2, <1>3, <1>4, <2>1, <2>2 DEF CallFrameBytes, HasReservedCallFrame, Word
  <2> QED BY <1>1, <1>2, <2>1, <2>4, <2>5 DEF RunInv, BodyRun, Compiling
<1> QED BY <1>7, <1>8, <1>9, <1>10, <1>11

\* SP is never above the return address, so an interrupt does not reach it.
LEMMA RunInterrupt ==
    ASSUME TypeInv, CodeInv, RunInv, Interrupt
    PROVE  RunInv'
<1>1. /\ stage \in {"entry", "body", "exit"} /\ mem' = Above(sp)
      /\ UNCHANGED <<fn, stage, entry, exit, stackSize, ip, sp, base, inCall>>
  BY DEF Interrupt, compileVars
<1>2. /\ TypeOK /\ sp \in Int /\ ip \in Nat /\ entry \in Seq(Instr) /\ Len(entry) \in Nat
  BY LenProperties DEF TypeInv, TypeOK
<1>3. sp <= 0
  <2>1. CASE stage = "entry"
    <3>1. PICK h : Trace(HasFP(fn), entry, 0, -stackSize, h) /\ sp = h[ip]
      BY <2>1 DEF RunInv, EntryRun
    <3>2. ip \in 1 .. Len(entry) + 1
      BY <2>1 DEF RunInv, EntryRun
    <3>3. CASE ip = Len(entry) + 1
      <4>1. sp = -stackSize
        BY <3>1, <3>3 DEF Trace
      <4>2. stackSize \in Nat
        BY <2>1, FrameBytes DEF AfterLayout
      <4> QED BY <4>1, <4>2
    <3>4. CASE ip # Len(entry) + 1
      <4>1. ip \in 1 .. Len(entry)
        BY <1>2, <3>2, <3>4
      <4> QED BY <3>1, <4>1 DEF Trace, Moves
    <3> QED BY <3>3, <3>4
  <2>2. CASE stage = "body"
    BY <2>2 DEF RunInv, BodyRun
  <2>3. CASE stage = "exit"
    <3>1. PICK h : Trace(HasFP(fn), exit, h[1], 4, h) /\ sp = h[ip]
      BY <2>3 DEF RunInv, ExitRun
    <3>2. ip \in 1 .. Len(exit)
      BY <2>3 DEF RunInv, ExitRun
    <3> QED BY <3>1, <3>2 DEF Trace, Moves
  <2> QED BY <1>1, <2>1, <2>2, <2>3
<1>4. KeepsAbove
  BY <1>1, <1>2, <1>3, AboveKeeps
<1>5. CallerInv'
  BY <1>1, <1>2, <1>4, CallerKept DEF RunInv
<1>6. (EntryRun => EntryRun') /\ (BodyRun => BodyRun') /\ (ExitRun => ExitRun')
  <2>1. HasFP(fn)' = HasFP(fn)
    BY <1>1
  <2> QED BY <1>1, <2>1 DEF EntryRun, BodyRun, ExitRun
<1> QED BY <1>1, <1>5, <1>6 DEF RunInv, Compiling

-----------------------------------------------------------------------------
(* The theorems.                                                           *)

IInv == TypeInv /\ CodeInv /\ RunInv

\* The invariant is inductive.
LEMMA IInvStep == ASSUME Balanced, IInv, [Next]_vars PROVE IInv'
<1>1. TypeInv'
  BY CompileType, ExecuteType, StutterType DEF IInv, Next
<1>2. CASE Compile
  BY <1>1, <1>2, CodeCompile, RunCompile DEF IInv
<1>3. CASE Execute
  <2>1. CodeInv'
    <3>1. UNCHANGED <<fn, compileVars>>
      BY <1>3 DEF Execute, Push, Pop, SetFP, ResetSP, AdjustSP, Return, EnterBody, LeaveBody,
                  UseRegister, StoreLocal, Alloca, StartCall, Call, Interrupt
    <3>2. stage' = stage \/ (stage \in {"entry", "body", "exit"}
                              /\ stage' \in {"entry", "body", "exit", "returned"})
      BY <1>3 DEF Execute, Push, Pop, SetFP, ResetSP, AdjustSP, Return, EnterBody, LeaveBody,
                  UseRegister, StoreLocal, Alloca, StartCall, Call, Interrupt, Fetch
    <3> QED BY <3>1, <3>2, CodeKept DEF IInv
  <2>2. RunInv'
    BY <1>3, RunInstruction, RunReturn, RunEnterLeave, RunBody, RunInterrupt
    DEF IInv, Execute, Instruction
  <2> QED BY <1>1, <2>1, <2>2 DEF IInv
<1>4. CASE UNCHANGED vars
  <2>1. CodeInv'
    BY <1>4, CodeKept DEF IInv, vars
  <2>2. HasFP(fn)' = HasFP(fn)
    BY <1>4 DEF vars
  <2>3. RunInv'
    BY <1>4, <2>2 DEF IInv, vars, compileVars, machineVars, RunInv, CallerInv, CallerWords,
                      EntryRun, BodyRun, ExitRun, Compiling
  <2> QED BY <1>1, <2>1, <2>3 DEF IInv
<1> QED BY <1>2, <1>3, <1>4 DEF Next

(* The strengthening of ReturnsToCaller and FrameIndexAgrees that every    *)
(* step of PEI and of the machine preserves.                               *)
THEOREM RunInvariant == ASSUME Balanced PROVE Spec => []IInv
<1>1. Init => IInv
  BY InitType, CodeInit, RunInit DEF IInv
<1>2. IInv /\ [Next]_vars => IInv'
  BY IInvStep
<1> QED BY <1>1, <1>2, PTL DEF Spec

(* Every function whose frame is not of variable size, or that saves at    *)
(* most one register, returns to its caller with the caller's SP: wherever *)
(* the loops of emitPrologue and emitEpilogue put the adjustments of SP,   *)
(* whatever the body does with its frame, and whenever an interrupt comes. *)
THEOREM Returns == ASSUME Balanced PROVE Spec => []ReturnsToCaller
<1>1. IInv => ReturnsToCaller
  <2> SUFFICES ASSUME IInv, stage = "returned" PROVE sp = Word /\ Load(0) = RetAddr
    BY DEF ReturnsToCaller
  <2>1. CallerInv /\ sp = 4
    BY DEF IInv, RunInv
  <2> QED BY <2>1 DEF CallerInv, CallerWords, Load, Word
<1> QED BY <1>1, RunInvariant, PTL

(* In such a function the body reaches every local where the layout put it *)
(* and reads every stack argument where the caller put it, through the     *)
(* single frame size that eliminateFrameIndex adds.                        *)
THEOREM FrameIndexCorrect == ASSUME Balanced PROVE Spec => []FrameIndexAgrees
<1>1. IInv => FrameIndexAgrees
  <2> SUFFICES ASSUME IInv, stage = "body"
               PROVE  /\ \A i \in 1 .. fn.locals :
                           FrameIndexAddr(objOffset[i]) = ObjectAddr(objOffset[i])
                      /\ \A k \in 0 .. fn.inArgs - 1 : Load(FrameIndexAddr(Word * k)) = InArg(k)
    BY DEF FrameIndexAgrees
  <2>1. /\ sp \in Int /\ base \in Int /\ stackSize \in Int
        /\ ~fn.varSized => sp = -stackSize
        /\ HasFP(fn) => base = -4
        /\ CallerInv
    BY DEF IInv, TypeInv, TypeOK, RunInv, BodyRun
  <2>2. ASSUME NEW o \in Int PROVE FrameIndexAddr(o) = o + 4
    BY <2>1 DEF FrameIndexAddr, HasFP
  <2>3. fn.inArgs \in Nat /\ \A i \in 1 .. fn.locals : objOffset[i] \in Int
    BY ShapeType DEF IInv, TypeInv, TypeOK, LayoutInv, AfterLayout
  <2>4. \A i \in 1 .. fn.locals : FrameIndexAddr(objOffset[i]) = ObjectAddr(objOffset[i])
    BY <2>2, <2>3 DEF ObjectAddr, LocalAreaSize
  <2>5. ASSUME NEW k \in 0 .. fn.inArgs - 1
        PROVE  Load(FrameIndexAddr(Word * k)) = InArg(k)
    <3>1. Word * k \in Int /\ FrameIndexAddr(Word * k) = 4 + 4 * k
      BY <2>2, <2>3 DEF Word
    <3>2. 4 + 4 * k \in CallerWords /\ 4 + 4 * k # 0 /\ (4 + 4 * k) \div 4 - 1 = k
      BY <2>3 DEF CallerWords
    <3> QED BY <2>1, <3>1, <3>2 DEF CallerInv, Load
  <2> QED BY <2>4, <2>5
<1> QED BY <1>1, RunInvariant, PTL

=============================================================================
