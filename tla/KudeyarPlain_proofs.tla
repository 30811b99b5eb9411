------------------------ MODULE KudeyarPlain_proofs ------------------------
(***************************************************************************)
(* Proofs about plain frames: no frame pointer, no interrupt handler that  *)
(* calls, and at most one register saved unless the saved registers are    *)
(* all there is in the frame.  In these a callee-saved register, a local   *)
(* and an outgoing argument keep their words to themselves, for every set  *)
(* of registers and every number of locals and arguments.                  *)
(***************************************************************************)
EXTENDS KudeyarFrame_proofs, KudeyarDirectives

Plain == \A f \in Shapes :
            /\ ~HasFP(f) /\ ~(f.intr /\ f.hasCalls)
            /\ Cardinality(CSI(f)) <= 1 \/ (f.locals = 0 /\ f.outArgs = 0)

\* The registers the function's caller relies on.
Preserved == CalleeSavedRegs(fn) \cup {FP}

\* The bytes of locals and outgoing arguments, and the number of
\* instructions that reserve them.
Room == 4 * fn.locals + CallArea
Adjusts == IF Room = 0 THEN 0 ELSE 1

\* The instructions that save and restore, and whether there are any.
PushOp == IF Cardinality(CSI(fn)) > 1 THEN "PUSHA" ELSE "PUSH_R"
PopOp == IF Cardinality(CSI(fn)) > 1 THEN "POPA" ELSE "POP_R"
Pushed == IF CSI(fn) = {} THEN 0 ELSE 1

\* What is known of the shape of a plain function.
LEMMA PlainShape ==
    ASSUME Plain, fn \in Shapes
    PROVE  /\ ~HasFP(fn) /\ ~fn.varSized
           /\ Saves \in Nat /\ Pushed \in {0, 1} /\ (Saves > 1 => Room = 0)
           /\ Pushed = 0 <=> CSI(fn) = {}
           /\ Pushed = 0 <=> Saves = 0
           /\ CSI(fn) \subseteq Regs /\ IsFiniteSet(CSI(fn))
           /\ fn.used \cap Preserved = CSI(fn)
           /\ CSI(fn) \subseteq Preserved /\ Preserved \subseteq Regs
           /\ fn.hasCalls => Preserved \cap ArgRegs = {}
           /\ Room \in Nat /\ Adjusts \in {0, 1}
<1>1. /\ ~HasFP(fn) /\ ~(fn.intr /\ fn.hasCalls)
      /\ Saves <= 1 \/ (fn.locals = 0 /\ fn.outArgs = 0)
  BY DEF Plain, Saves
<1>2. ~fn.varSized
  BY <1>1, ShapeType DEF HasFP
<1>3. /\ Saves \in Nat /\ Pushed \in {0, 1} /\ (Saves = 0 <=> CSI(fn) = {})
      /\ (Pushed = 0 <=> CSI(fn) = {}) /\ CSI(fn) \subseteq Regs /\ IsFiniteSet(CSI(fn))
  BY CSIFinite DEF Saves, Pushed
<1>4. Room \in Nat /\ Adjusts \in {0, 1} /\ (Saves > 1 => Room = 0)
  BY <1>1, <1>3, ShapeType DEF Room, Adjusts, CallArea
<1>5. Preserved = CalleeSavedRegs(fn)
  BY <1>1 DEF Preserved, CalleeSavedRegs
<1>6. /\ fn.used \cap Preserved = CSI(fn) /\ CSI(fn) \subseteq Preserved
      /\ Preserved \subseteq Regs
  BY <1>5 DEF CSI, CalleeSavedRegs, Regs
<1>7. fn.hasCalls => Preserved \cap ArgRegs = {}
  BY <1>1, RegsAssumption DEF Preserved, CalleeSavedRegs
<1> QED BY <1>1, <1>2, <1>3, <1>4, <1>6, <1>7

\* A list of registers is pushed in different words, the first ones below SP.
LEMMA DepthDiffers ==
    ASSUME NEW regs \in SUBSET Regs, IsFiniteSet(regs), NEW r \in regs
    PROVE  /\ Depth(regs, r) \in 1 .. Cardinality(regs)
           /\ \A q \in regs : Depth(regs, q) = Depth(regs, r) => q = r
<1> DEFINE nearer(q) == {p \in regs : RegNo[p] <= RegNo[q]}
<1>1. ASSUME NEW q \in regs
      PROVE  /\ nearer(q) \subseteq regs /\ IsFiniteSet(nearer(q))
             /\ Cardinality(nearer(q)) <= Cardinality(regs)
  <2>1. nearer(q) \subseteq regs
    OBVIOUS
  <2> HIDE DEF nearer
  <2> QED BY <2>1, FS_Subset
<1>2. Depth(regs, r) \in Nat \ {0} /\ Cardinality(regs) \in Nat
  BY DepthPositive, FS_CardinalityType
<1>3. ASSUME NEW q \in regs, NEW p \in regs, RegNo[q] < RegNo[p]
      PROVE  Depth(regs, q) # Depth(regs, p)
  <2>1. RegNo[q] \in Nat /\ RegNo[p] \in Nat /\ \A x \in regs : RegNo[x] \in Nat
    BY RegsAssumption
  <2>2. nearer(q) \subseteq nearer(p) /\ p \in nearer(p) /\ p \notin nearer(q)
    BY <1>3, <2>1
  <2>3. Cardinality(nearer(p)) = Cardinality(nearer(q)) => nearer(p) = nearer(q)
    BY <1>1, <2>2, FS_Subset
  <2> QED BY <2>2, <2>3 DEF Depth
<1>4. ASSUME NEW q \in regs, Depth(regs, q) = Depth(regs, r) PROVE q = r
  <2>1. RegNo[q] \in Nat /\ RegNo[r] \in Nat /\ (RegNo[q] = RegNo[r] => q = r)
    BY RegsAssumption
  <2> QED BY <1>3, <1>4, <2>1
<1> QED BY <1>1, <1>2, <1>4 DEF Depth

\* One of them is in the first word.
LEMMA DepthOne ==
    ASSUME NEW regs \in SUBSET Regs, IsFiniteSet(regs), regs # {}
    PROVE  \E r \in regs : Depth(regs, r) = 1
<1> SUFFICES ASSUME \A r \in regs : Depth(regs, r) # 1 PROVE FALSE
  OBVIOUS
<1> DEFINE n == Cardinality(regs)
           f == [r \in regs |-> Depth(regs, r)]
<1>1. n \in Nat /\ n # 0
  BY FS_CardinalityType, FS_EmptySet
<1>2. f \in [regs -> 2 .. n]
  BY <1>1, DepthDiffers
<1>3. IsFiniteSet(2 .. n) /\ Cardinality(2 .. n) < n
  <2>1. IsFiniteSet(2 .. n) /\ Cardinality(2 .. n) = IF 2 > n THEN 0 ELSE n - 2 + 1
    <3> HIDE DEF n
    <3> QED BY <1>1, FS_Interval
  <2> HIDE DEF n
  <2> QED BY <1>1, <2>1
<1>4. \E x, y \in regs : x # y /\ f[x] = f[y]
  <2> HIDE DEF n, f
  <2> QED BY <1>2, <1>3, FS_PigeonHole DEF n
<1> QED BY <1>4, DepthDiffers

\* What speaks of the function alone stays the same with it.
LEMMA PlainFunction ==
    ASSUME fn' = fn
    PROVE  /\ Saves' = Saves /\ Pushed' = Pushed /\ Adjusts' = Adjusts /\ Room' = Room
           /\ PushOp' = PushOp /\ PopOp' = PopOp
           /\ CSI(fn)' = CSI(fn) /\ Preserved' = Preserved
BY DEF Saves, Pushed, PushOp, PopOp, Adjusts, Room, CallArea, Preserved

-----------------------------------------------------------------------------
(* The code of a plain frame, and where its locals are.                    *)

PlainEntry ==
    /\ Len(entry) = Pushed + Adjusts
    /\ Pushed = 1 => entry[1] = MI(PushOp, CSI(fn), 0)
    /\ Room # 0 => entry[Pushed + 1] = MI("SUB_SP", {}, Room)

PlainExit ==
    /\ Len(exit) = Adjusts + Pushed + 1
    /\ Room # 0 => exit[1] = MI("ADD_SP", {}, Room)
    /\ Pushed = 1 => exit[Adjusts + 1] = MI(PopOp, CSI(fn), 0)
    /\ exit[Adjusts + Pushed + 1] = MI("RET", {}, 0)

PlainCode ==
    /\ stage \in AfterLayout =>
         \A i \in 1 .. fn.locals : objOffset[i] = -(4 + 4 * Saves + 4 * i)
    /\ stage \in {"epilogue", "entry", "body", "exit", "returned"} => PlainEntry
    /\ stage \in {"entry", "body", "exit", "returned"} => PlainExit

\* The frame's size.
LEMMA PlainSize ==
    ASSUME TypeInv, stage \in AfterLayout
    PROVE  stackSize = 4 * Saves + Room /\ stackSize \in Nat
<1>1. fn.locals \in Nat /\ CallArea \in Nat /\ Saves \in Nat
  BY ShapeType, CSIFinite DEF TypeInv, TypeOK, Saves
<1> QED BY <1>1 DEF TypeInv, LayoutInv, Room

\* Where the instructions of two pieces of code are in their concatenation.
LEMMA ConcatIndex ==
    ASSUME NEW s \in Seq(Instr), NEW t \in Seq(Instr)
    PROVE  /\ Len(s) \in Nat /\ Len(t) \in Nat /\ Len(s \o t) = Len(s) + Len(t)
           /\ \A i \in 1 .. Len(s) : (s \o t)[i] = s[i]
           /\ \A i \in 1 .. Len(t) : (s \o t)[Len(s) + i] = t[i]
<1>1. /\ Len(s) \in Nat /\ Len(t) \in Nat /\ Len(s \o t) = Len(s) + Len(t)
      /\ \A i \in 1 .. Len(s) + Len(t) :
           (s \o t)[i] = IF i <= Len(s) THEN s[i] ELSE t[i - Len(s)]
  BY ConcatProperties, LenProperties
<1>2. ASSUME NEW i \in 1 .. Len(t) PROVE (s \o t)[Len(s) + i] = t[i]
  <2>1. Len(s) + i \in 1 .. Len(s) + Len(t) /\ ~(Len(s) + i <= Len(s))
        /\ (Len(s) + i) - Len(s) = i
    BY <1>1
  <2> QED BY <1>1, <2>1
<1> QED BY <1>1, <1>2

\* The adjustment of SP, as a sequence.
LEMMA PlainAdjust ==
    ASSUME Plain, TypeInv, stage \in AfterLayout, NEW op \in AdjustOps
    PROVE  /\ NumBytes = Room
           /\ AdjustBy(op, NumBytes) \in Seq(Instr)
           /\ Len(AdjustBy(op, NumBytes)) = Adjusts
           /\ Room # 0 => AdjustBy(op, NumBytes)[1] = MI(op, {}, Room)
<1>1. fn \in Shapes
  BY DEF TypeInv, TypeOK
<1>2. NumBytes = Room /\ Room \in Nat
  <2>1. fn.locals \in Nat /\ CallArea \in Nat /\ FPBytes = 0
    BY <1>1, ShapeType, PlainShape DEF FPBytes
  <2>2. NumBytes = stackSize - FPBytes - 4 * Saves /\ Saves \in Nat
    BY FrameBytes
  <2>3. stackSize = 4 * Saves + 4 * fn.locals + CallArea
    BY DEF TypeInv, LayoutInv
  <2> QED BY <2>1, <2>2, <2>3 DEF Room
<1>3. AdjustBy(op, NumBytes) \in Seq(Instr)
  BY <1>2, AdjustByType
<1> QED BY <1>2, <1>3 DEF AdjustBy, Adjusts

\* A place in a list of at most one.
LEMMA SplitOne ==
    ASSUME NEW n \in {0, 1}, NEW k \in 0 .. n
    PROVE  k = n \/ (k = 0 /\ n = 1)
OBVIOUS

\* The prologue's loop passes a push, or there is nothing to reserve.
LEMMA PlainPrologue ==
    ASSUME Plain, TypeInv, CodeInv, EmitPrologue
    PROVE  PlainEntry'
<1> DEFINE adjust == AdjustBy("SUB_SP", NumBytes)
<1>1. /\ stage = "prologue" /\ fn \in Shapes /\ fn' = fn /\ entry = PushCode
      /\ stage \in AfterLayout
  BY DEF EmitPrologue, CodeInv, TypeInv, TypeOK, AfterLayout
<1>2. /\ ~HasFP(fn) /\ Pushed \in {0, 1} /\ Saves \in Nat /\ (Saves > 1 => Room = 0)
      /\ Pushed = 0 <=> CSI(fn) = {}
  BY <1>1, PlainShape
<1>3. /\ Pushed = 0 => entry = <<>>
      /\ Pushed = 1 => entry = <<MI(PushOp, CSI(fn), 0)>>
      /\ Pushed = 1 => entry[1] = MI(PushOp, CSI(fn), 0)
  BY <1>1, <1>2 DEF PushCode, PushOp
<1>4. entry \in Seq(Instr) /\ Len(entry) = Pushed
  BY <1>1, <1>2, <1>3, Pieces
<1>5. PICK k \in 0 .. Len(entry) :
        /\ SkipsPushes(k)
        /\ entry' = <<>> \o SubSeq(entry, 1, k) \o adjust \o SubSeq(entry, k + 1, Len(entry))
  BY <1>2 DEF EmitPrologue
<1>6. Room = 0 \/ k = Len(entry)
  <2>1. Pushed = 1 /\ Room # 0 => entry[1].op = "PUSH_R"
    BY <1>2, <1>3 DEF MI, PushOp, Saves
  <2> QED BY <1>2, <1>4, <1>5, <2>1 DEF SkipsPushes
<1>7. adjust \in Seq(Instr) /\ Len(adjust) = Adjusts
      /\ (Room # 0 => adjust[1] = MI("SUB_SP", {}, Room))
  BY <1>1, PlainAdjust DEF AdjustOps
<1>8. entry' = entry \o adjust
  <2>1. SubSeq(entry, 1, Len(entry)) = entry
    BY <1>4, SubSeqFull
  <2>2. <<>> \o entry = entry /\ entry \o <<>> = entry
    BY <1>4, ConcatEmptySeq
  <2>3. CASE Room # 0
    <3>1. SubSeq(entry, Len(entry) + 1, Len(entry)) = <<>>
      BY <1>4, <1>2, SubSeqEmpty
    <3> HIDE DEF adjust
    <3>2. entry' = ((<<>> \o entry) \o adjust) \o <<>>
      BY <1>5, <1>6, <2>1, <2>3, <3>1
    <3>3. entry \o adjust \in Seq(Instr)
      BY <1>4, <1>7, ConcatProperties
    <3> QED BY <2>2, <3>2, <3>3, ConcatEmptySeq
  <2>4. CASE Room = 0
    <3>1. adjust = <<>>
      BY <1>1, <2>4, PlainAdjust DEF AdjustBy, AdjustOps
    <3>2. k = Len(entry) \/ (k = 0 /\ Len(entry) = 1)
      <4>1. Len(entry) \in {0, 1}
        BY <1>2, <1>4
      <4> QED BY <4>1, SplitOne
    <3>3. CASE k = Len(entry)
      <4>1. SubSeq(entry, Len(entry) + 1, Len(entry)) = <<>>
        BY <1>4, <1>2, SubSeqEmpty
      <4> HIDE DEF adjust
      <4> QED BY <1>5, <2>1, <2>2, <3>1, <3>3, <4>1
    <3>4. CASE k = 0 /\ Len(entry) = 1
      <4>1. SubSeq(entry, 1, 0) = <<>> /\ <<>> \o <<>> = <<>>
        BY <1>4, SubSeqEmpty, ConcatEmptySeq
      <4>2. SubSeq(entry, 0 + 1, Len(entry)) = entry
        BY <2>1
      <4> HIDE DEF adjust
      <4> QED BY <1>5, <2>2, <3>1, <3>4, <4>1, <4>2
    <3> QED BY <3>2, <3>3, <3>4
  <2> QED BY <2>3, <2>4
<1> HIDE DEF adjust
<1>9. /\ Len(entry \o adjust) = Pushed + Adjusts
      /\ Pushed = 1 => (entry \o adjust)[1] = entry[1]
      /\ Room # 0 => (entry \o adjust)[Pushed + 1] = adjust[1]
  BY <1>2, <1>4, <1>7, ConcatIndex DEF Adjusts
<1> QED BY <1>1, <1>3, <1>7, <1>8, <1>9, PlainFunction DEF PlainEntry

\* The epilogue's loop goes back over a pop, or there is nothing to free.
LEMMA PlainEpilogue ==
    ASSUME Plain, TypeInv, CodeInv, EmitEpilogue
    PROVE  PlainExit'
<1> DEFINE adjust == AdjustBy("ADD_SP", NumBytes)
<1>1. /\ stage = "epilogue" /\ fn \in Shapes /\ fn' = fn /\ exit = PopCode \o RetCode
      /\ stage \in AfterLayout /\ exit \in Seq(Instr)
  BY DEF EmitEpilogue, CodeInv, TypeInv, TypeOK, AfterLayout
<1>2. /\ ~HasFP(fn) /\ ~fn.varSized /\ Pushed \in {0, 1} /\ Saves \in Nat
      /\ (Saves > 1 => Room = 0) /\ (Pushed = 0 <=> CSI(fn) = {})
  BY <1>1, PlainShape
<1>3. /\ Pushed = 0 => PopCode = <<>>
      /\ Pushed = 1 => PopCode = <<MI(PopOp, CSI(fn), 0)>>
      /\ RetCode = <<MI("RET", {}, 0)>>
  BY <1>2 DEF PopCode, PopOp, RetCode
<1>13. PopCode \in Seq(Instr) /\ RetCode \in Seq(Instr)
  BY Pieces
<1>4. /\ Len(exit) = Pushed + 1
      /\ Pushed = 1 => exit[1] = MI(PopOp, CSI(fn), 0)
      /\ exit[Pushed + 1] = MI("RET", {}, 0)
  <2>1. Len(PopCode) = Pushed /\ Len(RetCode) = 1
    BY <1>2, <1>3
  <2>2. /\ Len(PopCode \o RetCode) = Pushed + 1
        /\ Pushed = 1 => (PopCode \o RetCode)[1] = PopCode[1]
        /\ (PopCode \o RetCode)[Pushed + 1] = RetCode[1]
    <3>1. Pushed \in Nat /\ 1 \in 1 .. Len(RetCode) /\ (Pushed = 1 => 1 \in 1 .. Len(PopCode))
      BY <1>2, <2>1
    <3> QED BY <1>13, <2>1, <3>1, ConcatIndex
  <2> QED BY <1>1, <1>3, <2>2
<1>5. ExitWithPopFP = exit
  BY <1>2 DEF ExitWithPopFP
<1>6. PICK k \in 1 .. Len(exit) :
        /\ SkipsPops(exit, k)
        /\ exit' = SubSeq(exit, 1, k - 1) \o adjust \o SubSeq(exit, k, Len(exit))
  BY <1>2, <1>5 DEF EmitEpilogue, FreeFrame
<1>7. Room = 0 \/ k = 1
  <2>1. Pushed = 1 /\ Room # 0 => exit[1].op = "POP_R"
    BY <1>2, <1>4 DEF MI, PopOp, Saves
  <2> QED BY <1>2, <1>4, <1>6, <2>1 DEF SkipsPops
<1>8. adjust \in Seq(Instr) /\ Len(adjust) = Adjusts
      /\ (Room # 0 => adjust[1] = MI("ADD_SP", {}, Room))
  BY <1>1, PlainAdjust DEF AdjustOps
<1>9. exit' = adjust \o exit
  <2>1. SubSeq(exit, 1, 0) = <<>> /\ SubSeq(exit, 1, Len(exit)) = exit
    BY <1>1, SubSeqEmpty, SubSeqFull
  <2>2. CASE k = 1
    <3> HIDE DEF adjust
    <3>1. <<>> \o adjust = adjust
      BY <1>8, ConcatEmptySeq
    <3> QED BY <1>6, <2>1, <2>2, <3>1
  <2>3. CASE k = 2 /\ Len(exit) = 2 /\ Room = 0
    <3>1. adjust = <<>> /\ <<>> \o exit = exit
      BY <1>1, <2>3, PlainAdjust, ConcatEmptySeq DEF AdjustBy, AdjustOps
    <3>2. exit = SubSeq(exit, 1, 1) \o SubSeq(exit, 2, 2)
      BY <1>1, <2>1, <2>3
    <3>3. SubSeq(exit, 1, 1) \o <<>> = SubSeq(exit, 1, 1)
      BY <1>1, <2>3
    <3> HIDE DEF adjust
    <3> QED BY <1>6, <2>3, <3>1, <3>2, <3>3
  <2>4. k = 1 \/ (k = 2 /\ Len(exit) = 2)
    <3>1. Len(exit) - 1 \in {0, 1} /\ k \in Int /\ k - 1 \in 0 .. Len(exit) - 1
      BY <1>2, <1>4
    <3>2. k - 1 = Len(exit) - 1 \/ (k - 1 = 0 /\ Len(exit) - 1 = 1)
      BY <3>1, SplitOne
    <3> QED BY <1>2, <1>4, <3>1, <3>2
  <2> QED BY <1>7, <2>2, <2>3, <2>4
<1> HIDE DEF adjust
<1>10. Adjusts \in {0, 1} /\ (Adjusts = 0 <=> Room = 0)
  BY DEF Adjusts
<1>11. /\ Len(adjust \o exit) = Adjusts + Pushed + 1
       /\ Room # 0 => (adjust \o exit)[1] = adjust[1]
       /\ \A i \in 1 .. Pushed + 1 : (adjust \o exit)[Adjusts + i] = exit[i]
  <2>1. /\ Len(adjust \o exit) = Len(adjust) + Len(exit)
        /\ \A i \in 1 .. Len(adjust) : (adjust \o exit)[i] = adjust[i]
        /\ \A i \in 1 .. Len(exit) : (adjust \o exit)[Len(adjust) + i] = exit[i]
    BY <1>1, <1>8, ConcatIndex
  <2> QED BY <1>2, <1>4, <1>8, <1>10, <2>1
<1>12. /\ Pushed = 1 => (adjust \o exit)[Adjusts + 1] = exit[1]
       /\ (adjust \o exit)[Adjusts + (Pushed + 1)] = exit[Pushed + 1]
       /\ Adjusts + (Pushed + 1) = Adjusts + Pushed + 1
  <2>1. Pushed \in Nat /\ Adjusts \in Nat /\ Pushed + 1 \in 1 .. Pushed + 1 /\ 1 \in 1 .. Pushed + 1
    BY <1>2, <1>10
  <2> QED BY <1>11, <2>1
<1> QED BY <1>1, <1>4, <1>8, <1>9, <1>11, <1>12, PlainFunction DEF PlainExit

LEMMA PlainCodeInit == Init => PlainCode
BY DEF Init, PlainCode, AfterLayout

\* The hooks build the code of a plain frame and lay its locals out.
LEMMA PlainCodeCompile ==
    ASSUME Plain, TypeInv, CodeInv, PlainCode, Compile
    PROVE  PlainCode'
<1> USE DEF AfterLayout
<1>0. fn \in Shapes
  BY DEF TypeInv, TypeOK
<1>1. fn' = fn /\ Saves' = Saves
  <2>1. fn' = fn
    BY DEF Compile, EliminateCallFramePseudoInstr, SpillCalleeSavedRegisters,
           RestoreCalleeSavedRegisters, ProcessFunctionBeforeFrameFinalized,
           CalculateFrameObjectOffsets, EmitPrologue, EmitEpilogue
  <2> QED BY <2>1, PlainFunction
<1>2. CASE CalculateFrameObjectOffsets
  <2>1. PICK start \in {4} \cup {-o : o \in fixedObjs} :
          /\ start >= 4
          /\ objOffset' = [i \in 1 .. fn.locals |-> -(start + 4 * Saves + 4 * i)]
    BY <1>2 DEF CalculateFrameObjectOffsets, Saves, Word, LocalAreaSize
  <2>2. start = 4
    BY <2>1 DEF TypeInv, TypeOK, LayoutInv
  <2>3. stage' = "prologue"
    BY <1>2 DEF CalculateFrameObjectOffsets
  <2> QED BY <1>1, <2>1, <2>2, <2>3 DEF PlainCode
<1>3. CASE EmitPrologue
  <2>1. stage = "prologue" /\ stage' = "epilogue" /\ objOffset' = objOffset
    BY <1>3 DEF EmitPrologue
  <2> QED BY <1>1, <1>3, <2>1, PlainPrologue DEF PlainCode
<1>4. CASE EmitEpilogue
  <2>1. stage = "epilogue" /\ stage' = "entry" /\ objOffset' = objOffset /\ entry' = entry
    BY <1>4 DEF EmitEpilogue
  <2>2. PlainEntry'
    BY <1>1, <2>1, PlainFunction DEF PlainCode, PlainEntry
  <2> QED BY <1>1, <1>4, <2>1, <2>2, PlainEpilogue DEF PlainCode
<1>5. CASE ~(CalculateFrameObjectOffsets \/ EmitPrologue \/ EmitEpilogue)
  <2>1. stage' \notin AfterLayout
    BY <1>5 DEF Compile, EliminateCallFramePseudoInstr, SpillCalleeSavedRegisters,
           RestoreCalleeSavedRegisters, ProcessFunctionBeforeFrameFinalized
  <2> QED BY <2>1 DEF PlainCode
<1> QED BY <1>2, <1>3, <1>4, <1>5

\* Running the code does not change it.
LEMMA PlainCodeKept ==
    ASSUME PlainCode, UNCHANGED <<fn, compileVars>>,
           stage' = stage \/ (stage \in {"entry", "body", "exit"}
                              /\ stage' \in {"entry", "body", "exit", "returned"})
    PROVE  PlainCode'
<1>1. Saves' = Saves
  BY PlainFunction
<1>2. (PlainEntry => PlainEntry') /\ (PlainExit => PlainExit')
  BY PlainFunction DEF PlainEntry, PlainExit, compileVars
<1>3. fn' = fn /\ objOffset' = objOffset
  BY DEF compileVars
<1> QED BY <1>1, <1>2, <1>3 DEF PlainCode, AfterLayout

-----------------------------------------------------------------------------
(* The words and registers while the code runs.  Each word below the       *)
(* return address has one owner: -4d the saved register of depth d,        *)
(* -(4n + 4i) local i (n registers saved), and the lowest ones the         *)
(* outgoing arguments.                                                     *)

SavedWord == \A r \in CSI(fn) : Load(-4 * Depth(CSI(fn), r)) = Old(r)
Untouched(regs) == \A r \in regs : reg[r] = Old(r)

PlainEntryRun ==
    /\ ip \in 1 .. Len(entry) + 1
    /\ sp = IF ip > Len(entry) THEN -stackSize ELSE IF ip > Pushed THEN -4 * Saves ELSE 0
    /\ Untouched(Preserved)
    /\ ip > Pushed => SavedWord
    /\ written = {}

PlainBodyRun ==
    /\ sp = -stackSize
    /\ Untouched(Preserved \ CSI(fn))
    /\ SavedWord
    /\ \A i \in written : Load(-(4 * Saves + 4 * i)) = Local(i)
    /\ inCall => /\ fn.hasCalls
                 /\ \A k \in 0 .. fn.outArgs - 1 : Load(sp + 4 * k) = OutArg(k)

PlainExitRun ==
    /\ ip \in 1 .. Len(exit)
    /\ sp = IF ip > Adjusts + Pushed THEN 0 ELSE IF ip > Adjusts THEN -4 * Saves ELSE -stackSize
    /\ Untouched(Preserved \ CSI(fn))
    /\ ip <= Adjusts + Pushed => SavedWord
    /\ ip > Adjusts + Pushed => Untouched(CSI(fn))

PlainRun ==
    /\ stage \in Compiling => Untouched(Preserved) /\ written = {} /\ ip = 1 /\ sp = 0
    /\ stage = "entry" => PlainEntryRun
    /\ stage = "body" => PlainBodyRun
    /\ stage = "exit" => PlainExitRun
    /\ stage = "returned" => Untouched(Preserved)
    /\ stage # "body" => ~inCall

LEMMA PlainRunInit == Plain /\ Init => PlainRun
<1> SUFFICES ASSUME Plain, Init PROVE PlainRun
  OBVIOUS
<1>1. Preserved \subseteq Regs
  BY PlainShape DEF Init
<1> QED BY <1>1 DEF Init, PlainRun, Untouched, Compiling

\* The hooks run no code.
LEMMA PlainRunCompile ==
    ASSUME Plain, TypeInv, CodeInv, PlainCode, PlainRun, Compile
    PROVE  PlainRun'
<1>1. /\ UNCHANGED machineVars /\ fn' = fn /\ stage \in Compiling
      /\ stage' \in Compiling \/ (stage' = "entry" /\ stage = "epilogue" /\ entry' = entry)
  BY DEF Compile, Compiling, EliminateCallFramePseudoInstr, SpillCalleeSavedRegisters,
         RestoreCalleeSavedRegisters, ProcessFunctionBeforeFrameFinalized,
         CalculateFrameObjectOffsets, EmitPrologue, EmitEpilogue
<1>2. Preserved' = Preserved /\ Saves' = Saves /\ Pushed' = Pushed /\ CSI(fn)' = CSI(fn)
  BY <1>1, PlainFunction
<1>3. /\ Untouched(Preserved)' /\ written' = {} /\ ip' = 1 /\ sp' = 0 /\ ~inCall'
  BY <1>1, <1>2 DEF PlainRun, Untouched, machineVars, Compiling
<1>4. CASE stage' \in Compiling
  BY <1>3, <1>4 DEF PlainRun, Compiling
<1>5. CASE stage' = "entry"
  <2>1. stage = "epilogue" /\ entry' = entry /\ stackSize' = stackSize /\ stage \in AfterLayout
    BY <1>1, <1>5 DEF AfterLayout, Compiling, Compile, EliminateCallFramePseudoInstr,
       SpillCalleeSavedRegisters, RestoreCalleeSavedRegisters,
       ProcessFunctionBeforeFrameFinalized, CalculateFrameObjectOffsets, EmitPrologue, EmitEpilogue
  <2>2. fn \in Shapes /\ Pushed \in {0, 1} /\ Room \in Nat /\ Adjusts \in {0, 1}
        /\ Saves \in Nat /\ (Pushed = 0 <=> Saves = 0)
    BY PlainShape DEF TypeInv, TypeOK
  <2>3. Len(entry) = Pushed + Adjusts
    BY <2>1 DEF PlainCode, PlainEntry
  <2>4. stackSize = 4 * Saves + Room
    BY <2>1, PlainSize
  <2>5. Pushed = 0 => CSI(fn) = {}
    BY <2>2, PlainShape
  <2>6. sp' = IF ip' > Len(entry) THEN -stackSize ELSE IF ip' > Pushed THEN -4 * Saves ELSE 0
    BY <1>3, <2>2, <2>3, <2>4 DEF Adjusts
  <2>7. ip' > Pushed => SavedWord'
    BY <1>2, <1>3, <2>2, <2>5 DEF SavedWord
  <2> QED BY <1>2, <1>3, <1>5, <2>1, <2>2, <2>3, <2>6, <2>7 DEF PlainRun, PlainEntryRun, Compiling
<1> QED BY <1>1, <1>4, <1>5

-----------------------------------------------------------------------------
(* The instructions of entry and exit.                                     *)

Pushes == /\ Pushed = 1 /\ stage = "entry" /\ ip = 1
          /\ Code[ip] = MI(PushOp, CSI(fn), 0)
Pops == /\ Pushed = 1 /\ stage = "exit" /\ ip = Adjusts + 1
        /\ Code[ip] = MI(PopOp, CSI(fn), 0)
Reserves == /\ Room # 0 /\ stage = "entry" /\ ip = Pushed + 1
            /\ Code[ip] = MI("SUB_SP", {}, Room)
Frees == /\ Room # 0 /\ stage = "exit" /\ ip = 1
         /\ Code[ip] = MI("ADD_SP", {}, Room)
Returning == /\ stage = "exit" /\ ip = Adjusts + Pushed + 1
             /\ Code[ip] = MI("RET", {}, 0)

\* There are no others.
LEMMA PlainFetch ==
    ASSUME Plain, TypeInv, PlainCode, NEW ops, Fetch(ops)
    PROVE  /\ Pushes \/ Pops \/ Reserves \/ Frees \/ Returning
           /\ Code[ip].op \in ops /\ ip' = ip + 1
<1>1. /\ fn \in Shapes /\ Pushed \in {0, 1} /\ Adjusts \in {0, 1} /\ Room \in Nat
      /\ (Adjusts = 0 <=> Room = 0)
  BY PlainShape DEF TypeInv, TypeOK, Adjusts
<1>2. stage \in {"entry", "exit"} /\ ip \in 1 .. Len(Code) /\ Code[ip].op \in ops /\ ip' = ip + 1
  BY DEF Fetch
<1>3. CASE stage = "entry"
  <2>1. Code = entry /\ PlainEntry
    BY <1>3 DEF Code, PlainCode
  <2>2. ip \in 1 .. Pushed + Adjusts
    BY <1>2, <2>1 DEF PlainEntry
  <2>3. CASE ip <= Pushed
    BY <1>1, <1>2, <1>3, <2>1, <2>2, <2>3 DEF PlainEntry, Pushes
  <2>4. CASE ip > Pushed
    BY <1>1, <1>2, <1>3, <2>1, <2>2, <2>4 DEF PlainEntry, Reserves
  <2> QED BY <1>1, <1>2, <2>2, <2>3, <2>4
<1>4. CASE stage = "exit"
  <2>1. Code = exit /\ PlainExit
    BY <1>4 DEF Code, PlainCode
  <2>2. ip \in 1 .. Adjusts + Pushed + 1
    BY <1>2, <2>1 DEF PlainExit
  <2>3. CASE ip <= Adjusts
    BY <1>1, <1>2, <1>4, <2>1, <2>2, <2>3 DEF PlainExit, Frees
  <2>4. CASE ip > Adjusts /\ ip <= Adjusts + Pushed
    BY <1>1, <1>2, <1>4, <2>1, <2>2, <2>4 DEF PlainExit, Pops
  <2>5. CASE ip > Adjusts + Pushed
    BY <1>1, <1>2, <1>4, <2>1, <2>2, <2>5 DEF PlainExit, Returning
  <2> QED BY <1>1, <1>2, <2>2, <2>3, <2>4, <2>5
<1> QED BY <1>2, <1>3, <1>4

\* What every step of the machine below needs to know.
LEMMA PlainFacts ==
    ASSUME Plain, TypeInv, stage \in {"entry", "body", "exit"}
    PROVE  /\ fn \in Shapes /\ Pushed \in {0, 1} /\ Room \in Nat /\ Adjusts \in {0, 1}
           /\ Saves \in Nat /\ (Pushed = 0 <=> Saves = 0)
           /\ Adjusts = 0 <=> Room = 0
           /\ Pushed = 0 <=> CSI(fn) = {}
           /\ stackSize = 4 * Saves + Room /\ stackSize \in Nat
           /\ sp \in Int /\ ip \in Nat
           /\ CSI(fn) \subseteq Preserved /\ Preserved \subseteq Regs
<1>1. stage \in AfterLayout /\ fn \in Shapes
  BY DEF AfterLayout, TypeInv, TypeOK
<1> QED BY <1>1, PlainShape, PlainSize DEF Adjusts, TypeInv, TypeOK

\* The saved registers' words stay as they are where the stack above the
\* last one of them does.
LEMMA SavedKept ==
    ASSUME Plain, TypeInv, stage \in {"entry", "body", "exit"}, fn' = fn,
           \A a \in Int : -4 * Saves <= a /\ a <= -4 => Load(a)' = Load(a),
           SavedWord
    PROVE  SavedWord'
<1> SUFFICES ASSUME NEW r \in CSI(fn)
             PROVE  Load(-4 * Depth(CSI(fn), r))' = Old(r)
  BY PlainFunction DEF SavedWord
<1>1. Depth(CSI(fn), r) \in 1 .. Saves /\ Saves \in Nat
  BY PlainFacts, CSIFinite, DepthDiffers DEF Saves
<1> DEFINE a == -4 * Depth(CSI(fn), r)
<1>2. a \in Int /\ -4 * Saves <= a /\ a <= -4
  BY <1>1
<1>3. Load(a) = Old(r) /\ a' = a
  BY PlainFunction DEF SavedWord, Depth
<1> HIDE DEF a
<1>4. Load(a)' = Load(a)
  BY <1>2, <1>3 DEF Load
<1> QED BY <1>3, <1>4 DEF a

\* What speaks of the compiler's variables stays the same with them.
LEMMA PlainSame ==
    ASSUME UNCHANGED <<fn, compileVars>>
    PROVE  /\ Saves' = Saves /\ Pushed' = Pushed /\ Adjusts' = Adjusts /\ Room' = Room
           /\ CSI(fn)' = CSI(fn) /\ Preserved' = Preserved
           /\ stackSize' = stackSize /\ entry' = entry /\ exit' = exit /\ fn' = fn
           /\ objOffset' = objOffset
BY PlainFunction DEF compileVars

\* The push stores the registers right below the return address.
LEMMA PlainPush ==
    ASSUME Plain, TypeInv, PlainCode, PlainRun, Push
    PROVE  PlainRun'
<1>1. Pushes /\ ip' = ip + 1
  BY PlainFetch DEF Push, Pops, Reserves, Frees, Returning, MI, PushOp, PopOp
<1>2. /\ Pushed = 1 /\ stage = "entry" /\ ip = 1 /\ Code[ip].regs = CSI(fn)
      /\ PlainEntry /\ PlainEntryRun
  BY <1>1 DEF Pushes, MI, PlainCode, PlainRun
<1>3. /\ UNCHANGED <<fn, compileVars>> /\ UNCHANGED <<stage, reg, written, inCall>>
  BY DEF Push
<1>4. Len(entry) = 1 + Adjusts /\ Adjusts \in {0, 1} /\ sp = 0 /\ Saves \in Nat
  BY <1>2, PlainFacts DEF PlainEntry, PlainEntryRun
<1> DEFINE At(q) == sp - Word * Depth(CSI(fn), q)
           s == [a \in {At(q) : q \in CSI(fn)} |-> reg[CHOOSE q \in CSI(fn) : At(q) = a]]
<1>5. sp' = -4 * Saves /\ mem' = Store(mem, s)
  BY <1>2, <1>4 DEF Push, Word, Saves
<1>6. ASSUME NEW r \in CSI(fn)
      PROVE  -4 * Depth(CSI(fn), r) \in DOMAIN s /\ s[-4 * Depth(CSI(fn), r)] = Old(r)
  <2>1. /\ Depth(CSI(fn), r) \in Nat
        /\ \A q \in CSI(fn) : Depth(CSI(fn), q) \in Nat
        /\ \A q \in CSI(fn) : Depth(CSI(fn), q) = Depth(CSI(fn), r) => q = r
    BY <1>2, PlainFacts, CSIFinite, DepthDiffers
  <2>2. At(r) = -4 * Depth(CSI(fn), r) /\ \A q \in CSI(fn) : At(q) = At(r) => q = r
    BY <1>4, <2>1 DEF Word
  <2>3. (CHOOSE q \in CSI(fn) : At(q) = At(r)) = r
    BY <2>2
  <2>4. reg[r] = Old(r)
    BY <1>2, PlainFacts DEF PlainEntryRun, Untouched
  <2> HIDE DEF At
  <2> QED BY <2>2, <2>3, <2>4
<1> HIDE DEF s
<1>7. SavedWord'
  <2> SUFFICES ASSUME NEW r \in CSI(fn)
               PROVE  Load(-4 * Depth(CSI(fn), r))' = Old(r)
    BY <1>3, PlainSame DEF SavedWord
  <2> DEFINE a == -4 * Depth(CSI(fn), r)
  <2>1. a' = a /\ a \in DOMAIN s /\ s[a] = Old(r)
    BY <1>3, <1>6, PlainSame DEF Depth
  <2> HIDE DEF a
  <2>2. Load(a)' = Old(r)
    BY <1>5, <2>1 DEF Load, Store
  <2> QED BY <2>2 DEF a
<1>8. PlainEntryRun'
  <2>1. ip' \in 1 .. Len(entry) + 1 /\ ip' = 2
    BY <1>1, <1>2, <1>4
  <2>2. sp' = IF ip' > Len(entry) THEN -stackSize ELSE IF ip' > Pushed THEN -4 * Saves ELSE 0
    BY <1>2, <1>4, <1>5, <2>1, PlainFacts
  <2>3. Untouched(Preserved)'
    BY <1>2, <1>3, PlainSame DEF PlainEntryRun, Untouched
  <2> QED BY <1>2, <1>3, <1>7, <2>1, <2>2, <2>3, PlainSame DEF PlainEntryRun
<1> QED BY <1>2, <1>3, <1>8 DEF PlainRun, Compiling

\* The pop loads them from there again.
LEMMA PlainPop ==
    ASSUME Plain, TypeInv, PlainCode, PlainRun, Pop
    PROVE  PlainRun'
<1>1. Pops /\ ip' = ip + 1
  BY PlainFetch DEF Pop, Pushes, Reserves, Frees, Returning, MI, PushOp, PopOp
<1>2. /\ Pushed = 1 /\ stage = "exit" /\ ip = Adjusts + 1 /\ Code[ip].regs = CSI(fn)
      /\ PlainExit /\ PlainExitRun
  BY <1>1 DEF Pops, MI, PlainCode, PlainRun
<1>3. UNCHANGED <<fn, compileVars>> /\ UNCHANGED <<stage, mem, written, inCall>>
  BY DEF Pop
<1>4. /\ Len(exit) = Adjusts + 2 /\ Adjusts \in {0, 1} /\ Saves \in Nat
      /\ sp = -4 * Saves /\ SavedWord
  BY <1>2, PlainFacts DEF PlainExit, PlainExitRun
<1>5. /\ sp' = 0
      /\ reg' = [q \in Regs |-> IF q \in CSI(fn) THEN Load(0 - Word * Depth(CSI(fn), q)) ELSE reg[q]]
  <2>1. sp + Word * Cardinality(CSI(fn)) = 0
    BY <1>4 DEF Word, Saves
  <2> QED BY <1>2, <2>1 DEF Pop
<1>6. ASSUME NEW r \in CSI(fn) PROVE reg'[r] = Old(r)
  <2>1. Depth(CSI(fn), r) \in Nat /\ r \in Regs
    BY <1>2, PlainFacts, CSIFinite, DepthDiffers
  <2>2. 0 - Word * Depth(CSI(fn), r) = -4 * Depth(CSI(fn), r)
    BY <2>1 DEF Word
  <2> QED BY <1>4, <1>5, <2>1, <2>2 DEF SavedWord
<1>7. Untouched(CSI(fn))' /\ Untouched(Preserved \ CSI(fn))'
  <2>1. \A q \in Preserved \ CSI(fn) : reg'[q] = Old(q)
    BY <1>2, <1>5, PlainFacts DEF PlainExitRun, Untouched
  <2> QED BY <1>3, <1>6, <2>1, PlainSame DEF Untouched
<1>8. PlainExitRun'
  <2>1. ip' = Adjusts + 2 /\ ip' \in 1 .. Len(exit)
    BY <1>1, <1>2, <1>4
  <2> QED BY <1>2, <1>3, <1>4, <1>5, <1>7, <2>1, PlainSame DEF PlainExitRun
<1> QED BY <1>2, <1>3, <1>8 DEF PlainRun, Compiling

\* The adjustments of SP reserve and free the words below it.
LEMMA PlainAdjustSP ==
    ASSUME Plain, TypeInv, PlainCode, PlainRun, AdjustSP
    PROVE  PlainRun'
<1>1. (Reserves \/ Frees) /\ ip' = ip + 1
  BY PlainFetch DEF AdjustSP, Pushes, Pops, Returning, MI, PushOp, PopOp
<1>2. UNCHANGED <<fn, compileVars>> /\ UNCHANGED <<stage, reg, mem, written, inCall>>
  BY DEF AdjustSP
<1>3. SavedWord' = SavedWord /\ Untouched(Preserved)' = Untouched(Preserved)
      /\ Untouched(Preserved \ CSI(fn))' = Untouched(Preserved \ CSI(fn))
  BY <1>2, PlainSame DEF SavedWord, Untouched, Load
<1>4. CASE Reserves
  <2>1. /\ Room # 0 /\ stage = "entry" /\ ip = Pushed + 1 /\ Code[ip] = MI("SUB_SP", {}, Room)
        /\ PlainEntry /\ PlainEntryRun
    BY <1>4 DEF Reserves, PlainCode, PlainRun
  <2>2. Len(entry) = Pushed + 1 /\ sp = -4 * Saves
    BY <2>1, PlainFacts DEF PlainEntry, PlainEntryRun
  <2>3. sp' = -stackSize
    BY <2>1, <2>2, PlainFacts DEF AdjustSP, MI
  <2>4. ip' \in 1 .. Len(entry) + 1 /\ ip' > Len(entry)
    <3>1. Pushed \in Nat /\ ip = Pushed + 1 /\ ip' = ip + 1 /\ Len(entry) = Pushed + 1
      BY <1>1, <2>1, <2>2, PlainFacts
    <3> QED BY <3>1
  <2>5. SavedWord
    BY <2>1, PlainFacts DEF PlainEntryRun
  <2>6. PlainEntryRun'
    BY <1>2, <1>3, <2>1, <2>3, <2>4, <2>5, PlainSame DEF PlainEntryRun
  <2> QED BY <1>2, <2>1, <2>6 DEF PlainRun, Compiling
<1>5. CASE Frees
  <2>1. /\ Room # 0 /\ stage = "exit" /\ ip = 1 /\ Code[ip] = MI("ADD_SP", {}, Room)
        /\ PlainExit /\ PlainExitRun
    BY <1>5 DEF Frees, PlainCode, PlainRun
  <2>9. Adjusts = 1 /\ Pushed \in Nat
    BY <2>1, PlainFacts DEF Adjusts
  <2>2. Len(exit) = Pushed + 2 /\ sp = -stackSize /\ SavedWord
    BY <2>1, <2>9 DEF PlainExit, PlainExitRun
  <2>3. sp' = -4 * Saves
    BY <2>1, <2>2, PlainFacts DEF AdjustSP, MI
  <2>4. ip' = 2 /\ ip' \in 1 .. Len(exit)
    BY <1>1, <2>1, <2>2, PlainFacts
  <2>5. sp' = IF ip' > Adjusts + Pushed THEN 0 ELSE IF ip' > Adjusts THEN -4 * Saves ELSE -stackSize
    BY <2>1, <2>2, <2>3, <2>4, <2>9, PlainFacts
  <2>6. ip' > Adjusts + Pushed => Untouched(CSI(fn))'
    BY <1>2, <2>1, <2>2, <2>4, PlainFacts, PlainSame DEF Untouched
  <2>7. PlainExitRun'
    BY <1>2, <1>3, <2>1, <2>2, <2>4, <2>5, <2>6, PlainSame DEF PlainExitRun
  <2> QED BY <1>2, <2>1, <2>7 DEF PlainRun, Compiling
<1> QED BY <1>1, <1>4, <1>5

\* RET comes when everything is restored.
LEMMA PlainReturn ==
    ASSUME Plain, TypeInv, PlainCode, PlainRun, Return
    PROVE  PlainRun'
<1>1. Returning
  BY PlainFetch DEF Return, Pushes, Pops, Reserves, Frees, MI, PushOp, PopOp
<1>2. stage = "exit" /\ ip = Adjusts + Pushed + 1 /\ PlainExitRun
  BY <1>1 DEF Returning, PlainRun
<1>3. UNCHANGED <<fn, compileVars>> /\ reg' = reg /\ inCall' = inCall /\ stage' = "returned"
  BY DEF Return
<1>4. Untouched(Preserved)
  BY <1>2, PlainFacts DEF PlainExitRun, Untouched
<1>5. Untouched(Preserved)'
  BY <1>3, <1>4, PlainSame DEF Untouched
<1> QED BY <1>2, <1>3, <1>5 DEF PlainRun, Compiling

\* The body finds the frame built, and leaves it as it found it.
LEMMA PlainEnterLeave ==
    ASSUME Plain, TypeInv, PlainCode, PlainRun, EnterBody \/ LeaveBody
    PROVE  PlainRun'
<1>1. UNCHANGED <<fn, compileVars>> /\ UNCHANGED <<sp, reg, mem, written, inCall>>
  BY DEF EnterBody, LeaveBody, machineVars
<1>2. SavedWord' = SavedWord /\ Untouched(Preserved \ CSI(fn))' = Untouched(Preserved \ CSI(fn))
  BY <1>1, PlainSame DEF SavedWord, Untouched, Load
<1>3. CASE EnterBody
  <2>1. stage = "entry" /\ stage' = "body" /\ ip > Len(entry) /\ PlainEntryRun /\ PlainEntry
    BY <1>3 DEF EnterBody, PlainRun, PlainCode
  <2>2. SavedWord /\ sp = -stackSize
    BY <2>1, PlainFacts DEF PlainEntryRun, PlainEntry
  <2>3. ~inCall /\ written = {} /\ Untouched(Preserved \ CSI(fn))
    BY <2>1 DEF PlainRun, PlainEntryRun, Untouched
  <2>4. PlainBodyRun'
    BY <1>1, <1>2, <2>2, <2>3, PlainSame DEF PlainBodyRun
  <2> QED BY <2>1, <2>4 DEF PlainRun, Compiling
<1>4. CASE LeaveBody
  <2>1. stage = "body" /\ stage' = "exit" /\ ip' = 1 /\ ~inCall /\ PlainBodyRun /\ PlainExit
    BY <1>4 DEF LeaveBody, PlainRun, PlainCode
  <2>2. 1 \in 1 .. Len(exit)
    <3>1. Pushed \in Nat /\ Adjusts \in Nat
      BY <2>1, PlainFacts
    <3> QED BY <2>1, <3>1 DEF PlainExit
  <2>3. sp' = IF ip' > Adjusts + Pushed THEN 0 ELSE IF ip' > Adjusts THEN -4 * Saves ELSE -stackSize
    BY <1>1, <2>1, PlainFacts DEF PlainBodyRun
  <2>4. ip' > Adjusts + Pushed => Untouched(CSI(fn))'
    BY <1>1, <2>1, PlainFacts, PlainSame DEF Untouched
  <2>5. PlainExitRun'
    BY <1>1, <1>2, <2>1, <2>2, <2>3, <2>4, PlainSame DEF PlainBodyRun, PlainExitRun
  <2> QED BY <1>1, <2>1, <2>5 DEF PlainRun, Compiling
<1> QED BY <1>3, <1>4

\* A use of the stack below SP, by an interrupt, leaves every owned word.
LEMMA PlainInterrupt ==
    ASSUME Plain, TypeInv, PlainCode, PlainRun, Interrupt
    PROVE  PlainRun'
<1>1. /\ UNCHANGED <<fn, compileVars>> /\ UNCHANGED <<stage, ip, sp, reg, written, inCall>>
      /\ mem' = Above(sp) /\ stage \in {"entry", "body", "exit"}
  BY DEF Interrupt
<1>2. ASSUME NEW a \in Int, a >= sp PROVE Load(a)' = Load(a)
  BY <1>1, <1>2, PlainFacts DEF Load, Above
<1>3. SavedWord /\ sp <= -4 * Saves => SavedWord'
  <2> SUFFICES ASSUME SavedWord, sp <= -4 * Saves PROVE SavedWord'
    OBVIOUS
  <2>1. \A a \in Int : -4 * Saves <= a /\ a <= -4 => Load(a)' = Load(a)
    BY <1>1, <1>2, PlainFacts
  <2> QED BY <1>1, <2>1, SavedKept
<1>4. CSI(fn) = {} => SavedWord'
  BY <1>1, PlainSame DEF SavedWord
<1>5. CASE stage = "entry"
  <2>1. PlainEntry /\ PlainEntryRun
    BY <1>5 DEF PlainCode, PlainRun
  <2>2. ip > Pushed => SavedWord'
    BY <1>1, <1>3, <1>4, <2>1, PlainFacts DEF PlainEntry, PlainEntryRun
  <2>3. Untouched(Preserved)'
    BY <1>1, <2>1, PlainSame DEF PlainEntryRun, Untouched
  <2>4. PlainEntryRun'
    BY <1>1, <2>1, <2>2, <2>3, PlainSame DEF PlainEntryRun
  <2> QED BY <1>1, <1>5, <2>4 DEF PlainRun, Compiling
<1>6. CASE stage = "body"
  <2>1. PlainBodyRun /\ sp = -stackSize
    BY <1>6 DEF PlainRun, PlainBodyRun
  <2>2. SavedWord'
    BY <1>1, <1>3, <1>4, <2>1, PlainFacts DEF PlainBodyRun
  <2>3. Untouched(Preserved \ CSI(fn))'
    BY <1>1, <2>1, PlainSame DEF PlainBodyRun, Untouched
  <2>4. fn.locals \in Nat /\ CallArea \in Nat /\ fn.outArgs \in Nat /\ written \subseteq 1 .. fn.locals
        /\ Room = 4 * fn.locals + CallArea
    BY ShapeType DEF TypeInv, TypeOK, Room
  <2>5. ASSUME NEW i \in written
        PROVE  Load(-(4 * Saves + 4 * i))' = Local(i)
    <3> DEFINE a == -(4 * Saves + 4 * i)
    <3>1. a \in Int /\ a >= sp
      BY <1>1, <2>1, <2>4, PlainFacts
    <3>2. Load(a) = Local(i)
      BY <2>1 DEF PlainBodyRun
    <3>3. a' = a
      BY <1>1, PlainSame
    <3> HIDE DEF a
    <3>4. Load(a)' = Load(a)
      BY <1>1, <3>1, <3>3, PlainFacts DEF Load, Above
    <3> QED BY <3>2, <3>4 DEF a
  <2>6. ASSUME inCall, NEW k \in 0 .. fn.outArgs - 1
        PROVE  Load(sp + 4 * k)' = OutArg(k)
    <3>1. sp + 4 * k \in Int /\ sp + 4 * k >= sp
      BY <1>1, <2>4, PlainFacts
    <3>2. Load(sp + 4 * k)' = Load(sp + 4 * k)
      BY <1>1, <1>2, <3>1 DEF Load
    <3> QED BY <2>1, <2>6, <3>2 DEF PlainBodyRun
  <2>7. PlainBodyRun'
    BY <1>1, <2>1, <2>2, <2>3, <2>5, <2>6, PlainSame DEF PlainBodyRun, Load
  <2> QED BY <1>1, <1>6, <2>7 DEF PlainRun, Compiling
<1>7. CASE stage = "exit"
  <2>1. PlainExit /\ PlainExitRun
    BY <1>7 DEF PlainCode, PlainRun
  <2>2. ip <= Adjusts + Pushed => SavedWord'
    BY <1>1, <1>3, <1>4, <2>1, PlainFacts DEF PlainExitRun
  <2>3. /\ Untouched(Preserved \ CSI(fn))'
        /\ Untouched(CSI(fn)) => Untouched(CSI(fn))'
    BY <1>1, <2>1, PlainSame DEF PlainExitRun, Untouched
  <2>4. PlainExitRun'
    BY <1>1, <2>1, <2>2, <2>3, PlainSame DEF PlainExitRun
  <2> QED BY <1>1, <1>7, <2>4 DEF PlainRun, Compiling
<1> QED BY <1>1, <1>5, <1>6, <1>7

\* What is known in the body besides.
LEMMA PlainBodyFacts ==
    ASSUME Plain, TypeInv, PlainCode, PlainRun, stage = "body"
    PROVE  /\ PlainBodyRun /\ sp = -stackSize /\ stackSize = 4 * Saves + 4 * fn.locals + CallArea
           /\ fn.locals \in Nat /\ fn.outArgs \in Nat /\ CallArea \in Nat /\ Saves \in Nat
           /\ fn.hasCalls => CallArea = 4 * fn.outArgs
           /\ CallFrameBytes = 0
           /\ written \subseteq 1 .. fn.locals
           /\ \A i \in 1 .. fn.locals : FrameIndexAddr(objOffset[i]) = -(4 * Saves + 4 * i)
<1>1. fn \in Shapes /\ PlainBodyRun /\ stage \in AfterLayout
  BY DEF PlainRun, TypeInv, TypeOK, AfterLayout
<1>2. ~HasFP(fn) /\ ~fn.varSized /\ HasReservedCallFrame(fn)
  BY <1>1, PlainShape DEF HasReservedCallFrame
<1>3. /\ fn.locals \in Nat /\ fn.outArgs \in Nat /\ CallArea \in Nat /\ Saves \in Nat
      /\ stackSize = 4 * Saves + 4 * fn.locals + CallArea
  BY <1>1, ShapeType, PlainShape, PlainSize DEF Room
<1>4. sp = -stackSize
  BY <1>1 DEF PlainBodyRun
<1>5. ASSUME NEW i \in 1 .. fn.locals PROVE FrameIndexAddr(objOffset[i]) = -(4 * Saves + 4 * i)
  <2>1. objOffset[i] = -(4 + 4 * Saves + 4 * i)
    BY <1>1 DEF PlainCode
  <2> QED BY <1>2, <1>3, <1>4, <2>1 DEF FrameIndexAddr
<1>6. CallFrameBytes = 0 /\ (fn.hasCalls => CallArea = 4 * fn.outArgs)
  BY <1>2 DEF CallFrameBytes, CallArea
<1> QED BY <1>1, <1>3, <1>4, <1>5, <1>6 DEF TypeInv, TypeOK

\* What the body computes goes to registers that are saved or its own.
LEMMA PlainUseRegister ==
    ASSUME Plain, TypeInv, PlainCode, PlainRun, UseRegister
    PROVE  PlainRun'
<1>1. /\ stage = "body" /\ UNCHANGED <<fn, compileVars>>
      /\ UNCHANGED <<stage, sp, mem, written, inCall>>
  BY DEF UseRegister
<1>2. PICK r \in fn.used : reg' = [reg EXCEPT ![r] = Junk]
  BY DEF UseRegister
<1>3. r \notin Preserved \ CSI(fn)
  BY <1>1, PlainShape DEF TypeInv, TypeOK
<1>4. Untouched(Preserved \ CSI(fn))'
  <2>1. Untouched(Preserved \ CSI(fn))
    BY <1>1 DEF PlainRun, PlainBodyRun
  <2>2. reg \in [Regs -> Value] /\ Preserved \subseteq Regs
    BY PlainShape DEF TypeInv, TypeOK
  <2>3. ASSUME NEW q \in Preserved \ CSI(fn) PROVE reg'[q] = reg[q]
    BY <1>2, <1>3, <2>2, <2>3
  <2> QED BY <1>1, <2>1, <2>3, PlainSame DEF Untouched
<1>5. PlainBodyRun'
  BY <1>1, <1>4, PlainSame DEF PlainRun, PlainBodyRun, SavedWord, Load
<1> QED BY <1>1, <1>5 DEF PlainRun, Compiling

\* A local's word is no other local's, nor a saved register's, nor an
\* outgoing argument's.
LEMMA PlainStoreLocal ==
    ASSUME Plain, TypeInv, PlainCode, PlainRun, StoreLocal
    PROVE  PlainRun'
<1>1. /\ stage = "body" /\ UNCHANGED <<fn, compileVars>>
      /\ UNCHANGED <<stage, sp, reg, inCall>>
  BY DEF StoreLocal
<1>2. PICK i \in 1 .. fn.locals :
        /\ mem' = Store(mem, [a \in {FrameIndexAddr(objOffset[i])} |-> Local(i)])
        /\ written' = written \cup {i}
  BY DEF StoreLocal
<1> DEFINE at(j) == -(4 * Saves + 4 * j)
<1>3. mem' = Store(mem, [a \in {at(i)} |-> Local(i)])
  BY <1>1, <1>2, PlainBodyFacts
<1>4. /\ PlainBodyRun /\ Saves \in Nat /\ fn.locals \in Nat /\ CallArea \in Nat /\ sp \in Int
      /\ fn.outArgs \in Nat /\ sp = -(4 * Saves + 4 * fn.locals + CallArea)
      /\ fn.hasCalls => CallArea = 4 * fn.outArgs
      /\ written \subseteq 1 .. fn.locals
  BY <1>1, PlainBodyFacts DEF TypeInv, TypeOK
<1>5. SavedWord'
  <2>1. ASSUME NEW a \in Int, -4 * Saves <= a PROVE Load(a)' = Load(a)
    <3>1. a # at(i)
      BY <1>4, <2>1
    <3> HIDE DEF at
    <3> QED BY <1>3, <3>1 DEF Load, Store
  <2> QED BY <1>1, <1>4, <2>1, SavedKept DEF PlainBodyRun
<1>6. ASSUME NEW j \in written'
      PROVE  Load(at(j))' = Local(j)
  <2>1. j \in 1 .. fn.locals /\ at(j)' = at(j)
    BY <1>1, <1>2, <1>4, PlainSame
  <2>2. CASE j = i
    BY <1>3, <2>1, <2>2 DEF Load, Store
  <2>3. CASE j # i
    <3>1. at(j) # at(i) /\ j \in written
      BY <1>2, <1>4, <2>1, <2>3
    <3>2. Load(at(j)) = Local(j)
      BY <1>4, <3>1 DEF PlainBodyRun
    <3> HIDE DEF at
    <3> QED BY <1>3, <2>1, <3>1, <3>2 DEF Load, Store
  <2> QED BY <2>2, <2>3
<1>7. ASSUME inCall, NEW k \in 0 .. fn.outArgs - 1
      PROVE  fn.hasCalls /\ Load(sp + 4 * k)' = OutArg(k)
  <2>1. fn.hasCalls /\ Load(sp + 4 * k) = OutArg(k)
    BY <1>4, <1>7 DEF PlainBodyRun
  <2>2. sp + 4 * k # at(i)
    BY <1>4, <2>1
  <2> HIDE DEF at
  <2> QED BY <1>1, <1>3, <2>1, <2>2 DEF Load, Store
<1>8. Untouched(Preserved \ CSI(fn))'
  BY <1>1, <1>4, PlainSame DEF PlainBodyRun, Untouched
<1>9. inCall' => fn.hasCalls /\ \A k \in 0 .. fn.outArgs - 1 : Load(sp + 4 * k)' = OutArg(k)
  BY <1>1, <1>4, <1>7 DEF PlainBodyRun
<1>10. PlainBodyRun'
  BY <1>1, <1>4, <1>5, <1>6, <1>8, <1>9, PlainSame DEF PlainBodyRun, Load
<1> QED BY <1>1, <1>10 DEF PlainRun, Compiling

\* The outgoing arguments go to the lowest words, which nothing else owns.
LEMMA PlainStartCall ==
    ASSUME Plain, TypeInv, PlainCode, PlainRun, StartCall
    PROVE  PlainRun'
<1>1. /\ stage = "body" /\ fn.hasCalls /\ inCall' = TRUE /\ UNCHANGED <<fn, compileVars>>
      /\ UNCHANGED <<stage, reg, written>>
  BY DEF StartCall
<1>2. /\ PlainBodyRun /\ Saves \in Nat /\ fn.locals \in Nat /\ sp \in Int
      /\ fn.outArgs \in Nat /\ sp = -(4 * Saves + 4 * fn.locals + 4 * fn.outArgs)
      /\ written \subseteq 1 .. fn.locals /\ CallFrameBytes = 0
  BY <1>1, PlainBodyFacts DEF TypeInv, TypeOK
<1> DEFINE s == [a \in {sp + Word * k : k \in 0 .. fn.outArgs - 1} |-> OutArg((a - sp) \div Word)]
<1>3. sp' = sp /\ mem' = Store(mem, s)
  BY <1>2 DEF StartCall
<1>4. /\ \A a \in DOMAIN s : a < -(4 * Saves + 4 * fn.locals)
      /\ \A k \in 0 .. fn.outArgs - 1 : sp + 4 * k \in DOMAIN s /\ s[sp + 4 * k] = OutArg(k)
  BY <1>2 DEF Word
<1> HIDE DEF s
<1>5. SavedWord'
  <2>1. ASSUME NEW a \in Int, -4 * Saves <= a PROVE Load(a)' = Load(a)
    <3>1. a \notin DOMAIN s
      BY <1>2, <1>4, <2>1
    <3> QED BY <1>3, <3>1 DEF Load, Store
  <2> QED BY <1>1, <1>2, <2>1, SavedKept DEF PlainBodyRun
<1>6. ASSUME NEW i \in written
      PROVE  Load(-(4 * Saves + 4 * i))' = Local(i)
  <2> DEFINE at == -(4 * Saves + 4 * i)
  <2>1. at \notin DOMAIN s
    BY <1>2, <1>4
  <2>2. Load(at) = Local(i)
    BY <1>2 DEF PlainBodyRun
  <2>3. at' = at
    BY <1>1, PlainSame
  <2> HIDE DEF at
  <2>4. Load(at)' = Local(i)
    BY <1>3, <2>1, <2>2, <2>3 DEF Load, Store
  <2> QED BY <2>4 DEF at
<1>7. \A k \in 0 .. fn.outArgs - 1 : Load(sp + 4 * k)' = OutArg(k)
  BY <1>3, <1>4 DEF Load, Store
<1>8. Untouched(Preserved \ CSI(fn))'
  BY <1>1, <1>2, PlainSame DEF PlainBodyRun, Untouched
<1>9. sp' = -stackSize'
  BY <1>1, <1>2, <1>3, PlainSame DEF PlainBodyRun
<1>10. PlainBodyRun'
  BY <1>1, <1>5, <1>6, <1>7, <1>8, <1>9, PlainSame DEF PlainBodyRun, Load
<1> QED BY <1>1, <1>10 DEF PlainRun, Compiling

\* The callee has the argument words and everything below them.
LEMMA PlainCall ==
    ASSUME Plain, TypeInv, PlainCode, PlainRun, Call
    PROVE  PlainRun'
<1>1. /\ stage = "body" /\ inCall /\ inCall' = FALSE /\ UNCHANGED <<fn, compileVars>>
      /\ UNCHANGED <<stage, written>> /\ mem' = Above(sp + Word * fn.outArgs)
      /\ reg' = [r \in Regs |-> IF r \in ArgRegs THEN Junk ELSE reg[r]]
  BY DEF Call
<1>2. /\ PlainBodyRun /\ Saves \in Nat /\ fn.locals \in Nat /\ sp \in Int
      /\ fn.outArgs \in Nat /\ sp = -(4 * Saves + 4 * fn.locals + 4 * fn.outArgs)
      /\ written \subseteq 1 .. fn.locals /\ CallFrameBytes = 0 /\ fn.hasCalls
  BY <1>1, PlainBodyFacts DEF TypeInv, TypeOK, PlainBodyRun
<1>3. sp' = sp
  BY <1>2 DEF Call
<1> DEFINE top == sp + Word * fn.outArgs
<1>4. top = -(4 * Saves + 4 * fn.locals) /\ mem' = Above(top)
  BY <1>1, <1>2 DEF Word
<1> HIDE DEF top
<1>5. SavedWord'
  <2>1. ASSUME NEW a \in Int, -4 * Saves <= a PROVE Load(a)' = Load(a)
    <3>1. a >= top
      BY <1>2, <1>4, <2>1
    <3> QED BY <1>4, <3>1 DEF Load, Above
  <2> QED BY <1>1, <1>2, <2>1, SavedKept DEF PlainBodyRun
<1>6. ASSUME NEW i \in written
      PROVE  Load(-(4 * Saves + 4 * i))' = Local(i)
  <2> DEFINE at == -(4 * Saves + 4 * i)
  <2>1. at >= top
    BY <1>2, <1>4
  <2>2. Load(at) = Local(i)
    BY <1>2 DEF PlainBodyRun
  <2>3. at' = at
    BY <1>1, PlainSame
  <2> HIDE DEF at
  <2>4. Load(at)' = Local(i)
    BY <1>4, <2>1, <2>2, <2>3 DEF Load, Above
  <2> QED BY <2>4 DEF at
<1>7. Untouched(Preserved \ CSI(fn))'
  <2>1. Preserved \cap ArgRegs = {} /\ Preserved \subseteq Regs
    BY <1>2, PlainShape DEF TypeInv, TypeOK
  <2>2. Untouched(Preserved \ CSI(fn))
    BY <1>2 DEF PlainBodyRun
  <2> QED BY <1>1, <2>1, <2>2, PlainSame DEF Untouched
<1>8. sp' = -stackSize'
  BY <1>1, <1>2, <1>3, PlainSame DEF PlainBodyRun
<1>9. PlainBodyRun'
  BY <1>1, <1>5, <1>6, <1>7, <1>8, PlainSame DEF PlainBodyRun, Load
<1> QED BY <1>1, <1>9 DEF PlainRun, Compiling

-----------------------------------------------------------------------------
(* The theorems.                                                           *)

PlainInv == IInv /\ PlainCode /\ PlainRun

\* The invariant is inductive.
LEMMA PlainStep == ASSUME Plain, PlainInv, [Next]_vars PROVE PlainInv'
<1>0. Balanced
  BY ShapeType DEF Plain, Balanced, HasFP
<1>1. IInv' /\ TypeInv /\ CodeInv /\ PlainCode /\ PlainRun
  BY <1>0, IInvStep DEF PlainInv, IInv
<1>2. CASE Compile
  BY <1>1, <1>2, PlainCodeCompile, PlainRunCompile DEF PlainInv
<1>3. CASE Execute
  <2>1. UNCHANGED <<fn, compileVars>>
    BY <1>3 DEF Execute, Push, Pop, SetFP, ResetSP, AdjustSP, Return, EnterBody, LeaveBody,
                UseRegister, StoreLocal, Alloca, StartCall, Call, Interrupt
  <2>2. stage' = stage \/ (stage \in {"entry", "body", "exit"}
                            /\ stage' \in {"entry", "body", "exit", "returned"})
    BY <1>3 DEF Execute, Push, Pop, SetFP, ResetSP, AdjustSP, Return, EnterBody, LeaveBody,
                UseRegister, StoreLocal, Alloca, StartCall, Call, Interrupt, Fetch
  <2>3. PlainCode'
    BY <1>1, <2>1, <2>2, PlainCodeKept
  <2>4. ~SetFP /\ ~ResetSP
    BY <1>1, PlainFetch
    DEF SetFP, ResetSP, Pushes, Pops, Reserves, Frees, Returning, MI, PushOp, PopOp
  <2>5. ~Alloca
    BY <1>1, PlainShape DEF Alloca, TypeInv, TypeOK
  <2>6. PlainRun'
    BY <1>1, <1>3, <2>4, <2>5, PlainPush, PlainPop, PlainAdjustSP, PlainReturn,
       PlainEnterLeave, PlainUseRegister, PlainStoreLocal, PlainStartCall, PlainCall,
       PlainInterrupt
    DEF Execute
  <2> QED BY <1>1, <2>3, <2>6 DEF PlainInv
<1>4. CASE UNCHANGED vars
  <2>1. UNCHANGED <<fn, compileVars>> /\ UNCHANGED machineVars /\ stage' = stage
    BY <1>4 DEF vars
  <2>2. PlainCode'
    BY <1>1, <2>1, PlainCodeKept
  <2>3. PlainRun'
    BY <1>1, <2>1, PlainSame
    DEF PlainRun, PlainEntryRun, PlainBodyRun, PlainExitRun, SavedWord, Untouched, Load,
        machineVars, Compiling
  <2> QED BY <1>1, <2>2, <2>3 DEF PlainInv
<1> QED BY <1>2, <1>3, <1>4 DEF Next

(* In plain frames every word below the return address has one owner, and  *)
(* holds what its owner put there for as long as the body runs.            *)
THEOREM PlainInvariant == ASSUME Plain PROVE Spec => []PlainInv
<1>1. Init => PlainInv
  BY InitType, CodeInit, RunInit, PlainCodeInit, PlainRunInit DEF PlainInv, IInv
<1>2. PlainInv /\ [Next]_vars => PlainInv'
  BY PlainStep
<1> QED BY <1>1, <1>2, PTL DEF Spec

(* A function with a plain frame returns with every callee-saved register, *)
(* FP included, as its caller left it, whatever the body stored and called *)
(* and whenever an interrupt came (spill- and restoreCalleeSavedRegisters, *)
(* emitPrologue, emitEpilogue).                                            *)
THEOREM RegistersRestored == ASSUME Plain PROVE Spec => []CalleeSavedRestored
<1>1. PlainInv => CalleeSavedRestored
  BY DEF PlainInv, PlainRun, CalleeSavedRestored, Untouched, Preserved
<1> QED BY <1>1, PlainInvariant, PTL

(* In a plain frame no store, call or interrupt reaches a local but the    *)
(* body's own store to it: the layout and eliminateFrameIndex keep every   *)
(* local's word apart from saved registers and outgoing arguments.         *)
THEOREM LocalsCorrect == ASSUME Plain PROVE Spec => []LocalsKept
<1>1. PlainInv => LocalsKept
  <2> SUFFICES ASSUME Plain, PlainInv, stage = "body", NEW i \in written
               PROVE  Load(FrameIndexAddr(objOffset[i])) = Local(i)
    BY DEF LocalsKept
  <2>1. i \in 1 .. fn.locals /\ FrameIndexAddr(objOffset[i]) = -(4 * Saves + 4 * i)
    BY PlainBodyFacts DEF PlainInv, IInv
  <2>2. Load(-(4 * Saves + 4 * i)) = Local(i)
    BY DEF PlainInv, PlainRun, PlainBodyRun
  <2> QED BY <2>1, <2>2
<1> QED BY <1>1, PlainInvariant, PTL

(* In a plain frame the outgoing arguments are where the callee reads them *)
(* when it is called, whatever the body stores while the sequence is open. *)
THEOREM ArgumentsDelivered == ASSUME Plain PROVE Spec => []OutArgsDelivered
<1>1. PlainInv => OutArgsDelivered
  BY DEF PlainInv, PlainRun, PlainBodyRun, OutArgsDelivered, Word
<1> QED BY <1>1, PlainInvariant, PTL

\* Different registers have different bits in the mask.
LEMMA BitsDiffer ==
    ASSUME NEW r \in Regs, NEW q \in Regs, EnumNumber(r) = EnumNumber(q)
    PROVE  r = q
<1>1. RegNo[r] \in Nat /\ RegNo[q] \in Nat /\ (RegNo[r] = RegNo[q] => r = q)
  BY RegsAssumption
<1> QED BY <1>1 DEF EnumNumber

(* From anywhere in the body of a plain frame, .frame leads an unwinder to *)
(* the return address and .mask, read with the compiler's numbers, to what *)
(* a register of its held; every other callee-saved register has the       *)
(* caller's value still.                                                   *)
THEOREM DirectivesCorrect == ASSUME Plain PROVE Spec => []UnwindsToCaller
<1>1. PlainInv => UnwindsToCaller
  <2> SUFFICES ASSUME Plain, PlainInv, stage = "body"
               PROVE  LET top == FrameDirective.register + FrameDirective.size
                      IN /\ Load(top) = RetAddr
                         /\ MaskDirective.bits # {} =>
                              \E r \in Regs :
                                  InMask(r) /\ Load(top + MaskDirective.offset) = Old(r)
                         /\ \A r \in Preserved : ~InMask(r) => reg[r] = Old(r)
    BY DEF UnwindsToCaller, Preserved
  <2>1. /\ ~HasFP(fn) /\ sp = -stackSize /\ SavedWord /\ CallerInv /\ stackSize \in Int
        /\ Untouched(Preserved \ CSI(fn)) /\ CSI(fn) \subseteq Regs /\ Preserved \subseteq Regs
    BY PlainShape DEF PlainInv, PlainRun, PlainBodyRun, IInv, RunInv, TypeInv, TypeOK
  <2>2. FrameDirective.register + FrameDirective.size = 0
    BY <2>1 DEF FrameDirective, GetFrameRegister
  <2>3. Load(0) = RetAddr
    BY <2>1 DEF CallerInv, CallerWords, Load
  <2>4. CSI(fn) # {} => \E r \in CSI(fn) : Load(-4) = Old(r)
    <3>1. fn \in Shapes /\ CSI(fn) \subseteq Regs /\ IsFiniteSet(CSI(fn))
      BY CSIFinite DEF PlainInv, IInv, TypeInv, TypeOK
    <3>2. CSI(fn) # {} => \E r \in CSI(fn) : Depth(CSI(fn), r) = 1
      BY <3>1, DepthOne
    <3>3. -4 * 1 = -4
      OBVIOUS
    <3> QED BY <2>1, <3>2, <3>3 DEF SavedWord
  <2>5. /\ MaskDirective.bits = {EnumNumber(r) : r \in CSI(fn)}
        /\ MaskDirective.bits # {} => CSI(fn) # {} /\ 0 + MaskDirective.offset = -4
    BY DEF MaskDirective, CPUBitmask, CPURegSize
  <2>6. ASSUME NEW r \in Regs PROVE InMask(r) <=> r \in CSI(fn)
    BY <2>1, <2>5, BitsDiffer DEF InMask
  <2>7. MaskDirective.bits # {} =>
          \E r \in Regs : InMask(r) /\ Load(0 + MaskDirective.offset) = Old(r)
    BY <2>1, <2>4, <2>5, <2>6
  <2>8. \A r \in Preserved : ~InMask(r) => reg[r] = Old(r)
    BY <2>1, <2>6 DEF Untouched
  <2> QED BY <2>2, <2>3, <2>7, <2>8
<1> QED BY <1>1, PlainInvariant, PTL

=============================================================================
