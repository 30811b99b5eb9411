---------------------------- MODULE KudeyarFrame ----------------------------
(***************************************************************************)
(* Stack frames of one function, from the prologue/epilogue insertion      *)
(* (PEI) hooks of KudeyarFrameLowering and KudeyarRegisterInfo to the       *)
(* execution of the code they emit.                                        *)
(*                                                                         *)
(* The first half of a behaviour is the compiler: PEI calls the hooks in   *)
(* its fixed order, and they build the entry and the exit code.  The       *)
(* second half is the machine: it runs the entry code, a body that uses    *)
(* the frame in any order, and the exit code, while interrupts may arrive  *)
(* between any two instructions.                                           *)
(*                                                                         *)
(* Addresses are in bytes, relative to SP at the function's entry, where   *)
(* the return address lies.  The stack grows down.  LLVM's frame offset o  *)
(* is the address o + 4: the local area starts 4 bytes below the caller's  *)
(* stack (KudeyarFrameLowering.h, offset of local area -4).                *)
(***************************************************************************)
EXTENDS Integers, Sequences, FiniteSets

CONSTANTS
    ArgRegs,      \* R0 .. R3: arguments and results, scratch across calls
    SavedRegs,    \* R4 .. R13: the general registers a callee preserves
    RegNo,        \* number of each register: the order PUSHA stores them in
    Shapes,       \* the functions that may be compiled
    AllocaLimit   \* bound: no alloca moves SP below -AllocaLimit

FP == "FP"
Regs == ArgRegs \cup SavedRegs \cup {FP}

(* What PEI knows of a function.  Locals and arguments are words of four   *)
(* bytes; `used' are the registers the allocator gave out, which never     *)
(* include a reserved one (getReservedRegs).                               *)
FunctionShape ==
    [disableFPElim : BOOLEAN, frameAddressTaken : BOOLEAN, varSized : BOOLEAN,
     intr : BOOLEAN, used : SUBSET Regs, locals : Nat,
     inArgs : Nat, hasCalls : BOOLEAN, outArgs : Nat]

HasFP(f) == f.disableFPElim \/ f.varSized \/ f.frameAddressTaken
HasReservedCallFrameNever(f) == FALSE                        \* mutant
HasReservedCallFrame(f) == ~f.varSized
ReservedRegs(f) == IF HasFP(f) THEN {FP} ELSE {}

ASSUME RegsAssumption ==
    /\ IsFiniteSet(ArgRegs) /\ IsFiniteSet(SavedRegs)
    /\ ArgRegs \cap SavedRegs = {} /\ FP \notin ArgRegs \cup SavedRegs
    /\ RegNo \in [Regs -> Nat]
    /\ \A r, q \in Regs : RegNo[r] = RegNo[q] => r = q

ASSUME ShapesAssumption ==
    /\ Shapes \subseteq FunctionShape
    /\ \A f \in Shapes : /\ f.used \cap ReservedRegs(f) = {}
                         /\ f.outArgs > 0 => f.hasCalls
                         /\ f.intr => f.inArgs = 0

ASSUME AllocaAssumption == AllocaLimit \in Nat

Word == 4
LocalAreaSize == 4    \* minus the offset of local area
Larger(a, b) == IF a >= b THEN a ELSE b

CalleeSavedRegs(f) ==
    (IF f.intr THEN ArgRegs ELSE {}) \cup SavedRegs
        \cup (IF HasFP(f) THEN {} ELSE {FP})

\* The callee-saved registers PEI hands to the hooks: those the body uses.
CSI(f) == CalleeSavedRegs(f) \cap f.used

-----------------------------------------------------------------------------
(* Machine code of the entry and exit blocks, and the values it moves.     *)

StackOps  == {"PUSH_R", "PUSHA", "POP_R", "POPA"}
AdjustOps == {"SUB_SP", "ADD_SP"}
OtherOps  == {"MOV_FP_SP", "MOV_SP_FP", "RET"}
Instr == [op : StackOps, regs : (SUBSET Regs) \ {{}}, imm : {0}]
           \cup [op : AdjustOps, regs : {{}}, imm : Int \ {0}]
           \cup [op : OtherOps, regs : {{}}, imm : {0}]
MI(op, regs, imm) == [op |-> op, regs |-> regs, imm |-> imm]

\* BuildMI of "SP -= n" / "SP += n", emitted only when n is not zero.
AdjustBy(op, n) == IF n = 0 THEN <<>> ELSE <<MI(op, {}, n)>>

RetAddr == <<"ret", 0>>
Junk    == <<"junk", 0>>
Base    == <<"base", 0>>        \* FP while it holds this frame's base
Old(r)  == <<"old", r>>         \* what the caller left in register r
InArg(k)  == <<"in", k>>
OutArg(k) == <<"out", k>>
Local(i)  == <<"local", i>>
Value == ({"old"} \X Regs) \cup ({"ret", "junk", "base", "in", "out", "local"} \X Nat)

VARIABLES
    fn,         \* the function being compiled, then run
    stage,      \* the PEI hook that comes next, then where execution is
    csSize,     \* KudeyarMachineFunctionInfo::CalleeSavedFrameSize
    fixedObjs,  \* offsets of the fixed frame objects
    objOffset,  \* offset of each local, once laid out
    stackSize,  \* MachineFrameInfo::getStackSize
    entry,      \* code in front of the body
    exit,       \* code of the returning block
    ip,         \* next instruction of entry or exit
    sp,         \* the stack pointer
    base,       \* the address FP holds as the frame's base
    reg,        \* contents of the registers other than SP
    mem,        \* contents of the stack words that mean anything
    written,    \* locals the body has stored to
    inCall      \* between a call sequence's start and its call

compileVars == <<csSize, fixedObjs, objOffset, stackSize, entry, exit>>
machineVars == <<ip, sp, base, reg, mem, written, inCall>>
vars == <<fn, stage, compileVars, machineVars>>

Init ==
    /\ fn \in Shapes
    /\ stage = "callFrame"
    /\ csSize = 0
    /\ fixedObjs = {Word * k : k \in 0 .. fn.inArgs - 1}
    /\ objOffset = <<>>
    /\ stackSize = 0
    /\ entry = <<>>
    /\ exit = <<MI("RET", {}, 0)>>
    /\ ip = 1
    /\ sp = 0
    /\ base = 0
    /\ reg = [r \in Regs |-> Old(r)]
    /\ mem = [a \in {0} \cup {Word + Word * k : k \in 0 .. fn.inArgs - 1} |->
                IF a = 0 THEN RetAddr ELSE InArg(a \div Word - 1)]
    /\ written = {}
    /\ inCall = FALSE

-----------------------------------------------------------------------------
(* The compiler: the PEI hooks, in the order PEI calls them.               *)

(* Replace the call-frame pseudos.  With a reserved call frame they        *)
(* vanish.  Without one they become SUB_RR and ADD_RR of SP, which have    *)
(* three operands and no implicit one: getOperand(3) is out of range, so   *)
(* the compiler stops on its assertion or, built without, writes past the  *)
(* operands and goes on.                                                   *)
EliminateCallFramePseudoInstr ==
    /\ stage = "callFrame"
    /\ \/ stage' = "spill"
       \/ /\ ~HasReservedCallFrame(fn) /\ fn.outArgs > 0
          /\ stage' = "aborted"
    /\ UNCHANGED <<fn, compileVars, machineVars>>

SpillCalleeSavedRegisters ==
    /\ stage = "spill"
    /\ stage' = "restore"
    /\ LET saved == CSI(fn) IN
       IF saved = {}
       THEN UNCHANGED <<csSize, entry>>
       ELSE /\ csSize' = Word * Cardinality(saved)
            /\ entry' = <<MI(IF Cardinality(saved) > 1 THEN "PUSHA" ELSE "PUSH_R",
                             saved, 0)>> \o entry
    /\ UNCHANGED <<fn, fixedObjs, objOffset, stackSize, exit, machineVars>>

RestoreUnguarded ==                     \* mutant: no return on an empty list
    /\ stage = "restore"
    /\ stage' = "finalize"
    /\ exit' = <<MI("POP_R", CSI(fn), 0)>> \o exit
    /\ UNCHANGED <<fn, csSize, fixedObjs, objOffset, stackSize, entry, machineVars>>

RestoreCalleeSavedRegisters ==
    /\ stage = "restore"
    /\ stage' = "finalize"
    /\ LET saved == CSI(fn) IN
       exit' = IF saved = {}
               THEN exit
               ELSE <<MI(IF Cardinality(saved) > 1 THEN "POPA" ELSE "POP_R",
                         saved, 0)>> \o exit
    /\ UNCHANGED <<fn, csSize, fixedObjs, objOffset, stackSize, entry, machineVars>>

\* The fixed object meant for the saved FP: size 4, offset -4.
ProcessFunctionBeforeFrameFinalized ==
    /\ stage = "finalize"
    /\ stage' = "layout"
    /\ fixedObjs' = fixedObjs \cup (IF HasFP(fn) THEN {-4} ELSE {})
    /\ UNCHANGED <<fn, csSize, objOffset, stackSize, entry, exit, machineVars>>

(* PEI's layout: start below the local area and below every fixed object   *)
(* that reaches deeper, then one word per callee-saved register, then the  *)
(* locals, then the reserved call frame.                                   *)
CalculateFrameObjectOffsets ==
    /\ stage = "layout"
    /\ stage' = "prologue"
    /\ \E start \in {LocalAreaSize} \cup {-o : o \in fixedObjs} :
         LET locals == start + Word * Cardinality(CSI(fn))
             calls  == IF fn.hasCalls /\ HasReservedCallFrame(fn)
                       THEN Word * fn.outArgs ELSE 0
         IN /\ start >= LocalAreaSize /\ \A o \in fixedObjs : start >= -o
            /\ objOffset' = [i \in 1 .. fn.locals |-> -(locals + Word * i)]
            /\ stackSize' = locals + Word * fn.locals + calls - LocalAreaSize
    /\ UNCHANGED <<fn, csSize, fixedObjs, entry, exit, machineVars>>

\* Bytes the prologue takes off SP besides the pushes (uint64_t in the code,
\* where it may wrap below zero; SUB_RI32 then adds).
NumBytes == IF HasFP(fn) THEN stackSize - 4 - csSize ELSE stackSize - csSize

SkipsNoPushes(k) == k = 0                                    \* mutant

\* The loop over the callee-saved pushes at the top of entry stops after k.
SkipsPushes(k) ==
    /\ \A j \in 1 .. k : entry[j].op = "PUSH_R"
    /\ k < Len(entry) => entry[k + 1].op # "PUSH_R"

EmitPrologue ==
    /\ stage = "prologue"
    /\ stage' = "epilogue"
    /\ \E k \in 0 .. Len(entry) :
         /\ SkipsPushes(k)
         /\ entry' = (IF HasFP(fn) THEN <<MI("PUSH_R", {FP}, 0), MI("MOV_FP_SP", {}, 0)>>
                                   ELSE <<>>)
                     \o SubSeq(entry, 1, k)
                     \o AdjustBy("SUB_SP", NumBytes)
                     \o SubSeq(entry, k + 1, Len(entry))
    /\ UNCHANGED <<fn, csSize, fixedObjs, objOffset, stackSize, exit, machineVars>>

ExitWithoutPopFP == exit                                     \* mutant

\* The exit code once the POP of FP stands in front of RET.
ExitWithPopFP ==
    IF HasFP(fn) THEN SubSeq(exit, 1, Len(exit) - 1)
                      \o <<MI("POP_R", {FP}, 0)>> \o <<exit[Len(exit)]>>
                 ELSE exit

\* The loop over the callee-saved pops at the end of code stops before k.
SkipsPops(code, k) ==
    /\ \A j \in k .. Len(code) - 1 : code[j].op = "POP_R"
    /\ k > 1 => code[k - 1].op # "POP_R"

\* The code that takes the frame off the stack again.
FreeFrame ==
    IF fn.varSized THEN <<MI("MOV_SP_FP", {}, 0)>> \o AdjustBy("SUB_SP", csSize)
                   ELSE AdjustBy("ADD_SP", NumBytes)

EmitEpilogue ==
    /\ stage = "epilogue"
    /\ stage' = "entry"
    /\ LET code == ExitWithPopFP
       IN \E k \in 1 .. Len(code) :
            /\ SkipsPops(code, k)
            /\ exit' = SubSeq(code, 1, k - 1) \o FreeFrame \o SubSeq(code, k, Len(code))
    /\ UNCHANGED <<fn, csSize, fixedObjs, objOffset, stackSize, entry, machineVars>>

Compile ==
    \/ EliminateCallFramePseudoInstr \/ SpillCalleeSavedRegisters
    \/ RestoreCalleeSavedRegisters   \/ ProcessFunctionBeforeFrameFinalized
    \/ CalculateFrameObjectOffsets   \/ EmitPrologue \/ EmitEpilogue

-----------------------------------------------------------------------------
(* The machine.                                                            *)

Load(a) == IF a \in DOMAIN mem THEN mem[a] ELSE Junk
\* Memory m after the words in DOMAIN s are stored to.
Store(m, s) ==
    [a \in DOMAIN m \cup DOMAIN s |-> IF a \in DOMAIN s THEN s[a] ELSE m[a]]

Code == IF stage = "entry" THEN entry ELSE exit
\* The instruction at ip is about to execute and is one of ops.
Fetch(ops) == /\ stage \in {"entry", "exit"}
              /\ ip \in 1 .. Len(Code)
              /\ Code[ip].op \in ops
              /\ ip' = ip + 1

\* How deep below SP register r of the list regs is pushed: 1 is nearest.
Depth(regs, r) == Cardinality({q \in regs : RegNo[q] <= RegNo[r]})

Push ==
    /\ Fetch({"PUSH_R", "PUSHA"})
    /\ LET list == Code[ip].regs
           At(r) == sp - Word * Depth(list, r)
       IN /\ sp' = sp - Word * Cardinality(list)
          /\ mem' = Store(mem, [a \in {At(r) : r \in list} |->
                                   reg[CHOOSE r \in list : At(r) = a]])
    /\ UNCHANGED <<fn, stage, compileVars, base, reg, written, inCall>>

Pop ==
    /\ Fetch({"POP_R", "POPA"})
    /\ LET list == Code[ip].regs
           top  == sp + Word * Cardinality(list)
       IN /\ sp' = top
          /\ reg' = [r \in Regs |-> IF r \in list THEN Load(top - Word * Depth(list, r))
                                                  ELSE reg[r]]
    /\ UNCHANGED <<fn, stage, compileVars, base, mem, written, inCall>>

SetFP ==
    /\ Fetch({"MOV_FP_SP"})
    /\ base' = sp
    /\ reg' = [reg EXCEPT ![FP] = Base]
    /\ UNCHANGED <<fn, stage, compileVars, sp, mem, written, inCall>>

ResetSP ==
    /\ Fetch({"MOV_SP_FP"})
    /\ sp' = base
    /\ UNCHANGED <<fn, stage, compileVars, base, reg, mem, written, inCall>>

AdjustSP ==
    /\ Fetch({"SUB_SP", "ADD_SP"})
    /\ sp' = IF Code[ip].op = "SUB_SP" THEN sp - Code[ip].imm ELSE sp + Code[ip].imm
    /\ UNCHANGED <<fn, stage, compileVars, base, reg, mem, written, inCall>>

\* RET pops the address to continue at; it is left in `mem' below SP.
Return ==
    /\ Fetch({"RET"})
    /\ stage' = "returned"
    /\ sp' = sp + Word
    /\ UNCHANGED <<fn, compileVars, base, reg, mem, written, inCall>>

EnterBody ==
    /\ stage = "entry" /\ ip > Len(entry)
    /\ stage' = "body"
    /\ UNCHANGED <<fn, compileVars, machineVars>>

LeaveBody ==
    /\ stage = "body" /\ ~inCall
    /\ stage' = "exit"
    /\ ip' = 1
    /\ UNCHANGED <<fn, compileVars, sp, base, reg, mem, written, inCall>>

\* mutants: the word of the return address, or of the saved FP, not skipped
FrameIndexAddrNoPC(o) ==
    IF HasFP(fn) THEN base + o + 4 ELSE sp + o + stackSize
FrameIndexAddrNoFP(o) ==
    IF HasFP(fn) THEN base + o + 4 ELSE sp + o + 4 + stackSize

\* Address that eliminateFrameIndex gives an object at offset o.
FrameIndexAddr(o) ==
    IF HasFP(fn) THEN base + o + 4 + 4 ELSE sp + o + 4 + stackSize

\* The address the frame layout means by offset o.
ObjectAddr(o) == o + LocalAreaSize

\* A computation of the body leaves its result in a register it uses.
UseRegister ==
    /\ stage = "body"
    /\ \E r \in fn.used : reg' = [reg EXCEPT ![r] = Junk]
    /\ UNCHANGED <<fn, stage, compileVars, ip, sp, base, mem, written, inCall>>

StoreLocal ==
    /\ stage = "body"
    /\ \E i \in 1 .. fn.locals :
         /\ mem' = Store(mem, [a \in {FrameIndexAddr(objOffset[i])} |-> Local(i)])
         /\ written' = written \cup {i}
    /\ UNCHANGED <<fn, stage, compileVars, ip, sp, base, reg, inCall>>

\* An alloca of one word: SP moves down (LLVM's expansion of
\* DYNAMIC_STACKALLOC on the register set as stack pointer).
Alloca ==
    /\ stage = "body" /\ fn.varSized /\ ~inCall
    /\ sp - Word >= -AllocaLimit
    /\ sp' = sp - Word
    /\ UNCHANGED <<fn, stage, compileVars, ip, base, reg, mem, written, inCall>>

CallFrameBytes == IF HasReservedCallFrame(fn) THEN 0 ELSE Word * fn.outArgs

\* The start of a call sequence: move SP if nothing is reserved, and store
\* the outgoing stack arguments at SP upwards.
StartCall ==
    /\ stage = "body" /\ fn.hasCalls /\ ~inCall
    /\ inCall' = TRUE
    /\ sp' = sp - CallFrameBytes
    /\ mem' = Store(mem, [a \in {sp' + Word * k : k \in 0 .. fn.outArgs - 1} |->
                             OutArg((a - sp') \div Word)])
    /\ UNCHANGED <<fn, stage, compileVars, ip, base, reg, written>>

\* What survives when somebody else uses the stack below address a.
Above(a) == [b \in {c \in DOMAIN mem : c >= a} |-> mem[b]]

\* The call and its end: the callee owns R0 .. R3, its argument words and
\* everything below SP, and returns with SP as it was.
Call ==
    /\ stage = "body" /\ inCall
    /\ inCall' = FALSE
    /\ mem' = Above(sp + Word * fn.outArgs)
    /\ sp' = sp + CallFrameBytes
    /\ reg' = [r \in Regs |-> IF r \in ArgRegs THEN Junk ELSE reg[r]]
    /\ UNCHANGED <<fn, stage, compileVars, ip, base, written>>

\* An interrupt handler runs on the same stack, below SP.
Interrupt ==
    /\ stage \in {"entry", "body", "exit"}
    /\ mem' = Above(sp)
    /\ UNCHANGED <<fn, stage, compileVars, ip, sp, base, reg, written, inCall>>

Execute ==
    \/ Push \/ Pop \/ SetFP \/ ResetSP \/ AdjustSP \/ Return
    \/ EnterBody \/ LeaveBody
    \/ UseRegister \/ StoreLocal \/ Alloca \/ StartCall \/ Call
    \/ Interrupt

Next == Compile \/ Execute

Spec == Init /\ [][Next]_vars

-----------------------------------------------------------------------------
(* Properties.                                                             *)

Stages == {"callFrame", "spill", "restore", "finalize", "layout", "prologue",
           "epilogue", "entry", "body", "exit", "returned", "aborted"}

\* Every variable has its type.
TypeOK ==
    /\ fn \in Shapes
    /\ stage \in Stages
    /\ csSize \in Nat
    /\ fixedObjs \subseteq Int
    /\ stackSize \in Int
    /\ entry \in Seq(Instr) /\ exit \in Seq(Instr)
    /\ ip \in Nat
    /\ sp \in Int /\ base \in Int
    /\ reg \in [Regs -> Value]
    /\ DOMAIN mem \subseteq Int /\ \A a \in DOMAIN mem : mem[a] \in Value
    /\ written \subseteq 1 .. fn.locals
    /\ DOMAIN objOffset \in SUBSET (1 .. fn.locals)
    /\ \A i \in DOMAIN objOffset : objOffset[i] \in Int
    /\ inCall \in BOOLEAN

(* The function returns to its caller with the caller's SP: when RET       *)
(* executes, SP is back where it was at entry and the return address is    *)
(* still there.  emitPrologue and emitEpilogue must undo one another       *)
(* wherever their skip loops put the adjustments of SP.                    *)
ReturnsToCaller ==
    stage = "returned" => sp = Word /\ Load(0) = RetAddr

(* A caller finds every callee-saved register as it left it, FP included   *)
(* (the CSR lists of KudeyarCallingConv.td), whatever the body stored and  *)
(* called and whenever an interrupt came.                                  *)
CalleeSavedRestored ==
    stage = "returned" =>
        \A r \in CalleeSavedRegs(fn) \cup {FP} : reg[r] = Old(r)

(* While the body runs, the word FP was pushed to holds the caller's FP:    *)
(* processFunctionBeforeFrameFinalized is to reserve it a frame object.    *)
SavedFPKept ==
    stage = "body" /\ HasFP(fn) => Load(base) = Old(FP)

(* A local keeps what was last stored to it: no other frame object, saved  *)
(* register, outgoing argument, call or interrupt reaches its word.        *)
LocalsKept ==
    stage = "body" =>
        \A i \in written : Load(FrameIndexAddr(objOffset[i])) = Local(i)

(* The outgoing arguments are where the callee reads them when it is       *)
(* called, whatever the body stores while the sequence is open.            *)
OutArgsDelivered ==
    inCall => \A k \in 0 .. fn.outArgs - 1 : Load(sp + Word * k) = OutArg(k)

(* eliminateFrameIndex, which knows only the total frame size, and the     *)
(* prologue, which moved SP in pieces, agree on every object's address for *)
(* as long as the body runs, and the incoming arguments are read where the *)
(* caller put them.                                                        *)
FrameIndexAgrees ==
    stage = "body" =>
        /\ \A i \in 1 .. fn.locals :
             FrameIndexAddr(objOffset[i]) = ObjectAddr(objOffset[i])
        /\ \A k \in 0 .. fn.inArgs - 1 : Load(FrameIndexAddr(Word * k)) = InArg(k)

=============================================================================
