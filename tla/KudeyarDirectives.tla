------------------------- MODULE KudeyarDirectives -------------------------
(***************************************************************************)
(* The directives the assembly printer puts in front of a function's body: *)
(* .frame says which register is the frame's and how large the frame is,   *)
(* .mask which registers the entry code saves and where the first one lies *)
(* below the caller's stack.  A debugger or an unwinder that stops in the   *)
(* body has nothing else to go by.                                         *)
(*                                                                         *)
(* The mask is the set of its bits.  A bit is the compiler's own number of *)
(* a register, where the processor's is meant to be (the call of           *)
(* getKudeyarRegisterNumbering is commented out).                          *)
(***************************************************************************)
EXTENDS KudeyarFrame

GetFrameRegister == IF HasFP(fn) THEN base ELSE sp

FrameDirective == [register |-> GetFrameRegister, size |-> stackSize]

CPURegSize == 4

\* The number TableGen gives a register: in the order of their names, FP, PSW,
\* R0 .. R13, SP, from 1.
EnumNumber(r) == IF r = FP THEN 1 ELSE RegNo[r] + 3

CPUBitmask == {EnumNumber(r) : r \in CSI(fn)}

\* mutant: the first register right at the caller's stack
MaskAtTop == [bits |-> CPUBitmask, offset |-> 0]

MaskDirective ==
    [bits |-> CPUBitmask, offset |-> IF CPUBitmask = {} THEN 0 ELSE -CPURegSize]

InMask(r) == EnumNumber(r) \in MaskDirective.bits

(* Wherever in the body it stops, an unwinder that knows the compiler's    *)
(* numbers finds the caller's state: the return address .frame's size      *)
(* above the frame register; what one of the registers in .mask held, at   *)
(* .mask's offset from there; and in the registers themselves what every   *)
(* other callee-saved one held.  The totals and the list printed           *)
(* (KudeyarAsmPrinter.cpp:106-132, 150-161), the code emitted by prologue  *)
(* and spill hooks, and what the body, calls and interrupts left of stack  *)
(* and registers must agree.                                               *)
UnwindsToCaller ==
    stage = "body" =>
        LET top == FrameDirective.register + FrameDirective.size
        IN /\ Load(top) = RetAddr
           /\ MaskDirective.bits # {} =>
                \E r \in Regs : InMask(r) /\ Load(top + MaskDirective.offset) = Old(r)
           /\ \A r \in CalleeSavedRegs(fn) \cup {FP} : ~InMask(r) => reg[r] = Old(r)

=============================================================================
