--------------------------- MODULE KudeyarCallConv ---------------------------
(***************************************************************************)
(* One call, its two sides compiled apart.  The lowering of the caller     *)
(* (LowerCCCCallTo, LowerCallResult) and of the callee (LowerCCCArguments, *)
(* LowerReturn) each assign registers and stack words from what they see   *)
(* of the call, with the conventions of KudeyarCallingConv.td; then the    *)
(* code of both runs, its unordered parts in any order, and interrupts     *)
(* may come between any two instructions.                                  *)
(*                                                                         *)
(* Since types are legal (KudeyarCallSite), no location is promoted or    *)
(* converted (LocInfo is Full), and the conventions' entries for i1, i8,   *)
(* i16, f32 and f64 are never used.                                        *)
(*                                                                         *)
(* Addresses are in bytes, relative to the caller's SP inside the call     *)
(* sequence.  What keeps SP and the callee-saved registers as they are     *)
(* across the callee's body is KudeyarFrame's part.                        *)
(***************************************************************************)
EXTENDS KudeyarCallSite

CONSTANTS
    OwnBytes    \* bytes of the caller's frame above the outgoing arguments

Sides == {"caller", "callee"}
\* R0 .. R3, by number.
ArgRegs == 0 .. 3

ASSUME OwnBytesAssumption == OwnBytes \in Nat

Own(a) == <<"own", 0, a>>

-----------------------------------------------------------------------------
(* CCState: how many of R0 .. R3 are given out, the next free byte of the  *)
(* argument area, and the location the last operand was given.             *)

Location == [kind : {"reg", "mem"}, at : Nat]
At(kind, at) == [kind |-> kind, at |-> at]
CCState == [regs : 0 .. 4, offset : Nat, loc : Location]
CCStart == [regs |-> 0, offset |-> 0, loc |-> At("mem", 0)]

Larger(a, b) == IF a >= b THEN a ELSE b
AlignTo(o, align) == o + ((-o) % align)

\* mutant: a block takes a word
StackSizeWord(o) == 4

\* CCPassByVal<4, 4>: at least a word, aligned at least to one.
StackSize(o) == IF o.byVal THEN Larger(o.size, 4) ELSE 4
StackAlign(o) == IF o.byVal THEN Larger(o.align, 4) ELSE 4

\* CC_Kudeyar: a word goes to R0 .. R3 while there are any, else to the stack.
Allocate(s, o) ==
    IF ~o.byVal /\ s.regs < 4
    THEN [regs |-> s.regs + 1, offset |-> s.offset, loc |-> At("reg", s.regs)]
    ELSE LET at == AlignTo(s.offset, StackAlign(o))
         IN [regs |-> s.regs, offset |-> at + StackSize(o), loc |-> At("mem", at)]

\* RetCC_Kudeyar: word k of a result is returned in register k - 1.
ReturnReg(k) == k - 1
Returnable(n) == n <= 4

VARIABLES
    call,      \* the call that is compiled and made
    stage,     \* per side: the lowering step that comes next
    ccs,       \* per side: the CCState before and after each operand so far
    fixedObjs, \* the frame objects of the callee's stack arguments: offsets
    liveOut,   \* the registers that live out of the callee
    pc,        \* where execution is
    reg,       \* the words in R0 .. R3
    mem,       \* the stack bytes that mean anything
    stored,    \* the operands the caller has stored or copied to registers
    written,   \* the blocks the callee has changed
    inVals,    \* the arguments the callee has taken from where they were
    returned,  \* the words of the result that are in their registers
    back       \* the results the caller has taken

compileVars == <<stage, ccs, fixedObjs, liveOut>>
machineVars == <<pc, reg, mem, stored, written, inVals, returned, back>>
vars == <<call, compileVars, machineVars>>

\* ArgLocs[i] and getNextStackOffset, once a side has come so far.
Loc(s, i) == ccs[s][i + 1].loc
Last(s) == ccs[s][Len(ccs[s])]
Assigned(s) == Len(ccs[s]) - 1

Init ==
    /\ call \in Calls
    /\ stage = [s \in Sides |-> "lower"]
    /\ ccs = [s \in Sides |-> <<CCStart>>]
    /\ fixedObjs = <<>>
    /\ liveOut = {}
    /\ pc = "idle"
    /\ reg = [r \in ArgRegs |-> [b \in 0 .. 3 |-> Junk]]
    /\ mem = <<>>
    /\ stored = {} /\ written = {}
    /\ inVals = <<>>
    /\ returned = 0
    /\ back = <<>>

-----------------------------------------------------------------------------
(* The two sides are lowered, in either order.                             *)

Compiling(s, from) == pc = "idle" /\ stage[s] = from
Become(s, to) == stage' = [stage EXCEPT ![s] = to]

\* Operand k of the call is next on side s, of the n that side knows of.
AnalyzeOperand(s, n) ==
    /\ Compiling(s, "operands") /\ Assigned(s) < n
    /\ ccs' = [ccs EXCEPT ![s] = Append(@, Allocate(Last(s), call.outs[Len(@)]))]

LowerCall ==
    /\ Compiling("caller", "lower")
    /\ Become("caller", IF call.conv = "Kudeyar_INTR" THEN "fatal" ELSE "operands")
    /\ UNCHANGED <<call, ccs, fixedObjs, liveOut, machineVars>>

AnalyzeCallOperands ==
    /\ AnalyzeOperand("caller", Len(call.outs))
    /\ UNCHANGED <<call, stage, fixedObjs, liveOut, machineVars>>

\* The results of the call are the last thing the caller assigns.
LowerCallResult ==
    /\ Compiling("caller", "operands") /\ Assigned("caller") = Len(call.outs)
    /\ Become("caller", IF Returnable(call.results) THEN "ready" ELSE "fatal")
    /\ UNCHANGED <<call, ccs, fixedObjs, liveOut, machineVars>>

LowerFormalArguments ==
    /\ Compiling("callee", "lower")
    /\ Become("callee", IF call.conv # "Kudeyar_INTR" THEN "operands"
                        ELSE IF call.named = 0 THEN "body" ELSE "fatal")
    /\ UNCHANGED <<call, ccs, fixedObjs, liveOut, machineVars>>

AnalyzeFormalArguments ==
    /\ AnalyzeOperand("callee", call.named)
    /\ UNCHANGED <<call, stage, fixedObjs, liveOut, machineVars>>

StackFormals == {i \in 1 .. call.named : Loc("callee", i).kind = "mem"}

(* A fixed object for every stack argument.  The one for the first variable*)
(* argument (VarArgsFrameIndex) is read by nothing.                        *)
LowerCCCArguments ==
    /\ Compiling("callee", "operands") /\ Assigned("callee") = call.named
    /\ Become("callee", "body")
    /\ fixedObjs' = [i \in StackFormals |-> Loc("callee", i).at]
    /\ UNCHANGED <<call, ccs, liveOut, machineVars>>

\* mutants: the last register of the result is forgotten, or R1 is the first
LiveOutFromOne == 1 .. call.results
LiveOutButLast == {ReturnReg(k) : k \in 1 .. call.results - 1}

\* The registers of RVLocs, added for the first return of the function.
LiveOut == {ReturnReg(k) : k \in 1 .. call.results}

\* VASTART is no operation any pattern selects.
LowerReturn ==
    /\ Compiling("callee", "body")
    /\ IF \/ call.vaStart
          \/ call.conv = "Kudeyar_INTR" /\ call.results > 0
          \/ ~Returnable(call.results)
       THEN Become("callee", "fatal") /\ UNCHANGED liveOut
       ELSE Become("callee", "ready") /\ liveOut' = LiveOut
    /\ UNCHANGED <<call, ccs, fixedObjs, machineVars>>

Compile ==
    \/ LowerCall \/ AnalyzeCallOperands \/ LowerCallResult
    \/ LowerFormalArguments \/ AnalyzeFormalArguments \/ LowerCCCArguments
    \/ LowerReturn

-----------------------------------------------------------------------------
(* The machine.                                                            *)

NoCompile == UNCHANGED <<call, compileVars>>

Read(m, a) == IF a \in DOMAIN m THEN m[a] ELSE Junk
Load(a) == Read(mem, a)
LoadBytes(a, n) == [b \in 0 .. n - 1 |-> Load(a + b)]
\* Memory m after value v is stored at address a.
Store(m, a, v) ==
    [c \in DOMAIN m \cup {a + b : b \in DOMAIN v} |->
        IF c - a \in DOMAIN v THEN v[c - a] ELSE m[c]]
\* What survives when somebody else uses the stack below address a.
Above(a) == [c \in {b \in DOMAIN mem : b >= a} |-> mem[c]]

NumBytes == Last("caller").offset
OwnStart == AlignTo(NumBytes, 4)

OutValues == 1 .. Len(call.outs)
MemOps == {i \in OutValues : Loc("caller", i).kind = "mem"}
RegsToPass == OutValues \ MemOps

\* CALLSEQ_START: NumBytes at SP belong to the call, the caller's own above.
CallSeqStart ==
    /\ pc = "idle" /\ stage = [s \in Sides |-> "ready"]
    /\ pc' = "sequence"
    /\ mem' = [a \in OwnStart .. OwnStart + OwnBytes - 1 |-> Own(a)]
    /\ UNCHANGED <<reg, stored, written, inVals, returned, back>> /\ NoCompile

\* The stores (and copies of blocks) that a TokenFactor joins: in any order.
StoreArgument ==
    /\ pc = "sequence"
    /\ \E i \in MemOps \ stored :
         /\ mem' = Store(mem, Loc("caller", i).at, Sent(call, i))
         /\ stored' = stored \cup {i}
    /\ UNCHANGED <<pc, reg, written, inVals, returned, back>> /\ NoCompile

\* The copies to registers, glued together behind the stores.
CopyToReg ==
    /\ pc = "sequence" /\ MemOps \subseteq stored
    /\ \E i \in RegsToPass \ stored :
         /\ \A j \in RegsToPass : j < i => j \in stored
         /\ reg' = [reg EXCEPT ![Loc("caller", i).at] = Sent(call, i)]
         /\ stored' = stored \cup {i}
    /\ UNCHANGED <<pc, mem, written, inVals, returned, back>> /\ NoCompile

RetAddrBytes == Bytes("return", 0, 4)

\* mutant: the variable arguments are not waited for
CallWithNamed ==
    /\ pc = "sequence" /\ stored = 1 .. call.named
    /\ pc' = "entry"
    /\ mem' = Store(mem, -4, RetAddrBytes)
    /\ UNCHANGED <<reg, stored, written, inVals, returned, back>> /\ NoCompile

Call ==
    /\ pc = "sequence" /\ stored = OutValues
    /\ pc' = "entry"
    /\ mem' = Store(mem, -4, RetAddrBytes)
    /\ UNCHANGED <<reg, stored, written, inVals, returned, back>> /\ NoCompile

EntrySP == -4

\* Where the callee finds stack argument i (ObjectAddr of KudeyarFrame).
FixedObjectAddr(i) == EntrySP + 4 + fixedObjs[i]

\* The registers that are live in are copied when the callee starts.
CopyLiveIns ==
    /\ pc = "entry"
    /\ pc' = "body"
    /\ inVals' = [i \in 1 .. call.named \ StackFormals |-> reg[Loc("callee", i).at]]
    /\ UNCHANGED <<reg, mem, stored, written, returned, back>> /\ NoCompile

\* A load of a stack argument, or of a block passed by value, at any time.
LoadArgument ==
    /\ pc = "body"
    /\ \E i \in StackFormals \ (DOMAIN inVals \cup written) :
         inVals' = [k \in DOMAIN inVals \cup {i} |->
                       IF k = i THEN LoadBytes(FixedObjectAddr(i), call.outs[i].size)
                                ELSE inVals[k]]
    /\ UNCHANGED <<pc, reg, mem, stored, written, returned, back>> /\ NoCompile

\* The callee changes its copy of a block.
WriteBlock ==
    /\ pc = "body"
    /\ \E i \in StackFormals :
         /\ call.outs[i].byVal
         /\ mem' = Store(mem, FixedObjectAddr(i), [b \in 0 .. call.outs[i].size - 1 |-> Junk])
         /\ written' = written \cup {i}
    /\ UNCHANGED <<pc, reg, stored, inVals, returned, back>> /\ NoCompile

\* The callee's own work: it uses R0 .. R3 and the stack below its entry SP.
Work ==
    /\ pc = "body"
    /\ reg' = [r \in ArgRegs |-> [b \in 0 .. 3 |-> Junk]]
    /\ mem' = Above(EntrySP)
    /\ UNCHANGED <<pc, stored, written, inVals, returned, back>> /\ NoCompile

\* The result is copied to its registers, glued together, in front of RET.
CopyResult ==
    /\ pc \in {"body", "return"} /\ returned < call.results
    /\ pc' = "return"
    /\ returned' = returned + 1
    /\ reg' = [reg EXCEPT ![ReturnReg(returned + 1)] = Result(returned + 1)]
    /\ UNCHANGED <<mem, stored, written, inVals, back>> /\ NoCompile

\* RET.  What is not live out of the function need not survive its end.
Return ==
    /\ pc \in {"body", "return"} /\ returned = call.results
    /\ pc' = "back"
    /\ reg' = [r \in ArgRegs |-> IF r \in liveOut THEN reg[r] ELSE [b \in 0 .. 3 |-> Junk]]
    /\ mem' = Above(EntrySP + 4)
    /\ UNCHANGED <<stored, written, inVals, returned, back>> /\ NoCompile

\* mutant: from the last register to the first
CopyFromRegBackwards ==
    /\ pc = "back" /\ Len(back) < call.results
    /\ back' = Append(back, reg[ReturnReg(call.results - Len(back))])
    /\ UNCHANGED <<pc, reg, mem, stored, written, inVals, returned>> /\ NoCompile

\* The copies of the result out of its registers, glued to the call.
CopyFromReg ==
    /\ pc = "back" /\ Len(back) < call.results
    /\ back' = Append(back, reg[ReturnReg(Len(back) + 1)])
    /\ UNCHANGED <<pc, reg, mem, stored, written, inVals, returned>> /\ NoCompile

Done ==
    /\ pc = "back" /\ Len(back) = call.results
    /\ pc' = "done"
    /\ UNCHANGED <<reg, mem, stored, written, inVals, returned, back>> /\ NoCompile

SP == IF pc \in {"entry", "body", "return"} THEN EntrySP ELSE 0

\* An interrupt handler runs on the same stack, below SP.
Interrupt ==
    /\ pc \notin {"idle", "done"}
    /\ mem' = Above(SP)
    /\ UNCHANGED <<pc, reg, stored, written, inVals, returned, back>> /\ NoCompile

Progress ==
    \/ Compile \/ CallSeqStart \/ StoreArgument \/ CopyToReg \/ Call
    \/ CopyLiveIns \/ LoadArgument \/ CopyResult \/ Return \/ CopyFromReg \/ Done

Next == Progress \/ WriteBlock \/ Work \/ Interrupt

Spec == Init /\ [][Next]_vars
FairSpec == Spec /\ WF_vars(Progress)

-----------------------------------------------------------------------------
(* Properties.                                                             *)

Word == [0 .. 3 -> Byte]

\* Every variable has its type.
TypeOK ==
    /\ call \in Calls
    /\ stage \in [Sides -> {"lower", "operands", "body", "ready", "fatal"}]
    /\ ccs \in [Sides -> Seq(CCState)]
    /\ \A s \in Sides : Len(ccs[s]) \in 1 .. Len(call.outs) + 1
    /\ DOMAIN fixedObjs \subseteq 1 .. call.named
    /\ \A i \in DOMAIN fixedObjs : fixedObjs[i] \in Nat
    /\ liveOut \subseteq ArgRegs
    /\ pc \in {"idle", "sequence", "entry", "body", "return", "back", "done"}
    /\ reg \in [ArgRegs -> Word]
    /\ DOMAIN mem \subseteq Int /\ \A a \in DOMAIN mem : mem[a] \in Byte
    /\ stored \subseteq OutValues
    /\ written \subseteq 1 .. call.named
    /\ DOMAIN inVals \subseteq 1 .. call.named
    /\ \A i \in DOMAIN inVals : inVals[i] \in [0 .. call.outs[i].size - 1 -> Byte]
    /\ returned \in 0 .. call.results
    /\ back \in Seq(Word) /\ Len(back) <= call.results

(* Every argument the callee takes from its register or stack word is what *)
(* the caller passed, and a stack argument stays there for as long as the  *)
(* callee runs: LowerCCCCallTo and LowerCCCArguments, which never see one  *)
(* another's locations, agree, no two arguments overlap, and neither do    *)
(* the return address, another block the callee changes, or an interrupt.  *)
ArgumentsArrive ==
    /\ \A i \in DOMAIN inVals : inVals[i] = Sent(call, i)
    /\ pc \in {"body", "return"} =>
         \A i \in StackFormals \ written :
             LoadBytes(FixedObjectAddr(i), call.outs[i].size) = Sent(call, i)

(* The caller takes the words of the result the callee returned, in order  *)
(* (LowerReturn and LowerCallResult).                                      *)
ResultsArrive == pc = "done" => back = [k \in 1 .. call.results |-> Result(k)]

(* Nothing that is stored for the call, by either side, reaches the        *)
(* caller's own frame above the NumBytes of CALLSEQ_START.                 *)
CallerFrameKept ==
    pc # "idle" => \A a \in OwnStart .. OwnStart + OwnBytes - 1 : Load(a) = Own(a)

Refused == \E s \in Sides : stage[s] = "fatal"
Turn == IF Refused THEN "abandoned"
        ELSE IF pc \in {"idle", "sequence"} THEN "caller"
        ELSE IF pc \in {"entry", "body", "return"} THEN "callee" ELSE pc

(* Registers, stack words and the order things happen in are invisible:    *)
(* what the two sides see is a call that passes its arguments and results, *)
(* or one that is not compiled.                                            *)
Promise == INSTANCE KudeyarCall WITH turn <- Turn
KeepsPromise == Promise!Spec

(* Every call is completed or refused by the compiler: no side waits for a *)
(* store, a copy or a step of the other that never comes.                  *)
Completes == <>(Turn \in {"abandoned", "done"})

=============================================================================
