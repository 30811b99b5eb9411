# Kudeyar backend: models, checks and proofs

`src/Kudeyar` is an LLVM 3.2 code generator for the Kudeyar processor: 32-bit
registers R0..R13, FP and SP, a stack that grows down, memory operands with a
displacement or a post-increment, and one condition flag T. It is called by
LLVM's generic passes and answers through hooks. It has no tests. This
directory states what the code it emits must do and checks it: TLA+ modules
translated from the source, TLC runs on small instances, and TLAPS proofs.

The common method: a behaviour has two halves. First the *compiler* runs: LLVM
calls the hooks, in any order LLVM may, and they build code. Then the *machine*
runs that code, with everything around it (interrupts, callees, the scheduler's
choice of order). The properties speak of what the second half observes, so a
hook is judged by what its code does, never by how the code looks.

## 1. Inventory

| Component | Source | State | Operations | Hard behaviours | Correct means |
|---|---|---|---|---|---|
| Frame lowering | `KudeyarFrameLowering.*`, `KudeyarMachineFunctionInfo.*` | the frame's objects and sizes, callee-saved size, entry and exit code | `hasFP`, `hasReservedCallFrame`, `spill-` and `restoreCalleeSavedRegisters`, `processFunctionBeforeFrameFinalized`, `emitPrologue`, `emitEpilogue` | the code is built in pieces by hooks that guess what others emitted; interrupts between any two instructions | a function returns where it was called from, with SP and every callee-saved register as they were; locals and arguments stay apart |
| Register information | `KudeyarRegisterInfo.*`, `KudeyarCallingConv.td` | none of its own | `getCalleeSavedRegs`, `getReservedRegs`, `eliminateCallFramePseudoInstr`, `eliminateFrameIndex` | addresses computed from totals after the pieces were placed | every frame index is addressed where the layout put it |
| Lowering of conditions | `KudeyarISelLowering.cpp` 218-336, 769-841 | the block's DAG, machine blocks | `EmitCMP`, `LowerBR_CC`, `LowerSELECT_CC`, `EmitInstrWithCustomInserter` | ten conditions on signed and unsigned numbers, two senses, inverted branches, blocks split under way | the branch or value the function asks for |
| Branch hooks | `KudeyarInstrInfo.cpp` | a function's blocks and their order | `AnalyzeBranch`, `RemoveBranch`, `InsertBranch`, `copyPhysReg` | called by the branch folder in any order; each call sees the layout the last one left | control flow is the function's, whatever the folder did |
| Instruction selection | `KudeyarISelDAGToDAG.cpp`, `getPostIndexedAddressParts`, patterns of `KudeyarInstrInfo.td` | the DAG of a block, selected in place | `SelectAddr` and the `Match...` family, `Select`, `SelectIndexedLoad`, `-Store`, `-BinOpLoad`, `-BinOpStore` | nodes with several results replaced by number; chains moved or dropped; any order of execution the graph allows | the block leaves the memory and the values its DAG defines |
| Lowering of calls | `KudeyarISelLowering.cpp` 340-756, `KudeyarCallingConv.td` | locations of arguments and results | `LowerCall`, `LowerFormalArguments`, `LowerReturn` | caller and callee compiled apart; variadic functions, by-value aggregates; unordered stores, interrupts | the callee sees the arguments sent, the caller the results returned, and no store for the call reaches the caller's frame |
| Instruction set | `KudeyarInstrInfo.td`, `KudeyarInstrFormats.td` | registers, T, memory | the instructions | ties between operands, implicit definitions | as the assembly text says |
| Assembly output | `KudeyarAsmPrinter.*`, `KudeyarMCInstLower.*`, `InstPrinter/` | none | one line per instruction, directives per function | operands printed by position, hand-written mnemonics, sizes and names computed a second time | an assembler reads back the instruction selected; the directives describe the frame built |
| Object file sections | `KudeyarTargetObjectFile.*` | none | a section per global | none | a choice |
| Registration | `KudeyarTargetMachine.*`, `KudeyarSubtarget.*`, `KudeyarSelectionDAGInfo.*`, `TargetInfo/`, `MCTargetDesc/` | none | constructors | none | none |

Interaction. Instruction selection (legalization calls `LowerOperation`, the
combiner calls `getPostIndexedAddressParts`, then `Select`) → custom inserter →
PHI elimination and register allocation (`copyPhysReg`) → prologue/epilogue
insertion (the frame hooks, in one fixed order) → branch folding (the branch
hooks) → printing. Between these steps components share only the machine
function: its blocks, instructions, frame objects, and the callee-saved size in
`KudeyarMachineFunctionInfo`. There are no threads; the concurrency is that of
the emitted code with interrupts and with a scheduler that may reorder a block.

## 2. The modules and the code

| Module | Stands for | Lines of the source |
|---|---|---|
| `KudeyarFrame` | frame lowering, register information, and the running of entry, body and exit | `KudeyarFrameLowering.cpp` whole, `KudeyarRegisterInfo.cpp` 41-205 |
| `KudeyarFrame_proofs` | theorems about it | |
| `KudeyarPlain_proofs` | theorems about its plain frames and their directives | |
| `KudeyarFunction` | functions as blocks, selects and branches; LLVM's conditions | external |
| `KudeyarCFG` | abstract specification: the selects, branches and return of a function | external |
| `KudeyarBranch` | lowering of conditions, custom inserter, PHI elimination, branch folder with the branch hooks, and the running of the code | `KudeyarISelLowering.cpp` 135-336, 769-841; `KudeyarInstrInfo.cpp` 40-231 |
| `KudeyarSequences_proofs` | facts about sequences, sums and recursive functions that several proofs need | |
| `KudeyarBranch_proofs` | theorems about conditions and the types of `KudeyarBranch` | |
| `KudeyarRefinement_proofs` | theorems about what branch folding leaves, and that `KudeyarBranch` implements `KudeyarCFG` | |
| `KudeyarBlock` | selection DAGs and what a block computes (the reference for selection) | external |
| `KudeyarAddress` | address matching | `KudeyarISelDAGToDAG.cpp` 36-362 |
| `KudeyarSelect` | the post-increment hook, `Select`, and the running of the selected instructions in any order | `KudeyarISelDAGToDAG.cpp` 364-778; `KudeyarISelLowering.cpp` 843-889; `KudeyarInstrInfo.td` 145-292, 590-838, 951-1079 |
| `KudeyarSelect_proofs` | theorems about it: its graph stays well formed and typed, no instruction waits for itself, nothing waits for ever | |
| `KudeyarText` | MCInst lowering, printing, and an assembler reading the text; extends `KudeyarSelect` | `KudeyarMCInstLower.cpp`, `InstPrinter/KudeyarInstPrinter.cpp` 33-92, asm strings of `KudeyarInstrInfo.td` |
| `KudeyarText_proofs` | theorems about it | |
| `KudeyarDirectives` | `.frame` and `.mask`; extends `KudeyarFrame` | `KudeyarAsmPrinter.cpp` 92-161 |
| `KudeyarCallSite` | calls as lists of operands, and their values byte by byte | external |
| `KudeyarCall` | abstract specification: what a call promises | external |
| `KudeyarCallConv` | both sides' lowering of one call, and the running of the code | `KudeyarISelLowering.cpp` 340-756, `KudeyarCallingConv.td` |
| `KudeyarCallConv_proofs` | theorems about it | |
| `MCKudeyar...` | instances for TLC | |

`KudeyarFrame`: `stage` walks through PEI's hooks (callFrame, spill, restore,
finalize, layout, prologue, epilogue), one action per hook, each with the
hook's early returns; `entry` and `exit` are the code they built. Then `ip`,
`sp`, `base` (the address FP holds), `reg` and `mem` are the machine. Addresses
are bytes relative to SP at entry. The body may store to any local, use any
allocated register, grow the stack by an alloca, and call. `Interrupt` is
enabled between any two instructions and forgets everything below SP. PEI's
own layout of objects and the body are external and modelled from LLVM's
contract with these hooks; wherever that contract leaves freedom the action
takes any of the choices.

`KudeyarBranch`: `prog` is the function, `code`, `succs` and `layout` the
machine function, `here`, `pc`, `psw` the machine. `EmitCMP` is the tables
`CmpCode` and `OnTrue`; the fall-through from `case ISD::SETUGT` is in
`CmpCode`. The folder's steps (`AnalyzeForFolding`, `ForwardAcrossBlock`,
`MoveAfterPredecessor`) may come in any order and any number and do nothing but
call `AnalyzeBranch`, `RemoveBranch` and `InsertBranch` the way LLVM's does.
`CFG == INSTANCE KudeyarCFG WITH point <- PointNow, ...` is the refinement: a
step of the machine is a step of the function or changes nothing it can see.
`Enter` is the first step due in a block, past the blocks that only jump (none
in a loop of those); `Undef` is what `z` holds before a select has run.

`KudeyarSelect`: `dag` is the block, whose nodes change in place as
`SelectNodeTo` changes them; `post` the indexed accesses; `selected`; then
`val` and `mem` are the machine. The combiner may or may not form each
post-increment it is allowed to. An instruction runs as soon as its operands
and its chain have; which of several goes first is open. The generated matcher
(`SelectCode`) picks a memory operand or not, and for a stored sum of the old
value the instruction that changes memory in place. `Modes`, `LoadForm` and
`StoreForm` are the forms of an access (a base register and a displacement, a
register alone, a symbol), because text and `SelectAddr` tell them apart; and a
16-bit load that may extend either way has a pattern in the first form only
(`HasMove`). Where two operands of an instruction must be one register, a
constraint of its class says so, but for `x op [p]+`: `ArithLogic_RM_POST` has
none for `$Rd` and `$Rs`. `FinishSelection` therefore leaves open for which of
those (`PostArithmetic`) the register allocator makes the tie (`tied`); in the
others `$Rd` holds what an earlier computation left there (`LeftInRd`).

`KudeyarText`: `MachineOperands` is an instruction's operand list in the order
of its definition, `Lower` its MCInst, `PrintInstruction` its text as tokens.
`ReadLine` is the assembler: external, it knows the text alone. `Meaning` is
what `KudeyarSelect` makes the instruction do.

`KudeyarDirectives` adds no variables: it reads the frame's totals as the
printer does. `CPUBitmask` has the bits the printer sets, which are the numbers
of the compiler's enumeration (`EnumNumber`: FP 1, PSW 2, R0 3, ..., SP 17).

`KudeyarCallConv`: `call` is the call; `stage`, `ccs` (CCState after every
operand, one sequence for each side), `fixedObjs` and `liveOut` are the
compilers of the two sides, whose steps interleave freely; then `pc`, `reg` and
`mem` are the machine. The stores of stack arguments come in any order, as the
TokenFactor leaves them; loads of stack arguments come whenever the callee
likes; between them the callee may use R0..R3 and its stack (`Work`), change a
block passed by value (`WriteBlock`), and be interrupted. `Allocate` is
`CC_Kudeyar`. Types are legal before a call is lowered, so every operand is a
word or a block, LocInfo is always Full, and the promotion entries of the table
are never used. `Promise == INSTANCE KudeyarCall WITH turn <- Turn` is the
refinement: registers, stack words and the compilers are invisible. The stack
argument the callee finds at `FixedObjectAddr` is `ObjectAddr` of
`KudeyarFrame`, and what SP and the callee-saved registers do across the body
is that module's part.

Some modules have definitions marked *mutant*: plausible mistakes in the
definition that follows, used to confirm that a property notices them.

## 3. Runs

| Run | Configuration | Expectation | Shows |
|---|---|---|---|
| frame_plain | `MCFramePlain.cfg` | holds | plain frames (no FP, no handler that calls, at most one register saved or nothing else in the frame): `CalleeSavedRestored`, `LocalsKept`, `OutArgsDelivered`; and `UnwindsToCaller`: the directives, their bits read as the compiler's numbers, lead an unwinder to the caller from anywhere in the body |
| frame_balance | `MCFrameBalance.cfg` | holds | for every frame but a variable-size one that saves two registers: `ReturnsToCaller`, `FrameIndexAgrees` |
| frame_list | `MCFrameList.cfg` | violated | two registers saved: SP moves in front of PUSHA, saved registers and locals share words |
| frame_fp | `MCFrameFP.cfg` | violated | the object reserved for the saved FP is the return address's word; FP is pushed to a local's, and a store to that local destroys it |
| frame_handler | `MCFrameHandler.cfg` | violated | an interrupt handler that calls does not save R0..R3 |
| branch_sound | `MCBranchSound.cfg` | holds | `FollowsFunction` (refinement), `AnalysisTrue`, `Returns` |
| branch_unsigned_greater | `MCBranchUnsignedGreater.cfg` | violated | SETUGT is compared as SETULT |
| branch_insert | `MCBranchInsert.cfg` | violated | `InsertBranch` inserts nothing, control falls through |
| select_sound | `MCSelectSound.cfg` | holds | `ComputesSource`, `TextReadsBack`, `Completes`, `NeverStuck`, well-typed DAGs; and `Untangled`, the hypothesis of the proofs |
| call_sound | `MCCallSound.cfg` | holds | `ArgumentsArrive`, `ResultsArrive`, `CallerFrameKept`, `KeepsPromise` (refinement), `Completes` |
| select_post_store | `MCSelectPostStore.cfg` | violated | a post-incremented store has its operands swapped |
| select_untied | `MCSelectUntied.cfg` | violated | `x op *p++` loses x where the register allocator does not happen to put x into the result's register: `ComputesInAnyRegisters`, on blocks of `select_sound`, whose `ComputesSource` asks for the same where it does |

Deadlock is not checked: the modelled function returns, the block ends, the
call is over, or the compiler aborts, and then nothing more happens. That they
do not stop earlier is what `Returns`, `NeverStuck` and the two `Completes` say.

### Bounds

* Frame: one argument register, two saved ones and FP; 0..2 locals, 0..1
  incoming and 0..2 outgoing words; every combination of the frame's flags;
  `AllocaLimit = 36` bytes of stack for allocas. Zero, one and more than one
  saved register are the three cases of the spill hook; two locals are the
  least that can overlap each other and a third thing.
* Branch: registers of two bits (`Half = 2`): two numbers of either sign, so
  every condition meets equal, ordered and sign-crossing operands. The theorems
  lift this to every width. Functions of up to nine blocks cover each rewrite
  of the folder; they contain a loop, jumps to jumps, and selects feeding
  branches.
* Select: registers of 8 bits made of 4-valued bytes, so `int16_t` is -8..7 and
  displacements reach both ends of its range; 28 cells of memory; q equal to p,
  overlapping it, and apart; x zero, positive, negative as a byte and as a
  word. Blocks have up to four memory accesses.
* Call: up to six operands; with four registers, the fifth and sixth word are
  on the stack and can be next to each other and to a block. Blocks of 0, 1, 4,
  6 and 8 bytes aligned to 1, 4 and 8: less than a word, a word, a size that is
  no multiple of one, and more than a word's alignment. Results of 0 to 5
  words, 5 being one too many. 4 bytes of the caller's own frame above the
  outgoing arguments. The theorems lift all of this to every call.

### What the passing runs leave out

They leave out shapes that the code handles wrongly, as far as they are known:

* frames: two or more saved registers together with locals or outgoing
  arguments (`frame_list`), a frame pointer (`frame_fp`; such frames still
  return properly, `frame_balance`), a variable-size frame with two or
  more saved registers (`ReturnsToCaller` fails on it: the epilogue's walk stops
  at POPA as the prologue's stops at PUSHA, SP is reset to FP - CSSize behind POPA
  and in front of the POP of FP), handlers that call (`frame_handler`);
* branches: SETUGT (`branch_unsigned_greater`), orderings with a constant on the
  left, whose operands are swapped and whose condition is not (`Sound`), and
  folding that needs `InsertBranch` (`branch_insert`);
* selection: post-incremented stores that are not updates
  (`select_post_store`); and, each confirmed by running the model on such a
  block, 16-bit operands of post-increment arithmetic, byte operands extended
  the other way than the opcode's, SUB with the loaded value on the left or in
  an update, an update `*p++ op= x` whose result is used again or that has
  another store between load and store, arithmetic on the incremented pointer
  (`Untangled` fails when that pointer was incremented by the folded load itself),
  a post-incremented update over a load that is post-incremented too, AND, OR,
  XOR with a 16-bit load that is sign-extended or may extend either way (they
  match the byte form, `loadi8_anyext`), and displacements outside `int16_t`. A
  16-bit load that may extend either way from a symbol or through a register
  cannot be selected at all (there is no `MOVEX_RMA16` and no `MOVEX_RMr16`). And
  `ComputesSource` is only about register assignments that give `x op *p++` the
  tie its definition lacks (`select_untied`);
* text: sign-extending 16-bit loads through a register (`MOVSX_RMr16` prints
  `movsxb`), loads from constant addresses (printed like a move of the number,
  or without an operand), and jump-table addresses (named without the prefix
  their label has): `TextReadsBack` fails on such blocks. It also leaves out
  `x op [p]+` where it is not tied: its text names `$Rd` and nowhere `$Rs`;
* directives: frames with FP, where `.frame` names FP with the size that belongs
  to SP; and the mask's bits as the processor's register numbers. The comment at
  `KudeyarAsmPrinter.cpp:72-76` has bit 31 for register 31; line 123 sets the
  bit of the compiler's number (R4 is bit 7), so an unwinder that believes the
  comment looks for another register whenever one is saved;
* calls: what KudeyarFrame's `frame_handler` is about, values kept in R0..R3
  across a call, is no part of `KudeyarCallConv`.

Each is a hazard in `PROJECT.json` at its line.

### Fairness

`KudeyarFrame` has safety properties only and no fairness.
`KudeyarBranch!FairSpec` and `KudeyarSelect!FairSpec` are `WF_vars(Next)`: a
compiler that can go on does, and a processor executes its next instruction.
Nothing stronger is assumed; in particular the folder is not promised to do any
particular step (that its rewriting ends is part of what `Returns` checks),
and no instruction is promised to
run before another.

`KudeyarCallConv!FairSpec` is `WF_vars(Progress)`: both compilers and the
processor go on. `Progress` leaves out `Work`, `WriteBlock` and `Interrupt`,
which are promised nothing and may come without end. Leaving the callee is
part of `Progress`: a body that runs for ever is the program's, not the
lowering's.

## 4. Proofs

All for every value of the constants that satisfies the named assumptions.

`KudeyarFrame_proofs`
* `TypeCorrect`: `Spec => []TypeOK`, from the stronger `TypeInv`.
* `RunInvariant`: `Spec => []IInv`, `IInv == TypeInv /\ CodeInv /\ RunInv`.
* `Returns`: `Spec => []ReturnsToCaller`; `FrameIndexCorrect`:
  `Spec => []FrameIndexAgrees`.

The last three assume `Balanced`: frames of variable size save at most one
register (with two, `ReturnsToCaller` is false, see above). The argument: what a
piece of entry or exit code does to SP composes (`Takes`, `TakesConcat`), so
`CodeInv` says that the finished entry code takes SP from 0 to the frame's
bottom and the finished exit code takes it back to the return address; the
lemmas `PrologueDone`, `LoopStops` and `EpilogueDone` find where the two skip
loops stop in each of their cases. Neither property is inductive alone: RET
finds the return address only if the code before it moved SP by the right sum,
and only if nothing wrote above the frame on the way. `RunInv` therefore
carries the SP expected at the current instruction and that every word of the
caller still holds what the caller put there.

`KudeyarPlain_proofs`
* `PlainInvariant`: `Spec => []PlainInv`, `PlainInv == IInv /\ PlainCode /\ PlainRun`.
* `RegistersRestored`: `Spec => []CalleeSavedRestored`; `LocalsCorrect`:
  `Spec => []LocalsKept`; `ArgumentsDelivered`: `Spec => []OutArgsDelivered`;
  `DirectivesCorrect`: `Spec => []UnwindsToCaller`.

These assume `Plain`: no frame has an FP, belongs to a handler that calls, or
saves two registers next to locals or outgoing arguments. `frame_fp`,
`frame_handler` and `frame_list` show what happens without each of the three.
`DirectivesCorrect` needs of the register numbers that no two registers share a
bit (`BitsDiffer`). The argument: `PlainCode` says exactly which instructions
the hooks emitted
(with two registers and nothing to reserve, the skip loop that stops at PUSHA
does no harm), and `PlainRun` gives every word below the return address one
owner (`-4d` the saved register pushed at depth d, below them local i, below
the locals the outgoing arguments) and says where execution stands between
them. That a register comes back needs that its word is no other register's
(`DepthDiffers`), no local's and no argument's, and lies at or above SP
whenever an interrupt or a callee may use the stack; none of the four
properties says so by itself.

`KudeyarBranch_proofs`
* `ComparisonsSound`: the compare instruction and the sense of the branch decide
  every condition but SETUGT as LLVM defines it, for registers of any width.
* `InvertedSound`: the inverse condition is the negation, for any width.
* `TypeInvHolds`: `Spec => []TypeInv`; `Typing`: `Spec => []TypeOK`, for every
  set of functions. That no pseudo instruction is executed and no block is laid
  out twice needs what `TypeInv` adds: which shape each block has while the
  inserter splits it and PHI elimination fills it, that both are done with all
  of them when folding starts, and that labels and successors are blocks.

`KudeyarRefinement_proofs`, first part: the folder
* `FoldInvHolds`: `Spec => []FoldInv`.
* `AnalysisIsTrue`: `Spec => []AnalysisTrue`.

Both assume `~AllowInserts`: the folder takes no step that needs `InsertBranch`
(`branch_insert` shows what happens when it does). `AnalysisTrue` speaks of what
`AnalyzeBranch` answers at one block and is not inductive: moving a block
changes what another one falls through to. `FoldInv` says of each part of the
function how its code ends. `HeadOK`: the diamond of a select, three adjacent
blocks; `ReturnOK`, `JumpOK`, `BranchOK`: the block that ends the part holds a
return, at most one jump, or a compare, a conditional branch and at most one
jump; and the labels together with the block that happens to come next lead
(`Leads`) where the function goes. A label may lead past jump blocks or to one of them; `Leads`
asks what is due there, not which block it is, which is why the proof needs
`Ends` to be the same from a jump block as from its target. Each folding step then keeps this: removing a jump to
the next block, forwarding the labels of a block, moving a block behind its
predecessor.

`KudeyarRefinement_proofs`, second part: the machine
* `RunInvHolds`: `Spec => []RunInv`.
* `Refinement`: `Spec => FollowsFunction`, that is `Spec => CFG!Spec`.

Both also assume `LoweredSoundly` of every function: no SETUGT, as written or
after inversion, and no ordering with a constant on the left
(`branch_unsigned_greater` shows the first to be necessary; TLC evaluates the
assumption for the programs of `branch_sound`). `RunInv` is what the machine
knows in front of each instruction: behind a compare, that T and the sense of
the branch decide the condition; behind a conditional branch not taken, that
it did not hold; behind the move in a select's head, that `z` is its first
value. With `FoldInv` each step is then one of two things. The branch of a
select's head that is taken, or the end of its other arm, is `CFG!Select`; a
conditional branch taken, or the jump or fall-through behind one not taken, is
`CFG!Branch`; RET is `CFG!Return`; every other step leaves the point and `z`,
where it may be seen, alone.

`KudeyarSelect_proofs`
* `FormInvHolds`: `Spec => []FormInv`.
* `GraphInvHolds`: `Spec /\ []Untangled => []GraphInv`.
* `TypeCorrect`: `Spec /\ []Untangled => []TypeOK`.
* `DeadlockFree`: `Spec /\ []Untangled => []NeverStuck`.

For every set of blocks and inputs that satisfies `BlocksAssumption` (operands
come before their users; the form of each operation), `TypedBlocks` (a block
starts well typed), `InputsAssumption` (memory holds bytes, the registers a
block reads hold words) and `ByteAssumption`. `FormInv` needs no `Untangled`.

Neither property is inductive. `TypeOK` says that every operand is a result its
node has; a fold replaces results of the load by number, so it must also be
known how many operands a node has, what its operation and width are, which
accesses are indexed, and that ENTRY, which stands for register 0, stays ENTRY.
`NeverStuck` says that something can go on; the reason is that the graph has
no cycle, and no single fold shows that by itself. `GraphInv` (`Sound`) has all
of this: form, number of operands, types, `Acyclic`, and what `post` and
`selected` record. The argument:

* `Reached` is the least closed set (`ReachedIsLeast`), so in an acyclic graph
  an operand has fewer nodes below it than its user (`DepthOfOperand`). That
  `Depth` is the rank by which the recursive functions `MatchAddress` and
  `Value` are shown to exist at all (`RecursionSolved` in
  `KudeyarSequences_proofs`: a function defined by its values at lower ranks).
* `MatchAddressAdds`: the base a match finds is a value that the address
  consists of, or no register; so an instruction depends on nothing that the
  node it comes from did not depend on, except through the loads folded into
  it.
* `RewiringKeepsAcyclic` and `TakingOverKeepsAcyclic`: when node n becomes an
  instruction, and results of load l become n's, no cycle appears if what the
  new operands depend on is closed and has neither n nor users of l that are
  handed over. That set is what n depends on without l (`Apart`,
  `ApartIsClosed`); it has no use of l because `IsLegalToFold` lets l be
  reached only as the direct operand. This is where a fold that does not ask
  `IsLegalToFold` would fail, as the mutants of `NeverStuck` and `Completes` do.
* One lemma for each way `Select` can end, and one for the combiner, then shows
  `GraphInv` kept. `TypeOK` follows with `MachineInv`: results that exist are
  integers, memory holds bytes, and only selected nodes have run. `NeverStuck`
  follows from `GraphInv` alone: of the nodes that wait, a highest is `Due`,
  and of the instructions that wait, a lowest is `Ready` (`Highest`,
  `Lowest`).

`Untangled` leaves out two shapes at which the code goes wrong, both checked by
running the model: in `t = *p++ + p` the sum's other operand is the writeback of
the load that is folded, so the node becomes its own operand
(`KudeyarISelDAGToDAG.cpp:693` takes any LOAD node), and selection never ends;
and a post-incremented store over a load that is itself post-incremented at the
same pointer makes one instruction of two increments and hands over a result it
does not have. It is an invariant of `select_sound`: none of the blocks there, in
whichever way increments are formed, ever has such a node.

`KudeyarText_proofs`
* `EveryLineReadsBack`: at any time every line printed is read back as the
  instruction it stands for, but those for which `Misprinted` holds.
* `TextCorrect`:
  `Spec => []((\A n \in Printed \ Untied : ~Misprinted(n)) => TextReadsBack)`.

They assume nothing but the form of the blocks (`BlocksAssumption`).
`Misprinted` names the four kinds of instruction listed under text above, each
confirmed by running the model; the theorem says that there is no fifth. That a
line is read back follows from the instruction alone (lemma `PrintedReadsBack`,
one lemma for each form) once its width and extension are a pair the mnemonics
can tell, forms without a displacement have none, and a name in an access is a
global's. `FormInv` carries that through selection: it must also say what
unselected loads, stores and sums look like and that their operands are nodes,
because a fold takes the width from one node, the operation from another and
the address from a third, and that what is replaced is never a global.

`KudeyarCallConv_proofs`
* `TypeCorrect`, `ArgumentsCorrect`, `ResultsCorrect`, `CallerFrameCorrect`:
  every safety property of the module, for every set of calls.
* `SidesAgree`: after the same operands both sides are in the same CCState,
  however far the other has come.
* `PromiseKept`: `Spec => KeepsPromise`, the refinement.

The inductive invariant (`Invariant`) has a part for each phase. While the
sides compile, each side's CCStates are chained by `Allocate` from the same
start, so `Agree` follows without either side seeing the other; locations on
the stack lie below the next free byte, and two of them are apart, and so are
two registers. While the code runs, the invariant says where every operand
is: in its location once stored, for as long as the callee may still look. None
of the properties is inductive by itself: that a load finds its argument needs
that no store since went into those bytes, which needs that the locations the
*caller* chose are apart, which is a fact about the compile phase of the other
side.

Only model-checked:
* `ComputesSource` of `KudeyarSelect`. For an arbitrary block it is false (see
  what the passing runs leave out), and it compares two computations, `After`
  over the block as it was and `Value` over the graph it has become; relating
  them needs an induction over the block that carries, for every value of the
  old graph, which result of the new one it is, in every order of execution.
* `Untangled` of `KudeyarSelect`: a hypothesis of the proofs, false for some
  blocks, and checked for those of `select_sound`.
* Liveness: `Returns` of `KudeyarBranch` and the two `Completes`, which the
  prover cannot treat under fairness. `NeverStuck` is the part of `Completes`
  that is a safety property.

## 5. Not modelled

* Section choice and registration: no state, no control. A section is a function
  of one global.
* The text of branches, calls, register lists and debug values, and the
  directives `.ent` and `.end`: one operand each, or a list printed in order.
  A displacement that is the address of a block (`LowerBlockAddress` wraps them,
  `SelectAddr` makes them displacements) is the number the linker will know, in
  `KudeyarText` too, where the text has the block's label.
* Indirect branches (`JMP_R`, `JMP_Mr`, `JMP_M`): the functions of
  `KudeyarBranch` have none, and no jump table is branched through there.
* A block passed by value that has no bytes reaches `CreateFixedObject` with size
  0 (`KudeyarISelLowering.cpp:666`), where LLVM asserts. The model is the
  compiler built without assertions, which goes on.
* Instruction encodings: no code emitter is registered. (The formats would not
  hold what is selected: the RM format has 11 bits for a displacement the
  selector lets be 16, and the post-increment XOR has the opcode of SUB.)
* Register allocation: `KudeyarFrame` takes any set of registers and any number
  of locals as the allocator's answer; a spill slot is one of the locals, and a
  spill is a store to it. `loadRegFromStackSlot` does not mark the register it
  loads as defined (`KudeyarInstrInfo.cpp:91`); what a later pass makes of that
  is LLVM's and has no model here.
* `LowerSETCC`: not reachable, SETCC is set to Expand.
* In selection: alignment and volatile accesses, which the predicate of
  `loadi16_anyext` asks about, stores of immediates, negation, multiplication,
  division, shifts, and constant-pool addresses (no Wrapper of one is built).
* Tail calls: `LowerCall` turns them off.
* `KudeyarMCInstLower.cpp` defines its constructor twice and does not compile as
  it stands; the model takes the two as one.

## 6. Plan

1. Done: `KudeyarFrame` with its proofs of return and of frame indexes, and
   with those of what plain frames hold;
   `KudeyarBranch` refining `KudeyarCFG`, with the proofs about conditions;
   `KudeyarSelect` against `KudeyarBlock`.
2. Done: `KudeyarCallConv` refining `KudeyarCall`, with all its safety proved.
3. Done: read-modify-write in `KudeyarSelect`; `KudeyarText` and
   `KudeyarDirectives`.
4. Done: proofs of the types of `KudeyarBranch`, of what the folder leaves and
   of the refinement of `KudeyarCFG`; of the text read back.
5. Done: proofs that selection keeps every block's graph well typed and
   acyclic, so that nothing waits for ever.
6. Open: a condition on the source blocks alone from which `Untangled` follows;
   `ComputesSource` for blocks without stores, as a first case.
