---------------------------- MODULE KudeyarText ----------------------------
(***************************************************************************)
(* The assembly text of a block: each selected instruction is lowered to   *)
(* an MCInst (KudeyarMCInstLower), printed by KudeyarInstPrinter the way    *)
(* its asm string in KudeyarInstrInfo.td says, and read by an assembler,    *)
(* which is no part of the back end and knows nothing but the text.        *)
(*                                                                         *)
(* Text is a sequence of tokens <<kind, what>>.  Registers are named for   *)
(* the values they hold; operands that are one register, because of a      *)
(* constraint or the register allocator's choice (tied), have one name.    *)
(***************************************************************************)
EXTENDS KudeyarSelect

RegisterToken(v) == <<"register", v>>
Number(k) == <<"number", k>>
Bracket(token) == <<<<"[", 0>>, token, <<"]", 0>>>>
Plus == <<"+", 0>>

\* A symbol is put into a register unless the access names it.
SymbolMoves ==
    {n \in Live : /\ dag[n].op \in Symbols
                  /\ \E m \in Live : \E i \in DOMAIN dag[m].ops :
                       /\ dag[m].ops[i] = <<n, 0>>
                       /\ ~(dag[m].op \in {"RMA", "MAR"} /\ i = 1)}
Printed == Memory \cup {n \in Live : dag[n].op = "RR"} \cup SymbolMoves

-----------------------------------------------------------------------------
(* From the instruction to its text.                                       *)

(* The machine operands of node n: outs, then ins.  An arithmetic result   *)
(* has the register of its first source ($Rd = $Rs, $Rd = $Rs2), unless it *)
(* is Untied; a writeback has that of the address ($Rb = $Rb_wb).          *)
MachineOperands(n) ==
    LET i == dag[n]
        rd == RegisterToken(IF HasOp(n) /\ n \notin Untied THEN i.ops[1] ELSE <<n, 0>>)
        rs == IF HasOp(n) THEN <<RegisterToken(i.ops[1])>> ELSE <<>>
        rb == RegisterToken(Base(n))
        second == LET v == i.ops[2]
                  IN IF dag[v[1]].op = "CONST" THEN Number(dag[v[1]].imm) ELSE RegisterToken(v)
    IN CASE i.op = "RM"      -> <<rd>> \o rs \o <<rb, Number(i.imm)>>
         [] i.op = "RMr"     -> <<rd, rb>>
         [] i.op = "RMA"     -> <<rd, <<"symbol", Base(n)[1]>>>>
         [] i.op = "RM_POST" -> <<rd, rb>> \o rs \o <<rb>>
         [] i.op = "MR"      -> <<rb, Number(i.imm), RegisterToken(i.ops[2])>>
         [] i.op = "MRr"     -> <<rb, RegisterToken(i.ops[2])>>
         [] i.op = "MAR"     -> <<<<"symbol", Base(n)[1]>>, RegisterToken(i.ops[2])>>
         [] i.op = "MR_POST" -> <<rb, rb, RegisterToken(i.ops[2])>>
         [] i.op = "RR"      -> <<rd, rd, second>>
         [] i.op \in Symbols -> <<rd, <<"symbol", n>>>>

\* The name an operand has for symbol n (with its offset, which is part of
\* the node); the private prefix of a jump table's is commented out.
SymbolName(n) == <<"-", dag[n].op, dag[n].imm>>

Lower(n) ==
    LET mo == MachineOperands(n)
    IN [k \in DOMAIN mo |-> IF mo[k][1] = "symbol" THEN <<"name", SymbolName(mo[k][2])>> ELSE mo[k]]

PrintOperand(mc, k) == <<mc[k]>>

\* The displacement unless it is zero, the base unless there is none.
PrintMemOperand(mc, k) ==
    (IF mc[k + 1] = Number(0) THEN <<>> ELSE PrintOperand(mc, k + 1))
      \o (IF mc[k] = RegisterToken(NoRegister) THEN <<>> ELSE Bracket(mc[k]))

SizeSuffix(n) == CASE dag[n].vt = 1 -> "b" [] dag[n].vt = 2 -> "w" [] OTHER -> "-"
Extension(n) ==
    CASE dag[n].ext = "sext" -> "sx"
      [] dag[n].ext = "zext" /\ ~HasOp(n) -> "zx"
      [] OTHER -> "-"

MnemonicByteForSX(n) ==                 \* mutant: every form like MOVSX_RMr16
    <<IF HasOp(n) THEN dag[n].alu ELSE "MOV", Extension(n),
      IF dag[n].ext = "sext" /\ dag[n].vt = 2 THEN "b" ELSE SizeSuffix(n)>>

\* The first word of the asm string; that of MOVSX_RMr16 is movsxb.
Mnemonic(n) ==
    <<IF HasOp(n) THEN dag[n].alu ELSE "MOV", Extension(n),
      IF dag[n].op = "RMr" /\ dag[n].ext = "sext" THEN "b" ELSE SizeSuffix(n)>>

\* The operands of the asm string: $Rd, $Rs and $Imm; $src and $dst; [$Rb]
\* and [$address]; [$Rb]+.
PrintInstruction(n, mc) ==
    LET op == dag[n].op
        last == Len(mc)
    IN <<Mnemonic(n)>> \o
       CASE op = "RM"              -> <<PrintOperand(mc, 1), PrintMemOperand(mc, last - 1)>>
         [] op = "MR"              -> <<PrintMemOperand(mc, 1), PrintOperand(mc, 3)>>
         [] op \in {"RMr", "RMA"}  -> <<PrintOperand(mc, 1), Bracket(mc[2])>>
         [] op \in {"MRr", "MAR"}  -> <<Bracket(mc[1]), PrintOperand(mc, 2)>>
         [] op = "RM_POST"         -> <<PrintOperand(mc, 1), Append(Bracket(mc[last]), Plus)>>
         [] op = "MR_POST"         -> <<Append(Bracket(mc[2]), Plus), PrintOperand(mc, 3)>>
         [] OTHER                  -> <<PrintOperand(mc, 1), PrintOperand(mc, last)>>

EmitInstruction(n) == PrintInstruction(n, Lower(n))

-----------------------------------------------------------------------------
(* What the assembler makes of a line.                                     *)

Kinds(operand) == [k \in DOMAIN operand |-> operand[k][1]]

\* The memory operand that is written, if it is one.
ReadAddress(t) ==
    CASE Kinds(t) \in {<<"[", "register", "]">>, <<"[", "name", "]">>} ->
           {[base |-> t[2], disp |-> 0, post |-> FALSE]}
      [] Kinds(t) = <<"[", "register", "]", "+">> -> {[base |-> t[2], disp |-> 0, post |-> TRUE]}
      [] Kinds(t) = <<"number", "[", "register", "]">> ->
           {[base |-> t[3], disp |-> t[1][2], post |-> FALSE]}
      [] OTHER -> {}

\* Logical instructions take short operands without sign unless it says sx.
ReadLine(line) ==
    LET word == line[1]
        from == ReadAddress(line[3])
        to == ReadAddress(line[2])
    IN [alu |-> word[1],
        bytes |-> CASE word[3] = "b" -> 1 [] word[3] = "w" -> 2 [] OTHER -> 4,
        ext |-> CASE word[2] = "sx" -> "sext"
                  [] word[2] # "sx" /\ word[3] # "-" /\ to = {} -> "zext"
                  [] OTHER -> "none",
        from |-> from, to |-> to,
        dst |-> IF to = {} THEN line[2] ELSE <<>>,
        src |-> IF from = {} THEN line[3] ELSE <<>>]

\* The label the assembler will know for symbol n.
Label(n) == <<IF dag[n].op = "JT" THEN ".L" ELSE "-", dag[n].op, dag[n].imm>>

\* What Execute and Value make of node n, in the assembler's terms.
Meaning(n) ==
    LET i == dag[n]
        load == i.op \in Loads
        store == i.op \in Stores
        address == [base |-> IF i.op \in {"RMA", "MAR"} THEN <<"name", Label(Base(n)[1])>>
                                                         ELSE RegisterToken(Base(n)),
                    disp |-> i.imm, post |-> i.op \in {"RM_POST", "MR_POST"}]
        source == IF i.op \in Symbols THEN <<"name", Label(n)>>
                  ELSE IF i.op = "RR" /\ dag[i.ops[2][1]].op = "CONST"
                       THEN Number(dag[i.ops[2][1]].imm) ELSE RegisterToken(i.ops[2])
    IN [alu |-> IF HasOp(n) THEN i.alu ELSE "MOV",
        bytes |-> IF load \/ store THEN i.vt ELSE 4,
        ext |-> IF load THEN i.ext ELSE "none",
        from |-> IF load THEN {address} ELSE {},
        to |-> IF store THEN {address} ELSE {},
        dst |-> IF store THEN <<>> ELSE <<RegisterToken(IF HasOp(n) THEN i.ops[1] ELSE <<n, 0>>)>>,
        src |-> IF load THEN <<>> ELSE <<source>>]

(* The instructions whose text is known to say something else: 16 bits      *)
(* extended by sign, read through a register (movsxb); a constant address,  *)
(* which has no base to put in brackets; the symbol of a jump table, named  *)
(* without the prefix of its label; and arithmetic with post-increment that *)
(* is Untied, whose text names $Rd and not the source.                     *)
Misprinted(n) ==
    \/ dag[n].op = "RMr" /\ dag[n].ext = "sext" /\ dag[n].vt = 2
    \/ dag[n].op \in {"RM", "MR"} /\ Base(n) = NoRegister
    \/ dag[n].op = "JT"
    \/ n \in Untied

(* The assembler reads in every line the instruction that was selected:    *)
(* operation, width, extension, direction, registers, address and symbol.  *)
(* Printing goes by an operand's position and leaves out what is zero or   *)
(* absent (KudeyarInstPrinter.cpp:71-92), each mnemonic was typed by hand,  *)
(* and names are built in one place for the label, in another for its use. *)
(* Instructions that are Untied are left out.                              *)
TextReadsBack ==
    stage = "done" => \A n \in Printed \ Untied : ReadLine(EmitInstruction(n)) = Meaning(n)

=============================================================================
