---------------------------- MODULE KudeyarBlock ----------------------------
(***************************************************************************)
(* The selection DAG of one basic block, and what the block computes.      *)
(*                                                                         *)
(* A block is a sequence of nodes in program order; operands refer to      *)
(* results of earlier nodes as <<node, result number>>.  As in LLVM, the   *)
(* first operand of a memory access is its chain; a load's results are its *)
(* value and its chain, a store's only result is its chain.  END takes the *)
(* last chain and the values that live on.                                 *)
(***************************************************************************)
EXTENDS Integers, Sequences, FiniteSetsExt

CONSTANTS
    Programs,   \* the blocks that may be compiled
    Inputs,     \* what registers and memory may hold when a block starts
    Byte        \* number of values of a byte; a register has four bytes

Span(bytes) == Byte ^ bytes
Register == 0 .. Span(4) - 1
Wrap(v) == v % Span(4)
Widths == {1, 2, 4}
Extensions == {"sext", "zext", "any"}

Alu == {"ADD", "SUB", "AND", "OR", "XOR"}
Leaves == {"ENTRY", "REG", "CONST", "FI"}
\* Addresses that only the linker knows: their node stands for the Wrapper.
Symbols == {"GV", "ES", "JT", "BA"}

Bits == {p \in Register : \E k \in 0 .. 30 : p = 2 ^ k}
BitAnd(a, b) ==
    SumFunction([p \in Bits |-> IF (a \div p) % 2 = 1 /\ (b \div p) % 2 = 1 THEN p ELSE 0])

Apply(alu, a, b) ==
    CASE alu = "ADD" -> Wrap(a + b)
      [] alu = "SUB" -> Wrap(a - b)
      [] alu = "AND" -> BitAnd(a, b)
      [] alu = "OR"  -> a + b - BitAnd(a, b)
      [] alu = "XOR" -> a + b - 2 * BitAnd(a, b)

\* A register that holds a value of so many bytes, extended.  "any" leaves the
\* upper bits open, which no user may ask for; here they are zero.
Extend(v, bytes, ext) ==
    IF ext = "sext" /\ 2 * v >= Span(bytes) THEN Wrap(v - Span(bytes)) ELSE v

Cells(a, bytes) == a .. a + bytes - 1
Read(m, a, bytes) == SumFunction([c \in Cells(a, bytes) |-> m[c] * Span(c - a)])
Write(m, a, v, bytes) ==
    [c \in DOMAIN m |-> IF c \in Cells(a, bytes) THEN (v \div Span(c - a)) % Byte ELSE m[c]]

(* A node: its operation (and which one, for "BIN"), its operands, the     *)
(* bytes a memory access moves and how a load extends them, and a constant,*)
(* register number or address.                                             *)
Node(op, alu, ops, vt, ext, imm) ==
    [op |-> op, alu |-> alu, ops |-> ops, vt |-> vt, ext |-> ext, imm |-> imm]
Accesses == {"LOAD", "STORE"}

OperandNodes(d, n) == {v[1] : v \in Range(d[n].ops)}
\* In graph d, node n and everything it depends on.
Reached(d, n) ==
    LET closure[s \in SUBSET DOMAIN d] ==
          LET more == s \cup UNION {OperandNodes(d, m) : m \in s}
          IN IF more = s THEN s ELSE closure[more]
    IN closure[{n}]

\* The values and the memory after the first k nodes of block p.
After(p, in) ==
    LET run[k \in 0 .. Len(p)] ==
          IF k = 0 THEN [val |-> <<>>, mem |-> in.mem]
          ELSE LET s == run[k - 1]
                   n == p[k]
                   Arg(i) == s.val[n.ops[i][1]]
                   Gives(v) == [s EXCEPT !.val = Append(@, v)]
               IN CASE n.op = "REG" -> Gives(in.reg[n.imm])
                    [] n.op \in {"CONST", "FI"} \cup Symbols -> Gives(n.imm)
                    [] n.op = "BIN" -> Gives(Apply(n.alu, Arg(1), Arg(2)))
                    [] n.op = "LOAD" -> Gives(Extend(Read(s.mem, Arg(2), n.vt), n.vt, n.ext))
                    [] n.op = "STORE" -> [val |-> Append(s.val, 0),
                                          mem |-> Write(s.mem, Arg(3), Arg(2), n.vt)]
                    [] OTHER -> Gives(0)
    IN run[Len(p)]

\* What the block leaves behind: memory, and the values that live on.
Effect(p, in) ==
    LET s == After(p, in)
        outs == p[Len(p)].ops
    IN [mem |-> s.mem, out |-> [i \in 2 .. Len(outs) |-> s.val[outs[i][1]]]]

ASSUME ByteAssumption == Byte \in {2 ^ k : k \in 1 .. 8}

\* Blocks are well formed, and access only memory there is.
ASSUME BlocksAssumption ==
    \A p \in Programs :
        /\ DOMAIN p = 1 .. Len(p) /\ Len(p) \in Nat \ {0}
        /\ p[1].op = "ENTRY" /\ p[Len(p)].op = "END"
        /\ \A k \in 1 .. Len(p) :
             /\ p[k] \in [op : Leaves \cup Symbols \cup Accesses \cup {"BIN", "TF", "END"},
                          alu : Alu \cup {"-"}, ops : Seq((1 .. k - 1) \X (0 .. 2)),
                          vt : Widths \cup {0}, ext : {"none"} \cup Extensions, imm : Register]
             /\ p[k].alu # "-" <=> p[k].op = "BIN"
             /\ p[k].vt # 0 <=> p[k].op \in Accesses
             /\ p[k].ext # "none" <=> p[k].op = "LOAD" /\ p[k].vt < 4
             /\ p[k].op \in {"BIN", "LOAD"} => Len(p[k].ops) = 2
             /\ p[k].op = "STORE" => Len(p[k].ops) = 3
        /\ \A in \in Inputs :
             LET s == After(p, in)
             IN \A k \in 1 .. Len(p) : p[k].op \in Accesses =>
                  LET address == s.val[p[k].ops[IF p[k].op = "LOAD" THEN 2 ELSE 3][1]]
                  IN Cells(address, p[k].vt) \subseteq DOMAIN in.mem

\* Memory holds bytes, and the registers that a block reads hold words.
ASSUME InputsAssumption ==
    \A in \in Inputs :
        /\ in.mem \in [DOMAIN in.mem -> 0 .. Byte - 1]
        /\ \A p \in Programs : \A k \in DOMAIN p : p[k].op = "REG" => in.reg[p[k].imm] \in Register

=============================================================================
