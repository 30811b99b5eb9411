---------------------------- MODULE KudeyarSelect ----------------------------
(***************************************************************************)
(* Selection of the instructions of one basic block                        *)
(* (KudeyarDAGToDAGISel): LLVM's combiner forms post-incremented loads and *)
(* stores through the hook getPostIndexedAddressParts, Select turns every  *)
(* node into an instruction, users before what they use, and the machine   *)
(* runs the instructions in any order their operands and chains allow.     *)
(*                                                                         *)
(* A selected memory node has the operation "RM" (register op= memory; a   *)
(* plain load has no op) or "MR" (memory op= register; a plain store).     *)
(* "RMr" and "MRr" have a register in place of the memory operand, "RMA"   *)
(* and "MAR" a symbol, and with _POST the instruction also increments the  *)
(* register that holds the address.                                        *)
(* Operands and results are numbered as in KudeyarInstrInfo.td.            *)
(***************************************************************************)
EXTENDS KudeyarAddress

VARIABLES
    prog, in,    \* the block and what it starts from
    stage,       \* "combine", "select", "run", "done"
    dag,         \* the nodes as they are now
    post,        \* the loads and stores that are indexed
    selected,    \* the nodes that have been selected
    val,         \* the results of the accesses that have run; a chain's is 0
    mem,
    tied         \* the instructions of PostArithmetic whose result the register
                 \* allocator put into the register of their first source

vars == <<prog, in, stage, dag, post, selected, val, mem, tied>>
machine == <<val, mem, tied>>

Nodes == DOMAIN dag
OpNodes(n) == OperandNodes(dag, n)
Below(n) == Reached(dag, n)
End == Len(dag)
Live == Nodes \cap Below(End)
HasOneUse(v) ==
    Cardinality({u \in Live \X (1 .. 4) : u[2] \in DOMAIN dag[u[1]].ops /\ dag[u[1]].ops[u[2]] = v}) = 1

ReplaceNothing(d, by) == d              \* mutant: the old result stays in use

\* ReplaceAllUsesOfValueWith, for every value of DOMAIN by.
ReplaceUses(d, by) ==
    [n \in DOMAIN d |-> [d[n] EXCEPT !.ops =
        [i \in DOMAIN @ |-> IF @[i] \in DOMAIN by THEN by[@[i]] ELSE @[i]]]]

\* What ReplaceUses is asked for: v by its replacement, w by its own.
Replace(v, x, w, y) == [u \in {v, w} |-> IF u = v THEN x ELSE y]

Init ==
    /\ prog \in Programs /\ in \in Inputs
    /\ stage = "combine"
    /\ dag = prog
    /\ post = {} /\ selected = {}
    /\ val = <<>> /\ mem = in.mem /\ tied = {}

-----------------------------------------------------------------------------
(* Post-incremented accesses.                                              *)

Ptr(n) == dag[n].ops[IF dag[n].op = "LOAD" THEN 2 ELSE 3]

\* Is node a the addition that access n can do on the way?
GetPostIndexedAddressParts(n, a) ==
    /\ dag[n].op \in Accesses
    /\ dag[a].op = "BIN" /\ dag[a].alu = "ADD"
    /\ dag[dag[a].ops[2][1]].op = "CONST"
    /\ dag[dag[a].ops[2][1]].imm = dag[n].vt

\* LLVM's DAG combiner: access n and addition a to its pointer become one
\* node if neither depends on the other.
CombineToPostIndexed ==
    /\ stage = "combine"
    /\ \E n \in Live, a \in Live \ {End} :
         /\ n \notin post
         /\ GetPostIndexedAddressParts(n, a)
         /\ dag[a].ops[1] = Ptr(n) /\ dag[Ptr(n)[1]].op # "FI"
         /\ a \notin Below(n) /\ n \notin Below(a)
         /\ post' = post \cup {n}
         /\ dag' = ReplaceUses(dag,
              IF dag[n].op = "LOAD" THEN Replace(<<n, 1>>, <<n, 2>>, <<a, 0>>, <<n, 1>>)
                                    ELSE Replace(<<n, 0>>, <<n, 1>>, <<a, 0>>, <<n, 0>>))
    /\ UNCHANGED <<prog, in, stage, selected, machine>>

StartSelection ==
    /\ stage = "combine"
    /\ stage' = "select"
    /\ UNCHANGED <<prog, in, dag, post, selected, machine>>

-----------------------------------------------------------------------------
(* Select.                                                                 *)

\* The nodes Select has a choice for; every other node becomes the one
\* instruction, or no instruction, it can become.
Selectable == {n \in Live : dag[n].op \in Accesses \cup {"BIN"}}

\* Node n is next: every user has been selected.
Due(n) ==
    /\ stage = "select"
    /\ n \in Selectable \ selected
    /\ \A m \in Selectable \ (selected \cup {n}) : n \notin Below(m)

(* Value v is a load's, used nowhere else, and node n depends on that load *)
(* only as its direct operand (IsLegalToFold).  Which result of the load v *)
(* is nobody asks.                                                         *)
Foldable(n, v) ==
    /\ dag[v[1]].op = "LOAD" /\ HasOneUse(v)
    /\ \A m \in OpNodes(n) \ {v[1]} : v[1] \notin Below(m)

IsValidIndexed(n) == n \in post

Become(n, node, by) ==
    /\ dag' = ReplaceUses([dag EXCEPT ![n] = node], by)
    /\ selected' = selected \cup {n}
    /\ UNCHANGED <<prog, in, stage, post, machine>>

TransferInOrder(n, l) ==                \* mutant: the chain where the writeback is
    Replace(<<l, 2>>, <<n, 1>>, <<l, 1>>, <<n, 2>>)

\* What a load folded into node n used to leave: its writeback, its chain.
Transfer(n, l) == Replace(<<l, 2>>, <<n, 2>>, <<l, 1>>, <<n, 1>>)

\* Width and extension of the opcode for a memory operand of vt bytes: the
\* 16-bit opcodes are never passed, and the 8-bit ones are ADDSX and SUBSX.
PostOpcode(alu, vt) ==
    IF vt = 4 THEN <<4, "none">>
    ELSE <<1, IF alu \in {"ADD", "SUB"} THEN "sext" ELSE "zext">>

CanBinOpLoadAnyPath(n, v1) ==           \* mutant: IsLegalToFold is not asked
    dag[v1[1]].op = "LOAD" /\ HasOneUse(v1) /\ IsValidIndexed(v1[1])

\* n = x op [p]+, where v1 is the load and v2 is x.
CanBinOpLoad(n, v1) == Foldable(n, v1) /\ IsValidIndexed(v1[1])

UnchainedBinOpLoad(n, v1, v2) ==        \* mutant: the load's chain is lost
    LET l == v1[1]
        opc == PostOpcode(dag[n].alu, dag[l].vt)
    IN Become(n, Node("RM_POST", dag[n].alu, <<v2, Ptr(l), <<1, 0>>>>, opc[1], opc[2], 0),
              Transfer(n, l))

SelectIndexedBinOpLoad(n, v1, v2) ==
    LET l == v1[1]
        opc == PostOpcode(dag[n].alu, dag[l].vt)
    IN Become(n, Node("RM_POST", dag[n].alu, <<v2, Ptr(l), dag[l].ops[1]>>, opc[1], opc[2], 0),
              Transfer(n, l))

(* [p]+ = [p] op x, where v1 is the load and v2 is x: the load need not be *)
(* indexed, must have the store's pointer, and gives the opcode its width. *)
(* The store's own chain is dropped.                                       *)
CanBinOpStore(n, v1) ==
    /\ IsValidIndexed(n) /\ Foldable(dag[n].ops[2][1], v1)
    /\ Ptr(n) = Ptr(v1[1])

SelectIndexedBinOpStore(n, v1, v2) ==
    LET l == v1[1]
        alu == dag[dag[n].ops[2][1]].alu
        opc == PostOpcode(alu, dag[l].vt)
    IN Become(n, Node("MR_POST", alu, <<Ptr(l), v2, dag[l].ops[1]>>, opc[1], "none", 0),
              Transfer(n, l))

\* A load that may extend either way becomes one that extends with zeros.
MoveExtension(ext) == IF ext = "any" THEN "zext" ELSE ext

SelectIndexedLoad(n) ==
    Become(n, Node("RM_POST", "-", <<Ptr(n), dag[n].ops[1]>>,
                   dag[n].vt, MoveExtension(dag[n].ext), 0), <<>>)

\* The value comes first, where the instruction has its address register.
SelectIndexedStore(n) ==
    Become(n, Node("MR_POST", "-", <<dag[n].ops[2], Ptr(n), dag[n].ops[1]>>,
                   dag[n].vt, "none", 0), <<>>)

(* SelectCode, the matcher generated from KudeyarInstrInfo.td.  A memory   *)
(* operand is a base and a displacement; ENTRY stands for register 0, no   *)
(* register.                                                               *)
NoRegister == <<1, 0>>
MemoryOperands(v) ==
    {[form |-> "mem", base |-> IF m.base = NoValue THEN NoRegister ELSE m.base, disp |-> m.disp] :
        m \in SelectAddr(dag, v)}

\* A move has a global's address itself, a memory operand, or, where
\* SelectAddr fails, a register.
Modes(v) ==
    IF dag[v[1]].op = "GV" THEN {[form |-> "abs", base |-> v, disp |-> 0]}
    ELSE FirstMatch(MemoryOperands(v), {[form |-> "reg", base |-> v, disp |-> 0]})
LoadForm == [mem |-> "RM", reg |-> "RMr", abs |-> "RMA"]
StoreForm == [mem |-> "MR", reg |-> "MRr", abs |-> "MAR"]

\* The memory operand an arithmetic instruction has for such a load; the
\* pattern of AND_RM8, OR_RM8 and XOR_RM8 accepts any load.
FoldedAs(alu, vt, ext) ==
    CASE vt = 4 -> {<<4, "none">>}
      [] vt # 4 /\ alu \in {"ADD", "SUB"} -> IF ext = "sext" THEN {<<vt, "sext">>} ELSE {}
      [] OTHER -> {IF vt = 2 /\ ext = "zext" THEN <<2, "zext">> ELSE <<1, "zext">>}

\* n = x op [p], not in place of subtracting x.  A load found foldable here
\* may still be refused, because of other nodes on its chain.
SelectCodeBinOpLoad(n) ==
    \E i \in (IF dag[n].alu = "SUB" THEN {2} ELSE {1, 2}) :
      LET v == dag[n].ops[i]
          l == v[1]
      IN /\ Foldable(n, v) /\ ~IsValidIndexed(l)
         /\ \E m \in MemoryOperands(Ptr(l)), opc \in FoldedAs(dag[n].alu, dag[l].vt, dag[l].ext) :
              Become(n, Node("RM", dag[n].alu, <<dag[n].ops[3 - i], m.base, dag[l].ops[1]>>,
                             opc[1], opc[2], m.disp), Transfer(n, l))

(* Load v and store n are one access to one place: nothing is ordered       *)
(* between them.  (A matcher may fold across a TokenFactor too; that is    *)
(* left out.)                                                              *)
Updates(n, v) ==
    /\ Ptr(n) = Ptr(v[1])
    /\ dag[n].ops[1] = <<v[1], 1>> /\ HasOneUse(<<v[1], 1>>)

(* [p] = [p] op x.  A byte is stored over any load: loadi8_anyext asks for  *)
(* no width, and the low byte of the result needs no more than a byte.     *)
(* Two bytes are stored over a load that may extend either way, a word     *)
(* over a word.                                                            *)
SelectCodeBinOpStore(n) ==
    LET sum == dag[n].ops[2]
        b == dag[sum[1]]
    IN /\ b.op = "BIN" /\ HasOneUse(sum)
       /\ \E i \in (IF b.alu = "SUB" THEN {1} ELSE {1, 2}) :
            LET v == b.ops[i]
            IN /\ Foldable(sum[1], v) /\ ~IsValidIndexed(v[1]) /\ Updates(n, v)
               /\ \/ dag[n].vt = 1
                  \/ dag[n].vt = 2 /\ dag[v[1]].vt = 2 /\ dag[v[1]].ext = "any"
                  \/ dag[n].vt = 4 /\ dag[v[1]].vt = 4
               /\ \E m \in MemoryOperands(Ptr(n)) :
                    Become(n, Node("MR", b.alu, <<m.base, b.ops[3 - i], dag[v[1]].ops[1]>>,
                                   dag[n].vt, "none", m.disp), <<>>)

\* No pattern has a load of 16 bits that may extend either way, but for
\* MOVEX_RM16: selection ends there.
HasMove(n, form) == dag[n].vt = 2 /\ dag[n].ext = "any" => form = "mem"

SelectLoad(n) ==
    /\ dag[n].op = "LOAD"
    /\ IF IsValidIndexed(n) THEN SelectIndexedLoad(n)
       ELSE \E m \in Modes(Ptr(n)) :
              /\ HasMove(n, m.form)
              /\ Become(n, Node(LoadForm[m.form], "-", <<m.base, dag[n].ops[1]>>,
                                dag[n].vt, MoveExtension(dag[n].ext), m.disp), <<>>)

SelectStore(n) ==
    /\ dag[n].op = "STORE"
    /\ LET data == dag[dag[n].ops[2][1]]
           Binary == data.op = "BIN"
       IN CASE Binary /\ CanBinOpStore(n, data.ops[1]) ->
                 SelectIndexedBinOpStore(n, data.ops[1], data.ops[2])
            [] Binary /\ ~CanBinOpStore(n, data.ops[1]) /\ CanBinOpStore(n, data.ops[2]) ->
                 SelectIndexedBinOpStore(n, data.ops[2], data.ops[1])
            [] OTHER ->
                 IF IsValidIndexed(n) THEN SelectIndexedStore(n)
                 ELSE \/ SelectCodeBinOpStore(n)
                      \/ \E m \in Modes(Ptr(n)) :
                           Become(n, Node(StoreForm[m.form], "-",
                                          <<m.base, dag[n].ops[2], dag[n].ops[1]>>,
                                          dag[n].vt, "none", m.disp), <<>>)

SelectBinary(n) ==
    /\ dag[n].op = "BIN"
    /\ LET a == dag[n].ops[1]
           b == dag[n].ops[2]
       IN CASE CanBinOpLoad(n, a) -> SelectIndexedBinOpLoad(n, a, b)
            [] ~CanBinOpLoad(n, a) /\ CanBinOpLoad(n, b) -> SelectIndexedBinOpLoad(n, b, a)
            [] OTHER -> \/ SelectCodeBinOpLoad(n)
                        \/ Become(n, [dag[n] EXCEPT !.op = "RR"], <<>>)

Select == \E n \in Selectable : Due(n) /\ (SelectLoad(n) \/ SelectStore(n) \/ SelectBinary(n))

Loads == {"RM", "RMr", "RMA", "RM_POST"}
Stores == {"MR", "MRr", "MAR", "MR_POST"}
Instructions == Loads \cup Stores
Memory == {n \in Live : dag[n].op \in Instructions}
HasOp(n) == dag[n].alu # "-"

(* x op [p]+: the one arithmetic instruction whose $Rd no constraint ties  *)
(* to $Rs (ArithLogic_RM_POST).  The register allocator may give the two   *)
(* one register, or any two.                                               *)
PostArithmetic == {n \in Memory : dag[n].op = "RM_POST" /\ HasOp(n)}
Untied == PostArithmetic \ tied

FinishSelection ==
    /\ stage = "select"
    /\ Selectable \subseteq selected
    /\ stage' = "run"
    /\ tied' \in SUBSET PostArithmetic
    /\ UNCHANGED <<prog, in, dag, post, selected, val, mem>>

-----------------------------------------------------------------------------
(* The machine runs the instructions.                                      *)

\* Result v, once the accesses it depends on have run; `value' says what the
\* others are.
Result(value, v) ==
    LET n == dag[v[1]]
    IN CASE n.op \in Instructions -> val[v[1]][v[2] + 1]
         [] n.op = "REG" -> in.reg[n.imm]
         [] n.op \in {"CONST", "FI"} \cup Symbols -> n.imm
         [] n.op = "RR" -> Apply(n.alu, value[n.ops[1]], value[n.ops[2]])
         [] OTHER -> 0
Value(v) ==
    LET value[u \in Below(v[1]) \X (0 .. 2)] == Result(value, u)
    IN value[v]

Ready(n) ==
    /\ n \in Memory \ DOMAIN val
    /\ \A m \in OpNodes(n) : Below(m) \cap Memory \subseteq DOMAIN val

\* The base of an instruction's address: its first operand, except where an
\* arithmetic instruction reads memory.
Base(n) == dag[n].ops[IF dag[n].op \in Loads /\ HasOp(n) THEN 2 ELSE 1]
Address(n) == Wrap(Value(Base(n)) + dag[n].imm)

\* Node n has run and left these values.
Ran(n, values) == [m \in DOMAIN val \cup {n} |-> IF m = n THEN values ELSE val[m]]

\* What Rd may hold before instruction n changes it: the first source, where
\* the two are one register, else what an earlier computation left there (one
\* of the values the block starts with, or 0, stands for that).
LeftInRd(n) ==
    IF n \in Untied THEN {0} \cup {in.reg[dag[m].imm] : m \in {k \in Nodes : dag[k].op = "REG"}}
    ELSE {IF HasOp(n) THEN Value(dag[n].ops[1]) ELSE 0}

\* There is no memory outside DOMAIN mem: such an access changes nothing and
\* reads 0.
Execute(n) ==
    /\ stage = "run" /\ Ready(n)
    /\ LET i == dag[n]
           a == Address(n)
           there == Cells(a, i.vt) \subseteq DOMAIN mem
           read == IF there THEN Extend(Read(mem, a, i.vt), i.vt, i.ext) ELSE 0
       IN IF i.op \in Loads
          THEN /\ \E rd \in LeftInRd(n) :
                    val' = Ran(n, <<IF HasOp(n) THEN Apply(i.alu, rd, read) ELSE read,
                                    Wrap(a + i.vt), 0>>)
               /\ UNCHANGED mem
          ELSE LET data == Value(i.ops[2])
                   new == IF HasOp(n) THEN Apply(i.alu, read, data) ELSE data
               IN /\ val' = Ran(n, <<Wrap(a + i.vt), 0, 0>>)
                  /\ mem' = IF there THEN Write(mem, a, new, i.vt) ELSE mem
    /\ UNCHANGED <<prog, in, stage, dag, post, selected, tied>>

Finish ==
    /\ stage = "run"
    /\ Memory \subseteq DOMAIN val
    /\ stage' = "done"
    /\ UNCHANGED <<prog, in, dag, post, selected, machine>>

Next ==
    \/ CombineToPostIndexed
    \/ StartSelection
    \/ Select
    \/ FinishSelection
    \/ \E n \in Nodes : Execute(n)
    \/ Finish

Spec == Init /\ [][Next]_vars
FairSpec == Spec /\ WF_vars(Next)

-----------------------------------------------------------------------------
(* Properties.                                                             *)

\* How many values node n of graph d results in: an indexed access has the
\* incremented pointer as well.  A chain comes after them.
NumValues(d, indexed, n) ==
    LET op == d[n].op
    IN CASE op \in {"LOAD"} \cup Loads -> IF n \in indexed \/ op = "RM_POST" THEN 2 ELSE 1
         [] op \in {"STORE"} \cup Stores -> IF n \in indexed THEN 1 ELSE 0
         [] op \in {"ENTRY", "TF"} -> 0
         [] OTHER -> 1
IsValue(d, indexed, v) == v[2] < NumValues(d, indexed, v[1])
IsChain(d, indexed, v) ==
    /\ d[v[1]].op \in {"ENTRY", "TF"} \cup Accesses \cup Instructions
    /\ v[2] = NumValues(d, indexed, v[1])

\* The operands of node i that are chains.
Chains(i) ==
    CASE i.op \in Accesses \cup {"END"} -> {1}
      [] i.op = "TF" -> DOMAIN i.ops
      [] i.op \in Instructions -> {Len(i.ops)}
      [] OTHER -> {}

(* Every operand is a result its node really has, a chain where a chain is  *)
(* needed and a value, or no register, where a value is.                   *)
WellTyped(d, indexed) ==
    \A n \in DOMAIN d : \A i \in DOMAIN d[n].ops :
      LET v == d[n].ops[i]
      IN /\ v \in Values(d)
         /\ IF i \in Chains(d[n]) THEN IsChain(d, indexed, v)
            ELSE IsValue(d, indexed, v) \/ v = NoRegister

ASSUME TypedBlocks == \A p \in Programs : WellTyped(p, {})

(* The graph stays a graph of the selector's types.  ReplaceUses by result *)
(* number (KudeyarISelDAGToDAG.cpp:712-714, 768-770) must not mistake       *)
(* writebacks for chains.                                                  *)
TypeOK ==
    /\ stage \in {"combine", "select", "run", "done"}
    /\ post \subseteq Nodes /\ selected \subseteq Nodes /\ tied \subseteq selected
    /\ mem \in [DOMAIN in.mem -> 0 .. Byte - 1]
    /\ DOMAIN val \subseteq selected
    /\ WellTyped(dag, post)

(* As long as a node is left to select, the users of one are all selected;  *)
(* as long as an instruction is left to run, one has what it needs: folding *)
(* never leaves two waiting for each other.                                *)
NeverStuck ==
    /\ stage = "select" /\ ~(Selectable \subseteq selected) => \E n \in Selectable : Due(n)
    /\ stage = "run" /\ ~(Memory \subseteq DOMAIN val) => \E n \in Memory : Ready(n)

(* Two shapes that SelectIndexedBinOpLoad and SelectIndexedBinOpStore take  *)
(* for what they are not: arithmetic on both the value and the writeback of *)
(* one load (p = *p++ + p), and a post-incremented store over a load that   *)
(* is post-incremented itself.                                             *)
Tangled(n) ==
    LET ops == dag[n].ops
        data == dag[ops[2][1]]
    IN \/ dag[n].op = "BIN" /\ dag[ops[1][1]].op = "LOAD"
          /\ ops[1] # ops[2] /\ ops[1][1] = ops[2][1]
       \/ dag[n].op = "STORE" /\ n \in post /\ data.op = "BIN"
          /\ \E i \in {1, 2} : LET l == data.ops[i][1]
                             IN dag[l].op = "LOAD" /\ l \in post /\ Ptr(n) = Ptr(l)
Untangled == \A n \in Selectable : ~Tangled(n)

(* The instructions leave in memory, and in the registers that live on,    *)
(* what the block computes, whichever additions became increments, loads   *)
(* were folded, registers they were given, and order they run in.          *)
ComputesInAnyRegisters ==
    stage = "done" =>
      Effect(prog, in) =
        [mem |-> mem, out |-> [i \in 2 .. Len(dag[End].ops) |-> Value(dag[End].ops[i])]]

\* The same, where the register allocator makes the tie the definition of an
\* arithmetic instruction with post-increment lacks.
ComputesSource == Untied = {} => ComputesInAnyRegisters

(* Selection ends and the instructions can be put in an order: folding     *)
(* never leaves two of them waiting for each other.                        *)
Completes == <>(stage = "done")

=============================================================================
