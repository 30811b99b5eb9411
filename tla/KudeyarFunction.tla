-------------------------- MODULE KudeyarFunction --------------------------
(***************************************************************************)
(* The functions whose control flow is compiled, and what their conditions *)
(* mean.  A function is a sequence of blocks, the first one its entry.  A  *)
(* block may compute z by one select; then it returns (no successor),      *)
(* jumps (one) or branches on a comparison (two: where the condition holds,*)
(* where it does not).                                                     *)
(***************************************************************************)
EXTENDS Integers, Sequences

CONSTANTS
    Programs,    \* the functions that may be compiled
    Half         \* registers hold 0 .. 2 * Half - 1, as two's complement

Names == {"x", "y", "c"}      \* two arguments and a constant
Consts == {"c"}
Word == 0 .. 2 * Half - 1
Undef == -Half - 1            \* z before its select has run: no word, signed or not

Conditions == {"SETEQ", "SETNE", "SETUGT", "SETUGE", "SETULT", "SETULE",
               "SETGT", "SETGE", "SETLT", "SETLE"}

NoSelect == [cc |-> "none"]
HasSelect(p, b) == p[b].select # NoSelect

ASSUME HalfAssumption == Half \in Nat \ {0}

\* z is an operand only of a branch: a select does not read its own result.
ASSUME ProgramsAssumption ==
    \A p \in Programs :
        /\ Len(p) \in Nat \ {0} /\ DOMAIN p = 1 .. Len(p)
        /\ \A b \in 1 .. Len(p) :
             /\ HasSelect(p, b) => /\ p[b].select.cc \in Conditions
                                   /\ {p[b].select.l, p[b].select.r} \subseteq Names
                                   /\ {p[b].select.t, p[b].select.f} \subseteq Names
             /\ p[b].next \in Seq(1 .. Len(p)) /\ Len(p[b].next) <= 2
             /\ Len(p[b].next) = 2 => /\ p[b].cond.cc \in Conditions
                                      /\ {p[b].cond.l, p[b].cond.r} \subseteq Names \cup {"z"}

Signed(v) == IF v >= Half THEN v - 2 * Half ELSE v

\* LLVM's integer conditions, SETU.. on unsigned and the others on signed numbers.
Holds(cc, a, b) ==
    \/ cc \in {"SETEQ", "SETUGE", "SETULE", "SETGE", "SETLE"} /\ a = b
    \/ cc = "SETNE" /\ a # b
    \/ cc \in {"SETUGT", "SETUGE"} /\ a > b
    \/ cc \in {"SETULT", "SETULE"} /\ a < b
    \/ cc \in {"SETGT", "SETGE"} /\ Signed(a) > Signed(b)
    \/ cc \in {"SETLT", "SETLE"} /\ Signed(a) < Signed(b)

\* The blocks that do nothing but jump.
JumpBlocks(p) == {b \in 1 .. Len(p) : ~HasSelect(p, b) /\ Len(p[b].next) = 1}

(* Where jumps alone lead from block b, a set of one block: the set of jump *)
(* blocks that are passed, or any that holds b and the jump blocks its      *)
(* members jump to, has a member that jumps there.  Empty for a loop.       *)
Ends(p, b) ==
    IF b \notin JumpBlocks(p) THEN {b}
    ELSE {c \in 1 .. Len(p) \ JumpBlocks(p) :
            \A passed \in SUBSET JumpBlocks(p) :
                /\ b \in passed
                /\ \A s \in passed : p[s].next[1] \in JumpBlocks(p) => p[s].next[1] \in passed
                => \E s \in passed : p[s].next[1] = c}

\* The first step that is due when control enters block b.
Enter(p) ==
    [b \in 1 .. Len(p) |->
        IF Ends(p, b) = {} THEN <<0, "loop">>
        ELSE LET c == CHOOSE c \in Ends(p, b) : TRUE
             IN <<c, IF HasSelect(p, c) THEN "select" ELSE "end">>]

\* The step that is due when block b's select has run.
AfterSelect(p, b) == IF Len(p[b].next) = 1 THEN Enter(p)[p[b].next[1]] ELSE <<b, "end">>

=============================================================================
