--------------------------- MODULE KudeyarCallSite ---------------------------
(***************************************************************************)
(* The calls that are compiled, and the values they pass.                  *)
(*                                                                         *)
(* Types are legal before a call is lowered: an operand is a word, or a    *)
(* block passed by value; narrow values have become words, i64 and f64     *)
(* two words each.  A value is a function from its bytes, numbered from 0; *)
(* a byte is named by where it comes from.                                 *)
(***************************************************************************)
EXTENDS Integers, Sequences

CONSTANT Calls    \* the calls that may be compiled

Conventions == {"C", "Fast", "Kudeyar_INTR"}
Operand == [byVal : BOOLEAN, size : Nat, align : Nat \ {0}]

(* A call: its operands, how many of them the callee names (the rest are   *)
(* the variable arguments), the convention, the words of the result, and   *)
(* whether the callee starts a walk over variable arguments.               *)
CallSite == [outs : Seq(Operand), named : Nat, conv : Conventions,
             results : Nat, vaStart : BOOLEAN]

ASSUME CallsAssumption ==
    /\ Calls \subseteq CallSite
    /\ \A c \in Calls :
         /\ c.named <= Len(c.outs)
         /\ \A i \in 1 .. Len(c.outs) : ~c.outs[i].byVal => c.outs[i].size = 4

Byte == {"arg", "result", "own", "return", "junk"} \X Nat \X Nat
Bytes(origin, number, size) == [b \in 0 .. size - 1 |-> <<origin, number, b>>]
Junk == <<"junk", 0, 0>>

\* Argument i of call c, and word k of its result.
Sent(c, i) == Bytes("arg", i, c.outs[i].size)
Result(k) == Bytes("result", k, 4)

=============================================================================
