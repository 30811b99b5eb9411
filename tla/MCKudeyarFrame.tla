--------------------------- MODULE MCKudeyarFrame ---------------------------
(* Small instances of KudeyarFrame: one argument register, two callee-saved *)
(* ones beside FP, at most two locals, one incoming and two outgoing words. *)
EXTENDS KudeyarDirectives

MCArgRegs   == {"R0"}
MCSavedRegs == {"R4", "R5"}
MCRegNo     == [r \in {"R0", "R4", "R5", "FP"} |->
                  CASE r = "R0" -> 0 [] r = "R4" -> 4 [] r = "R5" -> 5 [] r = "FP" -> 14]

AllShapes ==
    {f \in [disableFPElim : BOOLEAN, frameAddressTaken : {FALSE}, varSized : BOOLEAN,
            intr : BOOLEAN, used : SUBSET {"R0", "R4", "R5", "FP"}, locals : 0 .. 2,
            inArgs : 0 .. 1, hasCalls : BOOLEAN, outArgs : 0 .. 2] :
        /\ HasFP(f) => FP \notin f.used
        /\ f.outArgs > 0 => f.hasCalls
        /\ f.intr => f.inArgs = 0}

SaveCount(f) == Cardinality(CSI(f))

\* No frame pointer, no handler that calls, and at most one register saved
\* unless that is all there is in the frame.
PlainShapes ==
    {f \in AllShapes : /\ ~HasFP(f) /\ ~(f.intr /\ f.hasCalls)
                       /\ SaveCount(f) <= 1 \/ (f.locals = 0 /\ f.outArgs = 0)}

\* Everything but a frame of variable size that saves two registers or more.
BalancedShapes == {f \in AllShapes : ~f.varSized \/ SaveCount(f) <= 1}

\* Where the code departs from its own comments: two registers saved ...
ListShapes == {f \in AllShapes : ~HasFP(f) /\ SaveCount(f) = 2 /\ ~f.intr}
\* ... a frame pointer, where only stores to locals can do harm ...
FPShapes == {f \in AllShapes : /\ HasFP(f) /\ ~f.varSized /\ ~f.intr
                               /\ SaveCount(f) <= 1 /\ f.outArgs = 0}
\* ... and an interrupt handler that calls a function.
HandlerShapes == {f \in AllShapes : ~HasFP(f) /\ SaveCount(f) <= 1 /\ f.intr /\ f.hasCalls}

=============================================================================
