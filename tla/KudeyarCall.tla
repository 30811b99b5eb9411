----------------------------- MODULE KudeyarCall -----------------------------
(***************************************************************************)
(* What a call promises, whatever registers and stack words carry it: the  *)
(* callee sees the arguments the caller sent, whenever it looks at them,   *)
(* and the caller takes the results the callee returned, in order.  A call *)
(* one of the two sides cannot compile is abandoned before it starts.      *)
(***************************************************************************)
EXTENDS KudeyarCallSite

VARIABLES
    call,     \* the call that is made
    turn,     \* who runs
    inVals,   \* the arguments the callee has looked at
    back      \* the results the caller has taken

Init ==
    /\ call \in Calls
    /\ turn = "caller"
    /\ inVals = <<>>
    /\ back = <<>>

Abandon ==
    /\ turn = "caller"
    /\ turn' = "abandoned"
    /\ UNCHANGED <<call, inVals, back>>

Enter ==
    /\ turn = "caller"
    /\ turn' = "callee"
    /\ UNCHANGED <<call, inVals, back>>

\* The callee looks at some of its arguments; what it saw before stays seen.
Look ==
    /\ turn = "callee"
    /\ \E more \in SUBSET (1 .. call.named) :
         inVals' = [i \in DOMAIN inVals \cup more |->
                       IF i \in DOMAIN inVals THEN inVals[i] ELSE Sent(call, i)]
    /\ UNCHANGED <<call, turn, back>>

Leave ==
    /\ turn = "callee"
    /\ turn' = "back"
    /\ UNCHANGED <<call, inVals, back>>

Take ==
    /\ turn = "back" /\ Len(back) < call.results
    /\ back' = Append(back, Result(Len(back) + 1))
    /\ UNCHANGED <<call, turn, inVals>>

Finish ==
    /\ turn = "back" /\ Len(back) = call.results
    /\ turn' = "done"
    /\ UNCHANGED <<call, inVals, back>>

Next == Abandon \/ Enter \/ Look \/ Leave \/ Take \/ Finish

Spec == Init /\ [][Next]_<<call, turn, inVals, back>>

=============================================================================
