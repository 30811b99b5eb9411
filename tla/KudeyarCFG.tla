----------------------------- MODULE KudeyarCFG -----------------------------
(***************************************************************************)
(* What a function's branches and selects do, before the backend lowers    *)
(* them: the abstract specification that KudeyarBranch implements.         *)
(* Only selects, branches and returns are steps: through which blocks a    *)
(* jump leads is not observable.                                           *)
(***************************************************************************)
EXTENDS KudeyarFunction

VARIABLES
    prog,     \* the function
    arg,      \* the values of its arguments and of the constant
    point,    \* <<block, step that is due>>; <<0, "loop">> if none ever will be
    z         \* the value of z, Undef where the next step computes it

vars == <<prog, arg, point, z>>

Value(n) == IF n = "z" THEN z ELSE arg[n]
Goto(pt, v) == point' = pt /\ z' = IF pt[2] = "select" THEN Undef ELSE v

Init ==
    /\ prog \in Programs
    /\ arg \in [Names -> Word]
    /\ point = Enter(prog)[1]
    /\ z = Undef

Select ==
    /\ point[2] = "select"
    /\ LET s == prog[point[1]].select
       IN Goto(AfterSelect(prog, point[1]),
               IF Holds(s.cc, arg[s.l], arg[s.r]) THEN arg[s.t] ELSE arg[s.f])
    /\ UNCHANGED <<prog, arg>>

Branch ==
    /\ point[2] = "end"
    /\ Len(prog[point[1]].next) = 2
    /\ LET c == prog[point[1]].cond
           n == prog[point[1]].next
       IN Goto(Enter(prog)[IF Holds(c.cc, Value(c.l), Value(c.r)) THEN n[1] ELSE n[2]], z)
    /\ UNCHANGED <<prog, arg>>

Return ==
    /\ point[2] = "end"
    /\ Len(prog[point[1]].next) = 0
    /\ point' = <<point[1], "returned">>
    /\ UNCHANGED <<prog, arg, z>>

Next == Select \/ Branch \/ Return

Spec == Init /\ [][Next]_vars

=============================================================================
