--------------------------- MODULE MCKudeyarBranch ---------------------------
(***************************************************************************)
(* Functions for TLC: every condition, in a branch and in a select, with   *)
(* two-bit registers, and the shapes of control flow the branch folder     *)
(* rewrites.                                                               *)
(***************************************************************************)
EXTENDS KudeyarBranch

Block(s, n, c) == [select |-> s, next |-> n, cond |-> c]
Cond(cc, l, r) == [cc |-> cc, l |-> l, r |-> r]
Sel(cc, l, r, t, f) == [cc |-> cc, l |-> l, r |-> r, t |-> t, f |-> f]
NoCond == [cc |-> "none"]
Ret == Block(NoSelect, <<>>, NoCond)
Jmp(b) == Block(NoSelect, <<b>>, NoCond)

\* A branch on a select's result, and a second select on one side of it.
Diamond(cc, dd) ==
    << Block(Sel(cc, "x", "y", "x", "c"), <<3, 2>>, Cond(dd, "z", "x")),
       Jmp(4),
       Block(Sel(dd, "y", "c", "c", "y"), <<4>>, NoCond),
       Block(NoSelect, <<5, 6>>, Cond("SETNE", "z", "y")), Ret, Ret >>

\* A loop whose test stands at its end.
Loop(cc) ==
    << Jmp(3), Block(Sel(cc, "x", "y", "c", "x"), <<3>>, NoCond),
       Block(NoSelect, <<2, 4>>, Cond(cc, "x", "y")), Ret >>

\* Blocks that only jump, and blocks a predecessor can be followed by.
Jumps(cc, dd) ==
    << Block(NoSelect, <<4, 2>>, Cond(cc, "x", "y")),
       Block(NoSelect, <<5, 3>>, Cond(dd, "c", "y")),
       Ret, Jmp(6), Jmp(7), Jmp(8), Jmp(8), Ret >>

\* A block two others jump to, which the folder may put behind either.
Shared(cc) ==
    << Block(NoSelect, <<3, 2>>, Cond(cc, "x", "y")),
       Block(Sel(cc, "y", "c", "y", "c"), <<5>>, NoCond),
       Block(Sel(cc, "x", "c", "c", "x"), <<5, 4>>, Cond("SETEQ", "z", "c")),
       Ret, Block(NoSelect, <<6, 7>>, Cond("SETLT", "z", "y")), Ret, Jmp(9),
       Ret, Block(Sel("SETNE", "x", "c", "x", "c"), <<>>, NoCond) >>

\* Loops that do nothing, from one block and from two.
Spin == << Block(NoSelect, <<3, 2>>, Cond("SETLT", "x", "y")), Jmp(2), Jmp(4), Jmp(3) >>

\* The true side comes next, so the condition is inverted.
TrueNext(cc, l, r) == << Block(NoSelect, <<2, 3>>, Cond(cc, l, r)), Ret, Ret >>
\* A block that only jumps behind a conditional branch.
JumpBehindBranch == << Block(NoSelect, <<3, 2>>, Cond("SETEQ", "x", "y")), Jmp(4), Ret, Ret >>

\* SETUGT is lowered wrongly, also where it is the inverse of SETULE.
Lowered == Conditions \ {"SETUGT"}

SoundPrograms ==
    {Diamond(cc, dd) : cc \in Lowered, dd \in {"SETULE", "SETGE", "SETNE"}}
    \cup {Loop(cc) : cc \in {"SETLT", "SETUGE"}}
    \cup {Jumps(cc, dd) : cc \in Lowered, dd \in {"SETEQ", "SETNE"}}
    \cup {Shared(cc) : cc \in {"SETULT", "SETGT"}}
    \cup {TrueNext(cc, "x", "y") : cc \in Conditions \ {"SETULE"}} \cup {Spin}

ASSUME SoundAssumption == \A p \in SoundPrograms : LoweredSoundly(p)

UnsignedGreaterPrograms == {TrueNext("SETULE", "x", "y")}
JumpBehindPrograms == {JumpBehindBranch}

=============================================================================
