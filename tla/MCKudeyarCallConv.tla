-------------------------- MODULE MCKudeyarCallConv --------------------------
(***************************************************************************)
(* Calls of up to six operands: words, and blocks of 1, 4, 6 and 8 bytes   *)
(* aligned to 1, 4 and 8.  Four registers, so the fifth word is the first  *)
(* one on the stack.                                                       *)
(***************************************************************************)
EXTENDS KudeyarCallConv

W == [byVal |-> FALSE, size |-> 4, align |-> 4]
B(size, align) == [byVal |-> TRUE, size |-> size, align |-> align]

MCOuts ==
    {<<>>, <<W>>, <<B(0, 1), W>>, <<W, W, W, W>>, <<W, W, W, W, W>>, <<W, W, W, W, W, W>>,
     <<B(6, 1)>>, <<B(6, 1), W, B(8, 8)>>, <<B(1, 1), B(6, 4), W>>,
     <<W, B(6, 1), W, W, W, W>>, <<W, W, W, W, B(1, 1), W>>,
     <<W, W, W, B(4, 8), W, W>>}

Site(outs, named, conv, results, vaStart) ==
    [outs |-> outs, named |-> named, conv |-> conv, results |-> results, vaStart |-> vaStart]

MCCalls ==
    {Site(outs, Len(outs), conv, results, FALSE) :
        outs \in MCOuts, conv \in {"C", "Fast"}, results \in {0, 2, 4, 5}}
    \cup {Site(outs, named, "C", 1, va) :
            outs \in {<<W, W, W, W, W, W>>, <<B(6, 1), W, W, W, W, W>>}, named \in {1, 4, 5}, va \in BOOLEAN}
    \cup {Site(outs, Len(outs), "Kudeyar_INTR", results, FALSE) :
            outs \in {<<>>, <<W>>}, results \in {0, 1}}

=============================================================================
