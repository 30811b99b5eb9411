--------------------------- MODULE MCKudeyarSelect ---------------------------
(***************************************************************************)
(* Basic blocks for the selector.  Registers have 8 bits, so a byte has 2  *)
(* and int16_t is -8 .. 7; memory is the 28 cells 0 .. 27.                 *)
(*                                                                         *)
(* Registers 1, 2 and 3 hold a pointer p, a pointer q and a number x.      *)
(***************************************************************************)
EXTENDS KudeyarText

MCByte == 4

Entry == Node("ENTRY", "-", <<>>, 0, "none", 0)
Reg(r) == Node("REG", "-", <<>>, 0, "none", r)
Const(k) == Node("CONST", "-", <<>>, 0, "none", k % 256)
Leaf(op, address) == Node(op, "-", <<>>, 0, "none", address)
Bin(alu, a, b) == Node("BIN", alu, <<<<a, 0>>, <<b, 0>>>>, 0, "none", 0)
Add(a, b) == Bin("ADD", a, b)
Load(chain, ptr, w, ext) == Node("LOAD", "-", <<chain, <<ptr, 0>>>>, w, ext, 0)
Store(chain, data, ptr, w) == Node("STORE", "-", <<chain, <<data, 0>>, <<ptr, 0>>>>, w, "none", 0)
Join(chains) == Node("TF", "-", chains, 0, "none", 0)
Return(chain, outs) ==
    Node("END", "-", <<chain>> \o [i \in DOMAIN outs |-> <<outs[i], 0>>], 0, "none", 0)

Start == <<1, 0>>
After1(load) == <<load, 1>>     \* a load's chain
After0(store) == <<store, 0>>   \* a store's chain

Exts(w) == IF w = 4 THEN {"none"} ELSE {"zext", "sext"}
Commuting == Alu \ {"SUB"}

(* Loads an arithmetic instruction with post-increment reads as they are:  *)
(* words, and bytes it extends the way the load does.                      *)
PostOperand(alu, w, ext) ==
    w = 4 \/ (w = 1 /\ ext = IF alu \in {"ADD", "SUB"} THEN "sext" ELSE "zext")

\* *q = x; return x op *p, p + k  (or *p op x, if op commutes)
OperandBlocks ==
    {<<Entry, Reg(1), Reg(2), Reg(3), Const(k), Store(Start, 4, 3, 1),
       Load(After0(6), 2, c[2], c[3]), Add(2, 5), IF left THEN Bin(c[1], 7, 4) ELSE Bin(c[1], 4, 7),
       Return(After1(7), <<9, 8>>)>> :
        <<c, k, left>> \in
          {b \in {c \in Alu \X Widths \X {"none", "zext", "sext"} :
                    PostOperand(c[1], c[2], c[3]) /\ c[3] \in Exts(c[2])}
                 \X {1, 3, 4} \X BOOLEAN : b[3] => b[1][1] \in Commuting}}

\* *p++ op= x
UpdateBlocks ==
    {<<Entry, Reg(1), Reg(3), Const(w), Load(Start, 2, w, ext), Bin(alu, 5, 3),
       Store(After1(5), 6, 2, w), Add(2, 4), Return(After0(7), <<8>>)>> :
        <<alu, w, ext>> \in
          {c \in Commuting \X Widths \X {"none", "zext", "sext"} :
             PostOperand(c[1], c[2], c[3]) /\ c[3] \in Exts(c[2])}}

\* *q = *p++; the value lives on if all of it is known.
CopyBlocks ==
    UNION {{<<Entry, Reg(1), Reg(2), Const(w), Load(Start, 2, w, ext),
              Store(After1(5), 5, 3, w), Add(2, 4),
              Return(After0(6), IF ext = "any" THEN <<7>> ELSE <<7, 5>>)>> :
               ext \in Exts(w) \cup (IF w = 4 THEN {} ELSE {"any"})} : w \in Widths}

\* t = *p++; *q = x; return t op *p
ReloadBlocks ==
    {<<Entry, Reg(1), Reg(2), Reg(3), Const(4), Load(Start, 2, 4, "none"),
       Store(After1(6), 4, 3, 4), Add(2, 5), Load(After0(7), 8, 4, "none"),
       Bin(alu, 6, 9), Return(After1(9), <<10, 8>>)>> : alu \in {"ADD", "XOR"}}

\* *p++ = *p op *q++, the loads in any order
TwoLoadBlocks ==
    {<<Entry, Reg(1), Reg(2), Const(4), Load(Start, 2, 4, "none"), Load(Start, 3, 4, "none"),
       Join(<<After1(5), After1(6)>>), Bin(alu, 5, 6), Store(<<7, 0>>, 8, 2, 4),
       Add(2, 4), Add(3, 4), Return(After0(9), <<10, 11>>)>> : alu \in {"ADD", "OR"}}

(* p[d] op= x: a byte over a load of any width, a word over a word, or two  *)
(* bytes added to two, with *q = x written before the load or between the  *)
(* load and the store.                                                     *)
ChangeBlocks ==
    {<<Entry, Reg(1), Reg(2), Reg(3), Const(c.d), Add(2, 5)>>
       \o (IF c.between THEN <<Load(Start, 6, c.w, c.ext), Store(After1(7), 4, 3, 1),
                               Bin(c.alu, 7, 4), Store(After0(8), 9, 6, c.to)>>
                        ELSE <<Store(Start, 4, 3, 1), Load(After0(7), 6, c.w, c.ext),
                               Bin(c.alu, 8, 4), Store(After1(8), 9, 6, c.to)>>)
       \o <<Return(After0(10), <<>>)>> :
        c \in {b \in [d : {0, 4}, alu : Alu, w : Widths, ext : {"none"} \cup Extensions,
                      to : Widths, between : BOOLEAN] :
                 /\ b.ext \in Exts(b.w) \/ (b.ext = "any" /\ b.w < 4)
                 /\ b.to = 2 => b.w = 2 /\ b.ext = "any" /\ b.alu \in {"ADD", "SUB"}
                 /\ b.to = 4 => b.w = 4}}

(* x op *(p + d + e), written to a frame object's byte i, whose address is *)
(* FI + i, FI | i or (q & ~3) | i; d and e on either side of the addition. *)
AddressBlocks ==
    {<<Entry, Reg(1), Const(c[1]), IF c[3] THEN Add(2, 3) ELSE Add(3, 2), Const(c[2]), Add(4, 5),
       Load(Start, 6, 1, "sext"), Reg(3), Bin("SUB", 8, 7),
       Leaf("FI", 16), Reg(2), Const(252), Bin("AND", 11, 12), Const(c[4]),
       IF c[5] = "FI+" THEN Add(10, 14) ELSE Bin("OR", IF c[5] = "FI|" THEN 10 ELSE 13, 14),
       Store(After1(7), 9, 15, 1), Return(After0(16), <<9>>)>> :
        c \in {<<d, e, left, i, form>> \in
                 {-4, 0, 3} \X {-4, 4} \X BOOLEAN \X {1, 3} \X {"FI+", "FI|", "&|"} : TRUE}}

(* *s + *(s + 4), then *s = p, for a symbol s.  A load that extends from    *)
(* 16 bits by sign is one from the global itself.                          *)
SymbolBlocks ==
    {<<Entry, Leaf(c.s, 8), Const(4), Add(2, 3), Load(Start, 2, c.w, c.ext),
       Load(Start, 4, c.v, "zext"), Bin("ADD", 5, 6), Join(<<After1(5), After1(6)>>),
       Reg(1), Store(<<8, 0>>, 9, 2, c.w), Return(After0(10), <<7>>)>> :
        c \in {b \in [s : {"GV", "ES"}, w : Widths, ext : {"none", "zext", "sext"}, v : {1, 2}] :
                 /\ b.ext \in Exts(b.w)
                 /\ b.s = "GV" \/ ~(b.w = 2 /\ b.ext = "sext")}}

MCPrograms == OperandBlocks \cup UpdateBlocks \cup CopyBlocks \cup ReloadBlocks
              \cup TwoLoadBlocks \cup AddressBlocks \cup SymbolBlocks \cup ChangeBlocks

\* *q++ = x
MCStorePrograms ==
    {<<Entry, Reg(2), Reg(3), Const(w), Store(Start, 3, 2, w), Add(2, 4),
       Return(After0(5), <<6>>)>> : w \in Widths}

MCInputs ==
    {[reg |-> <<8, q, x>>, mem |-> [c \in 0 .. 27 |-> (c * c + 3 * (c \div 4) + c \div 16) % 4]] :
        q \in {8, 9, 12}, x \in {0, 1, 130, 255}}

=============================================================================
