------------------------- MODULE KudeyarText_proofs -------------------------
(***************************************************************************)
(* The proof that the assembly text says what was selected, for every      *)
(* block, whichever increments are formed and folds are made: but for the  *)
(* instructions known to be misprinted, the assembler reads every line     *)
(* back as the instruction it stands for.                                  *)
(***************************************************************************)
EXTENDS KudeyarText, KudeyarSelect_proofs

-----------------------------------------------------------------------------
(* Short sequences.                                                        *)

LEMMA OneAndThree ==
    ASSUME NEW x, NEW a, NEW b, NEW c
    PROVE  <<x>> \o <<a, b, c>> = <<x, a, b, c>>
<1> DEFINE S == {x, a, b, c}
           s == <<x>>
           t == <<a, b, c>>
           r == <<x, a, b, c>>
<1>1. s \in Seq(S) /\ Len(s) = 1 /\ s[1] = x OBVIOUS
<1>2. t \in Seq(S) /\ Len(t) = 3 /\ t[1] = a /\ t[2] = b /\ t[3] = c OBVIOUS
<1>3. r \in Seq(S) /\ Len(r) = 4 /\ r[1] = x /\ r[2] = a /\ r[3] = b /\ r[4] = c OBVIOUS
<1> HIDE DEF S, s, t, r
<1>4. /\ s \o t \in Seq(S) /\ Len(s \o t) = Len(s) + Len(t)
      /\ \A k \in 1 .. Len(s) + Len(t) : (s \o t)[k] = IF k <= Len(s) THEN s[k] ELSE t[k - Len(s)]
  BY <1>1, <1>2, ConcatProperties
<1>5. \A k \in 1 .. 4 : (s \o t)[k] = r[k] BY <1>1, <1>2, <1>3, <1>4
<1>6. s \o t = r BY <1>1, <1>2, <1>3, <1>4, <1>5, SeqEqual
<1> QED BY <1>6 DEF s, t, r

LEMMA ThreeAndOne ==
    ASSUME NEW a, NEW b, NEW c, NEW x
    PROVE  Append(<<a, b, c>>, x) = <<a, b, c, x>>
<1> DEFINE S == {a, b, c, x}
           t == <<a, b, c>>
           r == <<a, b, c, x>>
<1>1. t \in Seq(S) /\ Len(t) = 3 /\ t[1] = a /\ t[2] = b /\ t[3] = c OBVIOUS
<1>2. r \in Seq(S) /\ Len(r) = 4 /\ r[1] = a /\ r[2] = b /\ r[3] = c /\ r[4] = x OBVIOUS
<1>3. x \in S OBVIOUS
<1> HIDE DEF S, t, r
<1>4. /\ Append(t, x) \in Seq(S) /\ Len(Append(t, x)) = Len(t) + 1
      /\ Append(t, x)[Len(t) + 1] = x
      /\ \A k \in 1 .. Len(t) : Append(t, x)[k] = t[k]
  <2>1. t \in Seq(S) BY <1>1
  <2> HIDE <1>1
  <2> QED BY <2>1, <1>3, AppendProperties
<1>5. \A k \in 1 .. 4 : Append(t, x)[k] = r[k]
  <2>1. \A k \in 1 .. 4 : k = 4 \/ k \in 1 .. 3 OBVIOUS
  <2>2. \A k \in 1 .. 3 : k = 1 \/ k = 2 \/ k = 3 OBVIOUS
  <2>3. Append(t, x)[4] = x /\ \A k \in 1 .. 3 : Append(t, x)[k] = t[k] BY <1>1, <1>4
  <2> QED BY <2>1, <2>2, <2>3, <1>1, <1>2
<1>6. Append(t, x) = r BY <1>1, <1>2, <1>4, <1>5, SeqEqual
<1> QED BY <1>6 DEF t, r

-----------------------------------------------------------------------------
(* Reading operands.                                                       *)

LEMMA KindsOfOne == ASSUME NEW a PROVE Kinds(<<a>>) = <<a[1]>>
BY DEF Kinds

LEMMA KindsOfThree ==
    ASSUME NEW a, NEW b, NEW c PROVE Kinds(<<a, b, c>>) = <<a[1], b[1], c[1]>>
BY DEF Kinds

LEMMA KindsOfFour ==
    ASSUME NEW a, NEW b, NEW c, NEW d
    PROVE  Kinds(<<a, b, c, d>>) = <<a[1], b[1], c[1], d[1]>>
BY DEF Kinds

At(a, k) == {[base |-> a, disp |-> k, post |-> FALSE]}
PostAt(a) == {[base |-> a, disp |-> 0, post |-> TRUE]}

\* A register, a number or a name alone is no memory operand.
LEMMA ReadsNoAddress == ASSUME NEW a PROVE ReadAddress(<<a>>) = {}
<1>1. PICK x : x = a[1] OBVIOUS
<1>2. Kinds(<<a>>) = <<x>> BY <1>1, KindsOfOne
<1>3. /\ <<x>> # <<"[", "register", "]">> /\ <<x>> # <<"[", "name", "]">>
      /\ <<x>> # <<"[", "register", "]", "+">> /\ <<x>> # <<"number", "[", "register", "]">>
  OBVIOUS
<1> QED BY <1>2, <1>3 DEF ReadAddress

\* What is in brackets is the base, the number in front of it the displacement.
LEMMA ReadsBase ==
    ASSUME NEW a, a[1] = "register" \/ a[1] = "name"
    PROVE  ReadAddress(Bracket(a)) = At(a, 0)
<1>1. PICK t : t = <<<<"[", 0>>, a, <<"]", 0>>>> OBVIOUS
<1>2. Bracket(a) = t BY <1>1 DEF Bracket
<1>3. Kinds(t) = <<"[", a[1], "]">> BY <1>1, KindsOfThree
<1>4. t[2] = a BY <1>1
<1>5. Kinds(t) \in {<<"[", "register", "]">>, <<"[", "name", "]">>} BY <1>3
<1>6. /\ Kinds(t) # <<"[", "register", "]", "+">>
      /\ Kinds(t) # <<"number", "[", "register", "]">>
  BY <1>3
<1> QED BY <1>2, <1>4, <1>5, <1>6 DEF ReadAddress, At

LEMMA ReadsPost ==
    ASSUME NEW a, a[1] = "register"
    PROVE  ReadAddress(Append(Bracket(a), Plus)) = PostAt(a)
<1>1. PICK t : t = <<<<"[", 0>>, a, <<"]", 0>>, Plus>> OBVIOUS
<1>2. Append(Bracket(a), Plus) = t BY <1>1, ThreeAndOne DEF Bracket
<1>3. Kinds(t) = <<"[", "register", "]", "+">> BY <1>1, KindsOfFour DEF Plus
<1>4. t[2] = a BY <1>1
<1>5. Kinds(t) \notin {<<"[", "register", "]">>, <<"[", "name", "]">>} BY <1>3
<1> QED BY <1>2, <1>3, <1>4, <1>5 DEF ReadAddress, PostAt

LEMMA ReadsDisplacement ==
    ASSUME NEW a, a[1] = "register", NEW k
    PROVE  ReadAddress(<<Number(k)>> \o Bracket(a)) = At(a, k)
<1>1. PICK t : t = <<Number(k), <<"[", 0>>, a, <<"]", 0>>>> OBVIOUS
<1>2. <<Number(k)>> \o Bracket(a) = t BY <1>1, OneAndThree DEF Bracket
<1>3. Kinds(t) = <<"number", "[", "register", "]">> BY <1>1, KindsOfFour DEF Number
<1>4. t[3] = a /\ t[1][2] = k BY <1>1 DEF Number
<1>5. /\ Kinds(t) \notin {<<"[", "register", "]">>, <<"[", "name", "]">>}
      /\ Kinds(t) # <<"[", "register", "]", "+">>
  BY <1>3
<1> QED BY <1>2, <1>3, <1>4, <1>5 DEF ReadAddress, At

-----------------------------------------------------------------------------
(* Reading lines.                                                          *)

Bytes(size) == CASE size = "b" -> 1 [] size = "w" -> 2 [] OTHER -> 4

\* The lines there are, and what they say.
LoadLine(name, extension, size, r, o) == <<<<name, extension, size>>>> \o <<<<r>>, o>>
StoreLine(name, extension, size, r, o) == <<<<name, extension, size>>>> \o <<o, <<r>>>>
RegisterLine(name, extension, r, s) == <<<<name, extension, "-">>>> \o <<<<r>>, <<s>>>>
LoadSaid(name, extension, size, r, a) ==
    [alu |-> name, bytes |-> Bytes(size),
     ext |-> CASE extension = "sx" -> "sext"
               [] extension # "sx" /\ size # "-" -> "zext"
               [] OTHER -> "none",
     from |-> {a}, to |-> {}, dst |-> <<r>>, src |-> <<>>]
StoreSaid(name, size, r, a) ==
    [alu |-> name, bytes |-> Bytes(size), ext |-> "none",
     from |-> {}, to |-> {a}, dst |-> <<>>, src |-> <<r>>]
RegisterSaid(name, r, s) ==
    [alu |-> name, bytes |-> 4, ext |-> "none",
     from |-> {}, to |-> {}, dst |-> <<r>>, src |-> <<s>>]

LEMMA TwoOperands ==
    ASSUME NEW word, NEW x, NEW y
    PROVE  <<word>> \o <<x, y>> = <<word, x, y>>
<1> DEFINE S == {word, x, y}
<1>1. word \in S /\ x \in S /\ y \in S OBVIOUS
<1> HIDE DEF S
<1> QED BY <1>1, OneAndTwo

\* A load: a register, then memory.
LEMMA ReadsLoad ==
    ASSUME NEW name, NEW extension, NEW size, NEW r, NEW o, NEW a,
           ReadAddress(o) = {a}
    PROVE  ReadLine(LoadLine(name, extension, size, r, o)) = LoadSaid(name, extension, size, r, a)
<1>1. PICK word : word = <<name, extension, size>> OBVIOUS
<1>2. PICK line : line = <<word, <<r>>, o>> OBVIOUS
<1>3. <<word>> \o <<<<r>>, o>> = line BY <1>2, TwoOperands
<1>4. line[1] = word /\ line[2] = <<r>> /\ line[3] = o BY <1>2
<1>5. word[1] = name /\ word[2] = extension /\ word[3] = size BY <1>1
<1>6. ReadAddress(<<r>>) = {} BY ReadsNoAddress
<1>7. {a} # {} OBVIOUS
<1> QED BY <1>1, <1>3, <1>4, <1>5, <1>6, <1>7 DEF ReadLine, Bytes, LoadLine, LoadSaid

\* A store: memory, then a register.
LEMMA ReadsStore ==
    ASSUME NEW name, NEW extension, extension # "sx", NEW size, NEW r, NEW o, NEW a,
           ReadAddress(o) = {a}
    PROVE  ReadLine(StoreLine(name, extension, size, r, o)) = StoreSaid(name, size, r, a)
<1>1. PICK word : word = <<name, extension, size>> OBVIOUS
<1>2. PICK line : line = <<word, o, <<r>>>> OBVIOUS
<1>3. <<word>> \o <<o, <<r>>>> = line BY <1>2, TwoOperands
<1>4. line[1] = word /\ line[2] = o /\ line[3] = <<r>> BY <1>2
<1>5. word[1] = name /\ word[2] = extension /\ word[3] = size BY <1>1
<1>6. ReadAddress(<<r>>) = {} BY ReadsNoAddress
<1>7. {a} # {} OBVIOUS
<1> QED BY <1>1, <1>3, <1>4, <1>5, <1>6, <1>7 DEF ReadLine, Bytes, StoreLine, StoreSaid

\* Registers only, or a register and a constant or a symbol.
LEMMA ReadsRegisters ==
    ASSUME NEW name, NEW extension, extension # "sx", NEW r, NEW s
    PROVE  ReadLine(RegisterLine(name, extension, r, s)) = RegisterSaid(name, r, s)
<1>1. PICK word : word = <<name, extension, "-">> OBVIOUS
<1>2. PICK line : line = <<word, <<r>>, <<s>>>> OBVIOUS
<1>3. <<word>> \o <<<<r>>, <<s>>>> = line BY <1>2, TwoOperands
<1>4. line[1] = word /\ line[2] = <<r>> /\ line[3] = <<s>> BY <1>2
<1>5. word[1] = name /\ word[2] = extension /\ word[3] = "-" BY <1>1
<1>6. ReadAddress(<<r>>) = {} /\ ReadAddress(<<s>>) = {} BY ReadsNoAddress
<1> QED BY <1>1, <1>3, <1>4, <1>5, <1>6 DEF ReadLine, RegisterLine, RegisterSaid

-----------------------------------------------------------------------------
\* A name in an access is a global's.
Named(n) == dag[n].op \in {"RMA", "MAR"} => dag[Base(n)[1]].op = "GV"

-----------------------------------------------------------------------------
(* Every form of instruction is read back.                                 *)

LowerOperand(o) == IF o[1] = "symbol" THEN <<"name", SymbolName(o[2])>> ELSE o

LEMMA RegistersStay == ASSUME NEW v PROVE LowerOperand(RegisterToken(v)) = RegisterToken(v)
BY DEF LowerOperand, RegisterToken

LEMMA NumbersStay == ASSUME NEW k PROVE LowerOperand(Number(k)) = Number(k)
BY DEF LowerOperand, Number

LEMMA LowersTwo ==
    ASSUME NEW n, NEW a, NEW b, MachineOperands(n) = <<a, b>>
    PROVE  Lower(n) = <<LowerOperand(a), LowerOperand(b)>>
BY DEF Lower, LowerOperand

LEMMA LowersThree ==
    ASSUME NEW n, NEW a, NEW b, NEW c, MachineOperands(n) = <<a, b, c>>
    PROVE  Lower(n) = <<LowerOperand(a), LowerOperand(b), LowerOperand(c)>>
BY DEF Lower, LowerOperand

LEMMA LowersFour ==
    ASSUME NEW n, NEW a, NEW b, NEW c, NEW d, MachineOperands(n) = <<a, b, c, d>>
    PROVE  Lower(n) = <<LowerOperand(a), LowerOperand(b), LowerOperand(c), LowerOperand(d)>>
BY DEF Lower, LowerOperand

\* The suffix gives the width and, with the letters for the extension, that.
LEMMA SuffixGivesWidth ==
    ASSUME NEW n, dag[n].vt \in Widths PROVE Bytes(SizeSuffix(n)) = dag[n].vt
<1>1. dag[n].vt = 1 \/ dag[n].vt = 2 \/ dag[n].vt = 4 BY DEF Widths
<1> QED BY <1>1 DEF SizeSuffix, Bytes

\* The memory operand: a displacement unless it is zero, and a base.
LEMMA ReadsMemOperand ==
    ASSUME NEW v, v # NoRegister, NEW k, NEW mc, NEW at \in Nat,
           mc[at] = RegisterToken(v), mc[at + 1] = Number(k)
    PROVE  ReadAddress(PrintMemOperand(mc, at)) = At(RegisterToken(v), k)
<1>1. RegisterToken(v) # RegisterToken(NoRegister) BY DEF RegisterToken
<1>2. RegisterToken(v)[1] = "register" BY DEF RegisterToken
<1>3. PICK b : b = Bracket(RegisterToken(v)) OBVIOUS
<1>4. CASE k = 0
  <2>1. mc[at + 1] = Number(0) BY <1>4
  <2>2. PrintMemOperand(mc, at) = <<>> \o b BY <1>1, <1>3, <2>1 DEF PrintMemOperand
  <2>3. <<>> \o b = b BY <1>3 DEF Bracket
  <2>4. ReadAddress(b) = At(RegisterToken(v), 0)
    <3>1. PICK r : r = RegisterToken(v) OBVIOUS
    <3> QED BY <1>2, <1>3, <3>1, ReadsBase
  <2>5. PrintMemOperand(mc, at) = b BY <2>2, <2>3
  <2> QED BY <1>4, <2>4, <2>5
<1>5. CASE k # 0
  <2>1. Number(k) # Number(0) BY <1>5 DEF Number
  <2>2. PrintMemOperand(mc, at) = <<Number(k)>> \o b
    BY <1>1, <1>3, <2>1 DEF PrintMemOperand, PrintOperand
  <2> QED BY <1>2, <1>3, <2>2, ReadsDisplacement
<1> QED BY <1>4, <1>5

ReadsBack(n) == ReadLine(EmitInstruction(n)) = Meaning(n)

Destination(n) == RegisterToken(IF HasOp(n) THEN dag[n].ops[1] ELSE <<n, 0>>)
AddressMeant(n) ==
    [base |-> IF dag[n].op \in {"RMA", "MAR"} THEN <<"name", Label(Base(n)[1])>>
              ELSE RegisterToken(Base(n)),
     disp |-> dag[n].imm, post |-> dag[n].op \in {"RM_POST", "MR_POST"}]

\* A load is read back if its register and its address are.
LEMMA LoadReadsBack ==
    ASSUME NEW n, dag[n].op \in Loads, Extended(dag[n]),
           dag[n].ext # "any", ~(dag[n].op = "RMr" /\ dag[n].ext = "sext" /\ dag[n].vt = 2),
           NEW o, ReadAddress(o) = {AddressMeant(n)},
           EmitInstruction(n) = <<Mnemonic(n)>> \o <<<<Destination(n)>>, o>>
    PROVE  ReadsBack(n)
<1> DEFINE name == IF HasOp(n) THEN dag[n].alu ELSE "MOV"
           size == IF dag[n].op = "RMr" /\ dag[n].ext = "sext" THEN "b" ELSE SizeSuffix(n)
           ext == CASE Extension(n) = "sx" -> "sext"
                    [] Extension(n) # "sx" /\ size # "-" -> "zext"
                    [] OTHER -> "none"
<1>1. dag[n].vt = 1 \/ dag[n].vt = 2 \/ dag[n].vt = 4 BY DEF Extended, Widths
<1>2. Bytes(size) = dag[n].vt
  <2>1. CASE dag[n].op = "RMr" /\ dag[n].ext = "sext"
    <3>1. dag[n].vt = 1 BY <1>1, <2>1 DEF Extended
    <3> QED BY <2>1, <3>1 DEF Bytes
  <2>2. CASE ~(dag[n].op = "RMr" /\ dag[n].ext = "sext")
    BY <2>2, SuffixGivesWidth DEF Extended
  <2> QED BY <2>1, <2>2
<1>3. ext = dag[n].ext
  <2>1. CASE dag[n].ext = "sext"
    BY <2>1 DEF Extension
  <2>2. CASE dag[n].ext = "zext"
    <3>1. dag[n].vt = 1 \/ dag[n].vt = 2 BY <1>1, <2>2 DEF Extended
    <3>2. size # "-" BY <2>2, <3>1 DEF SizeSuffix
    <3>3. Extension(n) # "sx" BY <2>2 DEF Extension
    <3> QED BY <2>2, <3>2, <3>3
  <2>3. CASE dag[n].ext = "none"
    <3>1. dag[n].vt = 4 BY <2>3 DEF Extended
    <3>2. size = "-" BY <2>3, <3>1 DEF SizeSuffix
    <3>3. Extension(n) # "sx" BY <2>3 DEF Extension
    <3> QED BY <2>3, <3>2, <3>3
  <2> QED BY <2>1, <2>2, <2>3 DEF Extended, Extensions
<1>4. Mnemonic(n) = <<name, Extension(n), size>> BY DEF Mnemonic
<1>5. ReadLine(EmitInstruction(n)) =
        [alu |-> name, bytes |-> Bytes(size), ext |-> ext, from |-> {AddressMeant(n)},
         to |-> {}, dst |-> <<Destination(n)>>, src |-> <<>>]
  <2> HIDE DEF name, size
  <2>1. PICK x : x = Extension(n) OBVIOUS
  <2>2. PICK d : d = Destination(n) OBVIOUS
  <2>3. PICK a : a = AddressMeant(n) OBVIOUS
  <2>4. PICK w : w = name OBVIOUS
  <2>5. PICK z : z = size OBVIOUS
  <2>6. ReadAddress(o) = {a} BY <2>3
  <2>7. ReadLine(LoadLine(w, x, z, d, o)) = LoadSaid(w, x, z, d, a) BY <2>6, ReadsLoad
  <2>8. EmitInstruction(n) = LoadLine(w, x, z, d, o)
    BY <1>4, <2>1, <2>2, <2>4, <2>5 DEF LoadLine
  <2>9. LoadSaid(w, x, z, d, a) =
          [alu |-> name, bytes |-> Bytes(size), ext |-> ext, from |-> {AddressMeant(n)},
           to |-> {}, dst |-> <<Destination(n)>>, src |-> <<>>]
    BY <2>1, <2>2, <2>3, <2>4, <2>5 DEF LoadSaid
  <2> QED BY <2>7, <2>8, <2>9
<1>6. Meaning(n) =
        [alu |-> name, bytes |-> dag[n].vt, ext |-> dag[n].ext, from |-> {AddressMeant(n)},
         to |-> {}, dst |-> <<Destination(n)>>, src |-> <<>>]
  BY DEF Meaning, AddressMeant, Destination, Loads, Stores
<1> HIDE DEF name, size, ext
<1> QED BY <1>2, <1>3, <1>5, <1>6 DEF ReadsBack

\* So is a store.
LEMMA StoreReadsBack ==
    ASSUME NEW n, dag[n].op \in Stores, Plain(dag[n]),
           NEW o, ReadAddress(o) = {AddressMeant(n)},
           EmitInstruction(n) = <<Mnemonic(n)>> \o <<o, <<RegisterToken(dag[n].ops[2])>>>>
    PROVE  ReadsBack(n)
<1> DEFINE name == IF HasOp(n) THEN dag[n].alu ELSE "MOV"
<1>1. Extension(n) # "sx" BY DEF Plain, Extension
<1>2. Mnemonic(n) = <<name, Extension(n), SizeSuffix(n)>> BY DEF Mnemonic, Stores
<1>3. Bytes(SizeSuffix(n)) = dag[n].vt BY SuffixGivesWidth DEF Plain
<1>4. ReadLine(EmitInstruction(n)) =
        [alu |-> name, bytes |-> Bytes(SizeSuffix(n)), ext |-> "none", from |-> {},
         to |-> {AddressMeant(n)}, dst |-> <<>>, src |-> <<RegisterToken(dag[n].ops[2])>>]
  <2> HIDE DEF name
  <2>1. PICK x : x = Extension(n) OBVIOUS
  <2>2. PICK d : d = RegisterToken(dag[n].ops[2]) OBVIOUS
  <2>3. PICK a : a = AddressMeant(n) OBVIOUS
  <2>4. PICK z : z = SizeSuffix(n) OBVIOUS
  <2>5. PICK w : w = name OBVIOUS
  <2>6. ReadAddress(o) = {a} /\ x # "sx" BY <1>1, <2>1, <2>3
  <2>7. ReadLine(StoreLine(w, x, z, d, o)) = StoreSaid(w, z, d, a) BY <2>6, ReadsStore
  <2>8. EmitInstruction(n) = StoreLine(w, x, z, d, o)
    BY <1>2, <2>1, <2>2, <2>4, <2>5 DEF StoreLine
  <2>9. StoreSaid(w, z, d, a) =
          [alu |-> name, bytes |-> Bytes(SizeSuffix(n)), ext |-> "none", from |-> {},
           to |-> {AddressMeant(n)}, dst |-> <<>>, src |-> <<RegisterToken(dag[n].ops[2])>>]
    BY <2>2, <2>3, <2>4, <2>5 DEF StoreSaid
  <2> QED BY <2>7, <2>8, <2>9
<1>5. dag[n].op \notin Symbols /\ dag[n].op # "RR" BY DEF Stores, Symbols
<1>6. Meaning(n) =
        [alu |-> name, bytes |-> dag[n].vt, ext |-> "none", from |-> {},
         to |-> {AddressMeant(n)}, dst |-> <<>>, src |-> <<RegisterToken(dag[n].ops[2])>>]
  BY <1>5 DEF Meaning, AddressMeant, Loads, Stores
<1> HIDE DEF name
<1> QED BY <1>3, <1>4, <1>6 DEF ReadsBack

LEMMA ThreeOfOneOneTwo ==
    ASSUME NEW a, NEW b, NEW c
    PROVE  <<a>> \o <<>> \o <<b, c>> = <<a, b, c>>
<1>1. <<a>> \o <<>> = <<a>> OBVIOUS
<1>2. <<a>> \o <<b, c>> = <<a, b, c>>
  <2>1. a \in {a, b, c} /\ b \in {a, b, c} /\ c \in {a, b, c} OBVIOUS
  <2> QED BY <2>1, OneAndTwo
<1> QED BY <1>1, <1>2

LEMMA FourOfOneOneTwo ==
    ASSUME NEW a, NEW b, NEW c
    PROVE  <<a>> \o <<a>> \o <<b, c>> = <<a, a, b, c>>
<1> DEFINE S == {a, b, c}
           u == <<a, a>>
           s == <<b, c>>
           r == <<a, a, b, c>>
<1>1. a \in S OBVIOUS
<1>2. u \in Seq(S) /\ Len(u) = 2 /\ u[1] = a /\ u[2] = a OBVIOUS
<1>3. s \in Seq(S) /\ Len(s) = 2 /\ s[1] = b /\ s[2] = c OBVIOUS
<1>4. r \in Seq(S) /\ Len(r) = 4 /\ r[1] = a /\ r[2] = a /\ r[3] = b /\ r[4] = c OBVIOUS
<1> HIDE DEF S, u, s, r
<1>5. <<a>> \o <<a>> = u BY <1>1, OneAndOne DEF u
<1>6. /\ u \o s \in Seq(S) /\ Len(u \o s) = Len(u) + Len(s)
      /\ \A i \in 1 .. Len(u) + Len(s) : (u \o s)[i] = IF i <= Len(u) THEN u[i] ELSE s[i - Len(u)]
  BY <1>2, <1>3, ConcatProperties
<1>7. \A i \in 1 .. 4 : (u \o s)[i] = r[i] BY <1>2, <1>3, <1>4, <1>6
<1>8. u \o s = r BY <1>2, <1>3, <1>4, <1>6, <1>7, SeqEqual
<1> QED BY <1>5, <1>8 DEF r, s

\* The address meant, put together the way lines are read.
LEMMA PlainAddress ==
    ASSUME NEW n, dag[n].op \in {"RM", "RMr", "MR", "MRr"}
    PROVE  At(RegisterToken(Base(n)), dag[n].imm) = {AddressMeant(n)}
<1>1. dag[n].op \notin {"RM_POST", "MR_POST"} /\ dag[n].op \notin {"RMA", "MAR"} OBVIOUS
<1>2. (dag[n].op \in {"RM_POST", "MR_POST"}) = FALSE BY <1>1
<1>3. AddressMeant(n) = [base |-> RegisterToken(Base(n)), disp |-> dag[n].imm, post |-> FALSE]
  BY <1>1, <1>2, Zenon DEF AddressMeant
<1> QED BY <1>3 DEF At

LEMMA PostAddress ==
    ASSUME NEW n, dag[n].op \in {"RM_POST", "MR_POST"}, dag[n].imm = 0
    PROVE  PostAt(RegisterToken(Base(n))) = {AddressMeant(n)}
<1>1. dag[n].op \in {"RM_POST", "MR_POST"} /\ dag[n].op \notin {"RMA", "MAR"} OBVIOUS
<1>2. (dag[n].op \in {"RM_POST", "MR_POST"}) = TRUE BY <1>1
<1>3. AddressMeant(n) = [base |-> RegisterToken(Base(n)), disp |-> 0, post |-> TRUE]
  BY <1>1, <1>2, Zenon DEF AddressMeant
<1> QED BY <1>3 DEF PostAt

LEMMA NameAddress ==
    ASSUME NEW n, dag[n].op \in {"RMA", "MAR"}, dag[n].imm = 0
    PROVE  At(<<"name", Label(Base(n)[1])>>, 0) = {AddressMeant(n)}
<1>1. dag[n].op \in {"RMA", "MAR"} /\ dag[n].op \notin {"RM_POST", "MR_POST"} OBVIOUS
<1>2. (dag[n].op \in {"RM_POST", "MR_POST"}) = FALSE BY <1>1
<1>3. AddressMeant(n) = [base |-> <<"name", Label(Base(n)[1])>>, disp |-> 0, post |-> FALSE]
  BY <1>1, <1>2, Zenon DEF AddressMeant
<1> QED BY <1>3 DEF At

LEMMA NoSymbol ==
    \A n : dag[n].op \in Instructions \cup {"RR"} => dag[n].op \notin Symbols
BY DEF Instructions, Loads, Stores, Symbols

\* Only arithmetic with post-increment may have another register for $Rd.
LEMMA OthersAreTied == ASSUME NEW n, dag[n].op # "RM_POST" PROVE n \notin Untied
BY DEF Untied, PostArithmetic

\* rd, op word ptr [base + disp]
LEMMA MemoryLoadReadsBack ==
    ASSUME NEW n, Shaped(dag[n]), dag[n].op = "RM", Base(n) # NoRegister
    PROVE  ReadsBack(n)
<1> DEFINE rd == Destination(n)
           rb == RegisterToken(Base(n))
           k == Number(dag[n].imm)
           mc == Lower(n)
<1>1. rd = LowerOperand(rd) /\ rb = LowerOperand(rb) /\ k = LowerOperand(k)
  BY RegistersStay, NumbersStay DEF Destination
<1>2. MachineOperands(n) = <<rd>> \o (IF HasOp(n) THEN <<rd>> ELSE <<>>) \o <<rb, k>>
  BY NoSymbol, OthersAreTied DEF MachineOperands, Destination, Instructions, Loads
<1> HIDE DEF rd, rb, k, mc
<1>3. /\ Len(mc) \in {3, 4} /\ mc[1] = rd
      /\ mc[Len(mc) - 1] = rb /\ mc[Len(mc)] = k
  <2>1. CASE HasOp(n)
    <3>1. MachineOperands(n) = <<rd, rd, rb, k>> BY <1>2, <2>1, FourOfOneOneTwo
    <3>2. mc = <<rd, rd, rb, k>> BY <1>1, <3>1, LowersFour DEF mc
    <3>3. Len(mc) = 4 /\ mc[1] = rd /\ mc[3] = rb /\ mc[4] = k BY <3>2
    <3> QED BY <3>3
  <2>2. CASE ~HasOp(n)
    <3>1. MachineOperands(n) = <<rd, rb, k>> BY <1>2, <2>2, ThreeOfOneOneTwo
    <3>2. mc = <<rd, rb, k>> BY <1>1, <3>1, LowersThree DEF mc
    <3>3. Len(mc) = 3 /\ mc[1] = rd /\ mc[2] = rb /\ mc[3] = k BY <3>2
    <3> QED BY <3>3
  <2> QED BY <2>1, <2>2
<1>4. PICK at : at = Len(mc) - 1 OBVIOUS
<1>5. at \in Nat /\ mc[at] = rb /\ mc[at + 1] = k BY <1>3, <1>4
<1>6. EmitInstruction(n) = <<Mnemonic(n)>> \o <<<<rd>>, PrintMemOperand(mc, at)>>
  BY <1>3, <1>4 DEF EmitInstruction, PrintInstruction, PrintOperand, mc
<1>7. ReadAddress(PrintMemOperand(mc, at)) = At(rb, dag[n].imm)
  BY <1>5, ReadsMemOperand DEF rb, k
<1>8. At(rb, dag[n].imm) = {AddressMeant(n)} BY PlainAddress DEF rb
<1>9. Extended(dag[n]) /\ dag[n].op \in Loads /\ dag[n].ext # "any" BY DEF Shaped, Loads
<1>10. PICK o : o = PrintMemOperand(mc, at) OBVIOUS
<1> QED BY <1>6, <1>7, <1>8, <1>9, <1>10, LoadReadsBack DEF rd

\* [base + disp] op rs
LEMMA MemoryStoreReadsBack ==
    ASSUME NEW n, Shaped(dag[n]), dag[n].op = "MR", Base(n) # NoRegister
    PROVE  ReadsBack(n)
<1> DEFINE rs == RegisterToken(dag[n].ops[2])
           rb == RegisterToken(Base(n))
           k == Number(dag[n].imm)
           mc == Lower(n)
<1>1. rs = LowerOperand(rs) /\ rb = LowerOperand(rb) /\ k = LowerOperand(k)
  BY RegistersStay, NumbersStay
<1>2. MachineOperands(n) = <<rb, k, rs>> BY NoSymbol DEF MachineOperands, Instructions, Stores
<1> HIDE DEF rs, rb, k, mc
<1>3. mc = <<rb, k, rs>> BY <1>1, <1>2, LowersThree DEF mc
<1>4. mc[1] = rb /\ mc[1 + 1] = k /\ mc[3] = rs BY <1>3
<1>5. EmitInstruction(n) = <<Mnemonic(n)>> \o <<PrintMemOperand(mc, 1), <<rs>>>>
  BY <1>4 DEF EmitInstruction, PrintInstruction, PrintOperand, mc
<1>6. ReadAddress(PrintMemOperand(mc, 1)) = At(rb, dag[n].imm)
  BY <1>4, ReadsMemOperand DEF rb, k
<1>7. At(rb, dag[n].imm) = {AddressMeant(n)} BY PlainAddress DEF rb
<1>8. Plain(dag[n]) /\ dag[n].op \in Stores BY DEF Shaped, Stores
<1>9. PICK o : o = PrintMemOperand(mc, 1) OBVIOUS
<1> QED BY <1>5, <1>6, <1>7, <1>8, <1>9, StoreReadsBack DEF rs

\* rd, [rb]
LEMMA RegisterLoadReadsBack ==
    ASSUME NEW n, Shaped(dag[n]), dag[n].op = "RMr",
           ~(dag[n].ext = "sext" /\ dag[n].vt = 2)
    PROVE  ReadsBack(n)
<1> DEFINE rd == Destination(n)
           rb == RegisterToken(Base(n))
           mc == Lower(n)
<1>1. rd = LowerOperand(rd) /\ rb = LowerOperand(rb) BY RegistersStay DEF Destination
<1>2. MachineOperands(n) = <<rd, rb>>
  BY NoSymbol, OthersAreTied DEF MachineOperands, Destination, Instructions, Loads
<1>3. rb[1] = "register" BY DEF RegisterToken
<1> HIDE DEF rd, rb, mc
<1>4. mc = <<rd, rb>> BY <1>1, <1>2, LowersTwo DEF mc
<1>5. mc[1] = rd /\ mc[2] = rb BY <1>4
<1>6. EmitInstruction(n) = <<Mnemonic(n)>> \o <<<<rd>>, Bracket(rb)>>
  BY <1>5 DEF EmitInstruction, PrintInstruction, PrintOperand, mc
<1>7. ReadAddress(Bracket(rb)) = At(rb, 0) BY <1>3, ReadsBase
<1>8. dag[n].imm = 0 BY DEF Shaped
<1>9. At(rb, 0) = {AddressMeant(n)} BY <1>8, PlainAddress DEF rb
<1>10. Extended(dag[n]) /\ dag[n].op \in Loads /\ dag[n].ext # "any" BY DEF Shaped, Loads
<1>11. PICK o : o = Bracket(rb) OBVIOUS
<1> QED BY <1>6, <1>7, <1>9, <1>10, <1>11, LoadReadsBack DEF rd

\* [rb], rs
LEMMA RegisterStoreReadsBack ==
    ASSUME NEW n, Shaped(dag[n]), dag[n].op = "MRr"
    PROVE  ReadsBack(n)
<1> DEFINE rs == RegisterToken(dag[n].ops[2])
           rb == RegisterToken(Base(n))
           mc == Lower(n)
<1>1. rs = LowerOperand(rs) /\ rb = LowerOperand(rb) BY RegistersStay
<1>2. MachineOperands(n) = <<rb, rs>> BY NoSymbol DEF MachineOperands, Instructions, Stores
<1>3. rb[1] = "register" BY DEF RegisterToken
<1> HIDE DEF rs, rb, mc
<1>4. mc = <<rb, rs>> BY <1>1, <1>2, LowersTwo DEF mc
<1>5. mc[1] = rb /\ mc[2] = rs BY <1>4
<1>6. EmitInstruction(n) = <<Mnemonic(n)>> \o <<Bracket(rb), <<rs>>>>
  BY <1>5 DEF EmitInstruction, PrintInstruction, PrintOperand, mc
<1>7. ReadAddress(Bracket(rb)) = At(rb, 0) BY <1>3, ReadsBase
<1>8. dag[n].imm = 0 BY DEF Shaped
<1>9. At(rb, 0) = {AddressMeant(n)} BY <1>8, PlainAddress DEF rb
<1>10. Plain(dag[n]) /\ dag[n].op \in Stores BY DEF Shaped, Stores
<1>11. PICK o : o = Bracket(rb) OBVIOUS
<1> QED BY <1>6, <1>7, <1>9, <1>10, <1>11, StoreReadsBack DEF rs

\* A global is called in an access what its label says.
LEMMA GlobalsNamedRight ==
    ASSUME NEW n, Named(n), dag[n].op \in {"RMA", "MAR"}
    PROVE  LowerOperand(<<"symbol", Base(n)[1]>>) = <<"name", Label(Base(n)[1])>>
<1>1. dag[Base(n)[1]].op # "JT" BY DEF Named
<1>2. SymbolName(Base(n)[1]) = Label(Base(n)[1]) BY <1>1 DEF SymbolName, Label
<1>3. <<"symbol", Base(n)[1]>>[1] = "symbol" /\ <<"symbol", Base(n)[1]>>[2] = Base(n)[1] OBVIOUS
<1> QED BY <1>2, <1>3 DEF LowerOperand

\* rd, [name]
LEMMA NameLoadReadsBack ==
    ASSUME NEW n, Shaped(dag[n]), Named(n), dag[n].op = "RMA"
    PROVE  ReadsBack(n)
<1> DEFINE rd == Destination(n)
           s == <<"symbol", Base(n)[1]>>
           t == <<"name", Label(Base(n)[1])>>
           mc == Lower(n)
<1>1. rd = LowerOperand(rd) /\ t = LowerOperand(s)
  BY RegistersStay, GlobalsNamedRight DEF Destination
<1>2. MachineOperands(n) = <<rd, s>>
  BY NoSymbol, OthersAreTied DEF MachineOperands, Destination, Instructions, Loads
<1>3. t[1] = "name" OBVIOUS
<1> HIDE DEF rd, s, t, mc
<1>4. mc = <<rd, t>> BY <1>1, <1>2, LowersTwo DEF mc
<1>5. mc[1] = rd /\ mc[2] = t BY <1>4
<1>6. EmitInstruction(n) = <<Mnemonic(n)>> \o <<<<rd>>, Bracket(t)>>
  BY <1>5 DEF EmitInstruction, PrintInstruction, PrintOperand, mc
<1>7. ReadAddress(Bracket(t)) = At(t, 0) BY <1>3, ReadsBase
<1>8. dag[n].imm = 0 BY DEF Shaped
<1>9. At(t, 0) = {AddressMeant(n)} BY <1>8, NameAddress DEF t
<1>10. Extended(dag[n]) /\ dag[n].op \in Loads /\ dag[n].ext # "any" BY DEF Shaped, Loads
<1>11. PICK o : o = Bracket(t) OBVIOUS
<1> QED BY <1>6, <1>7, <1>9, <1>10, <1>11, LoadReadsBack DEF rd

\* [name], rs
LEMMA NameStoreReadsBack ==
    ASSUME NEW n, Shaped(dag[n]), Named(n), dag[n].op = "MAR"
    PROVE  ReadsBack(n)
<1> DEFINE rs == RegisterToken(dag[n].ops[2])
           s == <<"symbol", Base(n)[1]>>
           t == <<"name", Label(Base(n)[1])>>
           mc == Lower(n)
<1>1. rs = LowerOperand(rs) /\ t = LowerOperand(s) BY RegistersStay, GlobalsNamedRight
<1>2. MachineOperands(n) = <<s, rs>> BY NoSymbol DEF MachineOperands, Instructions, Stores
<1>3. t[1] = "name" OBVIOUS
<1> HIDE DEF rs, s, t, mc
<1>4. mc = <<t, rs>> BY <1>1, <1>2, LowersTwo DEF mc
<1>5. mc[1] = t /\ mc[2] = rs BY <1>4
<1>6. EmitInstruction(n) = <<Mnemonic(n)>> \o <<Bracket(t), <<rs>>>>
  BY <1>5 DEF EmitInstruction, PrintInstruction, PrintOperand, mc
<1>7. ReadAddress(Bracket(t)) = At(t, 0) BY <1>3, ReadsBase
<1>8. dag[n].imm = 0 BY DEF Shaped
<1>9. At(t, 0) = {AddressMeant(n)} BY <1>8, NameAddress DEF t
<1>10. Plain(dag[n]) /\ dag[n].op \in Stores BY DEF Shaped, Stores
<1>11. PICK o : o = Bracket(t) OBVIOUS
<1> QED BY <1>6, <1>7, <1>9, <1>10, <1>11, StoreReadsBack DEF rs

LEMMA FourOfTwoOneOne ==
    ASSUME NEW a, NEW b
    PROVE  <<a, b>> \o <<a>> \o <<b>> = <<a, b, a, b>>
<1> DEFINE S == {a, b}
           u == <<a, b, a>>
           s == <<b>>
           r == <<a, b, a, b>>
<1>1. a \in S /\ b \in S OBVIOUS
<1>2. u \in Seq(S) /\ Len(u) = 3 /\ u[1] = a /\ u[2] = b /\ u[3] = a OBVIOUS
<1>3. s \in Seq(S) /\ Len(s) = 1 /\ s[1] = b OBVIOUS
<1>4. r \in Seq(S) /\ Len(r) = 4 /\ r[1] = a /\ r[2] = b /\ r[3] = a /\ r[4] = b OBVIOUS
<1> HIDE DEF S, u, s, r
<1>5. <<a, b>> \o <<a>> = u BY <1>1, TwoAndOne DEF u
<1>6. /\ u \o s \in Seq(S) /\ Len(u \o s) = Len(u) + Len(s)
      /\ \A i \in 1 .. Len(u) + Len(s) : (u \o s)[i] = IF i <= Len(u) THEN u[i] ELSE s[i - Len(u)]
  BY <1>2, <1>3, ConcatProperties
<1>7. \A i \in 1 .. 4 : (u \o s)[i] = r[i] BY <1>2, <1>3, <1>4, <1>6
<1>8. u \o s = r BY <1>2, <1>3, <1>4, <1>6, <1>7, SeqEqual
<1> QED BY <1>5, <1>8 DEF r, s

LEMMA ThreeOfTwoOneOne ==
    ASSUME NEW a, NEW b
    PROVE  <<a, b>> \o <<>> \o <<b>> = <<a, b, b>>
<1>1. <<a, b>> \o <<>> = <<a, b>> OBVIOUS
<1>2. <<a, b>> \o <<b>> = <<a, b, b>>
  <2>1. a \in {a, b} /\ b \in {a, b} OBVIOUS
  <2> QED BY <2>1, TwoAndOne
<1> QED BY <1>1, <1>2

\* rd, op [rb]+
LEMMA PostLoadReadsBack ==
    ASSUME NEW n, Shaped(dag[n]), dag[n].op = "RM_POST", n \notin Untied
    PROVE  ReadsBack(n)
<1> DEFINE rd == Destination(n)
           rb == RegisterToken(Base(n))
           mc == Lower(n)
<1>1. rd = LowerOperand(rd) /\ rb = LowerOperand(rb) BY RegistersStay DEF Destination
<1>2. MachineOperands(n) = <<rd, rb>> \o (IF HasOp(n) THEN <<rd>> ELSE <<>>) \o <<rb>>
  BY NoSymbol DEF MachineOperands, Destination, Instructions, Loads
<1>3. rb[1] = "register" BY DEF RegisterToken
<1> HIDE DEF rd, rb, mc
<1>4. mc[1] = rd /\ mc[Len(mc)] = rb
  <2>1. CASE HasOp(n)
    <3>1. MachineOperands(n) = <<rd, rb, rd, rb>> BY <1>2, <2>1, FourOfTwoOneOne
    <3>2. mc = <<rd, rb, rd, rb>> BY <1>1, <3>1, LowersFour DEF mc
    <3>3. Len(mc) = 4 /\ mc[1] = rd /\ mc[4] = rb BY <3>2
    <3> QED BY <3>3
  <2>2. CASE ~HasOp(n)
    <3>1. MachineOperands(n) = <<rd, rb, rb>> BY <1>2, <2>2, ThreeOfTwoOneOne
    <3>2. mc = <<rd, rb, rb>> BY <1>1, <3>1, LowersThree DEF mc
    <3>3. Len(mc) = 3 /\ mc[1] = rd /\ mc[3] = rb BY <3>2
    <3> QED BY <3>3
  <2> QED BY <2>1, <2>2
<1>5. EmitInstruction(n) = <<Mnemonic(n)>> \o <<<<rd>>, Append(Bracket(rb), Plus)>>
  BY <1>4 DEF EmitInstruction, PrintInstruction, PrintOperand, mc
<1>6. ReadAddress(Append(Bracket(rb), Plus)) = PostAt(rb) BY <1>3, ReadsPost
<1>7. dag[n].imm = 0 BY DEF Shaped
<1>8. PostAt(rb) = {AddressMeant(n)} BY <1>7, PostAddress DEF rb
<1>9. Extended(dag[n]) /\ dag[n].op \in Loads /\ dag[n].ext # "any" BY DEF Shaped, Loads
<1>10. PICK o : o = Append(Bracket(rb), Plus) OBVIOUS
<1> QED BY <1>5, <1>6, <1>8, <1>9, <1>10, LoadReadsBack DEF rd

\* [rb]+ op rs
LEMMA PostStoreReadsBack ==
    ASSUME NEW n, Shaped(dag[n]), dag[n].op = "MR_POST"
    PROVE  ReadsBack(n)
<1> DEFINE rs == RegisterToken(dag[n].ops[2])
           rb == RegisterToken(Base(n))
           mc == Lower(n)
<1>1. rs = LowerOperand(rs) /\ rb = LowerOperand(rb) BY RegistersStay
<1>2. MachineOperands(n) = <<rb, rb, rs>> BY NoSymbol DEF MachineOperands, Instructions, Stores
<1>3. rb[1] = "register" BY DEF RegisterToken
<1> HIDE DEF rs, rb, mc
<1>4. mc = <<rb, rb, rs>> BY <1>1, <1>2, LowersThree DEF mc
<1>5. mc[2] = rb /\ mc[3] = rs BY <1>4
<1>6. EmitInstruction(n) = <<Mnemonic(n)>> \o <<Append(Bracket(rb), Plus), <<rs>>>>
  BY <1>5 DEF EmitInstruction, PrintInstruction, PrintOperand, mc
<1>7. ReadAddress(Append(Bracket(rb), Plus)) = PostAt(rb) BY <1>3, ReadsPost
<1>8. dag[n].imm = 0 BY DEF Shaped
<1>9. PostAt(rb) = {AddressMeant(n)} BY <1>8, PostAddress DEF rb
<1>10. Plain(dag[n]) /\ dag[n].op \in Stores BY DEF Shaped, Stores
<1>11. PICK o : o = Append(Bracket(rb), Plus) OBVIOUS
<1> QED BY <1>6, <1>7, <1>9, <1>10, <1>11, StoreReadsBack DEF rs

\* A line of registers, or of a register and a constant or name.
LEMMA RegistersReadBack ==
    ASSUME NEW n, NEW s, dag[n].vt = 0, dag[n].ext = "none", dag[n].op \in {"RR"} \cup Symbols,
           EmitInstruction(n) = <<Mnemonic(n)>> \o <<<<Destination(n)>>, <<s>>>>,
           Meaning(n).src = <<s>>
    PROVE  ReadsBack(n)
<1> DEFINE name == IF HasOp(n) THEN dag[n].alu ELSE "MOV"
<1>1. Extension(n) = "-" /\ SizeSuffix(n) = "-" BY DEF Extension, SizeSuffix
<1>2. dag[n].op \notin Loads /\ dag[n].op \notin Stores BY DEF Loads, Stores, Symbols
<1>3. Mnemonic(n) = <<name, "-", "-">> BY <1>1 DEF Mnemonic
<1>4. Meaning(n) = RegisterSaid(name, Destination(n), s)
  BY <1>2 DEF Meaning, Destination, RegisterSaid
<1> HIDE DEF name
<1>5. PICK w : w = name OBVIOUS
<1>6. PICK d : d = Destination(n) OBVIOUS
<1>7. PICK x : x = Extension(n) OBVIOUS
<1>8. x # "sx" /\ EmitInstruction(n) = RegisterLine(w, x, d, s)
  BY <1>1, <1>3, <1>5, <1>6, <1>7 DEF RegisterLine
<1>9. ReadLine(RegisterLine(w, x, d, s)) = RegisterSaid(w, d, s) BY <1>8, ReadsRegisters
<1> QED BY <1>4, <1>5, <1>6, <1>8, <1>9 DEF ReadsBack

\* op rd, rs or op rd, imm
LEMMA BinaryReadsBack ==
    ASSUME NEW n, Shaped(dag[n]), dag[n].op = "RR"
    PROVE  ReadsBack(n)
<1> DEFINE rd == Destination(n)
           v == dag[n].ops[2]
           s == IF dag[v[1]].op = "CONST" THEN Number(dag[v[1]].imm) ELSE RegisterToken(v)
           mc == Lower(n)
<1>1. rd = LowerOperand(rd) /\ s = LowerOperand(s)
  BY RegistersStay, NumbersStay DEF Destination
<1>2. MachineOperands(n) = <<rd, rd, s>> BY NoSymbol, OthersAreTied DEF MachineOperands, Destination
<1>3. Meaning(n).src = <<s>> BY NoSymbol DEF Meaning, Loads
<1> HIDE DEF rd, v, s, mc
<1>4. mc = <<rd, rd, s>> BY <1>1, <1>2, LowersThree DEF mc
<1>5. mc[1] = rd /\ Len(mc) = 3 /\ mc[3] = s BY <1>4
<1>6. EmitInstruction(n) = <<Mnemonic(n)>> \o <<<<rd>>, <<s>>>>
  BY <1>5 DEF EmitInstruction, PrintInstruction, PrintOperand, mc
<1>7. dag[n].vt = 0 /\ dag[n].ext = "none" BY DEF Shaped
<1> QED BY <1>3, <1>6, <1>7, RegistersReadBack DEF rd

\* mov rd, name
LEMMA SymbolReadsBack ==
    ASSUME NEW n, Shaped(dag[n]), dag[n].op \in Symbols, dag[n].op # "JT"
    PROVE  ReadsBack(n)
<1> DEFINE rd == Destination(n)
           a == <<"symbol", n>>
           s == <<"name", Label(n)>>
           mc == Lower(n)
<1>1. SymbolName(n) = Label(n) BY DEF SymbolName, Label
<1>2. rd = LowerOperand(rd) BY RegistersStay DEF Destination
<1>3. s = LowerOperand(a)
  <2>1. a[1] = "symbol" /\ a[2] = n OBVIOUS
  <2> QED BY <1>1, <2>1 DEF LowerOperand
<1>4. dag[n].op \notin Instructions \cup {"RR"} BY NoSymbol
<1>5. MachineOperands(n) = <<rd, a>>
  BY <1>4, OthersAreTied DEF MachineOperands, Destination, Instructions, Loads, Stores
<1>6. Meaning(n).src = <<s>> BY <1>4 DEF Meaning, Instructions
<1> HIDE DEF rd, a, s, mc
<1>7. mc = <<rd, s>> BY <1>2, <1>3, <1>5, LowersTwo DEF mc
<1>8. mc[1] = rd /\ Len(mc) = 2 /\ mc[2] = s BY <1>7
<1>9. EmitInstruction(n) = <<Mnemonic(n)>> \o <<<<rd>>, <<s>>>>
  BY <1>4, <1>8 DEF EmitInstruction, PrintInstruction, PrintOperand, mc, Instructions, Loads, Stores
<1>10. dag[n].vt = 0 /\ dag[n].ext = "none" BY DEF Shaped
<1> QED BY <1>6, <1>9, <1>10, RegistersReadBack DEF rd

\* So but for those known to be misprinted every instruction is read back.
LEMMA PrintedReadsBack ==
    ASSUME \A n \in Nodes : Shaped(dag[n]) /\ Named(n), NEW n \in Printed
    PROVE  Misprinted(n) \/ ReadsBack(n)
<1>1. n \in Nodes BY DEF Printed, Memory, SymbolMoves, Live
<1>2. dag[n].op \in Instructions \cup {"RR"} \cup Symbols BY DEF Printed, Memory, SymbolMoves
<1>3. Shaped(dag[n]) /\ Named(n) BY <1>1
<1> SUFFICES ASSUME ~Misprinted(n) PROVE ReadsBack(n) OBVIOUS
<1>4. /\ dag[n].op = "RMr" => ~(dag[n].ext = "sext" /\ dag[n].vt = 2)
      /\ dag[n].op \in {"RM", "MR"} => Base(n) # NoRegister
      /\ dag[n].op # "JT"
      /\ n \notin Untied
  BY DEF Misprinted
<1>5. CASE dag[n].op = "RM" BY <1>3, <1>4, <1>5, MemoryLoadReadsBack
<1>6. CASE dag[n].op = "RMr" BY <1>3, <1>4, <1>6, RegisterLoadReadsBack
<1>7. CASE dag[n].op = "RMA" BY <1>3, <1>7, NameLoadReadsBack
<1>8. CASE dag[n].op = "RM_POST" BY <1>3, <1>4, <1>8, PostLoadReadsBack
<1>9. CASE dag[n].op = "MR" BY <1>3, <1>4, <1>9, MemoryStoreReadsBack
<1>10. CASE dag[n].op = "MRr" BY <1>3, <1>10, RegisterStoreReadsBack
<1>11. CASE dag[n].op = "MAR" BY <1>3, <1>11, NameStoreReadsBack
<1>12. CASE dag[n].op = "MR_POST" BY <1>3, <1>12, PostStoreReadsBack
<1>13. CASE dag[n].op = "RR" BY <1>3, <1>13, BinaryReadsBack
<1>14. CASE dag[n].op \in Symbols BY <1>3, <1>4, <1>14, SymbolReadsBack
<1> QED
  BY <1>2, <1>5, <1>6, <1>7, <1>8, <1>9, <1>10, <1>11, <1>12, <1>13, <1>14
  DEF Instructions, Loads, Stores

-----------------------------------------------------------------------------
\* The assembler reads every line back, at any time, but those of the
\* instructions of one of the four kinds that are misprinted
\* (PrintInstruction, PrintMemOperand, the classes of KudeyarInstrInfo.td).
THEOREM EveryLineReadsBack ==
    Spec => [](\A n \in Printed : Misprinted(n) \/ ReadLine(EmitInstruction(n)) = Meaning(n))
<1>1. FormInv => \A n \in Printed : Misprinted(n) \/ ReadLine(EmitInstruction(n)) = Meaning(n)
  <2> SUFFICES ASSUME FormInv, NEW n \in Printed PROVE Misprinted(n) \/ ReadsBack(n)
    BY DEF ReadsBack
  <2>1. ASSUME NEW m \in Nodes PROVE Shaped(dag[m]) /\ Named(m)
    <3>1. Shaped(dag[m]) /\ Names(dag, dag[m]) BY NodesOfGraph
    <3>2. dag[m].op \in {"RMA", "MAR"} => Base(m) = dag[m].ops[1]
      <4> SUFFICES ASSUME dag[m].op \in {"RMA", "MAR"} PROVE Base(m) = dag[m].ops[1] OBVIOUS
      <4>1. ~HasOp(m) BY <3>1 DEF HasOp, Shaped
      <4> QED BY <4>1 DEF Base
    <3> QED BY <3>1, <3>2 DEF Names, Named
  <2> QED BY <2>1, PrintedReadsBack
<1> QED BY <1>1, FormInvHolds, PTL

(* Where no other kind of those instructions is printed, the text says what *)
(* was selected, but for the arithmetic with post-increment whose $Rd is    *)
(* not the register of its source (KudeyarInstrInfo.td:229-237).           *)
THEOREM TextCorrect ==
    Spec => []((\A n \in Printed \ Untied : ~Misprinted(n)) => TextReadsBack)
<1>1. (\A n \in Printed : Misprinted(n) \/ ReadLine(EmitInstruction(n)) = Meaning(n))
      => ((\A n \in Printed \ Untied : ~Misprinted(n)) => TextReadsBack)
  BY DEF TextReadsBack
<1> QED BY <1>1, EveryLineReadsBack, PTL

=============================================================================
