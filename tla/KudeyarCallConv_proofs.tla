------------------------ MODULE KudeyarCallConv_proofs ------------------------
(***************************************************************************)
(* Proofs about KudeyarCallConv, for every set of calls that satisfies the *)
(* assumption there: any number of operands, blocks of any size and        *)
(* alignment, any number of variable arguments and words of result.        *)
(***************************************************************************)
EXTENDS KudeyarCallConv, SequenceTheorems, TLAPS

-----------------------------------------------------------------------------
(* Facts about the conventions.                                            *)

Num(i) == call.outs[i].size

LEMMA CallType ==
    ASSUME call \in Calls
    PROVE  /\ call.outs \in Seq(Operand) /\ Len(call.outs) \in Nat
           /\ call.named \in Nat /\ call.named <= Len(call.outs)
           /\ call.results \in Nat
           /\ \A i \in OutValues : /\ call.outs[i] \in Operand
                                   /\ call.outs[i].size \in Nat
                                   /\ ~call.outs[i].byVal => call.outs[i].size = 4
<1>1. call \in CallSite
  BY CallsAssumption
<1>2. call.outs \in Seq(Operand) /\ call.named \in Nat /\ call.results \in Nat
  BY <1>1 DEF CallSite
<1>3. ASSUME NEW i \in OutValues
      PROVE  call.outs[i] \in Operand /\ call.outs[i].size \in Nat
  <2>1. call.outs[i] \in Operand
    BY <1>2, ElementOfSeq DEF OutValues
  <2> QED BY <2>1 DEF Operand
<1> QED BY <1>2, <1>3, CallsAssumption DEF OutValues

\* Aligning never goes back.
LEMMA AlignToUp ==
    ASSUME NEW o \in Nat, NEW align \in Nat \ {0}
    PROVE  AlignTo(o, align) \in Nat /\ AlignTo(o, align) >= o
<1>1. (-o) % align \in 0 .. align - 1
  OBVIOUS
<1> QED BY <1>1 DEF AlignTo

\* What a location is given, and that nothing is given twice.
LEMMA AllocateFacts ==
    ASSUME NEW s \in CCState, NEW o \in Operand, ~o.byVal => o.size = 4,
           NEW r, r = Allocate(s, o)
    PROVE  /\ r \in CCState
           /\ s.regs <= r.regs /\ s.offset <= r.offset
           /\ r.loc.kind = "reg" => /\ ~o.byVal
                                    /\ r.loc.at = s.regs /\ r.loc.at < r.regs
           /\ r.loc.kind = "mem" => /\ s.offset <= r.loc.at
                                    /\ r.loc.at + o.size <= r.offset
<1>1. o.size \in Nat /\ o.align \in Nat \ {0} /\ o.byVal \in BOOLEAN
  BY DEF Operand
<1>2. s.regs \in 0 .. 4 /\ s.offset \in Nat
  BY DEF CCState
<1>3. CASE ~o.byVal /\ s.regs < 4
  <2>1. r = [regs |-> s.regs + 1, offset |-> s.offset, loc |-> At("reg", s.regs)]
    BY <1>3 DEF Allocate
  <2>2. r \in CCState
    BY <2>1, <1>2, <1>3 DEF CCState, Location, At
  <2>3. r.regs = s.regs + 1 /\ r.offset = s.offset /\ r.loc.kind = "reg" /\ r.loc.at = s.regs
    BY <2>1 DEF At
  <2> QED BY <2>2, <2>3, <1>2, <1>3
<1>4. CASE ~(~o.byVal /\ s.regs < 4)
  <2> DEFINE at == AlignTo(s.offset, StackAlign(o))
  <2>1. StackAlign(o) \in Nat \ {0} /\ StackSize(o) \in Nat /\ StackSize(o) >= o.size
    BY <1>1 DEF StackAlign, StackSize, Larger
  <2>2. at \in Nat /\ at >= s.offset
    BY <2>1, <1>2, AlignToUp
  <2>3. r = [regs |-> s.regs, offset |-> at + StackSize(o), loc |-> At("mem", at)]
    BY <1>4 DEF Allocate
  <2> HIDE DEF at
  <2>4. r \in CCState
    BY <2>1, <2>2, <2>3, <1>1, <1>2 DEF CCState, Location, At
  <2>5. r.regs = s.regs /\ r.offset = at + StackSize(o) /\ r.loc.kind = "mem" /\ r.loc.at = at
    BY <2>3 DEF At
  <2> QED BY <2>1, <2>2, <2>4, <2>5, <1>1, <1>2
<1> QED BY <1>3, <1>4

-----------------------------------------------------------------------------
(* The inductive invariant.                                                *)

(* The lowering of either side: each operand so far has a location of its  *)
(* own below the next free byte, and where both sides have been they have  *)
(* the same CCState.  Neither is inductive without the chain of CCStates:  *)
(* each one is Allocate of the one before.                                 *)
Chained(s) ==
    /\ ccs[s][1] = CCStart
    /\ \A k \in 1 .. Assigned(s) : ccs[s][k + 1] = Allocate(ccs[s][k], call.outs[k])

Agree == \A k \in 1 .. Len(ccs["caller"]) :
            k <= Len(ccs["callee"]) => ccs["callee"][k] = ccs["caller"][k]

Below(s) ==
    \A i \in 1 .. Assigned(s) :
        /\ Loc(s, i).kind = "reg" => /\ ~call.outs[i].byVal
                                     /\ Loc(s, i).at < Last(s).regs
        /\ Loc(s, i).kind = "mem" => Loc(s, i).at + Num(i) <= Last(s).offset

Apart(s) ==
    \A i, j \in 1 .. Assigned(s) :
        i < j /\ Loc(s, i).kind = Loc(s, j).kind =>
            /\ Loc(s, i).kind = "reg" => Loc(s, i).at < Loc(s, j).at
            /\ Loc(s, i).kind = "mem" => Loc(s, i).at + Num(i) <= Loc(s, j).at

StageInv ==
    /\ Assigned("callee") <= call.named
    /\ stage["caller"] \in {"operands", "ready"} => call.conv # "Kudeyar_INTR"
    /\ stage["caller"] = "ready" =>
         Assigned("caller") = Len(call.outs) /\ Returnable(call.results)
    /\ stage["callee"] \in {"body", "ready"} /\ call.conv # "Kudeyar_INTR" =>
         /\ Assigned("callee") = call.named
         /\ fixedObjs = [i \in StackFormals |-> Loc("callee", i).at]
    /\ stage["callee"] = "ready" => liveOut = LiveOut
    /\ pc # "idle" => stage = [s \in Sides |-> "ready"]

LowerInv ==
    /\ \A s \in Sides : Chained(s) /\ Below(s) /\ Apart(s)
    /\ Agree
    /\ StageInv

Running == {"entry", "body", "return"}

\* Operand i is where the caller put it.
InMemory(m, i) == \A b \in 0 .. Num(i) - 1 : Read(m, Loc("caller", i).at + b) = Sent(call, i)[b]
InRegister(r, i) == r[Loc("caller", i).at] = Sent(call, i)

(* Where the values are, for values p of pc, r of reg, and so on: an       *)
(* operand stays where it was put until it is taken, and a word of the     *)
(* result in its register.                                                 *)
Passing(p, r, m, st, wr, iv) ==
    /\ p = "idle" => st = {}
    /\ p \in {"idle", "sequence", "entry"} => wr = {} /\ iv = <<>>
    /\ p \in Running => st = OutValues
    /\ p \in {"sequence"} \cup Running => \A i \in MemOps \cap (st \ wr) : InMemory(m, i)
    /\ p \in {"sequence", "entry"} => \A i \in RegsToPass \cap st : InRegister(r, i)
    /\ \A i \in DOMAIN iv : iv[i] = Sent(call, i)

Returning(p, r, ret, bk) ==
    /\ p \in {"idle", "sequence", "entry", "body"} => ret = 0
    /\ p \in {"back", "done"} => ret = call.results
    /\ p \in {"return", "back"} => \A k \in 1 .. ret : r[ReturnReg(k)] = Result(k)
    /\ p \notin {"back", "done"} => bk = <<>>
    /\ \A k \in 1 .. Len(bk) : bk[k] = Result(k)
    /\ p = "done" => Len(bk) = call.results

OwnKept(p, m) ==
    p # "idle" => \A a \in OwnStart .. OwnStart + OwnBytes - 1 : Read(m, a) = Own(a)

PassInv == Passing(pc, reg, mem, stored, written, inVals)
ResultInv == Returning(pc, reg, returned, back)
FrameInv == OwnKept(pc, mem)

MachineInv == PassInv /\ ResultInv /\ FrameInv

IInv == TypeOK /\ LowerInv /\ MachineInv

-----------------------------------------------------------------------------
(* The lowering of the two sides.                                          *)

LEMMA StateType ==
    ASSUME TypeOK, NEW s \in Sides
    PROVE  /\ ccs[s] \in Seq(CCState) /\ Len(ccs[s]) \in Nat /\ Len(ccs[s]) >= 1
           /\ Assigned(s) \in Nat
           /\ \A k \in 1 .. Len(ccs[s]) : ccs[s][k] \in CCState
           /\ Last(s) \in CCState
           /\ \A i \in 1 .. Assigned(s) :
                 Loc(s, i) \in Location /\ Loc(s, i).kind \in {"reg", "mem"} /\ Loc(s, i).at \in Nat
<1>1. ccs[s] \in Seq(CCState) /\ Len(ccs[s]) \in 1 .. Len(call.outs) + 1 /\ Len(call.outs) \in Nat
  BY CallType DEF TypeOK
<1>2. \A k \in 1 .. Len(ccs[s]) : ccs[s][k] \in CCState
  BY <1>1, ElementOfSeq
<1>3. ASSUME NEW i \in 1 .. Assigned(s)
      PROVE  Loc(s, i) \in Location
  <2>1. i + 1 \in 1 .. Len(ccs[s])
    BY <1>1 DEF Assigned
  <2> QED BY <1>2, <2>1 DEF Loc, CCState
<1> QED BY <1>1, <1>2, <1>3 DEF Assigned, Last, Location

\* One more operand is analyzed on one side.
LEMMA AnalyzeStep ==
    ASSUME TypeOK, LowerInv, NEW s \in Sides, NEW n \in 0 .. Len(call.outs),
           AnalyzeOperand(s, n), call' = call
    PROVE  /\ ccs' \in [Sides -> Seq(CCState)]
           /\ \A t \in Sides : Len(ccs'[t]) \in 1 .. Len(call.outs) + 1
           /\ Assigned(s)' = Assigned(s) + 1 /\ Assigned(s)' <= n
           /\ \A t \in Sides \ {s} : ccs'[t] = ccs[t]
           /\ (\A t \in Sides : Chained(t) /\ Below(t) /\ Apart(t))'
           /\ Agree'
<1> DEFINE k == Len(ccs[s])
           o == call.outs[k]
           a == Allocate(Last(s), o)
<1>1. /\ ccs \in [Sides -> Seq(CCState)] /\ k \in Nat /\ k >= 1 /\ k <= n
      /\ n \in Nat /\ n <= Len(call.outs) /\ Len(call.outs) \in Nat
  BY StateType, CallType DEF TypeOK, AnalyzeOperand, Assigned
<1>2. k \in OutValues /\ o \in Operand /\ (~o.byVal => o.size = 4) /\ o.size \in Nat
  BY <1>1, CallType DEF TypeOK, OutValues
<1>3. /\ a \in CCState
      /\ Last(s).regs <= a.regs /\ Last(s).offset <= a.offset
      /\ a.loc.kind = "reg" => /\ ~o.byVal
                               /\ a.loc.at = Last(s).regs /\ a.loc.at < a.regs
      /\ a.loc.kind = "mem" => /\ Last(s).offset <= a.loc.at
                               /\ a.loc.at + o.size <= a.offset
  <2>1. Last(s) \in CCState
    BY StateType
  <2> HIDE DEF a, o
  <2> QED BY <2>1, <1>2, AllocateFacts DEF a
<1>4. ccs' = [ccs EXCEPT ![s] = Append(ccs[s], a)]
  BY DEF AnalyzeOperand
<1> HIDE DEF a, o
<1>5. ccs'[s] = Append(ccs[s], a) /\ \A t \in Sides \ {s} : ccs'[t] = ccs[t]
  BY <1>1, <1>4
<1>6. ccs[s] \in Seq(CCState)
  BY <1>1
<1>7. /\ Append(ccs[s], a) \in Seq(CCState)
      /\ Len(ccs'[s]) = k + 1
      /\ ccs'[s][k + 1] = a
      /\ \A j \in 1 .. k : ccs'[s][j] = ccs[s][j]
  BY <1>3, <1>5, <1>6, AppendProperties
<1>8. ccs' \in [Sides -> Seq(CCState)]
  BY <1>1, <1>4, <1>7
<1>9. \A t \in Sides : Len(ccs'[t]) \in 1 .. Len(call.outs) + 1
  <2> TAKE t \in Sides
  <2>1. Len(ccs[t]) \in 1 .. Len(call.outs) + 1
    BY DEF TypeOK
  <2> QED BY <2>1, <1>1, <1>5, <1>7
<1>10. Assigned(s)' = k /\ Assigned(s) = k - 1
  BY <1>1, <1>7 DEF Assigned
<1>11. Chained(s)'
  <2>1. ccs[s][1] = CCStart /\ \A j \in 1 .. k - 1 : ccs[s][j + 1] = Allocate(ccs[s][j], call.outs[j])
    BY <1>10 DEF LowerInv, Chained
  <2>2. ccs'[s][1] = CCStart
    BY <2>1, <1>1, <1>7
  <2>3. ASSUME NEW j \in 1 .. k
        PROVE  ccs'[s][j + 1] = Allocate(ccs'[s][j], call.outs[j])
    <3>1. CASE j = k
      BY <3>1, <1>1, <1>7 DEF a, o, Last
    <3>2. CASE j # k
      <4>1. j \in 1 .. k - 1 /\ j + 1 \in 1 .. k
        BY <3>2, <1>1
      <4> QED BY <4>1, <2>1, <1>7
    <3> QED BY <3>1, <3>2
  <2> QED BY <2>2, <2>3, <1>10 DEF Chained
<1> DEFINE new(i) == ccs'[s][i + 1].loc
<1>12. /\ \A i \in 1 .. k - 1 : new(i) = Loc(s, i)
       /\ new(k) = a.loc /\ Last(s)' = a
  <2>1. ASSUME NEW i \in 1 .. k - 1
        PROVE  new(i) = Loc(s, i)
    <3>1. i + 1 \in 1 .. k
      BY <1>1
    <3> QED BY <3>1, <1>7 DEF Loc
  <2>2. Last(s)' = a
    BY <1>7 DEF Last
  <2> QED BY <2>1, <2>2, <1>7
<1>13. \A i \in 1 .. k - 1 : Loc(s, i).kind \in {"reg", "mem"} /\ Loc(s, i).at \in Nat /\ Num(i) \in Nat
  <2>1. 1 .. k - 1 = 1 .. Assigned(s) /\ 1 .. k - 1 \subseteq OutValues
    BY <1>1, <1>10 DEF OutValues
  <2>2. call \in Calls
    BY DEF TypeOK
  <2> HIDE DEF k
  <2> QED BY <2>1, <2>2, StateType, CallType DEF Num
<1>14. Last(s).regs \in Nat /\ Last(s).offset \in Nat /\ a.regs \in Nat /\ a.offset \in Nat /\ a.loc.at \in Nat
  BY <1>3, StateType DEF CCState, Location
<1>15. \A i \in 1 .. k - 1 :
          /\ Loc(s, i).kind = "reg" => ~call.outs[i].byVal /\ Loc(s, i).at < Last(s).regs
          /\ Loc(s, i).kind = "mem" => Loc(s, i).at + Num(i) <= Last(s).offset
  BY <1>10 DEF LowerInv, Below
<1>16. Num(k) = o.size
  BY DEF Num, o
<1>17. Below(s)'
  <2> SUFFICES ASSUME NEW i \in 1 .. k
               PROVE  /\ new(i).kind = "reg" => ~call.outs[i].byVal /\ new(i).at < a.regs
                      /\ new(i).kind = "mem" => new(i).at + Num(i) <= a.offset
    BY <1>10, <1>12 DEF Below, Loc, Num
  <2>1. CASE i = k
    BY <2>1, <1>12, <1>3, <1>16 DEF o
  <2>2. CASE i # k
    <3>1. i \in 1 .. k - 1
      BY <2>2, <1>1
    <3>2. new(i) = Loc(s, i)
      BY <3>1, <1>12
    <3>3. /\ Loc(s, i).at \in Nat /\ Num(i) \in Nat
          /\ Loc(s, i).kind = "reg" => ~call.outs[i].byVal /\ Loc(s, i).at < Last(s).regs
          /\ Loc(s, i).kind = "mem" => Loc(s, i).at + Num(i) <= Last(s).offset
      BY <3>1, <1>13, <1>15
    <3> HIDE DEF new
    <3> QED BY <3>2, <3>3, <1>14, <1>3
  <2> QED BY <2>1, <2>2
<1>18. Apart(s)'
  <2> SUFFICES ASSUME NEW i \in 1 .. k, NEW j \in 1 .. k, i < j, new(i).kind = new(j).kind
               PROVE  /\ new(i).kind = "reg" => new(i).at < new(j).at
                      /\ new(i).kind = "mem" => new(i).at + Num(i) <= new(j).at
    BY <1>10 DEF Apart, Loc, Num
  <2>1. i \in 1 .. k - 1
    BY <1>1
  <2>2. CASE j = k
    <3>1. new(i) = Loc(s, i) /\ new(j) = a.loc
      BY <2>1, <2>2, <1>12
    <3>2. /\ Loc(s, i).at \in Nat /\ Num(i) \in Nat
          /\ Loc(s, i).kind = "reg" => Loc(s, i).at < Last(s).regs
          /\ Loc(s, i).kind = "mem" => Loc(s, i).at + Num(i) <= Last(s).offset
      BY <2>1, <1>13, <1>15
    <3> HIDE DEF new
    <3> QED BY <3>1, <3>2, <1>14, <1>3
  <2>3. CASE j # k
    <3>1. j \in 1 .. k - 1
      BY <2>3, <1>1
    <3> QED BY <2>1, <3>1, <1>12, <1>10 DEF LowerInv, Apart
  <2> QED BY <2>2, <2>3
<1>19. ASSUME NEW t \in Sides, t # s
       PROVE  Chained(t)' /\ Below(t)' /\ Apart(t)'
  <2>1. ccs'[t] = ccs[t]
    BY <1>5, <1>19
  <2>2. Assigned(t)' = Assigned(t) /\ Last(t)' = Last(t) /\ \A i \in 1 .. Assigned(t) : Loc(t, i)' = Loc(t, i)
    BY <2>1 DEF Assigned, Last, Loc
  <2>3. Chained(t) /\ Below(t) /\ Apart(t)
    BY DEF LowerInv
  <2>4. Chained(t)'
    BY <2>1, <2>2, <2>3 DEF Chained
  <2>5. Below(t)'
    BY <2>2, <2>3 DEF Below, Num
  <2>6. Apart(t)'
    BY <2>2, <2>3 DEF Apart, Num
  <2> QED BY <2>4, <2>5, <2>6
<1>20. ASSUME NEW t \in Sides, t # s, k + 1 <= Len(ccs[t])
       PROVE  ccs[t][k + 1] = a
  <2>1. Len(ccs[t]) \in Nat /\ k \in 1 .. Assigned(t)
    BY <1>20, <1>1, StateType DEF Assigned
  <2>2. ccs[t][k + 1] = Allocate(ccs[t][k], o)
    BY <2>1 DEF LowerInv, Chained, o
  <2>3. k \in 1 .. Len(ccs[t])
    BY <2>1, <1>1, <1>20
  <2>4. ccs[t][k] = ccs[s][k]
    BY <2>1, <2>3, <1>1, <1>20 DEF LowerInv, Agree, Sides
  <2> QED BY <2>2, <2>4 DEF a, Last
<1>21. Agree'
  <2> SUFFICES ASSUME NEW j \in 1 .. Len(ccs'["caller"]), j <= Len(ccs'["callee"])
               PROVE  ccs'["callee"][j] = ccs'["caller"][j]
    BY DEF Agree
  <2>0. Len(ccs["caller"]) \in Nat /\ Len(ccs["callee"]) \in Nat
    BY StateType DEF Sides
  <2>1. CASE s = "caller"
    <3>1. ccs'["callee"] = ccs["callee"] /\ "callee" \in Sides
      BY <2>1, <1>5 DEF Sides
    <3>2. CASE j = k + 1
      BY <2>1, <3>1, <3>2, <1>7, <1>20
    <3>3. CASE j # k + 1
      <4>1. j \in 1 .. k
        BY <2>1, <3>3, <1>1, <1>7
      <4> QED BY <4>1, <3>1, <2>1, <1>7 DEF LowerInv, Agree
    <3> QED BY <3>2, <3>3
  <2>2. CASE s = "callee"
    <3>1. ccs'["caller"] = ccs["caller"] /\ "caller" \in Sides
      BY <2>2, <1>5 DEF Sides
    <3>2. CASE j = k + 1
      <4>1. k + 1 <= Len(ccs["caller"])
        BY <2>0, <3>1, <3>2
      <4> QED BY <4>1, <2>2, <3>1, <3>2, <1>7, <1>20
    <3>3. CASE j # k + 1
      <4>1. j \in 1 .. k
        BY <2>2, <3>3, <1>1, <1>7
      <4> QED BY <4>1, <3>1, <2>2, <1>7 DEF LowerInv, Agree
    <3> QED BY <3>2, <3>3
  <2> QED BY <2>1, <2>2 DEF Sides
<1>22. Assigned(s)' = Assigned(s) + 1 /\ Assigned(s)' <= n
  BY <1>1, <1>10
<1>23. (\A t \in Sides : Chained(t) /\ Below(t) /\ Apart(t))'
  <2>1. ASSUME NEW t \in Sides PROVE (Chained(t) /\ Below(t) /\ Apart(t))'
    BY <1>11, <1>17, <1>18, <1>19
  <2> QED BY <2>1
<1> QED BY <1>5, <1>8, <1>9, <1>21, <1>22, <1>23

AllReady == stage = [s \in Sides |-> "ready"]

\* What is known of the locations once the call may run.
LEMMA Ready ==
    ASSUME TypeOK, LowerInv, AllReady
    PROVE  /\ call.results \in Nat /\ call.results <= 4 /\ liveOut = LiveOut
           /\ NumBytes \in Nat /\ OwnStart \in Nat /\ OwnStart >= NumBytes
           /\ \A i \in 1 .. call.named : i \in OutValues /\ Loc("callee", i) = Loc("caller", i)
           /\ fixedObjs = [i \in StackFormals |-> Loc("callee", i).at]
           /\ \A i \in RegsToPass : Loc("caller", i).at \in ArgRegs /\ Num(i) = 4 /\ ~call.outs[i].byVal
           /\ \A i \in MemOps : /\ Loc("caller", i).at \in Nat /\ Num(i) \in Nat
                                  /\ Loc("caller", i).at + Num(i) <= NumBytes
           /\ StackFormals = MemOps \cap (1 .. call.named)
<1>1. stage = [s \in Sides |-> "ready"]
  BY DEF AllReady
<1>2. stage["caller"] = "ready" /\ stage["callee"] = "ready" /\ "caller" \in Sides /\ "callee" \in Sides
  BY <1>1 DEF Sides
<1>3. call.conv # "Kudeyar_INTR" /\ Assigned("caller") = Len(call.outs) /\ Returnable(call.results)
  BY <1>2 DEF LowerInv, StageInv
<1>4. /\ Assigned("callee") = call.named /\ liveOut = LiveOut
      /\ fixedObjs = [i \in StackFormals |-> Loc("callee", i).at]
  BY <1>2, <1>3 DEF LowerInv, StageInv
<1>5. call \in Calls
  BY DEF TypeOK
<1>6. /\ Len(call.outs) \in Nat /\ call.named \in Nat /\ call.named <= Len(call.outs)
      /\ call.results \in Nat /\ call.results <= 4
  BY <1>3, <1>5, CallType DEF Returnable
<1>7. Last("caller").offset \in Nat /\ Last("caller").regs \in 0 .. 4
  BY <1>2, StateType DEF CCState
<1>8. NumBytes \in Nat /\ OwnStart \in Nat /\ OwnStart >= NumBytes
  BY <1>7, AlignToUp DEF NumBytes, OwnStart
<1>9. Len(ccs["caller"]) = Len(call.outs) + 1 /\ Len(ccs["callee"]) = call.named + 1
  BY <1>2, <1>3, <1>4, <1>6, StateType DEF Assigned
<1>10. ASSUME NEW i \in 1 .. call.named
       PROVE  i \in OutValues /\ Loc("callee", i) = Loc("caller", i)
  <2>1. i \in OutValues
    BY <1>6 DEF OutValues
  <2>2. i + 1 \in 1 .. Len(ccs["caller"]) /\ i + 1 <= Len(ccs["callee"])
    BY <1>6, <1>9
  <2>3. ccs["callee"][i + 1] = ccs["caller"][i + 1]
    BY <2>2 DEF LowerInv, Agree
  <2> QED BY <2>1, <2>3 DEF Loc
<1>11. ASSUME NEW i \in OutValues
       PROVE  /\ Loc("caller", i).kind \in {"reg", "mem"} /\ Loc("caller", i).at \in Nat /\ Num(i) \in Nat
              /\ Loc("caller", i).kind = "reg" => ~call.outs[i].byVal /\ Loc("caller", i).at < Last("caller").regs
              /\ Loc("caller", i).kind = "mem" => Loc("caller", i).at + Num(i) <= NumBytes
              /\ ~call.outs[i].byVal => Num(i) = 4
  <2>1. i \in 1 .. Assigned("caller")
    BY <1>3 DEF OutValues
  <2>2. Below("caller")
    BY <1>2 DEF LowerInv
  <2>3. Num(i) \in Nat /\ (~call.outs[i].byVal => Num(i) = 4)
    BY <1>5, CallType DEF Num
  <2>4. Loc("caller", i).kind \in {"reg", "mem"} /\ Loc("caller", i).at \in Nat
    BY <2>1, <1>2, StateType
  <2> QED BY <2>1, <2>2, <2>3, <2>4 DEF Below, NumBytes
<1>12. \A i \in RegsToPass : Loc("caller", i).at \in ArgRegs /\ Num(i) = 4 /\ ~call.outs[i].byVal
  <2> TAKE i \in RegsToPass
  <2>1. i \in OutValues /\ Loc("caller", i).kind # "mem"
    BY DEF RegsToPass, MemOps
  <2>2. Loc("caller", i).at \in Nat /\ Loc("caller", i).at < Last("caller").regs
    BY <2>1, <1>11
  <2>3. Loc("caller", i).at \in ArgRegs
    BY <2>2, <1>7 DEF ArgRegs
  <2> QED BY <2>1, <2>3, <1>11
<1>13. StackFormals = MemOps \cap (1 .. call.named)
  BY <1>10 DEF StackFormals, MemOps
<1> QED BY <1>4, <1>6, <1>8, <1>10, <1>11, <1>12, <1>13 DEF MemOps

-----------------------------------------------------------------------------
(* Memory.                                                                 *)

LEMMA ReadStore ==
    ASSUME NEW m, NEW a \in Int, NEW v, DOMAIN m \subseteq Int, DOMAIN v \subseteq Int, NEW c \in Int
    PROVE  Read(Store(m, a, v), c) = IF c - a \in DOMAIN v THEN v[c - a] ELSE Read(m, c)
<1> DEFINE D == DOMAIN m \cup {a + b : b \in DOMAIN v}
<1>1. c \in {a + b : b \in DOMAIN v} <=> c - a \in DOMAIN v
  <2>1. ASSUME c - a \in DOMAIN v PROVE c \in {a + b : b \in DOMAIN v}
    <3>1. c = a + (c - a)
      OBVIOUS
    <3> QED BY <3>1, <2>1
  <2>2. ASSUME NEW b \in DOMAIN v, c = a + b PROVE c - a \in DOMAIN v
    <3>1. b \in Int /\ c - a = b
      BY <2>2
    <3> QED BY <3>1
  <2> QED BY <2>1, <2>2
<1>2. DOMAIN Store(m, a, v) = D
  BY DEF Store
<1>3. c \in D => Store(m, a, v)[c] = IF c - a \in DOMAIN v THEN v[c - a] ELSE m[c]
  BY DEF Store
<1> QED BY <1>1, <1>2, <1>3 DEF Read

\* Memory m, as the type invariant wants it.
MemType(m) == DOMAIN m \subseteq Int /\ \A a \in DOMAIN m : m[a] \in Byte

LEMMA StoreType ==
    ASSUME NEW m, MemType(m), NEW a \in Int, NEW v, DOMAIN v \subseteq Int,
           \A b \in DOMAIN v : v[b] \in Byte
    PROVE  MemType(Store(m, a, v))
<1>1. DOMAIN Store(m, a, v) \subseteq Int
  BY DEF Store, MemType
<1>2. ASSUME NEW c \in DOMAIN Store(m, a, v) PROVE Store(m, a, v)[c] \in Byte
  <2>1. c \in DOMAIN m \cup {a + b : b \in DOMAIN v}
    BY DEF Store
  <2>2. Store(m, a, v)[c] = IF c - a \in DOMAIN v THEN v[c - a] ELSE m[c]
    BY <2>1 DEF Store
  <2>3. CASE c \in DOMAIN m
    BY <2>2, <2>3 DEF MemType
  <2>4. CASE c \notin DOMAIN m
    <3>1. PICK b \in DOMAIN v : c = a + b
      BY <2>1, <2>4
    <3>2. c - a = b
      BY <3>1
    <3> QED BY <3>2, <2>2
  <2> QED BY <2>3, <2>4
<1> QED BY <1>1, <1>2 DEF MemType

LEMMA AboveType ==
    ASSUME MemType(mem), NEW a \in Int
    PROVE  /\ MemType(Above(a))
           /\ \A c \in Int : c >= a => Read(Above(a), c) = Load(c)
  BY DEF MemType, Above, Read, Load

\* The bytes of an argument, a result and the return address.
LEMMA BytesType ==
    ASSUME NEW n \in Nat, NEW z \in Nat, NEW g \in {"arg", "result", "own", "return", "junk"}
    PROVE  /\ Bytes(g, n, z) \in [0 .. z - 1 -> Byte]
           /\ DOMAIN Bytes(g, n, z) \subseteq Int
           /\ DOMAIN Bytes(g, n, z) = 0 .. z - 1
<1>1. ASSUME NEW b \in 0 .. z - 1 PROVE <<g, n, b>> \in Byte
  <2>1. b \in Nat
    OBVIOUS
  <2> QED BY <2>1 DEF Byte
<1> QED BY <1>1 DEF Bytes

-----------------------------------------------------------------------------
(* The initial states.                                                     *)

LEMMA JunkWord == [b \in 0 .. 3 |-> Junk] \in Word
  BY DEF Junk, Word, Byte

LEMMA InitInv == Init => IInv
<1> SUFFICES ASSUME Init PROVE IInv
  OBVIOUS
<1>1. ccs["caller"] = <<CCStart>> /\ ccs["callee"] = <<CCStart>> /\ ccs \in [Sides -> Seq(CCState)]
  BY DEF Init, Sides, CCStart, CCState, Location, At
<1>2. \A s \in Sides : Len(ccs[s]) = 1 /\ ccs[s][1] = CCStart /\ Assigned(s) = 0
  <2>1. Len(<<CCStart>>) = 1 /\ <<CCStart>>[1] = CCStart
    OBVIOUS
  <2> TAKE s \in Sides
  <2>2. ccs[s] = <<CCStart>>
    BY <1>1 DEF Sides
  <2>3. Len(ccs[s]) = 1 /\ ccs[s][1] = CCStart
    BY <2>1, <2>2
  <2> QED BY <2>3 DEF Assigned
<1>3. call \in Calls /\ Len(call.outs) \in Nat /\ call.named \in Nat /\ call.results \in Nat
  BY CallType DEF Init
<1>4. TypeOK
  <2>1. reg \in [ArgRegs -> Word]
    BY JunkWord DEF Init
  <2>2. back \in Seq(Word) /\ Len(back) = 0
    BY DEF Init
  <2>3. \A s \in Sides : Len(ccs[s]) \in 1 .. Len(call.outs) + 1
    <3>1. 1 \in 1 .. Len(call.outs) + 1
      BY <1>3
    <3> QED BY <3>1, <1>2
  <2>4. DOMAIN fixedObjs = {} /\ DOMAIN mem = {} /\ DOMAIN inVals = {}
    BY DEF Init
  <2>5. /\ stage \in [Sides -> {"lower", "operands", "body", "ready", "fatal"}]
        /\ liveOut \subseteq ArgRegs /\ pc = "idle" /\ stored = {} /\ written = {} /\ returned = 0
    BY DEF Init
  <2> QED BY <1>1, <1>3, <2>1, <2>2, <2>3, <2>4, <2>5 DEF TypeOK
<1>5. LowerInv
  <2>1. \A s \in Sides : Chained(s) /\ Below(s) /\ Apart(s)
    BY <1>2 DEF Chained, Below, Apart
  <2>2. Agree
    BY <1>1 DEF Agree
  <2>3. stage["caller"] = "lower" /\ stage["callee"] = "lower" /\ pc = "idle"
    BY DEF Init, Sides
  <2>4. StageInv
    BY <2>3, <1>2, <1>3 DEF StageInv, Sides
  <2> QED BY <2>1, <2>2, <2>4 DEF LowerInv
<1>6. MachineInv
  <2>1. pc = "idle" /\ stored = {} /\ written = {} /\ inVals = <<>> /\ returned = 0 /\ back = <<>>
    BY DEF Init
  <2>2. DOMAIN inVals = {} /\ Len(back) = 0
    BY <2>1
  <2> QED BY <2>1, <2>2 DEF MachineInv, PassInv, ResultInv, FrameInv, Passing, Returning, OwnKept, Running
<1> QED BY <1>4, <1>5, <1>6 DEF IInv

-----------------------------------------------------------------------------
(* What the steps of the compiler preserve.                                *)

\* The type invariant, in two parts.
CompileType ==
    /\ stage \in [Sides -> {"lower", "operands", "body", "ready", "fatal"}]
    /\ ccs \in [Sides -> Seq(CCState)]
    /\ \A s \in Sides : Len(ccs[s]) \in 1 .. Len(call.outs) + 1
    /\ DOMAIN fixedObjs \subseteq 1 .. call.named
    /\ \A i \in DOMAIN fixedObjs : fixedObjs[i] \in Nat
    /\ liveOut \subseteq ArgRegs

MachineType ==
    /\ pc \in {"idle", "sequence", "entry", "body", "return", "back", "done"}
    /\ reg \in [ArgRegs -> Word]
    /\ MemType(mem)
    /\ stored \subseteq OutValues
    /\ written \subseteq 1 .. call.named
    /\ DOMAIN inVals \subseteq 1 .. call.named
    /\ \A i \in DOMAIN inVals : inVals[i] \in [0 .. call.outs[i].size - 1 -> Byte]
    /\ returned \in 0 .. call.results
    /\ back \in Seq(Word) /\ Len(back) <= call.results

LEMMA TypeParts == TypeOK <=> call \in Calls /\ CompileType /\ MachineType
  BY DEF TypeOK, CompileType, MachineType, MemType

LEMMA MachineTypeSame ==
    ASSUME MachineType, UNCHANGED <<call, machineVars>>
    PROVE  MachineType'
  BY DEF MachineType, machineVars, MemType, OutValues

LEMMA MachineInvSame ==
    ASSUME MachineInv, pc = "idle", UNCHANGED <<call, machineVars>>
    PROVE  MachineInv'
  BY DEF MachineInv, PassInv, ResultInv, FrameInv, Passing, Returning, OwnKept, machineVars, Running

\* A step that leaves the CCStates alone.
LEMMA LocationsSame ==
    ASSUME LowerInv, UNCHANGED <<call, ccs>>
    PROVE  /\ (\A s \in Sides : Chained(s) /\ Below(s) /\ Apart(s))'
           /\ Agree'
           /\ \A s \in Sides : Assigned(s)' = Assigned(s)
<1>1. \A s \in Sides : Chained(s) /\ Below(s) /\ Apart(s)
  BY DEF LowerInv
<1>2. (\A s \in Sides : Chained(s))'
  BY <1>1 DEF Chained, Assigned
<1>3. (\A s \in Sides : Below(s))'
  BY <1>1 DEF Below, Assigned, Loc, Last, Num
<1>4. (\A s \in Sides : Apart(s))'
  BY <1>1 DEF Apart, Assigned, Loc, Last, Num
<1>5. Agree'
  BY DEF LowerInv, Agree
<1> QED BY <1>2, <1>3, <1>4, <1>5 DEF Assigned

\* What a stage may become without more.
LEMMA BecomeFacts ==
    ASSUME CompileType, NEW s \in Sides, NEW to, Become(s, to)
    PROVE  stage'[s] = to /\ \A t \in Sides \ {s} : stage'[t] = stage[t]
  BY DEF CompileType, Become

LEMMA CompileInv ==
    ASSUME IInv, Compile
    PROVE  IInv'
<1>1. TypeOK /\ LowerInv /\ MachineInv /\ call \in Calls /\ CompileType /\ MachineType
  BY TypeParts DEF IInv
<1>2. UNCHANGED <<call, machineVars>> /\ pc = "idle" /\ pc' = "idle"
  BY DEF Compile, LowerCall, AnalyzeCallOperands, LowerCallResult, LowerFormalArguments,
     AnalyzeFormalArguments, LowerCCCArguments, LowerReturn, Compiling, AnalyzeOperand, machineVars
<1>3. MachineType' /\ MachineInv' /\ call' \in Calls /\ call' = call
  BY <1>1, <1>2, MachineTypeSame, MachineInvSame
<1>4. "caller" \in Sides /\ "callee" \in Sides /\ Sides = {"caller", "callee"}
  BY DEF Sides
<1>5. Len(call.outs) \in Nat /\ call.named \in Nat /\ call.named <= Len(call.outs) /\ call.results \in Nat
  BY <1>1, CallType
<1>6. StageInv
  BY <1>1 DEF LowerInv
<1>7. SUFFICES CompileType' /\ LowerInv'
  BY <1>3 DEF IInv, TypeOK, CompileType, MachineType, MemType
<1>8. CASE LowerCall
  <2>1. Become("caller", IF call.conv = "Kudeyar_INTR" THEN "fatal" ELSE "operands")
        /\ UNCHANGED <<call, ccs, fixedObjs, liveOut>> /\ stage["caller"] = "lower"
    BY <1>8 DEF LowerCall, Compiling
  <2>2. stage'["callee"] = stage["callee"]
        /\ stage'["caller"] = (IF call.conv = "Kudeyar_INTR" THEN "fatal" ELSE "operands")
    BY <2>1, <1>1, <1>4, BecomeFacts
  <2>3. CompileType'
    BY <2>1, <1>1 DEF CompileType, Become
  <2>4. StageInv'
    BY <2>1, <2>2, <1>2, <1>4, <1>6 DEF StageInv, Assigned, StackFormals, Loc, LiveOut
  <2> QED BY <2>1, <2>3, <2>4, <1>1, LocationsSame DEF LowerInv
<1>9. CASE AnalyzeCallOperands
  <2>1. AnalyzeOperand("caller", Len(call.outs)) /\ UNCHANGED <<call, stage, fixedObjs, liveOut>>
        /\ stage["caller"] = "operands"
    BY <1>9 DEF AnalyzeCallOperands, AnalyzeOperand, Compiling
  <2>2. Len(call.outs) \in 0 .. Len(call.outs)
    BY <1>5
  <2>3. /\ ccs' \in [Sides -> Seq(CCState)]
        /\ \A t \in Sides : Len(ccs'[t]) \in 1 .. Len(call.outs) + 1
        /\ ccs'["callee"] = ccs["callee"]
        /\ (\A t \in Sides : Chained(t) /\ Below(t) /\ Apart(t))'
        /\ Agree'
    BY <2>1, <2>2, <1>1, <1>4, AnalyzeStep
  <2>4. CompileType'
    BY <2>1, <2>3, <1>1 DEF CompileType
  <2>5. StageInv'
    BY <2>1, <2>3, <1>2, <1>4, <1>6 DEF StageInv, Assigned, StackFormals, Loc, LiveOut
  <2> QED BY <2>3, <2>4, <2>5 DEF LowerInv
<1>10. CASE LowerCallResult
  <2>1. Become("caller", IF Returnable(call.results) THEN "ready" ELSE "fatal")
        /\ UNCHANGED <<call, ccs, fixedObjs, liveOut>> /\ stage["caller"] = "operands"
        /\ Assigned("caller") = Len(call.outs)
    BY <1>10 DEF LowerCallResult, Compiling
  <2>2. stage'["callee"] = stage["callee"]
        /\ stage'["caller"] = (IF Returnable(call.results) THEN "ready" ELSE "fatal")
    BY <2>1, <1>1, <1>4, BecomeFacts
  <2>3. CompileType'
    BY <2>1, <1>1 DEF CompileType, Become
  <2>4. StageInv'
    BY <2>1, <2>2, <1>2, <1>4, <1>6 DEF StageInv, Assigned, StackFormals, Loc, LiveOut, Returnable
  <2> QED BY <2>1, <2>3, <2>4, <1>1, LocationsSame DEF LowerInv
<1>11. CASE LowerFormalArguments
  <2>1. Become("callee", IF call.conv # "Kudeyar_INTR" THEN "operands"
                        ELSE IF call.named = 0 THEN "body" ELSE "fatal")
        /\ UNCHANGED <<call, ccs, fixedObjs, liveOut>> /\ stage["callee"] = "lower"
    BY <1>11 DEF LowerFormalArguments, Compiling
  <2>2. stage'["caller"] = stage["caller"]
        /\ stage'["callee"] = (IF call.conv # "Kudeyar_INTR" THEN "operands"
                        ELSE IF call.named = 0 THEN "body" ELSE "fatal")
    BY <2>1, <1>1, <1>4, BecomeFacts
  <2>3. CompileType'
    BY <2>1, <1>1 DEF CompileType, Become
  <2>4. StageInv'
    BY <2>1, <2>2, <1>2, <1>4, <1>6 DEF StageInv, Assigned, StackFormals, Loc, LiveOut
  <2> QED BY <2>1, <2>3, <2>4, <1>1, LocationsSame DEF LowerInv
<1>12. CASE AnalyzeFormalArguments
  <2>1. AnalyzeOperand("callee", call.named) /\ UNCHANGED <<call, stage, fixedObjs, liveOut>>
        /\ stage["callee"] = "operands"
    BY <1>12 DEF AnalyzeFormalArguments, AnalyzeOperand, Compiling
  <2>2. call.named \in 0 .. Len(call.outs)
    BY <1>5
  <2>3. /\ ccs' \in [Sides -> Seq(CCState)]
        /\ \A t \in Sides : Len(ccs'[t]) \in 1 .. Len(call.outs) + 1
        /\ Assigned("callee")' <= call.named
        /\ ccs'["caller"] = ccs["caller"]
        /\ (\A t \in Sides : Chained(t) /\ Below(t) /\ Apart(t))'
        /\ Agree'
    BY <2>1, <2>2, <1>1, <1>4, AnalyzeStep
  <2>4. CompileType'
    BY <2>1, <2>3, <1>1 DEF CompileType
  <2>5. StageInv'
    <3>1. Assigned("caller")' = Assigned("caller")
      BY <2>3 DEF Assigned
    <3> QED BY <3>1, <2>1, <2>3, <1>2, <1>4, <1>6 DEF StageInv, LiveOut
  <2> QED BY <2>3, <2>4, <2>5 DEF LowerInv
<1>13. CASE LowerCCCArguments
  <2>1. /\ Become("callee", "body") /\ UNCHANGED <<call, ccs, liveOut>>
        /\ Assigned("callee") = call.named
        /\ fixedObjs' = [i \in StackFormals |-> Loc("callee", i).at]
    BY <1>13 DEF LowerCCCArguments
  <2>2. stage'["caller"] = stage["caller"] /\ stage'["callee"] = "body"
    BY <2>1, <1>1, <1>4, BecomeFacts
  <2>3. DOMAIN fixedObjs' \subseteq 1 .. call.named
    BY <2>1 DEF StackFormals
  <2>4. \A i \in DOMAIN fixedObjs' : fixedObjs'[i] \in Nat
    <3> TAKE i \in DOMAIN fixedObjs'
    <3>1. i \in 1 .. Assigned("callee") /\ fixedObjs'[i] = Loc("callee", i).at
      BY <2>1, <2>3
    <3> QED BY <3>1, <1>1, <1>4, StateType
  <2>5. CompileType'
    BY <2>1, <2>3, <2>4, <1>1 DEF CompileType, Become
  <2>6. StackFormals' = StackFormals /\ fixedObjs' = [i \in StackFormals' |-> ccs'["callee"][i + 1].loc.at]
    BY <2>1 DEF StackFormals, Loc
  <2>7. StageInv'
    BY <2>1, <2>2, <2>6, <1>2, <1>4, <1>6 DEF StageInv, Assigned, Loc, LiveOut
  <2> QED BY <2>1, <2>5, <2>7, <1>1, LocationsSame DEF LowerInv
<1>14. CASE LowerReturn
  <2>1. UNCHANGED <<call, ccs, fixedObjs>> /\ stage["callee"] = "body"
    BY <1>14 DEF LowerReturn, Compiling
  <2>2. CASE Become("callee", "fatal") /\ UNCHANGED liveOut
    <3>1. stage'["caller"] = stage["caller"] /\ stage'["callee"] = "fatal"
      BY <2>2, <1>1, <1>4, BecomeFacts
    <3>2. CompileType'
      BY <2>1, <2>2, <1>1 DEF CompileType, Become
    <3>3. StageInv'
      BY <3>1, <2>1, <2>2, <1>2, <1>4, <1>6 DEF StageInv, Assigned
    <3> QED BY <2>1, <3>2, <3>3, <1>1, LocationsSame DEF LowerInv
  <2>3. CASE Become("callee", "ready") /\ liveOut' = LiveOut /\ Returnable(call.results)
    <3>1. stage'["caller"] = stage["caller"] /\ stage'["callee"] = "ready"
      BY <2>3, <1>1, <1>4, BecomeFacts
    <3>2. LiveOut \subseteq ArgRegs
      BY <2>3, <1>5 DEF LiveOut, ReturnReg, ArgRegs, Returnable
    <3>3. CompileType'
      BY <2>1, <2>3, <3>2, <1>1 DEF CompileType, Become
    <3>4. StageInv'
      BY <3>1, <2>1, <2>3, <1>2, <1>4, <1>6 DEF StageInv, Assigned, StackFormals, Loc, LiveOut
    <3> QED BY <2>1, <3>3, <3>4, <1>1, LocationsSame DEF LowerInv
  <2> QED BY <1>14, <2>2, <2>3 DEF LowerReturn
<1> QED BY <1>8, <1>9, <1>10, <1>11, <1>12, <1>13, <1>14 DEF Compile

-----------------------------------------------------------------------------
(* What the steps of the machine preserve.                                 *)

LEMMA CompileSame ==
    ASSUME CompileType, LowerInv, AllReady, NoCompile
    PROVE  CompileType' /\ LowerInv'
<1>1. CompileType'
  BY DEF CompileType, NoCompile, compileVars
<1>2. StageInv'
  <2>1. /\ Assigned("callee")' = Assigned("callee") /\ Assigned("caller")' = Assigned("caller")
        /\ stage' = stage /\ call' = call /\ liveOut' = liveOut /\ fixedObjs' = fixedObjs
    BY DEF Assigned, NoCompile, compileVars
  <2>2. StageInv
    BY DEF LowerInv
  <2> QED BY <2>1, <2>2 DEF StageInv, AllReady, NoCompile, compileVars, StackFormals, Loc, LiveOut
<1> QED BY <1>1, <1>2, LocationsSame DEF LowerInv, NoCompile, compileVars

\* What the machine's invariant says of the next state.
LEMMA MachineInvNext ==
    ASSUME NoCompile
    PROVE  /\ Passing(pc', reg', mem', stored', written', inVals') => PassInv'
           /\ Returning(pc', reg', returned', back') => ResultInv'
           /\ OwnKept(pc', mem') => FrameInv'
<1>1. call' = call /\ ccs' = ccs
  BY DEF NoCompile, compileVars
<1>2. OutValues' = OutValues /\ MemOps' = MemOps /\ RegsToPass' = RegsToPass /\ OwnStart' = OwnStart
  BY <1>1 DEF OutValues, MemOps, RegsToPass, OwnStart, NumBytes, Last, Loc
<1>3. Passing(pc', reg', mem', stored', written', inVals') => PassInv'
  BY <1>1, <1>2 DEF PassInv, Passing, InMemory, InRegister, Loc, Sent, Num
<1>4. Returning(pc', reg', returned', back') => ResultInv'
  BY <1>1 DEF ResultInv, Returning
<1>5. OwnKept(pc', mem') => FrameInv'
  BY <1>2 DEF FrameInv, OwnKept
<1> QED BY <1>3, <1>4, <1>5

LEMMA MachineTypeNext ==
    ASSUME NoCompile,
           pc' \in {"idle", "sequence", "entry", "body", "return", "back", "done"},
           reg' \in [ArgRegs -> Word], MemType(mem'),
           stored' \subseteq OutValues, written' \subseteq 1 .. call.named,
           DOMAIN inVals' \subseteq 1 .. call.named,
           \A i \in DOMAIN inVals' : inVals'[i] \in [0 .. call.outs[i].size - 1 -> Byte],
           returned' \in 0 .. call.results, back' \in Seq(Word), Len(back') <= call.results
    PROVE  MachineType'
  BY DEF MachineType, NoCompile, compileVars, OutValues, MemType

LEMMA SentType ==
    ASSUME call \in Calls, NEW i \in OutValues
    PROVE  /\ Sent(call, i) \in [0 .. Num(i) - 1 -> Byte] /\ DOMAIN Sent(call, i) = 0 .. Num(i) - 1
           /\ Num(i) \in Nat /\ DOMAIN Sent(call, i) \subseteq Int
           /\ Num(i) = 4 => Sent(call, i) \in Word
<1>1. Num(i) \in Nat /\ i \in Nat
  BY CallType DEF Num, OutValues
<1>2. "arg" \in {"arg", "result", "own", "return", "junk"}
  OBVIOUS
<1>3. Sent(call, i) = Bytes("arg", i, Num(i))
  BY DEF Sent, Num
<1> HIDE DEF Num
<1>4. /\ Sent(call, i) \in [0 .. Num(i) - 1 -> Byte]
      /\ DOMAIN Sent(call, i) \subseteq Int
      /\ DOMAIN Sent(call, i) = 0 .. Num(i) - 1
  BY <1>1, <1>2, <1>3, BytesType
<1>5. Num(i) = 4 => Num(i) - 1 = 3
  OBVIOUS
<1> QED BY <1>1, <1>4, <1>5 DEF Word

LEMMA ResultType ==
    ASSUME NEW k \in Nat
    PROVE  Result(k) \in Word
<1>1. "result" \in {"arg", "result", "own", "return", "junk"} /\ 4 \in Nat
  OBVIOUS
<1>2. Bytes("result", k, 4) \in [0 .. 4 - 1 -> Byte]
  BY <1>1, BytesType
<1>3. 4 - 1 = 3
  OBVIOUS
<1> QED BY <1>2, <1>3 DEF Result, Word

\* No two operands share a register or a stack byte.
LEMMA OperandsApart ==
    ASSUME TypeOK, LowerInv, AllReady
    PROVE  /\ \A i, j \in MemOps : i # j =>
                 \/ Loc("caller", i).at + Num(i) <= Loc("caller", j).at
                 \/ Loc("caller", j).at + Num(j) <= Loc("caller", i).at
           /\ \A i, j \in RegsToPass : i # j => Loc("caller", i).at # Loc("caller", j).at
<1>1. "caller" \in Sides /\ stage["caller"] = "ready"
  BY DEF AllReady, Sides
<1>2. Assigned("caller") = Len(call.outs) /\ Apart("caller")
  BY <1>1 DEF LowerInv, StageInv
<1>3. \A i \in OutValues : i \in 1 .. Assigned("caller") /\ i \in Int
  BY <1>2 DEF OutValues
<1>4. \A i \in OutValues : Loc("caller", i).at \in Nat /\ Loc("caller", i).kind \in {"reg", "mem"}
  BY <1>1, <1>3, StateType
<1>5. \A i, j \in MemOps : i < j => Loc("caller", i).at + Num(i) <= Loc("caller", j).at
  BY <1>2, <1>3 DEF Apart, MemOps
<1>6. \A i, j \in RegsToPass : i < j => Loc("caller", i).at < Loc("caller", j).at
  <2> TAKE i, j \in RegsToPass
  <2>1. i \in OutValues /\ j \in OutValues /\ Loc("caller", i).kind = "reg" /\ Loc("caller", j).kind = "reg"
    BY <1>4 DEF RegsToPass, MemOps
  <2> QED BY <2>1, <1>2, <1>3 DEF Apart
<1>7. \A i \in MemOps \cup RegsToPass : i \in OutValues /\ i \in Int
  BY <1>3 DEF MemOps, RegsToPass
<1>8. \A i, j \in RegsToPass : i # j => i < j \/ j < i
  BY <1>7
<1>9. \A i, j \in MemOps : i # j => i < j \/ j < i
  BY <1>7
<1>10. \A i \in RegsToPass : Loc("caller", i).at \in Int
  BY <1>4, <1>7
<1> QED BY <1>5, <1>6, <1>8, <1>9, <1>10

\* Memory that is the same at the addresses of the arguments and above.
LEMMA KeptFromZero ==
    ASSUME TypeOK, LowerInv, AllReady, NEW m, \A c \in Nat : Read(m, c) = Read(mem, c)
    PROVE  /\ \A i \in MemOps : InMemory(mem, i) => InMemory(m, i)
           /\ OwnKept("sequence", mem) => OwnKept("sequence", m)
<1>1. /\ \A i \in MemOps : Loc("caller", i).at \in Nat /\ Num(i) \in Nat
      /\ OwnStart \in Nat
  BY Ready
<1>2. ASSUME NEW i \in MemOps, InMemory(mem, i)
      PROVE  InMemory(m, i)
  <2>1. ASSUME NEW b \in 0 .. Num(i) - 1
        PROVE  Read(m, Loc("caller", i).at + b) = Sent(call, i)[b]
    <3>1. Loc("caller", i).at + b \in Nat
      BY <1>1
    <3> QED BY <3>1, <1>2 DEF InMemory
  <2> QED BY <2>1 DEF InMemory
<1>3. ASSUME OwnKept("sequence", mem), NEW a \in OwnStart .. OwnStart + OwnBytes - 1
      PROVE  Read(m, a) = Own(a)
  <2>1. a \in Nat
    BY <1>1, OwnBytesAssumption
  <2> QED BY <2>1, <1>3 DEF OwnKept
<1> QED BY <1>2, <1>3 DEF OwnKept

\* Memory after something is stored where operand i is.
LEMMA KeptBeside ==
    ASSUME TypeOK, LowerInv, AllReady, NEW i \in MemOps, NEW v, DOMAIN v = 0 .. Num(i) - 1,
           NEW m, m = Store(mem, Loc("caller", i).at, v)
    PROVE  /\ \A j \in MemOps \ {i} : InMemory(mem, j) => InMemory(m, j)
           /\ OwnKept("sequence", mem) => OwnKept("sequence", m)
<1> DEFINE L == Loc("caller", i).at
<1>1. /\ L \in Nat /\ Num(i) \in Nat /\ L + Num(i) <= NumBytes /\ NumBytes \in Nat
      /\ OwnStart \in Nat /\ OwnStart >= NumBytes
      /\ \A j \in MemOps : Loc("caller", j).at \in Nat /\ Num(j) \in Nat
  BY Ready
<1>2. DOMAIN mem \subseteq Int /\ DOMAIN v \subseteq Int
  BY DEF TypeOK
<1> HIDE DEF L
<1>3. \A c \in Int : Read(m, c) = IF c - L \in DOMAIN v THEN v[c - L] ELSE Read(mem, c)
  <2> TAKE c \in Int
  <2>1. L \in Int /\ m = Store(mem, L, v)
    BY <1>1 DEF L
  <2>2. Read(Store(mem, L, v), c) = IF c - L \in DOMAIN v THEN v[c - L] ELSE Read(mem, c)
    BY <2>1, <1>2, ReadStore, Zenon
  <2> QED BY <2>1, <2>2
<1>4. ASSUME NEW j \in MemOps \ {i}, InMemory(mem, j), NEW b \in 0 .. Num(j) - 1
      PROVE  Read(m, Loc("caller", j).at + b) = Sent(call, j)[b]
  <2> DEFINE c == Loc("caller", j).at + b
  <2>1. Loc("caller", j).at \in Nat /\ Num(j) \in Nat /\ c \in Int
    BY <1>1
  <2>2. L + Num(i) <= Loc("caller", j).at \/ Loc("caller", j).at + Num(j) <= L
    BY OperandsApart DEF L
  <2>3. c - L \notin 0 .. Num(i) - 1
    BY <1>1, <2>1, <2>2
  <2>4. Read(m, c) = Read(mem, c)
    BY <1>3, <2>1, <2>3
  <2> QED BY <2>4, <1>4 DEF InMemory
<1>5. ASSUME OwnKept("sequence", mem), NEW a \in OwnStart .. OwnStart + OwnBytes - 1
      PROVE  Read(m, a) = Own(a)
  <2>1. a \in Int /\ a - L \notin 0 .. Num(i) - 1
    BY <1>1, OwnBytesAssumption
  <2>2. Read(m, a) = Read(mem, a)
    BY <2>1, <1>3
  <2> QED BY <2>2, <1>5 DEF OwnKept
<1> QED BY <1>4, <1>5 DEF OwnKept, InMemory

\* All that a step of the machine starts from.
Ran == TypeOK /\ LowerInv /\ MachineInv /\ AllReady

\* A step of the machine keeps the invariant if it keeps these parts.
LEMMA MachineStep ==
    ASSUME Ran, NoCompile, MachineType',
           Passing(pc', reg', mem', stored', written', inVals'),
           Returning(pc', reg', returned', back'), OwnKept(pc', mem')
    PROVE  IInv'
<1>1. CompileType' /\ LowerInv'
  BY TypeParts, CompileSame DEF Ran
<1>2. MachineInv'
  BY MachineInvNext DEF MachineInv
<1>3. call' \in Calls
  BY DEF Ran, TypeOK, NoCompile
<1> QED BY <1>1, <1>2, <1>3 DEF IInv, TypeOK, CompileType, MachineType, MemType

LEMMA CallSeqStartInv ==
    ASSUME Ran, CallSeqStart
    PROVE  IInv'
<1>1. /\ pc = "idle" /\ pc' = "sequence" /\ NoCompile
      /\ mem' = [a \in OwnStart .. OwnStart + OwnBytes - 1 |-> Own(a)]
      /\ UNCHANGED <<reg, stored, written, inVals, returned, back>>
  BY DEF CallSeqStart
<1>2. /\ Passing(pc, reg, mem, stored, written, inVals) /\ Returning(pc, reg, returned, back) /\ MachineType
      /\ OwnStart \in Nat /\ OwnBytes \in Nat
  BY TypeParts, Ready, OwnBytesAssumption DEF Ran, MachineInv, PassInv, ResultInv
<1>3. MemType(mem')
  BY <1>1, <1>2 DEF MemType, Own, Byte
<1>4. MachineType'
  BY <1>1, <1>2, <1>3, MachineTypeNext DEF MachineType
<1>5. Passing(pc', reg', mem', stored', written', inVals')
  BY <1>1, <1>2 DEF Passing, Running
<1>6. Returning(pc', reg', returned', back')
  BY <1>1, <1>2 DEF Returning
<1>7. OwnKept(pc', mem')
  BY <1>1, <1>2 DEF OwnKept, Read
<1> QED BY <1>1, <1>4, <1>5, <1>6, <1>7, MachineStep

LEMMA StoreArgumentInv ==
    ASSUME Ran, StoreArgument
    PROVE  IInv'
<1>1. PICK i \in MemOps \ stored :
         mem' = Store(mem, Loc("caller", i).at, Sent(call, i)) /\ stored' = stored \cup {i}
  BY DEF StoreArgument
<1>2. pc = "sequence" /\ pc' = pc /\ UNCHANGED <<reg, written, inVals, returned, back>> /\ NoCompile
  BY DEF StoreArgument
<1>3. /\ Passing(pc, reg, mem, stored, written, inVals) /\ Returning(pc, reg, returned, back)
      /\ OwnKept(pc, mem) /\ MachineType
  BY TypeParts DEF Ran, MachineInv, PassInv, ResultInv, FrameInv
<1>4. i \in OutValues /\ i \notin RegsToPass /\ Loc("caller", i).at \in Int
  BY Ready DEF MemOps, RegsToPass, Ran
<1>5. /\ DOMAIN Sent(call, i) = 0 .. Num(i) - 1 /\ DOMAIN Sent(call, i) \subseteq Int
      /\ \A b \in DOMAIN Sent(call, i) : Sent(call, i)[b] \in Byte
  BY <1>4, SentType DEF Ran, TypeOK
<1>6. MemType(mem')
  BY <1>1, <1>3, <1>4, <1>5, StoreType DEF MachineType
<1>7. /\ \A j \in MemOps \ {i} : InMemory(mem, j) => InMemory(mem', j)
      /\ InMemory(mem', i)
      /\ OwnKept("sequence", mem) => OwnKept("sequence", mem')
  <2>1. /\ \A j \in MemOps \ {i} : InMemory(mem, j) => InMemory(mem', j)
        /\ \A b \in 0 .. Num(i) - 1 : Read(mem', Loc("caller", i).at + b) = Sent(call, i)[b]
        /\ OwnKept("sequence", mem) => OwnKept("sequence", mem')
    <3> DEFINE v == Sent(call, i)
    <3>1. TypeOK /\ LowerInv /\ AllReady /\ i \in MemOps
      BY DEF Ran
    <3>2. DOMAIN v = 0 .. Num(i) - 1 /\ mem' = Store(mem, Loc("caller", i).at, v)
      BY <1>1, <1>5
    <3> HIDE DEF v
    <3>3. /\ \A j \in MemOps \ {i} : InMemory(mem, j) => InMemory(mem', j)
          /\ OwnKept("sequence", mem) => OwnKept("sequence", mem')
      BY <3>1, <3>2, KeptBeside
    <3>4. \A b \in 0 .. Num(i) - 1 : Read(mem', Loc("caller", i).at + b) = v[b]
      <4> TAKE b \in 0 .. Num(i) - 1
      <4> DEFINE L == Loc("caller", i).at
                 c == L + b
      <4>1. /\ L \in Int /\ c \in Int /\ c - L = b /\ b \in DOMAIN v
            /\ DOMAIN v \subseteq Int /\ DOMAIN mem \subseteq Int /\ mem' = Store(mem, L, v)
        BY <3>1, <3>2, <1>4 DEF TypeOK
      <4> HIDE DEF L, c
      <4>2. Read(Store(mem, L, v), c) = IF c - L \in DOMAIN v THEN v[c - L] ELSE Read(mem, c)
        BY <4>1, ReadStore, Zenon
      <4>3. Read(mem', c) = v[b]
        BY <4>1, <4>2
      <4> QED BY <4>3 DEF L, c
    <3> QED BY <3>3, <3>4 DEF v
  <2> QED BY <2>1 DEF InMemory
<1>8. MachineType'
  BY <1>1, <1>2, <1>3, <1>4, <1>6, MachineTypeNext DEF MachineType
<1>9. Passing(pc', reg', mem', stored', written', inVals')
  <2>1. \A j \in MemOps \cap (stored' \ written') : InMemory(mem', j)
    BY <1>1, <1>2, <1>3, <1>7 DEF Passing
  <2>2. \A j \in RegsToPass \cap stored' : InRegister(reg', j)
    BY <1>1, <1>2, <1>3, <1>4 DEF Passing, InRegister
  <2> QED BY <2>1, <2>2, <1>2, <1>3 DEF Passing, Running
<1> QED BY <1>2, <1>3, <1>7, <1>8, <1>9, MachineStep

LEMMA CopyToRegInv ==
    ASSUME Ran, CopyToReg
    PROVE  IInv'
<1>1. PICK i \in RegsToPass \ stored :
         reg' = [reg EXCEPT ![Loc("caller", i).at] = Sent(call, i)] /\ stored' = stored \cup {i}
  BY DEF CopyToReg
<1>2. pc = "sequence" /\ pc' = pc /\ UNCHANGED <<mem, written, inVals, returned, back>> /\ NoCompile
  BY DEF CopyToReg
<1>3. /\ Passing(pc, reg, mem, stored, written, inVals) /\ Returning(pc, reg, returned, back)
      /\ OwnKept(pc, mem) /\ MachineType
  BY TypeParts DEF Ran, MachineInv, PassInv, ResultInv, FrameInv
<1>4. i \in OutValues /\ i \notin MemOps /\ Loc("caller", i).at \in ArgRegs /\ Num(i) = 4
  BY Ready DEF RegsToPass, Ran
<1>5. Sent(call, i) \in Word
  BY <1>4, SentType DEF Ran, TypeOK
<1>6. reg' \in [ArgRegs -> Word]
  BY <1>1, <1>3, <1>5 DEF MachineType
<1>7. MachineType'
  BY <1>1, <1>2, <1>3, <1>4, <1>6, MachineTypeNext DEF MachineType
<1>8. ASSUME NEW j \in RegsToPass \cap stored'
      PROVE  InRegister(reg', j)
  <2>1. CASE j = i
    BY <2>1, <1>1, <1>3, <1>4 DEF InRegister, MachineType
  <2>2. CASE j # i
    <3>1. j \in stored /\ InRegister(reg, j)
      BY <2>2, <1>1, <1>2, <1>3 DEF Passing
    <3>2. Loc("caller", j).at # Loc("caller", i).at /\ Loc("caller", j).at \in ArgRegs
      BY <2>2, OperandsApart, Ready DEF Ran
    <3> QED BY <3>1, <3>2, <1>1, <1>3 DEF InRegister, MachineType
  <2> QED BY <2>1, <2>2
<1>9. \A j \in MemOps \cap (stored' \ written') : InMemory(mem', j)
  BY <1>1, <1>2, <1>3, <1>4 DEF Passing
<1>10. Passing(pc', reg', mem', stored', written', inVals')
  BY <1>2, <1>3, <1>8, <1>9 DEF Passing, Running
<1>11. Returning(pc', reg', returned', back')
  BY <1>2, <1>3 DEF Returning
<1> QED BY <1>2, <1>3, <1>7, <1>10, <1>11, MachineStep

LEMMA CallInv ==
    ASSUME Ran, Call
    PROVE  IInv'
<1>1. /\ pc = "sequence" /\ pc' = "entry" /\ stored = OutValues /\ NoCompile
      /\ mem' = Store(mem, -4, RetAddrBytes)
      /\ UNCHANGED <<reg, stored, written, inVals, returned, back>>
  BY DEF Call
<1>2. /\ Passing(pc, reg, mem, stored, written, inVals) /\ Returning(pc, reg, returned, back)
      /\ OwnKept(pc, mem) /\ MachineType
  BY TypeParts DEF Ran, MachineInv, PassInv, ResultInv, FrameInv
<1>3. DOMAIN RetAddrBytes = 0 .. 3 /\ \A b \in DOMAIN RetAddrBytes : RetAddrBytes[b] \in Byte
  BY DEF RetAddrBytes, Bytes, Byte
<1>4. MemType(mem')
  <2>1. -4 \in Int /\ DOMAIN RetAddrBytes \subseteq Int
    BY <1>3
  <2> QED BY <2>1, <1>1, <1>2, <1>3, StoreType DEF MachineType
<1>5. \A c \in Nat : Read(mem', c) = Read(mem, c)
  <2> TAKE c \in Nat
  <2>1. /\ -4 \in Int /\ DOMAIN RetAddrBytes \subseteq Int /\ DOMAIN mem \subseteq Int /\ c \in Int
        /\ c - (-4) \notin DOMAIN RetAddrBytes
    BY <1>2, <1>3 DEF MachineType, MemType
  <2>2. Read(Store(mem, -4, RetAddrBytes), c) =
           IF c - (-4) \in DOMAIN RetAddrBytes THEN RetAddrBytes[c - (-4)] ELSE Read(mem, c)
    BY <2>1, ReadStore, Zenon
  <2> QED BY <2>1, <2>2, <1>1
<1>6. /\ \A i \in MemOps : InMemory(mem, i) => InMemory(mem', i)
      /\ OwnKept("sequence", mem) => OwnKept("sequence", mem')
  BY <1>5, KeptFromZero DEF Ran
<1>7. MachineType'
  BY <1>1, <1>2, <1>4, MachineTypeNext DEF MachineType
<1>8. Passing(pc', reg', mem', stored', written', inVals')
  BY <1>1, <1>2, <1>6 DEF Passing, Running, InRegister
<1>9. Returning(pc', reg', returned', back') /\ OwnKept(pc', mem')
  BY <1>1, <1>2, <1>6 DEF Returning, OwnKept
<1> QED BY <1>1, <1>7, <1>8, <1>9, MachineStep

\* Once the call runs, the callee's view of the arguments is the caller's.
LEMMA CalleeView ==
    ASSUME Ran, NEW i \in StackFormals
    PROVE  /\ i \in MemOps /\ i \in 1 .. call.named /\ FixedObjectAddr(i) = Loc("caller", i).at
           /\ Num(i) \in Nat /\ Loc("caller", i).at \in Nat
<1>1. i \in MemOps /\ i \in 1 .. call.named /\ Loc("callee", i) = Loc("caller", i)
  BY Ready DEF Ran
<1>2. fixedObjs[i] = Loc("callee", i).at
  BY Ready DEF Ran
<1>3. Loc("caller", i).at \in Nat /\ Num(i) \in Nat
  BY <1>1, Ready DEF Ran
<1> QED BY <1>1, <1>2, <1>3 DEF FixedObjectAddr, EntrySP

LEMMA ReadsSent ==
    ASSUME Ran, NEW i \in StackFormals, InMemory(mem, i)
    PROVE  LoadBytes(FixedObjectAddr(i), call.outs[i].size) = Sent(call, i)
<1>1. i \in MemOps /\ FixedObjectAddr(i) = Loc("caller", i).at
  BY CalleeView
<1>2. LoadBytes(FixedObjectAddr(i), call.outs[i].size)
         = [b \in 0 .. Num(i) - 1 |-> Read(mem, Loc("caller", i).at + b)]
  BY <1>1 DEF LoadBytes, Load, Num
<1>3. Sent(call, i) \in [0 .. Num(i) - 1 -> Byte]
  BY <1>1, SentType DEF Ran, TypeOK, MemOps
<1>4. Sent(call, i) = [b \in 0 .. Num(i) - 1 |-> Sent(call, i)[b]]
  BY <1>3
<1> QED BY <1>2, <1>4 DEF InMemory

\* The parts of the invariant, to cite them at once.
LEMMA Parts ==
    ASSUME Ran
    PROVE  /\ Passing(pc, reg, mem, stored, written, inVals) /\ Returning(pc, reg, returned, back)
           /\ OwnKept(pc, mem) /\ MachineType
           /\ call.results \in Nat /\ call.results <= 4
  BY TypeParts, Ready DEF Ran, MachineInv, PassInv, ResultInv, FrameInv

LEMMA CopyLiveInsInv ==
    ASSUME Ran, CopyLiveIns
    PROVE  IInv'
<1>1. /\ pc = "entry" /\ pc' = "body" /\ NoCompile
      /\ inVals' = [i \in 1 .. call.named \ StackFormals |-> reg[Loc("callee", i).at]]
      /\ UNCHANGED <<reg, mem, stored, written, returned, back>>
  BY DEF CopyLiveIns
<1>2. ASSUME NEW i \in DOMAIN inVals'
      PROVE  /\ i \in 1 .. call.named /\ inVals'[i] = Sent(call, i)
             /\ inVals'[i] \in [0 .. call.outs[i].size - 1 -> Byte]
  <2>1. i \in 1 .. call.named \ StackFormals /\ inVals'[i] = reg[Loc("callee", i).at]
    BY <1>1
  <2>2. i \in RegsToPass /\ Loc("callee", i) = Loc("caller", i) /\ i \in OutValues
    BY <2>1, Ready DEF Ran, RegsToPass
  <2>3. InRegister(reg, i)
    BY <2>2, <1>1, Parts DEF Passing, Running
  <2>4. Sent(call, i) \in [0 .. call.outs[i].size - 1 -> Byte]
    BY <2>2, SentType DEF Ran, TypeOK, Num
  <2> QED BY <2>1, <2>2, <2>3, <2>4 DEF InRegister
<1>3. DOMAIN inVals' \subseteq 1 .. call.named
  BY <1>2
<1>4. MachineType'
  BY <1>1, <1>2, <1>3, Parts, MachineTypeNext DEF MachineType
<1>5. Passing(pc', reg', mem', stored', written', inVals')
  BY <1>1, <1>2, Parts DEF Passing, Running
<1>6. Returning(pc', reg', returned', back') /\ OwnKept(pc', mem')
  BY <1>1, Parts DEF Returning, OwnKept
<1> QED BY <1>1, <1>4, <1>5, <1>6, MachineStep

LEMMA LoadArgumentInv ==
    ASSUME Ran, LoadArgument
    PROVE  IInv'
<1>1. /\ pc = "body" /\ pc' = pc /\ NoCompile
      /\ UNCHANGED <<reg, mem, stored, written, returned, back>>
  BY DEF LoadArgument
<1>2. PICK i \in StackFormals \ (DOMAIN inVals \cup written) :
         inVals' = [k \in DOMAIN inVals \cup {i} |->
                       IF k = i THEN LoadBytes(FixedObjectAddr(i), call.outs[i].size) ELSE inVals[k]]
  BY DEF LoadArgument
<1>3. i \in MemOps /\ i \in 1 .. call.named /\ i \in OutValues
  BY CalleeView DEF MemOps
<1>4. InMemory(mem, i)
  BY <1>1, <1>2, <1>3, Parts DEF Passing, Running
<1>5. LoadBytes(FixedObjectAddr(i), call.outs[i].size) = Sent(call, i)
  BY <1>4, ReadsSent
<1>6. ASSUME NEW k \in DOMAIN inVals'
      PROVE  /\ k \in 1 .. call.named /\ inVals'[k] = Sent(call, k)
             /\ inVals'[k] \in [0 .. call.outs[k].size - 1 -> Byte]
  <2>1. CASE k = i
    <3>1. Sent(call, i) \in [0 .. call.outs[i].size - 1 -> Byte]
      BY <1>3, SentType DEF Ran, TypeOK, Num
    <3> QED BY <2>1, <3>1, <1>2, <1>3, <1>5
  <2>2. CASE k # i
    <3>1. k \in DOMAIN inVals /\ inVals'[k] = inVals[k]
      BY <2>2, <1>2
    <3> QED BY <3>1, Parts DEF Passing, MachineType
  <2> QED BY <2>1, <2>2
<1>7. DOMAIN inVals' \subseteq 1 .. call.named
  BY <1>6
<1>8. MachineType'
  BY <1>1, <1>6, <1>7, Parts, MachineTypeNext DEF MachineType
<1>9. Passing(pc', reg', mem', stored', written', inVals')
  BY <1>1, <1>6, Parts DEF Passing, Running
<1>10. Returning(pc', reg', returned', back') /\ OwnKept(pc', mem')
  BY <1>1, Parts DEF Returning, OwnKept
<1> QED BY <1>1, <1>8, <1>9, <1>10, MachineStep

LEMMA WriteBlockInv ==
    ASSUME Ran, WriteBlock
    PROVE  IInv'
<1>1. /\ pc = "body" /\ pc' = pc /\ NoCompile
      /\ UNCHANGED <<reg, stored, inVals, returned, back>>
  BY DEF WriteBlock
<1>2. PICK i \in StackFormals :
         /\ mem' = Store(mem, FixedObjectAddr(i), [b \in 0 .. call.outs[i].size - 1 |-> Junk])
         /\ written' = written \cup {i}
  BY DEF WriteBlock
<1>3. /\ i \in MemOps /\ i \in 1 .. call.named /\ FixedObjectAddr(i) = Loc("caller", i).at
      /\ Loc("caller", i).at \in Int
  BY CalleeView
<1> DEFINE v == [b \in 0 .. Num(i) - 1 |-> Junk]
<1>4. DOMAIN v = 0 .. Num(i) - 1 /\ DOMAIN v \subseteq Int /\ \A b \in DOMAIN v : v[b] \in Byte
  BY DEF Junk, Byte
<1>5. mem' = Store(mem, Loc("caller", i).at, v)
  BY <1>2, <1>3 DEF Num
<1> HIDE DEF v
<1>6. MemType(mem')
  BY <1>3, <1>4, <1>5, Parts, StoreType DEF MachineType
<1>7. /\ \A j \in MemOps \ {i} : InMemory(mem, j) => InMemory(mem', j)
      /\ OwnKept("sequence", mem) => OwnKept("sequence", mem')
  <2>1. TypeOK /\ LowerInv /\ AllReady
    BY DEF Ran
  <2> QED BY <2>1, <1>3, <1>4, <1>5, KeptBeside
<1>8. MachineType'
  BY <1>1, <1>2, <1>3, <1>6, Parts, MachineTypeNext DEF MachineType
<1>9. Passing(pc', reg', mem', stored', written', inVals')
  <2>1. \A j \in MemOps \cap (stored' \ written') : InMemory(mem', j)
    BY <1>1, <1>2, <1>7, Parts DEF Passing, Running
  <2> QED BY <2>1, <1>1, Parts DEF Passing, Running
<1>10. Returning(pc', reg', returned', back') /\ OwnKept(pc', mem')
  BY <1>1, <1>7, Parts DEF Returning, OwnKept
<1> QED BY <1>1, <1>8, <1>9, <1>10, MachineStep

\* Others use the stack below a word at or below 0.
LEMMA AboveKeeps ==
    ASSUME Ran, NEW a \in {-4, 0}
    PROVE  /\ MemType(Above(a))
           /\ \A i \in MemOps : InMemory(mem, i) => InMemory(Above(a), i)
           /\ OwnKept("sequence", mem) => OwnKept("sequence", Above(a))
<1>1. a \in Int /\ MemType(mem)
  BY Parts DEF MachineType
<1>2. MemType(Above(a)) /\ \A c \in Int : c >= a => Read(Above(a), c) = Load(c)
  BY <1>1, AboveType
<1>3. \A c \in Nat : Read(Above(a), c) = Read(mem, c)
  BY <1>2 DEF Load
<1>4. TypeOK /\ LowerInv /\ AllReady
  BY DEF Ran
<1> QED BY <1>2, <1>3, <1>4, KeptFromZero

LEMMA WorkInv ==
    ASSUME Ran, Work
    PROVE  IInv'
<1>1. /\ pc = "body" /\ pc' = pc /\ NoCompile
      /\ reg' = [r \in ArgRegs |-> [b \in 0 .. 3 |-> Junk]] /\ mem' = Above(-4)
      /\ UNCHANGED <<stored, written, inVals, returned, back>>
  BY DEF Work, EntrySP
<1>2. /\ MemType(mem')
      /\ \A i \in MemOps : InMemory(mem, i) => InMemory(mem', i)
      /\ OwnKept("sequence", mem) => OwnKept("sequence", mem')
  BY <1>1, AboveKeeps
<1>3. MachineType'
  <2>1. reg' \in [ArgRegs -> Word]
    BY <1>1, JunkWord
  <2> QED BY <2>1, <1>1, <1>2, Parts, MachineTypeNext DEF MachineType
<1>4. Passing(pc', reg', mem', stored', written', inVals')
  BY <1>1, <1>2, Parts DEF Passing, Running
<1>5. Returning(pc', reg', returned', back') /\ OwnKept(pc', mem')
  BY <1>1, <1>2, Parts DEF Returning, OwnKept
<1> QED BY <1>1, <1>3, <1>4, <1>5, MachineStep

LEMMA CopyResultInv ==
    ASSUME Ran, CopyResult
    PROVE  IInv'
<1>1. /\ pc \in {"body", "return"} /\ returned < call.results /\ pc' = "return" /\ NoCompile
      /\ returned' = returned + 1
      /\ reg' = [reg EXCEPT ![ReturnReg(returned + 1)] = Result(returned + 1)]
      /\ UNCHANGED <<mem, stored, written, inVals, back>>
  BY DEF CopyResult
<1>2. /\ returned \in Nat /\ returned' \in 0 .. call.results /\ returned' \in Nat
      /\ reg \in [ArgRegs -> Word]
  BY <1>1, Parts DEF MachineType
<1>3. \A k \in 1 .. returned' : ReturnReg(k) \in ArgRegs
  BY <1>2, Parts DEF ReturnReg, ArgRegs
<1>4. reg' \in [ArgRegs -> Word]
  <2>1. Result(returned + 1) \in Word
    BY <1>2, ResultType
  <2> QED BY <2>1, <1>1, <1>2
<1>5. MachineType'
  BY <1>1, <1>2, <1>4, Parts, MachineTypeNext DEF MachineType
<1>6. ASSUME NEW k \in 1 .. returned'
      PROVE  reg'[ReturnReg(k)] = Result(k)
  <2>1. CASE k = returned + 1
    BY <2>1, <1>1, <1>2, <1>3
  <2>2. CASE k # returned + 1
    <3>1. k \in 1 .. returned
      BY <2>2, <1>1, <1>2
    <3>2. pc = "return"
      BY <3>1, <1>1, <1>2, Parts DEF Returning
    <3>3. reg[ReturnReg(k)] = Result(k)
      BY <3>1, <3>2, Parts DEF Returning
    <3>4. ReturnReg(k) # ReturnReg(returned + 1)
      BY <3>1, <1>2 DEF ReturnReg
    <3>5. ReturnReg(k) \in ArgRegs
      BY <1>3
    <3> QED BY <3>3, <3>4, <3>5, <1>1, <1>2
  <2> QED BY <2>1, <2>2
<1>7. Passing(pc', reg', mem', stored', written', inVals')
  BY <1>1, Parts DEF Passing, Running
<1>8. Returning(pc', reg', returned', back') /\ OwnKept(pc', mem')
  BY <1>1, <1>6, Parts DEF Returning, OwnKept
<1> QED BY <1>1, <1>5, <1>7, <1>8, MachineStep

LEMMA ReturnInv ==
    ASSUME Ran, Return
    PROVE  IInv'
<1>1. /\ pc \in {"body", "return"} /\ returned = call.results /\ pc' = "back" /\ NoCompile
      /\ reg' = [r \in ArgRegs |-> IF r \in liveOut THEN reg[r] ELSE [b \in 0 .. 3 |-> Junk]]
      /\ mem' = Above(0)
      /\ UNCHANGED <<stored, written, inVals, returned, back>>
  <2>1. EntrySP + 4 = 0
    BY DEF EntrySP
  <2> QED BY <2>1 DEF Return
<1>2. MemType(mem') /\ (OwnKept("sequence", mem) => OwnKept("sequence", mem'))
  BY <1>1, AboveKeeps
<1>3. returned \in Nat /\ reg \in [ArgRegs -> Word]
  BY Parts DEF MachineType
<1>4. MachineType'
  <2>1. reg' \in [ArgRegs -> Word]
    BY <1>1, <1>3, JunkWord
  <2> QED BY <2>1, <1>1, <1>2, Parts, MachineTypeNext DEF MachineType
<1>5. ASSUME NEW k \in 1 .. returned
      PROVE  reg'[ReturnReg(k)] = Result(k)
  <2>1. pc = "return"
    BY <1>1, <1>3, Parts DEF Returning
  <2>2. reg[ReturnReg(k)] = Result(k)
    BY <2>1, Parts DEF Returning
  <2>3. ReturnReg(k) \in liveOut
    BY <1>1, Ready DEF Ran, LiveOut
  <2>4. ReturnReg(k) \in ArgRegs
    BY <1>1, Parts DEF ReturnReg, ArgRegs
  <2> QED BY <2>2, <2>3, <2>4, <1>1
<1>6. Passing(pc', reg', mem', stored', written', inVals')
  BY <1>1, Parts DEF Passing, Running
<1>7. Returning(pc', reg', returned', back') /\ OwnKept(pc', mem')
  BY <1>1, <1>2, <1>5, Parts DEF Returning, OwnKept
<1> QED BY <1>1, <1>4, <1>6, <1>7, MachineStep

LEMMA CopyFromRegInv ==
    ASSUME Ran, CopyFromReg
    PROVE  IInv'
<1> DEFINE k == Len(back) + 1
<1>1. /\ pc = "back" /\ pc' = pc /\ Len(back) < call.results /\ NoCompile
      /\ back' = Append(back, reg[ReturnReg(k)])
      /\ UNCHANGED <<reg, mem, stored, written, inVals, returned>>
  BY DEF CopyFromReg
<1>2. back \in Seq(Word) /\ Len(back) \in Nat /\ k \in Nat /\ k <= call.results
  BY <1>1, Parts DEF MachineType
<1>3. reg[ReturnReg(k)] = Result(k)
  BY <1>1, <1>2, Parts DEF Returning
<1>4. Result(k) \in Word
  BY <1>2, ResultType
<1>5. /\ back' \in Seq(Word) /\ Len(back') = k /\ back'[k] = Result(k)
      /\ \A j \in 1 .. Len(back) : back'[j] = back[j]
  BY <1>1, <1>2, <1>3, <1>4, AppendProperties
<1>6. \A j \in 1 .. Len(back') : back'[j] = Result(j)
  <2> TAKE j \in 1 .. Len(back')
  <2>1. j = k \/ j \in 1 .. Len(back)
    BY <1>2, <1>5
  <2>2. \A l \in 1 .. Len(back) : back[l] = Result(l)
    BY Parts DEF Returning
  <2> QED BY <2>1, <2>2, <1>5
<1> HIDE DEF k
<1>7. MachineType'
  BY <1>1, <1>2, <1>5, Parts, MachineTypeNext DEF MachineType
<1>8. Passing(pc', reg', mem', stored', written', inVals')
  BY <1>1, Parts DEF Passing, Running
<1>9. Returning(pc', reg', returned', back') /\ OwnKept(pc', mem')
  BY <1>1, <1>6, Parts DEF Returning, OwnKept
<1> QED BY <1>1, <1>7, <1>8, <1>9, MachineStep

LEMMA DoneInv ==
    ASSUME Ran, Done
    PROVE  IInv'
<1>1. /\ pc = "back" /\ pc' = "done" /\ Len(back) = call.results /\ NoCompile
      /\ UNCHANGED <<reg, mem, stored, written, inVals, returned, back>>
  BY DEF Done
<1>2. MachineType'
  BY <1>1, Parts, MachineTypeNext DEF MachineType
<1>3. /\ Passing(pc', reg', mem', stored', written', inVals')
      /\ Returning(pc', reg', returned', back') /\ OwnKept(pc', mem')
  BY <1>1, Parts DEF Passing, Returning, OwnKept, Running
<1> QED BY <1>1, <1>2, <1>3, MachineStep

LEMMA InterruptInv ==
    ASSUME Ran, Interrupt
    PROVE  IInv'
<1>1. /\ pc # "idle" /\ pc' = pc /\ NoCompile
      /\ mem' = Above(SP) /\ SP \in {-4, 0}
      /\ UNCHANGED <<reg, stored, written, inVals, returned, back>>
  BY DEF Interrupt, SP, EntrySP
<1>2. /\ MemType(mem')
      /\ \A i \in MemOps : InMemory(mem, i) => InMemory(mem', i)
      /\ OwnKept("sequence", mem) => OwnKept("sequence", mem')
  BY <1>1, AboveKeeps
<1>3. MachineType'
  BY <1>1, <1>2, Parts, MachineTypeNext DEF MachineType
<1>4. Passing(pc', reg', mem', stored', written', inVals')
  BY <1>1, <1>2, Parts DEF Passing, Running
<1>5. Returning(pc', reg', returned', back') /\ OwnKept(pc', mem')
  BY <1>1, <1>2, Parts DEF Returning, OwnKept
<1> QED BY <1>1, <1>3, <1>4, <1>5, MachineStep

-----------------------------------------------------------------------------
(* The theorems.                                                           *)

\* A step of the machine happens only once both sides are ready.
LEMMA RanWhenReady ==
    ASSUME IInv, pc # "idle"
    PROVE  Ran
  BY DEF IInv, Ran, LowerInv, StageInv, AllReady

LEMMA NextInv == IInv /\ [Next]_vars => IInv'
<1> SUFFICES ASSUME IInv, [Next]_vars PROVE IInv'
  OBVIOUS
<1>1. CASE Compile
  BY <1>1, CompileInv
<1>2. CASE CallSeqStart
  <2>1. Ran
    BY <1>2 DEF CallSeqStart, Ran, IInv, AllReady
  <2> QED BY <2>1, <1>2, CallSeqStartInv
<1>3. CASE StoreArgument
  <2>1. pc # "idle"
    BY <1>3 DEF StoreArgument
  <2> QED BY <2>1, <1>3, RanWhenReady, StoreArgumentInv
<1>4. CASE CopyToReg
  <2>1. pc # "idle"
    BY <1>4 DEF CopyToReg
  <2> QED BY <2>1, <1>4, RanWhenReady, CopyToRegInv
<1>5. CASE Call
  <2>1. pc # "idle"
    BY <1>5 DEF Call
  <2> QED BY <2>1, <1>5, RanWhenReady, CallInv
<1>6. CASE CopyLiveIns
  <2>1. pc # "idle"
    BY <1>6 DEF CopyLiveIns
  <2> QED BY <2>1, <1>6, RanWhenReady, CopyLiveInsInv
<1>7. CASE LoadArgument
  <2>1. pc # "idle"
    BY <1>7 DEF LoadArgument
  <2> QED BY <2>1, <1>7, RanWhenReady, LoadArgumentInv
<1>8. CASE WriteBlock
  <2>1. pc # "idle"
    BY <1>8 DEF WriteBlock
  <2> QED BY <2>1, <1>8, RanWhenReady, WriteBlockInv
<1>9. CASE Work
  <2>1. pc # "idle"
    BY <1>9 DEF Work
  <2> QED BY <2>1, <1>9, RanWhenReady, WorkInv
<1>10. CASE CopyResult
  <2>1. pc # "idle"
    BY <1>10 DEF CopyResult
  <2> QED BY <2>1, <1>10, RanWhenReady, CopyResultInv
<1>11. CASE Return
  <2>1. pc # "idle"
    BY <1>11 DEF Return
  <2> QED BY <2>1, <1>11, RanWhenReady, ReturnInv
<1>12. CASE CopyFromReg
  <2>1. pc # "idle"
    BY <1>12 DEF CopyFromReg
  <2> QED BY <2>1, <1>12, RanWhenReady, CopyFromRegInv
<1>13. CASE Done
  <2>1. pc # "idle"
    BY <1>13 DEF Done
  <2> QED BY <2>1, <1>13, RanWhenReady, DoneInv
<1>14. CASE Interrupt
  <2>1. pc # "idle"
    BY <1>14 DEF Interrupt
  <2> QED BY <2>1, <1>14, RanWhenReady, InterruptInv
<1>15. CASE UNCHANGED vars
  <2>1. UNCHANGED <<call, stage, ccs, fixedObjs, liveOut>> /\ UNCHANGED machineVars
    BY <1>15 DEF vars, compileVars
  <2>2. LowerInv'
    <3>1. pc' = pc
      BY <2>1 DEF machineVars
    <3>2. StageInv'
      BY <2>1, <3>1 DEF IInv, LowerInv, StageInv, Assigned, StackFormals, Loc, LiveOut
    <3> QED BY <2>1, <3>2, LocationsSame DEF IInv, LowerInv
  <2>3. TypeOK'
    BY <2>1 DEF IInv, TypeOK, machineVars, OutValues
  <2>4. MachineInv'
    <3>1. NoCompile
      BY <2>1 DEF NoCompile, compileVars
    <3> QED BY <2>1, <3>1, MachineInvNext DEF IInv, MachineInv, PassInv, ResultInv, FrameInv, machineVars
  <2> QED BY <2>2, <2>3, <2>4 DEF IInv
<1> QED BY <1>1, <1>2, <1>3, <1>4, <1>5, <1>6, <1>7, <1>8, <1>9, <1>10, <1>11, <1>12, <1>13, <1>14, <1>15
        DEF Next, Progress

THEOREM Invariant == Spec => []IInv
<1>1. Init => IInv
  BY InitInv
<1>2. IInv /\ [Next]_vars => IInv'
  BY NextInv
<1> QED BY <1>1, <1>2, PTL DEF Spec

(* The types of the lowering's and the machine's state.                    *)
THEOREM TypeCorrect == Spec => []TypeOK
<1>1. IInv => TypeOK
  BY DEF IInv
<1> QED BY <1>1, Invariant, PTL

(* Caller and callee, each on its own, give every operand both of them     *)
(* know of the same register or stack word (the conventions of             *)
(* KudeyarCallingConv.td as LowerCCCCallTo and LowerCCCArguments use them).*)
THEOREM SidesAgree == Spec => []Agree
<1>1. IInv => Agree
  BY DEF IInv, LowerInv
<1> QED BY <1>1, Invariant, PTL

(* Every argument the callee takes is the one the caller passed, and a     *)
(* stack argument stays what it was while the callee runs, whatever the    *)
(* number, size and alignment of the operands.                             *)
THEOREM ArgumentsCorrect == Spec => []ArgumentsArrive
<1>1. IInv => ArgumentsArrive
  <2> SUFFICES ASSUME IInv PROVE ArgumentsArrive
    OBVIOUS
  <2>1. \A i \in DOMAIN inVals : inVals[i] = Sent(call, i)
    BY DEF IInv, MachineInv, PassInv, Passing
  <2>2. ASSUME pc \in {"body", "return"}, NEW i \in StackFormals \ written
        PROVE  LoadBytes(FixedObjectAddr(i), call.outs[i].size) = Sent(call, i)
    <3>1. Ran
      BY <2>2, RanWhenReady
    <3>2. i \in MemOps /\ i \in OutValues
      BY <3>1, CalleeView DEF MemOps
    <3>3. InMemory(mem, i)
      BY <3>1, <3>2, <2>2, Parts DEF Passing, Running
    <3> QED BY <3>1, <3>3, ReadsSent
  <2> QED BY <2>1, <2>2 DEF ArgumentsArrive
<1> QED BY <1>1, Invariant, PTL

(* The caller takes the words of the result in the order the callee        *)
(* returned them (LowerReturn, LowerCallResult).                           *)
THEOREM ResultsCorrect == Spec => []ResultsArrive
<1>1. IInv => ResultsArrive
  <2> SUFFICES ASSUME IInv, pc = "done" PROVE back = [k \in 1 .. call.results |-> Result(k)]
    BY DEF ResultsArrive
  <2>1. Len(back) = call.results /\ \A k \in 1 .. Len(back) : back[k] = Result(k)
    BY DEF IInv, MachineInv, ResultInv, Returning
  <2>2. back \in Seq(Word)
    BY DEF IInv, TypeOK
  <2>3. back = [k \in 1 .. Len(back) |-> back[k]]
    BY <2>2
  <2> QED BY <2>1, <2>3
<1> QED BY <1>1, Invariant, PTL

(* What the two sides store for the call stays inside the bytes            *)
(* CALLSEQ_START sets apart: the caller's own frame is untouched.          *)
THEOREM CallerFrameCorrect == Spec => []CallerFrameKept
<1>1. IInv => CallerFrameKept
  BY DEF IInv, MachineInv, FrameInv, OwnKept, CallerFrameKept, Load
<1> QED BY <1>1, Invariant, PTL

-----------------------------------------------------------------------------
(* The two sides together implement the abstract call.                     *)

LEMMA InitPromise == Init => Promise!Init
<1> SUFFICES ASSUME Init PROVE Promise!Init
  OBVIOUS
<1>1. pc = "idle" /\ \A s \in Sides : stage[s] = "lower"
  BY DEF Init
<1>2. Turn = "caller"
  BY <1>1 DEF Turn, Refused
<1> QED BY <1>2 DEF Init, Promise!Init

\* The compiler's steps are invisible, or the end of a call that is refused.
LEMMA CompilePromise ==
    ASSUME IInv, Compile
    PROVE  Promise!Abandon \/ UNCHANGED <<call, Turn, inVals, back>>
<1>1. UNCHANGED <<call, machineVars>> /\ pc = "idle" /\ pc' = "idle"
  BY DEF Compile, LowerCall, AnalyzeCallOperands, LowerCallResult, LowerFormalArguments,
     AnalyzeFormalArguments, LowerCCCArguments, LowerReturn, Compiling, AnalyzeOperand, machineVars
<1>2. UNCHANGED <<call, inVals, back>>
  BY <1>1 DEF machineVars
<1>3. Turn' = IF \E s \in Sides : stage'[s] = "fatal" THEN "abandoned" ELSE "caller"
  BY <1>1 DEF Turn, Refused
<1>4. Turn = IF \E s \in Sides : stage[s] = "fatal" THEN "abandoned" ELSE "caller"
  BY <1>1 DEF Turn, Refused
<1>5. ASSUME NEW s \in Sides, stage[s] = "fatal"
      PROVE  stage'[s] = "fatal"
  <2>1. stage \in [Sides -> {"lower", "operands", "body", "ready", "fatal"}]
    BY DEF IInv, TypeOK
  <2>2. \A r \in Sides, from, to \in {"lower", "operands", "body", "ready", "fatal"} :
           from # "fatal" /\ Compiling(r, from) /\ Become(r, to) => stage'[s] = "fatal"
    BY <2>1, <1>5 DEF Compiling, Become
  <2>3. CASE UNCHANGED stage
    BY <2>3, <1>5
  <2>4. CASE \E r \in Sides, from, to \in {"lower", "operands", "body", "ready", "fatal"} :
                from # "fatal" /\ Compiling(r, from) /\ Become(r, to)
    BY <2>2, <2>4
  <2>5. "caller" \in Sides /\ "callee" \in Sides
    BY DEF Sides
  <2>6. CASE AnalyzeCallOperands \/ AnalyzeFormalArguments
    BY <2>3, <2>6 DEF AnalyzeCallOperands, AnalyzeFormalArguments
  <2>7. CASE LowerCall
    BY <2>4, <2>5, <2>7 DEF LowerCall
  <2>8. CASE LowerCallResult
    BY <2>4, <2>5, <2>8 DEF LowerCallResult
  <2>9. CASE LowerFormalArguments
    BY <2>4, <2>5, <2>9 DEF LowerFormalArguments
  <2>10. CASE LowerCCCArguments
    BY <2>4, <2>5, <2>10 DEF LowerCCCArguments
  <2>11. CASE LowerReturn
    BY <2>4, <2>5, <2>11 DEF LowerReturn
  <2> QED BY <2>6, <2>7, <2>8, <2>9, <2>10, <2>11 DEF Compile
<1> QED BY <1>2, <1>3, <1>4, <1>5 DEF Promise!Abandon

\* The machine runs only when both sides are ready, and they stay ready.
LEMMA TurnNext ==
    ASSUME AllReady, NoCompile
    PROVE  /\ call' = call
           /\ Turn = IF pc \in {"idle", "sequence"} THEN "caller"
                     ELSE IF pc \in Running THEN "callee" ELSE pc
           /\ Turn' = IF pc' \in {"idle", "sequence"} THEN "caller"
                      ELSE IF pc' \in Running THEN "callee" ELSE pc'
<1>1. stage' = stage /\ call' = call
  BY DEF NoCompile, compileVars
<1>2. ~Refused /\ ~Refused'
  BY <1>1 DEF AllReady, Refused
<1> QED BY <1>1, <1>2 DEF Turn, Running

\* The callee looks at the arguments it takes.
LEMMA LookPromise ==
    ASSUME IInv, IInv', AllReady, NoCompile, CopyLiveIns \/ LoadArgument
    PROVE  Promise!Look
<1>1. Turn = "callee" /\ Turn' = "callee" /\ UNCHANGED <<call, back>>
  BY TurnNext DEF CopyLiveIns, LoadArgument, Running
<1>2. \A k \in DOMAIN inVals' : inVals'[k] = Sent(call, k)
  BY <1>1 DEF IInv, MachineInv, PassInv, Passing, Sent
<1>3. PICK more \in SUBSET (1 .. call.named) :
         /\ inVals' = [k \in DOMAIN inVals' |-> inVals'[k]]
         /\ DOMAIN inVals' = DOMAIN inVals \cup more
         /\ \A k \in DOMAIN inVals : inVals'[k] = inVals[k]
  <2>1. CASE CopyLiveIns
    <3>1. inVals = <<>> /\ inVals' = [i \in 1 .. call.named \ StackFormals |-> reg[Loc("callee", i).at]]
      BY <2>1 DEF IInv, MachineInv, PassInv, Passing, CopyLiveIns
    <3>2. DOMAIN inVals = {}
      BY <3>1
    <3>3. 1 .. call.named \ StackFormals \in SUBSET (1 .. call.named)
      OBVIOUS
    <3> QED BY <3>1, <3>2, <3>3
  <2>2. CASE LoadArgument
    <3>1. PICK i \in StackFormals \ (DOMAIN inVals \cup written) :
             inVals' = [k \in DOMAIN inVals \cup {i} |->
                       IF k = i THEN LoadBytes(FixedObjectAddr(i), call.outs[i].size) ELSE inVals[k]]
      BY <2>2 DEF LoadArgument
    <3>2. {i} \in SUBSET (1 .. call.named)
      BY DEF StackFormals
    <3>3. DOMAIN inVals' = DOMAIN inVals \cup {i} /\ \A k \in DOMAIN inVals : inVals'[k] = inVals[k]
      BY <3>1
    <3>4. inVals' = [k \in DOMAIN inVals' |-> inVals'[k]]
      BY <3>1
    <3> QED BY <3>2, <3>3, <3>4
  <2> QED BY <2>1, <2>2
<1>4. inVals' = [k \in DOMAIN inVals \cup more |->
                    IF k \in DOMAIN inVals THEN inVals[k] ELSE Sent(call, k)]
  BY <1>2, <1>3
<1>5. \A k : Promise!Sent(call, k) = Sent(call, k)
  BY DEF Promise!Sent, Sent, Promise!Bytes, Bytes
<1> QED BY <1>1, <1>3, <1>4, <1>5 DEF Promise!Look

LEMMA NextPromise ==
    ASSUME IInv, IInv', [Next]_vars
    PROVE  [Promise!Next]_<<call, Turn, inVals, back>>
<1> USE DEF Promise!Next
<1>1. CASE Compile
  BY <1>1, CompilePromise
<1>2. CASE pc = "idle" /\ CallSeqStart
  <2>1. AllReady /\ NoCompile /\ pc' = "sequence" /\ UNCHANGED <<inVals, back>>
    BY <1>2 DEF CallSeqStart, AllReady
  <2> QED BY <2>1, <1>2, TurnNext
<1>3. CASE pc # "idle" /\ NoCompile
  <2>0. Ran /\ AllReady /\ MachineType
    BY <1>3, RanWhenReady, Parts DEF Ran
  <2>1. CASE StoreArgument \/ CopyToReg \/ WriteBlock \/ Work \/ CopyResult \/ Interrupt
    <3>1. UNCHANGED <<inVals, back>>
      BY <2>1 DEF StoreArgument, CopyToReg, WriteBlock, Work, CopyResult, Interrupt
    <3>2. \/ pc' = pc
          \/ pc \in {"body", "return"} /\ pc' = "return"
      BY <2>1 DEF StoreArgument, CopyToReg, WriteBlock, Work, CopyResult, Interrupt
    <3>3. call' = call /\ Turn' = Turn
      BY <3>2, <2>0, <1>3, TurnNext DEF Running
    <3> QED BY <3>1, <3>3
  <2>2. CASE Call
    <3>1. pc = "sequence" /\ pc' = "entry" /\ UNCHANGED <<inVals, back>>
      BY <2>2 DEF Call
    <3> QED BY <3>1, <2>0, <1>3, TurnNext DEF Running, Promise!Enter
  <2>3. CASE CopyLiveIns \/ LoadArgument
    BY <2>0, <2>3, <1>3, LookPromise
  <2>4. CASE Return
    <3>1. pc \in {"body", "return"} /\ pc' = "back" /\ UNCHANGED <<inVals, back>>
      BY <2>4 DEF Return
    <3> QED BY <3>1, <2>0, <1>3, TurnNext DEF Running, Promise!Leave
  <2>5. CASE CopyFromReg
    <3>1. /\ pc = "back" /\ pc' = pc /\ Len(back) < call.results /\ UNCHANGED inVals
          /\ back' = Append(back, reg[ReturnReg(Len(back) + 1)])
      BY <2>5 DEF CopyFromReg
    <3>2. Len(back) \in Nat /\ Len(back) + 1 \in 1 .. call.results
      BY <3>1, <2>0, Parts DEF MachineType
    <3>3. reg[ReturnReg(Len(back) + 1)] = Result(Len(back) + 1)
      BY <3>1, <3>2, <2>0, Parts DEF Returning
    <3>4. Promise!Result(Len(back) + 1) = Result(Len(back) + 1)
      BY DEF Promise!Result, Result, Promise!Bytes, Bytes
    <3>5. Turn = "back" /\ Turn' = "back" /\ call' = call
      BY <3>1, <2>0, <1>3, TurnNext DEF Running
    <3> QED BY <3>1, <3>3, <3>4, <3>5 DEF Promise!Take
  <2>6. CASE Done
    <3>1. pc = "back" /\ pc' = "done" /\ Len(back) = call.results /\ UNCHANGED <<inVals, back>>
      BY <2>6 DEF Done
    <3> QED BY <3>1, <2>0, <1>3, TurnNext DEF Running, Promise!Finish
  <2>7. CASE Compile \/ CallSeqStart \/ UNCHANGED vars
    <3>1. CASE CallSeqStart
      BY <3>1, <1>3 DEF CallSeqStart
    <3>2. CASE UNCHANGED vars
      <4>1. UNCHANGED <<call, pc, inVals, back>>
        BY <3>2 DEF vars, machineVars
      <4> QED BY <4>1, <2>0, <1>3, TurnNext
    <3> QED BY <2>7, <3>1, <3>2, <1>1
  <2> QED BY <2>1, <2>2, <2>3, <2>4, <2>5, <2>6, <2>7 DEF Next, Progress
<1>4. CASE UNCHANGED vars
  <2>1. UNCHANGED <<call, stage, pc, inVals, back>>
    BY <1>4 DEF vars, compileVars, machineVars
  <2> QED BY <2>1 DEF Turn, Refused
<1>5. Next => \/ Compile
              \/ (pc = "idle" /\ CallSeqStart)
              \/ (pc # "idle" /\ NoCompile)
  <2>1. StoreArgument => pc # "idle" /\ NoCompile
    BY DEF StoreArgument
  <2>2. CopyToReg => pc # "idle" /\ NoCompile
    BY DEF CopyToReg
  <2>3. Call => pc # "idle" /\ NoCompile
    BY DEF Call
  <2>4. CopyLiveIns => pc # "idle" /\ NoCompile
    BY DEF CopyLiveIns
  <2>5. LoadArgument => pc # "idle" /\ NoCompile
    BY DEF LoadArgument
  <2>6. CopyResult => pc # "idle" /\ NoCompile
    BY DEF CopyResult
  <2>7. Return => pc # "idle" /\ NoCompile
    BY DEF Return
  <2>8. CopyFromReg => pc # "idle" /\ NoCompile
    BY DEF CopyFromReg
  <2>9. Done => pc # "idle" /\ NoCompile
    BY DEF Done
  <2>10. WriteBlock => pc # "idle" /\ NoCompile
    BY DEF WriteBlock
  <2>11. Work => pc # "idle" /\ NoCompile
    BY DEF Work
  <2>12. Interrupt => pc # "idle" /\ NoCompile
    BY DEF Interrupt
  <2>13. CallSeqStart => pc = "idle"
    BY DEF CallSeqStart
  <2> QED BY <2>1, <2>2, <2>3, <2>4, <2>5, <2>6, <2>7, <2>8, <2>9, <2>10, <2>11, <2>12, <2>13 DEF Next, Progress
<1> QED BY <1>1, <1>2, <1>3, <1>4, <1>5

(* What the two sides see is a call that passes its arguments and results  *)
(* in order: the lowering of calls implements KudeyarCall.                 *)
THEOREM PromiseKept == Spec => KeepsPromise
<1>1. Init => Promise!Init
  BY InitPromise
<1>2. IInv /\ IInv' /\ [Next]_vars => [Promise!Next]_<<call, Turn, inVals, back>>
  BY NextPromise
<1> QED BY <1>1, <1>2, Invariant, PTL DEF Spec, KeepsPromise, Promise!Spec

=============================================================================
