--------------------------- MODULE BacktestProofs ---------------------------
(***************************************************************************)
(* Theorems about Backtest: who holds which books, and when; what its      *)
(* quantities and prices are; and that the two books of money agree.       *)
(***************************************************************************)
EXTENDS Backtest, Lemmas, TLAPS

IsFun(f) == f = [i \in Instruments |-> f[i]]

IsRisk(r) ==
    /\ r = [equity |-> r.equity, pnl |-> r.pnl, positions |-> r.positions,
            halted |-> r.halted, orders |-> r.orders]
    /\ IsFun(r.positions)

(* A position that is not held is the empty one.                           *)
Clean(p)     == p.qty = 0 => p = Flat
CleanHeld(p) == p.qty = 0 => p = NoPosition

(* Fills fs the risk engine has still to hear of, when the broker's        *)
(* position is p already.                                                  *)
Ahead(fs, p) ==
    \/ \E f : /\ fs = <<f>> /\ f.opens /\ f.qty # 0
              /\ p.qty = f.qty /\ p.entry = f.price
    \/ \E f : fs = <<f>> /\ ~f.opens /\ p = NoPosition
    \/ \E f, g : /\ fs = <<f, g>> /\ f.opens /\ f.qty # 0 /\ ~g.opens
                 /\ p = NoPosition

FillsMatch ==
    \/ fills = <<>> /\ risk.positions[inst] = AsRiskSees(broker[inst])
    \/ Ahead(fills, broker[inst])

(* BooksAgree is inductive with: what each fill has done to the broker's   *)
(* books, and that only one bar's instrument is ahead of the risk engine.  *)
BooksInv ==
    /\ stage \in {"next", "open", "levels", "apply"}
    /\ stage # "next" => inst \in Instruments
    /\ stage \in {"next", "open"} => fills = <<>>
    /\ stage = "levels" => fills = <<>> \/ \E f : fills = <<f>>
    /\ IsFun(broker) /\ IsRisk(risk)
    /\ \A i \in Instruments : CleanHeld(broker[i]) /\ Clean(risk.positions[i])
    /\ \A i \in Instruments :
          i # inst \/ stage = "next" => risk.positions[i] = AsRiskSees(broker[i])
    /\ stage # "next" => FillsMatch

LEMMA FlatPosition == AsRiskSees(NoPosition) = Flat
  BY DEF AsRiskSees, NoPosition, Flat

LEMMA StartKeepsPositions ==
    ASSUME NEW r, NEW e, IsRisk(r)
    PROVE  /\ IsRisk(StartSession(r, e))
           /\ StartSession(r, e).positions = r.positions
  BY DEF IsRisk, StartSession

LEMMA CostsKeepPositions ==
    ASSUME NEW r, NEW a, IsRisk(r)
    PROVE  /\ IsRisk(ApplyCosts(r, a))
           /\ ApplyCosts(r, a).positions = r.positions
  BY DEF IsRisk, ApplyCosts, Checked, With

LEMMA EvaluatingKeepsPositions ==
    ASSUME NEW r, NEW s, NEW p, IsRisk(r)
    PROVE  /\ IsRisk(Evaluated(r, s, p))
           /\ Evaluated(r, s, p).positions = r.positions
  BY DEF IsRisk, Evaluated

LEMMA OpenFillOpens ==
    ASSUME NEW r, IsRisk(r), NEW i \in Instruments, NEW n, NEW price, NEW stop
    PROVE  LET o == OnOpenFill(r, i, n, price, stop) IN
           /\ IsRisk(o)
           /\ \A j \in Instruments : j # i => o.positions[j] = r.positions[j]
           /\ o.positions[i] = [qty |-> n, entry |-> price, stop |-> stop]
<1> DEFINE q == [r.positions EXCEPT ![i] = [qty |-> n, entry |-> price, stop |-> stop]]
<1>1. IsFun(q)
  BY DEF IsRisk, IsFun
<1>2. /\ q[i] = [qty |-> n, entry |-> price, stop |-> stop]
      /\ \A j \in Instruments : j # i => q[j] = r.positions[j]
  BY DEF IsRisk, IsFun
<1> HIDE DEF q
<1>3. OnOpenFill(r, i, n, price, stop) = With(r, q, r.pnl)
  BY DEF OnOpenFill, q
<1> QED
  BY <1>1, <1>2, <1>3 DEF With, IsRisk

LEMMA CloseFillCloses ==
    ASSUME NEW r, IsRisk(r), NEW i \in Instruments, NEW price,
           Clean(r.positions[i])
    PROVE  LET o == OnCloseFill(r, i, price) IN
           /\ IsRisk(o)
           /\ \A j \in Instruments : j # i => o.positions[j] = r.positions[j]
           /\ o.positions[i] = Flat
<1> DEFINE q == [r.positions EXCEPT ![i] = Flat]
<1>1. IsFun(q)
  BY DEF IsRisk, IsFun
<1>2. q[i] = Flat /\ \A j \in Instruments : j # i => q[j] = r.positions[j]
  BY DEF IsRisk, IsFun
<1> HIDE DEF q
<1>3. CASE r.positions[i].qty = 0
  BY <1>3 DEF OnCloseFill, Clean
<1>4. CASE r.positions[i].qty # 0
  <2>1. PICK pnl : OnCloseFill(r, i, price) = Checked(With(r, q, pnl))
    BY <1>4 DEF OnCloseFill, q
  <2> QED
    BY <1>1, <1>2, <2>1 DEF With, IsRisk, Checked
<1> QED
  BY <1>3, <1>4

LEMMA BooksInit == Init => BooksInv
  BY FlatPosition DEF Init, BooksInv, IsFun, IsRisk, StartSession, NoSession,
     CleanHeld, Clean, NoPosition, Flat, AsRiskSees

(* A step that leaves the books alone.                                     *)
LEMMA BooksStay ==
    ASSUME BooksInv, UNCHANGED <<fills, broker, risk, inst>>,
           stage' \in {"next", "open", "levels", "apply"},
           stage # "next", stage' \in {"next", "open"} => fills = <<>>,
           stage' = "levels" => fills = <<>> \/ \E f : fills = <<f>>
    PROVE  BooksInv'
<1>1. stage' = "next" => risk.positions[inst] = AsRiskSees(broker[inst])
  BY DEF BooksInv, FillsMatch, Ahead
<1>2. FillsMatch'
  BY DEF BooksInv, FillsMatch, AsRiskSees
<1> QED
  BY <1>1, <1>2 DEF BooksInv, IsFun, IsRisk, Clean, CleanHeld, AsRiskSees, NoPosition, Flat

(* A step of the broker on the books of the bar's instrument.              *)
LEMMA MovesBroker ==
    ASSUME BooksInv, stage # "next", UNCHANGED <<inst, risk>>,
           stage' \in {"levels", "apply"},
           stage' = "levels" => \E f : fills' = <<f>>,
           NEW p, CleanHeld(p), broker' = [broker EXCEPT ![inst] = p],
           Ahead(fills', p)
    PROVE  BooksInv'
<1>1. IsFun(broker')
  BY DEF BooksInv, IsFun
<1>2. /\ broker'[inst] = p
      /\ \A j \in Instruments : j # inst => broker'[j] = broker[j]
  BY DEF BooksInv, IsFun
<1>3. FillsMatch'
  BY <1>2 DEF FillsMatch
<1> QED
  BY <1>1, <1>2, <1>3 DEF BooksInv, AsRiskSees, IsFun, IsRisk

LEMMA EmptyIsClean == CleanHeld(NoPosition)
  BY DEF CleanHeld

LEMMA SeqEqual ==
    ASSUME NEW S, NEW s \in Seq(S), NEW t \in Seq(S), Len(s) = Len(t),
           \A k \in 1..Len(s) : s[k] = t[k]
    PROVE  s = t
  OBVIOUS

LEMMA ShortSequences ==
    ASSUME NEW f, NEW g
    PROVE  /\ Append(<<>>, f) = <<f>> /\ Append(<<f>>, g) = <<f, g>>
           /\ Head(<<f>>) = f /\ Head(<<f, g>>) = f
           /\ Tail(<<f>>) = <<>> /\ Tail(<<f, g>>) = <<g>>
<1> DEFINE S == {f, g}
<1>1. <<>> \in Seq(S) /\ <<f>> \in Seq(S) /\ <<g>> \in Seq(S) /\ <<f, g>> \in Seq(S)
  OBVIOUS
<1>2. Append(<<>>, f) = <<f>>
  OBVIOUS
<1>3. Append(<<f>>, g) = <<f, g>>
  <2>1. /\ Append(<<f>>, g) \in Seq(S) /\ Len(Append(<<f>>, g)) = 2
        /\ Append(<<f>>, g)[1] = f /\ Append(<<f>>, g)[2] = g
    BY <1>1
  <2>2. /\ <<f, g>> \in Seq(S) /\ Len(<<f, g>>) = 2
        /\ <<f, g>>[1] = f /\ <<f, g>>[2] = g
    OBVIOUS
  <2>3. \A k \in 1..2 : Append(<<f>>, g)[k] = <<f, g>>[k]
    <3>1. \A k \in 1..2 : k = 1 \/ k = 2
      OBVIOUS
    <3> QED
      BY <2>1, <2>2, <3>1
  <2> HIDE DEF S
  <2> DEFINE a == Append(<<f>>, g)
             b == <<f, g>>
  <2>4. /\ a \in Seq(S) /\ b \in Seq(S) /\ Len(a) = 2 /\ Len(b) = 2
        /\ \A k \in 1..2 : a[k] = b[k]
    BY <2>1, <2>2, <2>3
  <2> HIDE DEF a, b
  <2>5. a = b
    BY <2>4, SeqEqual
  <2> QED
    BY <2>5 DEF a, b
<1>4. Head(<<f>>) = f /\ Head(<<f, g>>) = f
  OBVIOUS
<1>5. Tail(<<f>>) = <<>>
  OBVIOUS
<1>6. Tail(<<f, g>>) = <<g>>
  OBVIOUS
<1> QED
  BY <1>2, <1>3, <1>4, <1>5, <1>6

LEMMA BooksNext == BooksInv /\ [Next]_vars => BooksInv'
<1> SUFFICES ASSUME BooksInv, [Next]_vars PROVE BooksInv'
  OBVIOUS
<1>1. ASSUME NEW t \in now..MaxTime, NEW i \in Instruments, NEW b, NextBar(t, i, b)
      PROVE  BooksInv'
  <2>1. IsRisk(risk') /\ risk'.positions = risk.positions
    BY <1>1, StartKeepsPositions DEF NextBar, RollSession, BooksInv
  <2>2. \A j \in Instruments : risk'.positions[j] = AsRiskSees(broker[j])
    BY <1>1, <2>1 DEF NextBar, BooksInv
  <2>3. UNCHANGED broker /\ fills' = <<>> /\ stage' = "open" /\ inst' = i
    BY <1>1 DEF NextBar, BooksInv, books
  <2>4. FillsMatch'
    BY <2>2, <2>3 DEF FillsMatch, AsRiskSees
  <2> QED
    BY <2>1, <2>2, <2>3, <2>4 DEF BooksInv, AsRiskSees
<1>2. CASE NothingPending
  BY <1>2, BooksStay DEF NothingPending, BooksInv, books
<1>3. CASE DropUnfillable
  BY <1>3, BooksStay DEF DropUnfillable, BooksInv
<1>4. CASE OpenAtOpen
  <2> DEFINE o == pending[inst]
             n == Signed(IsBuy(o.intent), Fillable(o.qty))
             price == FillPrice(IsBuy(o.intent), bar.open)
             p == [qty |-> n, entry |-> price, stop |-> o.stop, target |-> o.target,
                   submitted |-> o.submitted, filled |-> now]
  <2>1. /\ inst \in Instruments /\ n # 0 /\ UNCHANGED <<inst, risk>>
        /\ stage = "open" /\ stage' = "levels"
    BY <1>4 DEF OpenAtOpen, BooksInv
  <2>2. broker' = [broker EXCEPT ![inst] = p]
    BY <1>4 DEF OpenAtOpen
  <2>3. fills' = <<[opens |-> TRUE, qty |-> n, price |-> price]>>
    BY <1>4 DEF OpenAtOpen
  <2> HIDE DEF o, n, price
  <2>4. p.qty = n /\ p.entry = price
    OBVIOUS
  <2> HIDE DEF p
  <2>5. CleanHeld(p) /\ Ahead(fills', p)
    BY <2>1, <2>3, <2>4 DEF CleanHeld, Ahead
  <2> QED
    BY <2>1, <2>2, <2>3, <2>5, MovesBroker
<1>5. CASE CloseAtOpen
  <2>1. /\ inst \in Instruments /\ UNCHANGED <<inst, risk>>
        /\ stage = "open" /\ stage' = "levels"
    BY <1>5 DEF CloseAtOpen, BooksInv
  <2>2. broker' = [broker EXCEPT ![inst] = NoPosition]
    BY <1>5 DEF CloseAtOpen, LeftAtOpen
  <2>3. PICK f : fills' = <<f>> /\ ~f.opens
    BY <1>5 DEF CloseAtOpen
  <2> QED
    BY <2>1, <2>2, <2>3, MovesBroker, EmptyIsClean DEF Ahead
<1>6. CASE ExitAtLevel
  <2>1. /\ inst \in Instruments /\ UNCHANGED <<inst, risk>>
        /\ stage = "levels" /\ stage' = "apply" /\ broker[inst].qty # 0
    BY <1>6 DEF ExitAtLevel, BooksInv, Leaves
  <2>2. broker' = [broker EXCEPT ![inst] = NoPosition]
    BY <1>6 DEF ExitAtLevel
  <2>3. PICK g : fills' = Append(fills, g) /\ ~g.opens
    BY <1>6 DEF ExitAtLevel, CloseFill
  <2>4. fills = <<>> \/ \E f : fills = <<f>> /\ f.opens /\ f.qty # 0
    BY <1>6, <2>1 DEF ExitAtLevel, BooksInv, FillsMatch, Ahead, NoPosition
  <2>5. fills' = <<g>> \/ \E f : fills' = <<f, g>> /\ f.opens /\ f.qty # 0
    BY <2>3, <2>4, ShortSequences
  <2> QED
    BY <2>1, <2>2, <2>3, <2>5, MovesBroker, EmptyIsClean DEF Ahead
<1>7. CASE NoExit
  BY <1>7, BooksStay DEF NoExit, BooksInv, books
<1>8. CASE ApplyOpen
  <2> DEFINE f == Head(fills)
             r == OnOpenFill(risk, inst, f.qty, f.price, broker[inst].stop)
  <2>0. Ahead(fills, broker[inst])
    BY <1>8 DEF ApplyOpen, BooksInv, FillsMatch
  <2>1. /\ inst \in Instruments /\ UNCHANGED <<inst, broker, stage>>
        /\ stage = "apply" /\ fills # <<>> /\ f.opens /\ fills' = Tail(fills)
        /\ IsRisk(risk)
    BY <1>8 DEF ApplyOpen, BooksInv, books
  <2>2. risk' = ApplyCosts(r, CostsOf(f))
    BY <1>8 DEF ApplyOpen
  <2>3. /\ IsRisk(r)
        /\ \A j \in Instruments : j # inst => r.positions[j] = risk.positions[j]
        /\ r.positions[inst] = [qty |-> f.qty, entry |-> f.price,
                                stop |-> broker[inst].stop]
    BY <2>1, OpenFillOpens
  <2> HIDE DEF r
  <2>4. IsRisk(risk') /\ risk'.positions = r.positions
    BY <2>2, <2>3, CostsKeepPositions
  <2>5. \/ fills' = <<>> /\ f.qty # 0 /\ broker[inst].qty = f.qty /\ broker[inst].entry = f.price
        \/ \E g : fills' = <<g>> /\ ~g.opens /\ f.qty # 0 /\ broker[inst] = NoPosition
    <3>1. CASE \E h : /\ fills = <<h>> /\ h.opens /\ h.qty # 0
                      /\ broker[inst].qty = h.qty /\ broker[inst].entry = h.price
      BY <2>1, <3>1, ShortSequences
    <3>2. CASE \E h : fills = <<h>> /\ ~h.opens
      BY <2>1, <3>2, ShortSequences
    <3>3. CASE \E h, g : /\ fills = <<h, g>> /\ h.opens /\ h.qty # 0 /\ ~g.opens
                         /\ broker[inst] = NoPosition
      BY <2>1, <3>3, ShortSequences
    <3> QED
      BY <2>0, <3>1, <3>2, <3>3 DEF Ahead
  <2>6. FillsMatch'
    BY <2>1, <2>3, <2>4, <2>5 DEF FillsMatch, AsRiskSees, Ahead
  <2>7. Clean(r.positions[inst])
    BY <2>3, <2>5 DEF Clean
  <2> QED
    BY <2>1, <2>3, <2>4, <2>6, <2>7 DEF BooksInv, AsRiskSees, IsFun
<1>9. CASE ApplyClose
  <2> DEFINE f == Head(fills)
             r == OnCloseFill(risk, inst, f.price)
  <2>1. /\ inst \in Instruments /\ UNCHANGED <<inst, broker, stage>>
        /\ stage = "apply" /\ fills # <<>> /\ ~f.opens /\ fills' = Tail(fills)
        /\ IsRisk(risk) /\ Clean(risk.positions[inst])
    BY <1>9 DEF ApplyClose, BooksInv
  <2>2. risk' = ApplyCosts(r, CostsOf(f))
    BY <1>9 DEF ApplyClose
  <2>3. /\ IsRisk(r)
        /\ \A j \in Instruments : j # inst => r.positions[j] = risk.positions[j]
        /\ r.positions[inst] = Flat
    BY <2>1, CloseFillCloses
  <2> HIDE DEF r
  <2>4. IsRisk(risk') /\ risk'.positions = r.positions
    BY <2>2, <2>3, CostsKeepPositions
  <2>5. fills' = <<>> /\ broker[inst] = NoPosition
    BY <2>1, ShortSequences DEF BooksInv, FillsMatch, Ahead
  <2>6. FillsMatch'
    BY <2>1, <2>3, <2>4, <2>5, FlatPosition DEF FillsMatch, Ahead
  <2> QED
    BY <2>1, <2>3, <2>4, <2>5, <2>6 DEF BooksInv, AsRiskSees, Clean, IsFun
<1>10. CASE ForceClose
  <2>1. inst \in Instruments /\ UNCHANGED <<inst, risk, stage>> /\ stage = "apply"
    BY <1>10 DEF ForceClose, BooksInv
  <2>2. broker' = [broker EXCEPT ![inst] = NoPosition]
    BY <1>10 DEF ForceClose
  <2>3. PICK f : fills' = <<f>> /\ ~f.opens
    BY <1>10 DEF ForceClose, CloseFill
  <2> QED
    BY <2>1, <2>2, <2>3, MovesBroker, EmptyIsClean DEF Ahead
<1>11. CASE SessionOver
  BY <1>11, BooksStay DEF SessionOver, BooksInv
<1>12. ASSUME NEW n, NEW s, NEW g, Signal(n, s, g) PROVE BooksInv'
  <2>1. IsRisk(risk') /\ risk'.positions = risk.positions
    BY <1>12, EvaluatingKeepsPositions DEF Signal, BooksInv
  <2>2. /\ UNCHANGED <<fills, broker, inst>> /\ fills = <<>>
        /\ stage = "apply" /\ stage' = "next"
    BY <1>12 DEF Signal, AfterSignals
  <2>3. risk.positions[inst] = AsRiskSees(broker[inst])
    BY <2>2 DEF BooksInv, FillsMatch, Ahead
  <2> QED
    BY <2>1, <2>2, <2>3 DEF BooksInv, AsRiskSees
<1>13. CASE NoSignal
  BY <1>13, BooksStay DEF NoSignal, BooksInv, books, AfterSignals
<1>14. CASE UNCHANGED vars
  <2>1. UNCHANGED <<fills, broker, risk, inst, stage>>
    BY <1>14 DEF vars, books
  <2> QED
    BY <2>1 DEF BooksInv, FillsMatch, IsFun, IsRisk, Clean, CleanHeld, AsRiskSees, NoPosition, Flat
<1> QED
  BY <1>1, <1>2, <1>3, <1>4, <1>5, <1>6, <1>7, <1>8, <1>9, <1>10, <1>11,
     <1>12, <1>13, <1>14 DEF Next

(* Once a bar's fills are applied, the risk engine and the broker hold the *)
(* same positions (BacktestEngine._record_and_apply).                      *)
THEOREM BooksStayEqual == Spec => []BooksAgree
<1>1. BooksInv => BooksAgree
  BY DEF BooksInv, BooksAgree, FillsMatch, Ahead
<1> QED
  BY <1>1, BooksInit, BooksNext, PTL DEF Spec

----------------------------------------------------------------------------
(* NoLookAhead is inductive with: what is pending was submitted before the *)
(* bar, unless by the strategy in an instrument whose bar is over.         *)
OrderInv ==
    /\ now \in 0..MaxTime /\ inst \in Instruments \cup {0}
    /\ stage # "next" => inst \in Instruments
    /\ IsFun(pending) /\ IsFun(broker)
    /\ \A i \in Instruments :
          \/ pending[i] = NoOrder
          \/ pending[i].submitted \in Int /\ pending[i].submitted <= now
          \/ /\ pending[i].submitted = now + 1 /\ i <= inst
             /\ i = inst => stage = "next"
    /\ NoLookAhead

(* An instrument that had its square-off bar is out, and the phase it was  *)
(* squared off in does not end before the session.                         *)
FlatInv ==
    /\ squared \subseteq Instruments
    /\ FlatAfterSquareOff
    /\ squared # {} => PhaseOf[now] \in Over

LEMMA OrderInit == Init => OrderInv
  BY BacktestAssumption DEF Init, OrderInv, IsFun, NoLookAhead, NoPosition

LEMMA FlatInit == Init => FlatInv
  BY DEF Init, FlatInv, FlatAfterSquareOff

(* Orders leave the queue one by one; nothing else moves.                  *)
LEMMA OrderNext == OrderInv /\ [Next]_vars => OrderInv'
<1> SUFFICES ASSUME OrderInv, [Next]_vars PROVE OrderInv'
  OBVIOUS
<1> USE BacktestAssumption DEF OrderInv, IsFun, NoLookAhead
<1>1. ASSUME NEW t \in now..MaxTime, NEW i \in Instruments, NEW b, NextBar(t, i, b)
      PROVE  OrderInv'
  BY <1>1 DEF NextBar, books
<1>2. CASE NothingPending
  BY <1>2 DEF NothingPending, books
<1>3. CASE DropUnfillable
  BY <1>3 DEF DropUnfillable
<1>4. CASE OpenAtOpen
  <2>1. /\ stage = "open" /\ stage' = "levels" /\ UNCHANGED <<now, inst>>
        /\ inst \in Instruments /\ pending[inst] # NoOrder
        /\ pending' = [pending EXCEPT ![inst] = NoOrder]
    BY <1>4 DEF OpenAtOpen, NoOrder, Opening
  <2> DEFINE o == pending[inst]
             n == Signed(IsBuy(o.intent), Fillable(o.qty))
             price == FillPrice(IsBuy(o.intent), bar.open)
             p == [qty |-> n, entry |-> price, stop |-> o.stop, target |-> o.target,
                   submitted |-> o.submitted, filled |-> now]
  <2>2. broker' = [broker EXCEPT ![inst] = p]
    BY <1>4 DEF OpenAtOpen
  <2>3. o.submitted <= now
    BY <2>1
  <2> HIDE DEF n, price
  <2>4. p.submitted = o.submitted /\ p.filled = now
    OBVIOUS
  <2> HIDE DEF p
  <2> QED
    BY <2>1, <2>2, <2>3, <2>4
<1>5. CASE CloseAtOpen
  BY <1>5 DEF CloseAtOpen, LeftAtOpen, NoPosition
<1>6. CASE ExitAtLevel
  BY <1>6 DEF ExitAtLevel, NoPosition
<1>7. CASE NoExit
  BY <1>7 DEF NoExit, books
<1>8. CASE ApplyOpen
  BY <1>8 DEF ApplyOpen, books
<1>9. CASE ApplyClose
  BY <1>9 DEF ApplyClose
<1>10. CASE ForceClose
  BY <1>10 DEF ForceClose, NoPosition
<1>11. CASE SessionOver
  BY <1>11 DEF SessionOver
<1>12. ASSUME NEW n, NEW s, NEW g, Signal(n, s, g) PROVE OrderInv'
  <2>1. /\ stage = "apply" /\ stage' = "next" /\ UNCHANGED <<now, inst, broker>>
        /\ inst \in Instruments
    BY <1>12 DEF Signal, AfterSignals
  <2>2. \/ UNCHANGED pending
        \/ \E o : /\ pending' = [pending EXCEPT ![inst] = o]
                  /\ o.submitted = now + 1
    BY <1>12 DEF Signal
  <2> QED
    BY <2>1, <2>2
<1>13. CASE NoSignal
  BY <1>13 DEF NoSignal, books, AfterSignals
<1>14. CASE UNCHANGED vars
  BY <1>14 DEF vars, books
<1> QED
  BY <1>1, <1>2, <1>3, <1>4, <1>5, <1>6, <1>7, <1>8, <1>9, <1>10, <1>11,
     <1>12, <1>13, <1>14 DEF Next

(* A signal on bar t is not filled before bar t + 1 (SimBroker.submit).    *)
THEOREM NothingLooksAhead == Spec => []NoLookAhead
<1>1. OrderInv => NoLookAhead
  BY DEF OrderInv
<1> QED
  BY <1>1, OrderInit, OrderNext, PTL DEF Spec

LEMMA FlatNext == FlatInv /\ OrderInv /\ [Next]_vars => FlatInv'
<1> SUFFICES ASSUME FlatInv, OrderInv, [Next]_vars PROVE FlatInv'
  OBVIOUS
<1> USE DEF FlatInv, FlatAfterSquareOff, OrderInv, IsFun
<1>1. ASSUME NEW t \in now..MaxTime, NEW i \in Instruments, NEW b, NextBar(t, i, b)
      PROVE  FlatInv'
  <2>1. UNCHANGED <<broker, pending>> /\ now' = t
    BY <1>1 DEF NextBar, books
  <2>2. CASE DayOf[t] = DayOf[now]
    <3>1. UNCHANGED squared
      BY <1>1, <2>2 DEF NextBar, RollSession, SameSession
    <3>2. now \in 0..MaxTime /\ t \in 0..MaxTime /\ now <= t
      BY <2>1, BacktestAssumption
    <3>3. PhaseOf[now] \in Over => PhaseOf[t] \in Over
      BY <2>2, <3>2, CalendarAssumption
    <3> QED
      BY <2>1, <3>1, <3>3
  <2>3. CASE DayOf[t] # DayOf[now]
    BY <1>1, <2>3 DEF NextBar, RollSession, SameSession
  <2> QED
    BY <2>2, <2>3
<1>2. CASE NothingPending
  BY <1>2 DEF NothingPending, books
<1>3. CASE DropUnfillable
  BY <1>3 DEF DropUnfillable
<1>4. CASE OpenAtOpen
  <2>1. inst \notin squared
    BY <1>4 DEF OpenAtOpen, NoOrder, Opening
  <2> QED
    BY <1>4, <2>1 DEF OpenAtOpen
<1>5. CASE CloseAtOpen
  BY <1>5 DEF CloseAtOpen, LeftAtOpen, NoPosition
<1>6. CASE ExitAtLevel
  BY <1>6 DEF ExitAtLevel, NoPosition
<1>7. CASE NoExit
  BY <1>7 DEF NoExit, books
<1>8. CASE ApplyOpen
  BY <1>8 DEF ApplyOpen, books
<1>9. CASE ApplyClose
  BY <1>9 DEF ApplyClose
<1>10. CASE ForceClose
  BY <1>10 DEF ForceClose, NoPosition
<1>11. CASE SessionOver
  BY <1>11 DEF SessionOver, SquaresOff
<1>12. ASSUME NEW n, NEW s, NEW g, Signal(n, s, g) PROVE FlatInv'
  <2>1. squared = {} /\ UNCHANGED <<now, squared>>
    BY <1>12 DEF Signal
  <2> QED
    BY <2>1
<1>13. CASE NoSignal
  BY <1>13 DEF NoSignal, books
<1>14. CASE UNCHANGED vars
  BY <1>14 DEF vars, books
<1> QED
  BY <1>1, <1>2, <1>3, <1>4, <1>5, <1>6, <1>7, <1>8, <1>9, <1>10, <1>11,
     <1>12, <1>13, <1>14 DEF Next

(* An instrument that had a square-off bar ends its day with nothing held  *)
(* and nothing pending (_process_bar, session control).                    *)
THEOREM SquareOffIsFinal == Spec => []FlatAfterSquareOff
<1>1. FlatInv => FlatAfterSquareOff
  BY DEF FlatInv
<1> QED
  BY <1>1, OrderInit, OrderNext, FlatInit, FlatNext, PTL DEF Spec

----------------------------------------------------------------------------
(* The breaker.                                                            *)

LEMMA RiskKeepsHalt ==
    ASSUME NEW r, IsRisk(r), r.halted
    PROVE  /\ \A i \in Instruments : \A n, price, stop :
                 OnOpenFill(r, i, n, price, stop).halted
           /\ \A i \in Instruments : \A price : OnCloseFill(r, i, price).halted
           /\ \A a : ApplyCosts(r, a).halted
           /\ \A s, p : Evaluated(r, s, p).halted
<1>1. \A i \in Instruments : \A n, price, stop : OnOpenFill(r, i, n, price, stop).halted
  BY DEF OnOpenFill, With
<1>2. \A i \in Instruments : \A price : OnCloseFill(r, i, price).halted
  <2> TAKE i \in Instruments
  <2> TAKE price
  <2>1. CASE r.positions[i].qty = 0
    BY <2>1 DEF OnCloseFill
  <2>2. CASE r.positions[i].qty # 0
    BY <2>2 DEF OnCloseFill, Checked, Tripped, With
  <2> QED
    BY <2>1, <2>2
<1>3. \A a : ApplyCosts(r, a).halted
  BY DEF ApplyCosts, Checked, Tripped, With
<1>4. \A s, p : Evaluated(r, s, p).halted
  BY DEF Evaluated, Tripped
<1> QED
  BY <1>1, <1>2, <1>3, <1>4

(* The breaker survives every step of the session, and an order that opens *)
(* becomes pending only when it has not tripped.                           *)
LEMMA HaltNext ==
    BooksInv /\ OrderInv /\ [Next]_vars =>
        (risk.halted /\ SameSession(now') =>
            /\ risk'.halted
            /\ \A i \in Instruments :
                  pending'[i].intent \in Opening => pending'[i] = pending[i])
<1> SUFFICES ASSUME BooksInv, OrderInv, [Next]_vars, risk.halted, SameSession(now')
             PROVE  /\ risk'.halted
                    /\ \A i \in Instruments :
                          pending'[i].intent \in Opening => pending'[i] = pending[i]
  OBVIOUS
<1>0. IsRisk(risk) /\ IsFun(pending) /\ NoOrder.intent \notin Opening
  BY DEF BooksInv, OrderInv, NoOrder, Opening
<1>1. ASSUME NEW t \in now..MaxTime, NEW i \in Instruments, NEW b, NextBar(t, i, b)
      PROVE  UNCHANGED <<risk, pending>>
  BY <1>1 DEF NextBar, RollSession, SameSession, books
<1>2. CASE NothingPending
  BY <1>2 DEF NothingPending, books
<1>3. CASE DropUnfillable
  BY <1>0, <1>3 DEF DropUnfillable, IsFun
<1>4. CASE OpenAtOpen
  BY <1>0, <1>4 DEF OpenAtOpen, IsFun
<1>5. CASE CloseAtOpen
  BY <1>0, <1>5 DEF CloseAtOpen, IsFun
<1>6. CASE ExitAtLevel
  BY <1>6 DEF ExitAtLevel
<1>7. CASE NoExit
  BY <1>7 DEF NoExit, books
<1>8. CASE ApplyOpen
  <2> DEFINE f == Head(fills)
             r == OnOpenFill(risk, inst, f.qty, f.price, broker[inst].stop)
  <2>1. inst \in Instruments
    BY <1>8 DEF ApplyOpen, BooksInv
  <2>2. IsRisk(r) /\ r.halted
    BY <1>0, <2>1, OpenFillOpens, RiskKeepsHalt
  <2>3. risk' = ApplyCosts(r, CostsOf(f)) /\ UNCHANGED pending
    BY <1>8 DEF ApplyOpen, books
  <2> HIDE DEF r, f
  <2> QED
    BY <2>2, <2>3, RiskKeepsHalt
<1>9. CASE ApplyClose
  <2> DEFINE f == Head(fills)
             r == OnCloseFill(risk, inst, f.price)
  <2>1. inst \in Instruments /\ Clean(risk.positions[inst])
    BY <1>9 DEF ApplyClose, BooksInv
  <2>2. IsRisk(r) /\ r.halted
    BY <1>0, <2>1, CloseFillCloses, RiskKeepsHalt
  <2>3. risk' = ApplyCosts(r, CostsOf(f)) /\ UNCHANGED pending
    BY <1>9 DEF ApplyClose
  <2> HIDE DEF r, f
  <2> QED
    BY <2>2, <2>3, RiskKeepsHalt
<1>10. CASE ForceClose
  BY <1>0, <1>10 DEF ForceClose, IsFun
<1>11. CASE SessionOver
  BY <1>0, <1>11 DEF SessionOver, IsFun
<1>12. ASSUME NEW intent, NEW stop, NEW target, Signal(intent, stop, target)
       PROVE  /\ risk'.halted
              /\ \A i \in Instruments :
                    pending'[i].intent \in Opening => pending'[i] = pending[i]
  <2> DEFINE s == [inst |-> inst, intent |-> intent, ref |-> bar.close,
                   stop |-> stop, target |-> target]
             o == OrderFor(risk, s)
             q == [intent |-> o.intent, qty |-> o.qty, stop |-> o.stop,
                   target |-> o.target, submitted |-> now + 1]
  <2>1. risk' = Evaluated(risk, s, Permits(PhaseOf[now]))
    BY <1>12 DEF Signal
  <2>2. \/ UNCHANGED pending
        \/ Approves(s) /\ pending' = [pending EXCEPT ![inst] = q]
    BY <1>12 DEF Signal
  <2>3. s.intent = intent /\ o.intent = intent
    BY DEF OrderFor
  <2>4. Approves(s) => intent \notin Opening
    BY <2>3 DEF Approves, ApprovesExit, ApprovesEntry, Tripped
  <2> HIDE DEF s, o
  <2>5. q.intent = intent
    BY <2>3
  <2> HIDE DEF q
  <2>6. \A i \in Instruments :
           pending'[i].intent \in Opening => pending'[i] = pending[i]
    BY <1>0, <2>2, <2>4, <2>5 DEF IsFun
  <2> QED
    BY <1>0, <2>1, <2>6, RiskKeepsHalt
<1>13. CASE NoSignal
  BY <1>13 DEF NoSignal, books
<1>14. CASE UNCHANGED vars
  BY <1>14 DEF vars, books
<1> QED
  BY <1>1, <1>2, <1>3, <1>4, <1>5, <1>6, <1>7, <1>8, <1>9, <1>10, <1>11,
     <1>12, <1>13, <1>14 DEF Next

(* Within a session the daily breaker stays tripped whatever is filled and *)
(* whatever a strategy signals, and lets no entry become pending           *)
(* (RiskEngine.evaluate, check_daily_drawdown).                            *)
THEOREM BreakerIsFinal == Spec => HaltHolds
<1>1. BooksInv /\ OrderInv /\ [Next]_vars =>
        [risk.halted /\ SameSession(now') =>
            /\ risk'.halted
            /\ \A i \in Instruments :
                  pending'[i].intent \in Opening => pending'[i] = pending[i]]_vars
  BY HaltNext
<1> QED
  BY <1>1, BooksInit, BooksNext, OrderInit, OrderNext, PTL DEF Spec, HaltHolds

----------------------------------------------------------------------------
(* Quantities and prices.                                                  *)

LEMMA MinOfTwo ==
    ASSUME NEW a \in Int, NEW b \in Int
    PROVE  MinOf({a, b}) \in {a, b} /\ MinOf({a, b}) <= a /\ MinOf({a, b}) <= b
<1>1. \E x \in {a, b} : \A y \in {a, b} : x <= y
  BY DEF MinOf
<1> QED
  BY <1>1 DEF MinOf

LEMMA MinOfThree ==
    ASSUME NEW a \in Int, NEW b \in Int, NEW c \in Int
    PROVE  MinOf({a, b, c}) \in Int
<1>1. \E x \in {a, b, c} : \A y \in {a, b, c} : x <= y
  <2>1. CASE a <= b /\ a <= c
    BY <2>1
  <2>2. CASE b <= a /\ b <= c
    BY <2>2
  <2>3. CASE c <= a /\ c <= b
    BY <2>3
  <2> QED
    BY <2>1, <2>2, <2>3
<1>2. MinOf({a, b, c}) \in {a, b, c}
  BY <1>1 DEF MinOf
<1> QED
  BY <1>2

LEMMA SizeIsNat ==
    ASSUME NEW n \in Int
    PROVE  Size(n) \in Nat /\ (Size(n) = 0 <=> n = 0) /\ (n >= 0 => Size(n) = n)
  BY DEF Size

LEMMA GrossIsInt ==
    ASSUME NEW r \in Risk
    PROVE  GrossExposure(r) \in Int
<1> DEFINE f == [i \in Instruments |-> Size(r.positions[i].qty) * r.positions[i].entry]
<1>1. \A i \in Instruments : f[i] \in Int
  <2> TAKE i \in Instruments
  <2>1. r.positions[i].qty \in Int /\ r.positions[i].entry \in Int
    BY DEF Risk, Position
  <2>2. Size(r.positions[i].qty) \in Int
    BY <2>1, SizeIsNat
  <2> QED
    BY <2>1, <2>2
<1>2. Held(r) \subseteq Instruments /\ IsFiniteSet(Held(r))
  BY InstrumentsAssumption, FS_Subset DEF Held
<1> HIDE DEF f
<1>3. SumFunctionOnSet(f, Held(r)) \in Int
  BY <1>1, <1>2, SumIsInt
<1> QED
  BY <1>3 DEF GrossExposure, f

LEMMA DivIsInt ==
    ASSUME NEW a \in Int, NEW b \in Int, b > 0
    PROVE  a \div b \in Int
  OBVIOUS

LEMMA SizeForIsInt ==
    ASSUME NEW r \in Risk, NEW s, s.ref \in Nat, s.stop \in Nat,
           s.ref > 0, s.ref # s.stop
    PROVE  SizeFor(r, s) \in Int
<1> DEFINE gross == r.equity * MaxGross - 1000 * GrossExposure(r)
           room  == IF gross < 0 THEN 0 ELSE gross
           d     == 1000 * Size(s.ref - s.stop)
           e     == 1000 * s.ref
<1>1. /\ r.equity \in Int /\ {RiskPerTrade, MaxExposure, MaxGross} \subseteq Int
  BY LimitsAssumption DEF Risk
<1>2. gross \in Int
  BY <1>1, GrossIsInt
<1>3. d \in Int /\ d > 0 /\ e \in Int /\ e > 0
  <2>1. Size(s.ref - s.stop) \in Nat /\ Size(s.ref - s.stop) # 0
    BY SizeIsNat
  <2> QED
    BY <2>1
<1>4. r.equity * RiskPerTrade \in Int /\ r.equity * MaxExposure \in Int
  BY <1>1
<1> HIDE DEF d, e, gross
<1>5. /\ (r.equity * RiskPerTrade) \div d \in Int
      /\ (r.equity * MaxExposure) \div e \in Int
      /\ room \div e \in Int
  BY <1>2, <1>3, <1>4, DivIsInt
<1>6. SizeFor(r, s) = MinOf({(r.equity * RiskPerTrade) \div d,
                             (r.equity * MaxExposure) \div e, room \div e})
  BY DEF SizeFor, d, e, gross
<1> QED
  BY <1>5, <1>6, MinOfThree

LEMMA RiskStaysTyped ==
    ASSUME NEW r \in Risk
    PROVE  /\ \A e \in Int : StartSession(r, e) \in Risk
           /\ \A i \in Instruments : \A n, p, s \in Int : OnOpenFill(r, i, n, p, s) \in Risk
           /\ \A i \in Instruments : \A p \in Int : OnCloseFill(r, i, p) \in Risk
           /\ \A a \in Int : ApplyCosts(r, a) \in Risk
           /\ \A s, p : Evaluated(r, s, p) \in Risk
<1>0. /\ r = [equity |-> r.equity, pnl |-> r.pnl, positions |-> r.positions,
              halted |-> r.halted, orders |-> r.orders]
      /\ r.equity \in Int /\ r.pnl \in Int /\ r.halted \in BOOLEAN /\ r.orders \in Nat
      /\ r.positions \in [Instruments -> Position]
  BY DEF Risk
<1>1. \A e \in Int : StartSession(r, e) \in Risk
  BY <1>0 DEF Risk, StartSession
<1>2. ASSUME NEW q \in [Instruments -> Position], NEW n \in Int
      PROVE  With(r, q, n) \in Risk
  BY <1>0, <1>2 DEF Risk, With
<1>3. ASSUME NEW o \in Risk PROVE Tripped(o) \in BOOLEAN
  BY DEF Risk, Tripped
<1>4. ASSUME NEW o \in Risk PROVE Checked(o) \in Risk
  BY <1>3 DEF Risk, Checked
<1>5. ASSUME NEW i \in Instruments, NEW n \in Int, NEW p \in Int, NEW s \in Int
      PROVE  OnOpenFill(r, i, n, p, s) \in Risk
  <2>1. [r.positions EXCEPT ![i] = [qty |-> n, entry |-> p, stop |-> s]]
            \in [Instruments -> Position]
    BY <1>0 DEF Position
  <2> QED
    BY <1>0, <1>2, <2>1 DEF OnOpenFill
<1>6. ASSUME NEW i \in Instruments, NEW p \in Int
      PROVE  OnCloseFill(r, i, p) \in Risk
  <2>1. [r.positions EXCEPT ![i] = Flat] \in [Instruments -> Position]
    BY <1>0 DEF Position, Flat
  <2>2. r.pnl + (p - r.positions[i].entry) * r.positions[i].qty \in Int
    <3>1. r.positions[i].entry \in Int /\ r.positions[i].qty \in Int
      BY <1>0 DEF Position
    <3> QED
      BY <1>0, <3>1
  <2>3. With(r, [r.positions EXCEPT ![i] = Flat],
             r.pnl + (p - r.positions[i].entry) * r.positions[i].qty) \in Risk
    BY <1>2, <2>1, <2>2
  <2> QED
    BY <1>4, <2>3 DEF OnCloseFill
<1>7. ASSUME NEW a \in Int PROVE ApplyCosts(r, a) \in Risk
  <2>1. With(r, r.positions, r.pnl - Size(a)) \in Risk
    BY <1>0, <1>2, SizeIsNat
  <2> QED
    BY <1>4, <2>1 DEF ApplyCosts
<1>8. ASSUME NEW s, NEW p PROVE Evaluated(r, s, p) \in Risk
  BY <1>0, <1>3 DEF Evaluated, Risk
<1> QED
  BY <1>1, <1>5, <1>6, <1>7, <1>8

(* TypeOK is inductive with: the pending order of the bar's instrument is  *)
(* gone once the bar has opened.                                           *)
TypeInv == TypeOK /\ (stage \in {"levels", "apply"} => pending[inst] = NoOrder)

LEMMA Empties == NoOrder \in Order /\ NoPosition \in OpenPosition
  BY DEF NoOrder, Order, NoPosition, OpenPosition

LEMMA TypeInit == Init => TypeInv
<1> SUFFICES ASSUME Init PROVE TypeInv
  OBVIOUS
<1>1. risk \in Risk
  <2>1. NoSession \in Risk
    BY DEF NoSession, Risk, Position, Flat
  <2> QED
    BY <2>1, RiskStaysTyped, BacktestAssumption DEF Init
<1>2. bar \in Bar
  BY DEF Init, Bar
<1>3. \A i \in Instruments : pending[i].intent = "none"
  BY DEF Init, NoOrder
<1> QED
  BY <1>1, <1>2, <1>3, Empties, BacktestAssumption
     DEF Init, TypeInv, TypeOK, Opening, Intents

LEMMA FillableIsNat ==
    ASSUME TypeOK, NEW n \in Nat
    PROVE  Fillable(n) \in Nat
<1>1. bar.most \in Nat /\ bar.most \in Int /\ n \in Int
  BY DEF TypeOK, Bar
<1>2. MinOf({n, bar.most}) \in {n, bar.most}
  BY <1>1, MinOfTwo
<1> QED
  BY <1>1, <1>2 DEF Fillable

LEMMA PriceIsInt ==
    ASSUME NEW isBuy \in BOOLEAN, NEW p \in Int
    PROVE  FillPrice(isBuy, p) \in Int
  BY BacktestAssumption DEF FillPrice

LEMMA CostsAreNat ==
    ASSUME NEW f, f.qty \in Int
    PROVE  CostsOf(f) \in Nat
<1>1. Size(f.qty) \in Nat /\ BuyFee \in Nat /\ SellFee \in Nat
  BY SizeIsNat, BacktestAssumption
<1> QED
  BY <1>1 DEF CostsOf, Costs

LEMMA CloseFillIsFill ==
    ASSUME TypeOK, NEW p \in OpenPosition, NEW raw \in Int
    PROVE  CloseFill(p, raw) \in Fill
<1>1. p.qty \in Int /\ -p.qty \in Int /\ (p.qty < 0) \in BOOLEAN
  BY DEF OpenPosition
<1>2. FillPrice(p.qty < 0, raw) \in Int
  BY <1>1, PriceIsInt
<1> QED
  BY <1>1, <1>2 DEF CloseFill, Fill

(* An order approved is one for a number of shares.                        *)
LEMMA ApprovedIsTyped ==
    ASSUME NEW r \in Risk, NEW s, NEW p, s.ref \in Nat, s.stop \in Nat, s.target \in Nat,
           s.inst \in Instruments, s.intent \in Intents,
           ApprovesEntry(r, s, p) \/ ApprovesExit(r, s, p)
    PROVE  LET o == OrderFor(r, s) IN
           /\ o.intent = s.intent /\ o.qty \in Nat /\ o.stop \in Nat /\ o.target \in Nat
<1>1. CASE s.intent \in Opening
  <2>1. GoodStop(s) /\ SizeFor(r, s) > 0
    BY <1>1 DEF ApprovesEntry, ApprovesExit
  <2>2. s.ref > 0 /\ s.ref # s.stop
    BY <2>1 DEF GoodStop
  <2>3. SizeFor(r, s) \in Int
    BY <2>2, SizeForIsInt
  <2> QED
    BY <1>1, <2>1, <2>3 DEF OrderFor
<1>2. CASE s.intent \notin Opening
  <2>1. r.positions[s.inst].qty \in Int
    BY DEF Risk, Position
  <2> QED
    BY <1>2, <2>1, SizeIsNat DEF OrderFor
<1> QED
  BY <1>1, <1>2

(* What the fills at an instrument leave of the broker's books: no order   *)
(* pending there.                                                          *)
LEMMA OrderGone ==
    ASSUME TypeOK, NEW i \in Instruments, NEW p \in OpenPosition
    PROVE  LET pd == [pending EXCEPT ![i] = NoOrder]
               bk == [broker EXCEPT ![i] = p] IN
           /\ pd \in [Instruments -> Order] /\ bk \in [Instruments -> OpenPosition]
           /\ \A j \in Instruments :
                 /\ pd[j].intent \in Opening => bk[j].qty = 0
                 /\ pd[j].intent \in Intents \ Opening => bk[j].qty # 0
<1> DEFINE pd == [pending EXCEPT ![i] = NoOrder]
           bk == [broker EXCEPT ![i] = p]
<1>1. pending \in [Instruments -> Order] /\ broker \in [Instruments -> OpenPosition]
  BY DEF TypeOK
<1>2. pd \in [Instruments -> Order] /\ bk \in [Instruments -> OpenPosition]
  BY <1>1, Empties
<1>3. pd[i].intent = "none" /\ "none" \notin Opening /\ "none" \notin Intents \ Opening
  BY <1>1 DEF NoOrder, Opening, Intents
<1>4. \A j \in Instruments \ {i} : pd[j] = pending[j] /\ bk[j] = broker[j]
  BY <1>1
<1>5. ASSUME NEW j \in Instruments
      PROVE  /\ pd[j].intent \in Opening => bk[j].qty = 0
             /\ pd[j].intent \in Intents \ Opening => bk[j].qty # 0
  <2> HIDE DEF pd, bk
  <2>1. CASE j = i
    BY <1>3, <2>1
  <2>2. CASE j # i
    BY <1>4, <2>2 DEF TypeOK
  <2> QED
    BY <2>1, <2>2
<1> QED
  BY <1>2, <1>5

LEMMA TypeNext == TypeInv /\ BooksInv /\ [Next]_vars => TypeInv'
<1> SUFFICES ASSUME TypeInv, BooksInv, [Next]_vars PROVE TypeInv'
  OBVIOUS
<1>0. /\ now \in 0..MaxTime /\ bar \in Bar /\ fills \in Seq(Fill)
      /\ pending \in [Instruments -> Order] /\ broker \in [Instruments -> OpenPosition]
      /\ closed \in [Instruments -> OpenPosition] /\ risk \in Risk
      /\ entryCosts \in [Instruments -> Int] /\ {equity, dayOpen, carried} \subseteq Int
      /\ closes \in [Instruments -> Nat] /\ TypeOK /\ MaxTime \in Nat
      /\ stage # "next" => inst \in Instruments
      /\ stage \in {"levels", "apply"} => pending[inst] = NoOrder
  <2>1. TypeOK /\ MaxTime \in Nat
    BY BacktestAssumption DEF TypeInv
  <2>2. stage \in {"levels", "apply"} => pending[inst] = NoOrder
    BY DEF TypeInv
  <2> QED
    BY <2>1, <2>2 DEF TypeOK
<1>1. ASSUME NEW t \in now..MaxTime, NEW i \in Instruments,
             NEW b \in Bars \cup {SyntheticBar(i)}, NextBar(t, i, b)
      PROVE  TypeInv'
  <2>1. b \in Bar
    <3>1. SyntheticBar(i) \in Bar
      BY <1>0 DEF SyntheticBar, Bar
    <3> QED
      BY <3>1, BacktestAssumption
  <2>2. risk' \in Risk /\ {dayOpen', carried'} \subseteq Int /\ squared' \subseteq Instruments
    <3>1. SumOf(entryCosts) \in Int
      BY <1>0, InstrumentsAssumption, SumIsInt DEF SumOf
    <3>2. \A e \in Int : StartSession(risk, e) \in Risk
      BY <1>0, RiskStaysTyped
    <3>3. squared \subseteq Instruments /\ StartingEquity \in Int
      BY BacktestAssumption DEF TypeInv, TypeOK
    <3> QED
      BY <1>0, <1>1, <3>1, <3>2, <3>3 DEF NextBar, RollSession
  <2>3. closes' \in [Instruments -> Nat]
    BY <1>0, <1>1, <2>1 DEF NextBar, Bar
  <2>4. /\ now' = t /\ inst' = i /\ bar' = b /\ stage = "next" /\ stage' = "open"
        /\ UNCHANGED <<fills, pending, broker, closed, entryCosts, equity>>
        /\ t \in 0..MaxTime
    BY <1>0, <1>1 DEF NextBar, books
  <2> QED
    BY <1>0, <2>1, <2>2, <2>3, <2>4 DEF TypeInv, TypeOK
<1>2. CASE NothingPending
  BY <1>2 DEF NothingPending, books, ledger, TypeInv, TypeOK, BooksInv
<1>3. CASE DropUnfillable
  <2>1. /\ stage = "open" /\ stage' = "levels" /\ inst \in Instruments
        /\ pending' = [pending EXCEPT ![inst] = NoOrder]
        /\ UNCHANGED <<now, inst, bar, fills, broker, closed, risk, ledger, closes,
                       squared>>
    BY <1>0, <1>3 DEF DropUnfillable
  <2>2. broker[inst] \in OpenPosition /\ broker = [broker EXCEPT ![inst] = broker[inst]]
    BY <1>0, <2>1
  <2>3. pending'[inst] = NoOrder
    BY <1>0, <2>1
  <2> QED
    BY <1>0, <2>1, <2>2, <2>3, OrderGone DEF TypeInv, TypeOK, ledger
<1>4. CASE OpenAtOpen
  <2> DEFINE o == pending[inst]
             n == Signed(IsBuy(o.intent), Fillable(o.qty))
             price == FillPrice(IsBuy(o.intent), bar.open)
             p == [qty |-> n, entry |-> price, stop |-> o.stop, target |-> o.target,
                   submitted |-> o.submitted, filled |-> now]
             f == [opens |-> TRUE, qty |-> n, price |-> price]
  <2>1. /\ stage = "open" /\ stage' = "levels" /\ inst \in Instruments /\ o \in Order
        /\ broker' = [broker EXCEPT ![inst] = p] /\ fills' = <<f>>
        /\ pending' = [pending EXCEPT ![inst] = NoOrder]
        /\ UNCHANGED <<now, inst, bar, closed, risk, ledger, closes, squared>>
    BY <1>0, <1>4 DEF OpenAtOpen
  <2>2. n \in Int /\ price \in Int
    <3>1. Fillable(o.qty) \in Nat
      BY <1>0, <2>1, FillableIsNat DEF Order
    <3>2. IsBuy(o.intent) \in BOOLEAN /\ bar.open \in Int
      BY <1>0 DEF IsBuy, Bar
    <3> QED
      BY <3>1, <3>2, PriceIsInt DEF Signed
  <2>3. p \in OpenPosition /\ f \in Fill
    <3> HIDE DEF n, price
    <3> QED
      BY <1>0, <2>1, <2>2 DEF OpenPosition, Order, Fill
  <2> HIDE DEF p, f
  <2>4. fills' \in Seq(Fill)
    BY <2>1, <2>3
  <2>5. pending'[inst] = NoOrder
    BY <1>0, <2>1
  <2> QED
    BY <1>0, <2>1, <2>3, <2>4, <2>5, OrderGone DEF TypeInv, TypeOK, ledger
<1>5. CASE CloseAtOpen
  <2> DEFINE buy == IsBuy(pending[inst].intent)
             f == [opens |-> FALSE, price |-> FillPrice(buy, bar.open),
                   qty |-> Signed(buy, Size(broker[inst].qty))]
  <2>1. /\ stage = "open" /\ stage' = "levels" /\ inst \in Instruments
        /\ closed' = [closed EXCEPT ![inst] = broker[inst]]
        /\ broker' = [broker EXCEPT ![inst] = NoPosition] /\ fills' = <<f>>
        /\ pending' = [pending EXCEPT ![inst] = NoOrder]
        /\ UNCHANGED <<now, inst, bar, risk, ledger, closes, squared>>
    BY <1>0, <1>5 DEF CloseAtOpen, LeftAtOpen
  <2>2. f \in Fill
    <3>1. broker[inst].qty \in Int /\ bar.open \in Int /\ buy \in BOOLEAN
      BY <1>0, <2>1 DEF OpenPosition, Bar, IsBuy
    <3>2. Signed(buy, Size(broker[inst].qty)) \in Int
      BY <3>1, SizeIsNat DEF Signed
    <3> QED
      BY <3>1, <3>2, PriceIsInt DEF Fill
  <2> HIDE DEF f
  <2>3. fills' \in Seq(Fill)
    BY <2>1, <2>2
  <2>4. pending'[inst] = NoOrder /\ closed' \in [Instruments -> OpenPosition]
    BY <1>0, <2>1
  <2> QED
    BY <1>0, <2>1, <2>3, <2>4, Empties, OrderGone DEF TypeInv, TypeOK, ledger
<1>6. CASE ExitAtLevel
  <2> DEFINE p == broker[inst]
             f == CloseFill(p, ExitLevel(p))
  <2>1. /\ stage = "levels" /\ stage' = "apply" /\ inst \in Instruments
        /\ closed' = [closed EXCEPT ![inst] = p]
        /\ broker' = [broker EXCEPT ![inst] = NoPosition] /\ fills' = Append(fills, f)
        /\ UNCHANGED <<now, inst, bar, pending, risk, ledger, closes, squared>>
    BY <1>0, <1>6 DEF ExitAtLevel
  <2>2. p \in OpenPosition
    BY <1>0, <2>1
  <2>3. ExitLevel(p) \in Int
    <3> HIDE DEF p, f
    <3>1. bar.open \in Int /\ p.stop \in Int /\ p.target \in Int
      BY <1>0, <2>2 DEF OpenPosition, Bar
    <3> QED
      BY <3>1 DEF ExitLevel
  <2>4. f \in Fill
    BY <1>0, <2>2, <2>3, CloseFillIsFill
  <2> HIDE DEF f
  <2>5. fills' \in Seq(Fill)
    BY <1>0, <2>1, <2>4
  <2>6. closed' \in [Instruments -> OpenPosition] /\ pending[inst] = NoOrder
    BY <1>0, <2>1, <2>2
  <2>7. pending = [pending EXCEPT ![inst] = NoOrder]
    BY <1>0, <2>1, <2>6
  <2> QED
    BY <1>0, <2>1, <2>5, <2>6, <2>7, Empties, OrderGone DEF TypeInv, TypeOK, ledger
<1>7. CASE NoExit
  BY <1>7 DEF NoExit, books, ledger, TypeInv, TypeOK
<1>8. CASE ApplyOpen
  <2> DEFINE f == Head(fills)
             r == OnOpenFill(risk, inst, f.qty, f.price, broker[inst].stop)
  <2>1. /\ stage = "apply" /\ fills # <<>> /\ inst \in Instruments
        /\ entryCosts' = [entryCosts EXCEPT ![inst] = CostsOf(f)]
        /\ risk' = ApplyCosts(r, CostsOf(f)) /\ fills' = Tail(fills)
        /\ UNCHANGED <<now, inst, bar, stage, pending, broker, closed, equity,
                       dayOpen, carried, closes, squared>>
    BY <1>0, <1>8 DEF ApplyOpen, books
  <2>2. f \in Fill /\ fills' \in Seq(Fill)
    BY <1>0, <2>1
  <2>3. f.qty \in Int /\ f.price \in Int /\ broker[inst].stop \in Int /\ CostsOf(f) \in Int
    <3> HIDE DEF f
    <3>1. f.qty \in Int /\ f.price \in Int
      BY <2>2 DEF Fill
    <3>2. broker[inst].stop \in Int
      BY <1>0, <2>1 DEF OpenPosition
    <3> QED
      BY <3>1, <3>2, CostsAreNat
  <2>4. r \in Risk
    BY <1>0, <2>1, <2>3, RiskStaysTyped
  <2> HIDE DEF f, r
  <2>5. risk' \in Risk
    BY <2>1, <2>3, <2>4, RiskStaysTyped
  <2> QED
    BY <1>0, <2>1, <2>2, <2>3, <2>5 DEF TypeInv, TypeOK
<1>9. CASE ApplyClose
  <2> DEFINE f == Head(fills)
             r == OnCloseFill(risk, inst, f.price)
  <2>1. /\ stage = "apply" /\ fills # <<>> /\ inst \in Instruments
        /\ closed' = [closed EXCEPT ![inst] = NoPosition]
        /\ entryCosts' = [entryCosts EXCEPT ![inst] = 0]
        /\ equity' = equity + NetPnl(closed[inst], f)
        /\ risk' = ApplyCosts(r, CostsOf(f)) /\ fills' = Tail(fills)
        /\ UNCHANGED <<now, inst, bar, stage, pending, broker, dayOpen, carried,
                       closes, squared>>
    BY <1>0, <1>9 DEF ApplyClose
  <2>2. f \in Fill /\ fills' \in Seq(Fill)
    BY <1>0, <2>1
  <2>3. f.qty \in Int /\ f.price \in Int /\ CostsOf(f) \in Int
    BY <2>2, CostsAreNat DEF Fill
  <2>4. r \in Risk
    BY <1>0, <2>1, <2>3, RiskStaysTyped
  <2> HIDE DEF f, r
  <2>5. risk' \in Risk
    BY <2>1, <2>3, <2>4, RiskStaysTyped
  <2>6. equity' \in Int
    <3>1. closed[inst].entry \in Int /\ closed[inst].qty \in Int /\ entryCosts[inst] \in Int
      BY <1>0, <2>1 DEF OpenPosition
    <3>2. (f.price - closed[inst].entry) * closed[inst].qty \in Int
      BY <2>3, <3>1
    <3> QED
      BY <1>0, <2>1, <2>3, <3>1, <3>2 DEF NetPnl
  <2> QED
    BY <1>0, <2>1, <2>2, <2>5, <2>6, Empties DEF TypeInv, TypeOK
<1>10. CASE ForceClose
  <2> DEFINE p == broker[inst]
             f == CloseFill(p, bar.close)
  <2>1. /\ stage = "apply" /\ inst \in Instruments
        /\ pending' = [pending EXCEPT ![inst] = NoOrder]
        /\ closed' = [closed EXCEPT ![inst] = p]
        /\ broker' = [broker EXCEPT ![inst] = NoPosition] /\ fills' = <<f>>
        /\ UNCHANGED <<now, inst, bar, stage, risk, ledger, closes, squared>>
    BY <1>0, <1>10 DEF ForceClose
  <2>2. f \in Fill
    BY <1>0, <2>1, CloseFillIsFill DEF Bar
  <2> HIDE DEF f
  <2>3. fills' \in Seq(Fill)
    BY <2>1, <2>2
  <2>4. pending'[inst] = NoOrder /\ closed' \in [Instruments -> OpenPosition]
    BY <1>0, <2>1
  <2> QED
    BY <1>0, <2>1, <2>3, <2>4, Empties, OrderGone DEF TypeInv, TypeOK, ledger
<1>11. CASE SessionOver
  <2>1. /\ stage = "apply" /\ stage' = "next" /\ inst \in Instruments
        /\ pending' = [pending EXCEPT ![inst] = NoOrder]
        /\ squared' \subseteq squared \cup {inst} /\ fills = <<>>
        /\ UNCHANGED <<now, inst, bar, fills, broker, closed, risk, ledger, closes>>
    BY <1>0, <1>11 DEF SessionOver
  <2>2. broker[inst] \in OpenPosition /\ broker = [broker EXCEPT ![inst] = broker[inst]]
    BY <1>0, <2>1
  <2> QED
    BY <1>0, <2>1, <2>2, OrderGone DEF TypeInv, TypeOK, ledger
<1>12. ASSUME NEW intent \in Intents, NEW stop \in Stops, NEW target \in Targets,
              Signal(intent, stop, target)
       PROVE  TypeInv'
  <2> DEFINE s == [inst |-> inst, intent |-> intent, ref |-> bar.close,
                   stop |-> stop, target |-> target]
             o == OrderFor(risk, s)
             q == [intent |-> o.intent, qty |-> o.qty, stop |-> o.stop,
                   target |-> o.target, submitted |-> now + 1]
  <2>1. /\ stage = "apply" /\ stage' = "next" /\ fills = <<>> /\ inst \in Instruments
        /\ risk' = Evaluated(risk, s, Permits(PhaseOf[now]))
        /\ \/ UNCHANGED pending
           \/ Approves(s) /\ pending' = [pending EXCEPT ![inst] = q]
        /\ UNCHANGED <<now, inst, bar, fills, broker, closed, ledger, closes, squared>>
    BY <1>0, <1>12 DEF Signal, AfterSignals
  <2>2. /\ s.inst = inst /\ s.intent = intent /\ s.ref \in Nat /\ s.stop \in Nat
        /\ s.target \in Nat
    BY <1>0, BacktestAssumption DEF Bar
  <2>3. risk.positions[inst].qty = broker[inst].qty
    BY <2>1 DEF BooksInv, FillsMatch, Ahead, AsRiskSees
  <2> HIDE DEF s
  <2>4. risk' \in Risk
    BY <1>0, <2>1, RiskStaysTyped
  <2>5. ASSUME Approves(s)
        PROVE  /\ q \in Order /\ q.intent = intent
               /\ intent \in Opening => broker[inst].qty = 0
               /\ intent \notin Opening => broker[inst].qty # 0
    <3>1. /\ o.intent = s.intent /\ o.qty \in Nat /\ o.stop \in Nat /\ o.target \in Nat
      BY <1>0, <2>1, <2>2, <2>5, ApprovedIsTyped DEF Approves
    <3>2. /\ intent \in Opening => broker[inst].qty = 0
          /\ intent \notin Opening => broker[inst].qty # 0
      BY <2>2, <2>3, <2>5 DEF Approves, ApprovesEntry, ApprovesExit
    <3> HIDE DEF o
    <3> QED
      BY <1>0, <2>2, <3>1, <3>2 DEF Order
  <2> HIDE DEF q
  <2>6. pending' \in [Instruments -> Order]
    BY <1>0, <2>1, <2>5
  <2>7. \A i \in Instruments :
           /\ pending'[i].intent \in Opening => broker[i].qty = 0
           /\ pending'[i].intent \in Intents \ Opening => broker[i].qty # 0
    BY <1>0, <2>1, <2>5 DEF TypeOK
  <2> QED
    BY <1>0, <2>1, <2>4, <2>6, <2>7 DEF TypeInv, TypeOK, ledger
<1>13. CASE NoSignal
  BY <1>13 DEF NoSignal, books, ledger, AfterSignals, TypeInv, TypeOK
<1>14. CASE UNCHANGED vars
  BY <1>14 DEF vars, books, ledger, TypeInv, TypeOK
<1> QED
  BY <1>1, <1>2, <1>3, <1>4, <1>5, <1>6, <1>7, <1>8, <1>9, <1>10, <1>11,
     <1>12, <1>13, <1>14 DEF Next

(* Every variable stays in its domain: what sizes an order is a sum over   *)
(* the positions held, and yields a number of shares; an instrument is     *)
(* never held and pending to open (RiskEngine.evaluate, SimBroker).        *)
THEOREM BacktestTypeCorrect == Spec => []TypeOK
<1>1. TypeInv => TypeOK
  BY DEF TypeInv
<1> QED
  BY <1>1, TypeInit, TypeNext, BooksInit, BooksNext, PTL DEF Spec

----------------------------------------------------------------------------
(* The money.                                                              *)

(* What the pending fills will settle: an opening fill finds the risk      *)
(* engine without a position, a closing one the deal the broker closed.    *)
Settles ==
    \/ fills = <<>>
    \/ \E f : fills = <<f>> /\ f.opens /\ risk.positions[inst].qty = 0
    \/ \E f : /\ fills = <<f>> /\ ~f.opens
              /\ closed[inst].qty = risk.positions[inst].qty
              /\ closed[inst].entry = risk.positions[inst].entry
    \/ \E f, g : /\ fills = <<f, g>> /\ f.opens /\ ~g.opens
                 /\ risk.positions[inst].qty = 0
                 /\ closed[inst].qty = f.qty /\ closed[inst].entry = f.price

(* The two books of the day's money.                                       *)
Balanced == equity - dayOpen = risk.pnl + SumOf(entryCosts) - carried

(* MoneyAgrees is inductive with: it holds between any two fills, and only *)
(* what is held has cost an entry.                                         *)
MoneyInv ==
    /\ Balanced /\ Settles
    /\ \A i \in Instruments : risk.positions[i].qty = 0 => entryCosts[i] = 0

LEMMA MoneyInit == Init => MoneyInv
<1> SUFFICES ASSUME Init PROVE MoneyInv
  OBVIOUS
<1>1. SumOf(entryCosts) = SumOf([i \in Instruments |-> 0])
  BY DEF Init
<1>2. equity = StartingEquity /\ dayOpen = StartingEquity /\ carried = 0
      /\ risk.pnl = 0 /\ StartingEquity \in Int
  BY BacktestAssumption DEF Init, StartSession
<1>3. SumOf(entryCosts) = 0
  <2> DEFINE zero == [i \in Instruments |-> 0]
  <2>1. \A i \in Instruments : zero[i] = 0
    OBVIOUS
  <2> HIDE DEF zero
  <2>2. SumFunctionOnSet(zero, Instruments) = 0
    BY <2>1, InstrumentsAssumption, SumOfZeros
  <2> QED
    BY <1>1, <2>2 DEF SumOf, zero
<1>4. Balanced
  BY <1>2, <1>3 DEF Balanced
<1> QED
  BY <1>4 DEF Init, MoneyInv, Settles

LEMMA MoneyMoves ==
    ASSUME NEW r \in Risk
    PROVE  /\ \A i, n, p, s : OnOpenFill(r, i, n, p, s).pnl = r.pnl
           /\ \A i \in Instruments : \A p \in Int :
                 OnCloseFill(r, i, p).pnl =
                     r.pnl + (p - r.positions[i].entry) * r.positions[i].qty
           /\ \A a \in Nat : ApplyCosts(r, a).pnl = r.pnl - a
<1>1. ASSUME NEW i \in Instruments, NEW p \in Int
      PROVE  OnCloseFill(r, i, p).pnl =
                 r.pnl + (p - r.positions[i].entry) * r.positions[i].qty
  <2>1. r.pnl \in Int /\ r.positions[i].entry \in Int /\ r.positions[i].qty \in Int
    BY DEF Risk, Position
  <2>2. CASE r.positions[i].qty = 0
    BY <2>1, <2>2 DEF OnCloseFill
  <2>3. CASE r.positions[i].qty # 0
    BY <2>3 DEF OnCloseFill, Checked, With
  <2> QED
    BY <2>2, <2>3
<1>2. \A a \in Nat : Size(a) = a
  BY SizeIsNat
<1>3. \A i, n, p, s : OnOpenFill(r, i, n, p, s).pnl = r.pnl
  BY DEF OnOpenFill, With
<1>4. \A a \in Nat : ApplyCosts(r, a).pnl = r.pnl - a
  BY <1>2 DEF ApplyCosts, Checked, With
<1> QED
  BY <1>1, <1>3, <1>4

LEMMA MoneyStays ==
    ASSUME MoneyInv, UNCHANGED <<risk, ledger>>
    PROVE  /\ Balanced'
           /\ \A i \in Instruments : risk'.positions[i].qty = 0 => entryCosts'[i] = 0
  BY DEF MoneyInv, Balanced, ledger, SumOf

(* One entry cost changes.                                                 *)
LEMMA CostOfOne ==
    ASSUME TypeOK, NEW g \in [Instruments -> Int], NEW i \in Instruments,
           \A j \in Instruments : j # i => g[j] = entryCosts[j]
    PROVE  /\ SumOf(entryCosts) \in Int
           /\ SumOf(g) = SumOf(entryCosts) - entryCosts[i] + g[i]
<1> DEFINE f == entryCosts
<1>1. \A j \in Instruments : f[j] \in Int /\ g[j] \in Int
  BY DEF TypeOK
<1>2. \A j \in Instruments : j # i => g[j] = f[j]
  OBVIOUS
<1> HIDE DEF f
<1>3. \A a, b : /\ \A j \in Instruments : a[j] \in Int /\ b[j] \in Int
                /\ \A j \in Instruments : j # i => b[j] = a[j]
                => /\ SumFunctionOnSet(b, Instruments) =
                          SumFunctionOnSet(a, Instruments) - a[i] + b[i]
                   /\ SumFunctionOnSet(a, Instruments) \in Int
  BY InstrumentsAssumption, SumOfChanged
<1>4. /\ SumFunctionOnSet(g, Instruments) = SumFunctionOnSet(f, Instruments) - f[i] + g[i]
      /\ SumFunctionOnSet(f, Instruments) \in Int
  BY <1>1, <1>2, <1>3
<1> QED
  BY <1>4 DEF SumOf, f

LEMMA MoneyNext == TypeInv /\ BooksInv /\ MoneyInv /\ [Next]_vars => MoneyInv'
<1> SUFFICES ASSUME TypeInv, BooksInv, MoneyInv, [Next]_vars PROVE MoneyInv'
  OBVIOUS
<1>0. /\ TypeOK /\ bar \in Bar /\ fills \in Seq(Fill)
      /\ broker \in [Instruments -> OpenPosition]
      /\ closed \in [Instruments -> OpenPosition] /\ risk \in Risk
      /\ entryCosts \in [Instruments -> Int]
      /\ equity \in Int /\ dayOpen \in Int /\ carried \in Int
      /\ stage # "next" => inst \in Instruments
  BY DEF TypeInv, TypeOK
<1>1. ASSUME NEW t \in now..MaxTime, NEW i \in Instruments, NEW b, NextBar(t, i, b)
      PROVE  MoneyInv'
  <2>1. fills' = <<>> /\ UNCHANGED <<entryCosts, equity>>
    BY <1>1 DEF NextBar, BooksInv
  <2>2. CASE SameSession(t)
    BY <1>1, <2>1, <2>2, MoneyStays DEF NextBar, RollSession, ledger, MoneyInv, Settles
  <2>3. CASE ~SameSession(t)
    <3>1. /\ dayOpen' = equity /\ carried' = SumOf(entryCosts)
          /\ risk'.pnl = 0 /\ risk'.positions = risk.positions
      BY <1>1, <2>3 DEF NextBar, RollSession, StartSession
    <3>2. SumOf(entryCosts) \in Int
      BY <1>0, InstrumentsAssumption, SumIsInt DEF SumOf
    <3>3. Balanced'
      <4>1. SumOf(entryCosts)' = SumOf(entryCosts)
        BY <2>1 DEF SumOf
      <4> QED
        BY <1>0, <2>1, <3>1, <3>2, <4>1 DEF Balanced
    <3> QED
      BY <2>1, <3>1, <3>3 DEF MoneyInv, Settles
  <2> QED
    BY <2>2, <2>3
<1>2. CASE NothingPending
  BY <1>2, MoneyStays DEF NothingPending, books, BooksInv, MoneyInv, Settles
<1>3. CASE DropUnfillable
  BY <1>3, MoneyStays DEF DropUnfillable, BooksInv, MoneyInv, Settles
<1>4. CASE OpenAtOpen
  <2>1. /\ UNCHANGED <<inst, risk, ledger, closed>> /\ stage = "open"
        /\ pending[inst].intent \in Opening /\ inst \in Instruments
    BY <1>0, <1>4 DEF OpenAtOpen
  <2>2. PICK f : fills' = <<f>> /\ f.opens
    BY <1>4 DEF OpenAtOpen
  <2>3. broker[inst].qty = 0
    BY <1>0, <2>1 DEF TypeOK
  <2>4. risk.positions[inst].qty = 0
    BY <2>1, <2>3 DEF BooksInv, FillsMatch, Ahead, AsRiskSees
  <2>5. Settles'
    BY <2>1, <2>2, <2>4 DEF Settles
  <2> QED
    BY <2>1, <2>5, MoneyStays DEF MoneyInv
<1>5. CASE CloseAtOpen
  <2>1. /\ UNCHANGED <<inst, risk, ledger>> /\ stage = "open" /\ inst \in Instruments
        /\ closed' = [closed EXCEPT ![inst] = broker[inst]]
    BY <1>0, <1>5 DEF CloseAtOpen
  <2>2. PICK f : fills' = <<f>> /\ ~f.opens
    BY <1>5 DEF CloseAtOpen
  <2>3. risk.positions[inst] = AsRiskSees(broker[inst])
    BY <2>1 DEF BooksInv, FillsMatch, Ahead
  <2>4. closed'[inst] = broker[inst]
    BY <1>0, <2>1
  <2>5. Settles'
    BY <2>1, <2>2, <2>3, <2>4 DEF Settles, AsRiskSees
  <2> QED
    BY <2>1, <2>5, MoneyStays DEF MoneyInv
<1>6. CASE ExitAtLevel
  <2>1. /\ UNCHANGED <<inst, risk, ledger>> /\ stage = "levels" /\ inst \in Instruments
        /\ closed' = [closed EXCEPT ![inst] = broker[inst]] /\ broker[inst].qty # 0
    BY <1>0, <1>6 DEF ExitAtLevel, Leaves
  <2>2. PICK g : fills' = Append(fills, g) /\ ~g.opens
    BY <1>6 DEF ExitAtLevel, CloseFill
  <2>3. closed'[inst] = broker[inst]
    BY <1>0, <2>1
  <2>4. CASE fills = <<>>
    <3>1. risk.positions[inst] = AsRiskSees(broker[inst])
      BY <2>1, <2>4 DEF BooksInv, FillsMatch, Ahead
    <3>2. fills' = <<g>>
      BY <2>2, <2>4, ShortSequences
    <3>3. Settles'
      BY <2>1, <2>2, <2>3, <3>1, <3>2 DEF Settles, AsRiskSees
    <3> QED
      BY <2>1, <3>3, MoneyStays DEF MoneyInv
  <2>5. CASE fills # <<>>
    <3>1. PICK f : /\ fills = <<f>> /\ f.opens
                   /\ broker[inst].qty = f.qty /\ broker[inst].entry = f.price
      BY <2>1, <2>5 DEF BooksInv, FillsMatch, Ahead, NoPosition
    <3>2. fills' = <<f, g>>
      BY <2>2, <3>1, ShortSequences
    <3>3. risk.positions[inst].qty = 0
      BY <3>1 DEF MoneyInv, Settles
    <3>4. Settles'
      BY <2>1, <2>2, <2>3, <3>1, <3>2, <3>3 DEF Settles
    <3> QED
      BY <2>1, <3>4, MoneyStays DEF MoneyInv
  <2> QED
    BY <2>4, <2>5
<1>7. CASE NoExit
  BY <1>7, MoneyStays DEF NoExit, books, MoneyInv, Settles
<1>8. CASE ApplyOpen
  <2> DEFINE f == Head(fills)
             r == OnOpenFill(risk, inst, f.qty, f.price, broker[inst].stop)
             c == CostsOf(f)
  <2>1. /\ stage = "apply" /\ fills # <<>> /\ f.opens /\ inst \in Instruments
        /\ entryCosts' = [entryCosts EXCEPT ![inst] = c]
        /\ risk' = ApplyCosts(r, c) /\ fills' = Tail(fills)
        /\ UNCHANGED <<inst, broker, closed, equity, dayOpen, carried>>
    BY <1>0, <1>8 DEF ApplyOpen, books
  <2>2. f \in Fill
    BY <1>0, <2>1
  <2>3. f.qty \in Int /\ f.price \in Int /\ broker[inst].stop \in Int /\ c \in Nat
    <3> HIDE DEF f
    <3>1. f.qty \in Int /\ f.price \in Int
      BY <2>2 DEF Fill
    <3>2. broker[inst].stop \in Int
      BY <1>0, <2>1 DEF OpenPosition
    <3> QED
      BY <3>1, <3>2, CostsAreNat
  <2>4. r \in Risk /\ r.pnl = risk.pnl
    <3>1. \A n, p, s : OnOpenFill(risk, inst, n, p, s).pnl = risk.pnl
      BY <1>0, MoneyMoves
    <3>2. r \in Risk
      BY <1>0, <2>1, <2>3, RiskStaysTyped
    <3> QED
      BY <3>1, <3>2
  <2>5. /\ IsRisk(r)
        /\ \A j \in Instruments : j # inst => r.positions[j] = risk.positions[j]
        /\ r.positions[inst] = [qty |-> f.qty, entry |-> f.price,
                                stop |-> broker[inst].stop]
    BY <2>1, OpenFillOpens DEF BooksInv
  <2>6. /\ f.qty # 0 /\ risk.positions[inst].qty = 0
        /\ \/ fills' = <<>>
           \/ \E g : /\ fills' = <<g>> /\ ~g.opens
                     /\ closed[inst].qty = f.qty /\ closed[inst].entry = f.price
    <3>0. fills = <<f>> \/ \E g : fills = <<f, g>>
      BY <2>1, ShortSequences DEF MoneyInv, Settles
    <3>1. f.qty # 0
      BY <2>1, ShortSequences DEF BooksInv, FillsMatch, Ahead
    <3>2. CASE \E h : fills = <<h>> /\ h.opens /\ risk.positions[inst].qty = 0
      BY <2>1, <3>1, <3>2, ShortSequences
    <3>3. CASE \E h : fills = <<h>> /\ ~h.opens
      BY <2>1, <3>3, ShortSequences
    <3>4. CASE \E h, g : /\ fills = <<h, g>> /\ h.opens /\ ~g.opens
                         /\ risk.positions[inst].qty = 0
                         /\ closed[inst].qty = h.qty /\ closed[inst].entry = h.price
      BY <2>1, <3>1, <3>4, ShortSequences
    <3> QED
      BY <2>1, <3>2, <3>3, <3>4 DEF MoneyInv, Settles
  <2> HIDE DEF f, r, c
  <2>7. risk'.pnl = risk.pnl - c /\ risk'.positions = r.positions
    <3>1. ApplyCosts(r, c).pnl = r.pnl - c
      BY <2>3, <2>4, MoneyMoves
    <3>2. ApplyCosts(r, c).positions = r.positions
      BY <2>5, CostsKeepPositions
    <3> QED
      BY <2>1, <2>4, <3>1, <3>2
  <2>8. entryCosts[inst] = 0
    BY <2>1, <2>6 DEF MoneyInv
  <2>9. Balanced'
    <3>1. SumOf(entryCosts)' = SumOf(entryCosts) + c /\ SumOf(entryCosts) \in Int
      <4>1. PICK g \in [Instruments -> Int] :
               /\ g = entryCosts' /\ g[inst] = c
               /\ \A j \in Instruments : j # inst => g[j] = entryCosts[j]
        BY <1>0, <2>1, <2>3
      <4>2. SumOf(entryCosts)' = SumOf(g)
        BY <4>1 DEF SumOf
      <4>3. /\ SumOf(entryCosts) \in Int
            /\ SumOf(g) = SumOf(entryCosts) - entryCosts[inst] + g[inst]
        BY <1>0, <2>1, <4>1, CostOfOne
      <4>4. entryCosts[inst] \in Int
        BY <1>0, <2>1
      <4> QED
        BY <2>3, <2>8, <4>1, <4>2, <4>3, <4>4
    <3>2. risk.pnl \in Int
      BY <1>0 DEF Risk
    <3>3. equity' = equity /\ dayOpen' = dayOpen /\ carried' = carried
      BY <2>1
    <3>4. Balanced
      BY DEF MoneyInv
    <3> QED
      BY <1>0, <2>3, <2>7, <3>1, <3>2, <3>3, <3>4 DEF Balanced
  <2>10. Settles'
    <3>1. UNCHANGED <<inst, closed>> /\ risk'.positions[inst].qty = f.qty
          /\ risk'.positions[inst].entry = f.price
      BY <2>1, <2>5, <2>7
    <3> QED
      BY <2>6, <3>1 DEF Settles
  <2>11. \A i \in Instruments : risk'.positions[i].qty = 0 => entryCosts'[i] = 0
    <3>1. risk'.positions[inst].qty = f.qty
      BY <2>5, <2>7
    <3>2. \A i \in Instruments \ {inst} : /\ risk'.positions[i] = risk.positions[i]
                                          /\ entryCosts'[i] = entryCosts[i]
      BY <1>0, <2>1, <2>5, <2>7
    <3> QED
      BY <2>6, <3>1, <3>2 DEF MoneyInv
  <2> QED
    BY <2>9, <2>10, <2>11 DEF MoneyInv
<1>9. CASE ApplyClose
  <2> DEFINE f == Head(fills)
             r == OnCloseFill(risk, inst, f.price)
             c == CostsOf(f)
             q == risk.positions[inst]
             gain == (f.price - q.entry) * q.qty
  <2>1. /\ stage = "apply" /\ fills # <<>> /\ ~f.opens /\ inst \in Instruments
        /\ entryCosts' = [entryCosts EXCEPT ![inst] = 0]
        /\ equity' = equity + NetPnl(closed[inst], f)
        /\ risk' = ApplyCosts(r, c) /\ fills' = Tail(fills)
        /\ UNCHANGED <<inst, dayOpen, carried>>
    BY <1>0, <1>9 DEF ApplyClose
  <2>2. f \in Fill
    BY <1>0, <2>1
  <2>3. f.qty \in Int /\ f.price \in Int /\ c \in Nat
    <3> HIDE DEF f
    <3>1. f.qty \in Int /\ f.price \in Int
      BY <2>2 DEF Fill
    <3> QED
      BY <3>1, CostsAreNat
  <2>4. r \in Risk /\ r.pnl = risk.pnl + gain
    BY <1>0, <2>1, <2>3, RiskStaysTyped, MoneyMoves
  <2>5. /\ IsRisk(r)
        /\ \A j \in Instruments : j # inst => r.positions[j] = risk.positions[j]
    BY <2>1, CloseFillCloses DEF BooksInv
  <2>6. fills' = <<>> /\ closed[inst].qty = q.qty /\ closed[inst].entry = q.entry
    <3>1. PICK g : /\ fills = <<g>>
                   /\ closed[inst].qty = q.qty /\ closed[inst].entry = q.entry
      BY <2>1, ShortSequences DEF MoneyInv, Settles
    <3> QED
      BY <2>1, <3>1, ShortSequences
  <2>7. NetPnl(closed[inst], f) = gain - entryCosts[inst] - c
    BY <2>6 DEF NetPnl
  <2>8. gain \in Int
    <3>1. q.entry \in Int /\ q.qty \in Int
      BY <1>0, <2>1 DEF Risk, Position
    <3> QED
      BY <2>3, <3>1
  <2> HIDE DEF f, r, c, gain, q
  <2>9. risk'.pnl = (risk.pnl + gain) - c /\ risk'.positions = r.positions
    <3>1. ApplyCosts(r, c).pnl = r.pnl - c
      BY <2>3, <2>4, MoneyMoves
    <3>2. ApplyCosts(r, c).positions = r.positions
      BY <2>5, CostsKeepPositions
    <3> QED
      BY <2>1, <2>4, <3>1, <3>2
  <2>10. Balanced'
    <3>1. /\ SumOf(entryCosts)' = SumOf(entryCosts) - entryCosts[inst]
          /\ SumOf(entryCosts) \in Int
      <4>1. PICK g \in [Instruments -> Int] :
               /\ g = entryCosts' /\ g[inst] = 0
               /\ \A j \in Instruments : j # inst => g[j] = entryCosts[j]
        BY <1>0, <2>1, <2>3
      <4>2. SumOf(entryCosts)' = SumOf(g)
        BY <4>1 DEF SumOf
      <4>3. /\ SumOf(entryCosts) \in Int
            /\ SumOf(g) = SumOf(entryCosts) - entryCosts[inst] + g[inst]
        BY <1>0, <2>1, <4>1, CostOfOne
      <4>4. entryCosts[inst] \in Int
        BY <1>0, <2>1
      <4> QED
        BY <2>3, <4>1, <4>2, <4>3, <4>4
    <3>2. risk.pnl \in Int /\ entryCosts[inst] \in Int
      BY <1>0, <2>1 DEF Risk
    <3>3. /\ equity' = equity + (gain - entryCosts[inst] - c)
          /\ dayOpen' = dayOpen /\ carried' = carried
      BY <2>1, <2>7
    <3>4. Balanced
      BY DEF MoneyInv
    <3>5. equity' - dayOpen' = ((risk.pnl + gain) - c)
                + ((SumOf(entryCosts) - entryCosts[inst]) - carried)
      <4> DEFINE n == (gain - entryCosts[inst]) - c
                 S == SumOf(entryCosts)
      <4>1. n \in Int /\ equity' = equity + n
        BY <2>3, <2>8, <3>2, <3>3
      <4>2. (risk.pnl + gain) - c + ((S - entryCosts[inst]) - carried)
                = risk.pnl + n + (S - carried)
        BY <1>0, <2>3, <2>8, <3>1, <3>2
      <4>3. equity - dayOpen = risk.pnl + (S - carried)
        BY <3>4 DEF Balanced
      <4>4. S \in Int
        BY <3>1
      <4> HIDE DEF n, S
      <4>5. equity' - dayOpen' = risk.pnl + n + (S - carried)
        <5>1. /\ equity \in Int /\ dayOpen \in Int /\ carried \in Int
              /\ risk.pnl \in Int /\ dayOpen' = dayOpen
          BY <1>0, <3>2, <3>3
        <5> QED
          BY <4>1, <4>3, <4>4, <5>1
      <4> QED
        BY <4>2, <4>5 DEF S
    <3> QED
      BY <2>9, <3>1, <3>3, <3>5 DEF Balanced
  <2>11. \A i \in Instruments : risk'.positions[i].qty = 0 => entryCosts'[i] = 0
    BY <1>0, <2>1, <2>5, <2>9 DEF MoneyInv
  <2> QED
    BY <2>6, <2>10, <2>11 DEF MoneyInv, Settles
<1>10. CASE ForceClose
  <2>1. /\ UNCHANGED <<inst, risk, ledger>> /\ stage = "apply" /\ inst \in Instruments
        /\ closed' = [closed EXCEPT ![inst] = broker[inst]] /\ fills = <<>>
    BY <1>0, <1>10 DEF ForceClose
  <2>2. PICK f : fills' = <<f>> /\ ~f.opens
    BY <1>10 DEF ForceClose, CloseFill
  <2>3. risk.positions[inst] = AsRiskSees(broker[inst])
    BY <2>1 DEF BooksInv, FillsMatch, Ahead
  <2>4. closed'[inst] = broker[inst]
    BY <1>0, <2>1
  <2>5. Settles'
    BY <2>1, <2>2, <2>3, <2>4 DEF Settles, AsRiskSees
  <2> QED
    BY <2>1, <2>5, MoneyStays DEF MoneyInv
<1>11. CASE SessionOver
  BY <1>11, MoneyStays DEF SessionOver, MoneyInv, Settles
<1>12. ASSUME NEW n, NEW s, NEW g, Signal(n, s, g) PROVE MoneyInv'
  <2>1. PICK q, p : risk' = Evaluated(risk, q, p)
    BY <1>12 DEF Signal
  <2>2. risk'.positions = risk.positions /\ risk'.pnl = risk.pnl
    BY <2>1 DEF Evaluated
  <2>3. fills' = <<>> /\ UNCHANGED <<entryCosts, equity, dayOpen, carried>>
    BY <1>12 DEF Signal, ledger
  <2>4. SumOf(entryCosts)' = SumOf(entryCosts)
    BY <2>3 DEF SumOf
  <2> QED
    BY <2>2, <2>3, <2>4 DEF MoneyInv, Settles, Balanced
<1>13. CASE NoSignal
  BY <1>13, MoneyStays DEF NoSignal, books, MoneyInv, Settles
<1>14. CASE UNCHANGED vars
  BY <1>14, MoneyStays DEF vars, books, ledger, MoneyInv, Settles
<1> QED
  BY <1>1, <1>2, <1>3, <1>4, <1>5, <1>6, <1>7, <1>8, <1>9, <1>10, <1>11,
     <1>12, <1>13, <1>14 DEF Next

(* The ledger and the daily breaker never disagree about the day's money,  *)
(* but for the entries that are still open: whatever fills, is trimmed, is *)
(* stopped out in the bar of its entry or is held over night               *)
(* (_record_and_apply, record_trade, RiskEngine.apply_costs).              *)
THEOREM BothBooksOfMoneyAgree == Spec => []MoneyAgrees
<1>1. MoneyInv => MoneyAgrees
  BY DEF MoneyInv, Balanced, MoneyAgrees
<1> QED
  BY <1>1, TypeInit, TypeNext, BooksInit, BooksNext, MoneyInit, MoneyNext, PTL DEF Spec

----------------------------------------------------------------------------
(* The stops.                                                              *)

LEMMA Against ==
    ASSUME NEW a \in Int, NEW n \in Int, (a <= 0 /\ n > 0) \/ (a >= 0 /\ n < 0)
    PROVE  a * n <= 0
<1>1. CASE a <= 0 /\ n > 0
  <2>1. \A x, y \in Int : x >= 0 /\ y > 0 => x * y >= 0
    OBVIOUS
  <2>2. -a \in Int /\ -a >= 0
    BY <1>1
  <2>3. (-a) * n >= 0
    BY <1>1, <2>1, <2>2
  <2> QED
    BY <2>3
<1>2. CASE a >= 0 /\ n < 0
  <2>1. \A x, y \in Int : x >= 0 /\ y > 0 => x * y >= 0
    OBVIOUS
  <2>2. -n \in Int /\ -n > 0
    BY <1>2
  <2>3. a * (-n) >= 0
    BY <1>2, <2>1, <2>2
  <2> QED
    BY <2>3
<1> QED
  BY <1>1, <1>2

(* A position leaves at its stop, or beyond it, less the slippage.         *)
LEMMA FilledAtWorst ==
    ASSUME TypeOK, NEW p \in OpenPosition, p.qty # 0, StopHit(p)
    PROVE  (CloseFill(p, ExitLevel(p)).price - p.stop) * p.qty <= 0
<1> DEFINE level == ExitLevel(p)
           price == CloseFill(p, level).price
<1>1. p.qty \in Int /\ p.stop \in Int /\ bar.open \in Int /\ Slip \in Nat
  <2>1. bar.open \in Int
    BY DEF TypeOK, Bar
  <2> QED
    BY <2>1, BacktestAssumption DEF OpenPosition
<1>2. level \in Int /\ (p.qty > 0 => level <= p.stop) /\ (p.qty < 0 => level >= p.stop)
  BY <1>1 DEF ExitLevel, StopHit, Gapped
<1> HIDE DEF level
<1>3. price = IF p.qty < 0 THEN level + Slip ELSE level - Slip
  BY DEF CloseFill, FillPrice
<1> HIDE DEF price
<1>4. /\ price - p.stop \in Int
      /\ p.qty > 0 => price - p.stop <= 0
      /\ p.qty < 0 => price - p.stop >= 0
  BY <1>1, <1>2, <1>3
<1>5. (price - p.stop) * p.qty <= 0
  BY <1>1, <1>4, Against
<1> QED
  BY <1>5 DEF price, level

LEMMA StopsNext == TypeInv /\ StopsHold /\ [Next]_vars => StopsHold' /\ ExitIsPessimistic
<1> SUFFICES ASSUME TypeInv, StopsHold, [Next]_vars
             PROVE  StopsHold' /\ ExitIsPessimistic
  OBVIOUS
<1>0. /\ TypeOK /\ fills \in Seq(Fill) /\ broker \in [Instruments -> OpenPosition]
      /\ stage # "next" => inst \in Instruments
  BY DEF TypeInv, TypeOK
<1>1. ASSUME stage # "levels", stage' # "apply"
      PROVE  StopsHold' /\ ExitIsPessimistic
  BY <1>1 DEF StopsHold, ExitIsPessimistic
<1>2. ASSUME stage # "levels", UNCHANGED <<stage, inst, bar, broker>>
      PROVE  StopsHold' /\ ExitIsPessimistic
  BY <1>2 DEF StopsHold, ExitIsPessimistic, StopHit
<1>3. CASE ExitAtLevel
  <2> DEFINE p == broker[inst]
             f == CloseFill(p, ExitLevel(p))
  <2>1. /\ stage = "levels" /\ inst \in Instruments /\ p.qty # 0
        /\ broker' = [broker EXCEPT ![inst] = NoPosition] /\ inst' = inst
        /\ fills' = Append(fills, f)
    BY <1>0, <1>3 DEF ExitAtLevel, Leaves
  <2>2. StopsHold'
    <3>1. broker'[inst'].qty = 0
      BY <1>0, <2>1 DEF NoPosition
    <3> QED
      BY <3>1 DEF StopsHold
  <2>3. p \in OpenPosition
    BY <1>0, <2>1
  <2>4. f \in Fill
    <3>1. ExitLevel(p) \in Int
      <4> HIDE DEF p
      <4>1. bar.open \in Int
        BY <1>0 DEF TypeOK, Bar
      <4>2. p.stop \in Int /\ p.target \in Int
        BY <2>3 DEF OpenPosition
      <4> QED
        BY <4>1, <4>2 DEF ExitLevel
    <3> QED
      BY <1>0, <2>3, <3>1, CloseFillIsFill
  <2>5. StopHit(p) => (f.price - p.stop) * p.qty <= 0
    BY <1>0, <2>1, <2>3, FilledAtWorst
  <2> HIDE DEF f
  <2>6. fills'[Len(fills')] = f
    BY <1>0, <2>1, <2>4
  <2> QED
    BY <2>2, <2>5, <2>6 DEF ExitIsPessimistic
<1>4. CASE NoExit
  BY <1>4 DEF NoExit, Leaves, books, StopsHold, StopHit, ExitIsPessimistic
<1>5. CASE ForceClose
  <2>1. /\ stage = "apply" /\ inst \in Instruments /\ inst' = inst
        /\ broker' = [broker EXCEPT ![inst] = NoPosition]
    BY <1>0, <1>5 DEF ForceClose
  <2>2. broker'[inst'].qty = 0
    BY <1>0, <2>1 DEF NoPosition
  <2> QED
    BY <2>1, <2>2 DEF StopsHold, ExitIsPessimistic
<1>6. CASE UNCHANGED vars
  BY <1>6 DEF vars, StopsHold, StopHit, ExitIsPessimistic
<1>7. CASE \E t \in now..MaxTime : \E i \in Instruments :
              \E b \in Bars \cup {SyntheticBar(i)} : NextBar(t, i, b)
  BY <1>1, <1>7 DEF NextBar
<1>8. CASE NothingPending \/ DropUnfillable \/ OpenAtOpen \/ CloseAtOpen
  BY <1>1, <1>8 DEF NothingPending, DropUnfillable, OpenAtOpen, CloseAtOpen
<1>9. CASE ApplyOpen \/ ApplyClose
  BY <1>2, <1>9 DEF ApplyOpen, ApplyClose, books
<1>10. CASE \/ SessionOver \/ NoSignal
            \/ \E n \in Intents : \E s \in Stops : \E g \in Targets : Signal(n, s, g)
  BY <1>1, <1>10 DEF SessionOver, NoSignal, Signal, AfterSignals
<1> QED
  BY <1>3, <1>4, <1>5, <1>6, <1>7, <1>8, <1>9, <1>10 DEF Next

(* A stop ends its position in the first bar that trades through it, the   *)
(* bar of the entry included, and at its own price or a worse one,         *)
(* whatever the target and the slippage (SimBroker._check_exit_levels).    *)
THEOREM EveryStopIsHonoured == Spec => StopsAreHonoured
<1>1. Init => StopsHold
  BY DEF Init, StopsHold
<1>2. TypeInv /\ StopsHold /\ [Next]_vars => [StopsHold' /\ ExitIsPessimistic]_vars
  BY StopsNext
<1>3. TypeInv /\ StopsHold /\ [Next]_vars => StopsHold'
  BY StopsNext
<1> QED
  BY <1>1, <1>2, <1>3, TypeInit, TypeNext, BooksInit, BooksNext,
     PTL DEF Spec, StopsAreHonoured

============================================================================
