---------------------------- MODULE PaperBroker ----------------------------
(***************************************************************************)
(* src/paper_broker.py over src/backtest/sim_broker.py: approved orders    *)
(* wait for the next minute bar of their instrument and fill at its open.  *)
(* Pending orders, positions and client order ids are in memory; the       *)
(* streams outlive the process.  A bar counts with what it lets the broker *)
(* do: how much can fill in it, and whether it reaches the stop or target  *)
(* of a position.  Prices, costs and excursions are those of Backtest.     *)
(***************************************************************************)
EXTENDS RiskManager

CONSTANTS
    Volumes,    \* how much may fill in a bar; 0: synthetic, or too thin
    MaxOrdersIn,\* bound: orders from outside the risk manager
    MaxBarsIn   \* bound: minute bars

ASSUME PaperAssumption ==
    Volumes \subseteq Nat /\ MaxOrdersIn \in Nat /\ MaxBarsIn \in Nat

VARIABLES
    tape,       \* the market_bars stream and the paper group
    paperLoop,  \* "down", or the step of run() to come
    paperBatch, \* bars read or reclaimed and not yet handled
    waiting,    \* broker.pending
    holding,    \* broker.positions
    orderIds,   \* _order_ids
    filled,     \* the filled_orders stream
    doubted     \* instruments whose fills tell less or more (history)

bookVars  == <<waiting, holding, orderIds>>
paperVars == <<tape, paperLoop, paperBatch, bookVars, filled, doubted>>

(* A minute bar.                                                           *)
MinuteBar == [inst : Instruments, end : Nat, most : Nat, out : BOOLEAN]

(* The order from is an entry of approved_orders; 0: none waits.           *)
Waiting == [Instruments -> Nat]

(* since: the end of the bar of the entry.                                 *)
Holding   == [qty : Int, since : Nat]
NoHolding == [qty |-> 0, since |-> 0]

(* qty: positive when bought; id names the order the client order id is of *)
(* bar is the end of the bar that filled it.                               *)
FillEvent == [inst : Instruments, intent : Intents, qty : Int, id : Nat, bar : Nat]

PaperInit ==
    /\ tape = EmptyGroup /\ paperLoop = "down" /\ paperBatch = {}
    /\ waiting = [i \in Instruments |-> 0]
    /\ holding = [i \in Instruments |-> NoHolding]
    /\ orderIds = [i \in Instruments |-> 0]
    /\ filled = <<>> /\ doubted = {}

----------------------------------------------------------------------------
(* The world.                                                              *)

InSession(t) == /\ IsTradingDay(DateOf(t))
                /\ TimeOf(t) > SessionOpen /\ TimeOf(t) <= SessionClose

(* A bar of a minute of a session.  Which bars there are is up to the bar  *)
(* builder: an instrument has none before its first tick, none while the   *)
(* builder is down and, without BAR_FILL_GAPS, none of a quiet minute; a   *)
(* builder that starts again may publish a minute twice.                   *)
BarComes(b) ==
    /\ Len(tape.log) < MaxBarsIn
    /\ b.end <= now /\ InSession(b.end)
    /\ tape' = XAdd(tape, b)
    /\ UNCHANGED <<riskVars, paperLoop, paperBatch, bookVars, filled, doubted>>

(* An order as the risk manager could approve it, were it to know the      *)
(* position.                                                               *)
OrderArrives(o) ==
    /\ Len(approved.log) < MaxOrdersIn
    /\ approved' = XAdd(approved, o)
    /\ UNCHANGED <<worldVars, signals, rmVars, faults, filesLost, paperVars>>

----------------------------------------------------------------------------
(* Orders.                                                                 *)

PaperStarts ==
    /\ paperLoop = "down" /\ paperLoop' = "orders"
    /\ UNCHANGED <<riskVars, tape, paperBatch, bookVars, filled, doubted>>

(* submit: the first to wait stays, though the ids are overwritten.        *)
FirstWaits(w, o) == IF w = 0 THEN o ELSE w

OfInstrument(i, S) == {n \in S : approved.log[n].inst = i}

(* Orders handed out to a process that dies are not asked for again.       *)
TakeOrders ==
    LET new == Unread(approved, Len(approved.log)) IN
    /\ paperLoop = "orders" /\ paperLoop' = "claim"
    /\ approved' = XAckAll(XReadGroup(approved, Len(approved.log)), new)
    /\ waiting' = [i \in Instruments |->
          IF OfInstrument(i, new) = {} THEN waiting[i]
          ELSE FirstWaits(waiting[i], Min(OfInstrument(i, new)))]
    /\ orderIds' = [i \in Instruments |->
          IF OfInstrument(i, new) = {} THEN orderIds[i] ELSE Max(OfInstrument(i, new))]
    /\ UNCHANGED <<worldVars, signals, rmVars, faults, filesLost, tape,
                   paperBatch, holding, filled, doubted>>

----------------------------------------------------------------------------
(* Bars.                                                                   *)

ClaimBars ==
    /\ paperLoop = "claim" /\ paperBatch = {} /\ paperLoop' = "read"
    /\ \E S \in {{}, tape.pending} : tape' = XAutoClaim(tape, S) /\ paperBatch' = S
    /\ UNCHANGED <<riskVars, bookVars, filled, doubted>>

ReadMinuteBars ==
    /\ paperLoop = "read" /\ paperBatch = {} /\ paperLoop' = "orders"
    /\ tape' = XReadGroup(tape, Len(tape.log))
    /\ paperBatch' = Unread(tape, Len(tape.log))
    /\ UNCHANGED <<riskVars, bookVars, filled, doubted>>

Fill(b, intent, n) ==
    [inst |-> b.inst, intent |-> intent, qty |-> n, id |-> orderIds[b.inst],
     bar |-> b.end]

Bought(intent, n) == IF intent \in {"OPEN_LONG", "CLOSE_SHORT"} THEN n ELSE -n

CloseIntent(p) == IF p.qty > 0 THEN "CLOSE_LONG" ELSE "CLOSE_SHORT"

Fillable(o, b) == IF o = 0 THEN 0 ELSE Min({approved.log[o].qty, b.most})

(* _execute_at_open: what it leaves held, and the fills.  An entry takes   *)
(* the place of a position; an exit closes what there is, and fills when   *)
(* there is nothing.                                                       *)
AtOpen(p, o, b) ==
    LET intent == approved.log[o].intent
        n      == Bought(intent, Fillable(o, b))
    IN  CASE Fillable(o, b) = 0 -> [held |-> p, fills |-> <<>>]
          [] OTHER ->
             IF intent \in Opening
             THEN [held |-> [qty |-> n, since |-> b.end], fills |-> <<Fill(b, intent, n)>>]
             ELSE [held |-> NoHolding,
                   fills |-> <<Fill(b, intent, IF p.qty = 0 THEN n
                                               ELSE Bought(intent, Size(p.qty)))>>]

(* Mutant: the position stays in the broker's book.                        *)
AfterCloseKept(p) == p

AfterClose(p) == NoHolding

(* _close, by a level or by force_close.                                   *)
Closed(s, b) ==
    [held  |-> AfterClose(s.held),
     fills |-> Append(s.fills, Fill(b, CloseIntent(s.held), - s.held.qty))]

(* process_bar.                                                            *)
Processed(b) ==
    LET s == AtOpen(holding[b.inst], waiting[b.inst], b)
    IN  IF s.held.qty # 0 /\ b.out THEN Closed(s, b) ELSE s

(* Mutant: a position entered in this bar is left alone.                   *)
SquaresOffOld(p, b) == /\ RequiresFlat(Phase(b.end)) /\ p.qty # 0
                       /\ p.since < b.end

SquaresOff(p, b) == RequiresFlat(Phase(b.end)) /\ p.qty # 0

(* Fills and book differ from here on: an entry over a position, an exit   *)
(* without one, or one of the other side.                                  *)
Confuses(p, o, b) ==
    /\ Fillable(o, b) # 0
    /\ IF approved.log[o].intent \in Opening THEN p.qty # 0
       ELSE Bought(approved.log[o].intent, 1) * p.qty >= 0

FirstBar == Min(paperBatch)

(* process_bar takes the order that waits, whether or not it fills.        *)
AfterBar(b, s) ==
    /\ holding' = [holding EXCEPT ![b.inst] = s.held]
    /\ waiting' = [waiting EXCEPT ![b.inst] = 0]
    /\ paperBatch' = paperBatch \ {FirstBar}
    /\ UNCHANGED <<paperLoop, orderIds>>

HandleMinuteBar ==
    LET b == tape.log[FirstBar]
        s == Processed(b)
        f == IF SquaresOff(s.held, b) THEN Closed(s, b) ELSE s
    IN  /\ paperBatch # {}
        /\ AfterBar(b, f)
        /\ filled' = filled \o f.fills
        /\ doubted' = doubted \cup
              {i \in {b.inst} : Confuses(holding[i], waiting[i], b)}
        /\ tape' = XAck(tape, FirstBar)
        /\ UNCHANGED riskVars

(* A fill is not published: the broker has moved on, the bar stays pending *)
(* and is processed again, or is given up after too many deliveries.       *)
HandleBarFails ==
    LET b == tape.log[FirstBar]
        s == Processed(b)
        f == IF SquaresOff(s.held, b) THEN Closed(s, b) ELSE s
    IN  /\ paperBatch # {}
        /\ faults < MaxFaults /\ faults' = faults + 1
        /\ \E k \in 0..(Len(f.fills) - 1) :
              /\ AfterBar(b, IF k < Len(s.fills) THEN s ELSE f)
              /\ filled' = filled \o SubSeq(f.fills, 1, k)
        /\ doubted' = doubted \cup {b.inst}
        /\ tape' = IF IsPoison(tape, FirstBar) THEN XAck(tape, FirstBar) ELSE tape
        /\ UNCHANGED <<worldVars, signals, approved, rmVars, filesLost>>

PaperDies ==
    /\ paperLoop # "down" /\ paperLoop' = "down"
    /\ faults < MaxFaults /\ faults' = faults + 1
    /\ paperBatch' = {}
    /\ waiting' = [i \in Instruments |-> 0]
    /\ holding' = [i \in Instruments |-> NoHolding]
    /\ orderIds' = [i \in Instruments |-> 0]
    /\ doubted' = doubted \cup {i \in Instruments : holding[i].qty # 0}
    /\ UNCHANGED <<worldVars, signals, approved, rmVars, filesLost, tape, filled>>

PaperLoop == \/ PaperStarts \/ TakeOrders \/ ClaimBars \/ ReadMinuteBars
             \/ HandleMinuteBar \/ HandleBarFails \/ PaperDies

Bars(ends) == [inst : Instruments, end : ends, most : Volumes, out : BOOLEAN]

(* The broker under any orders, of the risk manager or not, and any bars.  *)
PaperNext ==
    \/ PaperLoop
    \/ \E b \in Bars(1..now) : BarComes(b)
    \/ \E o \in Approved : OrderArrives(o)
    \/ (RiskLoop \/ RiskWorld \/ Clock) /\ UNCHANGED paperVars

PaperSpec == RiskInit /\ PaperInit /\ [][PaperNext]_<<riskVars, paperVars>>

----------------------------------------------------------------------------

PaperTypeOK ==
    /\ tape \in GroupOf(MinuteBar) /\ WellFormed(tape)
    /\ paperLoop \in {"down", "orders", "claim", "read"}
    /\ paperBatch \subseteq tape.pending
    /\ waiting \in Waiting /\ \A i \in Instruments : waiting[i] <= approved.cursor
    /\ holding \in [Instruments -> Holding]
    /\ orderIds \in Waiting
    /\ filled \in Seq(FillEvent)
    /\ doubted \subseteq Instruments

NetFilled(i) ==
    SumFunction([n \in DOMAIN filled |-> IF filled[n].inst = i THEN filled[n].qty ELSE 0])

(* What the paper broker holds is what its published fills add up to: the  *)
(* position manager, which sees nothing else, books the same.  Failing     *)
(* that, a fill was not published, the broker lost its positions in a      *)
(* crash, or an order did not fit the position it met.                     *)
PaperBooksAgree ==
    \A i \in Instruments \ doubted : NetFilled(i) = holding[i].qty

Handed(i) == {n \in 1..tape.cursor : tape.log[n].inst = i}

(* Bar k squares off, and has been handled: it was not given up.           *)
SquaredOff(k) ==
    /\ RequiresFlat(Phase(tape.log[k].end))
    /\ k \notin tape.pending /\ tape.times[k] < MaxDeliveries

(* A square-off is final: what is held was entered in a bar after which    *)
(* none has squared off.  A position that the square-off should have ended *)
(* does not outlive it, be it a minute or a day old or entered in that     *)
(* very bar; but a bar that is delivered again may enter behind it.        *)
SquareOffIsFinal ==
    \A i \in Instruments : holding[i].qty # 0 =>
        \E m \in Handed(i) :
            /\ tape.log[m].end = holding[i].since
            /\ tape.times[m] > 1 \/ \A k \in Handed(i) : k >= m => ~SquaredOff(k)

(* "Own the exit at the session deadline rather than leaving a position    *)
(* open overnight": when a bar has been handled, what was filled on the    *)
(* days before adds up to nothing.                                         *)
FlatOverNight ==
    \A i \in Instruments : \A n \in Handed(i) :
        /\ n \notin tape.pending
        /\ \A k \in DOMAIN filled :
              filled[k].inst = i => DateOf(filled[k].bar) < DateOf(tape.log[n].end)
        => NetFilled(i) = 0

(* "Never at bar t close": an order fills in a bar that began when its     *)
(* signal's bar had ended.                                                 *)
FillsAtTheNextBar ==
    \A n \in 1..Len(filled) :
        filled[n].intent \in Opening =>
            filled[n].bar - 1 >= approved.log[filled[n].id].barTime

(* No gate blocks exits: in a phase that allows them, the exit of what the *)
(* paper broker holds is approved when the risk manager comes to decide it.*)
NoGateBlocksExits ==
    judged # NotJudged =>
        LET s == signals.log[judged.signal]
            p == holding[s.inst]
        IN  /\ s.intent \notin Opening /\ judged.exit
            /\ p.qty # 0 /\ (IsLongSide(s.intent) <=> p.qty > 0)
            => Approves(s)

============================================================================
