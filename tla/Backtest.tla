------------------------------ MODULE Backtest ------------------------------
(***************************************************************************)
(* src/backtest/engine.py with sim_broker.py and portfolio.py: a strategy  *)
(* replayed over recorded bars against the simulated broker, the risk      *)
(* engine and the trade ledger.                                            *)
(*                                                                         *)
(* Each bar passes through the stages of _process_bar: the pending order   *)
(* fills at its open, stop and target are checked against its range, the   *)
(* fills are applied to the risk engine and the ledger, the session is     *)
(* flattened where it must be, and the strategy signals last.  Broker,     *)
(* risk engine and ledger each keep books of their own.                    *)
(*                                                                         *)
(* Time is counted in bars; bars arrive in the order of (bar_start,        *)
(* instrument), and an instrument may have none in an interval.  The       *)
(* strategy is any: it may emit any signal, once per bar or not at all.    *)
(***************************************************************************)
EXTENDS RiskEngine, Sequences

CONSTANTS
    StartingEquity, Compound,   \* BacktestConfig
    DayOf, PhaseOf,             \* of each bar interval: its session, and the
                                \* phase of the session it ends in
    Bars,                       \* what a bar that saw trades may look like
    Stops, Targets,             \* the levels of signals; 0: none
    Slip,                       \* slippage per share
    BuyFee, SellFee,            \* cost per share of either leg
    FirstClose,                 \* the close before the first bar
    MaxTime                     \* bound: bar intervals

Phase == {"pre_open", "opening", "entry", "no_new_entry", "square_off", "closed"}

(* A bar; most: the most an order may fill of it (0: too thin), synthetic: *)
(* nothing traded.                                                         *)
Bar == [open : Nat, high : Nat, low : Nat, close : Nat, most : Nat,
        synthetic : BOOLEAN]

ASSUME BacktestAssumption ==
    /\ Instruments \subseteq Nat \ {0}
    /\ StartingEquity \in Nat \ {0} /\ Compound \in BOOLEAN
    /\ Bars \subseteq Bar
    /\ \A b \in Bars : ~b.synthetic
    /\ Stops \subseteq Nat /\ Targets \subseteq Nat
    /\ {Slip, BuyFee, SellFee, FirstClose, MaxTime} \subseteq Nat

Over == {"square_off", "closed"}

(* phase() goes by the clock: what is over stays over until the next day.  *)
ASSUME CalendarAssumption ==
    /\ DayOf \in [0..MaxTime -> Nat] /\ PhaseOf \in [0..MaxTime -> Phase]
    /\ \A t, u \in 0..MaxTime :
          t <= u => /\ DayOf[t] <= DayOf[u]
                    /\ DayOf[t] = DayOf[u] /\ PhaseOf[t] \in Over
                          => PhaseOf[u] \in Over

VARIABLES
    now,        \* the interval of the bar being processed
    inst, bar,  \* the bar
    stage,      \* where _process_bar is
    fills,      \* fills the broker returned, not yet applied
    pending,    \* broker.pending
    broker,     \* broker.positions
    closed,     \* broker.closed_positions
    risk,       \* the RiskEngine
    entryCosts, \* engine._entry_costs
    equity,     \* portfolio.equity
    closes,     \* the last close of each instrument
    dayOpen,    \* portfolio._day_open_equity
    carried,    \* entry costs of positions held over night (history)
    squared     \* instruments with a square-off bar today (history)

vars == <<now, inst, bar, stage, fills, pending, broker, closed, risk,
          entryCosts, equity, closes, dayOpen, carried, squared>>

books == <<pending, broker, closed>>
ledger == <<entryCosts, equity, dayOpen, carried>>

(* submitted: the interval that began when the order was submitted.        *)
Order   == [intent : Intents \cup {"none"}, qty : Nat, stop : Nat,
            target : Nat, submitted : Nat]
NoOrder == [intent |-> "none", qty |-> 0, stop |-> 0, target |-> 0,
            submitted |-> 0]

(* OpenPosition; filled: the interval of its entry.                        *)
OpenPosition == [qty : Int, entry : Int, stop : Nat, target : Nat,
                 submitted : Nat, filled : Nat]
NoPosition   == [qty |-> 0, entry |-> 0, stop |-> 0, target |-> 0,
                 submitted |-> 0, filled |-> 0]

Fill == [opens : BOOLEAN, qty : Int, price : Int]

(* What the risk engine is told of the phase.                              *)
Permits(p) == [entry |-> p = "entry", exit |-> p \notin {"pre_open", "closed"}]

(* charge_leg and SlippageModel.apply: buys fill higher, sells lower.      *)
Costs(isBuy, n)      == n * (IF isBuy THEN BuyFee ELSE SellFee)
FillPrice(isBuy, p)  == IF isBuy THEN p + Slip ELSE p - Slip

(* The signed quantity of a fill is positive when it buys.                 *)
CostsOf(f) == Costs(f.qty > 0, Size(f.qty))

SumOf(f) == SumFunctionOnSet(f, Instruments)

Init ==
    /\ now = 0 /\ inst = 0 /\ bar = [open |-> 0, high |-> 0, low |-> 0,
          close |-> 0, most |-> 0, synthetic |-> TRUE]
    /\ stage = "next" /\ fills = <<>>
    /\ pending = [i \in Instruments |-> NoOrder]
    /\ broker = [i \in Instruments |-> NoPosition]
    /\ closed = [i \in Instruments |-> NoPosition]
    /\ risk = StartSession(NoSession, StartingEquity)
    /\ entryCosts = [i \in Instruments |-> 0]
    /\ equity = StartingEquity /\ dayOpen = StartingEquity
    /\ closes = [i \in Instruments |-> FirstClose]
    /\ carried = 0 /\ squared = {}

----------------------------------------------------------------------------
(* The next bar, and _roll_session.                                        *)

SyntheticBar(i) ==
    [open |-> closes[i], high |-> closes[i], low |-> closes[i],
     close |-> closes[i], most |-> 0, synthetic |-> TRUE]

SameSession(t) == DayOf[t] = DayOf[now]

(* A backtest whose equity is gone raises instead of trading on.           *)
RollSession(t) ==
    IF SameSession(t)
    THEN UNCHANGED <<risk, dayOpen, carried, squared>>
    ELSE /\ Compound => equity > 0
         /\ risk' = StartSession(risk, IF Compound THEN equity ELSE StartingEquity)
         /\ dayOpen' = equity
         /\ carried' = SumOf(entryCosts)
         /\ squared' = {}

NextBar(t, i, b) ==
    /\ stage = "next"
    /\ t > now \/ (t = now /\ i > inst)
    /\ RollSession(t)
    /\ now' = t /\ inst' = i /\ bar' = b
    /\ closes' = [closes EXCEPT ![i] = b.close]
    /\ stage' = "open"
    /\ UNCHANGED <<fills, books, entryCosts, equity>>

----------------------------------------------------------------------------
(* SimBroker.process_bar, first half: the pending order fills at the open. *)

(* _liquidity_capped: none of a synthetic bar, no more than its share of a *)
(* real one.                                                               *)
Fillable(n) == IF bar.synthetic THEN 0 ELSE MinOf({n, bar.most})

IsBuy(intent) == intent \in {"OPEN_LONG", "CLOSE_SHORT"}

Signed(isBuy, n) == IF isBuy THEN n ELSE -n

NothingPending ==
    /\ stage = "open" /\ pending[inst] = NoOrder
    /\ stage' = "levels"
    /\ UNCHANGED <<now, inst, bar, fills, books, risk, ledger, closes, squared>>

(* Mutant: it stays pending for a bar in which it can fill.                *)
KeepUnfillable ==
    /\ stage = "open" /\ pending[inst] # NoOrder
    /\ Fillable(pending[inst].qty) = 0
    /\ stage' = "levels"
    /\ UNCHANGED <<now, inst, bar, fills, books, risk, ledger, closes, squared>>

(* The order is dropped when nothing of it can fill, an exit too.          *)
DropUnfillable ==
    LET o == pending[inst] IN
    /\ stage = "open" /\ o # NoOrder
    /\ Fillable(o.qty) = 0
    /\ pending' = [pending EXCEPT ![inst] = NoOrder]
    /\ stage' = "levels"
    /\ UNCHANGED <<now, inst, bar, fills, broker, closed, risk, ledger, closes,
                   squared>>

OpenAtOpen ==
    LET o     == pending[inst]
        buy   == IsBuy(o.intent)
        n     == Signed(buy, Fillable(o.qty))
        price == FillPrice(buy, bar.open) IN
    /\ stage = "open" /\ o.intent \in Opening /\ n # 0
    /\ broker' = [broker EXCEPT ![inst] =
          [qty |-> n, entry |-> price, stop |-> o.stop, target |-> o.target,
           submitted |-> o.submitted, filled |-> now]]
    /\ fills' = <<[opens |-> TRUE, qty |-> n, price |-> price]>>
    /\ pending' = [pending EXCEPT ![inst] = NoOrder]
    /\ stage' = "levels"
    /\ UNCHANGED <<now, inst, bar, closed, risk, ledger, closes, squared>>

(* Mutant: an exit is trimmed like an entry, the rest stays open.          *)
LeftAtOpenTrimmed(p) ==
    IF Size(p.qty) <= bar.most THEN NoPosition
    ELSE [p EXCEPT !.qty = Signed(@ > 0, Size(@) - bar.most)]

(* An exit closes all that is held, whatever the order was sized for or    *)
(* the bar could fill.                                                     *)
LeftAtOpen(p) == NoPosition

CloseAtOpen ==
    LET o     == pending[inst]
        buy   == IsBuy(o.intent)
        price == FillPrice(buy, bar.open) IN
    /\ stage = "open" /\ o.intent \in Intents \ Opening /\ Fillable(o.qty) # 0
    /\ closed' = [closed EXCEPT ![inst] = broker[inst]]
    /\ broker' = [broker EXCEPT ![inst] = LeftAtOpen(@)]
    /\ fills' = <<[opens |-> FALSE, price |-> price,
                   qty |-> Signed(buy, Size(broker[inst].qty))]>>
    /\ pending' = [pending EXCEPT ![inst] = NoOrder]
    /\ stage' = "levels"
    /\ UNCHANGED <<now, inst, bar, risk, ledger, closes, squared>>

----------------------------------------------------------------------------
(* Second half: stop and target against the range of the bar.              *)

StopHit(p) ==
    p.stop > 0 /\ IF p.qty > 0 THEN bar.low <= p.stop ELSE bar.high >= p.stop

Gapped(p) ==
    p.stop > 0 /\ IF p.qty > 0 THEN bar.open <= p.stop ELSE bar.open >= p.stop

TargetHit(p) ==
    p.target > 0 /\ IF p.qty > 0 THEN bar.high >= p.target
                                 ELSE bar.low <= p.target

(* Mutant: the target is taken to be hit first.                            *)
ExitLevelHopeful(p) ==
    IF TargetHit(p) THEN p.target ELSE IF Gapped(p) THEN bar.open ELSE p.stop

(* Pessimistic: the stop first, and at the open when the bar gapped it.    *)
ExitLevel(p) ==
    IF ~StopHit(p) THEN p.target ELSE IF Gapped(p) THEN bar.open ELSE p.stop

(* Mutant: a position entered at this bar's open is not checked yet.       *)
LeavesLater(p) == p.qty # 0 /\ p.filled < now /\ (StopHit(p) \/ TargetHit(p))

Leaves(p) == p.qty # 0 /\ (StopHit(p) \/ TargetHit(p))

(* _close at a raw price.                                                  *)
CloseFill(p, raw) ==
    [opens |-> FALSE, qty |-> -p.qty, price |-> FillPrice(p.qty < 0, raw)]

ExitAtLevel ==
    LET p == broker[inst] IN
    /\ stage = "levels" /\ Leaves(p)
    /\ closed' = [closed EXCEPT ![inst] = p]
    /\ broker' = [broker EXCEPT ![inst] = NoPosition]
    /\ fills' = Append(fills, CloseFill(p, ExitLevel(p)))
    /\ stage' = "apply"
    /\ UNCHANGED <<now, inst, bar, pending, risk, ledger, closes, squared>>

NoExit ==
    /\ stage = "levels" /\ ~Leaves(broker[inst])
    /\ stage' = "apply"
    /\ UNCHANGED <<now, inst, bar, fills, books, risk, ledger, closes, squared>>

----------------------------------------------------------------------------
(* _record_and_apply, fill by fill: the broker has moved on already.       *)

(* _apply_open takes the stop from the broker's position, if it is still   *)
(* there.                                                                  *)
ApplyOpen ==
    LET f == Head(fills) IN
    /\ stage = "apply" /\ fills # <<>> /\ f.opens
    /\ entryCosts' = [entryCosts EXCEPT ![inst] = CostsOf(f)]
    /\ risk' = ApplyCosts(OnOpenFill(risk, inst, f.qty, f.price,
                                     broker[inst].stop), CostsOf(f))
    /\ fills' = Tail(fills)
    /\ UNCHANGED <<now, inst, bar, stage, books, equity, dayOpen, carried,
                   closes, squared>>

(* Mutant: the ledger forgets what the entry cost.                         *)
NetPnlOfExit(p, f) == (f.price - p.entry) * p.qty - CostsOf(f)

(* record_trade: the gross result less the costs of both legs.             *)
NetPnl(p, f) == (f.price - p.entry) * p.qty - entryCosts[inst] - CostsOf(f)

ApplyClose ==
    LET f == Head(fills) IN
    /\ stage = "apply" /\ fills # <<>> /\ ~f.opens
    /\ closed' = [closed EXCEPT ![inst] = NoPosition]
    /\ entryCosts' = [entryCosts EXCEPT ![inst] = 0]
    /\ equity' = equity + NetPnl(closed[inst], f)
    /\ risk' = ApplyCosts(OnCloseFill(risk, inst, f.price), CostsOf(f))
    /\ fills' = Tail(fills)
    /\ UNCHANGED <<now, inst, bar, stage, pending, broker, dayOpen, carried,
                   closes, squared>>

----------------------------------------------------------------------------
(* Session control, then the strategy.                                     *)

(* Mutant: only positions older than the bar are squared off.              *)
SquaresOffOld(p) == PhaseOf[now] = "square_off" /\ p.qty # 0 /\ p.filled < now

SquaresOff(p) == PhaseOf[now] = "square_off" /\ p.qty # 0

(* force_close at the close of the bar; _record_and_apply follows.         *)
ForceClose ==
    LET p == broker[inst] IN
    /\ stage = "apply" /\ fills = <<>> /\ SquaresOff(p)
    /\ pending' = [pending EXCEPT ![inst] = NoOrder]
    /\ closed' = [closed EXCEPT ![inst] = p]
    /\ broker' = [broker EXCEPT ![inst] = NoPosition]
    /\ fills' = <<CloseFill(p, bar.close)>>
    /\ UNCHANGED <<now, inst, bar, stage, risk, ledger, closes, squared>>

(* cancel_pending, and no strategy.                                        *)
SessionOver ==
    /\ stage = "apply" /\ fills = <<>> /\ ~SquaresOff(broker[inst])
    /\ PhaseOf[now] \in Over
    /\ pending' = [pending EXCEPT ![inst] = NoOrder]
    /\ squared' = IF PhaseOf[now] = "square_off" THEN squared \cup {inst} ELSE squared
    /\ stage' = "next"
    /\ UNCHANGED <<now, inst, bar, fills, broker, closed, risk, ledger, closes>>

(* Mutant: the broker looks at pending orders after the strategy.          *)
AfterSignalsOpen == "open"

AfterSignals == "next"

Approves(s) ==
    \/ ApprovesExit(risk, s, Permits(PhaseOf[now]))
    \/ ApprovesEntry(risk, s, Permits(PhaseOf[now]))

(* _handle_signal and submit: an instrument has one pending order at most. *)
Signal(intent, stop, target) ==
    LET s == [inst |-> inst, intent |-> intent, ref |-> bar.close,
              stop |-> stop, target |-> target]
        o == OrderFor(risk, s) IN
    /\ stage = "apply" /\ fills = <<>> /\ PhaseOf[now] \notin Over
    /\ risk' = Evaluated(risk, s, Permits(PhaseOf[now]))
    /\ IF Approves(s) /\ pending[inst] = NoOrder
       THEN pending' = [pending EXCEPT ![inst] =
               [intent |-> o.intent, qty |-> o.qty, stop |-> o.stop,
                target |-> o.target, submitted |-> now + 1]]
       ELSE UNCHANGED pending
    /\ stage' = AfterSignals
    /\ UNCHANGED <<now, inst, bar, fills, broker, closed, ledger, closes, squared>>

NoSignal ==
    /\ stage = "apply" /\ fills = <<>> /\ PhaseOf[now] \notin Over
    /\ stage' = AfterSignals
    /\ UNCHANGED <<now, inst, bar, fills, books, risk, ledger, closes, squared>>

Next ==
    \/ \E t \in now..MaxTime : \E i \in Instruments :
          \E b \in Bars \cup {SyntheticBar(i)} : NextBar(t, i, b)
    \/ NothingPending \/ DropUnfillable \/ OpenAtOpen \/ CloseAtOpen
    \/ ExitAtLevel \/ NoExit
    \/ ApplyOpen \/ ApplyClose
    \/ ForceClose \/ SessionOver
    \/ \E intent \in Intents : \E stop \in Stops : \E target \in Targets :
          Signal(intent, stop, target)
    \/ NoSignal

Spec == Init /\ [][Next]_vars

----------------------------------------------------------------------------
(* Properties.                                                             *)

(* Every variable stays in its domain; an instrument is held or pending    *)
(* to open, not both; and a bar leaves fills only while they are applied.  *)
TypeOK ==
    /\ now \in 0..MaxTime /\ inst \in Instruments \cup {0}
    /\ bar \in Bar
    /\ stage \in {"next", "open", "levels", "apply"}
    /\ fills \in Seq(Fill)
    /\ stage \in {"next", "open"} => fills = <<>>
    /\ stage # "next" => inst \in Instruments
    /\ pending \in [Instruments -> Order]
    /\ broker \in [Instruments -> OpenPosition]
    /\ closed \in [Instruments -> OpenPosition]
    /\ risk \in Risk
    /\ entryCosts \in [Instruments -> Int]
    /\ {equity, dayOpen, carried} \subseteq Int
    /\ closes \in [Instruments -> Nat]
    /\ squared \subseteq Instruments
    /\ \A i \in Instruments : /\ pending[i].intent \in Opening => broker[i].qty = 0
                              /\ pending[i].intent \in Intents \ Opening
                                    => broker[i].qty # 0

(* What the risk engine holds for a position of the broker.                *)
AsRiskSees(p) == [qty |-> p.qty, entry |-> p.entry, stop |-> p.stop]

(* Once a bar's fills are applied, the risk engine holds the positions the *)
(* broker holds, at the same price and stop: through liquidity trims,      *)
(* entries stopped out in their own bar, square-offs and nights.           *)
BooksAgree ==
    fills = <<>> =>
        \A i \in Instruments : risk.positions[i] = AsRiskSees(broker[i])

(* The ledger and the breaker agree on the day's money: they differ by     *)
(* entry costs of what is still open, charged at once to the breaker and   *)
(* at the exit to the ledger.                                              *)
MoneyAgrees ==
    fills = <<>> =>
        equity - dayOpen = risk.pnl + SumOf(entryCosts) - carried

(* "A signal generated on bar t executes at bar t+1 open. Never at bar t   *)
(* close." (DESIGN.md 2.3)                                                 *)
NoLookAhead ==
    \A i \in Instruments :
        broker[i].qty # 0 => broker[i].filled >= broker[i].submitted

(* No position outlives a bar that traded through its stop, the bar of its *)
(* own entry included.                                                     *)
StopsHold ==
    stage = "apply" => \/ broker[inst].qty = 0
                       \/ ~StopHit(broker[inst])

(* An exit whose bar touched the stop is never filled better than there.   *)
ExitIsPessimistic ==
    stage = "levels" /\ fills' # fills /\ StopHit(broker[inst]) =>
        LET p == broker[inst]
            f == fills'[Len(fills')]
        IN  (f.price - p.stop) * p.qty <= 0

(* A stop is a limit on the loss: it ends the position in the first bar    *)
(* that trades through it, at its price or at a worse one.                 *)
StopsAreHonoured == [][StopsHold' /\ ExitIsPessimistic]_vars

(* An instrument that had a square-off bar ends its day flat: nothing held *)
(* and nothing pending, entries filled in that very bar included.          *)
FlatAfterSquareOff ==
    \A i \in squared : broker[i].qty = 0 /\ pending[i] = NoOrder

(* Within a session the breaker stays tripped, and a tripped breaker lets  *)
(* no new entry become pending.                                            *)
HaltHolds ==
    [][risk.halted /\ SameSession(now') =>
          /\ risk'.halted
          /\ \A i \in Instruments :
                pending'[i].intent \in Opening => pending'[i] = pending[i]]_vars

(* "The Phase 0 invariant must survive contact with the real engine."      *)
(* (test_open_risk_cap_holds_through_a_full_backtest)                      *)
OpenRiskIsCapped ==
    fills = <<>> /\ stage = "next" =>
        OpenRisk(risk) * 1000 <= risk.equity * MaxOpenRisk

============================================================================
