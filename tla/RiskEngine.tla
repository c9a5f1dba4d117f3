----------------------------- MODULE RiskEngine -----------------------------
(***************************************************************************)
(* src/risk_engine.py: the pure gate between a strategy's signals and the  *)
(* orders they become.  The engine is a value:                             *)
(*                                                                         *)
(*   equity     session_equity, the day's snapshot                         *)
(*   pnl        realized_pnl_today                                         *)
(*   positions  per instrument a position, or Flat                         *)
(*   halted     the daily breaker                                          *)
(*   orders     orders_this_session                                        *)
(*                                                                         *)
(* Money and prices are whole units; limits are fractions of the equity    *)
(* in thousandths.  Correlation groups are left out: no caller records a   *)
(* position with a group, so every signal is judged as ungrouped.          *)
(***************************************************************************)
EXTENDS Integers, FiniteSetsExt

CONSTANTS
    Instruments,
    RiskPerTrade, MaxOpenRisk, MaxDrawdown,     \* RiskLimits, in thousandths
    MaxExposure, MaxGross, MinStopDistance,     \* in thousandths
    MaxPositions,
    MaxLoss, MaxOrders,                         \* absolute; 0 disables
    AllowShort

ASSUME InstrumentsAssumption == IsFiniteSet(Instruments)

(* __post_init__ refuses any other set of limits.                          *)
ASSUME LimitsAssumption ==
    /\ {RiskPerTrade, MaxOpenRisk, MaxDrawdown, MaxExposure, MaxGross,
        MaxPositions, MaxLoss, MaxOrders} \subseteq Nat
    /\ MaxOpenRisk < MaxDrawdown
    /\ RiskPerTrade * MaxPositions <= MaxOpenRisk
    /\ MinStopDistance \in Nat \ {0}
    /\ AllowShort \in BOOLEAN

Opening == {"OPEN_LONG", "OPEN_SHORT"}
Intents == Opening \cup {"CLOSE_LONG", "CLOSE_SHORT"}

IsLongSide(intent) == intent \in {"OPEN_LONG", "CLOSE_LONG"}

Size(n) == IF n < 0 THEN -n ELSE n

(* Position: quantity is signed, positive long.                            *)
Position == [qty : Int, entry : Int, stop : Int]
Flat     == [qty |-> 0, entry |-> 0, stop |-> 0]

Risk == [equity : Int, pnl : Int, positions : [Instruments -> Position],
         halted : BOOLEAN, orders : Nat]

NoSession == [equity |-> 0, pnl |-> 0, halted |-> FALSE, orders |-> 0,
              positions |-> [i \in Instruments |-> Flat]]

(* start_session: the positions stay.                                      *)
StartSession(r, equity) ==
    [equity |-> equity, pnl |-> 0, positions |-> r.positions,
     halted |-> FALSE, orders |-> 0]

Held(r) == {i \in Instruments : r.positions[i].qty # 0}

RiskAmount(p) == Size(p.qty) * Size(p.entry - p.stop)

OpenRisk(r) ==
    SumFunctionOnSet([i \in Instruments |-> RiskAmount(r.positions[i])], Held(r))

GrossExposure(r) ==
    SumFunctionOnSet([i \in Instruments |->
                         Size(r.positions[i].qty) * r.positions[i].entry], Held(r))

(* Mutant: profit un-trips the breaker.                                    *)
TrippedNow(r) == r.pnl * 1000 <= - r.equity * MaxDrawdown

(* check_daily_drawdown: a breaker that has tripped stays tripped.         *)
Tripped(r) == r.halted \/ r.pnl * 1000 <= - r.equity * MaxDrawdown

Checked(r) ==
    [equity |-> r.equity, pnl |-> r.pnl, positions |-> r.positions,
     halted |-> Tripped(r), orders |-> r.orders]

----------------------------------------------------------------------------
(* A signal s on instrument s.inst: intent, reference price, stop (0: none) *)
(* and target (0: none).                                                   *)

MinOf(S) == CHOOSE x \in S : \A y \in S : x <= y

(* _size_position: the risk budget over the stop distance, clamped by the  *)
(* exposure of one trade and of them all.                                  *)
SizeFor(r, s) ==
    LET room == r.equity * MaxGross - 1000 * GrossExposure(r)
    IN  MinOf({(r.equity * RiskPerTrade) \div (1000 * Size(s.ref - s.stop)),
               (r.equity * MaxExposure) \div (1000 * s.ref),
               (IF room < 0 THEN 0 ELSE room) \div (1000 * s.ref)})

(* evaluate, for an exit: it must match the position.                      *)
ApprovesExit(r, s, phase) ==
    LET p == r.positions[s.inst] IN
    /\ s.intent \notin Opening
    /\ r.equity > 0 /\ phase.exit
    /\ p.qty # 0
    /\ IsLongSide(s.intent) <=> p.qty > 0

(* The stop is on the losing side, and not too near.                       *)
GoodStop(s) ==
    /\ s.stop > 0 /\ s.ref > 0
    /\ IF s.intent = "OPEN_LONG" THEN s.stop < s.ref ELSE s.stop > s.ref
    /\ Size(s.ref - s.stop) * 1000 >= MinStopDistance * s.ref

(* evaluate, for an entry.                                                 *)
ApprovesEntry(r, s, phase) ==
    /\ s.intent \in Opening
    /\ r.equity > 0
    /\ ~Tripped(r)
    /\ phase.entry
    /\ MaxOrders > 0 => r.orders < MaxOrders
    /\ MaxLoss > 0 => r.pnl > -MaxLoss
    /\ s.intent = "OPEN_SHORT" => AllowShort
    /\ r.positions[s.inst].qty = 0
    /\ Cardinality(Held(r)) < MaxPositions
    /\ GoodStop(s)
    /\ LET n         == SizeFor(r, s)
           projected == OpenRisk(r) + n * Size(s.ref - s.stop)
       IN  /\ n > 0
           /\ projected * 1000 <= r.equity * MaxOpenRisk
           /\ (r.pnl - projected) * 1000 >= - r.equity * MaxDrawdown

(* OrderRequest.                                                           *)
OrderFor(r, s) ==
    [intent |-> s.intent,
     qty    |-> IF s.intent \in Opening THEN SizeFor(r, s)
                                        ELSE Size(r.positions[s.inst].qty),
     stop   |-> IF s.intent \in Opening THEN s.stop ELSE 0,
     target |-> IF s.intent \in Opening THEN s.target ELSE 0]

(* What evaluating s leaves behind: an open signal checks the breaker, an  *)
(* approved one counts towards the session's orders.                       *)
Evaluated(r, s, phase) ==
    IF s.intent \notin Opening \/ r.equity <= 0 THEN r
    ELSE [equity |-> r.equity, pnl |-> r.pnl, positions |-> r.positions,
          halted |-> Tripped(r),
          orders |-> r.orders + (IF ApprovesEntry(r, s, phase) THEN 1 ELSE 0)]

----------------------------------------------------------------------------
With(r, positions, pnl) ==
    [equity |-> r.equity, pnl |-> pnl, positions |-> positions,
     halted |-> r.halted, orders |-> r.orders]

OnOpenFill(r, i, qty, price, stop) ==
    With(r, [r.positions EXCEPT ![i] =
                [qty |-> qty, entry |-> price, stop |-> stop]], r.pnl)

(* The close of an instrument that is not held is ignored.                 *)
OnCloseFill(r, i, price) ==
    LET p == r.positions[i]
    IN  IF p.qty = 0 THEN r
        ELSE Checked(With(r, [r.positions EXCEPT ![i] = Flat],
                          r.pnl + (price - p.entry) * p.qty))

ApplyCosts(r, amount) == Checked(With(r, r.positions, r.pnl - Size(amount)))

============================================================================
