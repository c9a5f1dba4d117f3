-------------------------------- MODULE Bars --------------------------------
(***************************************************************************)
(* src/bars.py: the bars of one instrument, from its ticks.  An aggregator *)
(* is a value, moved by AddTick and FlushUntil; both return the aggregator *)
(* and the bars that closed.  FillGaps is config.BAR_FILL_GAPS.            *)
(*                                                                         *)
(* Instead of vwap a bar carries the notional it is computed from:         *)
(* vwap = notional / volume where there is volume, the close elsewhere.    *)
(***************************************************************************)
EXTENDS MarketCalendar, Sequences

CONSTANTS
    Instruments,
    Interval,       \* config.BAR_INTERVAL_SECONDS
    FillGaps,
    VolumeMode      \* config.BAR_VOLUME_MODE

ASSUME BarsAssumption ==
    /\ IsFiniteSet(Instruments) /\ Interval \in Nat \ {0} /\ FillGaps \in BOOLEAN
    /\ VolumeMode \in {"cumulative", "incremental", "none"}

None == -1

Tick == [inst : Instruments, ts : Nat, price : Int, volume : Nat]

Bar == [inst : Instruments, start : Nat, open : Nat, high : Nat, low : Nat,
        close : Nat, volume : Nat, notional : Nat, ticks : Nat,
        synthetic : BOOLEAN]

(* The elements of S in the order Before.                                  *)
Ordered(S, Before(_, _)) ==
    [k \in 1..Cardinality(S) |-> CHOOSE x \in S : Cardinality({y \in S : Before(y, x)}) = k - 1]

(* By start and instrument.                                                *)
Earlier(b, c) == b.start < c.start \/ (b.start = c.start /\ b.inst < c.inst)

(* start None: no bar is forming.                                          *)
Aggregator == [start : Nat \cup {None}, open : Nat, high : Nat, low : Nat,
               close : Nat, ticks : Nat, notional : Nat, volume : Nat,
               lastCum : Nat \cup {None}, lastClose : Nat \cup {None},
               lastTick : Nat \cup {None}, lastEmitted : Nat \cup {None}]

NewAggregator ==
    [start |-> None, open |-> 0, high |-> 0, low |-> 0, close |-> 0,
     ticks |-> 0, notional |-> 0, volume |-> 0, lastCum |-> None,
     lastClose |-> None, lastTick |-> None, lastEmitted |-> None]

(* align_to_interval: anchored at the open of the session w.               *)
Align(t, w) ==
    IF t < w.open THEN w.open
                  ELSE w.open + ((t - w.open) \div Interval) * Interval

(* Mutants: a counter that starts anew is subtracted all the same; the     *)
(* first reading counts in full.                                           *)
DeltaVolumeNoReset(a, raw) ==
    IF VolumeMode = "none" THEN 0
    ELSE IF VolumeMode = "incremental" \/ a.lastCum = None THEN 0 ELSE raw - a.lastCum
DeltaVolumeNoBaseline(a, raw) ==
    IF VolumeMode = "none" THEN 0
    ELSE IF VolumeMode = "incremental" \/ a.lastCum = None THEN raw
    ELSE IF raw < a.lastCum THEN 0 ELSE raw - a.lastCum

(* _delta_volume.                                                          *)
DeltaVolume(a, raw) ==
    CASE VolumeMode = "none"        -> 0
      [] VolumeMode = "incremental" -> raw
      [] VolumeMode = "cumulative"  ->
            IF a.lastCum = None \/ raw < a.lastCum THEN 0 ELSE raw - a.lastCum

StartBar(a, s, p) ==
    [a EXCEPT !.start = s, !.open = p, !.high = p, !.low = p, !.close = p,
              !.ticks = 0, !.notional = 0, !.volume = 0]

(* _finish_bar: the bar that was forming, and what is left.                *)
FinishedBar(a, i) ==
    [inst |-> i, start |-> a.start, open |-> a.open, high |-> a.high,
     low |-> a.low, close |-> a.close, volume |-> a.volume,
     notional |-> a.notional, ticks |-> a.ticks, synthetic |-> FALSE]
FinishBar(a) == [a EXCEPT !.lastClose = a.close, !.start = None]

SyntheticBar(a, i, s) ==
    [inst |-> i, start |-> s, open |-> a.lastClose, high |-> a.lastClose,
     low |-> a.lastClose, close |-> a.lastClose, volume |-> 0,
     notional |-> 0, ticks |-> 0, synthetic |-> TRUE]

(* One for every interval that starts after `from' and before `to' and the *)
(* close of the session.                                                   *)
GapBars(a, i, from, to, w) ==
    LET end == IF to < w.close THEN to ELSE w.close
        n   == IF end > from THEN (end - from - 1) \div Interval ELSE 0
    IN  IF FillGaps /\ a.lastClose # None
        THEN [k \in 1..n |-> SyntheticBar(a, i, from + k * Interval)]
        ELSE <<>>

(* Mutant: the empty intervals after a bar are left out.                   *)
ClosedBarsNoGaps(a, i, to, w) == <<FinishedBar(a, i)>>

(* The forming bar and the empty intervals after it.                       *)
ClosedBars(a, i, to, w) ==
    <<FinishedBar(a, i)>> \o GapBars(FinishBar(a), i, a.start, to, w)

Emit(a, closed) ==
    [agg |-> IF closed = <<>> THEN a
             ELSE [a EXCEPT !.lastEmitted = closed[Len(closed)].start],
     bars |-> closed]

Accumulate(a, p, q) ==
    [a EXCEPT !.high = IF p > @ THEN p ELSE @,
              !.low = IF p < @ THEN p ELSE @,
              !.close = p, !.ticks = @ + 1,
              !.notional = @ + p * q, !.volume = @ + q]

Accepts(a, t, w) ==
    /\ w.open <= t.ts /\ t.ts < w.close
    /\ t.price > 0
    /\ a.lastTick = None \/ t.ts >= a.lastTick

(* add_tick.                                                               *)
AddTick(a, t, w) ==
    LET target == Align(t.ts, w)
        qty    == DeltaVolume(a, t.volume)
        heard  == [a EXCEPT !.lastTick = t.ts,
                            !.lastCum = IF VolumeMode = "cumulative"
                                        THEN t.volume ELSE @]
        closed == IF a.start = None
                  THEN IF a.lastEmitted = None THEN <<>>
                       ELSE GapBars(a, t.inst, a.lastEmitted, target, w)
                  ELSE IF target > a.start
                       THEN ClosedBars(heard, t.inst, target, w)
                       ELSE <<>>
        ready  == IF a.start = None THEN StartBar(heard, target, t.price)
                  ELSE IF target > a.start
                       THEN StartBar(FinishBar(heard), target, t.price)
                       ELSE heard
    IN  IF Accepts(a, t, w) THEN Emit(Accumulate(ready, t.price, qty), closed)
                            ELSE [agg |-> a, bars |-> <<>>]

(* flush_until: close all that has elapsed at `moment', tick or no tick.   *)
FlushUntil(a, i, moment, w) ==
    LET target == Align(IF moment < w.close THEN moment ELSE w.close, w)
    IN  CASE a.start # None /\ target > a.start ->
                Emit(FinishBar(a), ClosedBars(a, i, target, w))
          [] a.start = None /\ a.lastEmitted # None ->
                Emit(a, GapBars(a, i, a.lastEmitted, target, w))
          [] OTHER -> [agg |-> a, bars |-> <<>>]

============================================================================
