----------------------------- MODULE Indicators -----------------------------
(***************************************************************************)
(* src/indicators.py: the indicators a strategy uses, each a value moved   *)
(* by its update with one closed bar.  None is the reading of one that is  *)
(* warming up.                                                             *)
(*                                                                         *)
(* Prices are integers, of a unit as fine as the instance wants; a mean is *)
(* rounded down to it.  RSI and ADX read 0..100.                           *)
(***************************************************************************)
EXTENDS Integers, Sequences, FiniteSetsExt, SequencesExt

Total(s) == SumFunctionOnSet(s, DOMAIN s)
Mean(s)  == Total(s) \div Len(s)
Abs(x)   == IF x < 0 THEN -x ELSE x
Larger(x, y) == IF x > y THEN x ELSE y

None == -1

(* The seed of a Wilder or exponential mean: values until there are n.     *)
NoMean == [value |-> None, seed |-> <<>>]
Seeded(m, n, x) ==
    LET seed == Append(m.seed, x)
    IN  IF Len(seed) < n THEN [m EXCEPT !.seed = seed]
                         ELSE [value |-> Mean(seed), seed |-> <<>>]

(* EMA.update_value, of period n.                                          *)
EMA(m, n, x) ==
    IF m.value = None THEN Seeded(m, n, x)
    ELSE [m EXCEPT !.value = @ + (2 * (x - @)) \div (n + 1)]

(* Mutant: the weights of the old mean and of the new value add up to more *)
(* than one.                                                               *)
WilderHeavy(m, n, x) ==
    IF m.value = None THEN Seeded(m, n, x)
    ELSE [m EXCEPT !.value = (@ * n + x) \div n]

(* Wilder's mean, as ATR, RSI and ADX keep it.                             *)
Wilder(m, n, x) ==
    IF m.value = None THEN Seeded(m, n, x)
    ELSE [m EXCEPT !.value = (@ * (n - 1) + x) \div n]

(* SessionVWAP: synthetic bars are no trades; bars without volume are only *)
(* used while there has been no volume at all.                             *)
NoVWAP == [notional |-> 0, volume |-> 0, sum |-> 0, count |-> 0]
VWAP(v, b) ==
    LET price == IF b.vwap > 0 THEN b.vwap ELSE (b.high + b.low + b.close) \div 3
    IN  CASE b.synthetic -> v
          [] ~b.synthetic /\ b.volume > 0 ->
                [v EXCEPT !.notional = @ + price * b.volume, !.volume = @ + b.volume]
          [] OTHER -> [v EXCEPT !.sum = @ + price, !.count = @ + 1]
VWAPValue(v) ==
    CASE v.volume > 0 -> v.notional \div v.volume
      [] v.volume = 0 /\ v.count > 0 -> v.sum \div v.count
      [] OTHER -> None

(* ATR: Wilder's mean of the true range.                                   *)
NoATR == [mean |-> NoMean, close |-> None]
TrueRange(b, close) ==
    IF close = None THEN b.high - b.low
    ELSE Max({b.high - b.low, Abs(b.high - close), Abs(b.low - close)})
ATR(a, n, b) == [mean |-> Wilder(a.mean, n, TrueRange(b, a.close)), close |-> b.close]

(* RSI.  The gains and the losses share their seed.                        *)
NoRSI == [gain |-> NoMean, loss |-> NoMean, close |-> None]
RSI(r, n, b) ==
    LET change == b.close - r.close
    IN  IF r.close = None THEN [r EXCEPT !.close = b.close]
        ELSE [gain  |-> Wilder(r.gain, n, Larger(change, 0)),
              loss  |-> Wilder(r.loss, n, Larger(-change, 0)),
              close |-> b.close]
RSIValue(r) ==
    CASE r.gain.value = None -> None
      [] r.gain.value # None /\ r.loss.value = 0 -> 100
      [] OTHER -> (100 * r.gain.value) \div (r.gain.value + r.loss.value)

(* ADX: Wilder's running totals of range and of directional movement, DX   *)
(* of these, and Wilder's mean of DX.  A DX of no range at all is None.    *)
NoADX == [last |-> <<>>, seed |-> <<>>, total |-> <<>>, mean |-> NoMean]
Movement(a, b) ==
    LET p == a.last[1]
        up == b.high - p.high
        down == p.low - b.low
    IN  [range |-> TrueRange(b, p.close),
         plus  |-> IF up > down /\ up > 0 THEN up ELSE 0,
         minus |-> IF down > up /\ down > 0 THEN down ELSE 0]
AddMovements(s, t) ==
    [range |-> s.range + t.range, plus |-> s.plus + t.plus, minus |-> s.minus + t.minus]
TotalMovement(s) ==
    [range |-> Total([k \in DOMAIN s |-> s[k].range]),
     plus  |-> Total([k \in DOMAIN s |-> s[k].plus]),
     minus |-> Total([k \in DOMAIN s |-> s[k].minus])]
Decay(t, n) ==
    [range |-> t.range - t.range \div n, plus |-> t.plus - t.plus \div n,
     minus |-> t.minus - t.minus \div n]
DX(t) ==
    LET plus  == (100 * t.plus) \div t.range
        minus == (100 * t.minus) \div t.range
    IN  IF t.range = 0 THEN None
        ELSE IF plus + minus = 0 THEN 0
        ELSE (100 * Abs(plus - minus)) \div (plus + minus)
ADX(a, n, b) ==
    LET m     == Movement(a, b)
        seed  == Append(a.seed, m)
        total == IF a.total # <<>> THEN <<AddMovements(Decay(a.total[1], n), m)>>
                 ELSE IF Len(seed) < n THEN <<>>
                 ELSE <<TotalMovement(seed)>>
        dx    == IF total = <<>> THEN None ELSE DX(total[1])
    IN  IF a.last = <<>> THEN [a EXCEPT !.last = <<b>>]
        ELSE [last |-> <<b>>, seed |-> IF total = <<>> THEN seed ELSE <<>>,
              total |-> total,
              mean |-> IF dx = None THEN a.mean ELSE Wilder(a.mean, n, dx)]

(* RelativeVolume, in percent: the volume of a bar by the median of the    *)
(* bars before it, once there are enough.                                  *)
NoVolumes == [volumes |-> <<>>, value |-> None]
RelativeVolume(r, enough, b) ==
    LET ordered == SortSeq(r.volumes, <)
        median  == ordered[Len(ordered) \div 2 + 1]
    IN  IF b.synthetic \/ b.volume <= 0 THEN r
        ELSE [volumes |-> Append(r.volumes, b.volume),
              value   |-> IF Len(r.volumes) >= enough
                          THEN (100 * b.volume) \div median ELSE r.value]

============================================================================
