--------------------------- MODULE ResearchProofs ---------------------------
(***************************************************************************)
(* Theorems about what decides before an order is thought of: the          *)
(* indicators and the two strategies, the walk-forward and its gates, the  *)
(* reconciliation.  For any periods, thresholds and bars, trades and days. *)
(***************************************************************************)
EXTENDS MCResearch, Lemmas

----------------------------------------------------------------------------
(* Means that warm up.  k values have been fed to the mean m of period n.  *)

Counted(m, n, k) ==
    /\ m = [value |-> m.value, seed |-> m.seed]
    /\ m.seed \in Seq(Nat) /\ Len(m.seed) < n /\ Len(m.seed) <= k
    /\ m.value = None \/ (m.seed = <<>> /\ n <= k)

LEMMA NoMeanIsCounted ==
    ASSUME NEW n \in Nat \ {0}, NEW k \in Nat
    PROVE  Counted(NoMean, n, k)
  BY DEF Counted, NoMean

LEMMA SeededIsCounted ==
    ASSUME NEW m, NEW n \in Nat \ {0}, NEW k \in Nat, NEW x \in Nat,
           Counted(m, n, k), m.value = None
    PROVE  Counted(Seeded(m, n, x), n, k + 1)
<1> DEFINE s == Append(m.seed, x)
<1>1. s \in Seq(Nat) /\ Len(s) = Len(m.seed) + 1 /\ Len(m.seed) \in Nat
  BY DEF Counted
<1> HIDE DEF s
<1>2. CASE Len(s) < n
  <2>1. Seeded(m, n, x) = [m EXCEPT !.seed = s]
    BY <1>2 DEF Seeded, s
  <2>2. [m EXCEPT !.seed = s] = [value |-> m.value, seed |-> s]
    BY DEF Counted
  <2> QED
    BY <1>1, <1>2, <2>1, <2>2 DEF Counted
<1>3. CASE ~ (Len(s) < n)
  <2>1. Seeded(m, n, x) = [value |-> Mean(s), seed |-> <<>>]
    BY <1>3 DEF Seeded, s
  <2>2. n <= k + 1
    BY <1>1, <1>3 DEF Counted
  <2> QED
    BY <1>1, <2>1, <2>2 DEF Counted
<1> QED
  BY <1>2, <1>3

LEMMA WilderIsCounted ==
    ASSUME NEW m, NEW n \in Nat \ {0}, NEW k \in Nat, NEW x \in Nat, Counted(m, n, k)
    PROVE  Counted(Wilder(m, n, x), n, k + 1)
<1>1. CASE m.value = None
  BY <1>1, SeededIsCounted DEF Wilder
<1>2. CASE m.value # None
  BY <1>2 DEF Wilder, Counted
<1> QED
  BY <1>1, <1>2

LEMMA EMAIsCounted ==
    ASSUME NEW m, NEW n \in Nat \ {0}, NEW k \in Nat, NEW x \in Nat, Counted(m, n, k)
    PROVE  Counted(EMA(m, n, x), n, k + 1)
<1>1. CASE m.value = None
  BY <1>1, SeededIsCounted DEF EMA
<1>2. CASE m.value # None
  BY <1>2 DEF EMA, Counted
<1> QED
  BY <1>1, <1>2

----------------------------------------------------------------------------
(* ATR and ADX, k bars after they began.                                   *)

LEMMA BarsAre ==
    ASSUME NEW b \in TpBars
    PROVE  /\ b.low \in Nat /\ b.close \in Nat /\ b.high \in Nat
           /\ b.volume \in Nat /\ b.vwap \in Nat
           /\ b.low <= b.close /\ b.close <= b.high
           /\ b.vwap = 0 \/ (b.low <= b.vwap /\ b.vwap <= b.high)
  BY TrendAssumption DEF TrendAssumption

LEMMA MaxOfThree ==
    ASSUME NEW x \in Int, NEW y \in Int, NEW z \in Int
    PROVE  /\ Max({x, y, z}) \in {x, y, z}
           /\ x <= Max({x, y, z}) /\ y <= Max({x, y, z}) /\ z <= Max({x, y, z})
<1> DEFINE S == {x, y, z}
<1>1. \E c \in S : \A d \in S : c >= d
  OBVIOUS
<1>2. Max(S) \in S /\ \A d \in S : Max(S) >= d
  <2> HIDE DEF S
  <2> QED
    BY <1>1 DEF Max
<1>3. Max(S) \in Int /\ Max(S) >= x /\ Max(S) >= y /\ Max(S) >= z
  BY <1>2
<1> QED
  BY <1>2, <1>3

LEMMA TrueRangeIs ==
    ASSUME NEW b \in TpBars, NEW c \in Nat \cup {None}
    PROVE  TrueRange(b, c) \in Nat
<1>1. CASE c = None
  BY <1>1, BarsAre DEF TrueRange
<1>2. CASE c # None
  <2> DEFINE x == b.high - b.low
             y == Abs(b.high - c)
             z == Abs(b.low - c)
  <2>1. c \in Nat
    BY <1>2
  <2>2. x \in Nat /\ y \in Nat /\ z \in Nat
    BY <2>1, BarsAre DEF Abs
  <2>3. TrueRange(b, c) = Max({x, y, z})
    BY <1>2 DEF TrueRange
  <2> HIDE DEF x, y, z
  <2>4. x \in Int /\ y \in Int /\ z \in Int
    BY <2>2
  <2>5. Max({x, y, z}) \in {x, y, z}
    BY <2>4, MaxOfThree, Zenon
  <2> QED
    BY <2>2, <2>3, <2>5
<1> QED
  BY <1>1, <1>2

ATRCounted(a, n, k) ==
    /\ a = [mean |-> a.mean, close |-> a.close]
    /\ a.close \in Nat \cup {None} /\ Counted(a.mean, n, k)

LEMMA ATRIsCounted ==
    ASSUME NEW a, NEW n \in Nat \ {0}, NEW k \in Nat, NEW b \in TpBars, ATRCounted(a, n, k)
    PROVE  ATRCounted(ATR(a, n, b), n, k + 1)
<1> DEFINE x == TrueRange(b, a.close)
<1>1. x \in Nat /\ Counted(a.mean, n, k)
  BY TrueRangeIs DEF ATRCounted
<1> HIDE DEF x
<1>2. Counted(Wilder(a.mean, n, x), n, k + 1)
  BY <1>1, WilderIsCounted
<1>3. ATR(a, n, b) = [mean |-> Wilder(a.mean, n, x), close |-> b.close]
  BY DEF ATR, x
<1> QED
  BY <1>2, <1>3, BarsAre DEF ATRCounted

Moves == [range : Nat, plus : Nat, minus : Nat]

(* The first bar moves nothing, the totals take a period of bars after it, *)
(* and the mean a period of DX after that.                                 *)
ADXCounted(a, n, k) ==
    /\ a = [last |-> a.last, seed |-> a.seed, total |-> a.total, mean |-> a.mean]
    /\ a.last = <<>> \/ \E b \in TpBars : a.last = <<b>>
    /\ a.seed \in Seq(Moves)
    /\ IF a.last = <<>> THEN a.seed = <<>> /\ a.total = <<>> ELSE Len(a.seed) < k
    /\ a.total = <<>> \/ \E t \in Moves : a.total = <<t>>
    /\ IF a.total = <<>> THEN a.mean = NoMean /\ Len(a.seed) < n
                         ELSE a.seed = <<>> /\ n < k /\ Counted(a.mean, n, k - n)

LEMMA MovementIs ==
    ASSUME NEW p \in TpBars, NEW b \in TpBars, NEW a, a.last = <<p>>
    PROVE  Movement(a, b) \in Moves
<1>1. TrueRange(b, p.close) \in Nat
  BY BarsAre, TrueRangeIs
<1>2. /\ b.high - p.high \in Int /\ p.low - b.low \in Int
  BY BarsAre
<1> DEFINE up == b.high - p.high
           down == p.low - b.low
           x == IF up > down /\ up > 0 THEN up ELSE 0
           y == IF down > up /\ down > 0 THEN down ELSE 0
           r == TrueRange(b, p.close)
<1>3. x \in Nat /\ y \in Nat
  BY <1>2
<1>4. a.last[1] = p
  OBVIOUS
<1>5. Movement(a, b) = [range |-> r, plus |-> x, minus |-> y]
  BY <1>4 DEF Movement
<1> HIDE DEF x, y, r
<1> QED
  BY <1>1, <1>3, <1>5 DEF Moves, r

(* A total of what is not negative is not.                                 *)
LEMMA TotalIs ==
    ASSUME NEW s, NEW n \in Nat, DOMAIN s = 1..n, \A j \in 1..n : s[j] \in Nat
    PROVE  Total(s) \in Nat
<1> DEFINE S == 1..n
<1>1. IsFiniteSet(S) /\ DOMAIN s = S /\ \A j \in S : s[j] \in Nat
  BY FS_Interval
<1> HIDE DEF S
<1> QED
  BY <1>1, SumIsNat DEF Total

LEMMA TotalMovementIs ==
    ASSUME NEW s \in Seq(Moves)
    PROVE  TotalMovement(s) \in Moves
<1> DEFINE r == [k \in DOMAIN s |-> s[k].range]
           p == [k \in DOMAIN s |-> s[k].plus]
           m == [k \in DOMAIN s |-> s[k].minus]
           n == Len(s)
<1>1. n \in Nat /\ DOMAIN s = 1..n /\ \A j \in 1..n : s[j] \in Moves
  OBVIOUS
<1>2. /\ DOMAIN r = 1..n /\ DOMAIN p = 1..n /\ DOMAIN m = 1..n
      /\ \A j \in 1..n : r[j] \in Nat /\ p[j] \in Nat /\ m[j] \in Nat
  BY <1>1 DEF Moves
<1>3. TotalMovement(s) = [range |-> Total(r), plus |-> Total(p), minus |-> Total(m)]
  BY DEF TotalMovement
<1> HIDE DEF r, p, m, n
<1>4. Total(r) \in Nat /\ Total(p) \in Nat /\ Total(m) \in Nat
  BY <1>1, <1>2, TotalIs
<1> QED
  BY <1>3, <1>4 DEF Moves

(* A quotient does not exceed what is divided.                             *)
LEMMA Part ==
    ASSUME NEW x \in Nat, NEW n \in Nat \ {0}
    PROVE  x \div n \in Nat /\ x \div n <= x
<1>1. x = n * (x \div n) + (x % n) /\ x % n \in 0..(n - 1) /\ x \div n \in Int
  OBVIOUS
<1> DEFINE q == x \div n
<1>2. n * q <= x /\ x < n * q + n /\ q \in Int
  BY <1>1
<1> HIDE DEF q
<1>3. q >= 0
  <2> SUFFICES ASSUME q <= -1 PROVE FALSE
    BY <1>2
  <2>1. n * q <= n * (-1)
    BY <1>2
  <2> QED
    BY <1>2, <2>1
<1>4. q <= n * q
  BY <1>2, <1>3
<1> QED
  BY <1>2, <1>3, <1>4 DEF q

LEMMA DecayIs ==
    ASSUME NEW t \in Moves, NEW n \in Nat \ {0}
    PROVE  Decay(t, n) \in Moves
<1>1. t.range \in Nat /\ t.plus \in Nat /\ t.minus \in Nat
  BY DEF Moves
<1>2. /\ t.range - t.range \div n \in Nat /\ t.plus - t.plus \div n \in Nat
      /\ t.minus - t.minus \div n \in Nat
  BY <1>1, Part
<1> QED
  BY <1>2 DEF Decay, Moves

(* The parts of what is positive make no more than a hundred of a hundred. *)
LEMMA Percent ==
    ASSUME NEW x \in Nat, NEW y \in Nat \ {0}, x <= y
    PROVE  (100 * x) \div y \in 0..100
<1> DEFINE q == (100 * x) \div y
<1>1. /\ 100 * x = y * q + ((100 * x) % y) /\ (100 * x) % y \in 0..(y - 1) /\ q \in Int
  OBVIOUS
<1>2. y * q <= 100 * y /\ 100 * x < y * q + y /\ q \in Int
  BY <1>1
<1> HIDE DEF q
<1>3. q >= 0
  <2> SUFFICES ASSUME q <= -1 PROVE FALSE
    BY <1>2
  <2>1. y * q <= y * (-1)
    BY <1>2
  <2> QED
    BY <1>2, <2>1
<1>4. q <= 100
  <2> SUFFICES ASSUME q >= 101 PROVE FALSE
    BY <1>2
  <2>1. y * q >= y * 101
    BY <1>2
  <2> QED
    BY <1>2, <2>1
<1> QED
  BY <1>2, <1>3, <1>4 DEF q

LEMMA DXIs ==
    ASSUME NEW t \in Moves
    PROVE  DX(t) = None \/ DX(t) \in 0..100
<1> DEFINE p == (100 * t.plus) \div t.range
           m == (100 * t.minus) \div t.range
<1>1. CASE t.range = 0
  BY <1>1 DEF DX
<1>2. CASE t.range # 0
  <2>1. 100 * t.plus \in Nat /\ 100 * t.minus \in Nat /\ t.range \in Nat \ {0}
    BY <1>2 DEF Moves
  <2>2. p \in Nat /\ m \in Nat
    BY <2>1, Part
  <2>3. DX(t) = IF p + m = 0 THEN 0 ELSE (100 * Abs(p - m)) \div (p + m)
    BY <1>2 DEF DX
  <2> HIDE DEF p, m
  <2>4. CASE p + m = 0
    BY <2>3, <2>4
  <2>5. CASE p + m # 0
    <3>1. Abs(p - m) \in Nat /\ Abs(p - m) <= p + m /\ p + m \in Nat \ {0}
      BY <2>2, <2>5 DEF Abs
    <3>2. (100 * Abs(p - m)) \div (p + m) \in 0..100
      BY <3>1, Percent
    <3> QED
      BY <2>3, <2>5, <3>2
  <2> QED
    BY <2>4, <2>5
<1> QED
  BY <1>1, <1>2

LEMMA CountedGrows ==
    ASSUME NEW m, NEW n \in Nat \ {0}, NEW k \in Nat, NEW l \in Nat, k <= l, Counted(m, n, k)
    PROVE  Counted(m, n, l)
  BY DEF Counted

(* One more DX, or none, for the mean.                                     *)
MeanWith(m, n, dx) == IF dx = None THEN m ELSE Wilder(m, n, dx)

LEMMA MeanWithIsCounted ==
    ASSUME NEW m, NEW n \in Nat \ {0}, NEW k \in Nat, NEW t \in Moves, Counted(m, n, k)
    PROVE  Counted(MeanWith(m, n, DX(t)), n, k + 1)
<1>1. CASE DX(t) = None
  BY <1>1, CountedGrows DEF MeanWith
<1>2. CASE DX(t) # None
  <2>1. DX(t) \in Nat
    BY <1>2, DXIs
  <2> QED
    BY <1>2, <2>1, WilderIsCounted DEF MeanWith
<1> QED
  BY <1>1, <1>2

LEMMA ADXIsCounted ==
    ASSUME NEW a, NEW n \in Nat \ {0}, NEW k \in Nat, NEW b \in TpBars, ADXCounted(a, n, k)
    PROVE  ADXCounted(ADX(a, n, b), n, k + 1)
<1>1. CASE a.last = <<>>
  <2>1. ADX(a, n, b) = [last |-> <<b>>, seed |-> a.seed, total |-> a.total, mean |-> a.mean]
    BY <1>1 DEF ADX, ADXCounted
  <2>2. a.seed = <<>> /\ a.total = <<>> /\ a.mean = NoMean /\ a.seed \in Seq(Moves)
    BY <1>1 DEF ADXCounted
  <2>3. <<b>> # <<>>
    OBVIOUS
  <2> QED
    BY <2>1, <2>2, <2>3 DEF ADXCounted
<1>2. CASE a.last # <<>>
  <2> DEFINE m == Movement(a, b)
             s == Append(a.seed, m)
  <2>1. m \in Moves
    BY <1>2, MovementIs DEF ADXCounted
  <2>2. /\ s \in Seq(Moves) /\ Len(s) = Len(a.seed) + 1 /\ Len(a.seed) \in Nat
        /\ Len(a.seed) < k
    BY <1>2, <2>1 DEF ADXCounted
  <2>3. <<b>> # <<>> /\ \A x : <<x>> # <<>>
    OBVIOUS
  <2> HIDE DEF m, s
  <2>4. CASE a.total # <<>>
    <3>1. PICK t \in Moves : a.total = <<t>>
      BY <2>4 DEF ADXCounted
    <3> DEFINE u == AddMovements(Decay(t, n), m)
    <3>2. u \in Moves
      BY <2>1, DecayIs DEF AddMovements, Moves
    <3>3. ADX(a, n, b) = [last |-> <<b>>, seed |-> <<>>, total |-> <<u>>,
                          mean |-> MeanWith(a.mean, n, DX(u))]
      BY <1>2, <2>3, <2>4, <3>1 DEF ADX, MeanWith, m
    <3> HIDE DEF u
    <3>4. Counted(a.mean, n, k - n) /\ n < k
      BY <2>4 DEF ADXCounted
    <3>5. Counted(MeanWith(a.mean, n, DX(u)), n, k - n + 1)
      BY <3>2, <3>4, MeanWithIsCounted
    <3>6. k - n + 1 = k + 1 - n
      OBVIOUS
    <3>7. <<>> \in Seq(Moves) /\ Len(<<>>) = 0
      OBVIOUS
    <3> QED
      BY <2>3, <3>2, <3>3, <3>4, <3>5, <3>6, <3>7 DEF ADXCounted
  <2>5. CASE a.total = <<>> /\ Len(s) < n
    <3>1. ADX(a, n, b) = [last |-> <<b>>, seed |-> s, total |-> <<>>, mean |-> a.mean]
      BY <1>2, <2>5 DEF ADX, m, s
    <3>2. a.mean = NoMean
      BY <2>5 DEF ADXCounted
    <3> QED
      BY <2>2, <2>3, <2>5, <3>1, <3>2 DEF ADXCounted
  <2>6. CASE a.total = <<>> /\ ~ (Len(s) < n)
    <3> DEFINE u == TotalMovement(s)
    <3>1. u \in Moves
      BY <2>2, TotalMovementIs
    <3>2. ADX(a, n, b) = [last |-> <<b>>, seed |-> <<>>, total |-> <<u>>,
                          mean |-> MeanWith(a.mean, n, DX(u))]
      BY <1>2, <2>3, <2>6 DEF ADX, MeanWith, m, s
    <3> HIDE DEF u
    <3>3. n <= k
      BY <2>2, <2>6
    <3>4. Counted(a.mean, n, k - n)
      <4>1. a.mean = NoMean
        BY <2>6 DEF ADXCounted
      <4> QED
        BY <3>3, <4>1, NoMeanIsCounted
    <3>5. Counted(MeanWith(a.mean, n, DX(u)), n, k - n + 1)
      BY <3>1, <3>3, <3>4, MeanWithIsCounted
    <3>6. k - n + 1 = k + 1 - n
      BY <3>3
    <3>7. <<>> \in Seq(Moves) /\ Len(<<>>) = 0
      OBVIOUS
    <3> QED
      BY <2>3, <3>1, <3>2, <3>3, <3>5, <3>6, <3>7 DEF ADXCounted
  <2> QED
    BY <2>4, <2>5, <2>6
<1> QED
  BY <1>1, <1>2

----------------------------------------------------------------------------
(* TrendPullback: what is warm has seen its bars, and a pullback is of its *)
(* own.                                                                    *)

IsState(s) ==
    s = [fast |-> s.fast, slow |-> s.slow, atr |-> s.atr, adx |-> s.adx, rsi |-> s.rsi,
         vwap |-> s.vwap, rvol |-> s.rvol, pulledBack |-> s.pulledBack, trade |-> s.trade]

StateCounted(s, k) ==
    /\ IsState(s)
    /\ Counted(s.fast, EmaFast, k) /\ Counted(s.slow, EmaSlow, k)
    /\ ATRCounted(s.atr, AtrPeriod, k) /\ ADXCounted(s.adx, AdxPeriod, k)

WarmInv ==
    /\ warm \in Nat /\ touches \in Nat /\ spent \in Nat /\ spent <= touches
    /\ StateCounted(tp, warm)
    /\ overlooked \in BOOLEAN
    /\ tp.pulledBack \in BOOLEAN /\ (tp.pulledBack => spent < touches \/ overlooked)

LEMMA PeriodsAre ==
    /\ EmaFast \in Nat \ {0} /\ EmaSlow \in Nat \ {0} /\ AtrPeriod \in Nat \ {0}
    /\ AdxPeriod \in Nat \ {0} /\ RsiPeriod \in Nat \ {0}
  BY TrendAssumption DEF TrendAssumption

Unpulled(s) == s.pulledBack \in BOOLEAN /\ ~ s.pulledBack

LEMMA NotPulled ==
    ASSUME NEW s, s.pulledBack = FALSE
    PROVE  Unpulled(s)
  BY Zenon DEF Unpulled

(* The pullbacks are spent, and the state has none.                        *)
LEMMA RestsWarm ==
    ASSUME WarmInv, Unpulled(tp'), warm' \in Nat, StateCounted(tp', warm'),
           Spends(TRUE)
    PROVE  WarmInv'
<1>1. tp'.pulledBack \in BOOLEAN /\ (tp'.pulledBack => spent' < touches' \/ overlooked')
  BY Zenon DEF Unpulled
<1>2. touches' \in Nat /\ spent' \in Nat /\ spent' <= touches' /\ overlooked' \in BOOLEAN
  BY DEF WarmInv, Spends
<1> QED
  BY <1>1, <1>2 DEF WarmInv

(* Whatever is overlooked, the pullback of the state is accounted for.     *)
LEMMA OverlooksWarm ==
    ASSUME WarmInv, NEW b, Overlooks(b)
    PROVE  /\ touches' \in Nat /\ spent' \in Nat /\ spent' <= touches'
           /\ overlooked' \in BOOLEAN
           /\ tp.pulledBack => spent' < touches' \/ overlooked'
<1>1. CASE UNCHANGED pullbacks
  BY <1>1 DEF WarmInv, pullbacks
<1>2. CASE Spends(FALSE)
  BY <1>2 DEF WarmInv, Spends
<1> QED
  BY <1>1, <1>2 DEF Overlooks

LEMMA FreshIsCounted ==
    ASSUME NEW k \in Nat
    PROVE  StateCounted(FreshState, k) /\ Unpulled(FreshState)
<1>1. ATRCounted(NoATR, AtrPeriod, k)
  BY PeriodsAre, NoMeanIsCounted DEF NoATR, ATRCounted
<1>2. ADXCounted(NoADX, AdxPeriod, k)
  <2>1. <<>> \in Seq(Moves) /\ Len(<<>>) = 0
    OBVIOUS
  <2> QED
    BY <2>1, PeriodsAre DEF NoADX, ADXCounted
<1>3. StateCounted(FreshState, k)
  BY <1>1, <1>2, PeriodsAre, NoMeanIsCounted DEF FreshState, StateCounted, IsState
<1>4. FreshState.pulledBack = FALSE
  BY DEF FreshState
<1> QED
  BY <1>3, <1>4, NotPulled

(* A bar is counted by every indicator, and takes back no pullback.        *)
LEMMA WithBarIsCounted ==
    ASSUME NEW s, NEW k \in Nat, NEW b \in TpBars, StateCounted(s, k)
    PROVE  /\ StateCounted(WithBar(s, b), k + 1)
           /\ WithBar(s, b).pulledBack = s.pulledBack
<1> DEFINE fast == EMA(s.fast, EmaFast, b.close)
           slow == EMA(s.slow, EmaSlow, b.close)
           atr  == ATR(s.atr, AtrPeriod, b)
           adx  == ADX(s.adx, AdxPeriod, b)
           rsi  == RSI(s.rsi, RsiPeriod, b)
           vwap == VWAP(s.vwap, b)
           rvol == RelativeVolume(s.rvol, RvolSamples, b)
<1>1. WithBar(s, b) = [fast |-> fast, slow |-> slow, atr |-> atr, adx |-> adx, rsi |-> rsi,
                       vwap |-> vwap, rvol |-> rvol, pulledBack |-> s.pulledBack,
                       trade |-> s.trade]
  <2> HIDE DEF fast, slow, atr, adx, rsi, vwap, rvol
  <2>1. WithBar(s, b) = [s EXCEPT !.fast = fast, !.slow = slow, !.atr = atr, !.adx = adx,
                                  !.rsi = rsi, !.vwap = vwap, !.rvol = rvol]
    BY DEF WithBar, fast, slow, atr, adx, rsi, vwap, rvol
  <2> QED
    BY <2>1 DEF StateCounted, IsState
<1>2. b.close \in Nat
  BY BarsAre
<1>3. Counted(fast, EmaFast, k + 1) /\ Counted(slow, EmaSlow, k + 1)
  BY <1>2, PeriodsAre, EMAIsCounted DEF StateCounted
<1>4. ATRCounted(atr, AtrPeriod, k + 1)
  BY PeriodsAre, ATRIsCounted DEF StateCounted
<1>5. ADXCounted(adx, AdxPeriod, k + 1)
  BY PeriodsAre, ADXIsCounted DEF StateCounted
<1> HIDE DEF fast, slow, atr, adx, rsi, vwap, rvol
<1> QED
  BY <1>1, <1>3, <1>4, <1>5 DEF StateCounted, IsState

(* What else the strategy changes of its state.                            *)
LEMMA TradeAside ==
    ASSUME NEW s, NEW k \in Nat, StateCounted(s, k), NEW x, NEW r,
           r = [s EXCEPT !.trade = x]
    PROVE  StateCounted(r, k) /\ r.pulledBack = s.pulledBack
<1>1. r = [fast |-> s.fast, slow |-> s.slow, atr |-> s.atr, adx |-> s.adx, rsi |-> s.rsi, vwap |-> s.vwap, rvol |-> s.rvol,
           pulledBack |-> s.pulledBack, trade |-> x]
  BY DEF StateCounted, IsState
<1> QED
  BY <1>1 DEF StateCounted, IsState

LEMMA PullbackAside ==
    ASSUME NEW s, NEW k \in Nat, StateCounted(s, k), NEW x, NEW r,
           r = [s EXCEPT !.pulledBack = x]
    PROVE  StateCounted(r, k) /\ r.pulledBack = x
<1>1. r = [fast |-> s.fast, slow |-> s.slow, atr |-> s.atr, adx |-> s.adx, rsi |-> s.rsi, vwap |-> s.vwap, rvol |-> s.rvol,
           pulledBack |-> x, trade |-> s.trade]
  BY DEF StateCounted, IsState
<1> QED
  BY <1>1 DEF StateCounted, IsState

LEMMA ResetIsCounted ==
    ASSUME NEW s, NEW k \in Nat, StateCounted(s, k)
    PROVE  /\ StateCounted(Reset(s), k)
           /\ Unpulled(Reset(s))
<1> DEFINE r == [s EXCEPT !.trade = NoTrade]
<1>1. StateCounted(r, k)
  BY TradeAside
<1>2. Reset(s) = [r EXCEPT !.pulledBack = FALSE]
  BY DEF Reset
<1> HIDE DEF r
<1>3. StateCounted(Reset(s), k) /\ Reset(s).pulledBack = FALSE
  BY <1>1, <1>2, PullbackAside
<1> QED
  BY <1>3, NotPulled

LEMMA TrailedIsCounted ==
    ASSUME NEW s, NEW k \in Nat, StateCounted(s, k), NEW p, NEW b
    PROVE  StateCounted(Trailed(s, p, b), k) /\ Trailed(s, p, b).pulledBack = s.pulledBack
<1> DEFINE r == Trailed(s, p, b)
<1>1. r = [s EXCEPT !.trade = r.trade]
  BY DEF Trailed, StateCounted, IsState
<1> HIDE DEF r
<1>2. StateCounted(r, k) /\ r.pulledBack = s.pulledBack
  BY <1>1, TradeAside
<1> QED
  BY <1>2 DEF r

LEMMA InitWarmInv == TrendInit => WarmInv
<1> SUFFICES ASSUME TrendInit PROVE WarmInv
  OBVIOUS
<1>1. tp = FreshState /\ warm = 0 /\ touches = 0 /\ spent = 0 /\ overlooked = FALSE
  BY DEF TrendInit
<1>2. StateCounted(tp, warm) /\ Unpulled(tp)
  BY <1>1, FreshIsCounted
<1>3. tp.pulledBack \in BOOLEAN /\ (tp.pulledBack => spent < touches \/ overlooked)
  BY <1>2, Zenon DEF Unpulled
<1>4. warm \in Nat /\ touches \in Nat /\ spent \in Nat /\ spent <= touches
  BY <1>1
<1>5. overlooked \in BOOLEAN
  BY <1>1, Zenon
<1> QED
  BY <1>2, <1>3, <1>4, <1>5, Zenon DEF WarmInv

LEMMA ReadyIsCounted ==
    ASSUME WarmInv, NEW b \in TpBars
    PROVE  /\ StateCounted(WithBar(tp, b), warm + 1) /\ StateCounted(Ready(b), warm + 1)
           /\ WithBar(tp, b).pulledBack = tp.pulledBack
           /\ Ready(b).pulledBack = tp.pulledBack
<1>1. StateCounted(WithBar(tp, b), warm + 1) /\ WithBar(tp, b).pulledBack = tp.pulledBack
  BY WithBarIsCounted DEF WarmInv
<1>2. warm + 1 \in Nat
  BY DEF WarmInv
<1>3. Ready(b) = [WithBar(tp, b) EXCEPT !.trade = NoTrade]
  BY DEF Ready
<1> QED
  BY <1>1, <1>2, <1>3, TradeAside

LEMMA ManagesWarmInv ==
    ASSUME WarmInv, NEW b \in TpBars, Manages(b)
    PROVE  WarmInv'
<1> DEFINE s == [WithBar(tp, b) EXCEPT !.trade.bars = @ + 1]
           p == holding[1]
           k == warm + 1
<1>1. k \in Nat /\ warm' = k
  BY DEF WarmInv, Manages, Sees
<1>2. StateCounted(s, k) /\ s.pulledBack = tp.pulledBack
  <2>1. StateCounted(WithBar(tp, b), k) /\ WithBar(tp, b).pulledBack = tp.pulledBack
    BY ReadyIsCounted
  <2>2. s = [WithBar(tp, b) EXCEPT !.trade = s.trade]
    BY <2>1 DEF StateCounted, IsState
  <2> HIDE DEF s, k
  <2> QED
    BY <1>1, <2>1, <2>2, TradeAside
<1>3. \/ tp' = Reset(s) /\ Spends(TRUE)
      \/ tp' = s /\ Overlooks(b)
      \/ tp' = Trailed(s, p, b) /\ Overlooks(b)
  BY DEF Manages
<1> HIDE DEF s, k, p
<1>4. CASE tp' = Reset(s) /\ Spends(TRUE)
  <2>1. StateCounted(tp', k) /\ Unpulled(tp')
    BY <1>1, <1>2, <1>4, ResetIsCounted
  <2> QED
    BY <1>1, <1>4, <2>1, RestsWarm
<1>5. CASE tp' = s /\ Overlooks(b)
  BY <1>1, <1>2, <1>5, OverlooksWarm DEF WarmInv
<1>6. CASE tp' = Trailed(s, p, b) /\ Overlooks(b)
  <2>1. StateCounted(tp', k) /\ tp'.pulledBack = tp.pulledBack
    BY <1>1, <1>2, <1>6, TrailedIsCounted
  <2> QED
    BY <1>1, <1>6, <2>1, OverlooksWarm DEF WarmInv
<1> QED
  BY <1>3, <1>4, <1>5, <1>6

LEMMA ConsidersWarmInv ==
    ASSUME WarmInv, NEW b \in TpBars, Considers(b)
    PROVE  /\ WarmInv'
           /\ signal' = "open" => warm' >= WarmupBars /\ (touches' > spent \/ overlooked)
<1> DEFINE r == Ready(b)
           t == Touches(r, b)
           s == [r EXCEPT !.pulledBack = @ \/ t]
           opens == s.pulledBack /\ Enters(s, b)
           k == warm + 1
<1>1. k \in Nat /\ warm' = k
  BY DEF WarmInv, Considers, Sees
<1>2. StateCounted(r, k) /\ r.pulledBack = tp.pulledBack
  BY ReadyIsCounted
<1>3. StateCounted(s, k) /\ s.pulledBack = (tp.pulledBack \/ t)
  <2> HIDE DEF r, t, k
  <2> DEFINE x == tp.pulledBack \/ t
  <2>1. s = [r EXCEPT !.pulledBack = x]
    BY <1>2
  <2> HIDE DEF s, x
  <2>2. StateCounted(s, k) /\ s.pulledBack = x
    BY <1>1, <1>2, <2>1, PullbackAside
  <2> QED
    BY <2>2 DEF x
<1>4. /\ signal' = IF opens THEN "open" ELSE "none"
      /\ tp' = [s EXCEPT !.pulledBack = PulledAfter(s, opens)]
      /\ touches' = touches + (IF Touches(s, b) THEN 1 ELSE 0)
      /\ spent' = IF opens THEN touches' ELSE spent
      /\ overlooked' = (overlooked /\ ~Touches(s, b) /\ ~opens)
      /\ BiasIsLong(r, b) /\ Atr(s) # None
  BY DEF Considers
<1>5. Touches(s, b) = t
  BY <1>2 DEF Touches, Fast, Atr, StateCounted, IsState
<1>6. Slow(s) = Slow(r) /\ Slow(r) # None
  BY <1>2, <1>4 DEF BiasIsLong, Slow, StateCounted, IsState
<1>7. opens => Adx(s) # None
  BY DEF Enters, RegimeOk
<1> HIDE DEF s, r, t, k
<1>8. t \in BOOLEAN
  BY DEF t, Touches
<1>9. Enters(s, b) \in BOOLEAN
  BY DEF Enters, RegimeOk
<1>10. opens \in BOOLEAN /\ (opens => s.pulledBack)
  BY <1>9
<1> HIDE DEF opens
<1>11. PulledAfter(s, opens) = (s.pulledBack /\ ~opens)
  BY DEF PulledAfter
<1>12. StateCounted(tp', k) /\ tp'.pulledBack = (s.pulledBack /\ ~opens)
  <2> DEFINE x == PulledAfter(s, opens)
  <2>1. tp' = [s EXCEPT !.pulledBack = x]
    BY <1>4
  <2> HIDE DEF x
  <2>2. StateCounted(tp', k) /\ tp'.pulledBack = x
    BY <1>1, <1>3, <2>1, PullbackAside
  <2> QED
    BY <1>11, <2>2 DEF x
<1>13. tp.pulledBack \in BOOLEAN /\ touches \in Nat /\ spent \in Nat /\ spent <= touches
       /\ overlooked \in BOOLEAN /\ (tp.pulledBack => spent < touches \/ overlooked)
  BY DEF WarmInv
<1>14. /\ touches' \in Nat /\ touches <= touches' /\ (t => touches' = touches + 1)
  BY <1>4, <1>5, <1>8, <1>13
<1>15. s.pulledBack => touches' > spent \/ overlooked
  BY <1>3, <1>8, <1>13, <1>14
<1>16. WarmInv'
  <2>1. spent' \in Nat /\ spent' <= touches' /\ overlooked' \in BOOLEAN
    BY <1>4, <1>5, <1>8, <1>10, <1>13, <1>14
  <2>2. tp'.pulledBack \in BOOLEAN
    BY <1>3, <1>8, <1>10, <1>12, <1>13
  <2>3. ASSUME tp'.pulledBack PROVE spent' < touches' \/ overlooked'
    <3>1. s.pulledBack /\ ~opens
      BY <1>3, <1>8, <1>10, <1>12, <1>13, <2>3
    <3>2. spent' = spent /\ overlooked' = (overlooked /\ ~t)
      BY <1>4, <1>5, <3>1
    <3>3. CASE t
      BY <1>13, <1>14, <3>2, <3>3
    <3>4. CASE ~t
      BY <1>15, <3>1, <3>2, <3>4
    <3> QED
      BY <3>3, <3>4
  <2> QED
    BY <1>1, <1>12, <1>14, <2>1, <2>2, <2>3 DEF WarmInv
<1>17. ASSUME opens PROVE warm' >= WarmupBars
  <2>1. EmaSlow <= k
    BY <1>3, <1>6 DEF Slow, StateCounted, Counted
  <2>2. AtrPeriod <= k
    BY <1>3, <1>4 DEF Atr, StateCounted, ATRCounted, Counted
  <2>3. AdxPeriod * 2 <= k
    <3>1. s.adx.mean.value # None
      BY <1>7, <1>17 DEF Adx
    <3>2. ADXCounted(s.adx, AdxPeriod, k)
      BY <1>3 DEF StateCounted
    <3>3. s.adx.total # <<>> /\ AdxPeriod < k /\ Counted(s.adx.mean, AdxPeriod, k - AdxPeriod)
      BY <3>1, <3>2 DEF ADXCounted, NoMean
    <3>4. AdxPeriod <= k - AdxPeriod
      BY <3>1, <3>3 DEF Counted
    <3> QED
      BY <1>1, <3>4, PeriodsAre
  <2>4. EmaSlow \in Int /\ AtrPeriod \in Int /\ AdxPeriod * 2 \in Int
    BY PeriodsAre
  <2>5. WarmupBars \in {EmaSlow, AtrPeriod, AdxPeriod * 2}
    BY <2>4, MaxOfThree, Zenon DEF WarmupBars
  <2> QED
    BY <1>1, <2>1, <2>2, <2>3, <2>4, <2>5
<1> QED
  BY <1>4, <1>10, <1>15, <1>16, <1>17

(* The bars that lead to no entry, and what is no bar.                     *)
LEMMA QuietWarmInv ==
    ASSUME WarmInv, NEW b \in TpBars, OutOfHours(b) \/ NoBias(b) \/ SeesSynthetic(b)
    PROVE  WarmInv' /\ signal' = "none"
<1>1. CASE OutOfHours(b)
  <2>1. warm' = warm + 1 /\ tp' = Ready(b) /\ Overlooks(b) /\ signal' = "none"
    BY <1>1 DEF OutOfHours, Sees
  <2>2. warm' \in Nat /\ StateCounted(tp', warm') /\ tp'.pulledBack = tp.pulledBack
    BY <2>1, ReadyIsCounted DEF WarmInv
  <2> QED
    BY <2>1, <2>2, OverlooksWarm DEF WarmInv
<1>2. CASE NoBias(b)
  <2>1. warm' = warm + 1 /\ tp' = Reset(Ready(b)) /\ Spends(TRUE) /\ signal' = "none"
    BY <1>2 DEF NoBias, Sees
  <2>2. StateCounted(Ready(b), warm + 1) /\ warm + 1 \in Nat
    BY ReadyIsCounted DEF WarmInv
  <2>3. StateCounted(Reset(Ready(b)), warm + 1) /\ Unpulled(Reset(Ready(b)))
    BY <2>2, ResetIsCounted
  <2> QED
    BY <2>1, <2>2, <2>3, RestsWarm
<1>3. CASE SeesSynthetic(b)
  BY <1>3 DEF SeesSynthetic, pullbacks, WarmInv
<1> QED
  BY <1>1, <1>2, <1>3

LEMMA WorldWarmInv ==
    ASSUME WarmInv, NewSession \/ TrendRestarts \/ \E p \in TpPositions : Mirror(p)
    PROVE  WarmInv' /\ signal' = "none"
<1>1. CASE NewSession
  <2>1. /\ tp' = [Reset(tp) EXCEPT !.vwap = NoVWAP, !.rvol = NoVolumes]
        /\ signal' = "none" /\ Spends(TRUE) /\ warm' = warm
    BY <1>1 DEF NewSession
  <2>2. StateCounted(Reset(tp), warm) /\ Unpulled(Reset(tp))
    BY ResetIsCounted DEF WarmInv
  <2>3. StateCounted(tp', warm) /\ Unpulled(tp')
    <3> DEFINE r == Reset(tp)
               x == NoVWAP
               y == NoVolumes
               q == tp'
               k == warm
    <3>1. k \in Nat
      BY DEF WarmInv
    <3>2. StateCounted(r, k) /\ Unpulled(r)
      BY <2>2
    <3>3. q = [r EXCEPT !.vwap = x, !.rvol = y]
      BY <2>1
    <3> HIDE DEF r, x, y, q, k
    <3>4. StateCounted(q, k) /\ q.pulledBack = r.pulledBack
      <4>1. q = [fast |-> r.fast, slow |-> r.slow, atr |-> r.atr, adx |-> r.adx,
                 rsi |-> r.rsi, vwap |-> x, rvol |-> y, pulledBack |-> r.pulledBack,
                 trade |-> r.trade]
        BY <3>2, <3>3 DEF StateCounted, IsState
      <4> QED
        BY <3>2, <4>1 DEF StateCounted, IsState
    <3>5. Unpulled(q)
      BY <3>2, <3>4, Zenon DEF Unpulled
    <3> QED
      BY <3>4, <3>5 DEF q, k
  <2>4. warm' \in Nat
    BY <2>1 DEF WarmInv
  <2> QED
    BY <2>1, <2>3, <2>4, RestsWarm
<1>2. CASE TrendRestarts
  <2>1. tp' = FreshState /\ signal' = "none" /\ warm' = 0 /\ Spends(TRUE)
    BY <1>2 DEF TrendRestarts
  <2>2. StateCounted(tp', warm') /\ Unpulled(tp') /\ warm' \in Nat
    BY <2>1, FreshIsCounted
  <2> QED
    BY <2>1, <2>2, RestsWarm
<1>3. CASE \E p \in TpPositions : Mirror(p)
  BY <1>3 DEF Mirror, pullbacks, WarmInv
<1> QED
  BY <1>1, <1>2, <1>3

LEMMA TrendWarmInv ==
    ASSUME WarmInv, bars \in Nat, [TrendNext]_trendVars
    PROVE  /\ WarmInv' /\ bars' \in Nat
           /\ signal' = "open" /\ bars' > bars
                => warm' >= WarmupBars /\ (touches' > spent \/ overlooked)
<1>1. CASE UNCHANGED trendVars
  <2>1. WarmInv'
    BY <1>1 DEF trendVars, pullbacks, WarmInv
  <2>2. signal' = signal /\ bars' = bars
    BY <1>1 DEF trendVars
  <2>3. ~ (bars > bars)
    OBVIOUS
  <2> QED
    BY <2>1, <2>2, <2>3
<1>2. ASSUME NEW b \in TpBars, Manages(b)
      PROVE  WarmInv' /\ signal' # "open"
  BY <1>2, ManagesWarmInv DEF Manages
<1>3. ASSUME NEW b \in TpBars, Considers(b)
      PROVE  /\ WarmInv'
             /\ signal' = "open" => warm' >= WarmupBars /\ (touches' > spent \/ overlooked)
  BY <1>3, ConsidersWarmInv
<1>4. ASSUME NEW b \in TpBars, OutOfHours(b) \/ NoBias(b) \/ SeesSynthetic(b)
      PROVE  WarmInv' /\ signal' # "open"
  BY <1>4, QuietWarmInv
<1>5. ASSUME NewSession \/ TrendRestarts \/ \E p \in TpPositions : Mirror(p)
      PROVE  WarmInv' /\ signal' # "open"
  BY <1>5, WorldWarmInv
<1>6. bars' \in Nat
  <2>1. bars' = bars \/ bars' = bars + 1
    BY Zenon DEF TrendNext, trendVars, Manages, OutOfHours, NoBias, Considers, SeesSynthetic,
                 Sees, NewSession, TrendRestarts, Mirror
  <2> QED
    BY <2>1
<1> QED
  BY <1>1, <1>2, <1>3, <1>4, <1>5, <1>6 DEF TrendNext

(* For any periods, thresholds and bars, restarts and sessions: a long     *)
(* entry is signalled only with warmup_bars bars seen by this process, and *)
(* on a pullback that came after the last signal, session and restart, and *)
(* after the last bar without the bias that the strategy judged.  One that *)
(* it did not judge, with a position held or out of hours, leaves an older *)
(* pullback standing, and there is no other way for one to be entered on.  *)
THEOREM EntriesAreWarm == TrendSpec => EntriesAreFreshAndWarm
<1> DEFINE Inv == WarmInv /\ bars \in Nat
<1>1. TrendInit => Inv
  BY InitWarmInv DEF TrendInit
<1>2. Inv /\ [TrendNext]_trendVars => Inv'
  BY TrendWarmInv
<1>3. Inv /\ [TrendNext]_trendVars =>
        [signal' = "open" /\ bars' > bars
           => warm' >= WarmupBars /\ (touches' > spent \/ overlooked)]_trendVars
  BY TrendWarmInv
<1> HIDE DEF Inv
<1> QED
  BY <1>1, <1>2, <1>3, PTL DEF TrendSpec, EntriesAreFreshAndWarm

----------------------------------------------------------------------------
(* Means stay among the values they are means of.                          *)

LEMMA Between ==
    ASSUME NEW y \in Int, NEW n \in Nat \ {0}, NEW lo \in Int, NEW hi \in Int,
           n * lo <= y, y <= n * hi
    PROVE  y \div n \in Int /\ lo <= y \div n /\ y \div n <= hi
<1> DEFINE q == y \div n
<1>1. y = n * q + (y % n) /\ y % n \in 0..(n - 1) /\ q \in Int
  OBVIOUS
<1>2. n * q <= y /\ y < n * q + n /\ q \in Int
  BY <1>1
<1> HIDE DEF q
<1>3. q >= lo
  <2> SUFFICES ASSUME q + 1 <= lo PROVE FALSE
    BY <1>2
  <2>1. n * (q + 1) <= n * lo /\ n * (q + 1) = n * q + n
    BY <1>2
  <2> QED
    BY <1>2, <2>1
<1>4. q <= hi
  <2> SUFFICES ASSUME q >= hi + 1 PROVE FALSE
    BY <1>2
  <2>1. n * q >= n * (hi + 1) /\ n * (hi + 1) = n * hi + n
    BY <1>2
  <2> QED
    BY <1>2, <2>1
<1> QED
  BY <1>2, <1>3, <1>4 DEF q

(* A mean and its seed lie within lo and hi, or have not begun.            *)
MeanIn(m, lo, hi) ==
    /\ m = [value |-> m.value, seed |-> m.seed]
    /\ m.seed \in Seq(Nat) /\ \A k \in 1..Len(m.seed) : lo <= m.seed[k] /\ m.seed[k] <= hi
    /\ m.value \in Nat \cup {None} /\ (m.value = None \/ (lo <= m.value /\ m.value <= hi))

LEMMA NoMeanIn ==
    ASSUME NEW lo, NEW hi
    PROVE  MeanIn(NoMean, lo, hi)
  BY DEF MeanIn, NoMean

LEMMA SeededIn ==
    ASSUME NEW m, NEW n \in Nat \ {0}, NEW x \in Nat, NEW lo \in Nat, NEW hi \in Nat,
           MeanIn(m, lo, hi), m.value = None, lo <= x, x <= hi
    PROVE  MeanIn(Seeded(m, n, x), lo, hi)
<1> DEFINE s == Append(m.seed, x)
           l == Len(s)
<1>1. /\ s \in Seq(Nat) /\ l \in Nat \ {0} /\ DOMAIN s = 1..l
      /\ \A k \in 1..l : s[k] \in Nat /\ lo <= s[k] /\ s[k] <= hi
  BY DEF MeanIn
<1> HIDE DEF s
<1>2. CASE l < n
  <2>1. Seeded(m, n, x) = [m EXCEPT !.seed = s]
    BY <1>2 DEF Seeded, s
  <2>2. [m EXCEPT !.seed = s] = [value |-> m.value, seed |-> s]
    BY DEF MeanIn
  <2> QED
    BY <1>1, <2>1, <2>2 DEF MeanIn
<1>3. CASE ~ (l < n)
  <2>1. Seeded(m, n, x) = [value |-> Mean(s), seed |-> <<>>]
    BY <1>3 DEF Seeded, s
  <2>2. /\ Total(s) \in Int /\ l * lo <= Total(s) /\ Total(s) <= l * hi
    <3> DEFINE D == 1..l
    <3>1. IsFiniteSet(D) /\ Cardinality(D) = l /\ DOMAIN s = D
      BY <1>1, FS_Interval
    <3>2. \A k \in D : s[k] \in Int /\ lo <= s[k] /\ s[k] <= hi
      BY <1>1
    <3>3. lo \in Int /\ hi \in Int
      OBVIOUS
    <3> HIDE DEF D
    <3>4. /\ SumFunctionOnSet(s, D) \in Int
          /\ Cardinality(D) * lo <= SumFunctionOnSet(s, D)
          /\ SumFunctionOnSet(s, D) <= Cardinality(D) * hi
      BY <3>1, <3>2, <3>3, SumWithin
    <3> QED
      BY <3>1, <3>4 DEF Total
  <2>3. Mean(s) \in Int /\ lo <= Mean(s) /\ Mean(s) <= hi
    <3> DEFINE t == Total(s)
    <3> HIDE DEF l, t
    <3>1. t \div l \in Int /\ lo <= t \div l /\ t \div l <= hi
      BY <1>1, <2>2, Between DEF t
    <3> QED
      BY <3>1 DEF Mean, l, t
  <2>4. <<>> \in Seq(Nat) /\ Len(<<>>) = 0
    OBVIOUS
  <2> QED
    BY <2>1, <2>3, <2>4 DEF MeanIn
<1> QED
  BY <1>2, <1>3

LEMMA WilderIn ==
    ASSUME NEW m, NEW n \in Nat \ {0}, NEW x \in Nat, NEW lo \in Nat, NEW hi \in Nat,
           MeanIn(m, lo, hi), lo <= x, x <= hi
    PROVE  MeanIn(Wilder(m, n, x), lo, hi)
<1>1. CASE m.value = None
  BY <1>1, SeededIn DEF Wilder
<1>2. CASE m.value # None
  <2> DEFINE v == m.value
             y == v * (n - 1) + x
             w == y \div n
  <2>1. v \in Nat /\ lo <= v /\ v <= hi
    BY <1>2 DEF MeanIn
  <2>2. Wilder(m, n, x) = [value |-> w, seed |-> m.seed]
    BY <1>2 DEF Wilder, MeanIn
  <2> HIDE DEF v
  <2>3. (n - 1) * lo <= v * (n - 1) /\ v * (n - 1) <= (n - 1) * hi /\ v * (n - 1) \in Int
    BY <2>1
  <2>4. n * lo = (n - 1) * lo + lo /\ n * hi = (n - 1) * hi + hi
    OBVIOUS
  <2>5. y \in Int /\ n * lo <= y /\ y <= n * hi
    BY <2>3, <2>4
  <2> HIDE DEF y
  <2>6. w \in Int /\ lo <= w /\ w <= hi
    BY <2>5, Between
  <2> HIDE DEF w
  <2> QED
    BY <2>2, <2>6 DEF MeanIn
<1> QED
  BY <1>1, <1>2

LEMMA EMAIn ==
    ASSUME NEW m, NEW n \in Nat \ {0}, NEW x \in Nat, NEW lo \in Nat, NEW hi \in Nat,
           MeanIn(m, lo, hi), lo <= x, x <= hi
    PROVE  MeanIn(EMA(m, n, x), lo, hi)
<1>1. CASE m.value = None
  BY <1>1, SeededIn DEF EMA
<1>2. CASE m.value # None
  <2> DEFINE v == m.value
             y == 2 * (x - v)
             d == y \div (n + 1)
             a == lo - v
             c == hi - v
  <2>1. v \in Nat /\ lo <= v /\ v <= hi
    BY <1>2 DEF MeanIn
  <2>2. EMA(m, n, x) = [value |-> v + d, seed |-> m.seed]
    BY <1>2 DEF EMA, MeanIn
  <2> HIDE DEF v
  <2>3. a \in Int /\ c \in Int /\ a <= 0 /\ c >= 0 /\ 2 * a <= y /\ y <= 2 * c /\ y \in Int
    BY <2>1
  <2> HIDE DEF a, c, y
  <2>4. (n + 1) * a = 2 * a + (n - 1) * a /\ (n + 1) * c = 2 * c + (n - 1) * c
    BY <2>3
  <2>5. (n - 1) * a <= 0 /\ (n - 1) * c >= 0 /\ (n - 1) * a \in Int /\ (n - 1) * c \in Int
    BY <2>3
  <2>6. (n + 1) * a <= y /\ y <= (n + 1) * c /\ n + 1 \in Nat \ {0}
    BY <2>3, <2>4, <2>5
  <2>7. d \in Int /\ a <= d /\ d <= c
    BY <2>3, <2>6, Between
  <2> HIDE DEF d
  <2>8. v + d \in Nat /\ lo <= v + d /\ v + d <= hi
    BY <2>1, <2>7 DEF a, c
  <2> QED
    BY <2>2, <2>8 DEF MeanIn
<1> QED
  BY <1>1, <1>2

(* Two limits: none yet, or in order.                                      *)
Limits(lo, hi) == (lo = None /\ hi = None) \/ (lo \in Nat /\ hi \in Nat /\ lo <= hi)

LEMMA MeanInWider ==
    ASSUME NEW m, NEW lo, NEW hi, NEW l \in Nat, NEW h \in Nat, MeanIn(m, lo, hi), Limits(lo, hi),
           lo = None \/ l <= lo, h >= hi
    PROVE  MeanIn(m, l, h)
<1>1. CASE lo = None /\ hi = None
  <2>1. m.value = None
    BY <1>1 DEF MeanIn, None
  <2>2. \A k \in 1..Len(m.seed) : FALSE
    BY <1>1 DEF MeanIn, None
  <2> QED
    BY <2>1, <2>2 DEF MeanIn
<1>2. CASE lo \in Nat /\ hi \in Nat
  BY <1>2 DEF MeanIn, None
<1> QED
  BY <1>1, <1>2 DEF Limits

(* The running VWAP of prices within lo and hi.                            *)
VWAPIn(v, lo, hi) ==
    /\ v = [notional |-> v.notional, volume |-> v.volume, sum |-> v.sum, count |-> v.count]
    /\ v.notional \in Nat /\ v.volume \in Nat /\ v.sum \in Nat /\ v.count \in Nat
    /\ v.volume * lo <= v.notional /\ v.notional <= v.volume * hi
    /\ v.count * lo <= v.sum /\ v.sum <= v.count * hi

LEMMA NoVWAPIn ==
    ASSUME NEW lo \in Int, NEW hi \in Int
    PROVE  VWAPIn(NoVWAP, lo, hi)
  BY DEF VWAPIn, NoVWAP

LEMMA Stretched ==
    ASSUME NEW k \in Nat, NEW s \in Nat, NEW lo \in Int, NEW hi \in Int,
           NEW l \in Int, NEW h \in Int, l <= lo \/ k = 0, h >= hi \/ k = 0,
           k * lo <= s, s <= k * hi
    PROVE  k * l <= s /\ s <= k * h
<1>1. CASE k = 0
  BY <1>1
<1>2. CASE k # 0
  <2>1. k * l <= k * lo /\ k * h >= k * hi /\ k * lo \in Int /\ k * hi \in Int
        /\ k * l \in Int /\ k * h \in Int
    BY <1>2
  <2> QED
    BY <2>1
<1> QED
  BY <1>1, <1>2

LEMMA VWAPInWider ==
    ASSUME NEW v, NEW lo, NEW hi, NEW l \in Nat, NEW h \in Nat, VWAPIn(v, lo, hi), Limits(lo, hi),
           lo = None \/ l <= lo, h >= hi
    PROVE  VWAPIn(v, l, h)
<1>1. lo \in Int /\ hi \in Int
  BY DEF Limits, None
<1>2. /\ v.notional \in Nat /\ v.volume \in Nat /\ v.sum \in Nat /\ v.count \in Nat
      /\ v.volume * lo <= v.notional /\ v.notional <= v.volume * hi
      /\ v.count * lo <= v.sum /\ v.sum <= v.count * hi
  BY DEF VWAPIn
<1>3. (l <= lo /\ h >= hi) \/ (v.volume = 0 /\ v.count = 0)
  BY <1>1, <1>2 DEF Limits, None
<1>4. v.volume * l <= v.notional /\ v.notional <= v.volume * h
  BY <1>1, <1>2, <1>3, Stretched
<1>5. v.count * l <= v.sum /\ v.sum <= v.count * h
  BY <1>1, <1>2, <1>3, Stretched
<1> QED
  BY <1>4, <1>5 DEF VWAPIn

(* The price VWAP takes for a bar is one of the bar's range.               *)
PriceOf(b) == IF b.vwap > 0 THEN b.vwap ELSE (b.high + b.low + b.close) \div 3

LEMMA PriceIs ==
    ASSUME NEW b \in TpBars
    PROVE  PriceOf(b) \in Nat /\ b.low <= PriceOf(b) /\ PriceOf(b) <= b.high
<1>1. CASE b.vwap > 0
  BY <1>1, BarsAre DEF PriceOf
<1>2. CASE ~ (b.vwap > 0)
  <2> DEFINE y == b.high + b.low + b.close
             lo == b.low
             hi == b.high
  <2>1. y \in Int /\ lo \in Nat /\ hi \in Nat /\ 3 * lo <= y /\ y <= 3 * hi
    BY BarsAre
  <2>2. PriceOf(b) = y \div 3
    BY <1>2 DEF PriceOf
  <2> HIDE DEF y, lo, hi
  <2>3. lo \in Int /\ hi \in Int /\ 3 \in Nat \ {0}
    BY <2>1
  <2>4. y \div 3 \in Int /\ lo <= y \div 3 /\ y \div 3 <= hi
    BY <2>1, <2>3, Between
  <2>5. y \div 3 \in Nat
    BY <2>1, <2>4
  <2> QED
    BY <2>2, <2>4, <2>5 DEF lo, hi
<1> QED
  BY <1>1, <1>2

LEMMA OneMore ==
    ASSUME NEW k \in Nat, NEW s \in Nat, NEW lo \in Nat, NEW hi \in Nat, NEW j \in Nat, NEW x \in Nat,
           k * lo <= s, s <= k * hi, lo <= x, x <= hi
    PROVE  /\ (k + j) * lo <= s + x * j /\ s + x * j <= (k + j) * hi
           /\ s + x * j \in Nat /\ k + j \in Nat
<1>1. j * lo <= j * x /\ j * x <= j * hi /\ j * x = x * j /\ j * x \in Nat
      /\ j * lo \in Nat /\ j * hi \in Nat
  OBVIOUS
<1>2. (k + j) * lo = k * lo + j * lo /\ (k + j) * hi = k * hi + j * hi
      /\ k * lo \in Nat /\ k * hi \in Nat
  OBVIOUS
<1> QED
  BY <1>1, <1>2

LEMMA VWAPWithBar ==
    ASSUME NEW v, NEW lo \in Nat, NEW hi \in Nat, NEW b \in TpBars, VWAPIn(v, lo, hi),
           ~ b.synthetic, lo <= b.low, b.high <= hi
    PROVE  VWAPIn(VWAP(v, b), lo, hi)
<1> DEFINE x == PriceOf(b)
           j == b.volume
<1>1. x \in Nat /\ lo <= x /\ x <= hi /\ j \in Nat
  BY PriceIs, BarsAre
<1>2. CASE b.volume > 0
  <2>1. VWAP(v, b) = [notional |-> v.notional + x * j, volume |-> v.volume + j,
                      sum |-> v.sum, count |-> v.count]
    BY <1>2 DEF VWAP, VWAPIn, PriceOf
  <2> HIDE DEF x, j
  <2>2. /\ v.notional + x * j \in Nat /\ v.volume + j \in Nat
        /\ (v.volume + j) * lo <= v.notional + x * j
        /\ v.notional + x * j <= (v.volume + j) * hi
    BY <1>1, OneMore DEF VWAPIn
  <2> DEFINE n == v.notional + x * j
             k == v.volume + j
  <2> HIDE DEF n, k
  <2>3. VWAP(v, b) = [notional |-> n, volume |-> k, sum |-> v.sum, count |-> v.count]
    BY <2>1 DEF n, k
  <2>4. n \in Nat /\ k \in Nat /\ k * lo <= n /\ n <= k * hi
    BY <2>2 DEF n, k
  <2> QED
    BY <2>3, <2>4 DEF VWAPIn
<1>3. CASE ~ (b.volume > 0)
  <2>1. VWAP(v, b) = [notional |-> v.notional, volume |-> v.volume,
                      sum |-> v.sum + x, count |-> v.count + 1]
    BY <1>3 DEF VWAP, VWAPIn, PriceOf
  <2> HIDE DEF x, j
  <2>2. /\ v.sum + x * 1 \in Nat /\ v.count + 1 \in Nat
        /\ (v.count + 1) * lo <= v.sum + x * 1
        /\ v.sum + x * 1 <= (v.count + 1) * hi
    BY <1>1, OneMore DEF VWAPIn
  <2> DEFINE n == v.sum + x
             k == v.count + 1
  <2> HIDE DEF n, k
  <2>3. VWAP(v, b) = [notional |-> v.notional, volume |-> v.volume, sum |-> n, count |-> k]
    BY <2>1 DEF n, k
  <2>4. x * 1 = x
    BY <1>1
  <2>5. n \in Nat /\ k \in Nat /\ k * lo <= n /\ n <= k * hi
    BY <2>2, <2>4 DEF n, k
  <2> QED
    BY <2>3, <2>5 DEF VWAPIn
<1> QED
  BY <1>2, <1>3

LEMMA VWAPIsWithin ==
    ASSUME NEW v, NEW lo, NEW hi, VWAPIn(v, lo, hi), Limits(lo, hi)
    PROVE  VWAPValue(v) = None \/ (lo <= VWAPValue(v) /\ VWAPValue(v) <= hi)
<1>1. lo \in Int /\ hi \in Int
  BY DEF Limits, None
<1>2. /\ v.notional \in Nat /\ v.volume \in Nat /\ v.sum \in Nat /\ v.count \in Nat
      /\ v.volume * lo <= v.notional /\ v.notional <= v.volume * hi
      /\ v.count * lo <= v.sum /\ v.sum <= v.count * hi
  BY DEF VWAPIn
<1>3. CASE v.volume > 0
  <2>1. lo <= v.notional \div v.volume /\ v.notional \div v.volume <= hi
    BY <1>1, <1>2, <1>3, Between
  <2>2. VWAPValue(v) = v.notional \div v.volume
    BY <1>3 DEF VWAPValue
  <2> QED
    BY <2>1, <2>2
<1>4. CASE v.volume = 0 /\ v.count > 0
  <2>1. lo <= v.sum \div v.count /\ v.sum \div v.count <= hi
    BY <1>1, <1>2, <1>4, Between
  <2>2. VWAPValue(v) = v.sum \div v.count
    BY <1>4 DEF VWAPValue
  <2> QED
    BY <2>1, <2>2
<1>5. CASE v.volume = 0 /\ ~ (v.count > 0)
  BY <1>5 DEF VWAPValue
<1> QED
  BY <1>2, <1>3, <1>4, <1>5

(* RSI: gains and losses that warm up in step.                             *)
RSIInStep(r) ==
    /\ r = [gain |-> r.gain, loss |-> r.loss, close |-> r.close]
    /\ r.close \in Nat \cup {None}
    /\ \A m \in {r.gain, r.loss} : /\ m = [value |-> m.value, seed |-> m.seed]
                                   /\ m.seed \in Seq(Nat) /\ m.value \in Nat \cup {None}
    /\ Len(r.gain.seed) = Len(r.loss.seed)
    /\ r.gain.value = None <=> r.loss.value = None

LEMMA WilderIsNat ==
    ASSUME NEW m, NEW n \in Nat \ {0}, NEW x \in Nat, m = [value |-> m.value, seed |-> m.seed],
           m.seed \in Seq(Nat), m.value \in Nat \cup {None}
    PROVE  LET w == Wilder(m, n, x)
           IN  /\ w = [value |-> w.value, seed |-> w.seed]
               /\ w.seed \in Seq(Nat) /\ w.value \in Nat \cup {None}
               /\ Len(w.seed) = IF m.value = None
                                THEN IF Len(m.seed) + 1 < n THEN Len(m.seed) + 1 ELSE 0
                                ELSE Len(m.seed)
               /\ w.value = None <=> m.value = None /\ Len(m.seed) + 1 < n
<1> DEFINE w == Wilder(m, n, x)
           s == Append(m.seed, x)
           l == Len(s)
<1>1. /\ s \in Seq(Nat) /\ l \in Nat \ {0} /\ DOMAIN s = 1..l /\ l = Len(m.seed) + 1
      /\ \A k \in 1..l : s[k] \in Nat
  OBVIOUS
<1>2. CASE m.value = None /\ l < n
  <2>1. w = [m EXCEPT !.seed = s]
    BY <1>2 DEF Wilder, Seeded
  <2> HIDE DEF s, w
  <2>2. w = [value |-> m.value, seed |-> s]
    BY <2>1
  <2>3. w.value = None /\ w.seed = s
    BY <1>2, <2>2
  <2> QED
    BY <1>1, <1>2, <2>2, <2>3 DEF w
<1>3. CASE m.value = None /\ ~ (l < n)
  <2>1. w = [value |-> Mean(s), seed |-> <<>>]
    BY <1>3 DEF Wilder, Seeded
  <2>2. Total(s) \in Nat
    BY <1>1, TotalIs
  <2>3. Mean(s) \in Nat
    <3> DEFINE t == Total(s)
    <3> HIDE DEF l, t
    <3>1. t \div l \in Nat
      BY <1>1, <2>2, Part DEF t
    <3> QED
      BY <3>1 DEF Mean, t, l
  <2>4. <<>> \in Seq(Nat) /\ Len(<<>>) = 0
    OBVIOUS
  <2> HIDE DEF s, w
  <2>5. w.value = Mean(s) /\ w.seed = <<>> /\ w.value # None
    BY <2>1, <2>3 DEF None
  <2> QED
    BY <1>1, <1>3, <2>1, <2>3, <2>4, <2>5 DEF w
<1>4. CASE m.value # None
  <2> DEFINE v == m.value
             y == v * (n - 1) + x
  <2>1. v \in Nat
    BY <1>4
  <2>2. w = [value |-> y \div n, seed |-> m.seed]
    BY <1>4 DEF Wilder
  <2> HIDE DEF v
  <2>3. v * (n - 1) \in Nat
    <3>1. n - 1 \in Nat /\ \A i, j \in Nat : i * j \in Nat
      OBVIOUS
    <3> QED
      BY <2>1, <3>1
  <2>4. y \in Nat
    BY <2>3
  <2> HIDE DEF y
  <2> DEFINE z == y \div n
  <2>5. z \in Nat
    BY <2>4, Part
  <2> HIDE DEF s, w, z
  <2>6. w.value = z /\ w.seed = m.seed /\ w.value # None /\ w = [value |-> w.value, seed |-> w.seed]
    BY <2>2, <2>5 DEF None, z
  <2> QED
    BY <1>4, <2>5, <2>6 DEF w
<1> QED
  BY <1>2, <1>3, <1>4

LEMMA RSIStays ==
    ASSUME NEW r, NEW n \in Nat \ {0}, NEW b \in TpBars, RSIInStep(r)
    PROVE  RSIInStep(RSI(r, n, b))
<1>1. CASE r.close = None
  <2>1. RSI(r, n, b) = [gain |-> r.gain, loss |-> r.loss, close |-> b.close]
    BY <1>1 DEF RSI, RSIInStep
  <2>2. b.close \in Nat
    BY BarsAre
  <2> QED
    BY <2>1, <2>2 DEF RSIInStep
<1>2. CASE r.close # None
  <2> DEFINE up == Larger(b.close - r.close, 0)
             down == Larger(-(b.close - r.close), 0)
             g == Wilder(r.gain, n, up)
             l == Wilder(r.loss, n, down)
  <2>1. b.close \in Nat /\ r.close \in Nat
    BY <1>2, BarsAre DEF RSIInStep
  <2>2. up \in Nat /\ down \in Nat
    BY <2>1 DEF Larger
  <2>3. RSI(r, n, b) = [gain |-> g, loss |-> l, close |-> b.close]
    BY <1>2 DEF RSI
  <2> HIDE DEF up, down
  <2>4. /\ r.gain = [value |-> r.gain.value, seed |-> r.gain.seed]
        /\ r.gain.seed \in Seq(Nat) /\ r.gain.value \in Nat \cup {None}
        /\ r.loss = [value |-> r.loss.value, seed |-> r.loss.seed]
        /\ r.loss.seed \in Seq(Nat) /\ r.loss.value \in Nat \cup {None}
        /\ Len(r.gain.seed) = Len(r.loss.seed)
        /\ r.gain.value = None <=> r.loss.value = None
    BY DEF RSIInStep
  <2>5. /\ g = [value |-> g.value, seed |-> g.seed]
        /\ g.seed \in Seq(Nat) /\ g.value \in Nat \cup {None}
        /\ Len(g.seed) = IF r.gain.value = None
                         THEN IF Len(r.gain.seed) + 1 < n THEN Len(r.gain.seed) + 1 ELSE 0
                         ELSE Len(r.gain.seed)
        /\ g.value = None <=> r.gain.value = None /\ Len(r.gain.seed) + 1 < n
    BY <2>2, <2>4, WilderIsNat
  <2>6. /\ l = [value |-> l.value, seed |-> l.seed]
        /\ l.seed \in Seq(Nat) /\ l.value \in Nat \cup {None}
        /\ Len(l.seed) = IF r.loss.value = None
                         THEN IF Len(r.loss.seed) + 1 < n THEN Len(r.loss.seed) + 1 ELSE 0
                         ELSE Len(r.loss.seed)
        /\ l.value = None <=> r.loss.value = None /\ Len(r.loss.seed) + 1 < n
    BY <2>2, <2>4, WilderIsNat
  <2> HIDE DEF g, l
  <2>7. Len(g.seed) = Len(l.seed) /\ (g.value = None <=> l.value = None)
    BY <2>4, <2>5, <2>6
  <2> QED
    BY <2>1, <2>3, <2>5, <2>6, <2>7 DEF RSIInStep
<1> QED
  BY <1>1, <1>2

LEMMA RSIIsPercent ==
    ASSUME NEW r, RSIInStep(r)
    PROVE  RSIValue(r) = None \/ RSIValue(r) \in 0..100
<1> DEFINE g == r.gain.value
           l == r.loss.value
<1>1. g \in Nat \cup {None} /\ l \in Nat \cup {None} /\ (g = None <=> l = None)
  BY DEF RSIInStep
<1>2. CASE g = None
  BY <1>2 DEF RSIValue
<1>3. CASE g # None /\ l = 0
  BY <1>3 DEF RSIValue
<1>4. CASE g # None /\ l # 0
  <2>1. RSIValue(r) = (100 * g) \div (g + l)
    BY <1>4 DEF RSIValue
  <2>2. g \in Nat /\ g + l \in Nat \ {0} /\ g <= g + l
    BY <1>1, <1>4
  <2> HIDE DEF g, l
  <2> QED
    BY <2>1, <2>2, Percent
<1> QED
  BY <1>2, <1>3, <1>4

(* The mean of DX: DX is a percentage.                                     *)
LEMMA ADXIn ==
    ASSUME NEW a, NEW n \in Nat \ {0}, NEW k \in Nat, NEW b \in TpBars, ADXCounted(a, n, k),
           MeanIn(a.mean, 0, 100)
    PROVE  MeanIn(ADX(a, n, b).mean, 0, 100)
<1>0. ASSUME NEW t \in Moves PROVE MeanIn(MeanWith(a.mean, n, DX(t)), 0, 100)
  <2>1. CASE DX(t) = None
    BY <2>1 DEF MeanWith
  <2>2. CASE DX(t) # None
    <3>1. DX(t) \in Nat /\ 0 <= DX(t) /\ DX(t) <= 100
      BY <2>2, DXIs
    <3>2. MeanIn(Wilder(a.mean, n, DX(t)), 0, 100)
      BY <3>1, WilderIn
    <3> QED
      BY <2>2, <3>2 DEF MeanWith
  <2> QED
    BY <2>1, <2>2
<1>1. CASE a.last = <<>>
  <2>1. ADX(a, n, b).mean = a.mean
    BY <1>1 DEF ADX, ADXCounted
  <2> QED
    BY <2>1
<1>2. CASE a.last # <<>>
  <2> DEFINE m == Movement(a, b)
             s == Append(a.seed, m)
  <2>1. m \in Moves
    BY <1>2, MovementIs DEF ADXCounted
  <2>2. s \in Seq(Moves)
    BY <1>2, <2>1 DEF ADXCounted
  <2>3. \A x : <<x>> # <<>>
    OBVIOUS
  <2> HIDE DEF m, s
  <2>4. CASE a.total # <<>>
    <3>1. PICK t \in Moves : a.total = <<t>>
      BY <2>4 DEF ADXCounted
    <3> DEFINE u == AddMovements(Decay(t, n), m)
    <3>2. u \in Moves
      BY <2>1, DecayIs DEF AddMovements, Moves
    <3>3. ADX(a, n, b).mean = MeanWith(a.mean, n, DX(u))
      BY <1>2, <2>3, <2>4, <3>1 DEF ADX, MeanWith, m
    <3> HIDE DEF u
    <3> QED
      BY <1>0, <3>2, <3>3
  <2>5. CASE a.total = <<>> /\ Len(s) < n
    <3>1. ADX(a, n, b).mean = a.mean
      BY <1>2, <2>5 DEF ADX, m, s
    <3> QED
      BY <3>1
  <2>6. CASE a.total = <<>> /\ ~ (Len(s) < n)
    <3> DEFINE u == TotalMovement(s)
    <3>1. u \in Moves
      BY <2>2, TotalMovementIs
    <3>2. ADX(a, n, b).mean = MeanWith(a.mean, n, DX(u))
      BY <1>2, <2>3, <2>6 DEF ADX, MeanWith, m, s
    <3> HIDE DEF u
    <3> QED
      BY <1>0, <3>1, <3>2
  <2> QED
    BY <2>4, <2>5, <2>6
<1> QED
  BY <1>1, <1>2

----------------------------------------------------------------------------
(* TrendPullback: the readings of a state, within the span of the bars.    *)

IsSpan(r) ==
    /\ r = [low |-> r.low, high |-> r.high, dayLow |-> r.dayLow, dayHigh |-> r.dayHigh]
    /\ Limits(r.low, r.high) /\ Limits(r.dayLow, r.dayHigh)

Reads(s, r) ==
    /\ MeanIn(s.fast, r.low, r.high) /\ MeanIn(s.slow, r.low, r.high)
    /\ MeanIn(s.adx.mean, 0, 100) /\ RSIInStep(s.rsi)
    /\ VWAPIn(s.vwap, r.dayLow, r.dayHigh)

ReadInv == WarmInv /\ IsSpan(span) /\ Reads(tp, span)

(* The same indicators, as far as they are read.                           *)
Same(r, s) ==
    /\ IsState(r)
    /\ r.fast = s.fast /\ r.slow = s.slow /\ r.adx = s.adx /\ r.rsi = s.rsi /\ r.vwap = s.vwap

LEMMA TradeSame ==
    ASSUME NEW s, IsState(s), NEW x, NEW r, r = [s EXCEPT !.trade = x]
    PROVE  Same(r, s)
<1>1. r = [fast |-> s.fast, slow |-> s.slow, atr |-> s.atr, adx |-> s.adx, rsi |-> s.rsi, vwap |-> s.vwap, rvol |-> s.rvol,
           pulledBack |-> s.pulledBack, trade |-> x]
  BY DEF IsState
<1> QED
  BY <1>1 DEF Same, IsState

LEMMA PulledSame ==
    ASSUME NEW s, IsState(s), NEW x, NEW r, r = [s EXCEPT !.pulledBack = x]
    PROVE  Same(r, s)
<1>1. r = [fast |-> s.fast, slow |-> s.slow, atr |-> s.atr, adx |-> s.adx, rsi |-> s.rsi, vwap |-> s.vwap, rvol |-> s.rvol,
           pulledBack |-> x, trade |-> s.trade]
  BY DEF IsState
<1> QED
  BY <1>1 DEF Same, IsState

LEMMA SameSame ==
    ASSUME NEW r, NEW s, NEW t, Same(r, s), Same(s, t)
    PROVE  Same(r, t)
  BY DEF Same

LEMMA SameReads ==
    ASSUME NEW r, NEW s, NEW p, Same(r, s), Reads(s, p)
    PROVE  Reads(r, p)
  BY DEF Same, Reads

LEMMA ResetSame ==
    ASSUME NEW s, IsState(s)
    PROVE  Same(Reset(s), s)
<1> DEFINE r == [s EXCEPT !.trade = NoTrade]
           q == Reset(s)
<1>1. Same(r, s)
  BY TradeSame
<1>2. q = [r EXCEPT !.pulledBack = FALSE]
  BY DEF Reset
<1> HIDE DEF r, q
<1>3. Same(q, r)
  BY <1>1, <1>2, PulledSame DEF Same
<1> QED
  BY <1>1, <1>3, SameSame DEF q

(* A bar read moves the means among what the span now takes in.            *)
LEMMA WithBarReads ==
    ASSUME NEW s, NEW p, NEW k \in Nat, NEW b \in TpBars, StateCounted(s, k), IsSpan(p), Reads(s, p),
           ~ b.synthetic
    PROVE  IsSpan(Widened(p, b)) /\ Reads(WithBar(s, b), Widened(p, b))
<1> DEFINE q == Widened(p, b)
           lo == q.low
           hi == q.high
           dlo == q.dayLow
           dhi == q.dayHigh
<1>1. b.close \in Nat /\ b.low \in Nat /\ b.high \in Nat /\ b.low <= b.high
  BY BarsAre
<1>2. /\ lo = (IF p.low = None \/ b.close < p.low THEN b.close ELSE p.low)
      /\ hi = (IF p.high = None \/ b.close > p.high THEN b.close ELSE p.high)
      /\ dlo = (IF p.dayLow = None \/ b.low < p.dayLow THEN b.low ELSE p.dayLow)
      /\ dhi = (IF p.dayHigh = None \/ b.high > p.dayHigh THEN b.high ELSE p.dayHigh)
      /\ q = [low |-> q.low, high |-> q.high, dayLow |-> q.dayLow, dayHigh |-> q.dayHigh]
  BY DEF Widened
<1> HIDE DEF q
<1>3. /\ lo \in Nat /\ hi \in Nat /\ lo <= b.close /\ b.close <= hi
      /\ p.low = None \/ lo <= p.low
      /\ hi >= p.high
  BY <1>1, <1>2 DEF IsSpan, Limits, None
<1>4. /\ dlo \in Nat /\ dhi \in Nat /\ dlo <= b.low /\ b.high <= dhi
      /\ p.dayLow = None \/ dlo <= p.dayLow
      /\ dhi >= p.dayHigh
  BY <1>1, <1>2 DEF IsSpan, Limits, None
<1>5. IsSpan(q)
  BY <1>1, <1>2, <1>3, <1>4 DEF IsSpan, Limits
<1> HIDE DEF lo, hi, dlo, dhi
<1> DEFINE t == WithBar(s, b)
<1>6. /\ t.fast = EMA(s.fast, EmaFast, b.close) /\ t.slow = EMA(s.slow, EmaSlow, b.close)
      /\ t.adx = ADX(s.adx, AdxPeriod, b) /\ t.rsi = RSI(s.rsi, RsiPeriod, b)
      /\ t.vwap = VWAP(s.vwap, b)
  BY DEF WithBar, StateCounted, IsState
<1> HIDE DEF t
<1>7. MeanIn(t.fast, lo, hi)
  <2>1. MeanIn(s.fast, lo, hi)
    BY <1>3, MeanInWider DEF IsSpan, Reads
  <2> QED
    BY <1>1, <1>3, <1>6, <2>1, PeriodsAre, EMAIn
<1>8. MeanIn(t.slow, lo, hi)
  <2>1. MeanIn(s.slow, lo, hi)
    BY <1>3, MeanInWider DEF IsSpan, Reads
  <2> QED
    BY <1>1, <1>3, <1>6, <2>1, PeriodsAre, EMAIn
<1>9. MeanIn(t.adx.mean, 0, 100)
  BY <1>6, PeriodsAre, ADXIn DEF Reads, StateCounted
<1>10. RSIInStep(t.rsi)
  BY <1>6, PeriodsAre, RSIStays DEF Reads
<1>11. VWAPIn(t.vwap, dlo, dhi)
  <2>1. VWAPIn(s.vwap, dlo, dhi)
    BY <1>4, VWAPInWider DEF IsSpan, Reads
  <2> QED
    BY <1>4, <1>6, <2>1, VWAPWithBar
<1>12. Reads(t, q)
  BY <1>7, <1>8, <1>9, <1>10, <1>11 DEF Reads, lo, hi, dlo, dhi
<1> QED
  BY <1>5, <1>12 DEF q, t

(* What an action does with the state is nothing to its readings.          *)
LEMMA BarSame ==
    ASSUME WarmInv, NEW b \in TpBars,
           Manages(b) \/ OutOfHours(b) \/ NoBias(b) \/ Considers(b)
    PROVE  Same(tp', WithBar(tp, b)) /\ span' = Widened(span, b) /\ ~ b.synthetic
<1> DEFINE w == WithBar(tp, b)
           r == Ready(b)
<1>0. IsState(w) /\ warm + 1 \in Nat
  BY WithBarIsCounted DEF WarmInv, StateCounted
<1>1. r = [w EXCEPT !.trade = NoTrade]
  BY DEF Ready
<1>2. span' = Widened(span, b) /\ ~ b.synthetic
  BY DEF Manages, OutOfHours, NoBias, Considers, Sees
<1>3. CASE Manages(b)
  <2> DEFINE s == [w EXCEPT !.trade.bars = @ + 1]
             u == Trailed(s, holding[1], b)
             z == Reset(s)
  <2>1. tp' = z \/ tp' = s \/ tp' = u
    BY <1>3 DEF Manages
  <2>2. s = [w EXCEPT !.trade = s.trade]
    BY <1>0 DEF IsState
  <2> HIDE DEF s, w
  <2>3. Same(s, w)
    BY <1>0, <2>2, TradeSame
  <2>4. Same(z, s)
    BY <2>3, ResetSame DEF Same
  <2>5. u = [s EXCEPT !.trade = u.trade]
    BY <2>3 DEF Trailed, Same, IsState
  <2> HIDE DEF u, z
  <2>6. Same(u, s)
    BY <2>3, <2>5, TradeSame DEF Same
  <2>7. Same(z, w) /\ Same(u, w)
    BY <2>3, <2>4, <2>6, SameSame
  <2>8. Same(tp', w)
    BY <2>1, <2>3, <2>7
  <2> QED
    BY <1>2, <2>8 DEF w
<1> HIDE DEF w, r
<1>4. Same(r, w)
  BY <1>0, <1>1, TradeSame
<1>5. CASE OutOfHours(b)
  <2>1. tp' = r
    BY <1>5 DEF OutOfHours, r
  <2> QED
    BY <1>2, <1>4, <2>1 DEF w
<1>6. CASE NoBias(b)
  <2>1. tp' = Reset(r)
    BY <1>6 DEF NoBias, r
  <2>2. Same(Reset(r), r)
    BY <1>4, ResetSame DEF Same
  <2>3. Same(Reset(r), w)
    BY <1>4, <2>2, SameSame
  <2> QED
    BY <1>2, <2>1, <2>3 DEF w
<1>7. CASE Considers(b)
  <2> DEFINE s == [r EXCEPT !.pulledBack = @ \/ Touches(r, b)]
             x == s.pulledBack
             y == PulledAfter(s, s.pulledBack /\ Enters(s, b))
             z == [s EXCEPT !.pulledBack = y]
  <2>1. tp' = z
    BY <1>7 DEF Considers, r
  <2>2. s = [r EXCEPT !.pulledBack = x]
    BY <1>4 DEF Same, IsState
  <2> HIDE DEF s, x, y
  <2>3. Same(s, r)
    BY <1>4, <2>2, PulledSame DEF Same
  <2> HIDE DEF z
  <2>4. z = [s EXCEPT !.pulledBack = y]
    BY DEF z
  <2>5. Same(z, s)
    BY <2>3, <2>4, PulledSame DEF Same
  <2>6. Same(z, w)
    BY <1>4, <2>3, <2>5, SameSame
  <2> QED
    BY <1>2, <2>1, <2>6 DEF w
<1> QED
  BY <1>3, <1>5, <1>6, <1>7

LEMMA FreshReads ==
    IsSpan(NoSpan) /\ Reads(FreshState, NoSpan)
<1>1. IsSpan(NoSpan)
  BY DEF IsSpan, NoSpan, Limits
<1>2. None \in Int
  BY DEF None
<1>3. /\ MeanIn(NoMean, NoSpan.low, NoSpan.high) /\ MeanIn(NoMean, 0, 100)
  BY NoMeanIn
<1>4. VWAPIn(NoVWAP, NoSpan.dayLow, NoSpan.dayHigh)
  BY <1>2, NoVWAPIn DEF NoSpan
<1>5. RSIInStep(NoRSI)
  <2>1. <<>> \in Seq(Nat)
    OBVIOUS
  <2> QED
    BY <2>1 DEF RSIInStep, NoRSI, NoMean
<1>6. /\ FreshState.fast = NoMean /\ FreshState.slow = NoMean /\ FreshState.adx.mean = NoMean
      /\ FreshState.rsi = NoRSI /\ FreshState.vwap = NoVWAP
  BY DEF FreshState, NoADX
<1> QED
  BY <1>1, <1>3, <1>4, <1>5, <1>6 DEF Reads

LEMMA InitReadInv == TrendInit => ReadInv
  BY InitWarmInv, FreshReads DEF TrendInit, ReadInv

LEMMA NewSessionReads ==
    ASSUME ReadInv, NewSession
    PROVE  IsSpan(span') /\ Reads(tp', span')
<1> DEFINE r == Reset(tp)
           q == tp'
           p == span'
<1>1. q = [r EXCEPT !.vwap = NoVWAP, !.rvol = NoVolumes]
  BY DEF NewSession
<1>2. p = [low |-> span.low, high |-> span.high, dayLow |-> None, dayHigh |-> None]
  BY DEF NewSession, ReadInv, IsSpan
<1>3. Same(r, tp)
  BY ResetSame DEF ReadInv, WarmInv, StateCounted
<1> HIDE DEF r, q, p
<1>4. /\ q.fast = tp.fast /\ q.slow = tp.slow /\ q.adx = tp.adx /\ q.rsi = tp.rsi
      /\ q.vwap = NoVWAP
  <2>1. q = [fast |-> r.fast, slow |-> r.slow, atr |-> r.atr, adx |-> r.adx,
             rsi |-> r.rsi, vwap |-> NoVWAP, rvol |-> NoVolumes, pulledBack |-> r.pulledBack,
             trade |-> r.trade]
    BY <1>1, <1>3 DEF Same, IsState
  <2> QED
    BY <1>3, <2>1 DEF Same
<1>5. IsSpan(p) /\ None \in Int
  BY <1>2 DEF IsSpan, ReadInv, Limits, None
<1>6. VWAPIn(NoVWAP, p.dayLow, p.dayHigh)
  BY <1>2, <1>5, NoVWAPIn
<1>7. Reads(q, p)
  BY <1>2, <1>4, <1>6 DEF Reads, ReadInv
<1> QED
  BY <1>5, <1>7 DEF p, q

LEMMA NextReadInv ==
    ASSUME ReadInv, bars \in Nat, [TrendNext]_trendVars
    PROVE  ReadInv'
<1>0. WarmInv'
  BY TrendWarmInv DEF ReadInv
<1>1. CASE UNCHANGED <<tp, span>>
  BY <1>0, <1>1 DEF ReadInv, Reads, IsSpan
<1>2. ASSUME NEW b \in TpBars, Manages(b) \/ OutOfHours(b) \/ NoBias(b) \/ Considers(b)
      PROVE  ReadInv'
  <2> DEFINE w == WithBar(tp, b)
             p == Widened(span, b)
  <2>1. Same(tp', w) /\ span' = p /\ ~ b.synthetic
    BY <1>2, BarSame DEF ReadInv
  <2>2. IsSpan(p) /\ Reads(w, p)
    BY <2>1, WithBarReads DEF ReadInv, WarmInv
  <2> HIDE DEF w, p
  <2>3. Reads(tp', p)
    BY <2>1, <2>2, SameReads
  <2>4. IsSpan(span)' /\ Reads(tp, span)'
    BY <2>1, <2>2, <2>3 DEF IsSpan, Reads
  <2> QED
    BY <1>0, <2>4 DEF ReadInv
<1>3. CASE NewSession
  <2>1. IsSpan(span') /\ Reads(tp', span')
    BY <1>3, NewSessionReads
  <2>2. IsSpan(span)' /\ Reads(tp, span)'
    BY <2>1 DEF IsSpan, Reads
  <2> QED
    BY <1>0, <2>2 DEF ReadInv
<1>4. CASE TrendRestarts
  <2>1. tp' = FreshState /\ span' = NoSpan
    BY <1>4 DEF TrendRestarts
  <2>2. IsSpan(span)' /\ Reads(tp, span)'
    BY <2>1, FreshReads DEF IsSpan, Reads
  <2> QED
    BY <1>0, <2>2 DEF ReadInv
<1>5. ASSUME NEW b \in TpBars, SeesSynthetic(b)
      PROVE  UNCHANGED <<tp, span>>
  BY <1>5 DEF SeesSynthetic
<1>6. ASSUME NEW p \in TpPositions, Mirror(p)
      PROVE  UNCHANGED <<tp, span>>
  BY <1>6 DEF Mirror
<1>7. CASE UNCHANGED trendVars
  BY <1>1, <1>7 DEF trendVars
<1> QED
  BY <1>1, <1>2, <1>3, <1>4, <1>5, <1>6, <1>7 DEF TrendNext

LEMMA ReadingsRight == ReadInv => ReadingsAreMeans
<1> SUFFICES ASSUME ReadInv PROVE ReadingsAreMeans
  OBVIOUS
<1>1. /\ Fast(tp) = None \/ (span.low <= Fast(tp) /\ Fast(tp) <= span.high)
      /\ Slow(tp) = None \/ (span.low <= Slow(tp) /\ Slow(tp) <= span.high)
      /\ Adx(tp) = None \/ (0 <= Adx(tp) /\ Adx(tp) <= 100)
  BY DEF ReadInv, Reads, MeanIn, Fast, Slow, Adx
<1> DEFINE v == VWAPValue(tp.vwap)
           r == RSIValue(tp.rsi)
<1>2. v = None \/ (span.dayLow <= v /\ v <= span.dayHigh)
  BY VWAPIsWithin DEF ReadInv, Reads, IsSpan
<1>3. r = None \/ (0 <= r /\ r <= 100)
  BY RSIIsPercent DEF ReadInv, Reads
<1> QED
  BY <1>1, <1>2, <1>3 DEF ReadingsAreMeans

----------------------------------------------------------------------------
(* SmaCrossover: the running sums are those of the last closes.            *)

LastSum(s, n) == SumFunctionOnSet(s, (Len(s) - n + 1)..Len(s))

Fewer(n, m) == IF n < m THEN n ELSE m

LEMMA LastSumMoves ==
    ASSUME NEW s \in Seq(Nat), NEW c \in Nat, NEW n \in Nat \ {0}
    PROVE  LastSum(Append(s, c), Fewer(Len(s) + 1, n))
             = LastSum(s, Fewer(Len(s), n)) + c - (IF Len(s) + 1 > n THEN s[Len(s) + 1 - n] ELSE 0)
<1> DEFINE t == Append(s, c)
           l == Len(s)
           D == (l + 2 - n)..l
<1>0. /\ l \in Nat /\ Len(t) = l + 1 /\ t[l + 1] = c /\ \A k \in 1..l : s[k] \in Nat /\ t[k] = s[k]
  OBVIOUS
<1> HIDE DEF t, l
<1>1. ASSUME NEW T \in SUBSET (1..l), IsFiniteSet(T)
      PROVE  /\ SumFunctionOnSet(t, T \cup {l + 1}) = SumFunctionOnSet(s, T) + c
             /\ SumFunctionOnSet(s, T) \in Int
  <2> DEFINE V == T \cup {l + 1}
  <2>1. IsFiniteSet(V) /\ l + 1 \in V /\ V \ {l + 1} = T
    <3>1. ~ (l + 1 \in T)
      BY <1>0
    <3> QED
      BY <1>1, <3>1, FS_AddElement
  <2>2. \A x \in V : t[x] \in Int
    BY <1>0
  <2> HIDE DEF V
  <2>3. SumFunctionOnSet(t, V) = t[l + 1] + SumFunctionOnSet(t, V \ {l + 1})
    BY <2>1, <2>2, SumOfRest
  <2>4. \A x \in T : t[x] = s[x] /\ s[x] \in Int
    BY <1>0
  <2>5. SumFunctionOnSet(t, T) = SumFunctionOnSet(s, T) /\ SumFunctionOnSet(s, T) \in Int
    BY <1>1, <2>4, SumOfEquals, SumIsInt
  <2>6. SumFunctionOnSet(t, V) = c + SumFunctionOnSet(s, T)
    BY <1>0, <2>1, <2>3, <2>5
  <2> QED
    BY <2>5, <2>6 DEF V
<1>2. CASE l + 1 <= n
  <2>1. 1..l \in SUBSET (1..l) /\ IsFiniteSet(1..l) /\ 1..(l + 1) = (1..l) \cup {l + 1}
    <3>1. 1..(l + 1) = (1..l) \cup {l + 1}
      BY <1>0
    <3> QED
      BY <1>0, <3>1, FS_Interval
  <2>2. SumFunctionOnSet(t, 1..(l + 1)) = SumFunctionOnSet(s, 1..l) + c
        /\ SumFunctionOnSet(s, 1..l) \in Int
    BY <1>1, <2>1
  <2>3. Fewer(l + 1, n) = l + 1 /\ Fewer(l, n) = l
    BY <1>0, <1>2 DEF Fewer
  <2>4. LastSum(t, l + 1) = SumFunctionOnSet(t, 1..(l + 1)) /\ LastSum(s, l) = SumFunctionOnSet(s, 1..l)
    <3>1. Len(t) - (l + 1) + 1 = 1 /\ Len(s) - l + 1 = 1
      BY <1>0 DEF l
    <3> QED
      BY <1>0, <3>1 DEF LastSum, l
  <2> QED
    BY <1>0, <1>2, <2>2, <2>3, <2>4 DEF t, l
<1>3. CASE l + 1 > n
  <2> DEFINE j == l + 1 - n
             E == j..l
  <2>0. j \in 1..l /\ l + 2 - n = j + 1 /\ j + 1 \in Int /\ j + 1 >= 1
    BY <1>0, <1>3
  <2> HIDE DEF j
  <2>1. D \in SUBSET (1..l) /\ IsFiniteSet(D) /\ (l + 2 - n)..(l + 1) = D \cup {l + 1}
    <3>1. D = (j + 1)..l
      BY <2>0
    <3>2. (j + 1)..l \in SUBSET (1..l) /\ (j + 1)..(l + 1) = ((j + 1)..l) \cup {l + 1}
      BY <1>0, <2>0
    <3>3. IsFiniteSet((j + 1)..l)
      BY <1>0, <2>0, FS_Interval
    <3> QED
      BY <2>0, <3>1, <3>2, <3>3
  <2>2. IsFiniteSet(E) /\ j \in E /\ E \ {j} = D /\ E \in SUBSET (1..l)
    <3>1. IsFiniteSet(j..l) /\ j \in Int /\ l \in Int
      BY <1>0, <2>0, FS_Interval
    <3>2. j \in j..l /\ (j..l) \ {j} = (j + 1)..l /\ j..l \in SUBSET (1..l)
      BY <1>0, <2>0
    <3> QED
      BY <2>0, <3>1, <3>2
  <2>3. Fewer(l + 1, n) = n /\ Fewer(l, n) = n
    BY <1>0, <1>3 DEF Fewer
  <2>4. LastSum(t, n) = SumFunctionOnSet(t, D \cup {l + 1}) /\ LastSum(s, n) = SumFunctionOnSet(s, E)
    <3>1. Len(t) - n + 1 = l + 2 - n /\ Len(s) - n + 1 = j
      BY <1>0 DEF j, l
    <3> QED
      BY <1>0, <2>1, <3>1 DEF LastSum, l
  <2> HIDE DEF D, E
  <2>5. SumFunctionOnSet(t, D \cup {l + 1}) = SumFunctionOnSet(s, D) + c
        /\ SumFunctionOnSet(s, D) \in Int
    BY <1>1, <2>1
  <2>6. \A x \in E : s[x] \in Int
    BY <1>0, <2>2
  <2>7. SumFunctionOnSet(s, E) = s[j] + SumFunctionOnSet(s, D)
    <3>1. SumFunctionOnSet(s, E) = s[j] + SumFunctionOnSet(s, E \ {j})
      <4>1. IsFiniteSet(E) /\ j \in E
        BY <2>2
      <4> QED
        BY <2>6, <4>1, SumOfRest
    <3> QED
      BY <2>2, <3>1
  <2>8. s[j] \in Int
    BY <2>2, <2>6
  <2>9. LastSum(t, n) = LastSum(s, n) + c - s[j]
    BY <2>4, <2>5, <2>7, <2>8
  <2> QED
    BY <1>3, <2>3, <2>9 DEF t, l, j
<1> QED
  BY <1>0, <1>2, <1>3

(* The window holds the last closes, the sums are theirs, and which        *)
(* average is above has been read whenever the window was full.            *)
SmaInv ==
    /\ closes \in Seq(Nat) /\ window \in Seq(Nat) /\ long \in BOOLEAN
    /\ Len(window) = Fewer(Len(closes), LongPeriod)
    /\ \A k \in 1..Len(window) : window[k] = closes[Len(closes) - Len(window) + k]
    /\ shortSum = LastSum(closes, Fewer(Len(closes), ShortPeriod))
    /\ longSum = LastSum(closes, Fewer(Len(closes), LongPeriod))
    /\ above = IF Len(closes) < LongPeriod THEN "unknown"
               ELSE IF MeanAbove(closes) THEN "above" ELSE "below"
    /\ SignalsAreCrossings

LEMMA SmaPeriods ==
    /\ ShortPeriod \in Nat \ {0} /\ LongPeriod \in Nat \ {0} /\ ShortPeriod < LongPeriod
    /\ SmaCloses \subseteq Nat
  BY SmaAssumption DEF SmaAssumption

LEMMA NoCloses ==
    ASSUME NEW n \in Nat
    PROVE  LastSum(<<>>, Fewer(Len(<<>>), n)) = 0
<1>1. Len(<<>>) = 0 /\ Fewer(0, n) = 0 /\ 0 - 0 + 1 = 1 /\ 1..0 = {}
  BY DEF Fewer
<1> QED
  BY <1>1, SumOfNone DEF LastSum

LEMMA InitSmaInv == SmaInit => SmaInv
<1> SUFFICES ASSUME SmaInit PROVE SmaInv
  OBVIOUS
<1>1. LastSum(closes, Fewer(Len(closes), ShortPeriod)) = 0
      /\ LastSum(closes, Fewer(Len(closes), LongPeriod)) = 0
  BY NoCloses, SmaPeriods DEF SmaInit
<1>2. closes \in Seq(Nat) /\ window \in Seq(Nat) /\ Len(closes) = 0 /\ Len(window) = 0
      /\ long \in BOOLEAN
  <2>1. <<>> \in Seq(Nat) /\ Len(<<>>) = 0
    OBVIOUS
  <2>2. closes = <<>> /\ window = <<>>
    BY DEF SmaInit
  <2>3. long \in BOOLEAN
    BY Zenon DEF SmaInit
  <2> QED
    BY <2>1, <2>2, <2>3
<1> QED
  BY <1>1, <1>2, SmaPeriods DEF SmaInit, SmaInv, Fewer, SignalsAreCrossings

LEMMA SmaBarInv ==
    ASSUME SmaInv, NEW c \in SmaCloses, NEW allows \in BOOLEAN, SmaBar(c, allows)
    PROVE  SmaInv'
<1> DEFINE w == Append(window, c)
           t == Append(closes, c)
           l == Len(closes)
           is == IF IsAbove THEN "above" ELSE "below"
<1>0. /\ c \in Nat /\ l \in Nat /\ closes \in Seq(Nat) /\ window \in Seq(Nat)
      /\ closes' = t /\ t \in Seq(Nat) /\ Len(t) = l + 1 /\ long' = long /\ long \in BOOLEAN
      /\ Len(window) = Fewer(l, LongPeriod) /\ Len(w) = Len(window) + 1
      /\ w \in Seq(Nat)
  BY SmaPeriods DEF SmaBar, SmaInv
<1> DEFINE m == Len(window)
<1>1. /\ \A k \in 1..m : w[k] = window[k] /\ window[k] = closes[l - m + k]
      /\ w[m + 1] = c /\ m \in Nat
      /\ \A k \in 1..l : t[k] = closes[k]
      /\ t[l + 1] = c
  BY <1>0 DEF SmaInv
<1>a. m = Fewer(l, LongPeriod) /\ Len(w) = m + 1
  BY <1>0
<1> HIDE DEF w, t, l, m
<1>b. /\ l \in Nat /\ m \in Nat /\ m <= l /\ m <= LongPeriod
      /\ l <= LongPeriod => m = l
      /\ l >= LongPeriod => m = LongPeriod
  BY <1>0, <1>1, <1>a, SmaPeriods DEF Fewer
<1>2. \A k \in 1..Len(w) : w[k] = t[l + 1 - Len(w) + k]
  <2> SUFFICES ASSUME NEW k \in 1..(m + 1) PROVE w[k] = t[l - m + k]
    <3>1. l + 1 - Len(w) = l - m
      BY <1>0, <1>1, <1>a
    <3> QED
      BY <1>a, <3>1
  <2>1. CASE k = m + 1
    <3>1. l - m + k = l + 1
      BY <1>b, <2>1
    <3> QED
      BY <1>1, <2>1, <3>1
  <2>2. CASE k # m + 1
    <3>1. k \in 1..m /\ l - m + k \in 1..l
      BY <1>b, <2>2
    <3> QED
      BY <1>1, <3>1
  <2> QED
    BY <2>1, <2>2
<1>3. Len(w) > ShortPeriod <=> l + 1 > ShortPeriod
  BY <1>a, <1>b, SmaPeriods
<1>4. Len(w) > LongPeriod <=> l + 1 > LongPeriod
  BY <1>a, <1>b, SmaPeriods
<1>5. ASSUME l + 1 > ShortPeriod PROVE LeavesShort(w) = closes[l + 1 - ShortPeriod]
  <2> DEFINE k == Len(w) - ShortPeriod
  <2>1. k \in 1..Len(w) /\ l + 1 - Len(w) + k = l + 1 - ShortPeriod
        /\ l + 1 - ShortPeriod \in 1..l
    BY <1>a, <1>b, <1>5, SmaPeriods
  <2>2. w[k] = t[l + 1 - Len(w) + k]
    <3> HIDE DEF k
    <3> QED
      BY <1>2, <2>1
  <2> QED
    BY <1>1, <2>1, <2>2 DEF LeavesShort
<1>6. ASSUME l + 1 > LongPeriod
      PROVE  w[1] = closes[l + 1 - LongPeriod] /\ Len(w) = LongPeriod + 1
  <2>1. m = LongPeriod /\ Len(w) = LongPeriod + 1
    BY <1>a, <1>b, <1>6, SmaPeriods
  <2>2. 1 \in 1..Len(w) /\ l + 1 - Len(w) + 1 = l + 1 - LongPeriod
        /\ l + 1 - LongPeriod \in 1..l
    BY <1>b, <1>6, <2>1, SmaPeriods
  <2>3. w[1] = t[l + 1 - Len(w) + 1]
    BY <1>2, <2>2
  <2> QED
    BY <1>1, <2>1, <2>2, <2>3
<1>7. /\ shortSum' = shortSum + c - (IF Len(w) > ShortPeriod THEN LeavesShort(w) ELSE 0)
      /\ longSum' = longSum + c - (IF Len(w) > LongPeriod THEN w[1] ELSE 0)
      /\ window' = IF Len(w) > LongPeriod THEN Tail(w) ELSE w
  BY DEF SmaBar, Pushes, w
<1>8. /\ shortSum' = LastSum(t, Fewer(l + 1, ShortPeriod))
      /\ longSum' = LastSum(t, Fewer(l + 1, LongPeriod))
  <2>0. ASSUME NEW n \in Nat \ {0}
        PROVE  LastSum(t, Fewer(l + 1, n)) = LastSum(closes, Fewer(l, n)) + c
                 - (IF l + 1 > n THEN closes[l + 1 - n] ELSE 0)
    BY <1>0, LastSumMoves DEF t, l
  <2>1. LastSum(t, Fewer(l + 1, ShortPeriod))
          = shortSum + c - (IF l + 1 > ShortPeriod THEN closes[l + 1 - ShortPeriod] ELSE 0)
    BY <2>0, SmaPeriods DEF l, SmaInv
  <2>2. LastSum(t, Fewer(l + 1, LongPeriod))
          = longSum + c - (IF l + 1 > LongPeriod THEN closes[l + 1 - LongPeriod] ELSE 0)
    BY <2>0, SmaPeriods DEF l, SmaInv
  <2> QED
    BY <1>3, <1>4, <1>5, <1>6, <1>7, <2>1, <2>2
<1>9. /\ window' \in Seq(Nat) /\ Len(window') = Fewer(l + 1, LongPeriod)
      /\ \A k \in 1..Len(window') : window'[k] = t[l + 1 - Len(window') + k]
  <2>1. CASE Len(w) > LongPeriod
    <3>1. window' = Tail(w) /\ Len(w) = LongPeriod + 1 /\ Len(Tail(w)) = LongPeriod
          /\ Tail(w) \in Seq(Nat) /\ \A k \in 1..LongPeriod : Tail(w)[k] = w[k + 1]
      BY <1>0, <1>4, <1>6, <1>7, <2>1, SmaPeriods
    <3>2. Fewer(l + 1, LongPeriod) = LongPeriod
      BY <1>0, <1>4, <2>1, SmaPeriods DEF Fewer
    <3>3. ASSUME NEW k \in 1..LongPeriod PROVE w[k + 1] = t[l + 1 - LongPeriod + k]
      <4>1. k + 1 \in 1..Len(w) /\ l + 1 - Len(w) + (k + 1) = l + 1 - LongPeriod + k
        BY <1>b, <3>1, SmaPeriods
      <4>2. w[k + 1] = t[l + 1 - Len(w) + (k + 1)]
        BY <1>2, <4>1
      <4> QED
        BY <4>1, <4>2
    <3> QED
      BY <3>1, <3>2, <3>3
  <2>2. CASE ~ (Len(w) > LongPeriod)
    <3>1. window' = w /\ Len(w) = Fewer(l + 1, LongPeriod)
      <4>1. Len(w) = l + 1 /\ ~ (LongPeriod < l + 1)
        BY <1>4, <1>a, <1>b, <2>2, SmaPeriods
      <4>2. Fewer(l + 1, LongPeriod) = l + 1
        BY <1>b, <4>1, SmaPeriods DEF Fewer
      <4> QED
        BY <1>7, <2>2, <4>1, <4>2
    <3> QED
      BY <1>0, <1>2, <3>1
  <2> QED
    BY <2>1, <2>2
<1>10. ASSUME l + 1 >= LongPeriod PROVE IsAbove <=> MeanAbove(t)
  <2>1. Fewer(l + 1, LongPeriod) = LongPeriod /\ Fewer(l + 1, ShortPeriod) = ShortPeriod
    BY <1>0, <1>10, SmaPeriods DEF Fewer
  <2>2. shortSum' = LastSum(t, ShortPeriod) /\ longSum' = LastSum(t, LongPeriod)
    BY <1>8, <2>1
  <2> QED
    BY <2>2 DEF IsAbove, MeanAbove, LastSum
<1>11. Front(t) = closes
  <2>1. t \in Seq(Nat) /\ Len(t) = l + 1 /\ \A k \in 1..l : t[k] = closes[k]
    BY <1>0, <1>1
  <2>2. Front(t) = SubSeq(t, 1, l)
    BY <1>0 DEF Front
  <2>3. SubSeq(t, 1, l) \in Seq(Nat) /\ Len(SubSeq(t, 1, l)) = l
        /\ \A k \in 1..l : SubSeq(t, 1, l)[k] = t[k]
    BY <1>0, <2>1
  <2>4. closes = [k \in 1..l |-> closes[k]]
    BY <1>0 DEF l
  <2>5. SubSeq(t, 1, l) = [k \in 1..l |-> SubSeq(t, 1, l)[k]]
    BY <2>3
  <2> QED
    BY <2>1, <2>2, <2>3, <2>4, <2>5
<1>12. IF Len(window') < LongPeriod
       THEN above' = above /\ crossing' = "none"
       ELSE /\ above' = is
            /\ crossing' = IF ~Crosses(above, is) THEN "none"
                           ELSE CASE is = "above" /\ ~long /\ allows -> "open"
                                  [] is = "below" /\ long -> "close"
                                  [] OTHER -> "none"
  BY DEF SmaBar
<1>13. Len(window') < LongPeriod <=> l + 1 < LongPeriod
  BY <1>0, <1>9, SmaPeriods DEF Fewer
<1> HIDE DEF is, l
<1>14. above = IF l < LongPeriod THEN "unknown" ELSE IF MeanAbove(closes) THEN "above" ELSE "below"
  BY DEF SmaInv, l
<1>15. is = "above" <=> IsAbove
  BY DEF is
<1>16. is \in {"above", "below"}
  BY DEF is
<1>c. /\ closes' = t /\ closes' \in Seq(Nat) /\ window' \in Seq(Nat) /\ long' \in BOOLEAN
      /\ Len(window') = Fewer(Len(closes'), LongPeriod)
      /\ \A k \in 1..Len(window') : window'[k] = closes'[Len(closes') - Len(window') + k]
      /\ shortSum' = LastSum(closes', Fewer(Len(closes'), ShortPeriod))
      /\ longSum' = LastSum(closes', Fewer(Len(closes'), LongPeriod))
  <2>1. closes' = t /\ closes' \in Seq(Nat) /\ Len(closes') = l + 1
    BY <1>0
  <2>2. long' \in BOOLEAN
    BY <1>0, Zenon
  <2>3. window' \in Seq(Nat) /\ Len(window') = Fewer(Len(closes'), LongPeriod)
    BY <1>9, <2>1
  <2>4. ASSUME NEW k \in 1..Len(window')
        PROVE  window'[k] = closes'[Len(closes') - Len(window') + k]
    <3> DEFINE i == l + 1 - Len(window') + k
    <3>1. window'[k] = t[i]
      BY <1>9
    <3>2. Len(closes') - Len(window') + k = i
      <4>1. Len(closes') = l + 1 /\ l \in Nat
        BY <1>b, <2>1
      <4>2. Len(window') \in Nat
        BY <2>3
      <4> QED
        BY <4>1, <4>2
    <3>3. closes'[i] = t[i]
      <4> HIDE DEF i
      <4> QED
        BY <2>1
    <3> HIDE DEF i
    <3> QED
      BY <3>1, <3>2, <3>3
  <2>5. /\ shortSum' = LastSum(closes', Fewer(Len(closes'), ShortPeriod))
        /\ longSum' = LastSum(closes', Fewer(Len(closes'), LongPeriod))
    BY <1>8, <2>1
  <2> QED
    BY <2>1, <2>2, <2>3, <2>4, <2>5
<1>17. CASE l + 1 < LongPeriod
  <2>1. above' = "unknown" /\ crossing' = "none"
    BY <1>b, <1>12, <1>13, <1>14, <1>17, SmaPeriods
  <2>2. SignalsAreCrossings'
    BY <2>1 DEF SignalsAreCrossings
  <2>3. above' = IF Len(t) < LongPeriod THEN "unknown"
                 ELSE IF MeanAbove(t) THEN "above" ELSE "below"
    BY <1>0, <1>17, <2>1
  <2> QED
    BY <1>c, <2>2, <2>3 DEF SmaInv, MeanAbove
<1>18. CASE ~ (l + 1 < LongPeriod)
  <2>1. /\ above' = is
        /\ crossing' = IF ~Crosses(above, is) THEN "none"
                       ELSE CASE is = "above" /\ ~long /\ allows -> "open"
                              [] is = "below" /\ long -> "close"
                              [] OTHER -> "none"
    BY <1>12, <1>13, <1>18
  <2>2. IsAbove <=> MeanAbove(t)
    BY <1>0, <1>10, <1>18, SmaPeriods
  <2>3. above' = IF MeanAbove(t) THEN "above" ELSE "below"
    BY <1>15, <1>16, <2>1, <2>2
  <2>4. crossing' # "none" =>
          /\ Crosses(above, is)
          /\ crossing' = "open" <=> is = "above"
          /\ crossing' = "close" <=> is = "below"
    <3>1. CASE ~ Crosses(above, is)
      BY <2>1, <3>1 DEF Crosses
    <3>2. CASE Crosses(above, is) /\ is = "above"
      BY <2>1, <3>2 DEF Crosses
    <3>3. CASE Crosses(above, is) /\ is = "below"
      BY <2>1, <3>3 DEF Crosses
    <3> QED
      BY <1>16, <3>1, <3>2, <3>3
  <2>5. SignalsAreCrossings'
    <3> SUFFICES ASSUME crossing' # "none"
                 PROVE  /\ Len(t) > LongPeriod
                        /\ MeanAbove(t) = (crossing' = "open")
                        /\ MeanAbove(closes) = (crossing' = "close")
      BY <1>0, <1>11 DEF SignalsAreCrossings
    <3>1. above # "unknown" /\ above # is
      BY <2>4 DEF Crosses
    <3>2. ~ (l < LongPeriod)
      BY <1>14, <3>1
    <3>3. Len(t) > LongPeriod
      BY <1>0, <3>2, SmaPeriods
    <3>4. MeanAbove(t) <=> crossing' = "open"
      BY <1>15, <2>2, <2>4
    <3>5. MeanAbove(closes) <=> crossing' = "close"
      BY <1>14, <1>16, <2>4, <3>1, <3>2
    <3>6. MeanAbove(t) \in BOOLEAN /\ MeanAbove(closes) \in BOOLEAN
      BY DEF MeanAbove
    <3> QED
      BY <3>3, <3>4, <3>5, <3>6
  <2>6. above' = IF Len(t) < LongPeriod THEN "unknown"
                 ELSE IF MeanAbove(t) THEN "above" ELSE "below"
    BY <1>0, <1>18, <2>3
  <2> QED
    BY <1>c, <2>5, <2>6 DEF SmaInv, MeanAbove
<1> QED
  BY <1>17, <1>18

LEMMA NextSmaInv ==
    ASSUME SmaInv, [SmaNext]_smaVars
    PROVE  SmaInv'
<1>1. CASE SmaSession
  <2>1. LastSum(closes', Fewer(Len(closes'), ShortPeriod)) = 0
        /\ LastSum(closes', Fewer(Len(closes'), LongPeriod)) = 0
    BY <1>1, NoCloses, SmaPeriods DEF SmaSession
  <2>2. closes' \in Seq(Nat) /\ window' \in Seq(Nat) /\ Len(closes') = 0 /\ Len(window') = 0
        /\ long' \in BOOLEAN
    <3>1. <<>> \in Seq(Nat) /\ Len(<<>>) = 0
      OBVIOUS
    <3>2. closes' = <<>> /\ window' = <<>> /\ long' = long
      BY <1>1 DEF SmaSession
    <3>3. long' \in BOOLEAN
      BY <3>2, Zenon DEF SmaInv
    <3> QED
      BY <3>1, <3>2, <3>3
  <2> QED
    BY <1>1, <2>1, <2>2, SmaPeriods DEF SmaSession, SmaInv, Fewer, SignalsAreCrossings
<1>2. CASE SmaMirror
  <2>1. UNCHANGED <<window, shortSum, longSum, above, closes>> /\ crossing' = "none" /\ long' \in BOOLEAN
    BY <1>2 DEF SmaMirror, averages
  <2> QED
    BY <2>1 DEF SmaInv, SignalsAreCrossings
<1>3. CASE UNCHANGED smaVars
  <2>1. UNCHANGED <<window, shortSum, longSum, above, closes, crossing, long>>
    BY <1>3 DEF smaVars, averages
  <2> QED
    BY <2>1 DEF SmaInv, SignalsAreCrossings
<1> QED
  BY <1>1, <1>2, <1>3, SmaBarInv DEF SmaNext

(* For any periods and bars, in any order of bars, sessions, restarts and  *)
(* fills: the readings lie among the prices they are means of, and a       *)
(* signal of the simple strategy is a crossing of the averages of the      *)
(* session's closes.                                                       *)
THEOREM StrategiesAreRight == Spec => []StrategiesReadRight
<1> DEFINE Inv == ReadInv /\ bars \in Nat /\ SmaInv
<1>1. Init => Inv
  BY InitReadInv, InitSmaInv DEF Init, TrendInit
<1>2. Inv /\ [Next]_vars => Inv'
  <2> SUFFICES ASSUME Inv, [Next]_vars PROVE Inv'
    OBVIOUS
  <2>1. [TrendNext]_trendVars /\ [SmaNext]_smaVars
    BY DEF Next, vars
  <2>2. ReadInv' /\ bars' \in Nat
    BY <2>1, NextReadInv, TrendWarmInv DEF ReadInv
  <2>3. SmaInv'
    BY <2>1, NextSmaInv
  <2> QED
    BY <2>2, <2>3
<1>3. Inv => StrategiesReadRight
  BY ReadingsRight DEF SmaInv, StrategiesReadRight
<1> HIDE DEF Inv
<1> QED
  BY <1>1, <1>2, <1>3, PTL DEF Spec

----------------------------------------------------------------------------
(* Reconciliation.  The trades of all compared days are a sequence, since  *)
(* each day adds its own.                                                  *)

Entered == [trip : RoundTrips, moment : Int]

RecordsInv ==
    records \in [Sources -> [RecordedDays -> [file : {"none", "written", "cut"},
                                              halted : BOOLEAN, trades : Seq(RoundTrips)]]]

LEMMA InitRecordsInv == RecordsInit => RecordsInv
  BY DEF RecordsInit, RecordsInv, NoRecord

LEMMA NextRecordsInv == RecordsInv /\ [RecordsNext]_recordVars => RecordsInv'
<1> SUFFICES ASSUME RecordsInv, [RecordsNext]_recordVars PROVE RecordsInv'
  OBVIOUS
<1>1. CASE RecordsNext
  <2>1. PICK source \in Sources, d \in RecordedDays, r \in Sessions : Saves(source, d, r)
    BY <1>1 DEF RecordsNext
  <2>2. r.trades \in Seq(RoundTrips) /\ r \in [file : {"none", "written", "cut"},
                                              halted : BOOLEAN, trades : Seq(RoundTrips)]
    <3>1. PICK n \in 0..MaxRoundTrips : r.trades \in [1..n -> RoundTrips]
      BY DEF Sessions
    <3>2. r.trades \in Seq(RoundTrips)
      BY <3>1
    <3> QED
      BY <3>2 DEF Sessions
  <2>3. records' = [records EXCEPT ![source][d] = r]
    BY <2>1 DEF Saves
  <2> QED
    BY <2>2, <2>3 DEF RecordsInv
<1>2. CASE UNCHANGED recordVars
  BY <1>2 DEF RecordsInv, recordVars
<1> QED
  BY <1>1, <1>2

LEMMA LastDay == Max(RecordedDays) \in Nat
<1>1. RecordedDays \in SUBSET Int /\ IsFiniteSet(RecordedDays) /\ RecordedDays # {}
  BY ReconciliationAssumption
<1>2. Max(RecordedDays) \in RecordedDays
  BY <1>1, GreatestIn
<1> QED
  BY <1>2, ReconciliationAssumption

LEMMA TradesOfDay ==
    ASSUME RecordsInv, NEW source \in Sources, NEW d \in Compared
    PROVE  TradesOf(source, d) \in Seq(Entered)
<1> DEFINE s == records[source][d].trades
<1>1. d \in RecordedDays /\ d \in Nat /\ SessionLength \in Nat
  BY ReconciliationAssumption DEF Compared, CommonDays, HasFile
<1>2. s \in Seq(RoundTrips)
  BY <1>1 DEF RecordsInv
<1>3. d * SessionLength \in Int
  BY <1>1
<1>4. \A n \in 1..Len(s) : s[n] \in RoundTrips /\ s[n].at \in Int
  BY <1>2, ReconciliationAssumption
<1>5. TradesOf(source, d) = [n \in 1..Len(s) |-> [trip |-> s[n], moment |-> d * SessionLength + s[n].at]]
  BY DEF TradesOf
<1>6. Len(s) \in Nat
  BY <1>2
<1> HIDE DEF s
<1>7. \A n \in 1..Len(s) : [trip |-> s[n], moment |-> d * SessionLength + s[n].at] \in Entered
  BY <1>3, <1>4 DEF Entered
<1> QED
  BY <1>5, <1>6, <1>7

LEMMA AllTradesAre ==
    ASSUME RecordsInv, NEW source \in Sources
    PROVE  AllTrades(source) \in Seq(Entered)
<1> DEFINE n == Max(RecordedDays) + 1
           seq == [k \in 1..n |-> k - 1]
           A == Seq(Entered)
           F == [u \in (1..n) \X A |-> IF seq[u[1]] \in Compared
                                       THEN u[2] \o TradesOf(source, seq[u[1]]) ELSE u[2]]
           Asked(h) == h = [s \in SUBSET (1..n) |->
                               IF s = {} THEN <<>>
                               ELSE IF seq[Max(s)] \in Compared
                                    THEN h[s \ {Max(s)}] \o TradesOf(source, seq[Max(s)])
                                    ELSE h[s \ {Max(s)}]]
<1>1. n \in Nat /\ DOMAIN seq = 1..n
  BY LastDay
<1>2. AllTrades(source) = (CHOOSE h : Asked(h))[1..n]
  BY <1>1 DEF AllTrades, FoldLeft, MapThenFoldSet
<1>3. \A k \in 1..n, v \in A : F[<<k, v>>] \in A
  <2> SUFFICES ASSUME NEW k \in 1..n, NEW v \in A PROVE F[<<k, v>>] \in A
    OBVIOUS
  <2> HIDE DEF seq, n
  <2>1. F[<<k, v>>] = IF seq[k] \in Compared THEN v \o TradesOf(source, seq[k]) ELSE v
    BY DEF A
  <2>2. seq[k] \in Compared => TradesOf(source, seq[k]) \in A
    BY TradesOfDay
  <2> QED
    BY <2>1, <2>2
<1>4. IsFiniteSet(1..n) /\ 1..n \in SUBSET Int
  BY <1>1, FS_Interval
<1> HIDE DEF n
<1>5. ASSUME NEW s \in SUBSET (1..n), s # {} PROVE Max(s) \in s /\ s \ {Max(s)} \in SUBSET (1..n)
  <2>1. IsFiniteSet(s) /\ s \in SUBSET Int
    BY <1>4, FS_Subset
  <2> QED
    BY <1>5, <2>1, GreatestIn
<1>6. \E h : Asked(h)
  <2>1. <<>> \in A
    OBVIOUS
  <2> HIDE DEF A, F
  <2>2. PICK h : /\ h = [s \in SUBSET (1..n) |->
                           IF s = {} THEN <<>> ELSE F[<<Max(s), h[s \ {Max(s)}]>>]]
                 /\ \A s \in SUBSET (1..n) : h[s] \in A
    <3>1. HasLeftTable(n, A, <<>>, F)
      BY <1>1, <1>3, <2>1, LeftTable
    <3> QED
      BY <3>1 DEF HasLeftTable
  <2>3. ASSUME NEW s \in SUBSET (1..n), s # {}
        PROVE  F[<<Max(s), h[s \ {Max(s)}]>>] = IF seq[Max(s)] \in Compared
                                    THEN h[s \ {Max(s)}] \o TradesOf(source, seq[Max(s)])
                                    ELSE h[s \ {Max(s)}]
    <3>1. Max(s) \in 1..n /\ h[s \ {Max(s)}] \in A
      BY <1>5, <2>2, <2>3
    <3> QED
      BY <3>1 DEF F
  <2> HIDE DEF seq
  <2>4. Asked(h)
    BY <2>2, <2>3
  <2> QED
    BY <2>4
<1> DEFINE g == CHOOSE h : Asked(h)
<1>7. Asked(g)
  BY <1>6
<1> DEFINE P == {s \in SUBSET (1..n) : g[s] \in A}
<1> HIDE DEF g, seq
<1>8. {} \in P
  BY <1>7
<1>9. ASSUME NEW s \in SUBSET (1..n), s # {}, s \ {Max(s)} \in P
      PROVE  s \in P
  <2>1. Max(s) \in s /\ s \ {Max(s)} \in P
    BY <1>5, <1>9
  <2>2. g[s] = IF seq[Max(s)] \in Compared
               THEN g[s \ {Max(s)}] \o TradesOf(source, seq[Max(s)]) ELSE g[s \ {Max(s)}]
    BY <1>7, <1>9
  <2>3. seq[Max(s)] \in Compared => TradesOf(source, seq[Max(s)]) \in A
    BY TradesOfDay
  <2>4. g[s \ {Max(s)}] \in A
    BY <2>1
  <2>5. g[s] \in A
    BY <2>2, <2>3, <2>4
  <2> QED
    BY <2>5
<1> HIDE DEF P, Asked
<1>10. \A s \in SUBSET (1..n) : s \in P
  <2>1. \A s \in SUBSET (1..n) : (\A x \in s : s \ {x} \in P) => s \in P
    BY <1>5, <1>8, <1>9
  <2> QED
    BY <1>4, <2>1, ClimbByAll
<1>11. g[1..n] \in A
  BY <1>10 DEF P
<1> QED
  BY <1>2, <1>11 DEF g, A

(* The pairing.  The candidates of a trade have one nearest, the first of  *)
(* those at the least distance.                                            *)

LEMMA NearestIsOne ==
    ASSUME NEW bs \in Seq(Entered), NEW ps \in Seq(Entered), NEW b \in 1..Len(bs), NEW pairs
    PROVE  /\ Nearest(b, bs, ps, pairs) \in SUBSET Candidates(b, bs, ps, pairs)
           /\ \A j, l \in Nearest(b, bs, ps, pairs) : j = l
           /\ Candidates(b, bs, ps, pairs) # {} => Nearest(b, bs, ps, pairs) # {}
<1> DEFINE c == Candidates(b, bs, ps, pairs)
           gap(j) == Gap(ps[j], bs[b])
           before(j, l) == gap(j) < gap(l) \/ (gap(j) = gap(l) /\ j <= l)
<1>1. /\ c \in SUBSET (1..Len(ps)) /\ Len(ps) \in Nat
      /\ Nearest(b, bs, ps, pairs) = {j \in c : \A l \in c : before(j, l)}
  BY DEF Candidates, Nearest
<1>2. \A j \in c : j \in Int /\ gap(j) \in Int
  <2> SUFFICES ASSUME NEW j \in c PROVE j \in Int /\ gap(j) \in Int
    OBVIOUS
  <2>1. ps[j].moment \in Int /\ bs[b].moment \in Int
    <3>1. j \in 1..Len(ps)
      BY <1>1
    <3>2. ps[j] \in Entered /\ bs[b] \in Entered
      BY <3>1
    <3> QED
      BY <3>2 DEF Entered
  <2> QED
    BY <1>1, <2>1 DEF Gap
<1> HIDE DEF c, gap
<1>3. \A j, l \in c : before(j, l) /\ before(l, j) => j = l
  BY <1>2
<1> DEFINE P == {s \in SUBSET c : s = {} \/ \E j \in s : \A l \in s : before(j, l)}
<1>4. ASSUME NEW s \in SUBSET c, NEW x \in s, s \ {x} \in P
      PROVE  s \in P
  <2>0. gap(x) \in Int /\ x \in Int
    BY <1>2
  <2>1. CASE s \ {x} = {}
    <3>1. \A l \in s : before(x, l)
      BY <2>0, <2>1
    <3> QED
      BY <3>1
  <2>2. CASE s \ {x} # {}
    <3>1. PICK j \in s \ {x} : \A l \in s \ {x} : before(j, l)
      BY <1>4, <2>2
    <3>2. gap(j) \in Int /\ j \in Int
      BY <1>2
    <3>3. CASE before(j, x)
      <4>1. \A l \in s : before(j, l)
        BY <3>1, <3>3
      <4> QED
        BY <4>1
    <3>4. CASE ~ before(j, x)
      <4>1. ASSUME NEW l \in s PROVE before(x, l)
        <5>1. gap(l) \in Int /\ l \in Int
          BY <1>2
        <5>2. CASE l = x
          BY <2>0, <5>2
        <5>3. CASE l # x
          <6>1. before(j, l)
            BY <3>1, <5>3
          <6> QED
            BY <2>0, <3>2, <3>4, <5>1, <6>1
        <5> QED
          BY <5>2, <5>3
      <4> QED
        BY <4>1
    <3> QED
      BY <3>3, <3>4
  <2> QED
    BY <2>1, <2>2
<1>5. c \in P
  <2>1. IsFiniteSet(c)
    <3>1. IsFiniteSet(1..Len(ps))
      BY <1>1, FS_Interval
    <3> QED
      BY <1>1, <3>1, FS_Subset
  <2>2. {} \in P
    OBVIOUS
  <2> HIDE DEF P
  <2>3. \A s \in SUBSET c : \A x \in s : s \ {x} \in P => s \in P
    BY <1>4
  <2>4. \A s \in SUBSET c : s \in P
    BY <2>1, <2>2, <2>3, Climb
  <2> QED
    BY <2>4
<1> HIDE DEF before
<1> QED
  BY <1>1, <1>3, <1>5 DEF c

(* What is known of the pairs v when the backtest trades up to the k-th    *)
(* have been looked at.                                                    *)
Paired(k, v, bs, ps) ==
    /\ v \in SUBSET ((1..k) \X (1..Len(ps)))
    /\ \A q, o \in v : q = o \/ (q[1] # o[1] /\ q[2] # o[2])
    /\ \A b \in 1..k, j \in 1..Len(ps) :
          Pairable(ps[j], bs[b]) => \E q \in v : q[1] = b \/ q[2] = j

PairsWith(b, v, bs, ps) == v \cup {<<b, j>> : j \in Nearest(b, bs, ps, v)}

LEMMA PairsGrow ==
    ASSUME NEW bs \in Seq(Entered), NEW ps \in Seq(Entered), NEW k \in 1..Len(bs), NEW v,
           Paired(k - 1, v, bs, ps)
    PROVE  Paired(k, PairsWith(k, v, bs, ps), bs, ps)
<1> DEFINE N == Nearest(k, bs, ps, v)
           u == PairsWith(k, v, bs, ps)
           C == Candidates(k, bs, ps, v)
<1>0. k \in Nat /\ k - 1 \in Nat /\ k \in 1..k /\ k \notin 1..(k - 1)
      /\ 1..k = 1..(k - 1) \cup {k}
  <2>1. Len(bs) \in Nat
    OBVIOUS
  <2> QED
    BY <2>1
<1>1. N \in SUBSET C /\ (\A j, l \in N : j = l) /\ (C # {} => N # {})
  BY NearestIsOne
<1>2. C = {j \in 1..Len(ps) : Pairable(ps[j], bs[k]) /\ \A q \in v : q[2] # j}
  BY DEF Candidates
<1>3. u = v \cup {<<k, j>> : j \in N}
  BY DEF PairsWith
<1>4. v \in SUBSET ((1..(k - 1)) \X (1..Len(ps)))
  BY DEF Paired
<1> HIDE DEF N, u, C
<1>5. u \in SUBSET ((1..k) \X (1..Len(ps)))
  BY <1>0, <1>1, <1>2, <1>3, <1>4
<1>6. ASSUME NEW q \in u, NEW o \in u PROVE q = o \/ (q[1] # o[1] /\ q[2] # o[2])
  <2>1. CASE q \in v /\ o \in v
    BY <2>1 DEF Paired
  <2>2. \A j \in N, p \in v : p[1] # k /\ p[2] # j
    BY <1>0, <1>1, <1>2, <1>4
  <2>3. CASE q \in v /\ o \notin v
    <3>1. PICK j \in N : o = <<k, j>>
      BY <1>3, <2>3
    <3> QED
      BY <2>2, <2>3, <3>1
  <2>4. CASE q \notin v /\ o \in v
    <3>1. PICK j \in N : q = <<k, j>>
      BY <1>3, <2>4
    <3> QED
      BY <2>2, <2>4, <3>1
  <2>5. CASE q \notin v /\ o \notin v
    <3>1. PICK j \in N : q = <<k, j>>
      BY <1>3, <2>5
    <3>2. PICK l \in N : o = <<k, l>>
      BY <1>3, <2>5
    <3> QED
      BY <1>1, <3>1, <3>2
  <2> QED
    BY <2>1, <2>3, <2>4, <2>5
<1>7. ASSUME NEW b \in 1..k, NEW j \in 1..Len(ps), Pairable(ps[j], bs[b])
      PROVE  \E q \in u : q[1] = b \/ q[2] = j
  <2>1. CASE b \in 1..(k - 1)
    <3>1. \E q \in v : q[1] = b \/ q[2] = j
      BY <1>7, <2>1 DEF Paired
    <3> QED
      BY <1>3, <3>1
  <2>2. CASE b = k
    <3>1. CASE \E q \in v : q[2] = j
      BY <1>3, <3>1
    <3>2. CASE \A q \in v : q[2] # j
      <4>1. PICK l \in N : TRUE
        BY <1>1, <1>2, <1>7, <2>2, <3>2
      <4>2. <<k, l>> \in u /\ <<k, l>>[1] = b
        BY <1>3, <2>2
      <4> QED
        BY <4>2
    <3> QED
      BY <3>1, <3>2
  <2> QED
    BY <1>0, <2>1, <2>2
<1> QED
  BY <1>5, <1>6, <1>7 DEF Paired, u

LEMMA MatchedPairs ==
    ASSUME NEW bs \in Seq(Entered), NEW ps \in Seq(Entered)
    PROVE  Paired(Len(bs), Matched(bs, ps), bs, ps)
<1> DEFINE n == Len(bs)
           seq == [b \in 1..n |-> b]
           A == SUBSET (Nat \X Nat)
           F == [u \in (1..n) \X A |-> PairsWith(u[1], u[2], bs, ps)]
           Asked(h) == h = [s \in SUBSET (1..n) |->
                               IF s = {} THEN {}
                               ELSE h[s \ {Max(s)}] \cup
                                    {<<seq[Max(s)], j>> : j \in Nearest(seq[Max(s)], bs, ps, h[s \ {Max(s)}])}]
           Wanted(h) == h = [s \in SUBSET (1..n) |->
                               IF s = {} THEN {} ELSE PairsWith(Max(s), h[s \ {Max(s)}], bs, ps)]
<1>1. n \in Nat /\ DOMAIN seq = 1..n
  OBVIOUS
<1>2. Matched(bs, ps) = (CHOOSE h : Asked(h))[1..n]
  BY <1>1 DEF Matched, FoldLeft, MapThenFoldSet
<1>4. IsFiniteSet(1..n) /\ 1..n \in SUBSET Int
  BY <1>1, FS_Interval
<1>5. ASSUME NEW s \in SUBSET (1..n), s # {} PROVE Max(s) \in s /\ s \ {Max(s)} \in SUBSET (1..n)
  <2>1. IsFiniteSet(s) /\ s \in SUBSET Int
    BY <1>4, FS_Subset
  <2> HIDE DEF n
  <2> QED
    BY <1>5, <2>1, GreatestIn
<1>6. \A h : Asked(h) <=> Wanted(h)
  <2>1. ASSUME NEW h, NEW s \in SUBSET (1..n), s # {}
        PROVE  h[s \ {Max(s)}] \cup
                  {<<seq[Max(s)], j>> : j \in Nearest(seq[Max(s)], bs, ps, h[s \ {Max(s)}])}
                 = PairsWith(Max(s), h[s \ {Max(s)}], bs, ps)
    <3>1. seq[Max(s)] = Max(s)
      BY <1>5, <2>1
    <3> QED
      BY <3>1 DEF PairsWith
  <2> HIDE DEF seq, n
  <2>2. ASSUME NEW h
        PROVE  [s \in SUBSET (1..n) |->
                   IF s = {} THEN {}
                   ELSE h[s \ {Max(s)}] \cup
                        {<<seq[Max(s)], j>> : j \in Nearest(seq[Max(s)], bs, ps, h[s \ {Max(s)}])}]
               = [s \in SUBSET (1..n) |->
                   IF s = {} THEN {} ELSE PairsWith(Max(s), h[s \ {Max(s)}], bs, ps)]
    BY <2>1
  <2> QED
    BY <2>2
<1> HIDE DEF Asked
<1>3. \A k \in 1..n, v \in A : F[<<k, v>>] \in A
  <2> SUFFICES ASSUME NEW k \in 1..n, NEW v \in A PROVE PairsWith(k, v, bs, ps) \in A
    OBVIOUS
  <2>1. Nearest(k, bs, ps, v) \in SUBSET Nat
    <3>1. Nearest(k, bs, ps, v) \in SUBSET (1..Len(ps))
      BY NearestIsOne DEF Candidates
    <3> QED
      BY <3>1
  <2> QED
    BY <2>1 DEF PairsWith
<1> HIDE DEF n
<1>7. \E h : Wanted(h)
  <2>1. {} \in A
    OBVIOUS
  <2> HIDE DEF A, F
  <2>2. HasLeftTable(n, A, {}, F)
    BY <1>1, <1>3, <2>1, LeftTable
  <2>3. PICK h : /\ h = [s \in SUBSET (1..n) |->
                           IF s = {} THEN {} ELSE F[<<Max(s), h[s \ {Max(s)}]>>]]
                 /\ \A s \in SUBSET (1..n) : h[s] \in A
    BY <2>2 DEF HasLeftTable
  <2>4. ASSUME NEW s \in SUBSET (1..n), s # {}
        PROVE  F[<<Max(s), h[s \ {Max(s)}]>>] = PairsWith(Max(s), h[s \ {Max(s)}], bs, ps)
    <3>1. Max(s) \in 1..n /\ h[s \ {Max(s)}] \in A
      BY <1>5, <2>3, <2>4
    <3> QED
      BY <3>1 DEF F
  <2>5. Wanted(h)
    BY <2>3, <2>4
  <2> QED
    BY <2>5
<1> DEFINE g == CHOOSE h : Asked(h)
<1>8. Wanted(g)
  BY <1>6, <1>7
<1> HIDE DEF g
<1> DEFINE K == {k \in Nat : k <= n => Paired(k, g[1..k], bs, ps)}
<1>9. ASSUME NEW k \in Nat, \A m \in Nat : m < k => m \in K
      PROVE  k \in K
  <2> SUFFICES ASSUME k <= n PROVE Paired(k, g[1..k], bs, ps)
    OBVIOUS
  <2>1. CASE k = 0
    <3>1. 1..k = {} /\ g[{}] = {}
      BY <1>8, <2>1
    <3> QED
      BY <2>1, <3>1 DEF Paired
  <2>2. CASE k # 0
    <3>1. k - 1 \in Nat /\ k - 1 < k /\ k - 1 <= n /\ k \in 1..n
      BY <1>1, <2>2
    <3>2. Paired(k - 1, g[1..(k - 1)], bs, ps)
      BY <1>9, <3>1
    <3>3. Max(1..k) = k /\ (1..k) \ {k} = 1..(k - 1)
      BY <2>2, LastPlace
    <3>4. 1..k \in SUBSET (1..n) /\ 1..k # {}
      <4>1. n \in Nat /\ k \in Nat /\ k <= n /\ k # 0
        BY <1>1, <2>2
      <4> HIDE DEF g, K
      <4>2. \A x \in 1..k : x \in 1..n
        BY <4>1
      <4> QED
        BY <2>2, <4>2
    <3>5. g[1..k] = PairsWith(Max(1..k), g[(1..k) \ {Max(1..k)}], bs, ps)
      <4> HIDE DEF K
      <4> QED
        BY <1>8, <3>4
    <3>6. g[1..k] = PairsWith(k, g[1..(k - 1)], bs, ps)
      BY <3>3, <3>5
    <3>7. Paired(k, PairsWith(k, g[1..(k - 1)], bs, ps), bs, ps)
      BY <3>1, <3>2, PairsGrow DEF n
    <3> QED
      BY <3>6, <3>7
  <2> QED
    BY <2>1, <2>2
<1>10. K = Nat
  <2> HIDE DEF K
  <2>1. K \in SUBSET Nat
    BY DEF K
  <2> QED
    BY <1>9, <2>1, Ascent
<1>11. Paired(n, g[1..n], bs, ps)
  BY <1>1, <1>10
<1> QED
  BY <1>2, <1>11 DEF g, n

(* A sum over all trades of a side is one over those that are paired and   *)
(* one over the others; the first can be taken over the pairs.             *)
Divided(n, f, pairs, p, taken, left, all, rest, met) ==
    /\ n \in Nat /\ IsFiniteSet(pairs) /\ \A x \in 1..n : f[x] \in Int
    /\ \A q \in pairs : p[q] \in 1..n
    /\ \A q, o \in pairs : p[q] = p[o] => q = o
    /\ \A x : x \in taken <=> \E q \in pairs : x = p[q]
    /\ \A x : x \in left <=> x \in 1..n /\ x \notin taken
    /\ \A x \in 1..n : all[x] = f[x]
    /\ \A x \in left : rest[x] = f[x]
    /\ \A q \in pairs : met[q] = f[p[q]]

LEMMA SideAddsUp ==
    ASSUME NEW n, NEW f, NEW pairs, NEW p, NEW taken, NEW left, NEW all, NEW rest, NEW met,
           Divided(n, f, pairs, p, taken, left, all, rest, met)
    PROVE  /\ SumFunctionOnSet(all, 1..n)
                = SumFunctionOnSet(rest, left) + SumFunctionOnSet(met, pairs)
           /\ SumFunctionOnSet(rest, left) \in Int /\ SumFunctionOnSet(met, pairs) \in Int
<1> USE DEF Divided
<1>1. IsFiniteSet(1..n)
  BY FS_Interval
<1>2. /\ left \in SUBSET (1..n) /\ taken \in SUBSET (1..n)
      /\ left \cap taken = {} /\ left \cup taken = 1..n
  OBVIOUS
<1>3. IsFiniteSet(left) /\ IsFiniteSet(taken)
  BY <1>1, <1>2, FS_Subset, Zenon
<1>4. SumFunctionOnSet(f, taken) = SumFunctionOnSet(met, pairs)
  <2>1. \A q \in pairs : f[p[q]] = met[q] /\ met[q] \in Int
    OBVIOUS
  <2>2. SumFunctionOnSet(f, {p[q] : q \in pairs}) = SumFunctionOnSet(met, pairs)
    BY <2>1, SumOfPlaces
  <2>3. taken = {p[q] : q \in pairs}
    OBVIOUS
  <2> QED
    BY <2>2, <2>3
<1>5. /\ SumFunctionOnSet(f, left \cup taken)
            = SumFunctionOnSet(f, left) + SumFunctionOnSet(f, taken)
      /\ SumFunctionOnSet(f, left) \in Int /\ SumFunctionOnSet(f, taken) \in Int
  <2>1. \A x \in left \cup taken : f[x] \in Int
    BY <1>2
  <2>2. left \cap taken = {}
    BY <1>2
  <2> QED
    BY <1>3, <2>1, <2>2, SumOfParts, Zenon
<1>6. SumFunctionOnSet(all, 1..n) = SumFunctionOnSet(f, 1..n)
  BY <1>1, SumOfEquals
<1>7. SumFunctionOnSet(rest, left) = SumFunctionOnSet(f, left)
  BY <1>3, SumOfEquals
<1> QED
  BY <1>2, <1>4, <1>5, <1>6, <1>7

LEMMA ReconciledRight == RecordsInv => DivergenceIsAttributed
<1> SUFFICES ASSUME RecordsInv PROVE DivergenceIsAttributed
  OBVIOUS
<1> DEFINE r == Reconciled
           bs == AllTrades("backtest")
           ps == AllTrades("paper")
           v  == Matched(bs, ps)
           m  == Len(bs)
           n  == Len(ps)
           first  == {q[1] : q \in v}
           second == {q[2] : q \in v}
<1>1. bs \in Seq(Entered) /\ ps \in Seq(Entered)
  BY AllTradesAre DEF Sources
<1>2. /\ r.backtest = bs /\ r.paper = ps /\ r.pairs = v
      /\ r.missing = 1..m \ first /\ r.extra = 1..n \ second
  BY DEF Reconciled
<1> HIDE DEF bs, ps
<1>3. Paired(m, v, bs, ps)
  BY <1>1, MatchedPairs
<1>4. m \in Nat /\ n \in Nat
  BY <1>1
<1> HIDE DEF r, v, m, n
<1>5. /\ v \in SUBSET ((1..m) \X (1..n))
      /\ \A q, o \in v : q = o \/ (q[1] # o[1] /\ q[2] # o[2])
      /\ \A b \in 1..m, j \in 1..n :
            Pairable(ps[j], bs[b]) => \E q \in v : q[1] = b \/ q[2] = j
  BY <1>3 DEF Paired, n
<1>6. IsFiniteSet(v)
  <2>1. IsFiniteSet((1..m) \X (1..n))
    <3>1. IsFiniteSet(1..m) /\ IsFiniteSet(1..n)
      BY <1>4, FS_Interval
    <3> QED
      BY <3>1, FS_Product
  <2> QED
    BY <1>5, <2>1, FS_Subset
<1>7. \A q, o \in r.pairs : q = o \/ (q[1] # o[1] /\ q[2] # o[2])
  BY <1>2, <1>5
<1>8. \A b \in r.missing, p \in r.extra : ~ Pairable(r.paper[p], r.backtest[b])
  BY <1>2, <1>5
<1>9. Unexplained(r) = 0
  <2> DEFINE P == [k \in 1..n |-> ps[k].trip.net]
             B == [k \in 1..m |-> bs[k].trip.net]
             extra == [k \in r.extra |-> ps[k].trip.net]
             missing == [k \in r.missing |-> bs[k].trip.net]
             PP == [q \in v |-> ps[q[2]].trip.net]
             BB == [q \in v |-> bs[q[1]].trip.net]
             C == [q \in v |-> ps[q[2]].trip.costs - bs[q[1]].trip.costs]
             D == [q \in v |-> ps[q[2]].trip.net - bs[q[1]].trip.net]
             E == [q \in v |-> ps[q[2]].trip.net - bs[q[1]].trip.net
                                 + (ps[q[2]].trip.costs - bs[q[1]].trip.costs)]
  <2>1. \A k \in 1..n : ps[k].trip.net \in Int /\ ps[k].trip.costs \in Int
    <3>1. \A k \in 1..n : ps[k] \in Entered
      BY <1>1 DEF n
    <3>2. \A t \in RoundTrips : t.net \in Int /\ t.costs \in Int
      BY ReconciliationAssumption
    <3> QED
      BY <3>1, <3>2 DEF Entered
  <2>2. \A k \in 1..m : bs[k].trip.net \in Int /\ bs[k].trip.costs \in Int
    <3>1. \A k \in 1..m : bs[k] \in Entered
      BY <1>1 DEF m
    <3>2. \A t \in RoundTrips : t.net \in Int /\ t.costs \in Int
      BY ReconciliationAssumption
    <3> QED
      BY <3>1, <3>2 DEF Entered
  <2>3. \A q \in v : q[1] \in 1..m /\ q[2] \in 1..n
    BY <1>5
  <2>4. /\ SumFunctionOnSet(P, 1..n) = SumFunctionOnSet(extra, r.extra) + SumFunctionOnSet(PP, v)
        /\ SumFunctionOnSet(extra, r.extra) \in Int /\ SumFunctionOnSet(PP, v) \in Int
    <3> DEFINE p == [q \in v |-> q[2]]
    <3>1. /\ \A x \in 1..n : P[x] \in Int
          /\ \A q \in v : p[q] \in 1..n /\ PP[q] = P[p[q]]
          /\ \A q, o \in v : p[q] = p[o] => q = o
      BY <1>5, <2>1, <2>3
    <3>2. \A x : x \in second <=> \E q \in v : x = p[q]
      OBVIOUS
    <3>3. \A x : x \in r.extra <=> x \in 1..n /\ x \notin second
      BY <1>2
    <3>4. \A x \in r.extra : extra[x] = P[x]
      BY <1>2
    <3> HIDE DEF P, PP, extra, p, second
    <3>5. Divided(n, P, v, p, second, r.extra, P, extra, PP)
      BY <1>4, <1>6, <3>1, <3>2, <3>3, <3>4 DEF Divided
    <3> QED
      BY <3>5, SideAddsUp
  <2>5. /\ SumFunctionOnSet(B, 1..m) = SumFunctionOnSet(missing, r.missing) + SumFunctionOnSet(BB, v)
        /\ SumFunctionOnSet(missing, r.missing) \in Int /\ SumFunctionOnSet(BB, v) \in Int
    <3> DEFINE p == [q \in v |-> q[1]]
    <3>1. /\ \A x \in 1..m : B[x] \in Int
          /\ \A q \in v : p[q] \in 1..m /\ BB[q] = B[p[q]]
          /\ \A q, o \in v : p[q] = p[o] => q = o
      BY <1>5, <2>2, <2>3
    <3>2. \A x : x \in first <=> \E q \in v : x = p[q]
      OBVIOUS
    <3>3. \A x : x \in r.missing <=> x \in 1..m /\ x \notin first
      BY <1>2
    <3>4. \A x \in r.missing : missing[x] = B[x]
      BY <1>2
    <3> HIDE DEF B, BB, missing, p, first
    <3>5. Divided(m, B, v, p, first, r.missing, B, missing, BB)
      BY <1>4, <1>6, <3>1, <3>2, <3>3, <3>4 DEF Divided
    <3> QED
      BY <3>5, SideAddsUp
  <2>6. /\ SumFunctionOnSet(E, v) = SumFunctionOnSet(D, v) + SumFunctionOnSet(C, v)
        /\ SumFunctionOnSet(D, v) \in Int /\ SumFunctionOnSet(C, v) \in Int
    <3>1. \A q \in v : D[q] \in Int /\ C[q] \in Int /\ E[q] = D[q] + C[q]
      BY <2>1, <2>2, <2>3
    <3> HIDE DEF D, C, E
    <3> QED
      BY <1>6, <3>1, SumOfBoth
  <2>7. SumFunctionOnSet(PP, v) = SumFunctionOnSet(D, v) + SumFunctionOnSet(BB, v)
    <3>1. \A q \in v : D[q] \in Int /\ BB[q] \in Int /\ PP[q] = D[q] + BB[q]
      BY <2>1, <2>2, <2>3
    <3> HIDE DEF D, BB, PP
    <3> QED
      BY <1>6, <3>1, SumOfBoth
  <2>8. PnlDivergence(r) = SumFunctionOnSet(P, 1..n) - SumFunctionOnSet(B, 1..m)
    BY <1>2 DEF PnlDivergence, SumOf, Paper, Bt, m, n
  <2>9. Attribution(r) = [missing |-> -SumFunctionOnSet(missing, r.missing),
                          extra |-> SumFunctionOnSet(extra, r.extra),
                          costs |-> -SumFunctionOnSet(C, v), fills |-> SumFunctionOnSet(E, v)]
    BY <1>2 DEF Attribution, SumOf, Paper, Bt, CostDivergence
  <2>10. Unexplained(r) = PnlDivergence(r) - (-SumFunctionOnSet(missing, r.missing)
            + SumFunctionOnSet(extra, r.extra) + -SumFunctionOnSet(C, v) + SumFunctionOnSet(E, v))
    BY <2>9 DEF Unexplained
  <2> HIDE DEF P, B, extra, missing, PP, BB, C, D, E
  <2> QED
    BY <2>4, <2>5, <2>6, <2>7, <2>8, <2>10
<1> QED
  BY <1>7, <1>8, <1>9 DEF DivergenceIsAttributed, r

(* For any days, trades, saves and cut files: what paper and backtest      *)
(* differ by is put down to missing and extra trades, costs and fills, no  *)
(* trade is in two pairs, and no two that could be one are left over.      *)
THEOREM DivergenceIsPutDown == Spec => []DivergenceIsAttributed
<1>1. Init => RecordsInv
  BY InitRecordsInv DEF Init
<1>2. RecordsInv /\ [Next]_vars => RecordsInv'
  <2> SUFFICES ASSUME RecordsInv, [Next]_vars PROVE RecordsInv'
    OBVIOUS
  <2>1. [RecordsNext]_recordVars
    BY DEF Next, vars
  <2> QED
    BY <2>1, NextRecordsInv
<1> QED
  BY <1>1, <1>2, ReconciledRight, PTL DEF Spec

----------------------------------------------------------------------------
(* The walk-forward.  The trading days of a span come in their order.      *)

Rising(s) == \A x, y \in 1..Len(s) : x < y => s[x] < s[y]

LEMMA RisingAppended ==
    ASSUME NEW s \in Seq(Int), Rising(s), NEW d \in Int, \A x \in 1..Len(s) : s[x] < d
    PROVE  Append(s, d) \in Seq(Int) /\ Rising(Append(s, d))
           /\ \A x \in 1..Len(Append(s, d)) : Append(s, d)[x] <= d
<1> DEFINE t == Append(s, d)
<1>1. /\ t \in Seq(Int) /\ Len(t) = Len(s) + 1 /\ Len(s) \in Nat
      /\ \A x \in 1..Len(s) : t[x] = s[x] /\ s[x] \in Int
      /\ t[Len(s) + 1] = d
  OBVIOUS
<1> HIDE DEF t
<1>2. ASSUME NEW x \in 1..Len(t), NEW y \in 1..Len(t), x < y PROVE t[x] < t[y]
  <2>1. x \in 1..Len(s)
    BY <1>1, <1>2
  <2>2. CASE y \in 1..Len(s)
    BY <1>1, <1>2, <2>1, <2>2 DEF Rising
  <2>3. CASE y = Len(s) + 1
    BY <1>1, <1>2, <2>1, <2>3
  <2> QED
    BY <1>1, <2>2, <2>3
<1>3. ASSUME NEW x \in 1..Len(t) PROVE t[x] <= d
  <2>1. CASE x \in 1..Len(s)
    BY <1>1, <2>1
  <2>2. CASE x = Len(s) + 1
    BY <1>1, <2>2
  <2> QED
    BY <1>1, <2>1, <2>2
<1> QED
  BY <1>1, <1>2, <1>3 DEF Rising, t

LEMMA DaysRise ==
    ASSUME NEW ends, ends[1] \in Nat, ends[2] \in Nat
    PROVE  DaysOf(ends) \in Seq(Int) /\ Rising(DaysOf(ends))
<1> DEFINE l == ends[2] - ends[1] + 1
           n == IF l < 0 THEN 0 ELSE l
           seq == [k \in 1..l |-> ends[1] + k - 1]
           A == Seq(Int)
           F == [u \in (1..n) \X A |-> IF IsTradingDay(seq[u[1]])
                                       THEN Append(u[2], seq[u[1]]) ELSE u[2]]
           Asked(h) == h = [s \in SUBSET (1..n) |->
                               IF s = {} THEN <<>>
                               ELSE IF IsTradingDay(seq[Max(s)])
                                    THEN Append(h[s \ {Max(s)}], seq[Max(s)])
                                    ELSE h[s \ {Max(s)}]]
<1>1. n \in Nat /\ 1..l = 1..n
  OBVIOUS
<1>2. DOMAIN seq = 1..n /\ \A k \in 1..n : seq[k] = ends[1] + k - 1 /\ seq[k] \in Int
  BY <1>1
<1>3. DaysOf(ends) = (CHOOSE h : Asked(h))[1..n]
  BY <1>2 DEF DaysOf, FoldLeft, MapThenFoldSet
<1>4. IsFiniteSet(1..n) /\ 1..n \in SUBSET Int
  BY <1>1, FS_Interval
<1> HIDE DEF n, seq, l
<1>5. ASSUME NEW s \in SUBSET (1..n), s # {} PROVE Max(s) \in s /\ s \ {Max(s)} \in SUBSET (1..n)
  <2>1. IsFiniteSet(s) /\ s \in SUBSET Int
    BY <1>4, FS_Subset
  <2> QED
    BY <1>5, <2>1, GreatestIn
<1>6. \A k \in 1..n, v \in A : F[<<k, v>>] \in A
  BY <1>2
<1>7. \E h : Asked(h)
  <2>1. <<>> \in A
    OBVIOUS
  <2> HIDE DEF A, F
  <2>2. HasLeftTable(n, A, <<>>, F)
    BY <1>1, <1>6, <2>1, LeftTable
  <2>3. PICK h : /\ h = [s \in SUBSET (1..n) |->
                           IF s = {} THEN <<>> ELSE F[<<Max(s), h[s \ {Max(s)}]>>]]
                 /\ \A s \in SUBSET (1..n) : h[s] \in A
    BY <2>2 DEF HasLeftTable
  <2>4. ASSUME NEW s \in SUBSET (1..n), s # {}
        PROVE  F[<<Max(s), h[s \ {Max(s)}]>>] = IF IsTradingDay(seq[Max(s)])
                                    THEN Append(h[s \ {Max(s)}], seq[Max(s)])
                                    ELSE h[s \ {Max(s)}]
    <3>1. Max(s) \in 1..n /\ h[s \ {Max(s)}] \in A
      BY <1>5, <2>3, <2>4
    <3> QED
      BY <3>1 DEF F
  <2>5. Asked(h)
    BY <2>3, <2>4
  <2> QED
    BY <2>5
<1> DEFINE g == CHOOSE h : Asked(h)
<1>8. Asked(g)
  BY <1>7
<1> HIDE DEF g
<1> DEFINE Good(k, v) == /\ v \in Seq(Int) /\ Rising(v)
                         /\ \A x \in 1..Len(v) : v[x] < ends[1] + k
           K == {k \in Nat : k <= n => Good(k, g[1..k])}
<1>9. ASSUME NEW k \in Nat, \A m \in Nat : m < k => m \in K
      PROVE  k \in K
  <2> SUFFICES ASSUME k <= n PROVE Good(k, g[1..k])
    OBVIOUS
  <2>1. CASE k = 0
    <3>1. 1..k = {} /\ g[{}] = <<>>
      BY <1>8, <2>1
    <3>2. Good(k, <<>>)
      BY DEF Rising
    <3> QED
      BY <3>1, <3>2
  <2>2. CASE k # 0
    <3>1. k - 1 \in Nat /\ k - 1 < k /\ k - 1 <= n /\ k \in 1..n
      BY <1>1, <2>2
    <3> DEFINE v == g[1..(k - 1)]
    <3>2. Good(k - 1, v)
      BY <1>9, <3>1
    <3>3. Max(1..k) = k /\ (1..k) \ {k} = 1..(k - 1)
      BY <2>2, LastPlace
    <3>4. 1..k \in SUBSET (1..n) /\ 1..k # {}
      <4>1. n \in Nat /\ k \in Nat /\ k <= n /\ k # 0
        BY <1>1, <2>2
      <4> HIDE DEF g, K
      <4>2. \A x \in 1..k : x \in 1..n
        BY <4>1
      <4> QED
        BY <2>2, <4>2
    <3>5. g[1..k] = IF IsTradingDay(seq[k]) THEN Append(v, seq[k]) ELSE v
      <4> HIDE DEF K
      <4> QED
        BY <1>8, <3>3, <3>4
    <3>6. seq[k] = ends[1] + k - 1 /\ seq[k] \in Int
      BY <1>2, <3>1
    <3> HIDE DEF v, K
    <3>7. /\ v \in Seq(Int) /\ Rising(v) /\ Len(v) \in Nat
          /\ \A x \in 1..Len(v) : v[x] < seq[k] /\ v[x] \in Int
      BY <3>2, <3>6
    <3>8. CASE IsTradingDay(seq[k])
      <4>1. /\ Append(v, seq[k]) \in Seq(Int) /\ Rising(Append(v, seq[k]))
            /\ \A x \in 1..Len(Append(v, seq[k])) : Append(v, seq[k])[x] <= seq[k]
        BY <3>6, <3>7, RisingAppended
      <4> DEFINE t == Append(v, seq[k])
      <4>2. g[1..k] = t
        BY <3>5, <3>8
      <4>3. \A x \in 1..Len(t) : t[x] \in Int
        BY <4>1
      <4> HIDE DEF t
      <4>4. \A x \in 1..Len(t) : t[x] < ends[1] + k
        BY <3>6, <4>1, <4>3 DEF t
      <4> QED
        BY <4>1, <4>2, <4>4 DEF t
    <3>9. CASE ~ IsTradingDay(seq[k])
      <4>1. g[1..k] = v
        BY <3>5, <3>9
      <4>2. \A x \in 1..Len(v) : v[x] < ends[1] + k
        BY <3>6, <3>7
      <4> QED
        BY <3>7, <4>1, <4>2
    <3> QED
      BY <3>8, <3>9
  <2> QED
    BY <2>1, <2>2
<1>10. K = Nat
  <2> HIDE DEF K
  <2>1. K \in SUBSET Nat
    BY DEF K
  <2> QED
    BY <1>9, <2>1, Ascent
<1>11. Good(n, g[1..n])
  BY <1>1, <1>10
<1> QED
  BY <1>3, <1>11 DEF g

LEMMA DaysOfPart ==
    ASSUME NEW s \in Seq(Int), NEW a \in Nat \ {0}, NEW b \in Nat, b <= Len(s)
    PROVE  SubSeq(s, a, b) \in Seq(Int) /\ Days(SubSeq(s, a, b)) = {s[x] : x \in a..b}
<1> DEFINE t == SubSeq(s, a, b)
<1>0. Len(s) \in Nat
  OBVIOUS
<1>1. /\ t \in Seq(Int) /\ Len(t) = (IF a <= b + 1 THEN b + 1 - a ELSE 0)
      /\ \A x \in 1..Len(t) : t[x] = s[a + x - 1]
  BY <1>0
<1> HIDE DEF t
<1>2. Days(t) = {t[x] : x \in 1..Len(t)}
  <2>1. DOMAIN t = 1..Len(t)
    BY <1>1
  <2> QED
    BY <2>1 DEF Days, ToSet
<1>3. ASSUME NEW x \in a..b PROVE s[x] \in Days(t)
  <2>1. x - a + 1 \in 1..Len(t) /\ a + (x - a + 1) - 1 = x
    BY <1>1
  <2>2. t[x - a + 1] = s[x]
    BY <1>1, <2>1
  <2> QED
    BY <1>2, <2>1, <2>2
<1>4. ASSUME NEW y \in 1..Len(t) PROVE t[y] \in {s[x] : x \in a..b}
  <2>1. a + y - 1 \in a..b
    BY <1>1
  <2> QED
    BY <1>1, <2>1
<1> QED
  BY <1>1, <1>2, <1>3, <1>4 DEF t

(* The k-th window lies within the days.                                   *)
LEMMA WindowFits ==
    ASSUME NEW days \in Seq(Int), NEW k \in 1..Len(Windows(days))
    PROVE  /\ k \in Nat \ {0} /\ (k - 1) * TestDays \in Nat
           /\ (k - 1) * TestDays + TrainDays + TestDays <= Len(days)
           /\ Windows(days)[k]
                = [train |-> SubSeq(days, (k - 1) * TestDays + 1, (k - 1) * TestDays + TrainDays),
                   test  |-> SubSeq(days, (k - 1) * TestDays + TrainDays + 1,
                                    (k - 1) * TestDays + TrainDays + TestDays)]
<1> DEFINE l == Len(days)
           r == l - TrainDays - TestDays
           n == IF l < TrainDays + TestDays THEN 0 ELSE r \div TestDays + 1
<1>0. TrainDays \in Nat \ {0} /\ TestDays \in Nat \ {0} /\ l \in Nat
  BY WalkAssumption
<1> HIDE DEF l
<1>1. n \in Nat
  <2>1. CASE l < TrainDays + TestDays
    BY <2>1
  <2>2. CASE ~ (l < TrainDays + TestDays)
    <3>1. r \in Nat
      BY <1>0, <2>2
    <3> HIDE DEF r
    <3>2. r \div TestDays \in Nat
      BY <1>0, <3>1
    <3> QED
      BY <2>2, <3>2
  <2> QED
    BY <2>1, <2>2
<1>2. Windows(days) = [j \in 1..n |->
            [train |-> SubSeq(days, (j - 1) * TestDays + 1, (j - 1) * TestDays + TrainDays),
             test  |-> SubSeq(days, (j - 1) * TestDays + TrainDays + 1,
                              (j - 1) * TestDays + TrainDays + TestDays)]]
  BY DEF Windows, Step, l
<1>3. k \in 1..n
  <2> HIDE DEF n
  <2> QED
    BY <1>1, <1>2
<1>4. l >= TrainDays + TestDays /\ r \in Nat /\ k \in Nat \ {0} /\ k - 1 <= r \div TestDays
  BY <1>0, <1>1, <1>3
<1> HIDE DEF n
<1>5. (k - 1) * TestDays \in Nat /\ (k - 1) * TestDays <= r
  <2> DEFINE q == r \div TestDays
  <2> HIDE DEF r
  <2>1. r = TestDays * q + (r % TestDays) /\ r % TestDays \in 0..(TestDays - 1) /\ q \in Nat
    BY <1>0, <1>4
  <2>2. q - (k - 1) \in Nat /\ k - 1 \in Nat
    BY <1>4, <2>1
  <2> HIDE DEF q
  <2>3. \A x, y \in Nat : x * y \in Nat
    OBVIOUS
  <2>4. (q - (k - 1)) * TestDays \in Nat /\ (k - 1) * TestDays \in Nat
    BY <1>0, <2>2, <2>3
  <2>5. (q - (k - 1)) * TestDays = q * TestDays - (k - 1) * TestDays
    BY <1>0, <2>1, <2>2
  <2>6. q * TestDays <= r
    BY <1>0, <1>4, <2>1
  <2> QED
    BY <1>0, <1>4, <2>1, <2>4, <2>5, <2>6
<1>6. (k - 1) * TestDays + TrainDays + TestDays <= l
  BY <1>0, <1>4, <1>5
<1> QED
  BY <1>2, <1>3, <1>4, <1>5, <1>6 DEF l

(* The days of a window: consecutive ones, the training days first.        *)
Offset(k) == (k - 1) * TestDays

LEMMA WindowDays ==
    ASSUME NEW days \in Seq(Int), NEW k \in 1..Len(Windows(days)),
           NEW a, a = Offset(k)
    PROVE  /\ a \in Nat /\ a + TrainDays + TestDays <= Len(days)
           /\ Days(Windows(days)[k].train) = {days[x] : x \in a + 1..a + TrainDays}
           /\ Days(Windows(days)[k].test)
                = {days[x] : x \in a + TrainDays + 1..a + TrainDays + TestDays}
<1> DEFINE b == (k - 1) * TestDays
<1>a. /\ b \in Nat /\ b + TrainDays + TestDays <= Len(days)
      /\ Windows(days)[k] = [train |-> SubSeq(days, b + 1, b + TrainDays),
                             test |-> SubSeq(days, b + TrainDays + 1, b + TrainDays + TestDays)]
  BY WindowFits
<1>b. a = b
  BY DEF Offset
<1> HIDE DEF b
<1>1. /\ a \in Nat /\ a + TrainDays + TestDays <= Len(days)
      /\ Windows(days)[k].train = SubSeq(days, a + 1, a + TrainDays)
      /\ Windows(days)[k].test = SubSeq(days, a + TrainDays + 1, a + TrainDays + TestDays)
  <2> DEFINE u == SubSeq(days, b + 1, b + TrainDays)
             v == SubSeq(days, b + TrainDays + 1, b + TrainDays + TestDays)
  <2>1. Windows(days)[k] = [train |-> u, test |-> v]
    BY <1>a
  <2>2. u = SubSeq(days, a + 1, a + TrainDays)
        /\ v = SubSeq(days, a + TrainDays + 1, a + TrainDays + TestDays)
    BY <1>b
  <2> HIDE DEF u, v
  <2>3. Windows(days)[k].train = u /\ Windows(days)[k].test = v
    BY <2>1
  <2> QED
    BY <1>a, <1>b, <2>2, <2>3
<1>2. TrainDays \in Nat /\ TestDays \in Nat /\ Len(days) \in Nat
  BY WalkAssumption
<1>3. /\ a + 1 \in Nat \ {0} /\ a + TrainDays \in Nat /\ a + TrainDays <= Len(days)
      /\ a + TrainDays + 1 \in Nat \ {0} /\ a + TrainDays + TestDays \in Nat
  <2> DEFINE l == Len(days)
  <2>1. l \in Nat /\ b + TrainDays + TestDays <= l /\ b \in Nat
    BY <1>1, <1>2, <1>b
  <2> HIDE DEF l
  <2>2. /\ b + 1 \in Nat \ {0} /\ b + TrainDays \in Nat /\ b + TrainDays <= l
        /\ b + TrainDays + 1 \in Nat \ {0} /\ b + TrainDays + TestDays \in Nat
    BY <1>2, <2>1
  <2> QED
    BY <1>b, <2>2 DEF l
<1>4. /\ Days(SubSeq(days, a + 1, a + TrainDays)) = {days[x] : x \in a + 1..a + TrainDays}
      /\ Days(SubSeq(days, a + TrainDays + 1, a + TrainDays + TestDays))
           = {days[x] : x \in a + TrainDays + 1..a + TrainDays + TestDays}
  BY <1>1, <1>3, DaysOfPart
<1> QED
  BY <1>1, <1>4

LEMMA TrainBeforeTest ==
    ASSUME NEW days \in Seq(Int), Rising(days), NEW k \in 1..Len(Windows(days)),
           NEW d \in Days(Windows(days)[k].train), NEW e \in Days(Windows(days)[k].test)
    PROVE  d < e
<1> DEFINE a == Offset(k)
<1>1. /\ a \in Nat /\ a + TrainDays + TestDays <= Len(days)
      /\ Days(Windows(days)[k].train) = {days[x] : x \in a + 1..a + TrainDays}
      /\ Days(Windows(days)[k].test)
           = {days[x] : x \in a + TrainDays + 1..a + TrainDays + TestDays}
  BY WindowDays
<1>2. TrainDays \in Nat /\ TestDays \in Nat /\ Len(days) \in Nat
  BY WalkAssumption
<1> HIDE DEF a
<1>3. PICK x \in a + 1..a + TrainDays : d = days[x]
  BY <1>1
<1>4. PICK y \in a + TrainDays + 1..a + TrainDays + TestDays : e = days[y]
  BY <1>1
<1>5. x \in 1..Len(days) /\ y \in 1..Len(days) /\ x < y
  BY <1>1, <1>2
<1> QED
  BY <1>3, <1>4, <1>5 DEF Rising

LEMMA TestsApart ==
    ASSUME NEW days \in Seq(Int), Rising(days), NEW k \in 1..Len(Windows(days)),
           NEW l \in 1..Len(Windows(days)), k < l
    PROVE  Days(Windows(days)[k].test) \cap Days(Windows(days)[l].test) = {}
<1> DEFINE a == Offset(k)
           b == Offset(l)
<1>1. /\ a \in Nat /\ b \in Nat
      /\ a + TrainDays + TestDays <= Len(days) /\ b + TrainDays + TestDays <= Len(days)
      /\ Days(Windows(days)[k].test)
           = {days[x] : x \in a + TrainDays + 1..a + TrainDays + TestDays}
      /\ Days(Windows(days)[l].test)
           = {days[x] : x \in b + TrainDays + 1..b + TrainDays + TestDays}
  BY WindowDays
<1>2. TrainDays \in Nat /\ TestDays \in Nat /\ Len(days) \in Nat
  BY WalkAssumption
<1>3. a + TestDays <= b
  <2>1. k \in Int /\ l \in Int /\ l - 1 - k \in Nat
    <3>1. k \in Nat \ {0} /\ l \in Nat \ {0}
      BY WindowFits
    <3> QED
      BY <3>1
  <2>2. \A x, y \in Nat : x * y \in Nat
    OBVIOUS
  <2>3. (l - 1 - k) * TestDays \in Nat
    BY <1>2, <2>1, <2>2
  <2>4. (l - 1 - k) * TestDays = b - a - TestDays
    BY <1>2, <2>1 DEF Offset
  <2> HIDE DEF a, b
  <2> QED
    BY <1>1, <1>2, <2>3, <2>4
<1> HIDE DEF a, b
<1> SUFFICES ASSUME NEW d, d \in Days(Windows(days)[k].test), d \in Days(Windows(days)[l].test)
             PROVE  FALSE
  OBVIOUS
<1>4. PICK x \in a + TrainDays + 1..a + TrainDays + TestDays : d = days[x]
  BY <1>1
<1>5. PICK y \in b + TrainDays + 1..b + TrainDays + TestDays : d = days[y]
  BY <1>1
<1>6. x \in 1..Len(days) /\ y \in 1..Len(days) /\ x < y
  BY <1>1, <1>2, <1>3
<1>7. days[x] < days[y] /\ days[x] \in Int
  BY <1>6 DEF Rising
<1> QED
  BY <1>4, <1>5, <1>7

(* The development days come in their order.                               *)
LEMMA DevelopmentRises ==
    ASSUME NEW days \in Seq(Int), Rising(days), NEW s, s = SplitHoldout(days)
    PROVE  s.development \in Seq(Int) /\ Rising(s.development)
<1> DEFINE l == Len(days)
           c == (l * (100 - HoldoutPercent)) \div 100
           dev == SubSeq(days, 1, c)
<1>1. l \in Nat /\ HoldoutPercent \in 1..99
  BY WalkAssumption
<1>2. c \in Nat /\ c <= l
  <2> DEFINE y == l * (100 - HoldoutPercent)
  <2>1. y \in Nat /\ y <= l * 100
    <3>1. 100 - HoldoutPercent \in Nat
      BY <1>1
    <3>2. \A x, z \in Nat : x * z \in Nat
      OBVIOUS
    <3>3. l * HoldoutPercent \in Nat /\ y \in Nat
      BY <1>1, <3>1, <3>2
    <3>4. y = l * 100 - l * HoldoutPercent
      BY <1>1
    <3> HIDE DEF y, l
    <3> QED
      BY <1>1, <3>3, <3>4
  <2> HIDE DEF y, l
  <2> QED
    BY <1>1, <2>1 DEF y
<1>3. s.development = dev
  BY DEF SplitHoldout
<1> HIDE DEF c
<1>4. /\ dev \in Seq(Int) /\ Len(dev) = c
      /\ \A x \in 1..c : dev[x] = days[x]
  BY <1>1, <1>2
<1>5. Rising(dev)
  <2> HIDE DEF dev, l
  <2>1. \A x \in 1..c : x \in 1..l
    BY <1>1, <1>2
  <2> QED
    BY <1>4, <2>1 DEF Rising, l
<1> QED
  BY <1>3, <1>4, <1>5

(* A fold is of a window gone by, with the best of the parameters that     *)
(* did well enough; no day is tested on in two.                            *)
Window == [train : Seq(Int), test : Seq(Int)]
Fold == [window : Window, params : 1..Combinations,
         ran : [1..Combinations -> RunResults], out : RunOutcomes]

WalkInv ==
    LET dev == walk[1]
    IN  /\ nextFold \in Nat \ {0} /\ folds \in Seq(Fold)
        /\ walk = <<>> => folds = <<>>
        /\ walk # <<>> => \E days \in Seq(Int) : Rising(days) /\ walk = <<days>>
        /\ split # <<>> => \E days \in Seq(Int) : Rising(days) /\ split = <<SplitHoldout(days)>>
        /\ \A f \in 1..Len(folds) :
              /\ \E k \in 1..Len(Windows(dev)) : k < nextFold /\ folds[f].window = Windows(dev)[k]
              /\ folds[f].params \in Best(folds[f].ran)
        /\ \A f \in 1..Len(folds) : \A g \in 1..f - 1 :
              Days(folds[g].window.test) \cap Days(folds[f].window.test) = {}

LEMMA InitWalkInv == WalkInit => WalkInv
<1> SUFFICES ASSUME WalkInit PROVE WalkInv
  OBVIOUS
<1>1. split = <<>> /\ walk = <<>> /\ nextFold = 1 /\ folds = <<>>
  BY DEF WalkInit
<1>2. <<>> \in Seq(Fold) /\ Len(<<>>) = 0
  OBVIOUS
<1>3. \A f \in 1..Len(folds) : FALSE
  BY <1>1, <1>2
<1> QED
  BY <1>1, <1>2, <1>3 DEF WalkInv

LEMMA SpanRises ==
    ASSUME NEW ends \in ResearchSpans
    PROVE  DaysOf(ends) \in Seq(Int) /\ Rising(DaysOf(ends))
<1>1. ends[1] \in Nat /\ ends[2] \in Nat
  BY WalkAssumption
<1> QED
  BY <1>1, DaysRise

LEMMA SplitsWalkInv ==
    ASSUME WalkInv, NEW ends \in ResearchSpans, Splits(ends)
    PROVE  WalkInv'
<1>1. /\ walk' = walk /\ nextFold' = nextFold /\ folds' = folds
      /\ split' = <<SplitHoldout(DaysOf(ends))>>
  BY DEF Splits
<1>2. \E days \in Seq(Int) : Rising(days) /\ split' = <<SplitHoldout(days)>>
  BY <1>1, SpanRises
<1> QED
  BY <1>1, <1>2 DEF WalkInv

LEMMA DevelopmentIs ==
    ASSUME WalkInv, split # <<>>
    PROVE  split[1].development \in Seq(Int) /\ Rising(split[1].development)
<1>1. PICK days \in Seq(Int) : Rising(days) /\ split = <<SplitHoldout(days)>>
  BY DEF WalkInv
<1>2. split[1] = SplitHoldout(days)
  BY <1>1
<1> QED
  BY <1>1, <1>2, DevelopmentRises

LEMMA WalksWalkInv ==
    ASSUME WalkInv, NEW days \in Seq(Int), Rising(days), Walks(days)
    PROVE  WalkInv'
<1>1. walk' = <<days>> /\ nextFold' = 1 /\ folds' = <<>> /\ split' = split
  BY DEF Walks
<1>2. <<>> \in Seq(Fold) /\ Len(<<>>) = 0
  OBVIOUS
<1>3. \A f \in 1..Len(folds') : FALSE
  BY <1>1, <1>2
<1>4. \E d \in Seq(Int) : Rising(d) /\ walk' = <<d>>
  BY <1>1
<1>5. split' # <<>> => \E d \in Seq(Int) : Rising(d) /\ split' = <<SplitHoldout(d)>>
  BY <1>1 DEF WalkInv
<1>6. nextFold' \in Nat \ {0} /\ folds' \in Seq(Fold) /\ walk' # <<>>
  BY <1>1, <1>2
<1> QED
  BY <1>3, <1>4, <1>5, <1>6 DEF WalkInv

LEMMA WalkIs ==
    ASSUME WalkInv, walk # <<>>
    PROVE  walk[1] \in Seq(Int) /\ Rising(walk[1])
<1>1. PICK days \in Seq(Int) : Rising(days) /\ walk = <<days>>
  BY DEF WalkInv
<1> QED
  BY <1>1

LEMMA WindowIs ==
    ASSUME NEW days \in Seq(Int), NEW k \in 1..Len(Windows(days))
    PROVE  Windows(days)[k] \in Window
<1> DEFINE o == (k - 1) * TestDays
<1>1. /\ o \in Nat /\ o + TrainDays + TestDays <= Len(days)
      /\ Windows(days)[k] = [train |-> SubSeq(days, o + 1, o + TrainDays),
                             test |-> SubSeq(days, o + TrainDays + 1, o + TrainDays + TestDays)]
  BY WindowFits
<1> HIDE DEF o
<1> DEFINE l == Len(days)
<1>2. TrainDays \in Nat /\ TestDays \in Nat /\ l \in Nat
  BY WalkAssumption
<1>3. /\ o + 1 \in Nat \ {0} /\ o + TrainDays \in Nat /\ o + TrainDays <= l
      /\ o + TrainDays + 1 \in Nat \ {0} /\ o + TrainDays + TestDays \in Nat
  <2>1. o \in Nat /\ o + TrainDays + TestDays <= l
    BY <1>1
  <2> HIDE DEF l
  <2> QED
    BY <1>2, <2>1
<1>4. SubSeq(days, o + 1, o + TrainDays) \in Seq(Int)
  BY <1>3, DaysOfPart
<1>5. SubSeq(days, o + TrainDays + 1, o + TrainDays + TestDays) \in Seq(Int)
  BY <1>1, <1>3, DaysOfPart
<1> QED
  BY <1>1, <1>4, <1>5 DEF Window

LEMMA RunFoldWalkInv ==
    ASSUME WalkInv, NEW inSample \in [1..Combinations -> RunResults], NEW out \in RunResults,
           RunFold(inSample, out)
    PROVE  WalkInv'
<1> DEFINE dev == walk[1]
           n == nextFold
           m == Len(folds)
<1>1. walk # <<>> /\ walk' = walk /\ n \in 1..Len(Windows(dev)) /\ nextFold' = n + 1
  <2>1. walk # <<>> /\ walk' = walk /\ n <= Len(Windows(dev)) /\ nextFold' = n + 1
        /\ n \in Nat \ {0}
    BY DEF RunFold, WalkInv
  <2>2. Len(Windows(dev)) \in Nat
    <3>1. Windows(dev) \in Seq(Window)
      <4> DEFINE c == IF Len(dev) < TrainDays + TestDays THEN 0
                      ELSE (Len(dev) - TrainDays - TestDays) \div Step + 1
      <4>1. dev \in Seq(Int)
        BY <2>1, WalkIs
      <4>2. \A k \in 1..Len(Windows(dev)) : Windows(dev)[k] \in Window
        BY <4>1, WindowIs
      <4>3. c \in Nat
        <5>1. TrainDays \in Nat \ {0} /\ TestDays \in Nat \ {0} /\ Len(dev) \in Nat
          BY <4>1, WalkAssumption
        <5> HIDE DEF dev
        <5>2. CASE Len(dev) < TrainDays + TestDays
          BY <5>2
        <5>3. CASE ~ (Len(dev) < TrainDays + TestDays)
          <6> DEFINE r == Len(dev) - TrainDays - TestDays
          <6>1. r \in Nat
            BY <5>1, <5>3
          <6> HIDE DEF r
          <6>2. r \div TestDays \in Nat
            BY <5>1, <6>1
          <6> QED
            BY <5>3, <6>2 DEF r, Step
        <5> QED
          BY <5>2, <5>3
      <4>4. DOMAIN Windows(dev) = 1..c /\ Len(Windows(dev)) = c
            /\ Windows(dev) = [k \in 1..c |-> Windows(dev)[k]]
        <5> HIDE DEF c
        <5>1. DOMAIN Windows(dev) = 1..c /\ Windows(dev) = [k \in 1..c |-> Windows(dev)[k]]
          BY DEF Windows, c
        <5> QED
          BY <4>3, <5>1
      <4> HIDE DEF c, dev
      <4> QED
        BY <4>2, <4>3, <4>4
    <3> QED
      BY <3>1
  <2> HIDE DEF dev
  <2> QED
    BY <2>1, <2>2
<1>2. dev \in Seq(Int) /\ Rising(dev)
  BY <1>1, WalkIs
<1>3. /\ folds \in Seq(Fold) /\ m \in Nat
      /\ \A f \in 1..m :
              /\ \E k \in 1..Len(Windows(dev)) : k < n /\ folds[f].window = Windows(dev)[k]
              /\ folds[f].params \in Best(folds[f].ran)
      /\ \A f \in 1..m : \A g \in 1..f - 1 :
              Days(folds[g].window.test) \cap Days(folds[f].window.test) = {}
      /\ n \in Nat \ {0}
  <2>1. folds \in Seq(Fold) /\ n \in Nat \ {0}
    BY DEF WalkInv
  <2>2. m \in Nat
    BY <2>1
  <2>3. \A f \in 1..m :
              /\ \E k \in 1..Len(Windows(dev)) : k < n /\ folds[f].window = Windows(dev)[k]
              /\ folds[f].params \in Best(folds[f].ran)
    BY DEF WalkInv
  <2>4. \A f \in 1..m : \A g \in 1..f - 1 :
              Days(folds[g].window.test) \cap Days(folds[f].window.test) = {}
    BY DEF WalkInv
  <2> QED
    BY <2>1, <2>2, <2>3, <2>4
<1>4. /\ walk' # <<>> => \E days \in Seq(Int) : Rising(days) /\ walk' = <<days>>
      /\ split' # <<>> => \E days \in Seq(Int) : Rising(days) /\ split' = <<SplitHoldout(days)>>
  <2>1. split' = split
    BY DEF RunFold
  <2> QED
    BY <1>1, <2>1 DEF WalkInv
<1>5. CASE folds' = folds
  <2>1. \A f \in 1..Len(folds') :
              /\ \E k \in 1..Len(Windows(walk'[1])) :
                    k < nextFold' /\ folds'[f].window = Windows(walk'[1])[k]
              /\ folds'[f].params \in Best(folds'[f].ran)
    BY <1>1, <1>3, <1>5
  <2>2. \A f \in 1..Len(folds') : \A g \in 1..f - 1 :
              Days(folds'[g].window.test) \cap Days(folds'[f].window.test) = {}
    BY <1>3, <1>5
  <2>3. nextFold' \in Nat \ {0} /\ folds' \in Seq(Fold) /\ (walk' = <<>> => folds' = <<>>)
    BY <1>1, <1>3, <1>5
  <2> QED
    BY <1>4, <2>1, <2>2, <2>3 DEF WalkInv
<1>6. CASE folds' # folds
  <2> DEFINE k == CHOOSE k \in Best(inSample) : TRUE
             x == [window |-> Windows(dev)[n], params |-> k, ran |-> inSample, out |-> out]
  <2>1. Best(inSample) # {} /\ out # Failed /\ folds' = Append(folds, x)
    BY <1>1, <1>6 DEF RunFold
  <2>2. k \in Best(inSample) /\ k \in 1..Combinations /\ out \in RunOutcomes
    <3>1. k \in Best(inSample)
      BY <2>1
    <3> QED
      BY <2>1, <3>1 DEF Best, Eligible, RunResults
  <2>3. x \in Fold /\ x.window = Windows(dev)[n] /\ x.params \in Best(x.ran)
    <3>1. Windows(dev)[n] \in Window
      BY <1>1, <1>2, WindowIs
    <3> HIDE DEF k
    <3> QED
      BY <2>2, <3>1 DEF Fold
  <2> HIDE DEF x
  <2>4. /\ folds' \in Seq(Fold) /\ Len(folds') = m + 1
        /\ \A f \in 1..m : folds'[f] = folds[f]
        /\ folds'[m + 1] = x
    BY <1>3, <2>1, <2>3
  <2>5. ASSUME NEW f \in 1..m + 1
        PROVE  /\ \E j \in 1..Len(Windows(dev)) : j < n + 1 /\ folds'[f].window = Windows(dev)[j]
               /\ folds'[f].params \in Best(folds'[f].ran)
    <3>1. CASE f \in 1..m
      <4>1. PICK j \in 1..Len(Windows(dev)) : j < n /\ folds[f].window = Windows(dev)[j]
        BY <1>3, <3>1
      <4>2. j < n + 1
        BY <1>3, <4>1
      <4> QED
        BY <1>3, <2>4, <3>1, <4>1, <4>2
    <3>2. CASE f = m + 1
      <4>1. folds'[f].window = Windows(dev)[n] /\ folds'[f].params \in Best(folds'[f].ran)
        BY <2>3, <2>4, <3>2
      <4>2. n \in 1..Len(Windows(dev)) /\ n < n + 1
        BY <1>1, <1>3
      <4> HIDE DEF n, dev
      <4> QED
        BY <4>1, <4>2
    <3> QED
      BY <1>3, <3>1, <3>2
  <2>6. ASSUME NEW f \in 1..m + 1, NEW g \in 1..f - 1
        PROVE  Days(folds'[g].window.test) \cap Days(folds'[f].window.test) = {}
    <3>0. g \in 1..m
      BY <1>3
    <3>1. CASE f \in 1..m
      BY <1>3, <2>4, <3>0, <3>1
    <3>2. CASE f = m + 1
      <4>1. PICK j \in 1..Len(Windows(dev)) : j < n /\ folds[g].window = Windows(dev)[j]
        BY <1>3, <3>0
      <4>2. Days(Windows(dev)[j].test) \cap Days(Windows(dev)[n].test) = {}
        BY <1>1, <1>2, <4>1, TestsApart
      <4> QED
        BY <2>3, <2>4, <3>0, <3>2, <4>1, <4>2
    <3>3. f \in 1..m \/ f = m + 1
      <4>1. m \in Nat /\ f \in 1..m + 1
        BY <1>3
      <4> HIDE DEF m
      <4> QED
        BY <4>1
    <3> QED
      BY <3>1, <3>2, <3>3
  <2>7. nextFold' \in Nat \ {0} /\ (walk' = <<>> => folds' = <<>>)
    BY <1>1, <1>3
  <2> QED
    BY <1>1, <1>4, <2>4, <2>5, <2>6, <2>7 DEF WalkInv
<1> QED
  BY <1>5, <1>6

LEMMA NextWalkInv ==
    ASSUME WalkInv, [WalkNext]_walkVars
    PROVE  WalkInv'
<1>1. CASE UNCHANGED walkVars
  BY <1>1 DEF walkVars, WalkInv
<1> QED
  BY <1>1, SplitsWalkInv, WalksWalkInv, SpanRises, DevelopmentIs, RunFoldWalkInv DEF WalkNext

LEMMA OutOfSample == ASSUME WalkInv PROVE FoldsAreOutOfSample
<1> SUFFICES ASSUME NEW f \in 1..Len(folds)
             PROVE
        LET w == folds[f].window
            chosen == folds[f].ran[folds[f].params]
        IN  /\ \A d \in Days(w.train), e \in Days(w.test) : d < e
            /\ \A g \in 1..f - 1 : Days(folds[g].window.test) \cap Days(w.test) = {}
            /\ chosen.trades >= MinTrades
            /\ \A k \in 1..Combinations :
                  LET other == folds[f].ran[k]
                  IN  other = Failed \/ other.trades < MinTrades
                        \/ other.score <= chosen.score
  BY DEF FoldsAreOutOfSample
<1> DEFINE dev == walk[1]
           w == folds[f].window
           ran == folds[f].ran
           p == folds[f].params
<1>1. walk # <<>>
  <2>1. CASE walk = <<>>
    <3>1. folds = <<>>
      BY <2>1 DEF WalkInv
    <3>2. Len(folds) = 0
      BY <3>1
    <3> QED
      BY <3>2
  <2> QED
    BY <2>1
<1>2. dev \in Seq(Int) /\ Rising(dev)
  BY <1>1, WalkIs
<1>3. folds[f] \in Fold
  BY DEF WalkInv
<1>4. PICK k \in 1..Len(Windows(dev)) : w = Windows(dev)[k]
  BY DEF WalkInv
<1>5. \A d \in Days(w.train), e \in Days(w.test) : d < e
  BY <1>2, <1>4, TrainBeforeTest
<1>6. \A g \in 1..f - 1 : Days(folds[g].window.test) \cap Days(w.test) = {}
  BY DEF WalkInv
<1>7. p \in Best(ran) /\ ran \in [1..Combinations -> RunResults] /\ p \in 1..Combinations
  BY <1>3 DEF WalkInv, Fold
<1> HIDE DEF ran, p
<1>8. /\ p \in Eligible(ran)
      /\ \A l \in Eligible(ran) : \/ ran[l].score < ran[p].score
                                  \/ ran[l].score = ran[p].score /\ p <= l
  BY <1>7 DEF Best
<1>9. \A l \in 1..Combinations :
          ran[l] # Failed => ran[l].trades \in Int /\ ran[l].score \in Int
  BY <1>7, WalkAssumption DEF RunResults
<1>10. ran[p].trades >= MinTrades /\ ran[p] # Failed /\ MinTrades \in Int
  BY <1>8, WalkAssumption DEF Eligible
<1>11. ASSUME NEW l \in 1..Combinations, ran[l] # Failed, ~ (ran[l].trades < MinTrades)
       PROVE  ran[l].score <= ran[p].score
  <2>1. ran[l].trades \in Int /\ ran[l].score \in Int /\ ran[p].score \in Int
    BY <1>7, <1>9, <1>10, <1>11
  <2>2. l \in Eligible(ran)
    BY <1>10, <1>11, <2>1 DEF Eligible
  <2> QED
    BY <1>8, <2>1, <2>2
<1> QED
  BY <1>5, <1>6, <1>10, <1>11 DEF p, ran

----------------------------------------------------------------------------
(* The gates.  What is reported is what the gates say of the folds.        *)

JudgedInv ==
    /\ WalkInv
    /\ \/ report = <<>>
       \/ \E run \in Runs, doubled \in {"not run", "positive", "negative"}, walked \in BOOLEAN :
             report = <<[run |-> run, doubled |-> doubled, walked |-> walked,
                         blocks |-> Blocking(run, doubled, walked)]>>

LEMMA BlockingRests ==
    ASSUME UNCHANGED walkVars, NEW CONSTANT run, NEW CONSTANT doubled, NEW CONSTANT walked
    PROVE  Blocking(run, doubled, walked)' = Blocking(run, doubled, walked)
<1>1. folds' = folds
  BY DEF walkVars
<1>2. OosTrades' = OosTrades
  BY <1>1 DEF OosTrades, Along, SumAt
<1>3. OosExpects' = OosExpects
  BY <1>1 DEF OosExpects, Along, SumAt
<1>4. Degradation' = Degradation
  BY <1>1 DEF Degradation, Along, SumAt
<1> QED
  BY <1>1, <1>2, <1>3, <1>4 DEF Blocking

LEMMA NextJudgedInv ==
    ASSUME JudgedInv, [GatesNext]_gateVars
    PROVE  JudgedInv'
<1>1. CASE UNCHANGED gateVars
  <2>1. UNCHANGED walkVars /\ report' = report
    BY <1>1 DEF gateVars
  <2>2. WalkInv'
    BY <2>1, NextWalkInv DEF JudgedInv
  <2>3. CASE report = <<>>
    BY <2>1, <2>2, <2>3 DEF JudgedInv
  <2>4. CASE report # <<>>
    <3>1. PICK run \in Runs, doubled \in {"not run", "positive", "negative"}, walked \in BOOLEAN :
             report = <<[run |-> run, doubled |-> doubled, walked |-> walked,
                         blocks |-> Blocking(run, doubled, walked)]>>
      BY <2>4 DEF JudgedInv
    <3>2. Blocking(run, doubled, walked)' = Blocking(run, doubled, walked)
      BY <2>1, BlockingRests
    <3> QED
      BY <2>1, <2>2, <3>1, <3>2 DEF JudgedInv
  <2> QED
    BY <2>3, <2>4
<1>2. CASE report = <<>> /\ WalkNext /\ UNCHANGED report
  BY <1>2, NextWalkInv DEF JudgedInv
<1>3. ASSUME NEW run \in Runs, NEW doubled \in {"not run", "positive", "negative"},
             NEW walked \in BOOLEAN, Judges(run, doubled, walked)
      PROVE  JudgedInv'
  <2>1. UNCHANGED walkVars
        /\ report' = <<[run |-> run, doubled |-> doubled, walked |-> walked,
                        blocks |-> Blocking(run, doubled, walked)]>>
    BY <1>3 DEF Judges
  <2>2. WalkInv'
    BY <2>1, NextWalkInv DEF JudgedInv
  <2>3. Blocking(run, doubled, walked)' = Blocking(run, doubled, walked)
    BY <2>1, BlockingRests
  <2> QED
    BY <2>1, <2>2, <2>3 DEF JudgedInv
<1> QED
  BY <1>1, <1>2, <1>3 DEF GatesNext

LEMMA NothingBlocks ==
    ASSUME NEW run, NEW doubled, NEW walked \in BOOLEAN, Blocking(run, doubled, walked) = {}
    PROVE  /\ OosExpects /\ ~ (OosTrades < MinOosTrades)
           /\ doubled = "positive" /\ ~ Concentrated(run.trades)
<1>1. walked /\ OosExpects
  <2>1. "walk_forward" \notin Blocking(run, doubled, walked)
    OBVIOUS
  <2> QED
    BY <2>1 DEF Blocking
<1>2. ~ (OosTrades < MinOosTrades)
  <2>1. "sample" \notin Blocking(run, doubled, walked)
    OBVIOUS
  <2> QED
    BY <1>1, <2>1 DEF Blocking
<1>3. doubled = "positive"
  <2>1. "slippage" \notin Blocking(run, doubled, walked)
    OBVIOUS
  <2> QED
    BY <2>1 DEF Blocking
<1>4. ~ Concentrated(run.trades)
  <2>1. "concentration" \notin Blocking(run, doubled, walked)
    OBVIOUS
  <2> QED
    BY <2>1 DEF Blocking
<1> QED
  BY <1>1, <1>2, <1>3, <1>4

(* Folds whose trades expect a profit have one that made a profit.         *)
LEMMA SomeFoldIsAhead ==
    ASSUME WalkInv, OosExpects
    PROVE  folds # <<>> /\ \E f \in 1..Len(folds) : folds[f].out.score > 0
<1> DEFINE G == [k \in DOMAIN folds |-> folds[k].out.score * folds[k].out.trades]
           D == DOMAIN folds
<1>1. folds \in Seq(Fold)
  BY DEF WalkInv
<1>2. D = 1..Len(folds) /\ Len(folds) \in Nat /\ IsFiniteSet(D)
  <2>1. D = 1..Len(folds) /\ Len(folds) \in Nat
    BY <1>1
  <2> QED
    BY <2>1, FS_Interval
<1>3. SumFunctionOnSet(G, D) > 0
  BY DEF OosExpects, Along, SumAt
<1>4. \A k \in D : folds[k].out.score \in Int /\ folds[k].out.trades \in Nat
  <2> SUFFICES ASSUME NEW k \in D PROVE folds[k].out.score \in Int /\ folds[k].out.trades \in Nat
    OBVIOUS
  <2>1. folds[k] \in Fold
    BY <1>1, <1>2
  <2> QED
    BY <2>1, WalkAssumption DEF Fold
<1>5. SUFFICES ASSUME \A f \in D : ~ (folds[f].out.score > 0)
               PROVE  FALSE
  <2>1. CASE folds = <<>>
    <3>1. D = {}
      BY <2>1
    <3> QED
      BY <1>3, <3>1, SumOfNone
  <2> QED
    BY <1>2, <2>1
<1>6. \A k \in D : G[k] \in Int /\ G[k] <= 0
  <2> SUFFICES ASSUME NEW k \in D PROVE G[k] \in Int /\ G[k] <= 0
    OBVIOUS
  <2>1. folds[k].out.score \in Int /\ folds[k].out.score <= 0 /\ folds[k].out.trades \in Nat
    BY <1>4, <1>5
  <2>2. \A x \in Int, y \in Nat : x <= 0 => x * y \in Int /\ x * y <= 0
    OBVIOUS
  <2> QED
    BY <2>1, <2>2
<1> DEFINE N == [k \in D |-> -G[k]]
<1>7. \A k \in D : N[k] \in Nat
  BY <1>6
<1>8. \A k \in D : [k2 \in D |-> 0][k] = 0 /\ [k2 \in D |-> 0][k] = G[k] + N[k] /\ N[k] \in Int
  BY <1>6, <1>7
<1> HIDE DEF G, N, D
<1>9. SumFunctionOnSet([k2 \in D |-> 0], D) = 0
  BY <1>2, <1>8, SumOfZeros
<1>10. SumFunctionOnSet([k2 \in D |-> 0], D) = SumFunctionOnSet(G, D) + SumFunctionOnSet(N, D)
  BY <1>2, <1>6, <1>8, SumOfBoth
<1>11. SumFunctionOnSet(G, D) \in Int /\ SumFunctionOnSet(N, D) \in Nat
  BY <1>2, <1>6, <1>7, SumIsInt, SumIsNat
<1> QED
  BY <1>3, <1>9, <1>10, <1>11

(* Of a table that no group carries: what one group gained is less than    *)
(* one and a half times what the others that gained did together.          *)
LEMMA OthersGainedToo ==
    ASSUME NEW T, IsFiniteSet(DOMAIN T), \A g \in DOMAIN T : T[g] \in Int, ~ Carried(T),
           NEW i \in DOMAIN T, T[i] > 0
    PROVE  T[i] * 2 < 3 * SumFunctionOnSet(T, {j \in DOMAIN T \ {i} : T[j] > 0})
<1> DEFINE gains == {g \in DOMAIN T : T[g] > 0}
           rest == {j \in DOMAIN T \ {i} : T[j] > 0}
           total == SumFunctionOnSet(T, gains)
           r == SumFunctionOnSet(T, rest)
<1>1. i \in gains /\ rest = gains \ {i} /\ gains \subseteq DOMAIN T /\ rest \subseteq DOMAIN T
  OBVIOUS
<1>2. IsFiniteSet(gains) /\ IsFiniteSet(rest)
  BY <1>1, FS_Subset
<1>3. ~ (T[i] * 100 >= 60 * total)
  BY <1>1 DEF Carried
<1> HIDE DEF gains, rest
<1>4. total = T[i] + SumFunctionOnSet(T, gains \ {i})
  BY <1>1, <1>2, SumOfRest
<1>5. r \in Int
  BY <1>1, <1>2, SumIsInt
<1>6. T[i] \in Int
  OBVIOUS
<1>7. total = T[i] + r
  BY <1>1, <1>4
<1> HIDE DEF total, r
<1>8. T[i] * 2 < 3 * r
  BY <1>3, <1>5, <1>6, <1>7
<1> QED
  BY <1>8 DEF r, rest

LEMMA NoInstrumentCarries ==
    ASSUME NEW s, IsFiniteSet(DOMAIN s), \A k \in DOMAIN s : s[k].net \in Int,
           ~ Concentrated(s)
    PROVE  LET traded == {s[k].inst : k \in DOMAIN s}
               gain == [i \in traded |-> Net(s, {k \in DOMAIN s : s[k].inst = i})]
           IN  \A i \in traded :
                  (Cardinality(traded) >= 2 /\ gain[i] > 0) =>
                      gain[i] * 2 < 3 * SumFunctionOnSet(gain, {j \in traded \ {i} : gain[j] > 0})
<1> DEFINE traded == {s[k].inst : k \in DOMAIN s}
           gain == [i \in traded |-> Net(s, {k \in DOMAIN s : s[k].inst = i})]
<1>1. Groups(s, LAMBDA t : t.inst) = gain /\ DOMAIN gain = traded
  BY DEF Groups
<1>2. Assessable(gain) => ~ Carried(gain)
  <2> HIDE DEF gain, traded
  <2> QED
    BY <1>1 DEF Concentrated
<1>3. IsFiniteSet(traded)
  <2> DEFINE f == [k \in DOMAIN s |-> s[k].inst]
  <2>1. f \in Surjection(DOMAIN s, traded)
    BY DEF Surjection
  <2> HIDE DEF f, traded
  <2> QED
    BY <2>1, FS_Surjection
<1>4. \A i \in traded : gain[i] \in Int
  <2> SUFFICES ASSUME NEW i \in traded PROVE gain[i] \in Int
    OBVIOUS
  <2> DEFINE P == {k \in DOMAIN s : s[k].inst = i}
             F == [k \in DOMAIN s |-> s[k].net]
  <2>1. gain[i] = SumFunctionOnSet(F, P)
    BY DEF Net, SumAt
  <2>2. IsFiniteSet(P) /\ \A k \in P : F[k] \in Int
    BY FS_Subset
  <2> HIDE DEF P, F, gain
  <2> QED
    BY <2>1, <2>2, SumIsInt
<1>5. ASSUME NEW i \in traded, Cardinality(traded) >= 2, gain[i] > 0
      PROVE  gain[i] * 2 < 3 * SumFunctionOnSet(gain, {j \in traded \ {i} : gain[j] > 0})
  <2> HIDE DEF gain, traded
  <2>1. Assessable(gain)
    BY <1>1, <1>5 DEF Assessable
  <2> QED
    BY <1>1, <1>2, <1>3, <1>4, <1>5, <2>1, OthersGainedToo
<1> QED
  BY <1>5

LEMMA OosTradesAreCounted == ASSUME WalkInv PROVE OosTrades \in Int
<1> DEFINE F == [k \in DOMAIN folds |-> folds[k].out.trades]
           D == DOMAIN folds
<1>1. folds \in Seq(Fold)
  BY DEF WalkInv
<1>2. D = 1..Len(folds) /\ Len(folds) \in Nat
  BY <1>1
<1>3. IsFiniteSet(D)
  BY <1>2, FS_Interval
<1>4. ASSUME NEW k \in D PROVE F[k] \in Int
  <2>1. folds[k] \in Fold
    BY <1>1, <1>2
  <2> QED
    BY <2>1, WalkAssumption DEF Fold
<1>5. OosTrades = SumFunctionOnSet(F, D)
  BY DEF OosTrades, Along, SumAt
<1> HIDE DEF F, D
<1> QED
  BY <1>3, <1>4, <1>5, SumIsInt

LEMMA JudgedRight == ASSUME JudgedInv PROVE PassesRestOnEvidence
<1> SUFFICES ASSUME Passes PROVE PassesRestOnEvidence
  BY DEF PassesRestOnEvidence
<1>1. PICK run \in Runs, doubled \in {"not run", "positive", "negative"}, walked \in BOOLEAN :
             report = <<[run |-> run, doubled |-> doubled, walked |-> walked,
                         blocks |-> Blocking(run, doubled, walked)]>>
  BY DEF JudgedInv, Passes
<1> DEFINE B == Blocking(run, doubled, walked)
<1>2. report[1].run = run /\ report[1].doubled = doubled /\ report[1].blocks = B
  <2> HIDE DEF B
  <2> QED
    BY <1>1 DEF B
<1>3. B = {}
  BY <1>2 DEF Passes
<1>4. /\ OosExpects /\ ~ (OosTrades < MinOosTrades)
      /\ doubled = "positive" /\ ~ Concentrated(run.trades)
  BY <1>3, NothingBlocks
<1>5. FoldsAreOutOfSample /\ folds # <<>> /\ \E f \in 1..Len(folds) : folds[f].out.score > 0
  BY <1>4, OutOfSample, SomeFoldIsAhead DEF JudgedInv
<1>6. OosTrades >= MinOosTrades
  <2>1. OosTrades \in Int
    BY OosTradesAreCounted DEF JudgedInv
  <2> QED
    BY <1>4, <2>1, GatesAssumption
<1>7. IsFiniteSet(DOMAIN run.trades) /\ \A k \in DOMAIN run.trades : run.trades[k].net \in Int
  BY GatesAssumption
<1> DEFINE s == report[1].run.trades
           traded == {s[k].inst : k \in DOMAIN s}
           gain == [i \in traded |-> Net(s, {k \in DOMAIN s : s[k].inst = i})]
<1>8. \A i \in traded :
                  (Cardinality(traded) >= 2 /\ gain[i] > 0) =>
                      gain[i] * 2 < 3 * SumFunctionOnSet(gain, {j \in traded \ {i} : gain[j] > 0})
  BY <1>2, <1>4, <1>7, NoInstrumentCarries
<1> QED
  BY <1>2, <1>4, <1>5, <1>6, <1>8 DEF PassesRestOnEvidence

(* For any spans, windows, outcomes, runs and thresholds: a strategy that  *)
(* passes the gates was tried on enough trades of days that followed the   *)
(* choice of its parameters, no day twice, came out ahead in some fold,    *)
(* was run with doubled slippage, and no instrument carries it.            *)
THEOREM PassesAreEvidence == Spec => []PassesRestOnEvidence
<1>1. Init => JudgedInv
  BY InitWalkInv DEF Init, GatesInit, JudgedInv
<1>2. JudgedInv /\ [Next]_vars => JudgedInv'
  <2> SUFFICES ASSUME JudgedInv, [Next]_vars PROVE JudgedInv'
    OBVIOUS
  <2>1. [GatesNext]_gateVars
    BY DEF Next, vars
  <2> QED
    BY <2>1, NextJudgedInv
<1> QED
  BY <1>1, <1>2, JudgedRight, PTL DEF Spec

=============================================================================
