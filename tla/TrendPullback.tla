--------------------------- MODULE TrendPullback ---------------------------
(***************************************************************************)
(* src/strategies/trend_pullback.py on one instrument, one action for each *)
(* call its engine makes: a session starts, a closed bar arrives with what *)
(* is held.  What becomes of a signal is the engine's affair: an entry may *)
(* be filled at any later time or never, a position may end at any time,   *)
(* with a signal or without, and one found at the broker has no stop.      *)
(*                                                                         *)
(* EMA, ATR, ADX and RSI carry across sessions; VWAP, the relative volume  *)
(* and the pullback belong to one.                                         *)
(***************************************************************************)
EXTENDS Indicators

CONSTANTS
    EmaFast, EmaSlow, AdxPeriod, AtrPeriod, RsiPeriod, RvolSamples,
    AdxMin, RvolMin, RsiMax,
    AtrMult, PullbackAtr, TrailAtrMult, TrailAfterR, TimeStopMinR, \* in tenths
    MinStop, AtrCeiling,    \* in thousandths of the price
    TimeStopBars,
    TpBars,                 \* the closed bars that may arrive
    TpPositions,            \* <<>>, and positions [entry, stop] the mirror may show
    MaxBars, MaxSessions    \* bounds

ASSUME TrendAssumption ==
    /\ {EmaFast, EmaSlow, AdxPeriod, AtrPeriod, RsiPeriod} \subseteq Nat \ {0}
    /\ EmaFast < EmaSlow /\ MinStop < AtrCeiling
    /\ \A b \in TpBars : /\ {b.low, b.close, b.high, b.volume, b.vwap} \subseteq Nat
                         /\ b.low <= b.close /\ b.close <= b.high
                         /\ b.vwap = 0 \/ (b.low <= b.vwap /\ b.vwap <= b.high)

VARIABLES
    tp,         \* InstrumentState
    holding,    \* <<>>, or <<[entry, stop]>>: ctx.position
    signal,     \* what the last bar made the strategy signal
    bars,       \* bars so far (history)
    warm,       \* of these, those the indicators of this process saw (history)
    touches,    \* bars that came down to the fast mean while an entry was
                \* considered (history)
    spent,      \* of these, those before the last signal, session,
                \* restart or bar without the bias, whoever looked at it
                \* (history)
    overlooked, \* one came before a bar without the bias at which the strategy
                \* did not look for it, and none since (history)
    span,       \* the closes since the start and the prices since the
                \* session's open lie within these (history)
    sessions    \* sessions begun (history)

pullbacks == <<touches, spent, overlooked>>

trendVars == <<tp, holding, signal, bars, warm, pullbacks, span, sessions>>

NoTrade == [bars |-> 0, peak |-> None, armed |-> FALSE]

NoSpan == [low |-> None, high |-> None, dayLow |-> None, dayHigh |-> None]

FreshState ==
    [fast |-> NoMean, slow |-> NoMean, atr |-> NoATR, adx |-> NoADX, rsi |-> NoRSI,
     vwap |-> NoVWAP, rvol |-> NoVolumes, pulledBack |-> FALSE, trade |-> NoTrade]

WarmupBars == Max({EmaSlow, AtrPeriod, AdxPeriod * 2})

TrendInit ==
    /\ tp = FreshState /\ holding = <<>> /\ signal = "none"
    /\ bars = 0 /\ warm = 0 /\ touches = 0 /\ spent = 0 /\ overlooked = FALSE
    /\ sessions = 0 /\ span = NoSpan

(* Mutant: the first DX is taken for the mean of a period of them.         *)
WithBarHasty(s, b) ==
    [s EXCEPT !.fast = EMA(@, EmaFast, b.close), !.slow = EMA(@, EmaSlow, b.close),
              !.atr = ATR(@, AtrPeriod, b),
              !.adx = [ADX(@, AdxPeriod, b) EXCEPT
                         !.mean = IF @.seed # <<>> THEN [value |-> @.seed[1], seed |-> <<>>]
                                                   ELSE @],
              !.rsi = RSI(@, RsiPeriod, b), !.vwap = VWAP(@, b),
              !.rvol = RelativeVolume(@, RvolSamples, b)]

(* The indicators after bar b.                                             *)
WithBar(s, b) ==
    [s EXCEPT !.fast = EMA(@, EmaFast, b.close), !.slow = EMA(@, EmaSlow, b.close),
              !.atr = ATR(@, AtrPeriod, b), !.adx = ADX(@, AdxPeriod, b),
              !.rsi = RSI(@, RsiPeriod, b), !.vwap = VWAP(@, b),
              !.rvol = RelativeVolume(@, RvolSamples, b)]

Fast(s) == s.fast.value
Slow(s) == s.slow.value
Atr(s)  == s.atr.mean.value
Adx(s)  == s.adx.mean.value

(* _regime_ok.                                                             *)
RegimeOk(s, price) ==
    /\ Adx(s) # None /\ Atr(s) # None /\ price > 0
    /\ Adx(s) >= AdxMin
    /\ AtrMult * Atr(s) * 100 >= MinStop * price
    /\ Atr(s) * 1000 <= AtrCeiling * price

(* _bias_is_long.                                                          *)
BiasIsLong(s, b) ==
    /\ None \notin {Fast(s), Slow(s), VWAPValue(s.vwap)}
    /\ Fast(s) > Slow(s) /\ b.close > VWAPValue(s.vwap)

(* Price came down to the fast mean.                                       *)
Touches(s, b) == 10 * (b.low - Fast(s)) <= PullbackAtr * Atr(s)

StopFor(s, b) == b.close - (AtrMult * Atr(s)) \div 10

(* The rest of on_bar once the pullback is known.                          *)
Enters(s, b) ==
    /\ b.close > Fast(s)
    /\ RegimeOk(s, b.close)
    /\ s.rvol.value = None \/ s.rvol.value >= RvolMin
    /\ RSIValue(s.rsi) = None \/ RSIValue(s.rsi) <= RsiMax
    /\ StopFor(s, b) < b.close

(* _exit_signal: R of the position p at b, the trail after b, and whether  *)
(* one of the three exits holds.  A position without risk is never left.   *)
Risk(p)       == IF p.entry > p.stop THEN p.entry - p.stop ELSE p.stop - p.entry
Gains(p, b, r) == 10 * (b.close - p.entry) >= r * Risk(p)

BiasLost(s) == None \notin {Fast(s), Slow(s)} /\ Fast(s) < Slow(s)

Trailed(s, p, b) ==
    LET armed == s.trade.armed \/ Gains(p, b, TrailAfterR)
    IN  [s EXCEPT !.trade.armed = armed,
                  !.trade.peak = IF ~armed THEN @ ELSE Max({@, b.high})]

TrailHit(s, b) ==
    /\ s.trade.armed
    /\ 10 * (s.trade.peak - b.close) >= TrailAtrMult * (IF Atr(s) = None THEN 0 ELSE Atr(s))

TimeUp(s, p, b) == s.trade.bars >= TimeStopBars /\ ~Gains(p, b, TimeStopMinR)

Exits(s, p, b) ==
    /\ Risk(p) > 0
    /\ \/ BiasLost(s)
       \/ TrailHit(Trailed(s, p, b), b)
       \/ TimeUp(s, p, b)

Reset(s) == [s EXCEPT !.trade = NoTrade, !.pulledBack = FALSE]

----------------------------------------------------------------------------
(* on_bar.                                                                 *)

Widened(r, b) ==
    LET lower(x, y) == IF x = None \/ y < x THEN y ELSE x
        upper(x, y) == IF x = None \/ y > x THEN y ELSE x
    IN  [low |-> lower(r.low, b.close), high |-> upper(r.high, b.close),
         dayLow |-> lower(r.dayLow, b.low), dayHigh |-> upper(r.dayHigh, b.high)]

Sees(b) ==
    /\ bars < MaxBars /\ sessions > 0 /\ ~b.synthetic
    /\ bars' = bars + 1 /\ warm' = warm + 1 /\ span' = Widened(span, b)
    /\ UNCHANGED <<holding, sessions>>

SeesSynthetic(b) ==
    /\ sessions > 0 /\ b.synthetic
    /\ signal' = "none"
    /\ UNCHANGED <<tp, holding, bars, warm, pullbacks, span, sessions>>

(* What came down before is spent: the code has seen to it, or has not.    *)
Spends(seen) ==
    /\ touches' = touches /\ spent' = touches
    /\ overlooked' = (~seen /\ (overlooked \/ touches > spent))

(* The code does not look at the bias; it may be lost all the same.        *)
Overlooks(b) == IF BiasIsLong(WithBar(tp, b), b) THEN UNCHANGED pullbacks ELSE Spends(FALSE)

(* A position is held: _exit_signal.                                       *)
Manages(b) ==
    LET s == [WithBar(tp, b) EXCEPT !.trade.bars = @ + 1]
        p == holding[1]
    IN  /\ Sees(b) /\ holding # <<>>
        /\ IF Exits(s, p, b)
           THEN signal' = "close" /\ tp' = Reset(s) /\ Spends(TRUE)
           ELSE /\ signal' = "none" /\ Overlooks(b)
                /\ tp' = IF Risk(p) = 0 THEN s ELSE Trailed(s, p, b)

(* The state with which an entry is considered.                            *)
Ready(b) == [WithBar(tp, b) EXCEPT !.trade = NoTrade]

OutOfHours(b) ==
    /\ Sees(b) /\ holding = <<>>
    /\ tp' = Ready(b) /\ signal' = "none" /\ Overlooks(b)

NoBias(b) ==
    /\ Sees(b) /\ holding = <<>> /\ ~BiasIsLong(Ready(b), b)
    /\ tp' = Reset(Ready(b)) /\ signal' = "none" /\ Spends(TRUE)

(* Mutant: the pullback is kept after the entry it led to.                 *)
PulledAfterKept(s, opens) == s.pulledBack

PulledAfter(s, opens) == s.pulledBack /\ ~opens

Considers(b) ==
    LET s == [Ready(b) EXCEPT !.pulledBack = @ \/ Touches(Ready(b), b)]
        opens == s.pulledBack /\ Enters(s, b)
    IN  /\ Sees(b) /\ holding = <<>> /\ BiasIsLong(Ready(b), b) /\ Atr(s) # None
        /\ signal' = IF opens THEN "open" ELSE "none"
        /\ tp' = [s EXCEPT !.pulledBack = PulledAfter(s, opens)]
        /\ touches' = touches + (IF Touches(s, b) THEN 1 ELSE 0)
        /\ spent' = IF opens THEN touches' ELSE spent
        /\ overlooked' = (overlooked /\ ~Touches(s, b) /\ ~opens)

NewSession ==
    /\ sessions < MaxSessions /\ sessions' = sessions + 1
    /\ tp' = [Reset(tp) EXCEPT !.vwap = NoVWAP, !.rvol = NoVolumes]
    /\ signal' = "none" /\ Spends(TRUE)
    /\ span' = [span EXCEPT !.dayLow = None, !.dayHigh = None]
    /\ UNCHANGED <<holding, bars, warm>>

(* The mirror of position_updates turns to p.                              *)
Mirror(p) ==
    /\ holding # p /\ holding' = p
    /\ signal' = "none"
    /\ UNCHANGED <<tp, bars, warm, pullbacks, span, sessions>>

TrendRestarts ==
    /\ tp' = FreshState /\ signal' = "none" /\ span' = NoSpan
    /\ warm' = 0 /\ Spends(TRUE)
    /\ UNCHANGED <<holding, bars, sessions>>

TrendNext ==
    \/ \E b \in TpBars : \/ SeesSynthetic(b) \/ Manages(b)
                          \/ OutOfHours(b) \/ NoBias(b) \/ Considers(b)
    \/ NewSession \/ TrendRestarts
    \/ \E p \in TpPositions : Mirror(p)

TrendSpec == TrendInit /\ [][TrendNext]_trendVars

----------------------------------------------------------------------------

(* A long entry is signalled only with warmup_bars bars seen by this       *)
(* process, and only on a pullback of its own: price has come down to the  *)
(* fast mean since the last signal, the last session and the last bar      *)
(* without the bias.  That bar may have come while a position was held or  *)
(* no entry was allowed: an older pullback then leads to an entry, and     *)
(* only then.                                                              *)
EntriesAreFreshAndWarm ==
    [][signal' = "open" /\ bars' > bars
         => /\ warm' >= WarmupBars
            /\ touches' > spent \/ overlooked]_trendVars

(* "Establish a directional bias, wait for price to pull back against it,  *)
(* and enter only when the pullback fails": a pullback before the bias was *)
(* lost is not one against the bias there is now.                          *)
EntriesAreFresh == [][signal' = "open" /\ bars' > bars => touches' > spent]_trendVars

(* What the entry and the exits compare prices with are prices that        *)
(* traded: the means lie within the closes since the start, VWAP within    *)
(* the session's prices, and the oscillators on their scale.               *)
ReadingsAreMeans ==
    LET within(v, lo, hi) == v = None \/ (lo <= v /\ v <= hi)
    IN  /\ within(Fast(tp), span.low, span.high)
        /\ within(Slow(tp), span.low, span.high)
        /\ within(VWAPValue(tp.vwap), span.dayLow, span.dayHigh)
        /\ within(RSIValue(tp.rsi), 0, 100) /\ within(Adx(tp), 0, 100)

============================================================================
