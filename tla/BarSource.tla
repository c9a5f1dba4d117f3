----------------------------- MODULE BarSource ------------------------------
(***************************************************************************)
(* src/backtest/bar_source.py: recorded bars on their way to a backtest,   *)
(* resampled or as they were recorded, past the quality gate, in one       *)
(* stream.  A frame is the set of an instrument's bars, one per start, as  *)
(* the bar store leaves it.                                                *)
(***************************************************************************)
EXTENDS Bars, FiniteSetsExt, SequencesExt

CONSTANTS
    Histories,      \* frames that may be tested on: functions of instruments
    TestIntervals,  \* intervals of ResampledBarSource; 0 for no resampling
    TestDays,       \* <<start, end>> of the days a backtest may be asked for
    MinBarsPerDay, MinTradingDays,
    MaxSynthetic, MaxGap, MaxRange  \* in percent

(* Bars as BarBuilder makes and the store keeps them: of the session's     *)
(* hours, at prices above 0, one per start.                                *)
IsRecorded(b, i, frame) ==
    /\ b.inst = i /\ b.start \in Nat /\ SessionOpen <= TimeOf(b.start)
    /\ {b.open, b.close} \subseteq Nat \ {0}
    /\ \A c \in frame : c.start = b.start => c = b

ASSUME BarSourceAssumption ==
    /\ \A h \in Histories :
          /\ DOMAIN h \subseteq Nat
          /\ \A i \in DOMAIN h : IsFiniteSet(h[i]) /\ \A b \in h[i] : IsRecorded(b, i, h[i])
    /\ TestIntervals \subseteq Nat /\ TestDays \subseteq Nat \X Nat
    /\ {MinBarsPerDay, MinTradingDays, MaxSynthetic, MaxGap, MaxRange} \subseteq Nat

VARIABLES
    recorded,       \* what the store holds
    testInterval,   \* the interval of the source
    testDays,       \* the days asked for
    gate,           \* "open" until assessed, then "usable" or "refused"
    left,           \* of each instrument, the bars its iterator has not given
    streamed        \* the bars given to the engine (history)

sourceVars == <<recorded, testInterval, testDays, gate, left, streamed>>

First(S) == CHOOSE b \in S : \A c \in S : b.start <= c.start
Final(S) == CHOOSE b \in S : \A c \in S : c.start <= b.start

Total(S, Of(_)) == SumFunctionOnSet([b \in S |-> Of(b)], S)

Days(frame)     == {DateOf(b.start) : b \in frame}
OnDay(frame, d) == {b \in frame : DateOf(b.start) = d}

(* Mutant: the grid starts at midnight.                                    *)
BucketOfMidnight(b, n) == At(DateOf(b.start), ((TimeOf(b.start)) \div n) * n)

(* Buckets count from the open of the bar's session.                       *)
BucketOf(b, n) ==
    LET open == SessionWindow(DateOf(b.start)).open
    IN  open + ((b.start - open) \div n) * n

(* The bar of one bucket.  Its notional stands for vwap where there was    *)
(* volume; where there was none, vwap is the mean of the closes.           *)
Resampled(S, n) ==
    [inst |-> First(S).inst, start |-> BucketOf(First(S), n),
     open |-> First(S).open, high |-> Max({b.high : b \in S}),
     low |-> Min({b.low : b \in S}), close |-> Final(S).close,
     volume |-> Total(S, LAMBDA b : b.volume),
     notional |-> Total(S, LAMBDA b : b.notional),
     ticks |-> Total(S, LAMBDA b : b.ticks),
     synthetic |-> \A b \in S : b.synthetic]

(* resample_frame: days without a session are left out.                    *)
ResampleFrame(frame, n) ==
    LET held == {b \in frame : IsTradingDay(DateOf(b.start))}
    IN  {Resampled({c \in held : BucketOf(c, n) = s}, n) :
            s \in {BucketOf(b, n) : b \in held}}

(* read_range: the partitions of the days from start to end.               *)
ReadRange(frame, start, end) ==
    UNION {OnDay(frame, d) : d \in {e \in Days(frame) : start <= e /\ e <= end}}

(* load, of a source of its own interval or of a ResampledBarSource.       *)
Load(frame, n, days) ==
    LET read == ReadRange(frame, days[1], days[2])
    IN  IF n = 0 THEN read ELSE ResampleFrame(read, n)

(* What assess_quality finds blocking in one frame.                        *)
Issues(frame) ==
    LET days == Days(frame)
        real == {b \in frame : ~b.synthetic}
        jumps(c, d) == LET was == Final(OnDay(frame, c)).close
                           is  == First(OnDay(frame, d)).open
                       IN  was > 0 /\ is # 0
                             /\ (IF is > was THEN is - was ELSE was - is) * 100 > MaxGap * was
        checks ==
          [no_data   |-> frame = {},
           synthetic |-> Cardinality(frame \ real) * 100 > MaxSynthetic * Cardinality(frame),
           sparse    |-> \E d \in days : Cardinality(OnDay(frame, d)) < MinBarsPerDay,
           gap       |-> \E c, d \in days : /\ c < d /\ {e \in days : c < e /\ e < d} = {}
                                            /\ jumps(c, d),
           price     |-> \E b \in real : b.close <= 0,
           spike     |-> \E b \in real : (b.high - b.low) * 100 > MaxRange * b.close,
           ohlc      |-> \E b \in frame : \/ b.high < b.open \/ b.high < b.close
                                          \/ b.low > b.open \/ b.low > b.close]
    IN  {k \in DOMAIN checks : checks[k]}

(* is_usable: some bars, enough days between them, and no blocking issue.  *)
Usable(frames) ==
    /\ \E i \in DOMAIN frames : frames[i] # {}
    /\ Cardinality(UNION {Days(frames[i]) : i \in DOMAIN frames}) >= MinTradingDays
    /\ \A i \in DOMAIN frames : Issues(frames[i]) = {}

Loaded(frames, n, days) == [i \in DOMAIN frames |-> Load(frames[i], n, days)]

SourceInit ==
    /\ recorded \in Histories /\ testInterval \in TestIntervals /\ testDays \in TestDays
    /\ gate = "open" /\ left = Loaded(recorded, testInterval, testDays)
    /\ streamed = <<>>

(* The gate of a run: what the engine is about to see is assessed.         *)
Assess ==
    /\ gate = "open"
    /\ gate' = IF Usable(left) THEN "usable" ELSE "refused"
    /\ UNCHANGED <<recorded, testInterval, testDays, left, streamed>>

(* Mutant: one instrument after the other.                                 *)
ComesFirstById(b, c) == b.inst < c.inst \/ (b.inst = c.inst /\ b.start <= c.start)

ComesFirst(b, c) == b.start < c.start \/ (b.start = c.start /\ b.inst <= c.inst)

(* stream: the first of the bars that the iterators have ready.            *)
Yield ==
    LET ready == {First(left[i]) : i \in {j \in DOMAIN left : left[j] # {}}}
    IN  \E b \in ready :
          /\ gate = "usable"
          /\ \A c \in ready : ComesFirst(b, c)
          /\ left' = [left EXCEPT ![b.inst] = @ \ {b}]
          /\ streamed' = Append(streamed, b)
          /\ UNCHANGED <<recorded, testInterval, testDays, gate>>

SourceNext == Assess \/ Yield

SourceSpec == SourceInit /\ [][SourceNext]_sourceVars

----------------------------------------------------------------------------

(* The engine is never shown a bar before one that starts earlier, a bar   *)
(* of a day without a session nor, between two sessions of an instrument,  *)
(* a jump such as a split leaves; and what the bars of a session traded is *)
(* what was recorded of it.                                                *)
ReplaysAreInOrder ==
    /\ \A k \in 1..Len(streamed) :
          /\ \A i \in DOMAIN left : \A c \in left[i] : streamed[k].start <= c.start
          /\ k > 1 => streamed[k - 1].start <= streamed[k].start
          /\ testInterval # 0 => IsTradingDay(DateOf(streamed[k].start))
          /\ testInterval # 0 =>
                LET b == streamed[k]
                    traded == {c \in recorded[b.inst] :
                                  /\ DateOf(c.start) = DateOf(b.start)
                                  /\ b.start <= c.start /\ c.start < b.start + testInterval}
                IN  b.volume = Total(traded, LAMBDA c : c.volume)
    /\ \A j, k \in 1..Len(streamed) :
          LET b == streamed[j]
              c == streamed[k]
          IN  (j < k /\ b.inst = c.inst /\ DateOf(b.start) # DateOf(c.start)
                 /\ \A m \in j + 1..k - 1 : streamed[m].inst # b.inst)
              => (IF c.open > b.close THEN c.open - b.close ELSE b.close - c.open) * 100
                    <= MaxGap * b.close

(* What the gate says of its thresholds: it is the recording that is fit   *)
(* to test on, or is not, whatever the interval it is tested at.           *)
EveryIntervalIsTested ==
    gate = "refused" => ~Usable(Loaded(recorded, 0, testDays))

============================================================================
