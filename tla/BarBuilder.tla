----------------------------- MODULE BarBuilder -----------------------------
(***************************************************************************)
(* src/bar_builder.py with the bar store of src/bar_store.py: ticks of the *)
(* market_ticks stream become bars, published on market_bars and archived. *)
(*                                                                         *)
(* The loop of run() has three steps: Session rolls the session over and   *)
(* begins a read, Read handles the ticks that came, Close publishes what   *)
(* the clock has closed and persists.  Time passes and ticks arrive        *)
(* between any two of them.  The cursor is in memory and starts at "$",    *)
(* the end of the stream at the moment a read begins: a new process, and   *)
(* one that no tick has reached yet, sees nothing older.                   *)
(***************************************************************************)
EXTENDS Bars, ConsumerGroup, FiniteSetsExt, SequencesExt

CONSTANTS
    TickOf,         \* what the n-th tick says: [price, volume]
    ReadCount,      \* COUNT of the builder's XREAD
    MaxTime,        \* bound: the clock
    MaxLives        \* bound: processes started, and partitions lost

ASSUME BarBuilderAssumption ==
    /\ TickOf \in Seq([price : Int, volume : Nat])
    /\ Instruments \subseteq Nat /\ ReadCount \in Nat \ {0}
    /\ MaxTime \in Nat /\ MaxLives \in Nat \ {0}

VARIABLES
    now,            \* the clock
    ticks,          \* the market_ticks stream
    bars,           \* the market_bars stream and the group that reads it
    loop,           \* "down", or the step of run() to come
    cursor, from,   \* last_id (None: "$"), and where the read begins
    session,        \* session_day
    aggs,           \* the aggregator of each instrument
    buffer, archive,\* the bar store: entries of the stream it will write,
                    \* and the entry kept for each instrument and start
    since,          \* the ticks this process may have seen come after this
                    \* one (history)
    lives,          \* processes started and partitions lost (history)
    gone,           \* published bars that will never be archived (history)
    late            \* <<inst, start>> closed with a tick unread (history)

feedVars    == <<now, ticks>>
builderVars == <<loop, cursor, from, session, aggs>>
storeVars   == <<buffer, archive>>
barVars     == <<feedVars, bars, builderVars, storeVars, since, lives, gone, late>>

NoAggregators == [i \in Instruments |-> NewAggregator]

(* An entry of market_bars; since: which process made it (history).        *)
Published == [bar : Bar, since : Nat]

KeyOf(n) == <<bars.log[n].bar.inst, bars.log[n].bar.start>>

BarInit ==
    /\ now = 0 /\ ticks = <<>> /\ bars = EmptyGroup
    /\ loop = "top" /\ cursor = None /\ from = 0 /\ session = None
    /\ aggs = NoAggregators
    /\ buffer = {} /\ archive = <<>>
    /\ since = 0 /\ lives = 1 /\ gone = {} /\ late = {}

----------------------------------------------------------------------------
(* The world.                                                              *)

(* _publish_tick stamps a tick as it arrives.                              *)
Arrive(i) ==
    /\ Len(ticks) < Len(TickOf)
    /\ LET t == TickOf[Len(ticks) + 1]
       IN  ticks' = Append(ticks, [inst |-> i, ts |-> now, price |-> t.price,
                                   volume |-> t.volume])
    /\ UNCHANGED <<now, bars, builderVars, storeVars, since, lives, gone, late>>

----------------------------------------------------------------------------
(* What the loop computes.                                                 *)

(* _handle_tick for each tick read.                                        *)
TakeTicks(as, ts, w) ==
    FoldLeft(LAMBDA acc, t :
                LET r == AddTick(acc.aggs[t.inst], t, w)
                IN  [aggs |-> [acc.aggs EXCEPT ![t.inst] = r.agg],
                     bars |-> acc.bars \o r.bars],
             [aggs |-> as, bars |-> <<>>], ts)

(* MultiInstrumentAggregator.flush_until: in order of start and instrument.*)
FlushAll(as, t, w) ==
    LET done == [i \in Instruments |-> FlushUntil(as[i], i, t, w)]
    IN  [aggs |-> [i \in Instruments |-> done[i].agg],
         bars |-> Ordered(UNION {ToSet(done[i].bars) : i \in Instruments}, Earlier)]

(* _flush_to_last_tick: never past the last tick of any instrument.        *)
FlushToLastTick(as, d) ==
    LET seen == {as[i].lastTick : i \in Instruments} \ {None}
    IN  IF d = None \/ seen = {} THEN [aggs |-> as, bars |-> <<>>]
        ELSE FlushAll(as, Max(seen), SessionWindow(d))

(* publish, for the bars bs in order.                                      *)
WithBarsOf(g, bs) ==
    XAddAll(g, [k \in 1..Len(bs) |-> [bar |-> bs[k], since |-> since]])

(* Mutant: a partition is written anew.                                    *)
MergedOver(log, S) ==
    LET key(n) == <<log[n].bar.inst, log[n].bar.start>>
    IN  [k \in {key(n) : n \in S} |-> Max({n \in S : key(n) = k})]

(* ParquetBarStore.write of the entries S of log: the last entry of a key  *)
(* wins, also over what its partition holds already.                       *)
Merged(log, S) ==
    LET key(n) == <<log[n].bar.inst, log[n].bar.start>>
        keys   == {key(n) : n \in S}
    IN  [k \in keys \cup DOMAIN archive |->
            IF k \in keys THEN Max({n \in S : key(n) = k}) ELSE archive[k]]

(* _handle_bars, and a flush of the store when persist says so.            *)
HandleBars(bs, persist) ==
    LET buffered == buffer \cup Len(bars.log) + 1 .. Len(bars.log) + Len(bs)
    IN  /\ bars' = WithBarsOf(bars, bs)
        /\ buffer' = IF persist THEN {} ELSE buffered
        /\ archive' = IF persist THEN Merged(bars'.log, buffered) ELSE archive
        /\ gone' = gone

----------------------------------------------------------------------------
(* run().                                                                  *)

OnTradingDay == IsTradingDay(DateOf(now))

RollsOver == session # DateOf(now)

(* _ensure_session, and the read that begins.                              *)
Session ==
    /\ loop = "top" /\ OnTradingDay
    /\ IF RollsOver
       THEN /\ HandleBars(FlushToLastTick(aggs, session).bars, session # None)
            /\ aggs' = NoAggregators /\ session' = DateOf(now)
       ELSE UNCHANGED <<bars, storeVars, gone, aggs, session>>
    /\ from' = IF cursor = None THEN Len(ticks) ELSE cursor
    /\ since' = IF cursor = None THEN Len(ticks) ELSE since
    /\ loop' = "wait"
    /\ UNCHANGED <<feedVars, cursor, lives, late>>

(* The entries read_new returns: none when the block times out.            *)
NewTicks == SubSeq(ticks, from + 1, IF from + ReadCount < Len(ticks)
                                    THEN from + ReadCount ELSE Len(ticks))

Taken == TakeTicks(aggs, NewTicks, SessionWindow(session))

Read ==
    /\ loop = "wait"
    /\ HandleBars(Taken.bars, FALSE)
    /\ aggs' = Taken.aggs
    /\ cursor' = IF NewTicks = <<>> THEN cursor ELSE from + Len(NewTicks)
    /\ loop' = "close"
    /\ UNCHANGED <<feedVars, from, session, since, lives, late>>

(* Mutant: only a tick closes a bar.                                       *)
ElapsedNone == [aggs |-> aggs, bars |-> <<>>]

Elapsed == FlushAll(aggs, now, SessionWindow(session))

(* Intervals that this flush closes though a tick of theirs, or of one     *)
(* before them, is not yet read.                                           *)
ClosedTooEarly ==
    LET w == SessionWindow(session)
        end == Align(IF now < w.close THEN now ELSE w.close, w)
        unread == {n \in from + 1 .. Len(ticks) : /\ n > cursor
                                                 /\ Accepts(NewAggregator, ticks[n], w)}
    IN  UNION {{<<ticks[n].inst, s>> : s \in Align(ticks[n].ts, w)..end - 1} :
                  n \in unread}

(* flush_until(now) and _persist_if_due.                                   *)
Close ==
    /\ loop = "close"
    /\ \E due \in BOOLEAN : HandleBars(Elapsed.bars, due)
    /\ aggs' = Elapsed.aggs
    /\ late' = late \cup ClosedTooEarly
    /\ loop' = "top"
    /\ UNCHANGED <<feedVars, cursor, from, session, since, lives>>

(* shutdown().                                                             *)
Shutdown ==
    /\ loop = "top" /\ lives < MaxLives
    /\ HandleBars(FlushToLastTick(aggs, session).bars, TRUE)
    /\ loop' = "down"
    /\ UNCHANGED <<feedVars, cursor, from, session, aggs, since, lives, late>>

(* The process dies, or Redis fails it, with some of the bars it was       *)
(* publishing out: what the store has buffered is lost.                    *)
Publishing ==
    CASE loop = "top" /\ OnTradingDay /\ RollsOver -> FlushToLastTick(aggs, session).bars
      [] loop = "wait"  -> Taken.bars
      [] loop = "close" -> Elapsed.bars
      [] OTHER          -> <<>>

BuilderDies ==
    /\ loop # "down" /\ lives < MaxLives
    /\ \E n \in 0..Len(Publishing) :
          /\ bars' = WithBarsOf(bars, SubSeq(Publishing, 1, n))
          /\ gone' = gone \cup buffer \cup Len(bars.log) + 1 .. Len(bars.log) + n
    /\ buffer' = {} /\ loop' = "down"
    /\ late' = IF loop = "close" THEN late \cup ClosedTooEarly ELSE late
    /\ UNCHANGED <<feedVars, cursor, from, session, aggs, archive, since, lives>>

(* BarBuilder.__init__.                                                    *)
BuilderStarts ==
    /\ loop = "down" /\ lives < MaxLives
    /\ loop' = "top" /\ cursor' = None /\ from' = 0 /\ session' = None
    /\ aggs' = NoAggregators
    /\ since' = Len(ticks) /\ lives' = lives + 1
    /\ UNCHANGED <<feedVars, bars, storeVars, gone, late>>

(* A partition becomes unreadable: the next write sets it aside.           *)
Partition(k) == <<k[1], DateOf(k[2])>>

Corrupt(p) ==
    /\ lives < MaxLives
    /\ archive' = [k \in {l \in DOMAIN archive : Partition(l) # p} |-> archive[k]]
    /\ gone' = gone \cup {n \in 1..Len(bars.log) \ buffer : Partition(KeyOf(n)) = p}
    /\ lives' = lives + 1
    /\ UNCHANGED <<feedVars, bars, builderVars, buffer, since, late>>

(* The night is longer than an iteration of the loop: what a session left  *)
(* is flushed before the date changes.                                     *)
Clock ==
    /\ now < MaxTime
    /\ now' = now + 1
    /\ \/ DateOf(now + 1) = DateOf(now)
       \/ loop = "down"
       \/ loop = "top" /\ (session = DateOf(now) => Elapsed.bars = <<>>)
    /\ UNCHANGED <<ticks, bars, builderVars, storeVars, since, lives, gone, late>>

BuilderLoop == Session \/ Read \/ Close
BuilderLife == Shutdown \/ BuilderDies \/ BuilderStarts

BarNext == \/ Clock \/ BuilderLoop \/ BuilderLife
           \/ \E i \in Instruments : Arrive(i)
           \/ \E p \in {Partition(k) : k \in DOMAIN archive} : Corrupt(p)

BarSpec == BarInit /\ [][BarNext]_barVars

----------------------------------------------------------------------------
(* The bar of a set of ticks, defined without an aggregator.               *)

InSession(t) ==
    /\ IsTradingDay(DateOf(t.ts)) /\ t.price > 0
    /\ SessionWindow(DateOf(t.ts)).open <= t.ts
    /\ t.ts < SessionWindow(DateOf(t.ts)).close

(* Ticks of i that a process may have seen, stamped from lo to before hi.  *)
Heard(i, s0, lo, hi) ==
    {n \in s0 + 1 .. Len(ticks) : /\ ticks[n].inst = i /\ InSession(ticks[n])
                                  /\ lo <= ticks[n].ts /\ ticks[n].ts < hi}

(* What was traded between the tick before and tick n, as far as the       *)
(* counter tells: it starts anew now and then.                             *)
Traded(n, s0) ==
    LET before == {m \in Heard(ticks[n].inst, s0, At(DateOf(ticks[n].ts), 0),
                               ticks[n].ts + 1) : m < n}
        gained == IF before = {} THEN 0 ELSE ticks[n].volume - ticks[Max(before)].volume
    IN  IF gained > 0 THEN gained ELSE 0

IsBarOf(b, s0) ==
    LET own    == Heard(b.inst, s0, b.start, b.start + Interval)
        before == Heard(b.inst, s0, At(DateOf(b.start), 0), b.start)
        prices == {ticks[n].price : n \in own}
        flat   == ticks[Max(before)].price
    IN  \/ /\ own # {} /\ ~b.synthetic
           /\ b.open = ticks[Min(own)].price /\ b.close = ticks[Max(own)].price
           /\ b.high = Max(prices) /\ b.low = Min(prices)
           /\ b.volume = MapThenSumSet(LAMBDA n : Traded(n, s0), own)
           /\ b.notional = MapThenSumSet(LAMBDA n : ticks[n].price * Traded(n, s0), own)
           /\ b.ticks = Cardinality(own)
        \/ /\ own = {} /\ b.synthetic /\ before # {}
           /\ {b.open, b.high, b.low, b.close} = {flat} /\ b.volume = 0

BarTypeOK ==
    /\ now \in 0..MaxTime /\ ticks \in Seq(Tick)
    /\ bars \in GroupOf(Published) /\ WellFormed(bars)
    /\ loop \in {"down", "top", "wait", "close"}
    /\ cursor \in 0..Len(ticks) \cup {None} /\ from \in 0..Len(ticks)
    /\ session \in Nat \cup {None}
    /\ aggs \in [Instruments -> Aggregator]
    /\ buffer \subseteq 1..Len(bars.log)
    /\ since \in Nat /\ lives \in 1..MaxLives /\ gone \subseteq 1..Len(bars.log)

(* A bar says what the ticks of its interval say, all that its process may *)
(* have seen and no others: first, highest, lowest, last price, and the    *)
(* volume their running total moved by.  An interval without a tick has a  *)
(* flat bar at the last price.  The only exceptions are intervals that the *)
(* clock closed while a tick was on its way.                               *)
BarsAreTheirTicks ==
    \A n \in 1..Len(bars.log) :
        KeyOf(n) \in late \/ IsBarOf(bars.log[n].bar, bars.log[n].since)

(* No bar is published while it forms, and the bars that a process makes   *)
(* of an instrument in a session follow each other without a gap and       *)
(* without a repetition, those intervals again excepted.                   *)
BarsAreInOrder ==
    \A n \in 1..Len(bars.log) :
        LET e    == bars.log[n]
            prev == {m \in 1..n - 1 :
                        /\ bars.log[m].since = e.since
                        /\ bars.log[m].bar.inst = e.bar.inst
                        /\ DateOf(bars.log[m].bar.start) = DateOf(e.bar.start)}
        IN  /\ e.bar.start + Interval <= now
            /\ \/ prev = {} \/ KeyOf(n) \in late
               \/ e.bar.start = bars.log[Max(prev)].bar.start + Interval

(* The bars a strategy and a backtest rest on are right, one by one and as *)
(* a sequence.                                                             *)
BarsAreRight == BarsAreTheirTicks /\ BarsAreInOrder

(* Every published bar waits in the buffer or is archived, or a later bar  *)
(* of its interval is, unless a crash or the disk took it.                 *)
NothingUnsaved ==
    \A n \in 1..Len(bars.log) \ (gone \cup buffer) :
        KeyOf(n) \in DOMAIN archive /\ archive[KeyOf(n)] >= n

(* i has traded before the end of the session's interval [s, s + Interval),*)
(* which has elapsed.                                                      *)
Owed(i, s) ==
    LET w == SessionWindow(session)
    IN  /\ aggs[i].lastTick # None /\ Align(aggs[i].lastTick, w) <= s
        /\ s = Align(s, w) /\ s < w.close /\ s + Interval <= now

(* The clock closes bars, not the next tick: an instrument that has traded *)
(* and falls silent has a bar of every interval elapsed after each         *)
(* iteration of the loop.                                                  *)
QuietStillHasBars ==
    [][loop = "close" /\ loop' = "top" =>
          \A i \in Instruments, s \in 0..MaxTime :
              Owed(i, s) => \E n \in 1..Len(bars'.log) : KeyOf(n)' = <<i, s>>]_barVars

============================================================================
