--------------------------- MODULE StrategyEngine ---------------------------
(***************************************************************************)
(* src/strategy_engine.py: bars of market_bars are merged into bars of the *)
(* strategy's own interval and shown to the strategy, which may publish    *)
(* signals.  The bars that arrive are what BarBuilder may publish: each    *)
(* instrument's next one, or, of an interval closed too early, a second.   *)
(*                                                                         *)
(* The consumer group survives the process, the half-merged bars do not.   *)
(* A handler that fails (a signal that Redis does not take) has moved the  *)
(* resampler by then, and the bar comes again when it is reclaimed, after  *)
(* bars that were published later.  Part of a bar is named by the place of *)
(* a one-minute bar on the stream.                                         *)
(***************************************************************************)
EXTENDS Bars, ConsumerGroup, FiniteSetsExt, SequencesExt

CONSTANTS
    CoarseInterval, \* config.STRATEGY_BAR_SECONDS, more than a minute
    BarCount,       \* COUNT of the strategy's XREADGROUP
    Snapshots,      \* what position_updates may say is held
    BarPrice,       \* what the n-th bar trades at
    MaxUpdates,     \* bound: updates not yet read
    MaxFaults       \* bound: crashes and failing handlers

ASSUME StrategyAssumption ==
    /\ CoarseInterval \in Nat /\ CoarseInterval >= Interval
    /\ CoarseInterval % Interval = 0
    /\ BarCount \in Nat \ {0} /\ {MaxUpdates, MaxFaults} \subseteq Nat
    /\ BarPrice \in Seq(Nat)

VARIABLES
    feed,           \* the market_bars stream and the strategy's group
    turn,           \* the step of run() to come
    batch,          \* entries read or reclaimed and not yet handled
    buckets,        \* of each instrument: [start, parts]
    sessionDay,     \* the session the strategy has been started for
    positions,      \* the mirror of position_updates
    updates,        \* position_updates not yet read
    shown,          \* coarse bars the last step showed the strategy (history)
    handled,        \* the entry it handled (history)
    doubt,          \* <<inst, start>> of coarse bars that a fault has
                    \* reached (history)
    faults          \* faults so far (history)

resampler    == <<buckets, sessionDay>>
strategyVars == <<feed, turn, batch, resampler, positions, updates, shown, handled,
                  doubt, faults>>

NoBucket   == [start |-> None, parts |-> <<>>]
NoBuckets  == [i \in Instruments |-> NoBucket]

StrategyInit ==
    /\ feed = EmptyGroup
    /\ turn = "updates" /\ batch = {} /\ buckets = NoBuckets
    /\ sessionDay = None /\ positions = None /\ updates = <<>>
    /\ shown = <<>> /\ handled = 0 /\ doubt = {} /\ faults = 0

BarAt(n) == feed.log[n]

(* _bucket_for.                                                            *)
BucketFor(b) ==
    LET open == SessionWindow(DateOf(b.start)).open
    IN  open + ((b.start - open) \div CoarseInterval) * CoarseInterval

(* _merge, of one-minute bars in the order they were added.                *)
Merge(parts) ==
    LET bs      == [k \in 1..Len(parts) |-> BarAt(parts[k])]
        all     == ToSet(bs)
    IN  [inst |-> bs[1].inst, start |-> BucketFor(bs[1]), open |-> bs[1].open,
         high |-> Max({b.high : b \in all}), low |-> Min({b.low : b \in all}),
         close |-> bs[Len(bs)].close,
         volume |-> SumFunction([k \in DOMAIN bs |-> bs[k].volume]),
         notional |-> SumFunction([k \in DOMAIN bs |-> bs[k].notional]),
         ticks |-> SumFunction([k \in DOMAIN bs |-> bs[k].ticks]),
         synthetic |-> \A b \in all : b.synthetic]

(* held_session_day, and the instruments whose buckets flush() closes.     *)
Held == {i \in Instruments : buckets[i].start # None}

(* The buckets held when bar n comes and belonging to another session.     *)
Leftovers(n) ==
    IF \E i \in Held : DateOf(buckets[i].start) # DateOf(BarAt(n).start)
    THEN Held ELSE {}

LeftoverBars(n) ==
    Ordered({Merge(buckets[i].parts) : i \in Leftovers(n)}, Earlier)

(* Mutant: the bucket is left to be closed by the next session's bars.     *)
AddToNoReset(bs, n) ==
    LET i == BarAt(n).inst
        s == BucketFor(BarAt(n))
        c == bs[i]
    IN  [completed |-> IF c.start # None /\ s > c.start THEN <<Merge(c.parts)>> ELSE <<>>,
         buckets   |-> [bs EXCEPT ![i] = [start |-> s, parts |-> Append(c.parts, n)]]]

(* add: the bucket that bar n completes, and the buckets after it.         *)
AddTo(bs, n) ==
    LET i == BarAt(n).inst
        s == BucketFor(BarAt(n))
        c == bs[i]
    IN  [completed |-> IF c.start # None /\ s > c.start THEN <<Merge(c.parts)>> ELSE <<>>,
         buckets   |-> [bs EXCEPT ![i] = [start |-> s,
                           parts |-> Append(IF c.start = s THEN c.parts ELSE <<>>, n)]]]

Flushed(n) == [i \in Instruments |-> IF Leftovers(n) = {} THEN buckets[i] ELSE NoBucket]

Added(n) == AddTo(Flushed(n), n)

(* What _handle_bar shows the strategy, in order.                          *)
Shows(n) == LeftoverBars(n) \o Added(n).completed

(* Coarse bars that bar n reaches out of turn (history): after bars of     *)
(* later intervals were published, or as one of another day than those     *)
(* held.                                                                   *)
Spoils(n) ==
    LET i == BarAt(n).inst
        s == BucketFor(BarAt(n))
        overtaken == \E m \in 1..n - 1 : BarAt(m).inst = i /\ BucketFor(BarAt(m)) > s
        passed == {j \in Held : \/ DateOf(s) < DateOf(buckets[j].start)
                                \/ j = i /\ s < buckets[j].start}
    IN  {<<j, buckets[j].start>> : j \in passed}
           \cup (IF overtaken \/ passed # {} THEN {<<i, s>>} ELSE {})

----------------------------------------------------------------------------
(* _handle_bar.                                                            *)

Next1 == Min(batch)

Settle(n, g) == /\ feed' = g /\ batch' = batch \ {n} /\ handled' = n

HandleBar(n) ==
    /\ Settle(n, XAck(feed, n))
    /\ buckets' = Added(n).buckets
    /\ sessionDay' = DateOf(BarAt(n).start)
    /\ shown' = Shows(n)
    /\ doubt' = doubt \cup Spoils(n)
    /\ faults' = faults

(* Publishing a signal on the k-th bar shown fails: what was to follow is  *)
(* not done, what was done stays.  The entry stays pending, or goes to the *)
(* dead letters when it has been delivered too often.                      *)
HandlerFails(n) ==
    /\ faults < MaxFaults
    /\ \E k \in 1..Len(Shows(n)) :
          /\ shown' = SubSeq(Shows(n), 1, k)
          /\ IF k <= Len(LeftoverBars(n))
             THEN buckets' = Flushed(n) /\ sessionDay' = sessionDay
             ELSE buckets' = Added(n).buckets /\ sessionDay' = DateOf(BarAt(n).start)
    /\ Settle(n, IF IsPoison(feed, n) THEN XAck(feed, n) ELSE feed)
    /\ doubt' = doubt \cup Spoils(n) \cup {<<BarAt(n).inst, BucketFor(BarAt(n))>>}
    /\ faults' = faults + 1

(* One of the entries at hand, in the order of the stream.                 *)
Handle ==
    /\ batch # {}
    /\ HandleBar(Next1) \/ HandlerFails(Next1)
    /\ UNCHANGED <<turn, positions, updates>>

Loop(at, next) ==
    /\ batch = {} /\ turn = at /\ turn' = next
    /\ shown' = <<>>
    /\ UNCHANGED <<resampler, handled, doubt, faults>>

(* _handle_position_update: a snapshot replaces the mirror.                *)
HearUpdates ==
    /\ Loop("updates", "claim")
    /\ positions' = IF updates = <<>> THEN positions ELSE updates[Len(updates)]
    /\ updates' = <<>>
    /\ UNCHANGED <<feed, batch>>

ClaimStale ==
    /\ Loop("claim", "read")
    /\ \E S \in {{}, feed.pending} :
          feed' = XAutoClaim(feed, S) /\ batch' = S
    /\ UNCHANGED <<positions, updates>>

(* What has arrived by then: up to BarCount entries.                       *)
ReadBars ==
    /\ Loop("read", "updates")
    /\ \E n \in 1..BarCount :
          feed' = XReadGroup(feed, n) /\ batch' = Unread(feed, n)
    /\ UNCHANGED <<positions, updates>>

(* The process dies and starts anew: what it held of bars, its session and *)
(* its mirror are gone, and so are updates it had been handed.             *)
StrategyCrashes ==
    /\ faults < MaxFaults /\ faults' = faults + 1
    /\ turn' = "updates" /\ batch' = {}
    /\ buckets' = NoBuckets /\ sessionDay' = None /\ positions' = None
    /\ \E n \in 0..Len(updates) : updates' = SubSeq(updates, n + 1, Len(updates))
    /\ doubt' = doubt \cup {<<i, buckets[i].start>> : i \in Held}
                      \cup {<<BarAt(n).inst, BucketFor(BarAt(n))>> : n \in feed.pending}
    /\ shown' = <<>> /\ UNCHANGED <<feed, handled>>

(* The position manager publishes a snapshot.                              *)
UpdateArrives(p) ==
    /\ Len(updates) < MaxUpdates
    /\ updates' = Append(updates, p)
    /\ shown' = <<>>
    /\ UNCHANGED <<feed, turn, batch, resampler, positions, handled, doubt, faults>>

(* The bar of i that starts k intervals after its last one (k = 0: the     *)
(* second of an interval closed too early; k > 1: a new builder, or the    *)
(* next session's first) or after the first open, inside a session.  A     *)
(* session is over for all instruments at once.                            *)
LastStart(i) ==
    LET starts == {BarAt(n).start : n \in {m \in 1..Len(feed.log) : BarAt(m).inst = i}}
    IN  IF starts = {} THEN SessionWindow(0).open ELSE Max(starts)

BarArrives(i, k) ==
    LET s == LastStart(i) + k * Interval
        w == SessionWindow(DateOf(s))
        p == BarPrice[Len(feed.log) + 1]
    IN  /\ Len(feed.log) < Len(BarPrice)
        /\ IsTradingDay(DateOf(s)) /\ w.open <= s /\ s < w.close /\ s = Align(s, w)
        /\ \A n \in 1..Len(feed.log) : DateOf(BarAt(n).start) <= DateOf(s)
        /\ feed' = XAdd(feed, [inst |-> i, start |-> s, open |-> p, high |-> p + 1,
                               low |-> p, close |-> p + 1, volume |-> p,
                               notional |-> p * p, ticks |-> 2, synthetic |-> FALSE])
        /\ shown' = <<>>
        /\ UNCHANGED <<turn, batch, resampler, positions, updates, handled, doubt, faults>>

StrategyLoop == HearUpdates \/ ClaimStale \/ ReadBars \/ Handle

StrategyNext ==
    \/ StrategyLoop \/ StrategyCrashes
    \/ \E p \in Snapshots : UpdateArrives(p)
    \/ \E i \in Instruments, k \in 0..DayLength \div Interval : BarArrives(i, k)

StrategySpec == StrategyInit /\ [][StrategyNext]_strategyVars

----------------------------------------------------------------------------

StrategyTypeOK ==
    /\ feed \in GroupOf(Bar) /\ WellFormed(feed)
    /\ turn \in {"updates", "claim", "read"}
    /\ batch \subseteq feed.pending
    /\ \A i \in Instruments : /\ buckets[i].start \in Nat \cup {None}
                              /\ buckets[i].parts \in Seq(1..feed.cursor)
    /\ sessionDay \in Nat \cup {None}
    /\ positions \in Snapshots \cup {None} /\ updates \in Seq(Snapshots)
    /\ shown \in Seq(Bar)
    /\ faults \in 0..MaxFaults

(* Entries of c's interval published no later than entry n.                *)
PartsOf(c, n) ==
    Ordered({m \in 1..n : BarAt(m).inst = c.inst /\ BucketFor(BarAt(m)) = c.start},
            LAMBDA l, m : l < m)

(* A coarse bar shown to the strategy is made of every bar published of    *)
(* its interval, each once and in order, unless a crash, a failed handler  *)
(* or a bar out of its turn reached that interval.                         *)
CoarseBarsAreWhole ==
    \A k \in 1..Len(shown) :
        LET c == shown[k]
        IN  <<c.inst, c.start>> \in doubt \/ c = Merge(PartsOf(c, handled))

============================================================================
