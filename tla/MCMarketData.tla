---------------------------- MODULE MCMarketData ----------------------------
(* Small instances of BarBuilder, StrategyEngine and BarSource for TLC:    *)
(* part says which of them a behaviour is of, the others stay as they      *)
(* began.                                                                  *)
EXTENDS BarBuilder, StrategyEngine, BarSource

VARIABLE part

(* The counter starts anew with the third trade.                           *)
ThreeTrades == <<[price |-> 3, volume |-> 5], [price |-> 5, volume |-> 8],
                 [price |-> 2, volume |-> 1]>>

Zigzag == <<3, 6, 2, 4>>

(* Recordings of Friday, Saturday (day 5) and Monday, three bars a session *)
(* at most: full, with a thin day, a quiet one, a split or a drift over    *)
(* the weekend, one bad print, a broken bar, none.                         *)
Recorded(i, s, p, quiet) ==
    [inst |-> i, start |-> s, open |-> p, high |-> p + 1, low |-> p, close |-> p + 1,
     volume |-> IF quiet THEN 0 ELSE 3, notional |-> IF quiet THEN 0 ELSE 3 * p,
     ticks |-> IF quiet THEN 0 ELSE 1, synthetic |-> quiet]

Recording(i, starts, p, q, quiet) ==
    {Recorded(i, s, IF s < At(7, 0) THEN p ELSE q, s \in quiet) : s \in starts}

Friday == {At(4, SessionOpen + k) : k \in {0, 2, 4}}
Monday == {At(7, SessionOpen + k) : k \in {0, 2, 4}}

FramesOf(i) ==
    {{}, Recording(i, Friday \cup Monday, 10, 11, {}),
     Recording(i, Friday \cup {At(5, SessionOpen)} \cup Monday, 10, 10, {Min(Friday) + 2}),
     Recording(i, Friday \cup {Min(Monday)}, 10, 11, {}),
     Recording(i, Friday \cup Monday, 10, 11, Monday),
     Recording(i, Friday \cup Monday, 10, 5, {}),
     Recording(i, Friday \cup Monday, 1, 1, {}),
     {[b EXCEPT !.low = IF b.start = Min(Friday) THEN b.open + 1 ELSE @] :
         b \in Recording(i, Friday \cup Monday, 10, 11, {})}}

ManyHistories ==
    UNION {{(1 :> f) @@ (2 :> g) : f \in FramesOf(1)} : g \in FramesOf(2)}

TwoRanges == {<<4, 7>>, <<5, 7>>}

vars == <<part, barVars, strategyVars, sourceVars>>

AtRest ==
    /\ recorded = 1 :> {} /\ testInterval = 0 /\ testDays = <<4, 7>> /\ gate = "open"
    /\ left = recorded /\ streamed = <<>>

Init ==
    /\ BarInit /\ StrategyInit
    /\ \/ part \in {"builder", "strategy"} /\ AtRest
       \/ part = "history" /\ SourceInit

Next == /\ part' = part
        /\ \/ part = "builder" /\ BarNext /\ UNCHANGED <<strategyVars, sourceVars>>
           \/ part = "strategy" /\ StrategyNext /\ UNCHANGED <<barVars, sourceVars>>
           \/ part = "history" /\ SourceNext /\ UNCHANGED <<barVars, strategyVars>>

Spec == Init /\ [][Next]_vars

TypeOK == BarTypeOK /\ StrategyTypeOK

(* What the store holds of instrument i when entry n has been handled: of  *)
(* an interval published twice, the second bar.                            *)
Stored(i, n) ==
    {BarAt(m) : m \in {k \in 1..n : /\ BarAt(k).inst = i
                                    /\ \A l \in k + 1..n : BarAt(l).inst = i =>
                                          BarAt(l).start # BarAt(k).start}}

(* A coarse bar shown to the strategy is made of every bar published of    *)
(* its interval, and is the one that a backtest of the recording resamples *)
(* for it: unless a crash, a failed handler or a bar out of its turn       *)
(* reached the interval or, for the backtest, it was published twice.      *)
BacktestSeesTheSame ==
    /\ CoarseBarsAreWhole
    /\ \A k \in 1..Len(shown) :
          LET c == shown[k]
              parts == PartsOf(c, handled)
          IN  \/ <<c.inst, c.start>> \in doubt
              \/ \E m, n \in 1..Len(parts) : m < n /\ BarAt(parts[m]).start = BarAt(parts[n]).start
              \/ c \in ResampleFrame(Stored(c.inst, handled), CoarseInterval)

(* Time and ticks matter to the builder where it reads them.  Elsewhere    *)
(* these steps commute with its own.                                       *)
WhenRead ==
    /\ now' # now /\ loop = "top" => DateOf(now') # DateOf(now)
    /\ ticks' # ticks /\ loop = "top" => cursor = None

============================================================================
