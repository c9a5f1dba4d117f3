----------------------------- MODULE FeedMonitor -----------------------------
(***************************************************************************)
(* src/feed_health.py, FeedMonitor: the state of each instrument's feed,   *)
(* recomputed by evaluate() and moved by ticks and by the connection, with *)
(* one alert for the whole feed or one for an instrument.  The clock is    *)
(* given, as in the code.                                                  *)
(***************************************************************************)
EXTENDS MarketCalendar, Sequences, SequencesExt

CONSTANTS
    Feeds,          \* instruments
    StaleAfter,     \* stale_after_seconds
    MaxMonitorTime  \* bound

VARIABLES
    time,           \* the clock
    tracked,        \* the instruments, in the order they were first heard of
    lastTick,       \* last_tick_at
    feedState,      \* states
    connected,
    critical        \* the alerts the last step raised, by what is down

monitorVars == <<time, tracked, lastTick, feedState, connected, critical>>

NoTick == -1
WholeFeed == "all"
Down == {"stale", "disconnected"}

MonitorInit ==
    /\ time = 0 /\ connected = TRUE
    /\ tracked = <<>> /\ critical = {}
    /\ lastTick = [i \in Feeds |-> NoTick]
    /\ feedState = [i \in Feeds |-> "unknown"]

Tracked == ToSet(tracked)

(* Mutant: an instrument that has never ticked counts as one that does.    *)
AllStaleKnown(s) == tracked # <<>> /\ \A i \in Tracked : s[i] \in Down

(* all_stale, when the states are s.                                       *)
AllStale(s) == tracked # <<>> /\ \A i \in Tracked : s[i] # "live"

(* track, of an instrument not known yet.                                  *)
Track(i) ==
    /\ i \notin Tracked /\ tracked' = Append(tracked, i) /\ critical' = {}
    /\ UNCHANGED <<time, lastTick, feedState, connected>>

RecordTick(i) ==
    /\ tracked' = IF i \in Tracked THEN tracked ELSE Append(tracked, i)
    /\ lastTick' = [lastTick EXCEPT ![i] = time]
    /\ feedState' = [feedState EXCEPT ![i] = "live"]
    /\ critical' = {}
    /\ UNCHANGED <<time, connected>>

(* What evaluate() makes of instrument i.                                  *)
Verdict(i) ==
    IF ~IsMarketOpen(time) THEN "unknown"
    ELSE CASE ~connected -> "disconnected"
           [] connected /\ lastTick[i] = NoTick -> "unknown"
           [] OTHER -> IF time - lastTick[i] > StaleAfter THEN "stale" ELSE "live"

(* _set_state on the tracked instruments, one after the other, and _alert  *)
(* for each that goes down: of the whole feed if, with the states set so   *)
(* far, nothing is live.                                                   *)
SetsStates(verdict) ==
    LET after(k) == [i \in Feeds |-> IF i \in ToSet(SubSeq(tracked, 1, k))
                                     THEN verdict[i] ELSE feedState[i]]
        loud == {k \in 1..Len(tracked) :
                    /\ verdict[tracked[k]] # feedState[tracked[k]]
                    /\ verdict[tracked[k]] \in Down}
    IN  /\ feedState' = after(Len(tracked))
        /\ critical' = {IF AllStale(after(k)) THEN WholeFeed ELSE tracked[k] : k \in loud}

MarkDisconnected ==
    /\ connected' = FALSE /\ SetsStates([i \in Feeds |-> "disconnected"])
    /\ UNCHANGED <<time, tracked, lastTick>>

MarkConnected ==
    /\ connected' = TRUE /\ critical' = {}
    /\ UNCHANGED <<time, tracked, lastTick, feedState>>

Evaluate ==
    /\ SetsStates([i \in Feeds |-> Verdict(i)])
    /\ UNCHANGED <<time, tracked, lastTick, connected>>

MonitorTime ==
    /\ time < MaxMonitorTime /\ time' = time + 1
    /\ critical' = {}
    /\ UNCHANGED <<tracked, lastTick, feedState, connected>>

MonitorNext ==
    \/ \E i \in Feeds : Track(i) \/ RecordTick(i)
    \/ MarkDisconnected \/ MarkConnected \/ Evaluate \/ MonitorTime

MonitorSpec == MonitorInit /\ [][MonitorNext]_monitorVars

----------------------------------------------------------------------------

(* When the last live feed goes down, whichever it is, in whatever order   *)
(* the others went and though some never ticked, what is reported is an    *)
(* outage of the whole feed and not of an instrument.                      *)
OutagesAreCalledOutages ==
    [][(\E i \in Feeds : feedState'[i] # feedState[i] /\ feedState'[i] \in Down)
         /\ (\A i \in ToSet(tracked') : feedState'[i] # "live")
       => WholeFeed \in critical']_monitorVars

============================================================================
