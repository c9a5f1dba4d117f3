----------------------------- MODULE MCResearch -----------------------------
(* Small instances for TLC of what decides before an order is thought of:  *)
(* the two strategies, the watch over the feed, and the evidence between   *)
(* research, paper and live trading.                                       *)
EXTENDS TrendPullback, SmaCrossover, FeedMonitor, Gates, Reconciliation

CONSTANTS Parts,    \* which of these a behaviour may be
          OneMonth  \* whether the trades of one month are among the runs

VARIABLE part

vars == <<part, trendVars, smaVars, monitorVars, gateVars, recordVars>>

(* A middling bar, one that breaks out upwards, a deep one, a quiet one    *)
(* without volume, and a gap filler.                                       *)
BarOf(low, close, high, volume, synthetic) ==
    [low |-> low, close |-> close, high |-> high,
     volume |-> volume, vwap |-> IF volume = 0 THEN 0 ELSE (low + close) \div 2,
     synthetic |-> synthetic]

SomeBars == {BarOf(1000, 1060, 1080, 10, FALSE), BarOf(1170, 1180, 1190, 20, FALSE),
             BarOf(940, 980, 1060, 10, FALSE), BarOf(1060, 1060, 1060, 0, FALSE),
             BarOf(1000, 1000, 1000, 0, TRUE)}

SomePositions == {<<>>, <<[entry |-> 1060, stop |-> 1020]>>, <<[entry |-> 0, stop |-> 0]>>}

AFewDays == {<<0, 8>>, <<3, 8>>}

Outcome == {[trades |-> 0, score |-> 9], [trades |-> 2, score |-> 3],
            [trades |-> 3, score |-> 6]}

Trade(m, i, net, r) == [month |-> m, inst |-> i, net |-> net, r |-> r]

SomeRuns ==
    [trades : {<<>>, <<Trade(1, 1, 5, 10), Trade(2, 2, 5, 10)>>,
               <<Trade(1, 1, 5, 10), Trade(2, 2, 2, 10), Trade(2, 1, -2, -5)>>,
               <<Trade(1, 1, 6, 10), Trade(2, 2, 5, 10), Trade(1, 2, -6, -9)>>,
               <<Trade(1, 1, 9, 10), Trade(2, 2, 1, 10), Trade(1, 2, -3, -5)>>}
              \cup (IF OneMonth THEN {<<Trade(1, 1, 5, 10), Trade(1, 2, 5, 10)>>} ELSE {}),
     drawdown : {5, 20}]

Trip(i, at, entry, net, costs, r) ==
    [inst |-> i, direction |-> 1, at |-> at, entry |-> entry, net |-> net,
     costs |-> costs, r |-> r]

SomeTrips == {Trip(1, 1, 1000, 5, 1, 10), Trip(1, 3, 1001, -4, 2, -8),
              Trip(1, 5, 1000, 5, 1, 10), Trip(2, 3, 1000, 5, 1, 10)}

Init ==
    /\ part \in Parts
    /\ TrendInit /\ SmaInit /\ MonitorInit /\ GatesInit /\ RecordsInit

Next ==
    /\ part' = part
    /\ \/ /\ part = "trend" /\ TrendNext
          /\ UNCHANGED <<smaVars, monitorVars, gateVars, recordVars>>
       \/ /\ part = "sma" /\ SmaNext
          /\ UNCHANGED <<trendVars, monitorVars, gateVars, recordVars>>
       \/ /\ part = "monitor" /\ MonitorNext
          /\ UNCHANGED <<trendVars, smaVars, gateVars, recordVars>>
       \/ /\ part = "gates" /\ GatesNext
          /\ UNCHANGED <<trendVars, smaVars, monitorVars, recordVars>>
       \/ /\ part = "records" /\ RecordsNext
          /\ UNCHANGED <<trendVars, smaVars, monitorVars, gateVars>>

Spec == Init /\ [][Next]_vars

(* The strategies act on what they mean to measure: the readings lie among *)
(* the prices they are means of, and a signal of the simple strategy is a  *)
(* crossing of the averages of the session's closes.                       *)
StrategiesReadRight == ReadingsAreMeans /\ SignalsAreCrossings

============================================================================
