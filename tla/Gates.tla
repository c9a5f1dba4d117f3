-------------------------------- MODULE Gates --------------------------------
(***************************************************************************)
(* src/backtest/gates.py, evaluate: the gates between a backtest and paper *)
(* trading, on the metrics of a run (src/backtest/metrics.py), of the run  *)
(* with doubled slippage and of the walk-forward, where these were run.    *)
(* R is counted in hundredths.                                             *)
(***************************************************************************)
EXTENDS WalkForward, FiniteSetsExt

CONSTANTS
    Runs,           \* what was run for the metrics: the trades, each
                    \* [month, inst, net, r], and the worst drawdown in percent
    MinOosTrades    \* 200

ASSUME GatesAssumption ==
    /\ MinOosTrades \in Nat
    /\ \A run \in Runs : /\ IsFiniteSet(DOMAIN run.trades)
                         /\ \A k \in DOMAIN run.trades : run.trades[k].net \in Int

VARIABLE
    report          \* <<>>, or the last GateReport: what was given and the
                    \* gates that block

gateVars == <<walkVars, report>>

GatesInit == WalkInit /\ report = <<>>

(* The sum of Of over the places P of s, and over all of them.             *)
SumAt(s, P, Of(_)) == SumFunctionOnSet([k \in DOMAIN s |-> Of(s[k])], P)
Along(s, Of(_))    == SumAt(s, DOMAIN s, Of)

Net(s, P) == SumAt(s, P, LAMBDA t : t.net)
Wins(s)   == {k \in DOMAIN s : s[k].net > 0}
Losses(s) == {k \in DOMAIN s : s[k].net <= 0}

(* expectancy_r and profit_factor, against their thresholds.               *)
Expects(s)    == Along(s, LAMBDA t : t.r) > 0
Profitable(s) == Net(s, Wins(s)) * 10 > -Net(s, Losses(s)) * 13

(* _group_stats, of the key Of: the profit of each group.                  *)
Groups(s, Of(_)) ==
    [g \in {Of(s[k]) : k \in DOMAIN s} |-> Net(s, {k \in DOMAIN s : Of(s[k]) = g})]

(* One group has 60 percent of the profits of those that made any.         *)
Carried(table) ==
    LET gains == {g \in DOMAIN table : table[g] > 0}
        total == SumFunctionOnSet(table, gains)
    IN  \E g \in gains : table[g] * 100 >= 60 * total

(* _concentration_gate: of months and of instruments, what can be told.    *)
Assessable(table) == Cardinality(DOMAIN table) >= 2 /\ \E g \in DOMAIN table : table[g] > 0

Concentrated(s) ==
    LET tables == {Groups(s, LAMBDA t : t.month), Groups(s, LAMBDA t : t.inst)}
        told   == {table \in tables : Assessable(table)}
    IN  told = {} \/ \E table \in told : Carried(table)

(* oos_trade_count, oos_expectancy_r and mean_degradation of the folds.    *)
OosTrades   == Along(folds, LAMBDA f : f.out.trades)
OosExpects  == Along(folds, LAMBDA f : f.out.score * f.out.trades) > 0
Degradation == Along(folds, LAMBDA f : f.ran[f.params].score - f.out.score)

(* The gates that do not pass and are not advisory.                        *)
Blocking(run, doubled, walked) ==
    LET s == run.trades
    IN  {g \in {"expectancy", "profit_factor", "drawdown", "sample", "slippage",
                "concentration", "walk_forward", "degradation"} :
           CASE g = "expectancy"    -> ~Expects(s)
             [] g = "profit_factor" -> ~Profitable(s)
             [] g = "drawdown"      -> run.drawdown >= 20
             [] g = "sample"        -> (IF walked THEN OosTrades ELSE Len(s)) < MinOosTrades
             [] g = "slippage"      -> doubled # "positive"
             [] g = "concentration" -> Concentrated(s)
             [] g = "walk_forward"  -> ~walked \/ ~OosExpects
             [] g = "degradation"   -> walked /\ folds # <<>>
                                         /\ Degradation >= 5 * Len(folds)}

(* The gates are evaluated, with the walk-forward or without it.           *)
Judges(run, doubled, walked) ==
    /\ report = <<>>
    /\ walked => walk # <<>> /\ nextFold > Len(Windows(walk[1]))
    /\ report' = <<[run |-> run, doubled |-> doubled, walked |-> walked,
                    blocks |-> Blocking(run, doubled, walked)]>>
    /\ UNCHANGED walkVars

GatesNext ==
    \/ report = <<>> /\ WalkNext /\ UNCHANGED report
    \/ \E run \in Runs, doubled \in {"not run", "positive", "negative"}, walked \in BOOLEAN :
          Judges(run, doubled, walked)

GatesSpec == GatesInit /\ [][GatesNext]_gateVars

----------------------------------------------------------------------------

Passes == report # <<>> /\ report[1].blocks = {}

(* A pass rests on a walk-forward of enough trades, all of them on days    *)
(* that followed the choice of their parameters, that came out ahead, and  *)
(* on a run of which no instrument made most of the profit.                *)
PassesRestOnEvidence ==
    Passes =>
        LET s == report[1].run.trades
            traded == {s[k].inst : k \in DOMAIN s}
            gain == [i \in traded |-> Net(s, {k \in DOMAIN s : s[k].inst = i})]
            others(i) == {j \in traded \ {i} : gain[j] > 0}
        IN  /\ FoldsAreOutOfSample /\ folds # <<>> /\ OosTrades >= MinOosTrades
            /\ \E f \in 1..Len(folds) : folds[f].out.score > 0
            /\ report[1].doubled = "positive"
            /\ \A i \in traded :
                  (Cardinality(traded) >= 2 /\ gain[i] > 0) =>
                      gain[i] * 2 < 3 * SumFunctionOnSet(gain, others(i))

(* What the name of the gate says: the result is not driven by one month.  *)
NoMonthCarries ==
    Passes =>
        LET s == report[1].run.trades
            gain(m) == Net(s, {k \in DOMAIN s : s[k].month = m})
        IN  Net(s, DOMAIN s) > 0 => \E m, n \in {s[k].month : k \in DOMAIN s} :
                             m # n /\ gain(m) > 0 /\ gain(n) > 0

============================================================================
