----------------------------- MODULE WalkForward -----------------------------
(***************************************************************************)
(* src/backtest/walk_forward.py.  split_holdout splits the days of a       *)
(* research project into development and holdout.  run_walk_forward parts  *)
(* the days it is given, whichever they are, into rolling windows, and in  *)
(* each of these the parameters chosen on the training days are tried on   *)
(* the days after them.                                                    *)
(*                                                                         *)
(* What a backtest returns is the engine's affair: one outcome of Outcomes *)
(* for each combination of parameters, or Failed.                          *)
(***************************************************************************)
EXTENDS MarketCalendar, Sequences, SequencesExt

CONSTANTS
    ResearchSpans,  \* <<start, end>>, days the data may span
    HoldoutPercent, \* holdout_fraction
    MinSplitDays,   \* fewer trading days are not split (10)
    TrainDays, TestDays,
    Combinations,   \* length of parameter_grid: they are numbered in its order
    MinTrades,      \* min_trades_in_sample
    RunOutcomes     \* what a run may result in: [trades, score]

ASSUME WalkAssumption ==
    /\ {TrainDays, TestDays, MinSplitDays, Combinations} \subseteq Nat \ {0}
    /\ MinTrades \in Nat /\ \A span \in ResearchSpans : {span[1], span[2]} \subseteq Nat
    /\ HoldoutPercent \in 1..99
    /\ \A o \in RunOutcomes : o.trades \in Nat /\ o.score \in Int

VARIABLES
    split,      \* <<>> before, or <<[development, holdout]>>: their days
    walk,       \* <<>> before, or <<the days run_walk_forward is given>>
    nextFold,   \* of the windows, the one to come
    folds,      \* FoldResults
    trials      \* total_trials

walkVars == <<split, walk, nextFold, folds, trials>>

Failed == [trades |-> -1, score |-> 0]

WalkInit == split = <<>> /\ walk = <<>> /\ nextFold = 1 /\ folds = <<>> /\ trials = 0

(* trading_days_between.                                                   *)
DaysOf(span) ==
    FoldLeft(LAMBDA days, d : IF IsTradingDay(d) THEN Append(days, d) ELSE days,
             <<>>, [k \in 1..span[2] - span[1] + 1 |-> span[1] + k - 1])

(* split_holdout.                                                          *)
SplitHoldout(days) ==
    LET cut == (Len(days) * (100 - HoldoutPercent)) \div 100
    IN  [development |-> SubSeq(days, 1, cut), holdout |-> SubSeq(days, cut + 1, Len(days))]

Splits(span) ==
    /\ split = <<>>
    /\ Len(DaysOf(span)) >= MinSplitDays
    /\ split' = <<SplitHoldout(DaysOf(span))>>
    /\ UNCHANGED <<walk, nextFold, folds, trials>>

(* Mutant: a window begins with the last training day of the one before.   *)
StepShort == TestDays - 1

Step == TestDays

(* rolling_windows.                                                        *)
Windows(days) ==
    LET n == IF Len(days) < TrainDays + TestDays THEN 0
             ELSE (Len(days) - TrainDays - TestDays) \div Step + 1
        at(k) == (k - 1) * Step
    IN  [k \in 1..n |->
            [train |-> SubSeq(days, at(k) + 1, at(k) + TrainDays),
             test  |-> SubSeq(days, at(k) + TrainDays + 1, at(k) + TrainDays + TestDays)]]

(* run_walk_forward is called: with any days of which there are windows.   *)
Walks(days) ==
    /\ Len(Windows(days)) > 0
    /\ walk' = <<days>> /\ nextFold' = 1 /\ folds' = <<>> /\ trials' = 0
    /\ UNCHANGED split

(* The combinations that did well enough in sample, and the first of the   *)
(* best of them.                                                           *)
Eligible(inSample) ==
    {k \in 1..Combinations :
        inSample[k] # Failed /\ inSample[k].trades >= MinTrades}

Best(inSample) ==
    {k \in Eligible(inSample) :
        \A l \in Eligible(inSample) :
            \/ inSample[l].score < inSample[k].score
            \/ inSample[l].score = inSample[k].score /\ k <= l}

(* One window of it: no combination, or a failed run on the test days, and *)
(* the fold is skipped.                                                    *)
RunFold(inSample, outOfSample) ==
    /\ walk # <<>>
    /\ nextFold <= Len(Windows(walk[1]))
    /\ nextFold' = nextFold + 1 /\ UNCHANGED <<split, walk>>
    /\ trials' = trials + Combinations
    /\ folds' = IF Best(inSample) = {} \/ outOfSample = Failed THEN folds
                ELSE LET k == CHOOSE k \in Best(inSample) : TRUE
                     IN  Append(folds, [window |-> Windows(walk[1])[nextFold], params |-> k,
                                        ran |-> inSample, out |-> outOfSample])

RunResults == RunOutcomes \cup {Failed}

WalkNext ==
    \/ \E span \in ResearchSpans : Splits(span) \/ Walks(DaysOf(span))
    \/ split # <<>> /\ Walks(split[1].development)
    \/ \E inSample \in [1..Combinations -> RunResults], out \in RunResults :
          RunFold(inSample, out)

WalkSpec == WalkInit /\ [][WalkNext]_walkVars

----------------------------------------------------------------------------

Days(s) == ToSet(s)

(* Every fold is evidence: the days it is tested on come after all the     *)
(* days its parameters were chosen on and are tested on in no other fold;  *)
(* its parameters traded often enough in sample and none that did scored   *)
(* better there.                                                           *)
FoldsAreOutOfSample ==
    \A f \in 1..Len(folds) :
        LET w == folds[f].window
            chosen == folds[f].ran[folds[f].params]
        IN  /\ \A d \in Days(w.train), e \in Days(w.test) : d < e
            /\ \A g \in 1..f - 1 : Days(folds[g].window.test) \cap Days(w.test) = {}
            /\ chosen.trades >= MinTrades
            /\ \A k \in 1..Combinations :
                  LET other == folds[f].ran[k]
                  IN  other = Failed \/ other.trades < MinTrades
                        \/ other.score <= chosen.score

(* "A locked holdout", enforced "rather than leaving it to discipline":    *)
(* once the days are split no fold is trained or tested on the holdout.    *)
HoldoutIsLocked ==
    [][(split # <<>> /\ Len(folds') > Len(folds)) =>
          LET w == Last(folds').window
          IN  (Days(w.train) \cup Days(w.test)) \cap Days(split[1].holdout) = {}]_walkVars

============================================================================
