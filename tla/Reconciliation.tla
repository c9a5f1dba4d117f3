--------------------------- MODULE Reconciliation ---------------------------
(***************************************************************************)
(* src/session_recorder.py and src/reconciliation.py: a file per day for   *)
(* paper and for the backtest, the trades of the days both have, paired,   *)
(* and the difference of their results attributed; and evaluate_phase4 of  *)
(* src/backtest/gates.py, which lets paper trading be followed by live.    *)
(*                                                                         *)
(* R is counted in hundredths, and exits are left out.                     *)
(***************************************************************************)
EXTENDS Integers, Sequences, FiniteSetsExt, SequencesExt

CONSTANTS
    RecordedDays,
    RoundTrips,     \* what a trade may be: [inst, direction, at, entry, net,
                    \* costs, r], `at' being the time of entry in its day
    MatchWindow,    \* entry_match_window_minutes
    SessionLength,  \* of the times of entry of a day
    MaxRoundTrips,  \* bound: trades of one session
    MinMatchPercent, MaxEntryBps, MaxRGap,  \* tolerance
    PaperRequired,  \* sessions_required
    MaxSaves        \* bound

ASSUME ReconciliationAssumption ==
    /\ RecordedDays \subseteq Nat /\ IsFiniteSet(RecordedDays) /\ RecordedDays # {}
    /\ {MatchWindow, SessionLength} \subseteq Nat /\ MatchWindow < SessionLength
    /\ \A t \in RoundTrips : t.at \in 0..SessionLength - 1 /\ {t.net, t.costs} \subseteq Int

VARIABLES
    records,    \* records[source][day]: [file, halted, trades]; file is "none",
                \* "written", or "cut" when the process died while writing
    saves       \* sessions saved

recordVars == <<records, saves>>

Sources  == {"paper", "backtest"}
NoRecord == [file |-> "none", halted |-> FALSE, trades |-> <<>>]

RecordsInit ==
    records = [s \in Sources |-> [d \in RecordedDays |-> NoRecord]] /\ saves = 0

(* save: the file is replaced where it stands.                             *)
Saves(source, d, record) ==
    /\ saves < MaxSaves /\ saves' = saves + 1
    /\ record.file = "cut" => record.trades = <<>>
    /\ source = "backtest" => ~record.halted
    /\ records' = [records EXCEPT ![source][d] = record]

Sessions ==
    [file : {"written", "cut"}, halted : BOOLEAN,
     trades : UNION {[1..n -> RoundTrips] : n \in 0..MaxRoundTrips}]

RecordsNext ==
    \E source \in Sources, d \in RecordedDays, r \in Sessions : Saves(source, d, r)

RecordsSpec == RecordsInit /\ [][RecordsNext]_recordVars

----------------------------------------------------------------------------
(* reconcile.                                                              *)

(* days, load.                                                             *)
HasFile(source) == {d \in RecordedDays : records[source][d].file # "none"}

CommonDays == HasFile("paper") \cap HasFile("backtest")

(* A file that cannot be read is passed over, and so is a halted paper day.*)
Compared ==
    {d \in CommonDays : /\ \A s \in Sources : records[s][d].file = "written"
                        /\ ~records["paper"][d].halted}

(* The trades of the compared days in their order, with the moment of      *)
(* entry.                                                                  *)
TradesOf(source, d) ==
    LET s == records[source][d].trades
    IN  [n \in 1..Len(s) |-> [trip |-> s[n], moment |-> d * SessionLength + s[n].at]]

AllTrades(source) ==
    FoldLeft(LAMBDA trades, d : IF d \in Compared THEN trades \o TradesOf(source, d)
                                ELSE trades,
             <<>>, [k \in 1..Max(RecordedDays) + 1 |-> k - 1])

Gap(p, b) == IF p.moment > b.moment THEN p.moment - b.moment ELSE b.moment - p.moment

Pairable(p, b) ==
    /\ p.trip.inst = b.trip.inst /\ p.trip.direction = b.trip.direction
    /\ Gap(p, b) <= MatchWindow

(* Mutant: what has been paired can be paired again.                       *)
CandidatesAgain(b, bs, ps, pairs) ==
    {j \in 1..Len(ps) : Pairable(ps[j], bs[b])}

(* The places of the paper trades that the b-th backtest trade may take.   *)
Candidates(b, bs, ps, pairs) ==
    {j \in 1..Len(ps) : Pairable(ps[j], bs[b]) /\ \A q \in pairs : q[2] # j}

(* The first of those nearest in time.                                     *)
Nearest(b, bs, ps, pairs) ==
    LET c == Candidates(b, bs, ps, pairs)
    IN  {j \in c : \A l \in c : \/ Gap(ps[j], bs[b]) < Gap(ps[l], bs[b])
                                \/ Gap(ps[j], bs[b]) = Gap(ps[l], bs[b]) /\ j <= l}

(* _match_trades: <<place in bs, place in ps>>.                            *)
Matched(bs, ps) ==
    FoldLeft(LAMBDA pairs, b : pairs \cup {<<b, j>> : j \in Nearest(b, bs, ps, pairs)},
             {}, [b \in 1..Len(bs) |-> b])

SumOf(S, Of(_)) == SumFunctionOnSet([x \in S |-> Of(x)], S)
Absolute(x) == IF x < 0 THEN -x ELSE x

(* ReconciliationResult.                                                   *)
Reconciled ==
    LET bs    == AllTrades("backtest")
        ps    == AllTrades("paper")
        pairs == Matched(bs, ps)
    IN  [days |-> Cardinality(Compared), backtest |-> bs, paper |-> ps, pairs |-> pairs,
         missing |-> 1..Len(bs) \ {q[1] : q \in pairs},
         extra   |-> 1..Len(ps) \ {q[2] : q \in pairs}]

Bt(r, k)    == r.backtest[k].trip
Paper(r, k) == r.paper[k].trip

PnlDivergence(r) ==
    SumOf(1..Len(r.paper), LAMBDA k : Paper(r, k).net)
      - SumOf(1..Len(r.backtest), LAMBDA k : Bt(r, k).net)

(* Attribution, and its total.                                             *)
CostDivergence(r, q) == Paper(r, q[2]).costs - Bt(r, q[1]).costs

Attribution(r) ==
    [missing |-> -SumOf(r.missing, LAMBDA k : Bt(r, k).net),
     extra   |-> SumOf(r.extra, LAMBDA k : Paper(r, k).net),
     costs   |-> -SumOf(r.pairs, LAMBDA q : CostDivergence(r, q)),
     fills   |-> SumOf(r.pairs, LAMBDA q : Paper(r, q[2]).net - Bt(r, q[1]).net
                                           + CostDivergence(r, q))]

Unexplained(r) ==
    LET a == Attribution(r)
    IN  PnlDivergence(r) - (a.missing + a.extra + a.costs + a.fills)

(* failures: the tolerances that are not met.  No backtest trades at all   *)
(* is a match rate of 0.                                                   *)
MatchesEnough(r) ==
    r.backtest # <<>> /\ Cardinality(r.pairs) * 100 >= MinMatchPercent * Len(r.backtest)

EntryBps(r, q) ==
    (10000 * Absolute(Paper(r, q[2]).entry - Bt(r, q[1]).entry)) \div Bt(r, q[1]).entry

EntersAlike(r) ==
    SumOf(r.pairs, LAMBDA q : EntryBps(r, q)) <= MaxEntryBps * Cardinality(r.pairs)

MeanR(s) == IF s = <<>> THEN 0 ELSE SumOf(1..Len(s), LAMBDA k : s[k].trip.r) \div Len(s)

ExpectsAlike(r) == Absolute(MeanR(r.paper) - MeanR(r.backtest)) <= MaxRGap

Explained(r) == 5 * Absolute(Unexplained(r)) <= Absolute(PnlDivergence(r))

Tracks(r) ==
    r.days > 0 /\ MatchesEnough(r) /\ EntersAlike(r) /\ ExpectsAlike(r) /\ Explained(r)

(* evaluate_phase4 as live_guard and the demonstration call it, with the   *)
(* paper sessions on file for those completed.                             *)
ClearsForLive(r) == Cardinality(HasFile("paper")) >= PaperRequired /\ Tracks(r)

----------------------------------------------------------------------------

(* Every difference between the results of paper and backtest is put down  *)
(* to a cause, none of it twice: pairs share no trade, what is called      *)
(* missing or extra could not have been paired with what is left on the    *)
(* other side, and nothing remains unexplained.                            *)
DivergenceIsAttributed ==
    LET r == Reconciled
    IN  /\ \A q, o \in r.pairs : q = o \/ (q[1] # o[1] /\ q[2] # o[2])
        /\ \A b \in r.missing, p \in r.extra : ~Pairable(r.paper[p], r.backtest[b])
        /\ Unexplained(r) = 0

(* What live_guard.py asks for: that many sessions, and a backtest of the  *)
(* same days that they are compared with.                                  *)
EnoughIsCompared ==
    LET r == Reconciled
    IN  ClearsForLive(r) => r.days >= PaperRequired

============================================================================
