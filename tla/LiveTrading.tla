---------------------------- MODULE LiveTrading ----------------------------
(* What stands before live size: the guard a live engine must clear        *)
(* (live_guard.py) and the ladder its size climbs (live_scaling.py), each  *)
(* with a file that outlives the process and may be found unreadable.      *)
EXTENDS Integers, Sequences

CONSTANTS
    Ladder,        \* of each rung, the sessions and trades it asks for
    FloorDen,      \* expectancy_floor_r is -1/FloorDen of R
    MinJudged,     \* trades from which expectancy demotes
    MaxLosing,     \* LIVE_MAX_LOSING_SESSIONS
    MaxAgeDays,    \* LIVE_AUTH_MAX_AGE_DAYS
    MinEquity,     \* MIN_EQUITY
    Tolerance,     \* LIVE_AUTH_CAPITAL_TOLERANCE
    LossCapSet,    \* LIVE_MAX_DAILY_LOSS > 0
    Outcomes,      \* bound: sessions [trades, net, r, halted] that may happen
    Capitals,      \* bound: capitals a person may authorise
    Equities,      \* bound: what the account may hold
    MaxDay,        \* bound: days
    MaxSessions,   \* bound: sessions on a rung between two visits to the floor
    MaxSlips       \* bound: crashes while a file is written

ASSUME LiveAssumption ==
    /\ Ladder \in Seq([sessions : Nat, trades : Nat]) /\ Ladder # <<>>
    /\ {MinJudged, MaxLosing, FloorDen, Tolerance} \subseteq Nat \ {0}
    /\ {MaxAgeDays, MaxDay, MaxSessions, MaxSlips} \subseteq Nat
    /\ Outcomes \subseteq [trades : Nat, net : Int, r : Int, halted : BOOLEAN]
    /\ Capitals \cup Equities \subseteq Int /\ LossCapSet \in BOOLEAN

VARIABLES
    day,
    authFile,   \* the authorisation: [kind, on, capital]; kind is "none",
                \* "written" or "cut"
    decision,   \* history: what a person last decided, in the form of authFile
    armed,      \* the live engine that runs: {}, or one with its day, its
                \* equity and the decision of that time
    ladder,     \* ScalingState, saved after every session
    sinceFloor, \* history: sessions and trades on each rung since the ladder
                \* was last put at its floor
    lastSession,\* history: the last session recorded and what it did
    slips

guardSame == <<day, authFile, decision, armed>>

liveVars == <<guardSame, ladder, sinceFloor, lastSession, slips>>

ladderSame == <<ladder, sinceFloor, lastSession>>

NoFile == [kind |-> "none", on |-> 0, capital |-> 0]

FreshLadder == [rung |-> 1, sessions |-> 0, trades |-> 0, r |-> 0, losing |-> 0]

Nothing == [k \in DOMAIN Ladder |-> [sessions |-> 0, trades |-> 0]]

LiveInit ==
    /\ day = 1 /\ authFile = NoFile /\ decision = NoFile /\ armed = {}
    /\ ladder = FreshLadder
    /\ sinceFloor = Nothing
    /\ lastSession = [halted |-> FALSE, moved |-> 0] /\ slips = 0

-----------------------------------------------------------------------------
(* The guard.                                                              *)

(* Mutant: authorised once is authorised.                                  *)
IsValidForEver(auth, today) == auth.on <= today

(* LiveAuthorisation.is_valid_for.                                         *)
IsValidFor(auth, today) == auth.on <= today /\ today - auth.on <= MaxAgeDays

(* The checks of live_guard.evaluate.  A capital of zero leaves the last   *)
(* one out.                                                                *)
Cleared(auth, evidence, equity, today) ==
    /\ evidence = {"backtest", "paper", "probe", "master"}
    /\ equity > 0 /\ equity >= MinEquity
    /\ LossCapSet
    /\ auth.kind = "written"
    /\ IsValidFor(auth, today)
    /\ auth.capital > 0 => equity <= Tolerance * auth.capital

(* write_authorisation; a crash may cut the file.                          *)
Authorises(capital) ==
    /\ decision' = [kind |-> "written", on |-> day, capital |-> capital]
    /\ \/ authFile' = decision' /\ UNCHANGED slips
       \/ /\ slips < MaxSlips /\ slips' = slips + 1
          /\ authFile' = [NoFile EXCEPT !.kind = "cut"]
    /\ UNCHANGED <<day, armed, ladderSame>>

Revokes ==
    /\ authFile.kind # "none"
    /\ authFile' = NoFile /\ decision' = NoFile
    /\ UNCHANGED <<day, armed, ladderSame, slips>>

(* A live engine starts where all the evidence is supplied                 *)
(* (require_live_clearance), and runs until it is stopped.                 *)
Arms(evidence, equity) ==
    /\ armed = {} /\ Cleared(authFile, evidence, equity, day)
    /\ armed' = {[on |-> day, equity |-> equity, decision |-> decision]}
    /\ UNCHANGED <<day, authFile, decision, ladderSame, slips>>

Disarms ==
    /\ armed # {}
    /\ armed' = {}
    /\ UNCHANGED <<day, authFile, decision, ladderSame, slips>>

NextDay ==
    /\ day < MaxDay
    /\ day' = day + 1
    /\ UNCHANGED <<authFile, decision, armed, ladderSame, slips>>

Evidences == SUBSET {"backtest", "paper", "probe", "master"}

GuardNext ==
    \/ \E capital \in Capitals : Authorises(capital)
    \/ Revokes \/ Disarms \/ NextDay
    \/ \E evidence \in Evidences, equity \in Equities : Arms(evidence, equity)

-----------------------------------------------------------------------------
(* The ladder.                                                             *)

AtFullSize(l) == l.rung >= Len(Ladder)

(* RungProgress.expectancy_r below expectancy_floor_r.                     *)
BelowFloor(l) == l.trades > 0 /\ l.r * FloorDen < -l.trades

Recorded(l, session) ==
    [rung |-> l.rung, sessions |-> l.sessions + 1,
     trades |-> l.trades + session.trades, r |-> l.r + session.r,
     losing |-> IF session.net < 0 THEN l.losing + 1 ELSE 0]

(* _evaluate_demotion: straight to the floor, where nobody is demoted.     *)
Demotes(l, halted) ==
    /\ l.rung # 1
    /\ halted \/ l.losing >= MaxLosing \/ (l.trades >= MinJudged /\ BelowFloor(l))

(* Mutant: sessions or trades.                                             *)
PromotesEarly(l) ==
    /\ ~AtFullSize(l)
    /\ l.sessions >= Ladder[l.rung].sessions \/ l.trades >= Ladder[l.rung].trades
    /\ ~BelowFloor(l)

(* _evaluate_promotion.                                                    *)
Promotes(l) ==
    /\ ~AtFullSize(l)
    /\ l.sessions >= Ladder[l.rung].sessions /\ l.trades >= Ladder[l.rung].trades
    /\ ~BelowFloor(l)

Promoted(l) == [rung |-> l.rung + 1, sessions |-> 0, trades |-> 0, r |-> 0,
                losing |-> l.losing]

AfterSession(l, session) ==
    LET new == Recorded(l, session) IN
    IF Demotes(new, session.halted) THEN FreshLadder
    ELSE IF Promotes(new) THEN Promoted(new)
    ELSE new

Demoted(session) == Demotes(Recorded(ladder, session), session.halted)

Since(session) ==
    [sinceFloor EXCEPT ![ladder.rung] =
        [sessions |-> @.sessions + 1, trades |-> @.trades + session.trades]]

(* record_session and its save.  When the process dies before the save the *)
(* next one finds the ladder of the session before, and when it dies       *)
(* within it, a file it cannot read, which is the floor (_load).           *)
RecordsSession(session) ==
    /\ sinceFloor[ladder.rung].sessions < MaxSessions /\ ladder.losing < MaxSessions
    /\ \/ /\ ladder' = AfterSession(ladder, session)
          /\ sinceFloor' = IF Demoted(session) THEN Nothing ELSE Since(session)
          /\ UNCHANGED slips
       \/ /\ slips < MaxSlips /\ slips' = slips + 1
          /\ \/ ladder' = ladder /\ sinceFloor' = Since(session)
             \/ ladder' = FreshLadder /\ sinceFloor' = Nothing
    /\ lastSession' = [halted |-> session.halted, moved |-> ladder'.rung - ladder.rung]
    /\ UNCHANGED guardSame

(* force_floor, for incidents: the losing streak stays.                    *)
ForcesFloor ==
    /\ ladder.rung # 1
    /\ ladder' = [FreshLadder EXCEPT !.losing = ladder.losing]
    /\ sinceFloor' = Nothing
    /\ lastSession' = [halted |-> FALSE, moved |-> 0]
    /\ UNCHANGED <<guardSame, slips>>

LadderNext == (\E session \in Outcomes : RecordsSession(session)) \/ ForcesFloor

LiveSpec == LiveInit /\ [][GuardNext \/ LadderNext]_liveVars

-----------------------------------------------------------------------------

(* A live engine starts on the last decision of a person, not revoked, of  *)
(* the last days, and on capital near what they had in mind, however the   *)
(* file was written, cut, revoked and written again; without a capital     *)
(* (zero) the account is not looked at.                                    *)
ArmsWithinAuthorisation ==
    \A engine \in armed :
        /\ engine.decision.kind = "written"
        /\ engine.decision.on \in (engine.on - MaxAgeDays)..engine.on
        /\ \/ engine.decision.capital <= 0
           \/ engine.equity <= Tolerance * engine.decision.capital

(* Size is earned: on a rung, each of those below has seen its sessions    *)
(* and its trades since the ladder was last at its floor, through crashes, *)
(* lost saves and unreadable files.                                        *)
SizeIsEarned ==
    \A k \in 1..(ladder.rung - 1) :
        /\ sinceFloor[k].sessions >= Ladder[k].sessions
        /\ sinceFloor[k].trades >= Ladder[k].trades

(* Money is at risk only as far as a person has allowed and sessions have  *)
(* shown: who starts is authorised, and at what size is earned.            *)
LiveSizeIsEarned == ArmsWithinAuthorisation /\ SizeIsEarned

(* A halt demotes, and earns nothing (DESIGN.md:817-819).                  *)
HaltNeverPromotes == lastSession.halted => lastSession.moved <= 0

(* Every check defaults to not passed (DESIGN.md:811).                     *)
CapitalIsChecked ==
    \A engine \in armed : engine.equity <= Tolerance * engine.decision.capital

============================================================================
