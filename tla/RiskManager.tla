---------------------------- MODULE RiskManager ----------------------------
(***************************************************************************)
(* src/risk_manager.py with the session equity of src/account.py: signals  *)
(* become approved orders.  The risk engine, the session and the signals   *)
(* at hand are in memory and die with the process; the streams with their  *)
(* groups, the kill switch, the feed's liveness keys and the file with the *)
(* session's equity outlive it.                                            *)
(*                                                                         *)
(* A signal is judged in two steps: Judge reads the clock, the kill switch *)
(* and the liveness key, Decide evaluates, publishes and acknowledges.     *)
(* Nothing of an order or a fill comes back to the engine but the day's    *)
(* result: its positions stay empty.                                       *)
(***************************************************************************)
EXTENDS RiskEngine, MarketCalendar, ConsumerGroup, SessionEquity, SequencesExt

CONSTANTS
    MaxSignalAge,   \* config.MAX_SIGNAL_AGE_SECONDS
    SignalCount,    \* COUNT of the XREADGROUP of signals
    Levels,         \* reference price and stop of the signals
    Equities,       \* what limits() may answer
    Results,        \* what position updates may report
    MaxTime,        \* bound: the clock
    MaxSignals,     \* bound: signals
    MaxUpdates,     \* bound: position updates not yet read
    MaxFaults       \* bound: crashes, failed calls, lost files, halts

ASSUME RiskManagerAssumption ==
    /\ {MaxSignalAge, MaxTime, MaxSignals, MaxUpdates, MaxFaults} \subseteq Nat
    /\ SignalCount \in Nat \ {0}
    /\ Levels \in [ref : Nat \ {0}, stop : Nat, target : Nat]
    /\ Equities \subseteq Int /\ Results \subseteq Int

VARIABLES
    now,        \* the clock
    signals,    \* the trade_signals stream and the risk group
    approved,   \* the approved_orders stream and the group that fills them
    updates,    \* position updates not yet read
    halted,     \* the kill switch
    live,       \* instruments with a liveness key
    file,       \* the session-equity file
    rmLoop,     \* "down", or the step of run() to come
    rmBatch,    \* signals read or reclaimed and not yet handled
    judged,     \* the signal being handled, and what it may do
    engine,     \* the RiskEngine
    engineDay,  \* its session_day
    faults,     \* faults so far (history)
    filesLost   \* the file has been lost (history)

worldVars == <<now, updates, halted, live, file>>
rmVars    == <<rmLoop, rmBatch, judged, engine, engineDay>>
riskVars  == <<worldVars, signals, approved, rmVars, faults, filesLost>>

Signals == [inst : Instruments, intent : Intents, ref : Nat, stop : Nat,
            target : Nat, barTime : Nat]

(* An approved order; client_order_id is a digest of the first four.  from *)
(* is the signal it comes of, day the session that judged it (history).    *)
Approved == [inst : Instruments, intent : Intents, barTime : Nat, qty : Nat,
             from : Nat, day : Nat]
ClientOrderId(o) == <<o.inst, o.intent, o.barTime, o.qty>>

NotJudged == [signal |-> 0, entry |-> FALSE, exit |-> FALSE]

RiskInit ==
    /\ now = 0 /\ signals = EmptyGroup /\ approved = EmptyGroup
    /\ updates = <<>> /\ halted = FALSE /\ live = {} /\ file = NoPin
    /\ rmLoop = "down" /\ rmBatch = {} /\ judged = NotJudged
    /\ engine = NoSession /\ engineDay = -1
    /\ faults = 0 /\ filesLost = FALSE

Today == DateOf(now)

----------------------------------------------------------------------------
(* The world.                                                              *)

Clock == /\ now < MaxTime /\ now' = now + 1
         /\ UNCHANGED <<updates, halted, live, file, signals, approved, rmVars,
                        faults, filesLost>>

(* The strategy publishes a signal on a bar that has closed.               *)
SignalArrives(i, intent, t) ==
    /\ Len(signals.log) < MaxSignals
    /\ signals' = XAdd(signals, [inst |-> i, intent |-> intent, ref |-> Levels.ref,
                                 stop |-> Levels.stop, target |-> Levels.target,
                                 barTime |-> t])
    /\ UNCHANGED <<worldVars, approved, rmVars, faults, filesLost>>

UpdateArrives(net) ==
    /\ Len(updates) < MaxUpdates
    /\ updates' = Append(updates, net)
    /\ UNCHANGED <<now, halted, live, file, signals, approved, rmVars, faults, filesLost>>

(* publish_liveness, and the expiry of its key.                            *)
Feed(S) == /\ live' = S /\ live # S
           /\ UNCHANGED <<now, updates, halted, file, signals, approved, rmVars,
                          faults, filesLost>>

(* Someone halts trading, or clears the halt.                              *)
Operator(h) ==
    /\ halted # h /\ halted' = h
    /\ faults < MaxFaults /\ faults' = faults + 1
    /\ UNCHANGED <<now, updates, live, file, signals, approved, rmVars, filesLost>>

(* The file is lost, or half written by a process that died.               *)
LoseFile ==
    /\ faults < MaxFaults /\ faults' = faults + 1
    /\ file # NoPin /\ file' = NoPin /\ filesLost' = TRUE
    /\ UNCHANGED <<now, updates, halted, live, signals, approved, rmVars>>

----------------------------------------------------------------------------
(* Sessions.  The loop comes round when the batch has been handled.        *)

Idle == rmBatch = {} /\ judged = NotJudged

NeedsSession == \/ rmLoop = "down"
                \/ rmLoop = "top" /\ Idle /\ engineDay # Today

(* start_session: _resolve_equity finds a figure.                          *)
StartsSession ==
    /\ NeedsSession
    /\ \E pin \in Resolved(file, Today, Equities) :
          file' = pin /\ engine' = StartSession(engine, pin.equity)
    /\ engineDay' = Today /\ rmLoop' = "positions"
    /\ UNCHANGED <<now, updates, halted, live, signals, approved, rmBatch, judged,
                   faults, filesLost>>

(* None can be had: trading halts and the process ends.                    *)
NoEquity ==
    /\ NeedsSession /\ ~Restores(file, Today)
    /\ faults < MaxFaults /\ faults' = faults + 1
    /\ halted' = TRUE
    /\ rmLoop' = "down" /\ engine' = NoSession /\ engineDay' = -1
    /\ UNCHANGED <<now, updates, live, file, signals, approved, rmBatch, judged, filesLost>>

NoNewSession ==
    /\ rmLoop = "top" /\ Idle /\ engineDay = Today
    /\ rmLoop' = "positions"
    /\ UNCHANGED <<worldVars, signals, approved, rmBatch, judged, engine, engineDay,
                   faults, filesLost>>

----------------------------------------------------------------------------
(* Position updates: the last one read is adopted; each may trip the       *)
(* breaker.                                                                *)

Adopt(r, nets) ==
    [With(r, r.positions, Last(nets)) EXCEPT
        !.halted = \E k \in DOMAIN nets : Tripped(With(r, r.positions, nets[k]))]

HearUpdates ==
    /\ rmLoop = "positions" /\ rmLoop' = "claim"
    /\ engine' = IF updates = <<>> THEN engine ELSE Adopt(engine, updates)
    /\ halted' = (halted \/ engine'.halted)
    /\ updates' = <<>>
    /\ UNCHANGED <<now, live, file, signals, approved, rmBatch, judged, engineDay,
                   faults, filesLost>>

----------------------------------------------------------------------------
(* Signals.                                                                *)

ClaimSignals ==
    /\ Idle /\ rmLoop = "claim" /\ rmLoop' = "read"
    /\ \E S \in {{}, signals.pending} :
          signals' = XAutoClaim(signals, S) /\ rmBatch' = S
    /\ UNCHANGED <<worldVars, approved, judged, engine, engineDay, faults, filesLost>>

ReadSignals ==
    /\ Idle /\ rmLoop = "read" /\ rmLoop' = "top"
    /\ signals' = XReadGroup(signals, SignalCount)
    /\ rmBatch' = Unread(signals, SignalCount)
    /\ UNCHANGED <<worldVars, approved, judged, engine, engineDay, faults, filesLost>>

TooOld(s) == now - s.barTime > MaxSignalAge

(* _entry_permission: the phase is that of the signal's own bar; Redis may *)
(* fail to say that the feed is live.                                      *)
MayEnter(s) ==
    /\ AllowsEntry(Phase(s.barTime)) /\ ~TooOld(s)
    /\ ~halted /\ s.inst \in live

Judge ==
    /\ judged = NotJudged /\ rmBatch # {}
    /\ LET n == Min(rmBatch)
           s == signals.log[n]
       IN  judged' = [signal |-> n, entry |-> MayEnter(s),
                      exit |-> AllowsExit(Phase(s.barTime))]
    /\ UNCHANGED <<worldVars, signals, approved, rmLoop, rmBatch, engine, engineDay,
                   faults, filesLost>>

Approves(s) == ApprovesExit(engine, s, judged) \/ ApprovesEntry(engine, s, judged)

OrderOf(s, n) == [inst |-> s.inst, intent |-> s.intent, barTime |-> s.barTime,
                  qty |-> OrderFor(engine, s).qty, from |-> n, day |-> engineDay]

Done(n) == rmBatch' = rmBatch \ {n} /\ judged' = NotJudged

(* evaluate, publish if approved, acknowledge.                             *)
Decide ==
    LET n == judged.signal
        s == signals.log[n]
    IN  /\ judged # NotJudged
        /\ engine' = Evaluated(engine, s, judged)
        /\ approved' = IF Approves(s) THEN XAdd(approved, OrderOf(s, n)) ELSE approved
        /\ signals' = XAck(signals, n)
        /\ Done(n)
        /\ UNCHANGED <<worldVars, rmLoop, engineDay, faults, filesLost>>

(* The order is not published, though the engine has counted it: the       *)
(* signal stays pending, or is given up after too many deliveries.         *)
DecideFails ==
    LET n == judged.signal
        s == signals.log[n]
    IN  /\ judged # NotJudged /\ Approves(s)
        /\ faults < MaxFaults /\ faults' = faults + 1
        /\ engine' = Evaluated(engine, s, judged)
        /\ signals' = IF IsPoison(signals, n) THEN XAck(signals, n) ELSE signals
        /\ Done(n)
        /\ UNCHANGED <<worldVars, approved, rmLoop, engineDay, filesLost>>

(* The process dies: with a signal at hand, perhaps after its order was    *)
(* published; and with position updates it has been handed.                *)
RiskManagerDies ==
    /\ rmLoop # "down"
    /\ faults < MaxFaults /\ faults' = faults + 1
    /\ approved' \in {approved} \cup
          {XAdd(approved, OrderOf(signals.log[n], n)) :
              n \in {m \in {judged.signal} \ {0} : Approves(signals.log[m])}}
    /\ \E n \in 0..Len(updates) : updates' = SubSeq(updates, n + 1, Len(updates))
    /\ rmLoop' = "down" /\ rmBatch' = {} /\ judged' = NotJudged
    /\ engine' = NoSession /\ engineDay' = -1
    /\ UNCHANGED <<now, halted, live, file, signals, filesLost>>

RiskLoop == \/ StartsSession \/ NoEquity \/ NoNewSession
            \/ HearUpdates \/ ClaimSignals \/ ReadSignals \/ Judge \/ Decide
            \/ DecideFails \/ RiskManagerDies

(* Time apart: it brings the bars, too.                                    *)
RiskWorld ==
    \/ \E i \in Instruments, intent \in Intents, t \in 1..now :
          /\ t >= now - MaxSignalAge - 1    \* older ones are as much too old
          /\ SignalArrives(i, intent, t)
    \/ \E net \in Results : UpdateArrives(net)
    \/ \E S \in SUBSET Instruments : Feed(S)
    \/ \E h \in BOOLEAN : Operator(h)
    \/ LoseFile

RiskSpec == RiskInit /\ [][RiskLoop \/ RiskWorld \/ Clock]_riskVars

----------------------------------------------------------------------------

RiskTypeOK ==
    /\ now \in 0..MaxTime
    /\ signals \in GroupOf(Signals) /\ WellFormed(signals)
    /\ approved \in GroupOf(Approved) /\ WellFormed(approved)
    /\ updates \in Seq(Results) /\ halted \in BOOLEAN /\ live \subseteq Instruments
    /\ file \in Pin \cup {NoPin}
    /\ rmLoop \in {"down", "top", "positions", "claim", "read"}
    /\ rmBatch \subseteq signals.pending
    /\ judged.signal \in rmBatch \cup {0}
    /\ engine \in Risk /\ engineDay \in Nat \cup {-1}
    /\ faults \in 0..MaxFaults

(* However often a signal is delivered, to however many processes, the     *)
(* orders it becomes have one client order id, by which the execution      *)
(* engine places one of them: the id contains the quantity, and so rests   *)
(* on the session's equity being pinned.  Two sessions may size it in two  *)
(* ways: the batch read last before midnight is judged in the old one.     *)
OneOrderPerSignal ==
    \A m, n \in 1..Len(approved.log) :
        LET a == approved.log[m]
            b == approved.log[n]
        IN  a.from = b.from /\ a.day = b.day =>
                ClientOrderId(a) = ClientOrderId(b) \/ filesLost

============================================================================
