-------------------------- MODULE TradingDayProofs --------------------------
(***************************************************************************)
(* The risk manager makes one order of a signal; what the paper broker     *)
(* squares off stays so, and it holds what its fills add up to: for any    *)
(* number of instruments, signals, orders, bars, deliveries, sessions and  *)
(* faults.                                                                 *)
(***************************************************************************)
EXTENDS PaperBroker, Lemmas

(* An entry of approved is judged by its fields; the group is a group over *)
(* whatever it holds.                                                      *)
Orders == {approved.log[k] : k \in 1..Len(approved.log)}

Formed ==
    /\ now \in Nat /\ filesLost \in BOOLEAN
    /\ signals \in Group(Signals) /\ approved \in Group(Orders)
    /\ rmBatch \subseteq signals.pending

(* A session is there while the process is, and a signal at hand only then.*)
HasSession ==
    /\ rmLoop = "down" <=> engineDay = -1
    /\ rmLoop = "down" => Idle
    /\ engineDay \in Nat \cup {-1}
    /\ judged = NotJudged \/ judged.signal \in rmBatch

(* Nothing comes back to the engine but the day's result.                  *)
StaysFlat == engine.positions = [i \in Instruments |-> Flat]

(* The file holds the equity of the session, if there is one.              *)
Pinned ==
    /\ file.day \in Int /\ file.day <= Today
    /\ \/ filesLost \/ rmLoop = "down"
       \/ file.day = engineDay /\ file.equity = engine.equity

(* What order a is made of: signal s, and the equity pin of its session,   *)
(* unless that is over or its file was lost.                               *)
MadeOf(a, s) ==
    a.inst = s.inst /\ a.intent = s.intent /\ a.barTime = s.barTime

SizedBy(a, s, pin) == a.qty = OrderFor(StartSession(NoSession, pin.equity), s).qty

ComesOf(a, s, pin, lost) ==
    /\ a.day \in Int /\ MadeOf(a, s)
    /\ lost \/ a.day < pin.day \/ (a.day = pin.day /\ SizedBy(a, s, pin))

Originates == \A k \in 1..Len(approved.log) :
    /\ approved.log[k].from \in 1..Len(signals.log)
    /\ ComesOf(approved.log[k], signals.log[approved.log[k].from], file, filesLost)

RiskInv == /\ Formed /\ HasSession /\ StaysFlat /\ Pinned /\ Originates
           /\ OneOrderPerSignal

----------------------------------------------------------------------------
(* What the operators of the model return.                                 *)

LEMMA LeastIsIn ==
    ASSUME NEW S \in SUBSET Nat, S # {}
    PROVE  Min(S) \in S /\ \A n \in S : Min(S) <= n
<1> DEFINE R == OpToRel(<, Nat)
<1>1. \A n, m \in Nat : <<n, m>> \in R <=> n < m
  BY DEF OpToRel
<1>2. IsWellFoundedOn(R, Nat)
  BY NatLessThanWellFounded
<1> HIDE DEF R
<1>3. PICK m \in S : \A n \in S : ~ (<<n, m>> \in R)
  BY <1>2, WFMin
<1>4. ASSUME NEW n \in S PROVE m <= n
  <2>1. n \in Nat /\ m \in Nat
    OBVIOUS
  <2>2. ~ (n < m)
    BY <1>1, <1>3, <2>1
  <2> QED
    BY <2>1, <2>2
<1> QED
  BY <1>4 DEF Min

(* A group is one over what its log holds.                                 *)
LEMMA GroupOfItsOwn ==
    ASSUME NEW E, NEW g \in Group(E)
    PROVE  g \in Group({g.log[k] : k \in 1..Len(g.log)})
<1> DEFINE F == {g.log[k] : k \in 1..Len(g.log)}
<1>1. g.log \in Seq(E)
  BY DEF Group, GroupOf
<1>2. \A k \in 1..Len(g.log) : g.log[k] \in F
  OBVIOUS
<1>3. g.log \in Seq(F)
  <2> HIDE DEF F
  <2> QED
    BY <1>1, <1>2
<1> QED
  BY <1>3 DEF Group, GroupOf, WellFormed

(* The size of an order rests on the equity and the positions alone, and   *)
(* neither a result nor a signal changes them.                             *)
LEMMA GrossOfPositions ==
    ASSUME NEW r, NEW q, r.positions = q.positions
    PROVE  GrossExposure(r) = GrossExposure(q)
<1> DEFINE G(p) == SumFunctionOnSet([i \in Instruments |-> Size(p[i].qty) * p[i].entry],
                                    {i \in Instruments : p[i].qty # 0})
<1>1. GrossExposure(r) = G(r.positions)
  BY DEF GrossExposure, Held
<1>2. GrossExposure(q) = G(q.positions)
  BY DEF GrossExposure, Held
<1> HIDE DEF G
<1> QED
  BY <1>1, <1>2

LEMMA SizedAlike ==
    ASSUME NEW r, NEW q, NEW s,
           r.equity = q.equity, r.positions = q.positions
    PROVE  OrderFor(r, s).qty = OrderFor(q, s).qty
<1>1. SizeFor(r, s) = SizeFor(q, s)
  BY GrossOfPositions DEF SizeFor
<1> QED
  BY <1>1 DEF OrderFor

LEMMA SessionStarts ==
    ASSUME NEW r, NEW e
    PROVE  StartSession(r, e).equity = e /\ StartSession(r, e).positions = r.positions
  BY DEF StartSession

LEMMA ResultsLeaveTheRest ==
    ASSUME NEW r, NEW nets
    PROVE  /\ Adopt(r, nets).equity = r.equity
           /\ Adopt(r, nets).positions = r.positions
<1>1. /\ With(r, r.positions, Last(nets)).equity = r.equity
      /\ With(r, r.positions, Last(nets)).positions = r.positions
  BY DEF With
<1> DEFINE h == \E k \in DOMAIN nets : Tripped(With(r, r.positions, nets[k]))
<1>2. Adopt(r, nets) = [With(r, r.positions, Last(nets)) EXCEPT !.halted = h]
  BY DEF Adopt
<1> HIDE DEF h
<1> QED
  BY <1>1, <1>2 DEF With

LEMMA SignalsLeaveTheRest ==
    ASSUME NEW r, NEW s, NEW phase
    PROVE  /\ Evaluated(r, s, phase).equity = r.equity
           /\ Evaluated(r, s, phase).positions = r.positions
  BY DEF Evaluated

----------------------------------------------------------------------------
(* The orders.                                                             *)

(* A step that makes no order keeps them, if the streams only grow and the *)
(* file changes with the day.                                              *)
OrdersKeep ==
    /\ approved' = approved
    /\ Len(signals'.log) >= Len(signals.log) /\ Len(signals'.log) \in Nat
    /\ \A k \in 1..Len(signals.log) : signals'.log[k] = signals.log[k]
    /\ filesLost => filesLost'
    /\ \/ filesLost'
       \/ file' = file
       \/ file.day < file'.day /\ file'.day \in Int

LEMMA OrdersKept ==
    ASSUME RiskInv, OrdersKeep
    PROVE  Originates' /\ OneOrderPerSignal'
<1>1. OneOrderPerSignal'
  BY DEF RiskInv, OrdersKeep, OneOrderPerSignal
<1>2. ASSUME NEW k \in 1..Len(approved.log)
      PROVE  /\ approved.log[k].from \in 1..Len(signals'.log)
             /\ ComesOf(approved.log[k], signals'.log[approved.log[k].from],
                        file', filesLost')
  <2>1. /\ approved.log[k].from \in 1..Len(signals.log)
        /\ ComesOf(approved.log[k], signals.log[approved.log[k].from],
                   file, filesLost)
    BY DEF RiskInv, Originates
  <2>2. /\ approved.log[k].from \in 1..Len(signals'.log)
        /\ signals'.log[approved.log[k].from] = signals.log[approved.log[k].from]
    BY <2>1 DEF OrdersKeep, RiskInv, Formed, Group, GroupOf
  <2>3. file.day \in Int
    BY DEF RiskInv, Pinned
  <2> QED
    BY <2>1, <2>2, <2>3 DEF OrdersKeep, ComesOf
<1> QED
  BY <1>1, <1>2 DEF Originates, OrdersKeep

(* The order of the signal at hand.                                        *)
OrderAtHand == OrderOf(signals.log[judged.signal], judged.signal)

LEMMA AtHand ==
    ASSUME RiskInv, judged # NotJudged
    PROVE  /\ judged.signal \in 1..Len(signals.log)
           /\ rmLoop # "down" /\ engineDay \in Nat
<1>1. judged.signal \in signals.pending
  BY DEF RiskInv, HasSession, Formed
<1>2. judged.signal \in 1..Len(signals.log)
  BY <1>1 DEF RiskInv, Formed, Group, GroupOf, WellFormed
<1> QED
  BY <1>2 DEF RiskInv, HasSession, Idle

LEMMA OrderAtHandComesOfIt ==
    ASSUME RiskInv, judged # NotJudged
    PROVE  /\ OrderAtHand.from = judged.signal /\ OrderAtHand.day = engineDay
           /\ filesLost \/ engineDay = file.day
           /\ ComesOf(OrderAtHand, signals.log[judged.signal], file, filesLost)
<1> DEFINE o == OrderAtHand
           s == signals.log[judged.signal]
<1>1. /\ o.from = judged.signal /\ o.day = engineDay
      /\ o.inst = s.inst /\ o.intent = s.intent /\ o.barTime = s.barTime
      /\ o.qty = OrderFor(engine, s).qty
  BY DEF OrderAtHand, OrderOf
<1>2. ASSUME ~filesLost PROVE o.day = file.day /\ SizedBy(o, s, file)
  <2> DEFINE q == StartSession(NoSession, file.equity)
  <2>1. file.day = engineDay /\ file.equity = engine.equity
    BY <1>2, AtHand DEF RiskInv, Pinned
  <2>2. q.equity = engine.equity /\ q.positions = engine.positions
    BY <2>1, SessionStarts DEF RiskInv, StaysFlat, NoSession
  <2>3. OrderFor(engine, s).qty = OrderFor(q, s).qty
    <3> HIDE DEF q, s
    <3> QED
      BY <2>2, SizedAlike
  <2> QED
    BY <1>1, <2>1, <2>3 DEF SizedBy
<1>3. engineDay \in Int
  BY AtHand
<1> HIDE DEF o, s
<1>4. /\ o.from = judged.signal /\ o.day = engineDay
      /\ filesLost \/ engineDay = file.day
      /\ ComesOf(o, s, file, filesLost)
  BY <1>1, <1>2, <1>3 DEF MadeOf, ComesOf
<1> QED
  BY <1>4 DEF o, s

(* The order of the signal at hand agrees with those made of it before.    *)
LEMMA OrderAdded ==
    ASSUME RiskInv, judged # NotJudged, approved' = XAdd(approved, OrderAtHand),
           signals'.log = signals.log, UNCHANGED <<file, filesLost>>
    PROVE  /\ approved' \in Group(Orders')
           /\ Originates' /\ OneOrderPerSignal'
<1> DEFINE o == OrderAtHand
           L == Len(approved.log)
           log2 == approved'.log
<1>0. L \in Nat /\ approved \in Group(Orders)
  BY GroupTimes DEF RiskInv, Formed
<1>1. approved' \in Group(Orders \cup {o})
  <2>1. approved \in Group(Orders \cup {o})
    BY <1>0 DEF Group, GroupOf, WellFormed
  <2> QED
    BY <2>1, XAddGroup
<1>2. approved' \in Group(Orders')
  BY <1>1, GroupOfItsOwn DEF Orders
<1>3. /\ Len(log2) = L + 1 /\ log2[L + 1] = o
      /\ \A k \in 1..L : log2[k] = approved.log[k]
  <2>1. approved \in Group(Orders \cup {o})
    BY <1>0 DEF Group, GroupOf, WellFormed
  <2> QED
    BY <2>1, XAddGroup
<1>4. /\ o.from \in 1..Len(signals.log)
      /\ filesLost \/ o.day = file.day
      /\ ComesOf(o, signals.log[o.from], file, filesLost)
  BY OrderAtHandComesOfIt, AtHand
<1> HIDE DEF o, L, log2
<1>5. ASSUME NEW k \in 1..(L + 1)
      PROVE  /\ log2[k].from \in 1..Len(signals.log)
             /\ ComesOf(log2[k], signals.log[log2[k].from], file, filesLost)
  <2>1. CASE k = L + 1
    BY <1>3, <1>4, <2>1
  <2>2. CASE k # L + 1
    <3>1. k \in 1..L /\ log2[k] = approved.log[k]
      BY <1>0, <1>3, <2>2
    <3> QED
      BY <3>1 DEF RiskInv, Originates, L
  <2> QED
    BY <2>1, <2>2
<1>6. Originates'
  BY <1>3, <1>5 DEF Originates, log2
<1>7. ASSUME NEW m \in 1..(L + 1), NEW n \in 1..(L + 1), ~filesLost,
             log2[m].from = log2[n].from, log2[m].day = log2[n].day
      PROVE  ClientOrderId(log2[m]) = ClientOrderId(log2[n])
  <2>1. CASE m \in 1..L /\ n \in 1..L
    BY <1>3, <1>7, <2>1 DEF RiskInv, OneOrderPerSignal, L
  <2>2. CASE m = L + 1 \/ n = L + 1
    <3>1. log2[m].day = file.day /\ log2[n].day = file.day /\ file.day \in Int
      BY <1>3, <1>4, <1>7, <2>2 DEF RiskInv, Pinned
    <3>2. /\ MadeOf(log2[m], signals.log[log2[m].from])
          /\ SizedBy(log2[m], signals.log[log2[m].from], file)
      BY <1>5, <1>7, <3>1 DEF ComesOf
    <3>3. /\ MadeOf(log2[n], signals.log[log2[n].from])
          /\ SizedBy(log2[n], signals.log[log2[n].from], file)
      BY <1>5, <1>7, <3>1 DEF ComesOf
    <3> QED
      BY <1>7, <3>2, <3>3 DEF SizedBy, MadeOf, ClientOrderId
  <2> QED
    BY <1>0, <2>1, <2>2
<1>8. OneOrderPerSignal'
  BY <1>3, <1>7 DEF OneOrderPerSignal, ClientOrderId, log2
<1> QED
  BY <1>2, <1>6, <1>8

----------------------------------------------------------------------------
(* The steps.                                                              *)

LEMMA DayNeverFalls ==
    ASSUME NEW t \in Nat
    PROVE  /\ DateOf(t) \in Nat /\ DateOf(t + 1) \in Nat
           /\ DateOf(t) <= DateOf(t + 1)
<1> DEFINE D == DayLength
           p == t \div D
           q == (t + 1) \div D
<1>1. D \in Nat /\ D > 0
  BY CalendarAssumption
<1>2. /\ p \in Int /\ q \in Int
      /\ p * D <= t /\ t < p * D + D
      /\ q * D <= t + 1 /\ t + 1 < q * D + D
  BY <1>1
<1> HIDE DEF D, p, q
<1>3. p >= 0 /\ q >= 0 /\ p <= q
  BY <1>1, <1>2
<1> QED
  BY <1>2, <1>3 DEF DateOf, D, p, q

LEMMA TodayIsDay ==
    ASSUME RiskInv
    PROVE  Today \in Nat
  BY DayNeverFalls DEF RiskInv, Formed, Today

LEMMA InitRiskInv == RiskInit => RiskInv
<1> SUFFICES ASSUME RiskInit PROVE RiskInv
  OBVIOUS
<1>1. signals \in Group(Signals) /\ approved \in Group(Orders)
  BY EmptyGroupIsGroup DEF RiskInit
<1>2. Len(approved.log) = 0
  BY DEF RiskInit, EmptyGroup
<1>3. 0 \in Nat /\ Today \in Nat
  BY DayNeverFalls DEF RiskInit, Today
<1>4. Formed
  BY <1>1 DEF RiskInit, Formed
<1>5. HasSession /\ StaysFlat /\ Pinned
  BY <1>3 DEF RiskInit, HasSession, StaysFlat, Pinned, Idle, NoSession, NoPin
<1>6. Originates /\ OneOrderPerSignal
  BY <1>2 DEF Originates, OneOrderPerSignal
<1> QED
  BY <1>4, <1>5, <1>6 DEF RiskInv

(* The world leaves the process alone.                                     *)
LEMMA WorldRiskInv ==
    ASSUME RiskInv, RiskWorld \/ Clock
    PROVE  RiskInv'
<1>1. UNCHANGED <<approved, rmVars>>
  BY DEF RiskWorld, Clock, SignalArrives, UpdateArrives, Feed, Operator, LoseFile
<1>2. now' \in Nat /\ Today <= Today' /\ Today' \in Nat
  <2>1. now' = now \/ now' = now + 1
    BY DEF RiskWorld, Clock, SignalArrives, UpdateArrives, Feed, Operator, LoseFile,
           worldVars
  <2>2. now \in Nat
    BY DEF RiskInv, Formed
  <2> QED
    BY <2>1, <2>2, DayNeverFalls DEF Today
<1>3. /\ signals' \in Group(Signals) /\ signals'.pending = signals.pending
      /\ Len(signals'.log) >= Len(signals.log) /\ Len(signals'.log) \in Nat
      /\ \A k \in 1..Len(signals.log) : signals'.log[k] = signals.log[k]
  <2>0. signals \in Group(Signals) /\ Len(signals.log) \in Nat
    BY GroupTimes DEF RiskInv, Formed
  <2>1. CASE signals' = signals
    BY <2>0, <2>1
  <2>2. ASSUME NEW i \in Instruments, NEW intent \in Intents, NEW t \in 1..now,
               SignalArrives(i, intent, t)
        PROVE  /\ signals' \in Group(Signals) /\ signals'.pending = signals.pending
               /\ Len(signals'.log) = Len(signals.log) + 1
               /\ \A k \in 1..Len(signals.log) : signals'.log[k] = signals.log[k]
    <3> DEFINE s == [inst |-> i, intent |-> intent, ref |-> Levels.ref,
                     stop |-> Levels.stop, target |-> Levels.target, barTime |-> t]
    <3>1. s \in Signals
      BY RiskManagerAssumption DEF Signals, RiskInv, Formed
    <3>2. signals' = XAdd(signals, s)
      BY <2>2 DEF SignalArrives
    <3> HIDE DEF s
    <3>3. /\ XAdd(signals, s) \in Group(Signals)
          /\ XAdd(signals, s).pending = signals.pending
          /\ Len(XAdd(signals, s).log) = Len(signals.log) + 1
          /\ \A k \in 1..Len(signals.log) : XAdd(signals, s).log[k] = signals.log[k]
      BY <2>0, <3>1, XAddGroup
    <3> QED
      BY <3>2, <3>3
  <2> QED
    BY <2>0, <2>1, <2>2
       DEF RiskWorld, Clock, UpdateArrives, Feed, Operator, LoseFile, worldVars
<1>4. \/ file' = file /\ filesLost' = filesLost
      \/ file' = NoPin /\ filesLost' = TRUE
  BY DEF RiskWorld, Clock, SignalArrives, UpdateArrives, Feed, Operator, LoseFile,
         worldVars
<1>5. Formed'
  BY <1>1, <1>2, <1>3, <1>4 DEF RiskInv, Formed, Orders, rmVars
<1>6. HasSession' /\ StaysFlat'
  BY <1>1 DEF RiskInv, HasSession, StaysFlat, Idle, rmVars
<1>7. Pinned'
  BY <1>1, <1>2, <1>4, TodayIsDay DEF RiskInv, Pinned, NoPin, rmVars
<1>8. Originates' /\ OneOrderPerSignal'
  BY <1>1, <1>3, <1>4, OrdersKept DEF OrdersKeep
<1> QED
  BY <1>5, <1>6, <1>7, <1>8 DEF RiskInv

(* A session starts on the pinned equity, or pins a figure for a new day.  *)
LEMMA StartsRiskInv ==
    ASSUME RiskInv, StartsSession
    PROVE  RiskInv'
<1>1. PICK pin \in Resolved(file, Today, Equities) :
          file' = pin /\ engine' = StartSession(engine, pin.equity)
  BY DEF StartsSession
<1>2. \/ pin = file /\ file.day = Today
      \/ file.day < Today /\ pin.day = Today
  <2>1. CASE file.day = Today
    BY <2>1 DEF Resolved, Restores
  <2>2. CASE file.day # Today
    <3>1. pin.day = Today
      BY <2>2 DEF Resolved, Restores
    <3> QED
      BY <2>2, <3>1, TodayIsDay DEF RiskInv, Pinned
  <2> QED
    BY <2>1, <2>2
<1>3. /\ engine'.equity = pin.equity /\ engine'.positions = engine.positions
      /\ engineDay' = Today /\ rmLoop' = "positions" /\ Today' = Today
      /\ UNCHANGED <<now, signals, approved, rmBatch, judged, filesLost>>
  BY <1>1, SessionStarts DEF StartsSession, Today
<1>4. Today \in Nat
  BY TodayIsDay
<1>5. Formed' /\ StaysFlat'
  BY <1>3 DEF RiskInv, Formed, StaysFlat, Orders
<1>6. HasSession'
  BY <1>3, <1>4 DEF RiskInv, HasSession, Idle
<1>7. Pinned'
  BY <1>1, <1>2, <1>3, <1>4 DEF Pinned
<1>8. Originates' /\ OneOrderPerSignal'
  <2>1. Len(signals.log) \in Nat
    BY GroupTimes DEF RiskInv, Formed
  <2> QED
    BY <1>1, <1>2, <1>3, <1>4, <2>1, OrdersKept DEF OrdersKeep
<1> QED
  BY <1>5, <1>6, <1>7, <1>8 DEF RiskInv

(* A step that leaves the orders, the file and the engine's equity and     *)
(* positions as they are.                                                  *)
LEMMA LoopKeeps ==
    ASSUME RiskInv, Formed', HasSession',
           UNCHANGED <<now, approved, file, engineDay, filesLost>>,
           signals'.log = signals.log,
           engine'.equity = engine.equity, engine'.positions = engine.positions,
           rmLoop = "down" <=> rmLoop' = "down"
    PROVE  RiskInv'
<1>1. StaysFlat' /\ Pinned'
  BY DEF RiskInv, StaysFlat, Pinned, Today
<1>2. Originates' /\ OneOrderPerSignal'
  <2>1. Len(signals.log) \in Nat
    BY GroupTimes DEF RiskInv, Formed
  <2> QED
    BY <2>1, OrdersKept DEF OrdersKeep
<1> QED
  BY <1>1, <1>2 DEF RiskInv

LEMMA QuietLoopRiskInv ==
    ASSUME RiskInv,
           NoEquity \/ NoNewSession \/ HearUpdates \/ ClaimSignals \/ ReadSignals \/ Judge
    PROVE  RiskInv'
<1> USE DEF RiskInv
<1>1. CASE NoEquity
  <2>1. Idle /\ rmLoop' = "down" /\ engineDay' = -1 /\ engine' = NoSession
    BY <1>1 DEF NoEquity, NeedsSession, HasSession
  <2>2. UNCHANGED <<now, file, signals, approved, rmBatch, judged, filesLost>>
    BY <1>1 DEF NoEquity
  <2>3. Formed' /\ HasSession' /\ StaysFlat' /\ Pinned'
    BY <2>1, <2>2 DEF Formed, HasSession, Idle, StaysFlat, Pinned, Orders, NoSession, Today
  <2>4. Len(signals.log) \in Nat
    BY GroupTimes DEF Formed
  <2>5. Originates' /\ OneOrderPerSignal'
    BY <2>2, <2>4, OrdersKept DEF OrdersKeep
  <2> QED
    BY <2>3, <2>5
<1>2. CASE NoNewSession
  <2>1. Formed' /\ HasSession'
    BY <1>2 DEF NoNewSession, worldVars, Formed, HasSession, Idle, Orders
  <2> QED
    BY <1>2, <2>1, LoopKeeps DEF NoNewSession, worldVars
<1>3. CASE HearUpdates
  <2>1. Formed' /\ HasSession'
    BY <1>3 DEF HearUpdates, Formed, HasSession, Idle, Orders
  <2>2. engine'.equity = engine.equity /\ engine'.positions = engine.positions
    BY <1>3, ResultsLeaveTheRest DEF HearUpdates
  <2> QED
    BY <1>3, <2>1, <2>2, LoopKeeps DEF HearUpdates
<1>4. CASE ClaimSignals
  <2>1. PICK S \in {{}, signals.pending} :
            signals' = XAutoClaim(signals, S) /\ rmBatch' = S
    BY <1>4 DEF ClaimSignals
  <2>2. /\ signals' \in Group(Signals) /\ signals'.log = signals.log
        /\ signals'.pending = signals.pending
    BY <2>1, XAutoClaimGroup DEF Formed
  <2>3. Formed' /\ HasSession'
    BY <1>4, <2>1, <2>2
       DEF ClaimSignals, worldVars, Formed, HasSession, Idle, Orders
  <2> QED
    BY <1>4, <2>2, <2>3, LoopKeeps DEF ClaimSignals, worldVars
<1>5. CASE ReadSignals
  <2>1. /\ signals' \in Group(Signals) /\ signals'.log = signals.log
        /\ rmBatch' \subseteq signals'.pending
    BY <1>5, XReadGroupGroup, RiskManagerAssumption DEF ReadSignals, Formed
  <2>2. Formed' /\ HasSession'
    BY <1>5, <2>1 DEF ReadSignals, worldVars, Formed, HasSession, Idle, Orders
  <2> QED
    BY <1>5, <2>1, <2>2, LoopKeeps DEF ReadSignals, worldVars
<1>6. CASE Judge
  <2>1. judged'.signal = Min(rmBatch)
    BY <1>6 DEF Judge
  <2>2. Min(rmBatch) \in rmBatch
    <3>1. rmBatch \in SUBSET Nat
      BY DEF Formed, Group, GroupOf
    <3> QED
      BY <1>6, <3>1, LeastIsIn DEF Judge
  <2>3. Formed' /\ HasSession'
    BY <1>6, <2>1, <2>2 DEF Judge, worldVars, Formed, HasSession, Idle, Orders
  <2> QED
    BY <1>6, <2>3, LoopKeeps DEF Judge, worldVars
<1> QED
  BY <1>1, <1>2, <1>3, <1>4, <1>5, <1>6

(* The signal at hand is decided, the order published, lost or refused.    *)
LEMMA DecideRiskInv ==
    ASSUME RiskInv, Decide \/ DecideFails
    PROVE  RiskInv'
<1> DEFINE n == judged.signal
           s == signals.log[n]
<1>1. /\ judged # NotJudged /\ engine' = Evaluated(engine, s, judged)
      /\ rmBatch' = rmBatch \ {n} /\ judged' = NotJudged
      /\ UNCHANGED <<now, file, rmLoop, engineDay, filesLost>>
  BY DEF Decide, DecideFails, Done, worldVars
<1>2. /\ signals' \in Group(Signals) /\ signals'.log = signals.log
      /\ signals.pending \ {n} \subseteq signals'.pending
  <2>1. signals' = XAck(signals, n) \/ signals' = signals
    BY DEF Decide, DecideFails
  <2> QED
    BY <2>1, XAckGroup DEF RiskInv, Formed
<1>3. engine'.equity = engine.equity /\ engine'.positions = engine.positions
  BY <1>1, SignalsLeaveTheRest
<1>4. rmLoop # "down"
  BY <1>1, AtHand
<1>5. HasSession'
  BY <1>1, <1>4 DEF RiskInv, HasSession
<1>6. StaysFlat' /\ Pinned'
  BY <1>1, <1>3 DEF RiskInv, StaysFlat, Pinned, Today
<1>7. CASE approved' = approved
  <2>1. Formed'
    BY <1>1, <1>2, <1>7 DEF RiskInv, Formed, Orders
  <2> QED
    BY <1>1, <1>2, <1>3, <1>5, <1>7, <2>1, LoopKeeps
<1>8. CASE approved' = XAdd(approved, OrderAtHand)
  <2>1. approved' \in Group(Orders') /\ Originates' /\ OneOrderPerSignal'
    BY <1>1, <1>2, <1>8, OrderAdded
  <2>2. Formed'
    BY <1>1, <1>2, <2>1 DEF RiskInv, Formed
  <2> QED
    BY <1>5, <1>6, <2>1, <2>2 DEF RiskInv
<1>9. approved' = approved \/ approved' = XAdd(approved, OrderAtHand)
  BY DEF Decide, DecideFails, OrderAtHand
<1> QED
  BY <1>7, <1>8, <1>9

(* The process dies, perhaps after the order was published.                *)
LEMMA DiesRiskInv ==
    ASSUME RiskInv, RiskManagerDies
    PROVE  RiskInv'
<1>1. /\ rmLoop' = "down" /\ rmBatch' = {} /\ judged' = NotJudged
      /\ engine' = NoSession /\ engineDay' = -1
      /\ UNCHANGED <<now, file, signals, filesLost>>
  BY DEF RiskManagerDies
<1>2. HasSession' /\ StaysFlat' /\ Pinned'
  BY <1>1 DEF RiskInv, HasSession, Idle, StaysFlat, Pinned, NoSession, Today
<1>3. CASE approved' = approved
  <2>1. Formed'
    BY <1>1, <1>3 DEF RiskInv, Formed, Orders
  <2>2. Len(signals.log) \in Nat
    BY GroupTimes DEF RiskInv, Formed
  <2>3. Originates' /\ OneOrderPerSignal'
    BY <1>1, <1>3, <2>2, OrdersKept DEF OrdersKeep
  <2> QED
    BY <1>2, <2>1, <2>3 DEF RiskInv
<1>4. CASE judged # NotJudged /\ approved' = XAdd(approved, OrderAtHand)
  <2>1. approved' \in Group(Orders') /\ Originates' /\ OneOrderPerSignal'
    BY <1>1, <1>4, OrderAdded
  <2>2. Formed'
    BY <1>1, <2>1 DEF RiskInv, Formed
  <2> QED
    BY <1>2, <2>1, <2>2 DEF RiskInv
<1>5. approved' = approved \/ (judged # NotJudged /\ approved' = XAdd(approved, OrderAtHand))
  BY DEF RiskManagerDies, NotJudged, OrderAtHand
<1> QED
  BY <1>3, <1>4, <1>5

LEMMA RiskInvariant == RiskSpec => []RiskInv
<1>1. ASSUME RiskInv, [RiskLoop \/ RiskWorld \/ Clock]_riskVars
      PROVE  RiskInv'
  <2> USE <1>1
  <2>1. CASE StartsSession
    BY <2>1, StartsRiskInv
  <2>2. CASE NoEquity \/ NoNewSession \/ HearUpdates \/ ClaimSignals \/ ReadSignals \/ Judge
    BY <2>2, QuietLoopRiskInv
  <2>3. CASE Decide \/ DecideFails
    BY <2>3, DecideRiskInv
  <2>4. CASE RiskManagerDies
    BY <2>4, DiesRiskInv
  <2>5. CASE RiskWorld \/ Clock
    BY <2>5, WorldRiskInv
  <2>6. CASE UNCHANGED riskVars
    <3>1. Formed' /\ HasSession'
      BY <2>6 DEF RiskInv, Formed, HasSession, Idle, Orders, riskVars, worldVars, rmVars
    <3> QED
      BY <2>6, <3>1, LoopKeeps DEF riskVars, worldVars, rmVars
  <2> QED
    BY <2>1, <2>2, <2>3, <2>4, <2>5, <2>6 DEF RiskLoop
<1> QED
  BY <1>1, InitRiskInv, PTL DEF RiskSpec

(* However often a signal is delivered, to however many processes that     *)
(* die and start again, the orders made of it in one session have one      *)
(* client order id.  It rests on the equity being pinned: on the file, of  *)
(* which the theorem allows the loss for every session after it.           *)
THEOREM OneOrderForEachSignal == RiskSpec => []OneOrderPerSignal
<1>1. RiskInv => OneOrderPerSignal
  BY DEF RiskInv
<1> QED
  BY <1>1, RiskInvariant, PTL

----------------------------------------------------------------------------
(* The paper broker: what outlives a square-off.                           *)

(* A bar at hand that was never handed out before has all the later ones   *)
(* behind it.                                                              *)
InTurn ==
    /\ paperBatch \subseteq tape.pending
    /\ paperLoop = "down" => paperBatch = {}
    /\ \A k \in 1..tape.cursor : tape.times[k] >= 1
    /\ \A m \in paperBatch : tape.times[m] > 1 \/ m..tape.cursor \subseteq paperBatch

(* What is held was entered in a bar after which none has squared off, but *)
(* for a bar delivered again.                                              *)
EnteredIn(i, m) ==
    /\ tape.log[m].end = holding[i].since
    /\ tape.times[m] > 1 \/ \A k \in Handed(i) : k >= m => ~SquaredOff(k)

HeldSinceThen == \A i \in Instruments :
    holding[i].qty # 0 => \E m \in Handed(i) : EnteredIn(i, m)

PaperInv ==
    /\ now \in Nat /\ tape \in Group(MinuteBar)
    /\ holding = [i \in Instruments |-> holding[i]]
    /\ InTurn /\ HeldSinceThen

(* Where the bars stay and none is newly squared off, what is held was     *)
(* entered as before.                                                      *)
TapeKept(i) ==
    /\ tape.cursor <= tape'.cursor
    /\ \A k \in 1..tape.cursor :
          tape'.log[k] = tape.log[k] /\ tape'.times[k] >= tape.times[k]
    /\ \A k \in Handed(i)' : SquaredOff(k)' => k \in Handed(i) /\ SquaredOff(k)

LEMMA StillHeld ==
    ASSUME PaperInv, tape' \in Group(MinuteBar), NEW i \in Instruments, TapeKept(i),
           holding'[i] = holding[i], holding[i].qty # 0
    PROVE  \E m \in Handed(i)' : EnteredIn(i, m)'
<1>1. PICK m \in Handed(i) : EnteredIn(i, m)
  BY DEF PaperInv, HeldSinceThen
<1>2. /\ tape.cursor \in Nat /\ tape'.cursor \in Nat
      /\ m \in 1..tape.cursor
      /\ tape.times[m] \in Nat /\ tape'.times[m] \in Nat
  BY GroupTimes, <1>1 DEF PaperInv, Handed, Group, GroupOf, WellFormed, TapeKept
<1>3. /\ m \in Handed(i)' /\ tape'.log[m].end = holding'[i].since
      /\ tape'.times[m] >= tape.times[m]
  BY <1>1, <1>2 DEF Handed, EnteredIn, TapeKept
<1>4. tape.times[m] > 1 => tape'.times[m] > 1
  BY <1>2, <1>3
<1>5. ASSUME ~ (tape.times[m] > 1), NEW k \in Handed(i)', k >= m
      PROVE  ~SquaredOff(k)'
  BY <1>1, <1>5 DEF EnteredIn, TapeKept
<1> QED
  BY <1>3, <1>4, <1>5 DEF EnteredIn

LEMMA InitPaperInv == RiskInit /\ PaperInit => PaperInv
<1> SUFFICES ASSUME RiskInit, PaperInit PROVE PaperInv
  OBVIOUS
<1>1. now = 0 /\ tape \in Group(MinuteBar) /\ tape = EmptyGroup /\ paperBatch = {}
  BY EmptyGroupIsGroup DEF RiskInit, PaperInit
<1>2. InTurn
  BY <1>1 DEF InTurn, EmptyGroup
<1>3. holding = [i \in Instruments |-> NoHolding]
  BY DEF PaperInit
<1>4. HeldSinceThen
  BY <1>3 DEF HeldSinceThen, NoHolding
<1> QED
  BY <1>1, <1>2, <1>3, <1>4 DEF PaperInv

(* What leaves the bars and the positions alone, the clock among it.       *)
LEMMA QuietPaperInv ==
    ASSUME PaperInv, UNCHANGED <<tape, holding>>, now' = now \/ now' = now + 1,
           paperBatch' = paperBatch, paperLoop' = "down" => paperLoop = "down"
    PROVE  PaperInv'
<1>1. InTurn'
  BY DEF PaperInv, InTurn
<1>2. HeldSinceThen'
  BY DEF PaperInv, HeldSinceThen, EnteredIn, Handed, SquaredOff
<1> QED
  BY <1>1, <1>2 DEF PaperInv

LEMMA ClaimBarsPaperInv ==
    ASSUME PaperInv, ClaimBars
    PROVE  PaperInv'
<1> USE DEF PaperInv
<1>1. /\ now' = now /\ holding' = holding /\ paperLoop' = "read"
  BY DEF ClaimBars, riskVars, worldVars, bookVars
<1>2. PICK S \in {{}, tape.pending} : tape' = XAutoClaim(tape, S) /\ paperBatch' = S
  BY DEF ClaimBars
<1>3. S \in SUBSET tape.pending
  OBVIOUS
<1>4. /\ tape' \in Group(MinuteBar) /\ tape'.log = tape.log
      /\ tape'.cursor = tape.cursor /\ tape'.pending = tape.pending
      /\ \A k \in 1..Len(tape.log) : tape'.times[k] >= tape.times[k]
  BY <1>2, <1>3, XAutoClaimGroup
<1>5. /\ tape.cursor \in Nat /\ Len(tape.log) \in Nat /\ tape.cursor <= Len(tape.log)
      /\ tape.pending \subseteq 1..tape.cursor
      /\ \A k \in 1..Len(tape.log) : tape.times[k] \in Nat /\ tape'.times[k] \in Nat
  BY <1>4, GroupTimes DEF Group, GroupOf, WellFormed
<1>6. InTurn'
  <2>1. \A k \in 1..tape'.cursor : tape'.times[k] >= 1
    BY <1>4, <1>5 DEF InTurn
  <2>2. ASSUME NEW m \in paperBatch' PROVE tape'.times[m] > 1
    <3>1. m \in S /\ m \in 1..tape.cursor
      BY <1>2, <1>3, <1>5
    <3>2. tape'.times[m] = tape.times[m] + 1
      BY <1>2, <1>3, <3>1, XAutoClaimCounts
    <3>3. tape.times[m] >= 1 /\ tape.times[m] \in Nat
      BY <1>5, <3>1 DEF InTurn
    <3> QED
      BY <3>2, <3>3
  <2> QED
    BY <1>1, <1>2, <1>3, <1>4, <2>1, <2>2 DEF InTurn
<1>7. HeldSinceThen'
  <2> SUFFICES ASSUME NEW i \in Instruments, holding'[i].qty # 0
               PROVE  \E m \in Handed(i)' : EnteredIn(i, m)'
    BY DEF HeldSinceThen
  <2>1. TapeKept(i)
    <3>1. ASSUME NEW k \in Handed(i)', SquaredOff(k)'
          PROVE  k \in Handed(i) /\ SquaredOff(k)
      <4>1. k \in Handed(i) /\ k \in 1..Len(tape.log)
        BY <1>4, <1>5 DEF Handed
      <4>2. tape'.times[k] < MaxDeliveries /\ tape'.times[k] >= tape.times[k]
        BY <1>4, <3>1, <4>1 DEF SquaredOff
      <4>3. tape.times[k] < MaxDeliveries
        BY <1>5, <4>1, <4>2, MaxDeliveriesAssumption
      <4> QED
        BY <1>4, <3>1, <4>1, <4>3 DEF SquaredOff
    <3> QED
      BY <1>4, <1>5, <3>1 DEF TapeKept
  <2> QED
    BY <1>1, <1>4, <2>1, StillHeld
<1> QED
  BY <1>1, <1>4, <1>6, <1>7

LEMMA ReadBarsPaperInv ==
    ASSUME PaperInv, ReadMinuteBars
    PROVE  PaperInv'
<1> USE DEF PaperInv
<1>0. Len(tape.log) \in Nat
  BY GroupTimes
<1>1. /\ now' = now /\ holding' = holding /\ paperLoop' = "orders"
      /\ tape' = XReadGroup(tape, Len(tape.log))
      /\ paperBatch' = Unread(tape, Len(tape.log))
  BY DEF ReadMinuteBars, riskVars, worldVars, bookVars
<1>2. /\ tape' \in Group(MinuteBar) /\ tape'.log = tape.log
      /\ tape'.cursor >= tape.cursor
      /\ tape'.pending = tape.pending \cup paperBatch'
      /\ \A k \in 1..Len(tape.log) : tape'.times[k] >= tape.times[k]
  BY <1>0, <1>1, XReadGroupGroup
<1>3. /\ tape'.cursor = Len(tape.log)
      /\ paperBatch' = (tape.cursor + 1)..Len(tape.log)
      /\ \A k \in paperBatch' : tape'.times[k] = tape.times[k] + 1
  BY <1>1, XReadGroupAll
<1>4. /\ tape.cursor \in Nat /\ tape.cursor <= Len(tape.log)
      /\ \A k \in 1..Len(tape.log) : tape.times[k] \in Nat /\ tape'.times[k] \in Nat
  BY <1>2, GroupTimes DEF Group, GroupOf, WellFormed
<1>5. InTurn'
  <2>1. ASSUME NEW k \in 1..tape'.cursor PROVE tape'.times[k] >= 1
    <3>1. CASE k <= tape.cursor
      BY <1>0, <1>2, <1>3, <1>4, <3>1 DEF InTurn
    <3>2. CASE ~ (k <= tape.cursor)
      BY <1>0, <1>3, <1>4, <3>2
    <3> QED
      BY <3>1, <3>2
  <2>2. \A m \in paperBatch' : m..tape'.cursor \subseteq paperBatch'
    BY <1>0, <1>3, <1>4
  <2> QED
    BY <1>1, <1>2, <2>1, <2>2 DEF InTurn
<1>6. HeldSinceThen'
  <2> SUFFICES ASSUME NEW i \in Instruments, holding'[i].qty # 0
               PROVE  \E m \in Handed(i)' : EnteredIn(i, m)'
    BY DEF HeldSinceThen
  <2>1. TapeKept(i)
    <3>1. ASSUME NEW k \in Handed(i)', SquaredOff(k)'
          PROVE  k \in Handed(i) /\ SquaredOff(k)
      <4>1. k \in 1..Len(tape.log) /\ k \notin paperBatch' /\ k \notin tape.pending
        BY <1>2, <1>3, <3>1 DEF Handed, SquaredOff
      <4>2. k \in Handed(i)
        BY <1>0, <1>2, <1>3, <1>4, <4>1 DEF Handed
      <4>3. tape'.times[k] < MaxDeliveries /\ tape'.times[k] >= tape.times[k]
        BY <1>2, <3>1, <4>1 DEF SquaredOff
      <4>4. tape.times[k] < MaxDeliveries
        BY <1>4, <4>1, <4>3, MaxDeliveriesAssumption
      <4> QED
        BY <1>2, <3>1, <4>1, <4>2, <4>4 DEF SquaredOff
    <3>2. \A k \in 1..tape.cursor : k \in 1..Len(tape.log)
      BY <1>0, <1>4
    <3> QED
      BY <1>2, <3>1, <3>2 DEF TapeKept
  <2> QED
    BY <1>1, <1>2, <2>1, StillHeld
<1> QED
  BY <1>1, <1>2, <1>5, <1>6

(* A bar comes behind all the others.                                      *)
LEMMA BarComesPaperInv ==
    ASSUME PaperInv, NEW b \in MinuteBar, BarComes(b)
    PROVE  PaperInv'
<1>1. /\ tape' = XAdd(tape, b)
      /\ UNCHANGED <<now, holding, paperLoop, paperBatch>>
  BY DEF BarComes, riskVars, worldVars, bookVars
<1>2. /\ tape' \in Group(MinuteBar) /\ tape'.cursor = tape.cursor
      /\ tape'.pending = tape.pending
      /\ \A k \in 1..Len(tape.log) :
            tape'.log[k] = tape.log[k] /\ tape'.times[k] = tape.times[k]
  BY <1>1, XAddGroup DEF PaperInv
<1>3. /\ tape.cursor \in Nat /\ tape.cursor <= Len(tape.log)
      /\ \A k \in 1..tape.cursor : k \in 1..Len(tape.log) /\ tape.times[k] \in Nat
  BY GroupTimes DEF PaperInv, Group, GroupOf, WellFormed
<1>4. InTurn'
  <2>1. paperBatch \subseteq 1..tape.cursor
    BY DEF PaperInv, InTurn, Group, WellFormed
  <2> QED
    BY <1>1, <1>2, <1>3, <2>1 DEF PaperInv, InTurn
<1>5. HeldSinceThen'
  <2> SUFFICES ASSUME NEW i \in Instruments, holding'[i].qty # 0
               PROVE  \E m \in Handed(i)' : EnteredIn(i, m)'
    BY DEF HeldSinceThen
  <2>1. TapeKept(i)
    <3>1. ASSUME NEW k \in Handed(i)', SquaredOff(k)'
          PROVE  k \in Handed(i) /\ SquaredOff(k)
      BY <1>2, <1>3, <3>1 DEF Handed, SquaredOff
    <3> QED
      BY <1>2, <1>3, <3>1 DEF TapeKept
  <2> QED
    BY <1>1, <1>2, <2>1, StillHeld
<1> QED
  BY <1>1, <1>2, <1>4, <1>5 DEF PaperInv

(* The bars that come are bars.                                            *)
LEMMA BarsAreBars ==
    ASSUME NEW b \in Bars(1..now), now \in Nat
    PROVE  b \in MinuteBar
<1>1. 1..now \subseteq Nat /\ Volumes \subseteq Nat
  BY PaperAssumption
<1>2. b \in [inst : Instruments, end : 1..now, most : Volumes, out : BOOLEAN]
  BY DEF Bars
<1>3. /\ b.inst \in Instruments /\ b.end \in Nat /\ b.most \in Nat /\ b.out \in BOOLEAN
      /\ b = [inst |-> b.inst, end |-> b.end, most |-> b.most, out |-> b.out]
  BY <1>1, <1>2
<1> QED
  BY <1>3 DEF MinuteBar

(* What a bar leaves of the position it meets: what there was, nothing, or *)
(* what it brought itself.                                                 *)
LEMMA HeldAfterBar ==
    ASSUME NEW b
    PROVE  LET s == Processed(b)
           IN  \/ s.held = holding[b.inst] \/ s.held = NoHolding
               \/ s.held.since = b.end
<1> DEFINE a == AtOpen(holding[b.inst], waiting[b.inst], b)
<1>1. a.held = holding[b.inst] \/ a.held = NoHolding \/ a.held.since = b.end
  BY DEF AtOpen
<1> HIDE DEF a
<1>2. Processed(b) = a \/ Processed(b).held = NoHolding
  BY DEF Processed, Closed, AfterClose, a
<1> QED
  BY <1>1, <1>2

LEMMA SquaredAfterBar ==
    ASSUME NEW s, NEW b, SquaresOff(s.held, b)
    PROVE  Closed(s, b).held = NoHolding
  BY DEF Closed, AfterClose

(* The bar at hand is the first of those there are; the others are behind  *)
(* it, and stay at hand.                                                   *)
LEMMA FirstOfBatch ==
    ASSUME PaperInv, paperBatch # {}
    PROVE  /\ FirstBar \in paperBatch /\ FirstBar \in 1..tape.cursor
           /\ FirstBar \in 1..Len(tape.log)
           /\ tape.log[FirstBar] \in MinuteBar
           /\ \A m \in paperBatch : m \in Nat /\ FirstBar <= m
<1>1. /\ paperBatch \subseteq 1..tape.cursor /\ tape.cursor <= Len(tape.log)
      /\ tape.cursor \in Nat /\ Len(tape.log) \in Nat /\ tape.log \in Seq(MinuteBar)
  BY GroupTimes DEF PaperInv, InTurn, Group, GroupOf, WellFormed
<1>2. paperBatch \in SUBSET Nat
  BY <1>1
<1>3. Min(paperBatch) \in paperBatch /\ \A n \in paperBatch : Min(paperBatch) <= n
  BY <1>2, LeastIsIn
<1>4. Min(paperBatch) \in 1..Len(tape.log)
  <2>1. Min(paperBatch) \in 1..tape.cursor
    BY <1>1, <1>3
  <2> QED
    BY <1>1, <2>1
<1> QED
  BY <1>1, <1>2, <1>3, <1>4 DEF FirstBar

(* One bar has been handled, with no more than an entry of its own left of *)
(* it where it does not square off, or stays to be delivered again.        *)
Handles(n, b) ==
    /\ n = FirstBar /\ b = tape.log[n] /\ paperBatch # {}
    /\ UNCHANGED <<now, paperLoop>> /\ paperBatch' = paperBatch \ {n}
    /\ tape' = tape \/ tape' = XAck(tape, n)
    /\ \E p : /\ holding' = [holding EXCEPT ![b.inst] = p]
              /\ p = holding[b.inst] \/ p = NoHolding \/ p.since = b.end
              /\ \/ p.qty = 0 \/ ~RequiresFlat(Phase(b.end)) \/ tape' = tape
                 \/ IsPoison(tape, n)

LEMMA HandlesPaperInv ==
    ASSUME PaperInv, NEW F, NEW b, Handles(F, b)
    PROVE  PaperInv'
<1>1. PICK p : /\ holding' = [holding EXCEPT ![b.inst] = p]
               /\ p = holding[b.inst] \/ p = NoHolding \/ p.since = b.end
               /\ \/ p.qty = 0 \/ ~RequiresFlat(Phase(b.end)) \/ tape' = tape
                  \/ IsPoison(tape, F)
  BY DEF Handles
<1>2. /\ F \in paperBatch /\ F \in 1..tape.cursor /\ F \in 1..Len(tape.log)
      /\ b \in MinuteBar /\ b = tape.log[F]
      /\ \A m \in paperBatch : m \in Nat /\ F <= m
  BY FirstOfBatch DEF Handles
<1>3. /\ now' = now /\ paperLoop' = paperLoop /\ paperBatch' = paperBatch \ {F}
      /\ tape' = tape \/ tape' = XAck(tape, F)
  BY DEF Handles
<1>4. /\ tape' \in Group(MinuteBar) /\ tape'.log = tape.log
      /\ tape'.cursor = tape.cursor /\ tape'.times = tape.times
      /\ tape'.pending \in {tape.pending, tape.pending \ {F}}
      /\ tape' = tape => tape'.pending = tape.pending
  BY <1>3, XAckGroup DEF PaperInv
<1>5. /\ tape.cursor \in Nat /\ Len(tape.log) \in Nat /\ tape.cursor <= Len(tape.log)
      /\ \A k \in 1..Len(tape.log) : tape.times[k] \in Nat
  BY GroupTimes DEF PaperInv, Group, GroupOf, WellFormed
<1>6. /\ b.inst \in Instruments /\ holding' = [i \in Instruments |-> holding'[i]]
      /\ holding'[b.inst] = p
      /\ \A i \in Instruments : i # b.inst => holding'[i] = holding[i]
  BY <1>1, <1>2 DEF PaperInv, MinuteBar
<1>7. InTurn'
  <2>1. ASSUME NEW m \in paperBatch', ~ (tape'.times[m] > 1)
        PROVE  m..tape'.cursor \subseteq paperBatch'
    <3>1. m \in paperBatch /\ m # F /\ m \in Nat /\ F <= m
      BY <1>2, <1>3
    <3>2. m..tape.cursor \subseteq paperBatch
      BY <1>4, <2>1, <3>1 DEF PaperInv, InTurn
    <3>3. F \notin m..tape.cursor
      BY <1>2, <1>5, <3>1
    <3> QED
      BY <1>3, <1>4, <3>2, <3>3
  <2>2. paperBatch' \subseteq tape'.pending
    BY <1>3, <1>4 DEF PaperInv, InTurn
  <2> QED
    BY <1>3, <1>4, <2>1, <2>2 DEF PaperInv, InTurn
(* The bar does not square off a position that is there afterwards.        *)
<1>8. ASSUME p.qty # 0 PROVE ~SquaredOff(F)'
  <2>1. CASE ~RequiresFlat(Phase(b.end))
    BY <1>2, <1>4, <2>1 DEF SquaredOff
  <2>2. CASE tape' = tape
    BY <1>2, <1>4, <2>2 DEF SquaredOff, PaperInv, InTurn
  <2>3. CASE IsPoison(tape, F)
    BY <1>2, <1>4, <1>5, <2>3, MaxDeliveriesAssumption DEF SquaredOff, IsPoison
  <2> QED
    BY <1>1, <1>8, <2>1, <2>2, <2>3
<1>9. ASSUME NEW k, k # F, SquaredOff(k)' PROVE SquaredOff(k)
  BY <1>4, <1>9 DEF SquaredOff
<1>10. HeldSinceThen'
  <2> SUFFICES ASSUME NEW i \in Instruments, holding'[i].qty # 0
               PROVE  \E m \in Handed(i)' : EnteredIn(i, m)'
    BY DEF HeldSinceThen
  <2>1. Handed(i)' = Handed(i)
    BY <1>4 DEF Handed
  <2>2. CASE holding'[i] = holding[i]
    <3>1. ASSUME NEW k \in Handed(i)', SquaredOff(k)'
          PROVE  k \in Handed(i) /\ SquaredOff(k)
      <4>1. CASE k = F
        <5>1. i = b.inst
          BY <1>2, <2>1, <4>1 DEF Handed
        <5> QED
          BY <1>6, <1>8, <3>1, <4>1, <5>1
      <4>2. CASE k # F
        BY <1>9, <2>1, <3>1, <4>2
      <4> QED
        BY <4>1, <4>2
    <3>2. TapeKept(i)
      <4>1. \A k \in 1..tape.cursor : tape'.times[k] >= tape.times[k]
        BY <1>4, <1>5
      <4> QED
        BY <1>4, <1>5, <3>1, <4>1 DEF TapeKept
    <3> QED
      BY <1>4, <2>2, <3>2, StillHeld
  <2>3. CASE holding'[i] # holding[i]
    <3>1. i = b.inst /\ p.qty # 0 /\ holding'[i] = p
      BY <1>6, <2>3
    <3>2. p.since = b.end
      BY <1>1, <2>3, <3>1 DEF NoHolding
    <3>3. F \in Handed(i)' /\ tape'.log[F].end = holding'[i].since
      BY <1>2, <1>4, <2>1, <3>1, <3>2 DEF Handed
    <3>4. ASSUME ~ (tape'.times[F] > 1), NEW k \in Handed(i)', k >= F
          PROVE  ~SquaredOff(k)'
      <4>1. CASE k = F
        BY <1>8, <3>1, <4>1
      <4>2. CASE k # F
        <5>1. F..tape.cursor \subseteq paperBatch
          BY <1>2, <1>4, <3>4 DEF PaperInv, InTurn
        <5>2. k \in F..tape.cursor
          BY <1>2, <1>5, <2>1, <3>4 DEF Handed
        <5>3. k \in tape'.pending
          BY <1>4, <4>2, <5>1, <5>2 DEF PaperInv, InTurn
        <5> QED
          BY <5>3 DEF SquaredOff
      <4> QED
        BY <4>1, <4>2
    <3> QED
      BY <3>3, <3>4 DEF EnteredIn
  <2> QED
    BY <2>2, <2>3
<1> QED
  BY <1>3, <1>4, <1>6, <1>7, <1>10 DEF PaperInv

LEMMA BarHandles ==
    ASSUME PaperInv, HandleMinuteBar \/ HandleBarFails
    PROVE  \E n, b : Handles(n, b)
<1> DEFINE b == tape.log[FirstBar]
           s == Processed(b)
           f == IF SquaresOff(s.held, b) THEN Closed(s, b) ELSE s
<1>1. s.held = holding[b.inst] \/ s.held = NoHolding \/ s.held.since = b.end
  BY HeldAfterBar
<1>2. /\ f.held = s.held \/ f.held = NoHolding
      /\ f.held.qty = 0 \/ ~RequiresFlat(Phase(b.end))
  <2>1. CASE SquaresOff(s.held, b)
    BY <2>1, SquaredAfterBar DEF NoHolding
  <2>2. CASE ~SquaresOff(s.held, b)
    BY <2>2 DEF SquaresOff
  <2> QED
    BY <2>1, <2>2
<1> SUFFICES Handles(FirstBar, b)
  OBVIOUS
<1>3. CASE HandleMinuteBar
  <2>1. /\ paperBatch # {} /\ AfterBar(b, f) /\ tape' = XAck(tape, FirstBar)
        /\ UNCHANGED riskVars
    BY <1>3 DEF HandleMinuteBar
  <2> HIDE DEF s, f
  <2> QED
    BY <1>1, <1>2, <2>1 DEF Handles, AfterBar, riskVars, worldVars
<1>4. CASE HandleBarFails
  <2>1. /\ paperBatch # {} /\ now' = now
        /\ AfterBar(b, s) \/ AfterBar(b, f)
        /\ \/ tape' = tape
           \/ IsPoison(tape, FirstBar) /\ tape' = XAck(tape, FirstBar)
    BY <1>4 DEF HandleBarFails, worldVars
  <2> HIDE DEF s, f
  <2> QED
    BY <1>1, <1>2, <2>1 DEF Handles, AfterBar
<1> QED
  BY <1>3, <1>4

(* The process dies with all it holds.                                     *)
LEMMA PaperDiesPaperInv ==
    ASSUME PaperInv, PaperDies
    PROVE  PaperInv'
<1>1. /\ UNCHANGED <<now, tape>> /\ paperBatch' = {}
      /\ holding' = [i \in Instruments |-> NoHolding]
  BY DEF PaperDies, worldVars
<1>2. InTurn'
  BY <1>1 DEF PaperInv, InTurn
<1>3. HeldSinceThen'
  BY <1>1 DEF HeldSinceThen, NoHolding
<1> QED
  BY <1>1, <1>2, <1>3 DEF PaperInv

LEMMA PaperInvariant == PaperSpec => []PaperInv
<1>1. ASSUME PaperInv, [PaperNext]_<<riskVars, paperVars>>
      PROVE  PaperInv'
  <2> USE <1>1
  <2>1. CASE \E b \in Bars(1..now) : BarComes(b)
    BY <2>1, BarComesPaperInv, BarsAreBars DEF PaperInv
  <2>2. CASE PaperStarts \/ TakeOrders
    BY <2>2, QuietPaperInv DEF PaperStarts, TakeOrders, riskVars, worldVars, bookVars
  <2>3. CASE ClaimBars
    BY <2>3, ClaimBarsPaperInv
  <2>4. CASE ReadMinuteBars
    BY <2>4, ReadBarsPaperInv
  <2>5. CASE HandleMinuteBar \/ HandleBarFails
    BY <2>5, BarHandles, HandlesPaperInv
  <2>6. CASE PaperDies
    BY <2>6, PaperDiesPaperInv
  <2>7. CASE (\E o \in Approved : OrderArrives(o)) \/ UNCHANGED <<riskVars, paperVars>>
    BY <2>7, QuietPaperInv DEF OrderArrives, riskVars, worldVars, paperVars, bookVars
  <2>8. CASE (RiskLoop \/ RiskWorld \/ Clock) /\ UNCHANGED paperVars
    <3>1. now' = now \/ now' = now + 1
      BY <2>8 DEF RiskLoop, RiskWorld, Clock, StartsSession, NoEquity, NoNewSession,
         HearUpdates, ClaimSignals, ReadSignals, Judge, Decide, DecideFails,
         RiskManagerDies, SignalArrives, UpdateArrives, Feed, Operator, LoseFile,
         worldVars
    <3> QED
      BY <2>8, <3>1, QuietPaperInv DEF paperVars, bookVars
  <2> QED
    BY <2>1, <2>2, <2>3, <2>4, <2>5, <2>6, <2>7, <2>8 DEF PaperNext, PaperLoop
<1> QED
  BY <1>1, InitPaperInv, PTL DEF PaperSpec

(* Whatever is ordered, whatever bars come, in any order, late, twice or   *)
(* not at all, whenever the broker dies and however often a bar is         *)
(* delivered: what is held was entered after the last square-off handled,  *)
(* or in a bar that was delivered again.                                   *)
THEOREM SquaredOffForGood == PaperSpec => []SquareOffIsFinal
<1>1. PaperInv => SquareOffIsFinal
  BY DEF PaperInv, HeldSinceThen, EnteredIn, SquareOffIsFinal
<1> QED
  BY <1>1, PaperInvariant, PTL

----------------------------------------------------------------------------
(* The types of the risk manager's state under any orders.  An order is of *)
(* a natural size because it is approved: its stop is not its price.       *)
RiskTyped == RiskTypeOK /\ HasSession /\ StaysFlat

LEMMA SizedByNat ==
    ASSUME RiskTyped, NEW s \in Signals, ApprovesEntry(engine, s, judged)
    PROVE  SizeFor(engine, s) \in Nat
<1> DEFINE d == 1000 * Size(s.ref - s.stop)
           p == 1000 * s.ref
           room == engine.equity * MaxGross - 1000 * GrossExposure(engine)
           a == (engine.equity * RiskPerTrade) \div d
           b == (engine.equity * MaxExposure) \div p
           c == (IF room < 0 THEN 0 ELSE room) \div p
<1>1. d \in Nat /\ d > 0 /\ p \in Nat /\ p > 0
  <2>1. s.ref \in Nat /\ s.stop \in Nat /\ s.ref > 0 /\ s.stop # s.ref
    BY DEF ApprovesEntry, GoodStop, Signals
  <2> QED
    BY <2>1 DEF Size
<1>2. GrossExposure(engine) = 0
  <2>1. Held(engine) = {}
    BY DEF RiskTyped, StaysFlat, Held, Flat
  <2> QED
    BY <2>1, SumOfNone DEF GrossExposure
<1>3. /\ engine.equity * RiskPerTrade \in Int /\ engine.equity * MaxExposure \in Int
      /\ (IF room < 0 THEN 0 ELSE room) \in Int
  <2>1. engine.equity \in Int
    BY DEF RiskTyped, RiskTypeOK, Risk
  <2>2. {RiskPerTrade, MaxExposure, MaxGross} \subseteq Int
    BY LimitsAssumption
  <2> QED
    BY <1>2, <2>1, <2>2
<1>4. SizeFor(engine, s) = MinOf({a, b, c}) /\ SizeFor(engine, s) > 0
  BY DEF SizeFor, ApprovesEntry
<1> HIDE DEF d, p, room
<1>5. a \in Int /\ b \in Int /\ c \in Int
  BY <1>1, <1>3
<1> HIDE DEF a, b, c
<1>6. MinOf({a, b, c}) \in {a, b, c}
  <2>1. \E x \in {a, b, c} : \A y \in {a, b, c} : x <= y
    BY <1>5
  <2> QED
    BY <2>1 DEF MinOf
<1> QED
  BY <1>4, <1>5, <1>6

LEMMA OrderIsApproved ==
    ASSUME RiskTyped, judged # NotJudged, Approves(signals.log[judged.signal])
    PROVE  OrderAtHand \in Approved /\ rmLoop # "down"
<1> DEFINE n == judged.signal
           s == signals.log[n]
<1>1. n \in 1..Len(signals.log) /\ s \in Signals
  <2>1. n \in signals.pending
    BY DEF RiskTyped, HasSession, RiskTypeOK
  <2>2. signals \in Group(Signals)
    BY DEF RiskTyped, RiskTypeOK, Group
  <2>3. n \in 1..Len(signals.log)
    BY <2>1, <2>2, GroupTimes DEF Group, GroupOf, WellFormed
  <2> QED
    BY <2>2, <2>3 DEF Group, GroupOf
<1>2. rmLoop # "down" /\ engineDay \in Nat
  BY DEF RiskTyped, HasSession, Idle
<1>3. engine.positions[s.inst].qty = 0
  BY <1>1 DEF RiskTyped, StaysFlat, Flat, Signals
<1>4. ApprovesEntry(engine, s, judged)
  BY <1>3 DEF Approves, ApprovesExit
<1>5. SizeFor(engine, s) \in Nat /\ s.intent \in Opening
  BY <1>1, <1>4, SizedByNat DEF ApprovesEntry
<1>6. OrderFor(engine, s).qty \in Nat
  BY <1>5 DEF OrderFor
<1> QED
  BY <1>1, <1>2, <1>6 DEF OrderAtHand, OrderOf, Approved, Signals

(* What the engine becomes is an engine.                                   *)
LEMMA EnginesAre ==
    ASSUME NEW r \in Risk
    PROVE  /\ NoSession \in Risk
           /\ \A e \in Int : StartSession(r, e) \in Risk
           /\ \A nets \in Seq(Int) : nets # <<>> => Adopt(r, nets) \in Risk
           /\ \A s, phase : Evaluated(r, s, phase) \in Risk
<1>1. /\ r.equity \in Int /\ r.pnl \in Int /\ r.positions \in [Instruments -> Position]
      /\ r.halted \in BOOLEAN /\ r.orders \in Nat
  BY DEF Risk
<1>2. NoSession \in Risk
  <2>1. [i \in Instruments |-> Flat] \in [Instruments -> Position]
    BY DEF Flat, Position
  <2> QED
    BY <2>1 DEF NoSession, Risk
<1>3. ASSUME NEW e \in Int PROVE StartSession(r, e) \in Risk
  BY <1>1 DEF StartSession, Risk
<1>4. ASSUME NEW nets \in Seq(Int), nets # <<>> PROVE Adopt(r, nets) \in Risk
  <2> DEFINE h == \E k \in DOMAIN nets : Tripped(With(r, r.positions, nets[k]))
  <2>1. Last(nets) \in Int
    BY <1>4 DEF Last
  <2>2. With(r, r.positions, Last(nets)) \in Risk
    BY <1>1, <2>1 DEF With, Risk
  <2>3. Adopt(r, nets) = [With(r, r.positions, Last(nets)) EXCEPT !.halted = h]
    BY DEF Adopt
  <2>4. h \in BOOLEAN
    OBVIOUS
  <2> HIDE DEF h
  <2> QED
    BY <2>2, <2>3, <2>4 DEF Risk
<1>5. ASSUME NEW s, NEW phase PROVE Evaluated(r, s, phase) \in Risk
  <2> DEFINE n == r.orders + (IF ApprovesEntry(r, s, phase) THEN 1 ELSE 0)
  <2>1. n \in Nat
    BY <1>1
  <2>2. Tripped(r) \in BOOLEAN
    BY <1>1 DEF Tripped
  <2>3. \/ Evaluated(r, s, phase) = r
        \/ Evaluated(r, s, phase)
             = [equity |-> r.equity, pnl |-> r.pnl, positions |-> r.positions,
                halted |-> Tripped(r), orders |-> n]
    BY DEF Evaluated
  <2> HIDE DEF n
  <2> QED
    BY <1>1, <2>1, <2>2, <2>3 DEF Risk
<1> QED
  BY <1>2, <1>3, <1>4, <1>5

LEMMA InitRiskTyped == RiskInit => RiskTyped
<1> SUFFICES ASSUME RiskInit PROVE RiskTyped
  OBVIOUS
<1>1. signals \in Group(Signals) /\ approved \in Group(Approved)
  BY EmptyGroupIsGroup DEF RiskInit
<1>2. engine \in Risk
  BY EnginesAre DEF RiskInit, NoSession, Risk, Flat, Position
<1>3. RiskTypeOK
  <2>1. 0 \in 0..MaxTime /\ 0 \in 0..MaxFaults
    BY RiskManagerAssumption
  <2>2. updates = <<>> /\ live = {} /\ halted = FALSE
    BY DEF RiskInit
  <2>3. updates \in Seq(Results)
    BY <2>2
  <2>4. live \subseteq Instruments /\ halted \in BOOLEAN
    BY <2>2
  <2>5. rmBatch \subseteq signals.pending /\ judged.signal \in rmBatch \cup {0}
    BY DEF RiskInit, NotJudged
  <2> QED
    BY <1>1, <1>2, <2>1, <2>3, <2>4, <2>5 DEF RiskInit, RiskTypeOK, Group
<1>4. HasSession /\ StaysFlat
  BY DEF RiskInit, HasSession, Idle, StaysFlat, NoSession
<1> QED
  BY <1>3, <1>4 DEF RiskTyped

LEMMA WorldRiskTyped ==
    ASSUME RiskTyped, RiskWorld \/ Clock
    PROVE  RiskTyped'
<1> USE DEF RiskTyped
<1>1. UNCHANGED <<approved, rmVars>>
  BY DEF RiskWorld, Clock, SignalArrives, UpdateArrives, Feed, Operator, LoseFile
<1>2. now' \in 0..MaxTime
  <2>1. now \in 0..MaxTime /\ MaxTime \in Nat
    BY RiskManagerAssumption DEF RiskTypeOK
  <2>2. now' = now \/ (now < MaxTime /\ now' = now + 1)
    BY DEF RiskWorld, Clock, SignalArrives, UpdateArrives, Feed, Operator, LoseFile,
           worldVars
  <2> QED
    BY <2>1, <2>2
<1>3. signals' \in Group(Signals) /\ signals'.pending = signals.pending
  <2>0. signals \in Group(Signals)
    BY DEF RiskTypeOK, Group
  <2>1. CASE signals' = signals
    BY <2>0, <2>1
  <2>2. ASSUME NEW i \in Instruments, NEW intent \in Intents, NEW t \in 1..now,
               SignalArrives(i, intent, t)
        PROVE  signals' \in Group(Signals) /\ signals'.pending = signals.pending
    <3> DEFINE s == [inst |-> i, intent |-> intent, ref |-> Levels.ref,
                     stop |-> Levels.stop, target |-> Levels.target, barTime |-> t]
    <3>1. s \in Signals
      <4>1. t \in Nat
        BY DEF RiskTypeOK
      <4> QED
        BY <4>1, RiskManagerAssumption DEF Signals
    <3>2. signals' = XAdd(signals, s)
      BY <2>2 DEF SignalArrives
    <3> HIDE DEF s
    <3> QED
      BY <2>0, <3>1, <3>2, XAddGroup
  <2> QED
    BY <2>1, <2>2
       DEF RiskWorld, Clock, UpdateArrives, Feed, Operator, LoseFile, worldVars
<1>4. /\ updates' \in Seq(Results) /\ halted' \in BOOLEAN /\ live' \subseteq Instruments
      /\ file' \in Pin \cup {NoPin} /\ faults' \in 0..MaxFaults
  <2>1. faults \in 0..MaxFaults /\ MaxFaults \in Nat
    BY RiskManagerAssumption DEF RiskTypeOK
  <2>2. faults' = faults \/ (faults < MaxFaults /\ faults' = faults + 1)
    BY DEF RiskWorld, Clock, SignalArrives, UpdateArrives, Feed, Operator, LoseFile,
           worldVars
  <2>3. \/ updates' = updates
        \/ \E net \in Results : updates' = Append(updates, net)
    BY DEF RiskWorld, Clock, SignalArrives, UpdateArrives, Feed, Operator, LoseFile,
           worldVars
  <2>4. updates' \in Seq(Results)
    BY <2>3 DEF RiskTypeOK
  <2>5. /\ halted' = halted \/ halted' \in BOOLEAN
        /\ live' = live \/ live' \in SUBSET Instruments
        /\ file' = file \/ file' = NoPin
    BY DEF RiskWorld, Clock, SignalArrives, UpdateArrives, Feed, Operator, LoseFile,
           worldVars
  <2> QED
    BY <2>1, <2>2, <2>4, <2>5 DEF RiskTypeOK
<1>5. RiskTypeOK'
  BY <1>1, <1>2, <1>3, <1>4 DEF RiskTypeOK, rmVars, Group
<1>6. HasSession' /\ StaysFlat'
  BY <1>1 DEF HasSession, StaysFlat, Idle, rmVars
<1> QED
  BY <1>5, <1>6

LEMMA LoopRiskTyped ==
    ASSUME RiskTyped, RiskLoop
    PROVE  RiskTyped'
<1> USE DEF RiskTyped
<1>0. /\ signals \in Group(Signals) /\ approved \in Group(Approved)
      /\ now \in Nat /\ engine \in Risk /\ engine.equity \in Int
  BY DEF RiskTypeOK, Group, Risk
<1>1. CASE StartsSession
  <2>1. PICK pin \in Resolved(file, Today, Equities) :
            file' = pin /\ engine' = StartSession(engine, pin.equity)
    BY <1>1 DEF StartsSession
  <2>2. Today \in Nat
    BY <1>0, DayNeverFalls DEF Today
  <2>3. pin \in Pin \cup {NoPin} /\ pin.equity \in Int
    <3>1. CASE pin = file
      BY <3>1 DEF RiskTypeOK, Pin, NoPin
    <3>2. CASE pin # file
      BY <2>2, <3>2, RiskManagerAssumption DEF Resolved, Pin
    <3> QED
      BY <3>1, <3>2
  <2>4. engine' \in Risk /\ engine'.positions = engine.positions
    BY <1>0, <2>1, <2>3, EnginesAre, SessionStarts
  <2>5. /\ engineDay' = Today /\ rmLoop' = "positions"
        /\ UNCHANGED <<now, updates, halted, live, signals, approved, rmBatch, judged,
                       faults>>
    BY <1>1 DEF StartsSession
  <2>6. RiskTypeOK'
    BY <2>1, <2>2, <2>3, <2>4, <2>5 DEF RiskTypeOK
  <2>7. HasSession' /\ StaysFlat'
    BY <2>2, <2>4, <2>5 DEF HasSession, Idle, StaysFlat
  <2> QED
    BY <2>6, <2>7
<1>2. CASE NoEquity
  <2>1. Idle
    BY <1>2 DEF NoEquity, NeedsSession, HasSession
  <2>2. NoSession \in Risk
    BY <1>0, EnginesAre
  <2>3. RiskTypeOK'
    BY <1>2, <2>2, RiskManagerAssumption DEF NoEquity, RiskTypeOK
  <2>4. HasSession' /\ StaysFlat'
    BY <1>2, <2>1 DEF NoEquity, HasSession, Idle, StaysFlat, NoSession
  <2> QED
    BY <2>3, <2>4
<1>3. CASE NoNewSession
  <2>1. RiskTypeOK'
    BY <1>3 DEF NoNewSession, RiskTypeOK, worldVars
  <2>2. HasSession' /\ StaysFlat'
    BY <1>3 DEF NoNewSession, HasSession, Idle, StaysFlat
  <2> QED
    BY <2>1, <2>2
<1>4. CASE HearUpdates
  <2>1. engine' \in Risk /\ engine'.positions = engine.positions
    <3>1. updates \in Seq(Results) /\ Results \subseteq Int
      BY RiskManagerAssumption DEF RiskTypeOK
    <3>2. ASSUME NEW k \in 1..Len(updates) PROVE updates[k] \in Int
      <4>1. updates[k] \in Results
        BY <3>1
      <4> QED
        BY <3>1, <4>1
    <3>3. updates \in Seq(Int)
      BY <3>1, <3>2
    <3> QED
      BY <1>0, <1>4, <3>3, EnginesAre, ResultsLeaveTheRest DEF HearUpdates
  <2>2. halted' \in BOOLEAN
    BY <1>4, <2>1 DEF HearUpdates, RiskTypeOK, Risk
  <2>3. RiskTypeOK'
    BY <1>4, <2>1, <2>2 DEF HearUpdates, RiskTypeOK
  <2>4. HasSession' /\ StaysFlat'
    BY <1>4, <2>1 DEF HearUpdates, HasSession, Idle, StaysFlat
  <2> QED
    BY <2>3, <2>4
<1>5. CASE ClaimSignals
  <2>1. PICK S \in {{}, signals.pending} :
            signals' = XAutoClaim(signals, S) /\ rmBatch' = S
    BY <1>5 DEF ClaimSignals
  <2>2. signals' \in Group(Signals) /\ signals'.pending = signals.pending
    BY <1>0, <2>1, XAutoClaimGroup
  <2>3. RiskTypeOK'
    BY <1>5, <2>1, <2>2
       DEF ClaimSignals, worldVars, RiskTypeOK, Group, Idle, NotJudged
  <2>4. HasSession' /\ StaysFlat'
    BY <1>5 DEF ClaimSignals, HasSession, Idle, StaysFlat
  <2> QED
    BY <2>3, <2>4
<1>6. CASE ReadSignals
  <2>1. signals' \in Group(Signals) /\ rmBatch' \subseteq signals'.pending
    <3>1. SignalCount \in Nat
      BY RiskManagerAssumption
    <3>2. /\ signals' = XReadGroup(signals, SignalCount)
          /\ rmBatch' = Unread(signals, SignalCount)
      BY <1>6 DEF ReadSignals
    <3>3. /\ XReadGroup(signals, SignalCount) \in Group(Signals)
          /\ XReadGroup(signals, SignalCount).pending
               = signals.pending \cup Unread(signals, SignalCount)
      BY <1>0, <3>1, XReadGroupGroup
    <3> QED
      BY <3>2, <3>3
  <2>2. RiskTypeOK'
    BY <1>6, <2>1 DEF ReadSignals, worldVars, RiskTypeOK, Group, Idle, NotJudged
  <2>3. HasSession' /\ StaysFlat'
    BY <1>6 DEF ReadSignals, HasSession, Idle, StaysFlat
  <2> QED
    BY <2>2, <2>3
<1>7. CASE Judge
  <2>1. judged'.signal = Min(rmBatch) /\ rmBatch # {}
    BY <1>7 DEF Judge
  <2>2. Min(rmBatch) \in rmBatch
    <3>1. rmBatch \in SUBSET Nat
      BY DEF RiskTypeOK, GroupOf
    <3> QED
      BY <2>1, <3>1, LeastIsIn
  <2>3. RiskTypeOK'
    BY <1>7, <2>1, <2>2 DEF Judge, worldVars, RiskTypeOK
  <2>4. HasSession' /\ StaysFlat'
    BY <1>7, <2>1, <2>2 DEF Judge, HasSession, Idle, StaysFlat
  <2> QED
    BY <2>3, <2>4
<1>8. CASE Decide \/ DecideFails
  <2> DEFINE n == judged.signal
             s == signals.log[n]
  <2>1. /\ judged # NotJudged /\ engine' = Evaluated(engine, s, judged)
        /\ rmBatch' = rmBatch \ {n} /\ judged' = NotJudged
        /\ UNCHANGED <<worldVars, rmLoop, engineDay>> /\ faults' \in 0..MaxFaults
    BY <1>8, RiskManagerAssumption DEF Decide, DecideFails, Done, RiskTypeOK
  <2>2. signals' \in Group(Signals) /\ signals.pending \ {n} \subseteq signals'.pending
    <3>1. signals' = XAck(signals, n) \/ signals' = signals
      BY <1>8 DEF Decide, DecideFails
    <3> QED
      BY <1>0, <3>1, XAckGroup
  <2>3. engine' \in Risk /\ engine'.positions = engine.positions
    BY <1>0, <2>1, EnginesAre, SignalsLeaveTheRest
  <2>4. approved' \in Group(Approved)
    <3>1. \/ approved' = approved
          \/ Approves(s) /\ approved' = XAdd(approved, OrderAtHand)
      BY <1>8 DEF Decide, DecideFails, OrderAtHand
    <3> QED
      BY <1>0, <2>1, <3>1, OrderIsApproved, XAddGroup
  <2>5. RiskTypeOK'
    BY <2>1, <2>2, <2>3, <2>4 DEF RiskTypeOK, worldVars, Group, NotJudged
  <2>6. HasSession' /\ StaysFlat'
    <3>1. rmLoop # "down"
      BY <2>1 DEF HasSession, Idle
    <3> QED
      BY <2>1, <2>3, <3>1 DEF HasSession, Idle, StaysFlat
  <2> QED
    BY <2>5, <2>6
<1>9. CASE RiskManagerDies
  <2>1. approved' \in Group(Approved)
    <3>1. \/ approved' = approved
          \/ /\ judged # NotJudged /\ Approves(signals.log[judged.signal])
             /\ approved' = XAdd(approved, OrderAtHand)
      BY <1>9 DEF RiskManagerDies, NotJudged, OrderAtHand
    <3> QED
      BY <1>0, <3>1, OrderIsApproved, XAddGroup
  <2>2. updates' \in Seq(Results)
    <3>1. PICK n \in 0..Len(updates) : updates' = SubSeq(updates, n + 1, Len(updates))
      BY <1>9 DEF RiskManagerDies
    <3> QED
      BY <3>1 DEF RiskTypeOK
  <2>3. NoSession \in Risk
    BY <1>0, EnginesAre
  <2>4. RiskTypeOK'
    BY <1>9, <2>1, <2>2, <2>3, RiskManagerAssumption
       DEF RiskManagerDies, RiskTypeOK, Group, NotJudged
  <2>5. HasSession' /\ StaysFlat'
    BY <1>9 DEF RiskManagerDies, HasSession, Idle, StaysFlat, NoSession
  <2> QED
    BY <2>4, <2>5
<1> QED
  BY <1>1, <1>2, <1>3, <1>4, <1>5, <1>6, <1>7, <1>8, <1>9 DEF RiskLoop

(* The types of the risk manager's state, when it runs by itself.          *)
THEOREM RiskTypeCorrect == RiskSpec => []RiskTypeOK
<1>1. ASSUME RiskTyped, [RiskLoop \/ RiskWorld \/ Clock]_riskVars
      PROVE  RiskTyped'
  <2>1. CASE UNCHANGED riskVars
    BY <1>1, <2>1
       DEF RiskTyped, RiskTypeOK, HasSession, Idle, StaysFlat, riskVars, worldVars, rmVars
  <2> QED
    BY <1>1, <2>1, LoopRiskTyped, WorldRiskTyped
<1>2. RiskTyped => RiskTypeOK
  BY DEF RiskTyped
<1> QED
  BY <1>1, <1>2, InitRiskTyped, PTL DEF RiskSpec

----------------------------------------------------------------------------
(* What a sequence of fills adds up to.                                    *)

LEMMA LastOfRange ==
    ASSUME NEW n \in Nat
    PROVE  /\ n + 1 \in 1..(n + 1) /\ (1..(n + 1)) \ {n + 1} = 1..n
           /\ IsFiniteSet(1..n) /\ IsFiniteSet(1..(n + 1))
<1>1. IsFiniteSet(1..n)
  BY FS_Interval
<1>2. /\ 1..(n + 1) = (1..n) \cup {n + 1} /\ n + 1 \in 1..(n + 1)
      /\ (1..(n + 1)) \ {n + 1} = 1..n
  OBVIOUS
<1>3. IsFiniteSet((1..n) \cup {n + 1})
  BY <1>1, FS_AddElement
<1> QED
  BY <1>1, <1>2, <1>3

LEMMA SumOfLast ==
    ASSUME NEW f, NEW n \in Nat, \A x \in 1..(n + 1) : f[x] \in Int
    PROVE  SumFunctionOnSet(f, 1..(n + 1)) = f[n + 1] + SumFunctionOnSet(f, 1..n)
<1> DEFINE S == 1..(n + 1)
           y == n + 1
<1>1. y \in S /\ S \ {y} = 1..n /\ IsFiniteSet(S)
  BY LastOfRange
<1>2. \A x \in S : f[x] \in Int
  OBVIOUS
<1> HIDE DEF S, y
<1>3. SumFunctionOnSet(f, S) = f[y] + SumFunctionOnSet(f, S \ {y})
  BY <1>1, <1>2, SumOfRest
<1> QED
  BY <1>1, <1>3 DEF S, y

Share(q, i) == [n \in DOMAIN q |-> IF q[n].inst = i THEN q[n].qty ELSE 0]

NetOf(q, i) == SumFunction(Share(q, i))

LEMMA SharesAre ==
    ASSUME NEW q \in Seq(FillEvent), NEW i
    PROVE  /\ Len(q) \in Nat /\ IsFiniteSet(1..Len(q))
           /\ \A n \in 1..Len(q) : Share(q, i)[n] \in Int
           /\ NetOf(q, i) = SumFunctionOnSet(Share(q, i), 1..Len(q))
           /\ NetOf(q, i) \in Int
<1>1. Len(q) \in Nat /\ DOMAIN q = 1..Len(q)
  OBVIOUS
<1>2. IsFiniteSet(1..Len(q))
  BY <1>1, FS_Interval
<1>3. ASSUME NEW n \in 1..Len(q) PROVE Share(q, i)[n] \in Int
  <2>1. q[n] \in FillEvent
    OBVIOUS
  <2>2. q[n].qty \in Int
    BY <2>1 DEF FillEvent
  <2> QED
    BY <1>1, <2>2 DEF Share
<1>4. DOMAIN Share(q, i) = 1..Len(q)
  BY <1>1 DEF Share
<1>5. NetOf(q, i) = SumFunctionOnSet(Share(q, i), 1..Len(q))
  BY <1>4 DEF NetOf, SumFunction
<1> QED
  BY <1>1, <1>2, <1>3, <1>5, SumIsInt

LEMMA NetOfNone ==
    ASSUME NEW i
    PROVE  <<>> \in Seq(FillEvent) /\ NetOf(<<>>, i) = 0
<1>1. <<>> \in Seq(FillEvent) /\ 1..Len(<<>>) = {}
  OBVIOUS
<1>2. NetOf(<<>>, i) = SumFunctionOnSet(Share(<<>>, i), {})
  BY <1>1, SharesAre
<1> QED
  BY <1>1, <1>2, SumOfNone

(* One sequence after the other adds up to what both do.                   *)
LEMMA NetOfJoined ==
    ASSUME NEW q \in Seq(FillEvent), NEW r \in Seq(FillEvent), NEW i
    PROVE  /\ q \o r \in Seq(FillEvent)
           /\ NetOf(q \o r, i) = NetOf(q, i) + NetOf(r, i)
<1> DEFINE L == Len(q)
           M == Len(r)
           f == Share(q, i)
           h == Share(r, i)
           g == Share(q \o r, i)
           N == {k \in Nat : k <= M =>
                    SumFunctionOnSet(g, 1..(L + k))
                      = SumFunctionOnSet(f, 1..L) + SumFunctionOnSet(h, 1..k)}
<1>1. /\ q \o r \in Seq(FillEvent) /\ Len(q \o r) = L + M /\ L \in Nat /\ M \in Nat
      /\ \A n \in 1..L : (q \o r)[n] = q[n]
      /\ \A n \in 1..M : (q \o r)[L + n] = r[n]
  OBVIOUS
<1>2. /\ NetOf(q \o r, i) = SumFunctionOnSet(g, 1..(L + M))
      /\ \A n \in 1..(L + M) : g[n] \in Int
  BY <1>1, SharesAre
<1>3. /\ NetOf(q, i) = SumFunctionOnSet(f, 1..L)
      /\ \A n \in 1..L : f[n] \in Int
      /\ SumFunctionOnSet(f, 1..L) \in Int
  BY SharesAre
<1>4. /\ NetOf(r, i) = SumFunctionOnSet(h, 1..M)
      /\ \A n \in 1..M : h[n] \in Int
  BY SharesAre
<1>5. \A n \in 1..L : g[n] = f[n]
  <2>1. DOMAIN (q \o r) = 1..(L + M) /\ DOMAIN q = 1..L
    BY <1>1
  <2> QED
    BY <1>1, <2>1 DEF Share
<1>6. \A n \in 1..M : g[L + n] = h[n]
  <2>1. DOMAIN (q \o r) = 1..(L + M) /\ DOMAIN r = 1..M
    BY <1>1
  <2>2. \A n \in 1..M : L + n \in 1..(L + M)
    BY <1>1
  <2> QED
    BY <1>1, <2>1, <2>2 DEF Share
<1> HIDE DEF f, g, h, L, M
<1>7. ASSUME NEW k \in Nat, \A m \in Nat : m < k => m \in N
      PROVE  k \in N
  <2>1. CASE k = 0
    <3>1. 1..(L + k) = 1..L /\ 1..k = {}
      BY <1>1, <2>1
    <3>2. IsFiniteSet(1..L)
      BY <1>1, FS_Interval
    <3>3. SumFunctionOnSet(g, 1..L) = SumFunctionOnSet(f, 1..L)
      BY <1>5, <3>2, SumOfEquals
    <3> QED
      BY <1>3, <3>1, <3>3, SumOfNone
  <2>2. CASE k > 0 /\ k <= M
    <3> DEFINE j == k - 1
    <3>0. j \in Nat /\ k = j + 1 /\ j < k /\ j <= M /\ L + k = (L + j) + 1
      BY <1>1, <2>2
    <3> HIDE DEF j
    <3>1. SumFunctionOnSet(g, 1..(L + j))
             = SumFunctionOnSet(f, 1..L) + SumFunctionOnSet(h, 1..j)
      <4>1. j \in N
        <5> HIDE DEF N
        <5> QED
          BY <1>7, <3>0
      <4> QED
        BY <3>0, <4>1
    <3>2. L + j \in Nat /\ 1..((L + j) + 1) \subseteq 1..(L + M) /\ 1..(j + 1) \subseteq 1..M
      BY <1>1, <2>2, <3>0
    <3>3. SumFunctionOnSet(g, 1..((L + j) + 1))
            = g[(L + j) + 1] + SumFunctionOnSet(g, 1..(L + j))
      BY <1>2, <3>2, SumOfLast
    <3>4. SumFunctionOnSet(h, 1..(j + 1)) = h[j + 1] + SumFunctionOnSet(h, 1..j)
      BY <1>4, <3>0, <3>2, SumOfLast
    <3>5. SumFunctionOnSet(h, 1..j) \in Int
      <4>1. \A x \in 1..j : h[x] \in Int
        BY <1>4, <3>0, <1>1
      <4> QED
        BY <3>0, <4>1, LastOfRange, SumIsInt
    <3>6. g[L + k] = h[k] /\ h[k] \in Int
      BY <1>1, <1>4, <1>6, <2>2
    <3>7. /\ SumFunctionOnSet(g, 1..(L + k)) = h[k] + SumFunctionOnSet(g, 1..(L + j))
          /\ SumFunctionOnSet(h, 1..k) = h[k] + SumFunctionOnSet(h, 1..j)
      BY <3>0, <3>3, <3>4, <3>6
    <3>8. SumFunctionOnSet(g, 1..(L + k))
             = SumFunctionOnSet(f, 1..L) + SumFunctionOnSet(h, 1..k)
      BY <1>3, <3>1, <3>5, <3>6, <3>7
    <3> QED
      BY <3>8
  <2> QED
    BY <2>1, <2>2
<1>8. N = Nat
  <2> HIDE DEF N
  <2>1. N \in SUBSET Nat
    BY DEF N
  <2> QED
    BY <1>7, <2>1, Ascent
<1>9. SumFunctionOnSet(g, 1..(L + M))
        = SumFunctionOnSet(f, 1..L) + SumFunctionOnSet(h, 1..M)
  BY <1>1, <1>8
<1> QED
  BY <1>1, <1>2, <1>3, <1>4, <1>9

LEMMA NetOfAppended ==
    ASSUME NEW q \in Seq(FillEvent), NEW e \in FillEvent, NEW i
    PROVE  /\ Append(q, e) \in Seq(FillEvent)
           /\ NetOf(Append(q, e), i) = NetOf(q, i) + (IF e.inst = i THEN e.qty ELSE 0)
<1> DEFINE r == Append(q, e)
           L == Len(q)
<1>1. /\ r \in Seq(FillEvent) /\ Len(r) = L + 1 /\ L \in Nat
      /\ r[L + 1] = e /\ \A n \in 1..L : r[n] = q[n]
  OBVIOUS
<1>2. /\ NetOf(r, i) = SumFunctionOnSet(Share(r, i), 1..(L + 1))
      /\ \A n \in 1..(L + 1) : Share(r, i)[n] \in Int
      /\ IsFiniteSet(1..(L + 1))
  BY <1>1, SharesAre
<1>3. /\ NetOf(q, i) = SumFunctionOnSet(Share(q, i), 1..L) /\ NetOf(q, i) \in Int
      /\ IsFiniteSet(1..L)
  BY SharesAre
<1>4. L + 1 \in 1..(L + 1) /\ (1..(L + 1)) \ {L + 1} = 1..L
  BY <1>1
<1>5. SumFunctionOnSet(Share(r, i), 1..(L + 1))
        = Share(r, i)[L + 1] + SumFunctionOnSet(Share(r, i), 1..L)
  BY <1>1, <1>2, SumOfLast
<1>6. /\ Share(r, i)[L + 1] = IF e.inst = i THEN e.qty ELSE 0
      /\ \A n \in 1..L : Share(r, i)[n] = Share(q, i)[n]
  <2>1. DOMAIN r = 1..(L + 1) /\ DOMAIN q = 1..L
    BY <1>1
  <2> HIDE DEF r
  <2> QED
    BY <1>1, <1>4, <2>1 DEF Share
<1>7. SumFunctionOnSet(Share(r, i), 1..L) = SumFunctionOnSet(Share(q, i), 1..L)
  BY <1>3, <1>6, SumOfEquals
<1>8. Share(r, i)[L + 1] \in Int
  BY <1>2, <1>4
<1> HIDE DEF r, L
<1>9. NetOf(r, i) = Share(r, i)[L + 1] + NetOf(q, i)
  BY <1>2, <1>3, <1>5, <1>7
<1>10. NetOf(r, i) = NetOf(q, i) + Share(r, i)[L + 1]
  BY <1>3, <1>8, <1>9
<1> QED
  BY <1>1, <1>6, <1>10 DEF r

(* The fills of another instrument add up to nothing.                      *)
LEMMA NetOfOthers ==
    ASSUME NEW q \in Seq(FillEvent), NEW i, \A n \in 1..Len(q) : q[n].inst # i
    PROVE  NetOf(q, i) = 0
<1>1. \A n \in 1..Len(q) : Share(q, i)[n] = 0
  <2>1. DOMAIN q = 1..Len(q)
    OBVIOUS
  <2> QED
    BY <2>1 DEF Share
<1> QED
  BY <1>1, SharesAre, SumOfZeros

----------------------------------------------------------------------------
(* The paper broker: its fills and its book.                               *)

Booked == RiskTyped /\ PaperInv /\ PaperTypeOK

(* What a bar has done: the position it leaves, and fills of its own       *)
(* instrument; and that these add up to the difference.                    *)
BarLeaves(s, b) ==
    /\ s.held \in Holding /\ s.fills \in Seq(FillEvent)
    /\ \A n \in 1..Len(s.fills) : s.fills[n].inst = b.inst

Balances(s, p, b) == NetOf(s.fills, b.inst) = s.held.qty - p.qty

LEMMA OrderWaiting ==
    ASSUME Booked, NEW b \in MinuteBar
    PROVE  /\ Fillable(waiting[b.inst], b) \in Nat
           /\ Fillable(waiting[b.inst], b) # 0
                 => approved.log[waiting[b.inst]].intent \in Intents
<1> DEFINE o == waiting[b.inst]
<1>1. b.inst \in Instruments /\ b.most \in Nat
  BY DEF MinuteBar
<1>2. CASE o = 0
  BY <1>2 DEF Fillable
<1>3. CASE o # 0
  <2>1. o \in Nat /\ o <= approved.cursor
    BY <1>1 DEF Booked, PaperTypeOK, Waiting
  <2>2. approved \in Group(Approved)
    BY DEF Booked, RiskTyped, RiskTypeOK, Group
  <2>3. o \in 1..Len(approved.log)
    BY <1>3, <2>1, <2>2, GroupTimes DEF Group, GroupOf, WellFormed
  <2>4. approved.log[o] \in Approved
    BY <2>2, <2>3 DEF Group, GroupOf
  <2>5. approved.log[o].qty \in Nat /\ approved.log[o].intent \in Intents
    BY <2>4 DEF Approved
  <2>6. Min({approved.log[o].qty, b.most}) \in Nat
    <3>1. {approved.log[o].qty, b.most} \in SUBSET Nat
      BY <1>1, <2>5
    <3>2. Min({approved.log[o].qty, b.most}) \in {approved.log[o].qty, b.most}
      BY <3>1, LeastIsIn
    <3> QED
      BY <3>1, <3>2
  <2> QED
    BY <1>3, <2>5, <2>6 DEF Fillable
<1> QED
  BY <1>2, <1>3

LEMMA FillIsOne ==
    ASSUME Booked, NEW b \in MinuteBar, NEW intent \in Intents, NEW n \in Int
    PROVE  /\ Fill(b, intent, n) \in FillEvent
           /\ Fill(b, intent, n).inst = b.inst /\ Fill(b, intent, n).qty = n
<1>1. b.inst \in Instruments /\ b.end \in Nat
  BY DEF MinuteBar
<1>2. orderIds[b.inst] \in Nat
  BY <1>1 DEF Booked, PaperTypeOK, Waiting
<1> QED
  BY <1>1, <1>2 DEF Fill, FillEvent

(* Appending a fill of the bar.                                            *)
LEMMA OneMore ==
    ASSUME Booked, NEW b \in MinuteBar, NEW intent \in Intents, NEW n \in Int,
           NEW q \in Seq(FillEvent), \A k \in 1..Len(q) : q[k].inst = b.inst
    PROVE  LET r == Append(q, Fill(b, intent, n))
           IN  /\ r \in Seq(FillEvent) /\ \A k \in 1..Len(r) : r[k].inst = b.inst
               /\ NetOf(r, b.inst) = NetOf(q, b.inst) + n
<1> DEFINE e == Fill(b, intent, n)
<1>1. e \in FillEvent /\ e.inst = b.inst /\ e.qty = n
  BY FillIsOne
<1> HIDE DEF e
<1>2. Append(q, e) \in Seq(FillEvent) /\ NetOf(Append(q, e), b.inst) = NetOf(q, b.inst) + n
  BY <1>1, NetOfAppended
<1>3. ASSUME NEW k \in 1..Len(Append(q, e)) PROVE Append(q, e)[k].inst = b.inst
  BY <1>1
<1> QED
  BY <1>2, <1>3 DEF e

LEMMA AtOpenLeaves ==
    ASSUME Booked, NEW b \in MinuteBar
    PROVE  LET p == holding[b.inst]
               o == waiting[b.inst]
           IN  /\ BarLeaves(AtOpen(p, o, b), b)
               /\ ~Confuses(p, o, b) => Balances(AtOpen(p, o, b), p, b)
<1> DEFINE p == holding[b.inst]
           o == waiting[b.inst]
           m == Fillable(o, b)
           intent == approved.log[o].intent
           n == Bought(intent, m)
           x == Bought(intent, Size(p.qty))
           c == IF p.qty = 0 THEN n ELSE x
           s == AtOpen(p, o, b)
<1>1. p \in Holding /\ p.qty \in Int /\ b.end \in Nat
  <2>1. b.inst \in Instruments /\ b.end \in Nat
    BY DEF MinuteBar
  <2>2. p \in Holding
    BY <2>1 DEF Booked, PaperTypeOK
  <2> QED
    BY <2>1, <2>2 DEF Holding
<1>2. m \in Nat /\ (m # 0 => intent \in Intents)
  BY OrderWaiting
<1>3. s = CASE m = 0 -> [held |-> p, fills |-> <<>>]
            [] OTHER ->
               IF intent \in Opening
               THEN [held |-> [qty |-> n, since |-> b.end], fills |-> <<Fill(b, intent, n)>>]
               ELSE [held |-> NoHolding, fills |-> <<Fill(b, intent, c)>>]
  BY DEF AtOpen
<1>4. Confuses(p, o, b) <=> /\ m # 0
                            /\ IF intent \in Opening THEN p.qty # 0
                               ELSE Bought(intent, 1) * p.qty >= 0
  BY DEF Confuses
<1> HIDE DEF o, m, intent, s, p
<1>5. n \in Int /\ x \in Int /\ c \in Int
  BY <1>1, <1>2 DEF Bought, Size
<1>6. <<>> \in Seq(FillEvent) /\ NetOf(<<>>, b.inst) = 0 /\ Len(<<>>) = 0
  BY NetOfNone
<1>7. ASSUME intent \in Intents, NEW k \in Int
      PROVE  LET r == <<Fill(b, intent, k)>>
             IN  /\ r \in Seq(FillEvent) /\ \A j \in 1..Len(r) : r[j].inst = b.inst
                 /\ NetOf(r, b.inst) = k
  <2> DEFINE e == Fill(b, intent, k)
  <2>1. <<e>> = Append(<<>>, e)
    OBVIOUS
  <2>2. LET r == Append(<<>>, e)
        IN  /\ r \in Seq(FillEvent) /\ \A j \in 1..Len(r) : r[j].inst = b.inst
            /\ NetOf(r, b.inst) = NetOf(<<>>, b.inst) + k
    <3>1. \A j \in 1..Len(<<>>) : <<>>[j].inst = b.inst
      BY <1>6
    <3> QED
      BY <1>6, <1>7, <3>1, OneMore
  <2> QED
    BY <1>6, <2>1, <2>2
<1>8. CASE m = 0
  <2>1. s.held = p /\ s.fills = <<>>
    BY <1>3, <1>8
  <2>2. \A k \in 1..Len(s.fills) : s.fills[k].inst = b.inst
    BY <1>6, <2>1
  <2>3. BarLeaves(s, b) /\ Balances(s, p, b)
    BY <1>1, <1>6, <2>1, <2>2 DEF BarLeaves, Balances
  <2> QED
    BY <2>3 DEF s, p, o
<1>9. CASE m # 0 /\ intent \in Opening
  <2> DEFINE h == [qty |-> n, since |-> b.end]
  <2>1. s.held = h /\ s.fills = <<Fill(b, intent, n)>>
    BY <1>3, <1>9
  <2>2. h \in Holding /\ h.qty = n
    BY <1>1, <1>5 DEF Holding
  <2> HIDE DEF n, h
  <2>3. BarLeaves(s, b) /\ NetOf(s.fills, b.inst) = n
    BY <1>2, <1>5, <1>7, <1>9, <2>1, <2>2 DEF BarLeaves
  <2>4. ~Confuses(p, o, b) => Balances(s, p, b)
    BY <1>4, <1>5, <1>9, <2>1, <2>2, <2>3 DEF Balances
  <2> QED
    BY <2>3, <2>4 DEF s, p, o
<1>10. CASE m # 0 /\ intent \notin Opening
  <2>1. s.held = NoHolding /\ s.fills = <<Fill(b, intent, c)>>
    BY <1>3, <1>10
  <2>2. NoHolding \in Holding /\ NoHolding.qty = 0
    BY DEF Holding, NoHolding
  <2>3. ~Confuses(p, o, b) => c = - p.qty
    <3>1. intent \in {"CLOSE_LONG", "CLOSE_SHORT"}
      BY <1>2, <1>10 DEF Intents, Opening
    <3>2. CASE intent = "CLOSE_LONG"
      BY <1>1, <1>4, <1>10, <3>2 DEF Bought, Size, Opening
    <3>3. CASE intent = "CLOSE_SHORT"
      BY <1>1, <1>4, <1>10, <3>3 DEF Bought, Size, Opening
    <3> QED
      BY <3>1, <3>2, <3>3
  <2> HIDE DEF c
  <2>4. BarLeaves(s, b) /\ NetOf(s.fills, b.inst) = c
    BY <1>2, <1>5, <1>7, <1>10, <2>1, <2>2 DEF BarLeaves
  <2>5. ~Confuses(p, o, b) => Balances(s, p, b)
    BY <1>1, <2>1, <2>2, <2>3, <2>4 DEF Balances
  <2> QED
    BY <2>4, <2>5 DEF s, p, o
<1> QED
  BY <1>8, <1>9, <1>10

(* A close sells or buys back all there is.                                *)
LEMMA ClosedLeaves ==
    ASSUME Booked, NEW b \in MinuteBar, NEW s, BarLeaves(s, b), NEW p \in Holding
    PROVE  /\ BarLeaves(Closed(s, b), b)
           /\ Balances(s, p, b) => Balances(Closed(s, b), p, b)
<1> DEFINE n == - s.held.qty
           e == CloseIntent(s.held)
           f == Append(s.fills, Fill(b, e, n))
<1>1. s.held.qty \in Int /\ n \in Int /\ p.qty \in Int /\ e \in Intents
  BY DEF BarLeaves, Holding, CloseIntent, Intents
<1>2. Closed(s, b).held = NoHolding /\ Closed(s, b).fills = f
  BY DEF Closed, AfterClose
<1>3. /\ f \in Seq(FillEvent) /\ \A k \in 1..Len(f) : f[k].inst = b.inst
      /\ NetOf(f, b.inst) = NetOf(s.fills, b.inst) + n
  BY <1>1, OneMore DEF BarLeaves
<1>4. NoHolding \in Holding /\ NoHolding.qty = 0
  BY DEF Holding, NoHolding
<1> HIDE DEF f, e
<1> QED
  BY <1>1, <1>2, <1>3, <1>4 DEF BarLeaves, Balances

LEMMA ProcessedLeaves ==
    ASSUME Booked, NEW b \in MinuteBar
    PROVE  LET p == holding[b.inst]
               s == Processed(b)
               f == IF SquaresOff(s.held, b) THEN Closed(s, b) ELSE s
           IN  /\ BarLeaves(s, b) /\ BarLeaves(f, b)
               /\ ~Confuses(p, waiting[b.inst], b) => Balances(f, p, b)
<1> DEFINE p == holding[b.inst]
           a == AtOpen(p, waiting[b.inst], b)
           s == Processed(b)
           f == IF SquaresOff(s.held, b) THEN Closed(s, b) ELSE s
<1>1. p \in Holding
  BY DEF Booked, PaperTypeOK, MinuteBar
<1>2. BarLeaves(a, b) /\ (~Confuses(p, waiting[b.inst], b) => Balances(a, p, b))
  BY AtOpenLeaves
<1>3. s = a \/ s = Closed(a, b)
  BY DEF Processed
<1> HIDE DEF a, s, p
<1>4. BarLeaves(s, b) /\ (Balances(a, p, b) => Balances(s, p, b))
  BY <1>1, <1>2, <1>3, ClosedLeaves
<1>5. BarLeaves(f, b) /\ (Balances(s, p, b) => Balances(f, p, b))
  BY <1>1, <1>4, ClosedLeaves
<1> QED
  BY <1>2, <1>4, <1>5 DEF p, s

(* What concerns neither the risk manager nor the signals.                 *)
LEMMA RiskTypedAside ==
    ASSUME RiskTyped, UNCHANGED <<worldVars, signals, rmVars>>,
           approved' \in Group(Approved),
           faults' = faults \/ (faults < MaxFaults /\ faults' = faults + 1)
    PROVE  RiskTyped'
<1>1. faults' \in 0..MaxFaults
  BY RiskManagerAssumption DEF RiskTyped, RiskTypeOK
<1>2. RiskTypeOK'
  BY <1>1 DEF RiskTyped, RiskTypeOK, worldVars, rmVars, Group
<1>3. HasSession' /\ StaysFlat'
  BY DEF RiskTyped, HasSession, Idle, StaysFlat, worldVars, rmVars
<1> QED
  BY <1>2, <1>3 DEF RiskTyped

LEMMA BooksAre ==
    ASSUME NEW i
    PROVE  NetFilled(i) = NetOf(filled, i) /\ NetFilled(i)' = NetOf(filled', i)
  BY DEF NetFilled, NetOf, Share

BookInv == Booked /\ PaperBooksAgree

(* A step that fills nothing.                                              *)
LEMMA QuietBook ==
    ASSUME BookInv, RiskTyped', PaperInv',
           paperLoop' \in {"down", "orders", "claim", "read"},
           waiting' \in Waiting, orderIds' \in Waiting,
           \A i \in Instruments : waiting'[i] <= approved'.cursor,
           UNCHANGED <<holding, filled, doubted>>
    PROVE  BookInv'
<1>1. PaperTypeOK'
  BY DEF BookInv, Booked, PaperTypeOK, PaperInv, InTurn, Group
<1>2. PaperBooksAgree'
  BY DEF BookInv, PaperBooksAgree, NetFilled
<1> QED
  BY <1>1, <1>2 DEF BookInv, Booked

LEMMA GreatestIsIn ==
    ASSUME NEW S \in SUBSET Nat, S # {}, NEW L \in Nat, \A n \in S : n <= L
    PROVE  Max(S) \in S
<1> DEFINE T == {L - n : n \in S}
<1>1. T \in SUBSET Nat /\ T # {}
  <2>1. ASSUME NEW n \in S PROVE L - n \in Nat
    OBVIOUS
  <2>2. PICK x \in S : TRUE
    OBVIOUS
  <2>3. L - x \in T
    OBVIOUS
  <2> QED
    BY <2>1, <2>3
<1>2. Min(T) \in T /\ \A n \in T : Min(T) <= n
  BY <1>1, LeastIsIn
<1>3. PICK m \in S : Min(T) = L - m
  BY <1>2
<1>4. \A n \in S : L - m <= L - n
  BY <1>2, <1>3
<1>5. \A n \in S : m >= n
  BY <1>4
<1> QED
  BY <1>5 DEF Max

LEMMA TakeOrdersBook ==
    ASSUME BookInv, TakeOrders, PaperInv'
    PROVE  BookInv'
<1> DEFINE L == Len(approved.log)
           new == Unread(approved, L)
           g == XReadGroup(approved, L)
<1>1. approved \in Group(Approved) /\ L \in Nat /\ approved.cursor \in Nat
      /\ approved.cursor <= L
  <2>1. approved \in Group(Approved)
    BY DEF BookInv, Booked, RiskTyped, RiskTypeOK, Group
  <2> QED
    BY <2>1, GroupTimes DEF Group, GroupOf, WellFormed
<1>2. g \in Group(Approved) /\ g.cursor = L /\ new = (approved.cursor + 1)..L
  BY <1>1, XReadGroupGroup, XReadGroupAll
<1>3. approved' = XAckAll(g, new)
  BY DEF TakeOrders
<1>4. approved' \in Group(Approved) /\ approved'.cursor = L
  <2> HIDE DEF g, new
  <2> QED
    BY <1>2, <1>3 DEF XAckAll, Group, GroupOf, WellFormed
<1>5. RiskTyped'
  BY <1>4, RiskTypedAside DEF BookInv, Booked, TakeOrders
<1>6. \A i : OfInstrument(i, new) \in SUBSET Nat /\ OfInstrument(i, new) \subseteq 1..L
  BY <1>1, <1>2 DEF OfInstrument
<1>7. ASSUME NEW i, OfInstrument(i, new) # {}
      PROVE  Min(OfInstrument(i, new)) \in 1..L /\ Max(OfInstrument(i, new)) \in Nat
  <2> DEFINE S == OfInstrument(i, new)
  <2>1. S \in SUBSET Nat /\ S # {} /\ S \subseteq 1..L /\ \A n \in S : n <= L
    BY <1>1, <1>6, <1>7
  <2> HIDE DEF S
  <2>2. Min(S) \in S
    BY <2>1, LeastIsIn
  <2>3. Max(S) \in S
    BY <1>1, <2>1, GreatestIsIn
  <2> QED
    BY <2>1, <2>2, <2>3 DEF S
<1>8. /\ waiting \in Waiting /\ orderIds \in Waiting
      /\ \A i \in Instruments : waiting[i] <= approved.cursor
  BY DEF BookInv, Booked, PaperTypeOK
<1>9. /\ waiting' = [i \in Instruments |->
            IF OfInstrument(i, new) = {} THEN waiting[i]
            ELSE FirstWaits(waiting[i], Min(OfInstrument(i, new)))]
      /\ orderIds' = [i \in Instruments |->
            IF OfInstrument(i, new) = {} THEN orderIds[i] ELSE Max(OfInstrument(i, new))]
      /\ paperLoop' = "claim" /\ UNCHANGED <<holding, filled, doubted>>
  BY DEF TakeOrders
<1> HIDE DEF new, g, L
<1>10. \A i \in Instruments : /\ waiting'[i] \in Nat /\ waiting'[i] <= L
                              /\ orderIds'[i] \in Nat
  BY <1>1, <1>7, <1>8, <1>9 DEF Waiting, FirstWaits
<1>11. waiting' \in Waiting /\ orderIds' \in Waiting
  BY <1>9, <1>10 DEF Waiting
<1> QED
  BY <1>4, <1>5, <1>9, <1>10, <1>11, QuietBook

(* What a bar does to the book and the stream of fills.                    *)
LEMMA BookAfterBar ==
    ASSUME BookInv, RiskTyped', PaperInv', approved' = approved,
           NEW b \in MinuteBar, NEW h \in Holding, NEW q \in Seq(FillEvent),
           \A n \in 1..Len(q) : q[n].inst = b.inst,
           holding' = [holding EXCEPT ![b.inst] = h],
           waiting' = [waiting EXCEPT ![b.inst] = 0],
           UNCHANGED <<paperLoop, orderIds>>,
           filled' = filled \o q,
           doubted \subseteq doubted', doubted' \subseteq Instruments,
           b.inst \notin doubted' => NetOf(q, b.inst) = h.qty - holding[b.inst].qty
    PROVE  BookInv'
<1>1. /\ b.inst \in Instruments /\ holding \in [Instruments -> Holding]
      /\ filled \in Seq(FillEvent)
  BY DEF MinuteBar, BookInv, Booked, PaperTypeOK
<1>2. /\ filled' \in Seq(FillEvent)
      /\ \A i \in Instruments : NetOf(filled', i) = NetOf(filled, i) + NetOf(q, i)
  BY <1>1, NetOfJoined
<1>3. waiting' \in Waiting /\ \A i \in Instruments : waiting'[i] <= approved'.cursor
  <2>1. /\ waiting \in Waiting /\ approved.cursor \in Nat
        /\ \A i \in Instruments : waiting[i] <= approved.cursor
    BY DEF BookInv, Booked, PaperTypeOK, RiskTyped, RiskTypeOK, GroupOf
  <2> QED
    BY <1>1, <2>1 DEF Waiting
<1>4. PaperTypeOK'
  BY <1>1, <1>2, <1>3 DEF BookInv, Booked, PaperTypeOK, PaperInv, InTurn, Group
<1>5. ASSUME NEW i \in Instruments \ doubted'
      PROVE  NetOf(filled', i) = holding'[i].qty
  <2>1. NetOf(filled, i) = holding[i].qty /\ holding[i].qty \in Int
    BY <1>1, BooksAre DEF BookInv, PaperBooksAgree, Holding
  <2>2. CASE i = b.inst
    BY <1>1, <1>2, <1>5, <2>1, <2>2 DEF Holding
  <2>3. CASE i # b.inst
    <3>1. \A n \in 1..Len(q) : q[n].inst # i
      BY <2>3
    <3>2. NetOf(q, i) = 0
      BY <3>1, NetOfOthers
    <3> QED
      BY <1>1, <1>2, <2>1, <2>3, <3>2
  <2> QED
    BY <2>2, <2>3
<1>6. PaperBooksAgree'
  BY <1>5, BooksAre DEF PaperBooksAgree
<1> QED
  BY <1>4, <1>6 DEF BookInv, Booked

LEMMA HandledBook ==
    ASSUME BookInv, HandleMinuteBar \/ HandleBarFails, PaperInv'
    PROVE  BookInv'
<1> DEFINE b == tape.log[FirstBar]
           p == holding[b.inst]
           s == Processed(b)
           f == IF SquaresOff(s.held, b) THEN Closed(s, b) ELSE s
<1>1. b \in MinuteBar /\ b.inst \in Instruments
  <2>1. paperBatch # {}
    BY DEF HandleMinuteBar, HandleBarFails
  <2> QED
    BY <2>1, FirstOfBatch DEF BookInv, Booked, MinuteBar
<1>2. /\ BarLeaves(s, b) /\ BarLeaves(f, b)
      /\ ~Confuses(p, waiting[b.inst], b) => Balances(f, p, b)
  BY <1>1, ProcessedLeaves DEF BookInv
<1>3. doubted \subseteq Instruments
  BY DEF BookInv, Booked, PaperTypeOK
<1>4. RiskTyped' /\ approved' = approved
  <2>1. approved \in Group(Approved) /\ RiskTyped
    BY DEF BookInv, Booked, RiskTyped, RiskTypeOK, Group
  <2> QED
    BY <2>1, RiskTypedAside DEF HandleMinuteBar, HandleBarFails, riskVars
<1>5. CASE HandleMinuteBar
  <2>1. /\ AfterBar(b, f) /\ filled' = filled \o f.fills
        /\ doubted' = doubted \cup
              {i \in {b.inst} : Confuses(holding[i], waiting[i], b)}
    BY <1>5 DEF HandleMinuteBar
  <2>2. b.inst \notin doubted' => NetOf(f.fills, b.inst) = f.held.qty - holding[b.inst].qty
    BY <1>2, <2>1 DEF Balances
  <2> HIDE DEF b, s, f, p
  <2> QED
    BY <1>1, <1>2, <1>3, <1>4, <2>1, <2>2, BookAfterBar DEF AfterBar, BarLeaves
<1>6. CASE HandleBarFails
  <2>1. PICK k \in 0..(Len(f.fills) - 1) :
              /\ AfterBar(b, IF k < Len(s.fills) THEN s ELSE f)
              /\ filled' = filled \o SubSeq(f.fills, 1, k)
    BY <1>6 DEF HandleBarFails
  <2>2. doubted' = doubted \cup {b.inst}
    BY <1>6 DEF HandleBarFails
  <2> HIDE DEF b, s, f, p
  <2> DEFINE q == SubSeq(f.fills, 1, k)
             h == (IF k < Len(s.fills) THEN s ELSE f).held
  <2>3. /\ f.fills \in Seq(FillEvent) /\ k \in Nat /\ k <= Len(f.fills)
        /\ \A n \in 1..Len(f.fills) : f.fills[n].inst = b.inst
    BY <1>2 DEF BarLeaves
  <2>4. q \in Seq(FillEvent) /\ Len(q) = k /\ \A n \in 1..k : q[n] = f.fills[n]
    BY <2>3
  <2>5. \A n \in 1..Len(q) : q[n].inst = b.inst
    BY <2>3, <2>4
  <2>6. h \in Holding /\ holding' = [holding EXCEPT ![b.inst] = h]
        /\ waiting' = [waiting EXCEPT ![b.inst] = 0] /\ UNCHANGED <<paperLoop, orderIds>>
    BY <1>2, <2>1 DEF AfterBar, BarLeaves
  <2> HIDE DEF q, h
  <2>7. filled' = filled \o q
    BY <2>1 DEF q
  <2> QED
    BY <1>1, <1>3, <1>4, <2>2, <2>4, <2>5, <2>6, <2>7, BookAfterBar
<1> QED
  BY <1>5, <1>6

LEMMA DiesBook ==
    ASSUME BookInv, PaperDies, PaperInv'
    PROVE  BookInv'
<1>1. /\ paperLoop' = "down" /\ waiting' = [i \in Instruments |-> 0]
      /\ holding' = [i \in Instruments |-> NoHolding]
      /\ orderIds' = [i \in Instruments |-> 0] /\ UNCHANGED <<approved, filled>>
      /\ doubted' = doubted \cup {i \in Instruments : holding[i].qty # 0}
  BY DEF PaperDies
<1>2. RiskTyped' /\ approved.cursor \in Nat
  <2>1. approved \in Group(Approved) /\ RiskTyped
    BY DEF BookInv, Booked, RiskTyped, RiskTypeOK, Group
  <2> QED
    BY <2>1, RiskTypedAside DEF PaperDies, Group, GroupOf
<1>3. NoHolding \in Holding /\ NoHolding.qty = 0
  BY DEF NoHolding, Holding
<1>4. PaperTypeOK'
  BY <1>1, <1>2, <1>3 DEF BookInv, Booked, PaperTypeOK, PaperInv, InTurn, Group, Waiting
<1>5. ASSUME NEW i \in Instruments \ doubted'
      PROVE  NetFilled(i)' = holding'[i].qty
  BY <1>1, <1>3, BooksAre DEF BookInv, PaperBooksAgree
<1> QED
  BY <1>2, <1>4, <1>5 DEF BookInv, Booked, PaperBooksAgree

LEMMA InitBook == RiskInit /\ PaperInit => BookInv
<1> SUFFICES ASSUME RiskInit, PaperInit PROVE BookInv
  OBVIOUS
<1>1. RiskTyped /\ PaperInv
  BY InitRiskTyped, InitPaperInv
<1>2. filled = <<>> /\ filled \in Seq(FillEvent)
  BY NetOfNone DEF PaperInit
<1>3. /\ waiting \in Waiting /\ orderIds \in Waiting
      /\ \A i \in Instruments : waiting[i] <= approved.cursor
  BY DEF PaperInit, RiskInit, Waiting, EmptyGroup
<1>4. /\ holding \in [Instruments -> Holding]
      /\ \A i \in Instruments : holding[i].qty = 0
  BY DEF PaperInit, NoHolding, Holding
<1>5. PaperTypeOK
  BY <1>1, <1>2, <1>3, <1>4 DEF PaperInit, PaperTypeOK, PaperInv, InTurn, Group
<1>6. PaperBooksAgree
  <2>1. \A i : NetOf(filled, i) = 0
    BY <1>2, NetOfNone
  <2> QED
    BY <1>4, <2>1, BooksAre DEF PaperBooksAgree
<1> QED
  BY <1>1, <1>5, <1>6 DEF BookInv, Booked

(* The steps that leave the book and the fills alone.                      *)
LEMMA AsideBook ==
    ASSUME BookInv, RiskTyped', PaperInv', UNCHANGED <<bookVars, filled, doubted>>,
           approved'.cursor = approved.cursor,
           paperLoop' \in {"down", "orders", "claim", "read"}
    PROVE  BookInv'
<1>1. /\ waiting \in Waiting /\ orderIds \in Waiting
      /\ \A i \in Instruments : waiting[i] <= approved.cursor
  BY DEF BookInv, Booked, PaperTypeOK
<1> QED
  BY <1>1, QuietBook DEF bookVars

LEMMA BookStep ==
    ASSUME BookInv, PaperInv', [PaperNext]_<<riskVars, paperVars>>
    PROVE  BookInv'
<1>1. /\ RiskTyped /\ approved \in Group(Approved)
      /\ paperLoop \in {"down", "orders", "claim", "read"}
  BY DEF BookInv, Booked, RiskTyped, RiskTypeOK, PaperTypeOK, Group
<1>2. CASE \E b \in Bars(1..now) : BarComes(b)
  <2>1. /\ UNCHANGED <<worldVars, signals, approved, rmVars, faults>>
        /\ UNCHANGED <<bookVars, filled, doubted, paperLoop>>
    BY <1>2 DEF BarComes, riskVars
  <2>2. RiskTyped'
    BY <1>1, <2>1, RiskTypedAside
  <2> QED
    BY <1>1, <2>1, <2>2, AsideBook
<1>3. CASE PaperStarts \/ ClaimBars \/ ReadMinuteBars
  <2>1. /\ UNCHANGED <<riskVars, bookVars, filled, doubted>>
        /\ paperLoop' \in {"orders", "read"}
    BY <1>3 DEF PaperStarts, ClaimBars, ReadMinuteBars
  <2>2. UNCHANGED <<worldVars, signals, approved, rmVars, faults>>
    BY <2>1 DEF riskVars
  <2>3. RiskTyped'
    BY <1>1, <2>2, RiskTypedAside
  <2> QED
    BY <2>1, <2>2, <2>3, AsideBook
<1>4. CASE TakeOrders
  BY <1>4, TakeOrdersBook
<1>5. CASE HandleMinuteBar \/ HandleBarFails
  BY <1>5, HandledBook
<1>6. CASE PaperDies
  BY <1>6, DiesBook
<1>7. ASSUME NEW o \in Approved, OrderArrives(o)
      PROVE  BookInv'
  <2>1. approved' = XAdd(approved, o) /\ UNCHANGED <<worldVars, signals, rmVars, faults, paperVars>>
    BY <1>7 DEF OrderArrives
  <2>2. approved' \in Group(Approved) /\ approved'.cursor = approved.cursor
    BY <1>1, <2>1, XAddGroup
  <2>3. RiskTyped'
    BY <1>1, <2>1, <2>2, RiskTypedAside
  <2> QED
    BY <1>1, <2>1, <2>2, <2>3, AsideBook DEF paperVars
<1>8. CASE (RiskLoop \/ RiskWorld \/ Clock) /\ UNCHANGED paperVars
  <2>1. RiskTyped'
    BY <1>1, <1>8, LoopRiskTyped, WorldRiskTyped
  <2>2. approved' = approved \/ \E o : approved' = XAdd(approved, o)
    BY <1>8 DEF RiskLoop, RiskWorld, Clock, StartsSession, NoEquity, NoNewSession,
         HearUpdates, ClaimSignals, ReadSignals, Judge, Decide, DecideFails,
         RiskManagerDies, SignalArrives, UpdateArrives, Feed, Operator, LoseFile,
         worldVars
  <2>3. approved'.cursor = approved.cursor
    BY <2>2 DEF XAdd
  <2> QED
    BY <1>1, <1>8, <2>1, <2>3, AsideBook DEF paperVars
<1>9. CASE UNCHANGED <<riskVars, paperVars>>
  <2>1. /\ UNCHANGED <<worldVars, signals, approved, rmVars, faults>>
        /\ UNCHANGED <<bookVars, filled, doubted, paperLoop>>
    BY <1>9 DEF riskVars, paperVars
  <2>2. RiskTyped'
    BY <1>1, <2>1, RiskTypedAside
  <2> QED
    BY <1>1, <2>1, <2>2, AsideBook
<1> QED
  BY <1>2, <1>3, <1>4, <1>5, <1>6, <1>7, <1>8, <1>9 DEF PaperNext, PaperLoop

LEMMA BookInvariant == PaperSpec => []BookInv
<1>1. BookInv => PaperInv
  BY DEF BookInv, Booked
<1> QED
  BY BookStep, InitBook, PaperInvariant, PTL DEF PaperSpec

(* The types of the paper broker's state and of the risk manager's beside  *)
(* it, whatever is ordered.                                                *)
THEOREM PaperTypeCorrect == PaperSpec => [](RiskTypeOK /\ PaperTypeOK)
<1>1. BookInv => RiskTypeOK /\ PaperTypeOK
  BY DEF BookInv, Booked, RiskTyped
<1> QED
  BY <1>1, BookInvariant, PTL

(* What the paper broker holds is what its published fills add up to, for  *)
(* any orders, whether or not they fit what is held, and whenever it dies  *)
(* or fails to publish: but for the instruments doubted names.             *)
THEOREM PaperBooksStayEqual == PaperSpec => []PaperBooksAgree
<1>1. BookInv => PaperBooksAgree
  BY DEF BookInv
<1> QED
  BY <1>1, BookInvariant, PTL

============================================================================
