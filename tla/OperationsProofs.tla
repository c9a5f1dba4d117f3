-------------------------- MODULE OperationsProofs --------------------------
(***************************************************************************)
(* What runs beside the trading path, for any number of conditions,        *)
(* instruments, modules, rungs, sessions and faults: the alerter, the feed *)
(* monitor, the ladder and guard of live trading, the archive, and the     *)
(* shared session with the feed.                                           *)
(***************************************************************************)
EXTENDS Archive, Alerter, FeedMonitor, LiveTrading, LiveFeed, Lemmas,
        SequenceTheorems, WellFoundedInduction, TLAPS

----------------------------------------------------------------------------
(* The guard and the ladder of live trading.                               *)

(* What lies in the file is what a person last decided, or unreadable.     *)
GuardInv ==
    /\ day \in Nat /\ decision.on \in Nat /\ decision.on <= day
    /\ decision.capital \in Int
    /\ authFile.kind = "written" => authFile = decision
    /\ ArmsWithinAuthorisation

(* The progress the ladder counts on its rung was made there since it was  *)
(* last at its floor.                                                      *)
LadderTypeOK ==
    /\ ladder.rung \in DOMAIN Ladder
    /\ ladder.sessions \in Nat /\ ladder.trades \in Nat
    /\ sinceFloor \in [DOMAIN Ladder -> [sessions : Nat, trades : Nat]]

LadderInv ==
    /\ LadderTypeOK
    /\ ladder.sessions <= sinceFloor[ladder.rung].sessions
    /\ ladder.trades <= sinceFloor[ladder.rung].trades
    /\ SizeIsEarned

LiveInv == GuardInv /\ LadderInv

LEMMA GuardKeeps ==
    ASSUME GuardInv, GuardNext
    PROVE  GuardInv' /\ UNCHANGED ladderSame
<1> USE DEF GuardInv, ArmsWithinAuthorisation
<1>1. ASSUME NEW capital \in Capitals, Authorises(capital)
      PROVE  GuardInv' /\ UNCHANGED ladderSame
  BY <1>1, LiveAssumption DEF Authorises, NoFile
<1>2. CASE Revokes \/ Disarms \/ NextDay
  BY <1>2 DEF Revokes, Disarms, NextDay, NoFile
<1>3. ASSUME NEW evidence \in Evidences, NEW equity \in Equities, Arms(evidence, equity)
      PROVE  GuardInv' /\ UNCHANGED ladderSame
  <2>1. /\ authFile = decision /\ decision.kind = "written"
        /\ day - decision.on <= MaxAgeDays
        /\ decision.capital > 0 => equity <= Tolerance * decision.capital
    BY <1>3 DEF Arms, Cleared, IsValidFor
  <2>2. decision.on \in (day - MaxAgeDays)..day
    BY <2>1, LiveAssumption
  <2>3. decision.capital <= 0 \/ equity <= Tolerance * decision.capital
    BY <2>1
  <2>4. /\ armed' = {[on |-> day, equity |-> equity, decision |-> decision]}
        /\ UNCHANGED <<day, authFile, decision, ladderSame>>
    BY <1>3 DEF Arms
  <2> QED
    BY <2>1, <2>2, <2>3, <2>4
<1> QED
  BY <1>1, <1>2, <1>3 DEF GuardNext

LEMMA LadderRanges ==
    ASSUME LadderTypeOK
    PROVE  /\ Len(Ladder) \in Nat /\ DOMAIN Ladder = 1..Len(Ladder)
           /\ ladder.rung \in 1..Len(Ladder)
           /\ \A k \in 1..Len(Ladder) :
                 /\ Ladder[k].sessions \in Nat /\ Ladder[k].trades \in Nat
                 /\ sinceFloor[k].sessions \in Nat /\ sinceFloor[k].trades \in Nat
<1>1. /\ Len(Ladder) \in Nat /\ DOMAIN Ladder = 1..Len(Ladder)
      /\ \A k \in 1..Len(Ladder) : Ladder[k] \in [sessions : Nat, trades : Nat]
  <2> DEFINE R == [sessions : Nat, trades : Nat]
  <2>1. Ladder \in Seq(R)
    BY LiveAssumption
  <2> HIDE DEF R
  <2>2. /\ Len(Ladder) \in Nat /\ DOMAIN Ladder = 1..Len(Ladder)
        /\ \A k \in 1..Len(Ladder) : Ladder[k] \in R
    BY <2>1
  <2> QED
    BY <2>2 DEF R
<1>2. \A k \in 1..Len(Ladder) : sinceFloor[k] \in [sessions : Nat, trades : Nat]
  BY <1>1 DEF LadderTypeOK
<1> QED
  BY <1>1, <1>2 DEF LadderTypeOK

(* A session counts towards the rung it was made on: those below are as    *)
(* they were, and what the ladder counts stays behind.                     *)
LEMMA SessionCounts ==
    ASSUME LadderInv, NEW outcome \in Outcomes
    PROVE  LET new == Recorded(ladder, outcome)
               since == Since(outcome)
           IN  /\ since \in [DOMAIN Ladder -> [sessions : Nat, trades : Nat]]
               /\ new.sessions \in Nat /\ new.trades \in Nat
               /\ new.sessions <= since[ladder.rung].sessions
               /\ new.trades <= since[ladder.rung].trades
               /\ ladder.sessions <= since[ladder.rung].sessions
               /\ ladder.trades <= since[ladder.rung].trades
               /\ \A k \in 1..(ladder.rung - 1) :
                     /\ since[k].sessions >= Ladder[k].sessions
                     /\ since[k].trades >= Ladder[k].trades
<1> DEFINE new == Recorded(ladder, outcome)
           since == Since(outcome)
<1>1. outcome.trades \in Nat
  BY LiveAssumption
<1>2. /\ new.sessions = ladder.sessions + 1
      /\ new.trades = ladder.trades + outcome.trades
  BY DEF Recorded
<1>3. /\ since[ladder.rung].sessions = sinceFloor[ladder.rung].sessions + 1
      /\ since[ladder.rung].trades = sinceFloor[ladder.rung].trades + outcome.trades
      /\ \A k \in DOMAIN Ladder \ {ladder.rung} : since[k] = sinceFloor[k]
  BY DEF LadderInv, LadderTypeOK, Since
<1>4. since \in [DOMAIN Ladder -> [sessions : Nat, trades : Nat]]
  BY <1>1 DEF LadderInv, LadderTypeOK, Since
<1>5. ASSUME NEW k \in 1..(ladder.rung - 1)
      PROVE  since[k].sessions >= Ladder[k].sessions /\ since[k].trades >= Ladder[k].trades
  <2>1. k \in DOMAIN Ladder \ {ladder.rung}
    BY LadderRanges DEF LadderInv
  <2> QED
    BY <1>3, <2>1 DEF LadderInv, SizeIsEarned
<1> HIDE DEF new, since
<1>6. /\ ladder.sessions \in Nat /\ ladder.trades \in Nat
      /\ sinceFloor[ladder.rung].sessions \in Nat
      /\ sinceFloor[ladder.rung].trades \in Nat
      /\ ladder.sessions <= sinceFloor[ladder.rung].sessions
      /\ ladder.trades <= sinceFloor[ladder.rung].trades
  BY LadderRanges DEF LadderInv, LadderTypeOK
<1>7. /\ new.sessions \in Nat /\ new.trades \in Nat
      /\ new.sessions <= since[ladder.rung].sessions
      /\ new.trades <= since[ladder.rung].trades
      /\ ladder.sessions <= since[ladder.rung].sessions
      /\ ladder.trades <= since[ladder.rung].trades
  BY <1>1, <1>2, <1>3, <1>6
<1> QED
  BY <1>4, <1>5, <1>7 DEF new, since

(* At the floor nothing is earned, and nothing need be.                    *)
LEMMA FloorIsEarned ==
    ASSUME ladder'.rung = 1, ladder'.sessions = 0, ladder'.trades = 0,
           sinceFloor' = Nothing
    PROVE  LadderInv'
<1>1. 1 \in DOMAIN Ladder
  BY LiveAssumption
<1>2. sinceFloor' \in [DOMAIN Ladder -> [sessions : Nat, trades : Nat]]
  BY DEF Nothing
<1>3. sinceFloor'[1].sessions \in Nat /\ sinceFloor'[1].trades \in Nat
  BY <1>1, <1>2
<1>4. SizeIsEarned'
  BY DEF SizeIsEarned
<1> QED
  BY <1>1, <1>2, <1>3, <1>4 DEF LadderInv, LadderTypeOK

LEMMA LadderKeeps ==
    ASSUME LadderInv, LadderNext
    PROVE  LadderInv' /\ UNCHANGED guardSame
<1>1. ASSUME NEW outcome \in Outcomes, RecordsSession(outcome)
      PROVE  LadderInv' /\ UNCHANGED guardSame
  <2> DEFINE new == Recorded(ladder, outcome)
             since == Since(outcome)
  <2>0. UNCHANGED guardSame
    BY <1>1 DEF RecordsSession
  <2>1. /\ since \in [DOMAIN Ladder -> [sessions : Nat, trades : Nat]]
        /\ new.sessions \in Nat /\ new.trades \in Nat
        /\ new.sessions <= since[ladder.rung].sessions
        /\ new.trades <= since[ladder.rung].trades
        /\ ladder.sessions <= since[ladder.rung].sessions
        /\ ladder.trades <= since[ladder.rung].trades
        /\ \A k \in 1..(ladder.rung - 1) :
              /\ since[k].sessions >= Ladder[k].sessions
              /\ since[k].trades >= Ladder[k].trades
    BY SessionCounts
  <2>2. new.rung = ladder.rung
    BY DEF Recorded
  <2>3. CASE ladder' = FreshLadder /\ sinceFloor' = Nothing
    BY <2>0, <2>3, FloorIsEarned DEF FreshLadder
  <2>4. CASE ladder' \in {ladder, new} /\ sinceFloor' = since
    <3> HIDE DEF new, since
    <3> QED
      BY <2>0, <2>1, <2>2, <2>4 DEF LadderInv, LadderTypeOK, SizeIsEarned
  <2>5. CASE Promotes(new) /\ ladder' = Promoted(new) /\ sinceFloor' = since
    <3> HIDE DEF new, since
    <3>1. /\ ladder'.rung = ladder.rung + 1 /\ ladder'.sessions = 0 /\ ladder'.trades = 0
      BY <2>2, <2>5 DEF Promoted
    <3>2. /\ new.sessions >= Ladder[ladder.rung].sessions
          /\ new.trades >= Ladder[ladder.rung].trades
          /\ ~(ladder.rung >= Len(Ladder))
      BY <2>2, <2>5 DEF Promotes, AtFullSize
    <3>3. ladder'.rung \in DOMAIN Ladder /\ ladder'.rung - 1 = ladder.rung
      BY <3>1, <3>2, LadderRanges DEF LadderInv
    <3>4. ASSUME NEW k \in 1..ladder.rung
          PROVE  /\ since[k].sessions >= Ladder[k].sessions
                 /\ since[k].trades >= Ladder[k].trades
      <4>1. CASE k = ladder.rung
        <5>1. /\ Ladder[k].sessions \in Nat /\ Ladder[k].trades \in Nat
              /\ since[k].sessions \in Nat /\ since[k].trades \in Nat
          BY <2>1, <4>1, LadderRanges DEF LadderInv
        <5> QED
          BY <2>1, <3>2, <4>1, <5>1
      <4>2. CASE k # ladder.rung
        BY <2>1, <4>2, LadderRanges DEF LadderInv
      <4> QED
        BY <4>1, <4>2
    <3>5. SizeIsEarned'
      BY <2>5, <3>3, <3>4 DEF SizeIsEarned
    <3>6. /\ sinceFloor' \in [DOMAIN Ladder -> [sessions : Nat, trades : Nat]]
          /\ sinceFloor'[ladder'.rung].sessions >= 0
          /\ sinceFloor'[ladder'.rung].trades >= 0
      BY <2>1, <2>5, <3>3
    <3> QED
      BY <2>0, <3>1, <3>3, <3>5, <3>6 DEF LadderInv, LadderTypeOK
  <2> QED
    BY <1>1, <2>3, <2>4, <2>5 DEF RecordsSession, AfterSession, Demoted
<1>2. CASE ForcesFloor
  BY <1>2, FloorIsEarned DEF ForcesFloor, FreshLadder
<1> QED
  BY <1>1, <1>2 DEF LadderNext

(* Who trades live was authorised by the last decision of a person, in its *)
(* days and for its capital, and at a size that the sessions of every rung *)
(* below have earned since the floor.                                      *)
THEOREM LiveSizeIsAlwaysEarned == LiveSpec => []LiveSizeIsEarned
<1>1. LiveInit => LiveInv
  <2> SUFFICES ASSUME LiveInit PROVE LiveInv
    OBVIOUS
  <2>1. GuardInv
    BY DEF LiveInit, GuardInv, ArmsWithinAuthorisation, NoFile
  <2>2. 1 \in DOMAIN Ladder
    BY LiveAssumption
  <2>3. LadderInv
    BY <2>2 DEF LiveInit, LadderInv, LadderTypeOK, SizeIsEarned, FreshLadder, Nothing
  <2> QED
    BY <2>1, <2>3 DEF LiveInv
<1>2. ASSUME LiveInv, [GuardNext \/ LadderNext]_liveVars
      PROVE  LiveInv'
  <2>1. CASE GuardNext
    <3>1. GuardInv' /\ UNCHANGED ladderSame
      BY <1>2, <2>1, GuardKeeps DEF LiveInv
    <3> QED
      BY <1>2, <3>1
         DEF LiveInv, LadderInv, LadderTypeOK, SizeIsEarned, ladderSame
  <2>2. CASE LadderNext
    <3>1. LadderInv' /\ UNCHANGED guardSame
      BY <1>2, <2>2, LadderKeeps DEF LiveInv
    <3> QED
      BY <1>2, <3>1 DEF LiveInv, GuardInv, ArmsWithinAuthorisation, guardSame
  <2>3. CASE UNCHANGED liveVars
    BY <1>2, <2>3 DEF LiveInv, GuardInv, ArmsWithinAuthorisation, guardSame,
                      LadderInv, LadderTypeOK, SizeIsEarned, liveVars
  <2> QED
    BY <1>2, <2>1, <2>2, <2>3
<1>3. LiveInv => LiveSizeIsEarned
  BY DEF LiveInv, GuardInv, LadderInv, LiveSizeIsEarned
<1> QED
  BY <1>1, <1>2, <1>3, PTL DEF LiveSpec

----------------------------------------------------------------------------
(* The alerter.                                                            *)

LEMMA MaxIs ==
    ASSUME NEW S \in SUBSET Int, NEW m \in S, \A x \in S : x <= m
    PROVE  Max(S) = m
<1>1. Max(S) \in S /\ \A y \in S : Max(S) >= y
  BY DEF Max
<1>2. Max(S) \in Int /\ m \in Int /\ Max(S) >= m /\ Max(S) <= m
  BY <1>1
<1> QED
  BY <1>2

Emitted == [condition : Conditions, repeats : Nat, after : Nat, reached : BOOLEAN,
            nth : Nat]

AlertTypeOK ==
    /\ raised \in [Conditions -> Nat] /\ suppressed \in [Conditions -> Nat]
    /\ sinceSent \in [Conditions -> Nat]
    /\ emitted \in Seq(Emitted)

(* No emission is of an alert yet to be raised.                            *)
AlertInv ==
    /\ AlertTypeOK /\ RepeatsAreCounted
    /\ \A k \in 1..Len(emitted) : emitted[k].nth <= raised[emitted[k].condition]
    /\ \A c \in Conditions, n \in 0..Len(emitted) : Told(emitted, c, n) \in Nat

LEMMA NothingTold ==
    ASSUME NEW log, NEW c
    PROVE  Told(log, c, 0) = 0
<1> DEFINE S == {0} \cup {log[k].nth : k \in {j \in 1..0 : log[j].condition = c}}
<1>1. S = {0}
  OBVIOUS
<1>2. Told(log, c, 0) = Max(S)
  BY DEF Told
<1> HIDE DEF S
<1> QED
  BY <1>1, <1>2, MaxIs

(* An emission tells of all the alerts raised of its condition, and leaves *)
(* what was told before, and of others, as it was.                         *)
LEMMA EmissionTells ==
    ASSUME NEW log \in Seq(Emitted), NEW e \in Emitted, NEW m \in Nat,
           e.nth = m + 1,
           \A k \in 1..Len(log) : log[k].condition = e.condition => log[k].nth <= m
    PROVE  LET new == Append(log, e)
               L   == Len(log)
           IN  /\ \A c \in Conditions, n \in 0..L : Told(new, c, n) = Told(log, c, n)
               /\ Told(new, e.condition, L + 1) = m + 1
               /\ \A c \in Conditions \ {e.condition} :
                     Told(new, c, L + 1) = Told(log, c, L)
<1> DEFINE L == Len(log)
           new == Append(log, e)
           Sent(q, c, n) == {j \in 1..n : q[j].condition = c}
           Numbers(q, c, n) == {0} \cup {q[k].nth : k \in Sent(q, c, n)}
<1>1. /\ L \in Nat /\ new[L + 1] = e
      /\ \A k \in 1..L : new[k] = log[k]
      /\ \A k \in 1..L : log[k].nth \in Nat
  <2>1. /\ L \in Nat /\ new[L + 1] = e
        /\ \A k \in 1..L : new[k] = log[k] /\ log[k] \in Emitted
    OBVIOUS
  <2> QED
    BY <2>1 DEF Emitted
<1>2. \A q, c, n : Told(q, c, n) = Max(Numbers(q, c, n))
  BY DEF Told
<1> HIDE DEF new, L
<1>3. ASSUME NEW c \in Conditions, NEW n \in 0..L
      PROVE  Told(new, c, n) = Told(log, c, n)
  <2>1. Numbers(new, c, n) = Numbers(log, c, n)
    BY <1>1
  <2> QED
    BY <1>2, <2>1
<1>4. Told(new, e.condition, L + 1) = m + 1
  <2> DEFINE S == Numbers(new, e.condition, L + 1)
  <2>1. \A k \in Sent(new, e.condition, L + 1) : new[k].nth \in 0..(m + 1)
    BY <1>1 DEF L
  <2>2. L + 1 \in Sent(new, e.condition, L + 1)
    BY <1>1
  <2>3. S \in SUBSET Int /\ m + 1 \in S /\ \A x \in S : x <= m + 1
    <3> HIDE DEF Sent
    <3> QED
      BY <1>1, <2>1, <2>2
  <2> HIDE DEF S
  <2>4. Max(S) = m + 1
    BY <2>3, MaxIs
  <2> QED
    BY <1>2, <2>4 DEF S
<1>5. ASSUME NEW c \in Conditions \ {e.condition}
      PROVE  Told(new, c, L + 1) = Told(log, c, L)
  <2>1. Sent(new, c, L + 1) = Sent(log, c, L)
    BY <1>1
  <2>2. \A k \in Sent(log, c, L) : new[k].nth = log[k].nth
    BY <1>1
  <2>3. Numbers(new, c, L + 1) = Numbers(log, c, L)
    <3> HIDE DEF Sent
    <3> QED
      BY <2>1, <2>2
  <2> QED
    BY <1>2, <2>3
<1> QED
  BY <1>3, <1>4, <1>5 DEF L, new

LEMMA SendKeeps ==
    ASSUME AlertInv, NEW c \in Conditions, Send(c)
    PROVE  AlertInv'
<1> DEFINE L == Len(emitted)
<1>1. /\ raised' = [raised EXCEPT ![c] = @ + 1]
      /\ raised' \in [Conditions -> Nat] /\ raised'[c] = raised[c] + 1
      /\ \A d \in Conditions : d # c => raised'[d] = raised[d]
      /\ \A d \in Conditions : raised[d] \in Nat /\ suppressed[d] \in Nat
      /\ \A d \in Conditions : raised[d] = Told(emitted, d, L) + suppressed[d]
      /\ \A d \in Conditions, n \in 0..L : Told(emitted, d, n) \in Nat
  BY DEF Send, AlertInv, AlertTypeOK, RepeatsAreCounted
<1>2. /\ L \in Nat
      /\ \A k \in 1..L : /\ emitted[k].condition \in Conditions
                         /\ emitted[k].nth \in Nat
                         /\ emitted[k].nth <= raised[emitted[k].condition]
  <2>1. L \in Nat /\ \A k \in 1..L : emitted[k] \in Emitted
    BY DEF AlertInv, AlertTypeOK
  <2> QED
    BY <2>1 DEF AlertInv, Emitted
<1>3. CASE ~ShouldSend(c)
  <2>1. /\ suppressed' = [suppressed EXCEPT ![c] = @ + 1]
        /\ UNCHANGED <<sinceSent, emitted>>
    BY <1>3 DEF Send
  <2>2. AlertTypeOK'
    BY <1>1, <2>1 DEF AlertInv, AlertTypeOK
  <2>3. ASSUME NEW d \in Conditions
        PROVE  raised'[d] = Told(emitted, d, L) + suppressed'[d]
    <3>1. suppressed'[d] = IF d = c THEN suppressed[d] + 1 ELSE suppressed[d]
      BY <2>1 DEF AlertInv, AlertTypeOK
    <3>2. Told(emitted, d, L) \in Nat
      BY <1>1, <1>2
    <3> QED
      BY <1>1, <3>1, <3>2
  <2>4. RepeatsAreCounted'
    BY <2>1, <2>3 DEF AlertInv, RepeatsAreCounted
  <2>5. \A k \in 1..L : emitted[k].nth <= raised'[emitted[k].condition]
    BY <1>1, <1>2
  <2> QED
    BY <2>1, <2>2, <2>4, <2>5 DEF AlertInv
<1>4. CASE ShouldSend(c)
  <2>1. PICK reached \in BOOLEAN : emitted' = Append(emitted, Emission(c, reached))
    BY <1>4 DEF Send
  <2> DEFINE e == Emission(c, reached)
             new == Append(emitted, e)
  <2>2. /\ suppressed' = PopRepeats(c) /\ sinceSent' = [sinceSent EXCEPT ![c] = 0]
    BY <1>4 DEF Send
  <2>3. /\ e \in Emitted /\ e.condition = c /\ e.nth = raised[c] + 1
        /\ e.repeats = suppressed[c] /\ e.after >= Cooldown
    BY <1>1, <1>4 DEF Emission, Emitted, ShouldSend, AlertInv, AlertTypeOK
  <2>4. /\ \A d \in Conditions, n \in 0..L : Told(new, d, n) = Told(emitted, d, n)
        /\ Told(new, c, L + 1) = raised[c] + 1
        /\ \A d \in Conditions \ {c} : Told(new, d, L + 1) = Told(emitted, d, L)
    <3>1. emitted \in Seq(Emitted)
      BY DEF AlertInv, AlertTypeOK
    <3> HIDE DEF e
    <3>2. /\ raised[c] \in Nat
          /\ \A k \in 1..Len(emitted) :
                emitted[k].condition = e.condition => emitted[k].nth <= raised[c]
      BY <1>1, <1>2, <2>3
    <3> QED
      BY <2>3, <3>1, <3>2, EmissionTells
  <2> HIDE DEF e
  <2>5. /\ emitted' = new /\ emitted' \in Seq(Emitted)
        /\ Len(new) = L + 1 /\ new[L + 1] = e
        /\ \A k \in 1..L : new[k] = emitted[k]
    BY <2>1, <2>3 DEF AlertInv, AlertTypeOK, e
  <2> HIDE DEF new, L
  <2>6. AlertTypeOK'
    BY <1>1, <2>2, <2>5 DEF AlertInv, AlertTypeOK, PopRepeats
  <2>7. ASSUME NEW k \in 1..(L + 1)
        PROVE  /\ new[k].after >= Cooldown
               /\ new[k].nth = Told(new, new[k].condition, k - 1) + new[k].repeats + 1
               /\ new[k].nth <= raised'[new[k].condition]
    <3>1. CASE k = L + 1
      <4>1. Told(new, c, L) = Told(emitted, c, L) /\ Told(new, c, L) \in Nat
        BY <1>1, <1>2, <2>4
      <4>2. e.nth = Told(new, c, L) + e.repeats + 1 /\ e.nth <= raised'[c]
        BY <1>1, <1>2, <2>3, <4>1
      <4>3. new[k] = e /\ k - 1 = L
        BY <1>2, <2>5, <3>1
      <4> QED
        BY <2>3, <4>2, <4>3
    <3>2. CASE k \in 1..L
      <4>1. Told(new, emitted[k].condition, k - 1) = Told(emitted, emitted[k].condition, k - 1)
        BY <1>2, <2>4, <3>2
      <4>2. /\ emitted[k].after >= Cooldown
            /\ emitted[k].nth
                  = Told(emitted, emitted[k].condition, k - 1) + emitted[k].repeats + 1
        BY <3>2 DEF AlertInv, RepeatsAreCounted, L
      <4>3. emitted[k].nth <= raised'[emitted[k].condition]
        BY <1>1, <1>2, <3>2
      <4> QED
        BY <2>5, <3>2, <4>1, <4>2, <4>3
    <3> QED
      BY <1>2, <3>1, <3>2
  <2>8. ASSUME NEW d \in Conditions
        PROVE  /\ raised'[d] = Told(new, d, L + 1) + suppressed'[d]
               /\ \A n \in 0..(L + 1) : Told(new, d, n) \in Nat
    <3>1. suppressed'[d] = IF d = c THEN 0 ELSE suppressed[d]
      BY <2>2 DEF PopRepeats, AlertInv, AlertTypeOK
    <3>2. raised'[d] = Told(new, d, L + 1) + suppressed'[d]
      BY <1>1, <2>4, <3>1
    <3>3. Told(new, d, L + 1) \in Nat
      BY <1>1, <1>2, <2>4
    <3>4. ASSUME NEW n \in 0..(L + 1) PROVE Told(new, d, n) \in Nat
      <4>1. n = L + 1 \/ n \in 0..L
        BY <1>2
      <4> QED
        BY <1>1, <2>4, <3>3, <4>1
    <3> QED
      BY <3>2, <3>4
  <2>9. RepeatsAreCounted'
    BY <2>5, <2>7, <2>8 DEF RepeatsAreCounted
  <2> QED
    BY <2>5, <2>6, <2>7, <2>8, <2>9 DEF AlertInv
<1> QED
  BY <1>3, <1>4

LEMMA AlertTimeKeeps ==
    ASSUME AlertInv, AlertTime
    PROVE  AlertInv'
<1>1. sinceSent' \in [Conditions -> Nat] /\ UNCHANGED <<raised, suppressed, emitted>>
  BY DEF AlertTime, AlertInv, AlertTypeOK
<1> QED
  BY <1>1 DEF AlertInv, AlertTypeOK, RepeatsAreCounted

(* Of any number of alerts, in any order of the conditions and at any      *)
(* time, none vanishes and none comes too often.                           *)
THEOREM EveryAlertIsCounted == AlertSpec => []RepeatsAreCounted
<1>1. AlertInit => AlertInv
  <2> SUFFICES ASSUME AlertInit PROVE AlertInv
    OBVIOUS
  <2>1. Len(emitted) = 0 /\ AlertTypeOK
    BY AlerterAssumption DEF AlertInit, AlertTypeOK, Never
  <2>2. \A c \in Conditions : Told(emitted, c, 0) = 0
    BY NothingTold
  <2> QED
    BY <2>1, <2>2 DEF AlertInit, AlertInv, RepeatsAreCounted
<1>2. ASSUME AlertInv, [AlertNext]_alertVars
      PROVE  AlertInv'
  <2>1. CASE UNCHANGED alertVars
    BY <1>2, <2>1 DEF AlertInv, AlertTypeOK, RepeatsAreCounted, alertVars
  <2> QED
    BY <1>2, <2>1, SendKeeps, AlertTimeKeeps DEF AlertNext
<1>3. AlertInv => RepeatsAreCounted
  BY DEF AlertInv
<1> QED
  BY <1>1, <1>2, <1>3, PTL DEF AlertSpec

----------------------------------------------------------------------------
(* The feed monitor.                                                       *)

LEMMA LargestExists ==
    ASSUME NEW n \in Nat, NEW S \in SUBSET (1..n), S # {}
    PROVE  \E m \in S : \A k \in S : k <= m
<1> DEFINE R == OpToRel(<, Nat)
           T == {n - k : k \in S}
<1>1. \A i, j \in Nat : <<i, j>> \in R <=> i < j
  BY DEF OpToRel
<1>2. IsWellFoundedOn(R, Nat)
  BY NatLessThanWellFounded
<1> HIDE DEF R
<1>3. T \subseteq Nat /\ T # {}
  <2>1. \A k \in S : n - k \in Nat
    OBVIOUS
  <2> QED
    BY <2>1
<1>4. PICK t \in T : \A u \in T : ~ (<<u, t>> \in R)
  <2> HIDE DEF T
  <2> QED
    BY <1>2, <1>3, WFMin
<1>5. PICK m \in S : t = n - m
  BY <1>4
<1>6. ASSUME NEW k \in S PROVE k <= m
  <2>1. n - k \in Nat /\ t \in Nat /\ n - k \in T
    BY <1>3
  <2>2. ~ (n - k < t)
    BY <1>1, <1>4, <2>1
  <2> QED
    BY <1>5, <2>1, <2>2
<1> QED
  BY <1>6

States == {"unknown", "live"} \cup Down

(* What is live has ticked.                                                *)
MonitorInv ==
    /\ tracked \in Seq(Feeds)
    /\ feedState \in [Feeds -> States]
    /\ lastTick \in [Feeds -> Int] /\ time \in Nat
    /\ \A i \in Feeds : feedState[i] = "live" => lastTick[i] # NoTick

(* The states of the tracked instruments become those of the verdict.      *)
LEMMA StatesSet ==
    ASSUME MonitorInv, NEW verdict \in [Feeds -> States], SetsStates(verdict)
    PROVE  feedState' = [i \in Feeds |-> IF i \in Tracked THEN verdict[i] ELSE feedState[i]]
<1>1. SubSeq(tracked, 1, Len(tracked)) = tracked
  BY DEF MonitorInv
<1> QED
  BY <1>1 DEF SetsStates, Tracked

LEMMA VerdictIsState ==
    ASSUME MonitorInv, NEW i \in Feeds
    PROVE  /\ Verdict(i) \in States
           /\ Verdict(i) = "live" => lastTick[i] # NoTick
           /\ \A j \in Feeds : Verdict(j) \in Down /\ Verdict(i) = "unknown"
                                   => lastTick[i] = NoTick
  BY DEF Verdict, States, Down

(* The last instrument to go down finds nothing live: those before it are  *)
(* set, those after it stay as they are, or were not live.                 *)
LEMMA LastOneDown ==
    ASSUME MonitorInv, NEW verdict \in [Feeds -> States], SetsStates(verdict),
           \A i \in Feeds : verdict[i] = "unknown" => feedState[i] # "live",
           NEW i \in Feeds, feedState'[i] # feedState[i], feedState'[i] \in Down,
           \A j \in Tracked : feedState'[j] # "live"
    PROVE  WholeFeed \in critical'
<1> DEFINE Before(k) == ToSet(SubSeq(tracked, 1, k))
           after(k) == [j \in Feeds |-> IF j \in Before(k) THEN verdict[j] ELSE feedState[j]]
           loud == {k \in 1..Len(tracked) :
                       /\ verdict[tracked[k]] # feedState[tracked[k]]
                       /\ verdict[tracked[k]] \in Down}
<1>1. critical' = {IF AllStale(after(k)) THEN WholeFeed ELSE tracked[k] : k \in loud}
  BY DEF SetsStates
<1>2. /\ Len(tracked) \in Nat /\ \A k \in 1..Len(tracked) : tracked[k] \in Feeds
      /\ \A j : j \in Tracked <=> \E k \in 1..Len(tracked) : tracked[k] = j
  BY DEF MonitorInv, Tracked, ToSet
<1>3. feedState' = [j \in Feeds |-> IF j \in Tracked THEN verdict[j] ELSE feedState[j]]
  BY StatesSet
<1>4. PICK n \in 1..Len(tracked) : tracked[n] = i
  BY <1>2, <1>3
<1>5. n \in loud
  BY <1>3, <1>4, <1>2
<1>6. PICK m \in loud : \A k \in loud : k <= m
  <2>1. loud \in SUBSET (1..Len(tracked)) /\ loud # {}
    BY <1>5
  <2> HIDE DEF loud
  <2> QED
    BY <1>2, <2>1, LargestExists
<1>7. ASSUME NEW j \in Tracked PROVE after(m)[j] # "live"
  <2>1. j \in Feeds /\ verdict[j] # "live" /\ verdict[j] \in States
    BY <1>2, <1>3, <1>7
  <2>2. CASE j \in Before(m)
    BY <2>1, <2>2
  <2>3. CASE j \notin Before(m)
    <3>1. PICK k \in 1..Len(tracked) : tracked[k] = j
      BY <1>2
    <3>2. ~ (k <= m)
      <4> SUFFICES ASSUME k <= m PROVE FALSE
        OBVIOUS
      <4>1. SubSeq(tracked, 1, m) = [x \in 1..m |-> tracked[x]]
        BY <1>2, <1>6 DEF MonitorInv
      <4>2. j \in Before(m)
        BY <1>2, <1>6, <3>1, <4>1 DEF ToSet
      <4> QED
        BY <2>3, <4>2
    <3>3. k \notin loud
      BY <1>6, <3>2
    <3>4. verdict[j] = feedState[j] \/ verdict[j] = "unknown"
      BY <2>1, <3>1, <3>3 DEF States
    <3>5. feedState[j] # "live"
      BY <2>1, <3>4
    <3> QED
      BY <2>1, <2>3, <3>5
  <2> QED
    BY <2>2, <2>3
<1>8. AllStale(after(m))
  <2>1. tracked # <<>>
    BY <1>4
  <2> HIDE DEF after
  <2> QED
    BY <1>7, <2>1 DEF AllStale
<1> HIDE DEF after, loud
<1> QED
  BY <1>1, <1>6, <1>8

LEMMA MonitorKeeps ==
    ASSUME MonitorInv, MonitorNext
    PROVE  MonitorInv'
<1> USE DEF MonitorInv
<1>1. ASSUME NEW i \in Feeds, Track(i) \/ RecordTick(i)
      PROVE  MonitorInv'
  <2>1. tracked' \in Seq(Feeds)
    <3>1. tracked' = tracked \/ tracked' = Append(tracked, i)
      BY <1>1 DEF Track, RecordTick
    <3> QED
      BY <3>1
  <2>2. CASE Track(i)
    BY <2>1, <2>2 DEF Track
  <2>3. CASE RecordTick(i)
    <3>1. feedState' \in [Feeds -> States] /\ lastTick' \in [Feeds -> Int]
      BY <2>3 DEF RecordTick, States
    <3>2. \A j \in Feeds : feedState'[j] = "live" => lastTick'[j] # NoTick
      BY <2>3 DEF RecordTick, NoTick
    <3> QED
      BY <2>1, <2>3, <3>1, <3>2 DEF RecordTick
  <2> QED
    BY <1>1, <2>2, <2>3
<1>2. CASE MarkDisconnected
  <2>1. [i \in Feeds |-> "disconnected"] \in [Feeds -> States]
    BY DEF States, Down
  <2>2. feedState' = [i \in Feeds |-> IF i \in Tracked THEN "disconnected" ELSE feedState[i]]
    BY <1>2, <2>1, StatesSet DEF MarkDisconnected
  <2> QED
    BY <1>2, <2>2 DEF MarkDisconnected, States, Down
<1>3. CASE Evaluate
  <2>1. [i \in Feeds |-> Verdict(i)] \in [Feeds -> States]
    BY VerdictIsState
  <2>2. feedState' = [i \in Feeds |-> IF i \in Tracked THEN Verdict(i) ELSE feedState[i]]
    BY <1>3, <2>1, StatesSet DEF Evaluate
  <2>3. feedState' \in [Feeds -> States]
    BY <2>2, VerdictIsState
  <2>4. \A i \in Feeds : feedState'[i] = "live" => lastTick[i] # NoTick
    BY <2>2, VerdictIsState
  <2> QED
    BY <1>3, <2>3, <2>4 DEF Evaluate
<1>4. CASE MarkConnected \/ MonitorTime
  BY <1>4 DEF MarkConnected, MonitorTime
<1> QED
  BY <1>1, <1>2, <1>3, <1>4 DEF MonitorNext

(* Whichever feed is the last to go, in whatever order they were tracked   *)
(* and though some never ticked, an outage of all is reported as one.      *)
THEOREM EveryOutageIsCalledOne == MonitorSpec => OutagesAreCalledOutages
<1>1. MonitorInit => MonitorInv
  BY DEF MonitorInit, MonitorInv, States, NoTick
<1>2. ASSUME MonitorInv, [MonitorNext]_monitorVars
      PROVE  MonitorInv'
  <2>1. CASE UNCHANGED monitorVars
    BY <1>2, <2>1 DEF MonitorInv, monitorVars
  <2> QED
    BY <1>2, <2>1, MonitorKeeps
<1> DEFINE Outage == /\ \E i \in Feeds : feedState'[i] # feedState[i] /\ feedState'[i] \in Down
                     /\ \A i \in ToSet(tracked') : feedState'[i] # "live"
<1>3. ASSUME MonitorInv, MonitorNext, Outage
      PROVE  WholeFeed \in critical'
  <2>1. PICK i \in Feeds : feedState'[i] # feedState[i] /\ feedState'[i] \in Down
    BY <1>3
  <2>2. CASE MarkDisconnected
    <3> DEFINE v == [j \in Feeds |-> "disconnected"]
    <3>1. v \in [Feeds -> States] /\ \A j \in Feeds : v[j] # "unknown"
      BY DEF States, Down
    <3>2. SetsStates(v) /\ tracked' = tracked
      BY <2>2 DEF MarkDisconnected
    <3> HIDE DEF v
    <3> QED
      BY <1>3, <2>1, <3>1, <3>2, LastOneDown DEF Tracked
  <2>3. CASE Evaluate
    <3> DEFINE v == [j \in Feeds |-> Verdict(j)]
    <3>1. v \in [Feeds -> States] /\ \A j \in Feeds : v[j] = Verdict(j)
      BY <1>3, VerdictIsState
    <3>2. SetsStates(v) /\ tracked' = tracked
      BY <2>3 DEF Evaluate
    <3> HIDE DEF v
    <3>3. v[i] \in Down
      BY <1>3, <2>1, <3>1, <3>2, StatesSet
    <3>4. \A j \in Feeds : v[j] = "unknown" => feedState[j] # "live"
      BY <1>3, <3>1, <3>3, VerdictIsState DEF MonitorInv
    <3> QED
      BY <1>3, <2>1, <3>1, <3>2, <3>4, LastOneDown DEF Tracked
  <2>4. CASE MarkConnected \/ MonitorTime \/ \E j \in Feeds : Track(j) \/ RecordTick(j)
    <3>1. \A j \in Feeds : feedState'[j] = feedState[j] \/ feedState'[j] = "live"
      BY <1>3, <2>4 DEF MarkConnected, MonitorTime, Track, RecordTick, MonitorInv
    <3> QED
      BY <2>1, <3>1 DEF Down
  <2> QED
    BY <1>3, <2>2, <2>3, <2>4 DEF MonitorNext
<1>4. ASSUME MonitorInv, [MonitorNext]_monitorVars
      PROVE  [Outage => WholeFeed \in critical']_monitorVars
  BY <1>3, <1>4
<1> QED
  BY <1>1, <1>2, <1>4, PTL DEF MonitorSpec, OutagesAreCalledOutages

----------------------------------------------------------------------------
(* The archiver, for any sizes of queue, batch and read: what its counts   *)
(* report is all that became of the points.                                *)

Counts == [enqueued : Nat, written : Nat, dropped : Nat, lost : Nat]

ArchiveTyped ==
    /\ archived \in Group(Nat)
    /\ inHand \in Seq(Nat) /\ (isQueued => inHand # <<>>)
    /\ queue \in Seq(Nat) /\ Len(queue) <= QueueMaxlen
    /\ batch \in Seq(Nat)
    /\ counts \in Counts

Accounted ==
    counts.enqueued = counts.written + counts.dropped + counts.lost
                        + Len(queue) + Len(batch)

(* A process that is down holds nothing: the next one starts to count with *)
(* an empty queue.                                                         *)
ArchiveInv ==
    /\ ArchiveTyped
    /\ archiver = "up" => Accounted
    /\ archiver = "down" => queue = <<>> /\ batch = <<>>

(* A point more than fits costs the oldest.                                *)
LEMMA QueuedLen ==
    ASSUME NEW q \in Seq(Nat), NEW e \in Nat, Len(q) <= QueueMaxlen
    PROVE  /\ Queued(q, e) \in Seq(Nat)
           /\ Len(Queued(q, e)) = IF Overflows(q) THEN Len(q) ELSE Len(q) + 1
           /\ Len(Queued(q, e)) <= QueueMaxlen
<1>1. QueueMaxlen \in Nat /\ QueueMaxlen > 0
  BY ArchiveAssumption
<1>2. CASE Len(q) = QueueMaxlen
  <2>1. q # <<>>
    BY <1>1, <1>2
  <2>2. Tail(q) \in Seq(Nat) /\ Len(Tail(q)) = Len(q) - 1
    BY <2>1
  <2> QED
    BY <1>1, <1>2, <2>2 DEF Queued, Overflows
<1>3. CASE Len(q) # QueueMaxlen
  BY <1>1, <1>3 DEF Queued, Overflows
<1> QED
  BY <1>2, <1>3

(* Draining cuts the queue in two.                                         *)
LEMMA DrainedLen ==
    ASSUME NEW q \in Seq(Nat), NEW n \in Nat, n <= Len(q)
    PROVE  /\ SubSeq(q, 1, n) \in Seq(Nat) /\ SubSeq(q, n + 1, Len(q)) \in Seq(Nat)
           /\ Len(SubSeq(q, 1, n)) + Len(SubSeq(q, n + 1, Len(q))) = Len(q)
<1> DEFINE a == SubSeq(q, 1, n)
           b == SubSeq(q, n + 1, Len(q))
<1>1. Len(q) \in Nat /\ \A k \in 1..Len(q) : q[k] \in Nat
  OBVIOUS
<1>2. a \in Seq(Nat) /\ Len(a) = n
  BY <1>1, SubSeqProperties
<1>3. b \in Seq(Nat) /\ Len(b) = Len(q) - n
  BY <1>1, SubSeqProperties
<1> HIDE DEF a, b
<1>4. a \in Seq(Nat) /\ b \in Seq(Nat) /\ Len(a) + Len(b) = Len(q)
  BY <1>1, <1>2, <1>3
<1> QED
  BY <1>4 DEF a, b

----------------------------------------------------------------------------
(* The steps.                                                              *)

LEMMA LoopCounts == ASSUME ArchiveInv, ArchiveLoop PROVE ArchiveInv'
<1>1. CASE ReadArchived
  <2>1. archived' \in Group(Nat) /\ archived'.cursor >= archived.cursor
    BY <1>1, XReadGroupGroup, ArchiveAssumption DEF ArchiveInv, ArchiveTyped, ReadArchived
  <2>2. archived.cursor \in Nat /\ archived'.cursor \in Nat
    BY <2>1 DEF ArchiveInv, ArchiveTyped, Group, GroupOf
  <2>3. inHand' \in Seq(Nat)
    BY <1>1, <2>1, <2>2 DEF ReadArchived
  <2> QED
    BY <1>1, <2>1, <2>3 DEF ReadArchived, ArchiveInv, ArchiveTyped, Accounted
<1>2. CASE QueuesPoint
  <2>1. Head(inHand) \in Nat
    BY <1>2 DEF QueuesPoint, ArchiveInv, ArchiveTyped
  <2>2. /\ queue' \in Seq(Nat) /\ Len(queue') <= QueueMaxlen
        /\ Len(queue') = IF Overflows(queue) THEN Len(queue) ELSE Len(queue) + 1
    BY <1>2, <2>1, QueuedLen DEF QueuesPoint, ArchiveInv, ArchiveTyped
  <2>3. counts' \in Counts
    BY <1>2 DEF QueuesPoint, ArchiveInv, ArchiveTyped, Counts
  <2>4. Accounted'
    BY <1>2, <2>2, <2>3 DEF QueuesPoint, ArchiveInv, ArchiveTyped, Accounted, Counts
  <2> QED
    BY <1>2, <2>2, <2>3, <2>4 DEF QueuesPoint, ArchiveInv, ArchiveTyped
<1>3. CASE AcksPoint
  <2>1. archived' \in Group(Nat)
    BY <1>3, XAckGroup DEF AcksPoint, ArchiveInv, ArchiveTyped
  <2>2. inHand' \in Seq(Nat)
    BY <1>3 DEF AcksPoint, ArchiveInv, ArchiveTyped
  <2> QED
    BY <1>3, <2>1, <2>2 DEF AcksPoint, ArchiveInv, ArchiveTyped, Accounted
<1> QED
  BY <1>1, <1>2, <1>3 DEF ArchiveLoop

LEMMA DrainsCount == ASSUME ArchiveInv, Drains PROVE ArchiveInv'
<1> DEFINE n == Least(BatchSize, Len(queue))
<1>1. queue \in Seq(Nat) /\ Len(queue) \in Nat /\ counts \in Counts
  BY DEF ArchiveInv, ArchiveTyped
<1>2. n \in Nat /\ n <= Len(queue)
  BY <1>1, ArchiveAssumption DEF Least
<1>3. batch' = SubSeq(queue, 1, n) /\ queue' = SubSeq(queue, n + 1, Len(queue))
  BY DEF Drains
<1> HIDE DEF n
<1>4. /\ batch' \in Seq(Nat) /\ queue' \in Seq(Nat)
      /\ Len(batch') + Len(queue') = Len(queue)
  BY <1>1, <1>2, <1>3, DrainedLen
<1>5. Len(batch) = 0 /\ Len(batch') \in Nat /\ Len(queue') \in Nat
  BY <1>4 DEF Drains
<1>6. ArchiveTyped'
  <2>1. QueueMaxlen \in Nat /\ Len(queue) <= QueueMaxlen
    BY ArchiveAssumption DEF ArchiveInv, ArchiveTyped
  <2>2. Len(queue') <= QueueMaxlen
    BY <1>1, <1>4, <1>5, <2>1
  <2> QED
    BY <1>4, <2>2 DEF Drains, ArchiveInv, ArchiveTyped
<1>7. Accounted'
  <2>1. counts' = counts /\ Accounted
    BY DEF Drains, ArchiveInv
  <2> QED
    BY <1>1, <1>4, <1>5, <2>1 DEF Accounted, Counts
<1> QED
  BY <1>6, <1>7 DEF Drains, ArchiveInv

LEMMA WritesCount == ASSUME ArchiveInv, WritesBatch PROVE ArchiveInv'
<1>1. /\ batch' = <<>> /\ Len(batch') = 0
      /\ Len(batch) \in Nat /\ Len(queue) \in Nat /\ counts \in Counts
  BY DEF WritesBatch, ArchiveInv, ArchiveTyped
<1>2. queue' = queue /\ Accounted
  BY DEF WritesBatch, ArchiveInv
<1>3. \/ counts' = [counts EXCEPT !.written = @ + Len(batch)]
      \/ counts' = [counts EXCEPT !.lost = @ + Len(batch)]
  BY DEF WritesBatch
<1>4. counts' \in Counts
  BY <1>1, <1>3 DEF Counts
<1>5. Accounted'
  BY <1>1, <1>2, <1>3 DEF Accounted, Counts
<1>6. ArchiveTyped'
  BY <1>1, <1>4 DEF WritesBatch, ArchiveInv, ArchiveTyped
<1> QED
  BY <1>5, <1>6 DEF WritesBatch, ArchiveInv

LEMMA LifeCounts ==
    ASSUME ArchiveInv, ArchiverCloses \/ ArchiverDies \/ ArchiverStarts
    PROVE  ArchiveInv'
<1>1. CASE ArchiverCloses
  <2>1. counts' \in Counts
    <3>1. counts \in Counts /\ Len(queue) \in Nat
      BY DEF ArchiveInv, ArchiveTyped
    <3>2. counts' = [counts EXCEPT !.written = @ + Len(queue)]
      BY <1>1 DEF ArchiverCloses
    <3> QED
      BY <3>1, <3>2 DEF Counts
  <2> QED
    BY <1>1, <2>1, ArchiveAssumption DEF ArchiverCloses, ArchiveInv, ArchiveTyped
<1>2. CASE ArchiverDies
  BY <1>2, ArchiveAssumption DEF ArchiverDies, ArchiveInv, ArchiveTyped
<1>3. CASE ArchiverStarts
  BY <1>3 DEF ArchiverStarts, ArchiveInv, ArchiveTyped, Accounted, Counts
<1> QED
  BY <1>1, <1>2, <1>3

LEMMA ArchiveStep ==
    ASSUME ArchiveInv, [ArchiveNext]_archiveVars
    PROVE  ArchiveInv'
<1>1. CASE ArchivedEntry
  <2>1. archived \in Group(Nat) /\ Len(archived.log) + 1 \in Nat
    BY DEF ArchiveInv, ArchiveTyped, Group, GroupOf
  <2>2. archived' \in Group(Nat)
    BY <1>1, <2>1, XAddGroup DEF ArchivedEntry
  <2> QED
    BY <1>1, <2>2 DEF ArchivedEntry, ArchiveInv, ArchiveTyped, Accounted
<1>2. CASE InfluxTurns
  BY <1>2 DEF InfluxTurns, ArchiveInv, ArchiveTyped, Accounted
<1>3. CASE UNCHANGED archiveVars
  BY <1>3 DEF archiveVars, ArchiveInv, ArchiveTyped, Accounted
<1> QED
  BY <1>1, <1>2, <1>3, LoopCounts, DrainsCount, WritesCount, LifeCounts DEF ArchiveNext

(* Whatever the loop, the thread, the backend and the process do, and in   *)
(* whatever order: points queued are written, dropped, lost in a failed    *)
(* batch, or still at hand.                                                *)
THEOREM NoPointUnaccounted == ArchiveSpec => []CountsAddUp
<1>1. ArchiveInit => ArchiveInv
  BY EmptyGroupIsGroup, ArchiveAssumption
  DEF ArchiveInit, ArchiveInv, ArchiveTyped, Accounted, Counts
<1>2. ArchiveInv /\ [ArchiveNext]_archiveVars => ArchiveInv'
  BY ArchiveStep
<1>3. ArchiveInv => CountsAddUp
  BY DEF ArchiveInv, Accounted, CountsAddUp
<1> QED
  BY <1>1, <1>2, <1>3, PTL DEF ArchiveSpec

----------------------------------------------------------------------------
(* The shared session and the feed: the login lock excludes as long as it  *)
(* outlives the login, and a liveness key vouches for a recent tick.       *)

(* The lock is there while its owner is, it has one owner, and only an     *)
(* owner publishes and deletes it.                                         *)
Typed == /\ pc = [p \in Modules |-> pc[p]]
         /\ owner \in [Modules -> BOOLEAN]
         /\ lock \in Nat /\ lapsed \in BOOLEAN

OwnersLogIn == \A p \in Modules :
    /\ owner[p] => pc[p] \in UnderLock
    /\ pc[p] \in {"publish", "unlock"} => owner[p]

OwnersHoldIt == lapsed \/ \A p \in Modules : owner[p] => lock > 0

OneOwner == lapsed \/ \A p, q \in Modules : owner[p] /\ owner[q] => p = q

LockInv == Typed /\ OwnersLogIn /\ OwnersHoldIt /\ OneOwner

(* A module that moves without touching the lock keeps the invariant if it *)
(* stays under the lock or gives its ownership up.                         *)
LEMMA MovesOn ==
    ASSUME NEW p \in Modules, LockInv,
           pc' = [pc EXCEPT ![p] = pc'[p]], UNCHANGED <<lock, lapsed>>,
           owner' = owner \/ owner' = [owner EXCEPT ![p] = FALSE],
           owner'[p] => pc'[p] \in UnderLock,
           pc'[p] \in {"publish", "unlock"} => owner'[p]
    PROVE  LockInv'
<1>1. Typed'
  <2>1. pc' = [q \in Modules |-> pc'[q]]
    BY DEF LockInv, Typed
  <2> QED
    BY <2>1 DEF LockInv, Typed
<1>2. \A q \in Modules : owner'[q] => owner[q]
  BY DEF LockInv, Typed
<1>3. \A q \in Modules : q # p => pc'[q] = pc[q] /\ owner'[q] = owner[q]
  BY DEF LockInv, Typed
<1>4. OwnersLogIn'
  BY <1>2, <1>3 DEF LockInv, OwnersLogIn
<1>5. OwnersHoldIt' /\ OneOwner'
  BY <1>2 DEF LockInv, OwnersHoldIt, OneOwner
<1> QED
  BY <1>1, <1>4, <1>5 DEF LockInv

(* Where Goes takes a module, and what an exception of get_session leaves. *)
LEMMA GoesTo ==
    ASSUME NEW p \in Modules, NEW place, NEW t, LockInv, Goes(p, place, t)
    PROVE  pc'[p] = place /\ pc' = [pc EXCEPT ![p] = pc'[p]]
<1>1. pc' = [pc EXCEPT ![p] = place]
  BY DEF Goes
<1>2. pc'[p] = place
  BY <1>1 DEF LockInv, Typed
<1> QED
  BY <1>1, <1>2

LEMMA RaisesKeeps ==
    ASSUME NEW p \in Modules, LockInv, Raises(p), UNCHANGED <<lock, lapsed>>
    PROVE  LockInv'
<1>1. owner' = [owner EXCEPT ![p] = FALSE] /\ ~owner'[p]
  BY DEF Raises, LockInv, Typed
<1>2. /\ pc'[p] \in {"backoff", "halted", "off", "failed"}
      /\ pc' = [pc EXCEPT ![p] = pc'[p]]
  BY GoesTo DEF Raises
<1> QED
  BY <1>1, <1>2, MovesOn

LEMMA LoginFailsKeeps ==
    ASSUME NEW p \in Modules, LockInv, LoginFails(p), UNCHANGED <<lock, lapsed>>
    PROVE  LockInv'
<1>1. CASE owner[p]
  <2>1. pc'[p] = "unlock" /\ pc' = [pc EXCEPT ![p] = pc'[p]] /\ owner' = owner
    BY <1>1, GoesTo DEF LoginFails
  <2> QED
    BY <1>1, <2>1, MovesOn DEF UnderLock
<1>2. CASE ~owner[p]
  BY <1>2, RaisesKeeps DEF LoginFails
<1> QED
  BY <1>1, <1>2

(* A step outside the lock: the module owned nothing and still does not.   *)
LEMMA StaysOut ==
    ASSUME NEW p \in Modules, LockInv, UNCHANGED <<lock, lapsed, owner>>,
           pc[p] \notin UnderLock,
           pc' = [pc EXCEPT ![p] = pc'[p]], pc'[p] \notin {"publish", "unlock"}
    PROVE  LockInv'
<1>1. ~owner[p]
  BY DEF LockInv, OwnersLogIn
<1> QED
  BY <1>1, MovesOn

LEMMA GetsOnKeeps ==
    ASSUME NEW p \in Modules, LockInv, GetsOn(p)
    PROVE  LockInv'
<1> USE DEF environment
<1>1. CASE Asks(p)
  <2>1. pc'[p] = "read" /\ pc' = [pc EXCEPT ![p] = pc'[p]]
    BY <1>1, GoesTo DEF Asks
  <2> QED
    BY <1>1, <2>1, StaysOut DEF Asks, UnderLock, LoggingIn
<1>2. CASE Reads(p)
  <2>1. pc'[p] \in {"has", "take"} /\ pc' = [pc EXCEPT ![p] = pc'[p]]
    BY <1>2, GoesTo DEF Reads, Restores
  <2> QED
    BY <1>2, <2>1, StaysOut DEF Reads, UnderLock, LoggingIn
<1>3. CASE Takes(p)
  <2>1. CASE TakesLock(p)
    <3>1. /\ owner' = [owner EXCEPT ![p] = TRUE] /\ lapsed' = lapsed
          /\ pc' = [pc EXCEPT ![p] = "login"] /\ lock = 0 /\ lock' = LockTTL
      BY <1>3, <2>1 DEF Takes, TakesLock, Goes
    <3>2. pc' = [q \in Modules |-> pc'[q]]
      BY <3>1 DEF LockInv, Typed
    <3>3. Typed' /\ lock' > 0
      BY <3>1, <3>2, SessionAssumption DEF LockInv, Typed
    <3>4. lapsed \/ \A q \in Modules : ~owner[q]
      BY <3>1 DEF LockInv, OwnersHoldIt
    <3>5. /\ \A q \in Modules : q # p => owner'[q] = owner[q] /\ pc'[q] = pc[q]
          /\ owner'[p] /\ pc'[p] = "login"
      BY <3>1 DEF LockInv, Typed
    <3>6. OwnersLogIn'
      BY <3>5 DEF LockInv, OwnersLogIn, UnderLock, LoggingIn
    <3>7. OneOwner' /\ OwnersHoldIt'
      BY <3>1, <3>3, <3>4, <3>5 DEF OwnersHoldIt, OneOwner
    <3> QED
      BY <3>3, <3>6, <3>7 DEF LockInv
  <2>2. CASE ~TakesLock(p)
    <3>1. /\ pc'[p] \in {"wait", "login"} /\ pc' = [pc EXCEPT ![p] = pc'[p]]
          /\ UNCHANGED <<lock, lapsed, owner>>
      BY <1>3, <2>2, GoesTo DEF Takes
    <3> QED
      BY <1>3, <3>1, StaysOut DEF Takes, UnderLock, LoggingIn
  <2> QED
    BY <2>1, <2>2
<1>4. CASE TotpLogin(p)
  <2>1. CASE LoginFails(p)
    BY <1>4, <2>1, LoginFailsKeeps DEF TotpLogin
  <2>2. CASE ~LoginFails(p)
    <3>1. /\ pc'[p] = "validate" /\ pc' = [pc EXCEPT ![p] = pc'[p]]
          /\ UNCHANGED <<lock, lapsed, owner>>
      BY <1>4, <2>2, GoesTo DEF TotpLogin
    <3> QED
      BY <3>1, MovesOn DEF UnderLock, LoggingIn
  <2> QED
    BY <2>1, <2>2
<1>5. CASE TotpValidate(p)
  <2>1. CASE LoginFails(p)
    BY <1>5, <2>1, LoginFailsKeeps DEF TotpValidate
  <2>2. CASE ~LoginFails(p)
    <3>1. /\ pc'[p] = (IF owner[p] THEN "publish" ELSE "has")
          /\ pc' = [pc EXCEPT ![p] = pc'[p]] /\ UNCHANGED <<lock, lapsed, owner>>
      BY <1>5, <2>2, GoesTo DEF TotpValidate
    <3> QED
      BY <3>1, MovesOn DEF UnderLock, LoggingIn
  <2> QED
    BY <2>1, <2>2
<1>6. CASE Publishes(p)
  <2>1. pc'[p] = "unlock" /\ pc' = [pc EXCEPT ![p] = pc'[p]] /\ owner[p]
    BY <1>6, GoesTo DEF Publishes, LockInv, OwnersLogIn
  <2> QED
    BY <1>6, <2>1, MovesOn DEF Publishes, UnderLock
<1>7. CASE Unlocks(p)
  <2>1. owner[p] /\ owner' = [owner EXCEPT ![p] = FALSE] /\ ~owner'[p]
    BY <1>7 DEF Unlocks, Raises, LockInv, Typed, OwnersLogIn
  <2>2. /\ pc'[p] \in {"backoff", "halted", "off", "failed", "has"}
        /\ pc' = [pc EXCEPT ![p] = pc'[p]]
    BY <1>7, GoesTo DEF Unlocks, Raises
  <2>3. CASE lock' = lock
    BY <1>7, <2>1, <2>2, <2>3, MovesOn DEF Unlocks
  <2>4. CASE lock' = 0
    <3>1. pc' = [q \in Modules |-> pc'[q]]
      BY <2>2 DEF LockInv, Typed
    <3>2. Typed' /\ lapsed' = lapsed
      BY <1>7, <2>1, <2>4, <3>1 DEF Unlocks, LockInv, Typed
    <3>3. \A q \in Modules : q # p => owner'[q] = owner[q] /\ pc'[q] = pc[q]
      BY <2>1, <2>2 DEF LockInv, Typed
    <3>4. OwnersLogIn'
      BY <2>1, <2>2, <3>3 DEF LockInv, OwnersLogIn
    <3>5. lapsed \/ \A q \in Modules : ~owner'[q]
      BY <2>1, <3>3 DEF LockInv, OneOwner
    <3> QED
      BY <3>2, <3>4, <3>5 DEF LockInv, OwnersHoldIt, OneOwner
  <2> QED
    BY <1>7, <2>3, <2>4 DEF Unlocks
<1>8. CASE Polls(p)
  <2>1. CASE Raises(p)
    BY <1>8, <2>1, RaisesKeeps DEF Polls
  <2>2. CASE ~Raises(p)
    <3>1. /\ pc'[p] = "has" /\ pc' = [pc EXCEPT ![p] = pc'[p]]
          /\ UNCHANGED <<lock, lapsed, owner>>
      BY <1>8, <2>2, GoesTo DEF Polls, Restores
    <3> QED
      BY <1>8, <3>1, StaysOut DEF Polls, UnderLock, LoggingIn
  <2> QED
    BY <2>1, <2>2
<1>9. CASE FindsExpired(p)
  <2>1. pc'[p] = "clear" /\ pc' = [pc EXCEPT ![p] = pc'[p]]
    BY <1>9, GoesTo DEF FindsExpired
  <2> QED
    BY <1>9, <2>1, StaysOut DEF FindsExpired, UnderLock, LoggingIn
<1>10. CASE Clears(p)
  <2>1. pc'[p] = "read" /\ pc' = [pc EXCEPT ![p] = pc'[p]]
    BY <1>10, GoesTo DEF Clears
  <2> QED
    BY <1>10, <2>1, StaysOut DEF Clears, UnderLock, LoggingIn
<1> QED
  BY <1>1, <1>2, <1>3, <1>4, <1>5, <1>6, <1>7, <1>8, <1>9, <1>10 DEF GetsOn

(* Time: the lock expires under its owner, and that is recorded.           *)
LEMMA TimeKeeps ==
    ASSUME LockInv, SessionTime
    PROVE  LockInv'
<1>1. /\ UNCHANGED <<pc, owner>>
      /\ lock' = IF lock > 0 THEN lock - 1 ELSE 0
      /\ lapsed' = (lapsed \/ (lock = 1 /\ \E p \in Modules :
                                    owner[p] /\ pc[p] \in UnderLock))
  BY DEF SessionTime
<1>2. Typed' /\ OwnersLogIn'
  BY <1>1 DEF LockInv, Typed, OwnersLogIn
<1>3. OneOwner'
  BY <1>1 DEF LockInv, Typed, OneOwner
<1>4. OwnersHoldIt'
  BY <1>1 DEF LockInv, Typed, OwnersHoldIt, OwnersLogIn
<1> QED
  BY <1>2, <1>3, <1>4 DEF LockInv

LEMMA StepKeeps ==
    ASSUME LockInv, FeedNext \/ UNCHANGED <<sessionVars, feedVars>>
    PROVE  LockInv'
<1> USE DEF environment
<1>1. ASSUME UNCHANGED <<pc, owner, lock, lapsed>>
      PROVE  LockInv'
  BY <1>1 DEF LockInv, Typed, OwnersLogIn, OwnersHoldIt, OneOwner
<1>2. CASE \E p \in Modules : Gets(p)
  BY <1>2, GetsOnKeeps DEF Gets
<1>3. CASE Subscribes
  <2>1. CASE Raises(Ingestion)
    BY <1>3, <2>1, RaisesKeeps, SessionAssumption DEF Subscribes
  <2>2. CASE ~Raises(Ingestion)
    <3>1. /\ pc'[Ingestion] = "connected"
          /\ pc' = [pc EXCEPT ![Ingestion] = pc'[Ingestion]]
          /\ UNCHANGED <<lock, lapsed, owner>>
      BY <1>3, <2>2, GoesTo, SessionAssumption DEF Subscribes
    <3> QED
      BY <1>3, <3>1, StaysOut, SessionAssumption
      DEF Subscribes, UnderLock, LoggingIn
  <2> QED
    BY <2>1, <2>2
<1>4. CASE FeedTime
  BY <1>4, TimeKeeps DEF FeedTime
<1>5. ASSUME NEW p \in Modules, Crashes(p)
      PROVE  LockInv'
  <2>1. /\ pc'[p] = "off" /\ pc' = [pc EXCEPT ![p] = pc'[p]]
        /\ owner' = [owner EXCEPT ![p] = FALSE] /\ UNCHANGED <<lock, lapsed>>
    BY <1>5, GoesTo DEF Crashes
  <2>2. ~owner'[p]
    BY <2>1 DEF LockInv, Typed
  <2> QED
    BY <2>1, <2>2, MovesOn
<1>6. CASE FeedWorld
  <2>1. CASE SessionsEnd
    BY <1>1, <2>1 DEF SessionsEnd
  <2>2. CASE BrokerTurns
    BY <1>1, <2>2 DEF BrokerTurns
  <2>3. CASE SocketCloses
    BY <1>1, <2>3 DEF SocketCloses, sessionVars
  <2>4. CASE \E message \in Messages : OnMessage(message)
    BY <1>1, <2>4 DEF OnMessage, sessionVars
  <2> QED
    BY <1>5, <1>6, <2>1, <2>2, <2>3, <2>4 DEF FeedWorld, SessionWorld
<1>7. CASE UNCHANGED <<sessionVars, feedVars>>
  BY <1>1, <1>7 DEF sessionVars
<1> QED
  BY <1>2, <1>3, <1>4, <1>6, <1>7 DEF FeedNext

(* However many modules start and whatever the delays, two of them log in  *)
(* under the lock at once only when it has expired under the first.        *)
THEOREM LoginsExclude == FeedSpec => []OneLoginAtATime
<1>1. FeedInit => LockInv
  <2> SUFFICES ASSUME FeedInit
               PROVE  LockInv
    OBVIOUS
  <2>1. /\ \A p \in Modules : pc[p] = "off" /\ owner[p] = FALSE
        /\ pc = [p \in Modules |-> pc[p]] /\ owner \in [Modules -> BOOLEAN]
        /\ lock = 0 /\ lapsed = FALSE
    BY DEF FeedInit, SessionInit
  <2> QED
    BY <2>1 DEF LockInv, Typed, OwnersLogIn, OwnersHoldIt, OneOwner
<1>2. LockInv /\ [FeedNext]_<<sessionVars, feedVars>> => LockInv'
  BY StepKeeps
<1>3. LockInv => OneLoginAtATime
  BY DEF LockInv, OneOwner, OneLoginAtATime
<1> QED
  BY <1>1, <1>2, <1>3, PTL DEF FeedSpec

-----------------------------------------------------------------------------
(* The liveness keys.                                                      *)

(* What is left of a key and the age of the tick that set it never add up  *)
(* to more than its TTL.                                                   *)
KeyAges == \A i \in Instruments :
    /\ feedKey[i] \in Nat /\ tickAge[i] \in Nat
    /\ feedKey[i] > 0 => feedKey[i] + tickAge[i] <= StaleSeconds

LEMMA KeysAge == ASSUME KeyAges, FeedTime PROVE KeyAges'
<1> SUFFICES ASSUME NEW i \in Instruments
             PROVE  /\ feedKey'[i] \in Nat /\ tickAge'[i] \in Nat
                    /\ feedKey'[i] > 0 => feedKey'[i] + tickAge'[i] <= StaleSeconds
  BY DEF KeyAges
<1>1. /\ feedKey[i] \in Nat /\ tickAge[i] \in Nat
      /\ feedKey[i] > 0 => feedKey[i] + tickAge[i] <= StaleSeconds
  BY DEF KeyAges
<1>2. /\ feedKey'[i] = IF feedKey[i] > 0 THEN feedKey[i] - 1 ELSE 0
      /\ tickAge'[i] = IF tickAge[i] <= StaleSeconds THEN tickAge[i] + 1 ELSE tickAge[i]
  BY DEF FeedTime, KeyAfter
<1> QED
  BY <1>1, <1>2, FeedAssumption

LEMMA MessagesRenewKeys ==
    ASSUME KeyAges, NEW message, OnMessage(message)
    PROVE  KeyAges'
<1> SUFFICES ASSUME NEW i \in Instruments
             PROVE  /\ feedKey'[i] \in Nat /\ tickAge'[i] \in Nat
                    /\ feedKey'[i] > 0 => feedKey'[i] + tickAge'[i] <= StaleSeconds
  BY DEF KeyAges
<1>1. \/ feedKey'[i] = StaleSeconds /\ tickAge'[i] = 0
      \/ feedKey'[i] = feedKey[i] /\ tickAge'[i] = tickAge[i]
  BY DEF OnMessage
<1> QED
  BY <1>1, FeedAssumption DEF KeyAges

LEMMA KeysStay ==
    ASSUME KeyAges, FeedNext \/ UNCHANGED <<sessionVars, feedVars>>
    PROVE  KeyAges'
<1>1. CASE UNCHANGED <<feedKey, tickAge>>
  BY <1>1 DEF KeyAges
<1>2. CASE FeedTime
  BY <1>2, KeysAge
<1>3. CASE \E message \in Messages : OnMessage(message)
  BY <1>3, MessagesRenewKeys
<1>4. CASE \E p \in Modules : Gets(p)
  BY <1>1, <1>4 DEF Gets, feedVars
<1>5. CASE Subscribes
  BY <1>1, <1>5 DEF Subscribes
<1>6. CASE FeedWorld
  BY <1>1, <1>3, <1>6 DEF FeedWorld, SocketCloses
<1>7. CASE UNCHANGED <<sessionVars, feedVars>>
  BY <1>1, <1>7 DEF feedVars
<1> QED
  BY <1>2, <1>4, <1>5, <1>6, <1>7 DEF FeedNext

(* For any set of instruments and any limit, whatever becomes of the       *)
(* session, the socket and the processes: a key that is there was set by a *)
(* tick within the limit.                                                  *)
THEOREM LiveKeysAreRecent == FeedSpec => []LiveMeansRecent
<1>1. FeedInit => KeyAges
  BY FeedAssumption DEF FeedInit, KeyAges
<1>2. KeyAges /\ [FeedNext]_<<sessionVars, feedVars>> => KeyAges'
  BY KeysStay
<1>3. KeyAges => LiveMeansRecent
  BY FeedAssumption DEF KeyAges, LiveMeansRecent, IsFeedLive
<1> QED
  BY <1>1, <1>2, <1>3, PTL DEF FeedSpec

============================================================================
