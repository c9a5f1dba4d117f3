-------------------------- MODULE ExecutionProofs --------------------------
(***************************************************************************)
(* Theorems about ExecutionEngine, for any number of orders, entries,      *)
(* deliveries and faults: orders are sent at most once, what is told of    *)
(* them is true, and the engine implements OrderPromise.                   *)
(***************************************************************************)
EXTENDS ExecutionEngine, Lemmas

----------------------------------------------------------------------------
(* The order state machine stays in its domain.                            *)

LEMMA AddFillType ==
    ASSUME NEW r \in Order, NEW n \in Nat, NEW q \in Nat \ {0}
    PROVE  /\ AddFill(r, n, q) \in Order
           /\ AddFill(r, n, q).status \in {"PARTIAL", "FILLED"}
  BY DEF AddFill, Order, Status, Live, Terminal

(* A reported quantity of any size leaves an order within what was ordered *)
(* and never takes back a share it had.                                    *)
LEMMA AddFillNeverOverfills ==
    ASSUME NEW r \in Order, NEW n \in Nat \ {0}, NEW q \in Nat \ {0},
           r.filled < q
    PROVE  /\ AddFill(r, n, q).filled <= q
           /\ AddFill(r, n, q).filled > r.filled
           /\ AddFill(r, n, q).status = "FILLED" <=> AddFill(r, n, q).filled = q
  BY DEF AddFill, Order

LEMMA AfterReplyType ==
    ASSUME NEW r \in Order, NEW reply
    PROVE  /\ AfterReply(r, reply) \in Order
           /\ AfterReply(r, reply).status \in Status
  BY DEF AfterReply, Order, Status, Live, Terminal

LEMMA TransitionType ==
    ASSUME NEW r \in Order, NEW s \in Status
    PROVE  /\ [r EXCEPT !.status = s] \in Order
           /\ [r EXCEPT !.status = s].status = s
  BY DEF Order

LEMMA EventType ==
    ASSUME NEW r \in Order, r.status \in Status
    PROVE  Event(r) \in Events
  BY DEF Event, Events, Order

(* One more event about one order.                                         *)
LEMMA AppendType ==
    ASSUME NEW f \in [Orders -> Seq(Events)], NEW o \in Orders, NEW e \in Events
    PROVE  [f EXCEPT ![o] = Append(@, e)] \in [Orders -> Seq(Events)]
  <1>1. Append(f[o], e) \in Seq(Events)
    OBVIOUS
  <1>2. QED
    BY <1>1

LEMMA NewOrderType == NewOrder \in Order /\ Absent \in Order
  BY DEF NewOrder, Absent, Order, Status, Live, Terminal

----------------------------------------------------------------------------
(* The group of approved_orders stays well formed, and what a step may do  *)
(* to it.                                                                  *)

LEMMA InitTypeOK == Init => TypeOK
  <1> SUFFICES ASSUME Init PROVE TypeOK
    OBVIOUS
  <1>1. approved \in GroupOf(Orders) /\ WellFormed(approved)
    BY EmptyGroupIsGroup DEF Init, Group
  <1>2. registry \in [Orders -> Order]
    BY NewOrderType DEF Init
  <1>3. report \in [Orders -> ReportRow]
    BY DEF Init, NoReport, NoRow, ReportRow, BrokerStatus
  <1>4. broker \in [Orders -> BrokerOrder]
    BY DEF Init, BrokerOrder, BrokerStatus
  <1>5. published \in [Orders -> Seq(Events)]
    BY DEF Init
  <1>6. batch \subseteq 1..approved.cursor
    BY DEF Init
  <1>7. QED
    BY <1>1, <1>2, <1>3, <1>4, <1>5, <1>6 DEF Init, TypeOK

(* An entry of the batch is an order.                                      *)
LEMMA EntryIsOrder ==
    ASSUME TypeOK, NEW i \in batch
    PROVE  i \in 1..Len(approved.log) /\ approved.log[i] \in Orders
  BY DEF TypeOK, GroupOf, WellFormed

LEMMA EnvironmentTypeOK ==
    ASSUME TypeOK, Environment
    PROVE  TypeOK'
  <1> USE OrdersAssumption DEF engineVars, redisVars, histVars
  <1>1. ASSUME NEW o \in Orders, Approve(o) PROVE TypeOK'
    <2>1. approved' \in Group(Orders) /\ approved'.cursor = approved.cursor
      BY <1>1, XAddGroup DEF Approve, TypeOK, Group
    <2>2. \A i \in 1..Len(approved.log) : approved'.log[i] = approved.log[i]
      BY <1>1, XAddGroup DEF Approve, TypeOK, Group
    <2>3. step = "publish" => approved'.log[cur] = approved.log[cur]
      BY <2>2, EntryIsOrder DEF TypeOK
    <2>4. QED
      BY <1>1, <2>1, <2>3 DEF Approve, TypeOK, Group
  <1>2. ASSUME NEW o \in Orders, KeyExpires(o) PROVE TypeOK'
    BY <1>2 DEF KeyExpires, TypeOK
  <1>3. ASSUME NEW o \in Orders, BrokerFills(o) PROVE TypeOK'
    <2>1. broker' \in [Orders -> BrokerOrder]
      BY <1>3, OrdersAssumption DEF BrokerFills, TypeOK, BrokerOrder, BrokerStatus
    <2>2. QED
      BY <1>3, <2>1 DEF BrokerFills, TypeOK
  <1>4. ASSUME NEW o \in Orders, BrokerEnds(o) PROVE TypeOK'
    <2>1. broker' \in [Orders -> BrokerOrder]
      BY <1>4 DEF BrokerEnds, TypeOK, BrokerOrder, BrokerStatus
    <2>2. QED
      BY <1>4, <2>1 DEF BrokerEnds, TypeOK
  <1>5. CASE Halt
    BY <1>5 DEF Halt, TypeOK
  <1>6. CASE ClearHalt
    BY <1>6 DEF ClearHalt, TypeOK
  <1>7. QED
    BY <1>1, <1>2, <1>3, <1>4, <1>5, <1>6 DEF Environment

(* The part of TypeOK a handler step moves.                                *)
HandlerOK ==
    /\ batch \subseteq 1..approved.cursor
    /\ phase \notin {"read", "poll"} => batch = {}
    /\ step \in {"idle", "send", "publish", "ack", "dead"}
    /\ IF step = "idle" THEN cur = 0 ELSE cur \in batch

LEMMA HandlerGoesType ==
    ASSUME TypeOK, NEW i \in batch, NEW s \in {"send", "publish", "ack", "dead"},
           HandlerGoes(i, s), UNCHANGED <<approved, phase>>
    PROVE  HandlerOK' /\ step' = s /\ cur' = i
  BY DEF TypeOK, HandlerGoes, HandlerOK

LEMMA HandlerFailsType ==
    ASSUME TypeOK, NEW i \in batch, HandlerFails(i), UNCHANGED <<approved, phase>>
    PROVE  HandlerOK' /\ step' \in {"idle", "dead"}
  BY DEF TypeOK, HandlerGoes, HandlerDone, HandlerFails, HandlerOK

LEMMA LoopTypeOK ==
    ASSUME TypeOK
    PROVE  /\ \A S \in SUBSET approved.pending : ClaimStale(S) => TypeOK'
           /\ Read => TypeOK'
  <1>1. ASSUME NEW S \in SUBSET approved.pending, ClaimStale(S)
        PROVE  TypeOK'
    <2>1. /\ approved' \in Group(Orders) /\ approved'.cursor = approved.cursor
          /\ approved'.pending = approved.pending
      BY <1>1, XAutoClaimGroup DEF ClaimStale, TypeOK, Group
    <2>2. batch' \subseteq 1..approved'.cursor
      BY <1>1, <2>1 DEF ClaimStale, TypeOK, WellFormed
    <2>3. step' = "idle" /\ cur' = 0
      BY <1>1 DEF ClaimStale, LoopAt, TypeOK
    <2>4. QED
      BY <1>1, <2>1, <2>2, <2>3 DEF ClaimStale, TypeOK, Group, histVars
  <1>2. ASSUME Read PROVE TypeOK'
    <2>1. /\ approved' \in Group(Orders)
          /\ Unread(approved, ReadCount) \subseteq 1..approved'.cursor
      BY <1>2, XReadGroupGroup, OrdersAssumption DEF Read, TypeOK, Group
    <2>2. batch' \subseteq 1..approved'.cursor
      BY <1>2, <2>1 DEF Read
    <2>3. step' = "idle" /\ cur' = 0
      BY <1>2 DEF Read, LoopAt, TypeOK
    <2>4. QED
      BY <1>2, <2>1, <2>2, <2>3 DEF Read, TypeOK, Group, histVars
  <1>3. QED
    BY <1>1, <1>2

LEMMA HandleTypeOK ==
    ASSUME TypeOK, Handle
    PROVE  TypeOK'
  <1> USE DEF redisVars, histVars
  <1>1. ASSUME NEW i \in batch, Skip(i) PROVE TypeOK'
    BY <1>1, HandlerGoesType DEF Skip, HandlerOK, TypeOK
  <1>2. ASSUME NEW i \in batch, Refuse(i) PROVE TypeOK'
    <2>1. refused' = refused \cup {approved.log[i]}
          /\ faults' \in {faults, faults + 1}
      BY <1>2 DEF Refuse, RedisFails
    <2>2. approved.log[i] \in Orders
      BY EntryIsOrder
    <2>3. refused' \subseteq Orders /\ faults' \in Nat
      BY <2>1, <2>2 DEF TypeOK
    <2>4. QED
      BY <1>2, <2>3, HandlerGoesType DEF Refuse, HandlerOK, TypeOK
  <1>3. ASSUME NEW i \in batch, Accept(i) PROVE TypeOK'
    <2> DEFINE o == approved.log[i]
    <2>1. o \in Orders
      BY EntryIsOrder
    <2>2. registry' \in [Orders -> Order]
      BY <1>3, <2>1, NewOrderType DEF Accept, TypeOK
    <2>3. keys' \subseteq Orders /\ faults' \in Nat
      BY <1>3, <2>1 DEF Accept, RedisFails, TypeOK
    <2>4. HandlerOK' /\ step' # "publish"
      BY <1>3, HandlerGoesType, HandlerFailsType DEF Accept
    <2> HIDE DEF o
    <2>5. QED
      BY <1>3, <2>2, <2>3, <2>4 DEF Accept, HandlerOK, TypeOK
  <1>10. ASSUME NEW i \in batch, CannotBuild(i) PROVE TypeOK'
    BY <1>10, HandlerFailsType DEF CannotBuild, HandlerOK, TypeOK
  <1>4. CASE SendDry
    <2> DEFINE o == approved.log[cur]
               r == [registry[o] EXCEPT !.hasId = TRUE]
    <2>1. cur \in batch /\ o \in Orders
      BY <1>4, EntryIsOrder DEF SendDry, TypeOK
    <2>2. r \in Order
      BY <2>1 DEF TypeOK, Order
    <2>3. AddFill(r, Quantity[o], Quantity[o]) \in Order
      BY <2>1, <2>2, AddFillType, OrdersAssumption
    <2>4. registry' \in [Orders -> Order] /\ registry'[o].status \in Status
      BY <1>4, <2>1, <2>2, <2>3, AddFillType, OrdersAssumption
      DEF SendDry, TypeOK, Status, Live, Terminal
    <2>5. HandlerOK' /\ approved'.log[cur'] = o
      BY <1>4, <2>1, HandlerGoesType DEF SendDry
    <2> HIDE DEF o, r
    <2>6. QED
      BY <1>4, <2>1, <2>4, <2>5 DEF SendDry, HandlerOK, TypeOK
  <1>5. CASE SendUnresolved
    <2>1. cur \in batch
      BY <1>5 DEF SendUnresolved, TypeOK
    <2>2. QED
      BY <1>5, <2>1, HandlerFailsType DEF SendUnresolved, HandlerOK, TypeOK
  <1>6. ASSUME NEW reply \in Replies, SendLive(reply) PROVE TypeOK'
    <2> DEFINE o == approved.log[cur]
    <2>1. cur \in batch /\ o \in Orders
      BY <1>6, EntryIsOrder DEF SendLive, TypeOK
    <2>2. registry' \in [Orders -> Order] /\ registry'[o].status \in Status
      BY <1>6, <2>1, AfterReplyType DEF SendLive, TypeOK
    <2>3. AtBroker(broker[o], reply) \in BrokerOrder
      BY <2>1 DEF AtBroker, BrokerOrder, BrokerStatus, TypeOK
    <2>4. broker' \in [Orders -> BrokerOrder] /\ overshoot' \in Nat
      <3> HIDE DEF o
      <3>1. overshoot \in Nat /\ broker \in [Orders -> BrokerOrder]
        BY DEF TypeOK
      <3>2. \/ broker' = broker /\ overshoot' = overshoot
            \/ /\ broker' = [broker EXCEPT ![o] = AtBroker(@, reply)]
               /\ overshoot' \in {overshoot, overshoot + 1}
        BY <1>6 DEF SendLive, o
      <3>3. CASE broker' = broker /\ overshoot' = overshoot
        BY <3>1, <3>3
      <3>4. CASE /\ broker' = [broker EXCEPT ![o] = AtBroker(@, reply)]
                 /\ overshoot' \in {overshoot, overshoot + 1}
        <4>1. broker' = [broker EXCEPT ![o] = AtBroker(broker[o], reply)]
          BY <3>4
        <4>2. broker' \in [Orders -> BrokerOrder]
          BY <2>3, <3>1, <4>1
        <4>3. QED
          BY <3>1, <3>4, <4>2
      <3>5. QED
        BY <3>2, <3>3, <3>4
    <2>5. HandlerOK' /\ approved'.log[cur'] = o
      BY <1>6, <2>1, HandlerGoesType DEF SendLive
    <2> HIDE DEF o
    <2>6. QED
      BY <1>6, <2>1, <2>2, <2>4, <2>5 DEF SendLive, HandlerOK, TypeOK
  <1>7. CASE Publish
    <2> DEFINE o == approved.log[cur]
    <2>1. cur \in batch /\ o \in Orders /\ registry[o].status \in Status
      BY <1>7, EntryIsOrder DEF Publish, TypeOK
    <2>2. \/ HandlerGoes(cur, "ack") /\ faults' = faults
          \/ HandlerFails(cur) /\ faults' = faults + 1
      BY <1>7 DEF Publish, RedisFails
    <2>3. HandlerOK' /\ step' # "publish"
      BY <1>7, <2>1, <2>2, HandlerGoesType, HandlerFailsType DEF Publish
    <2>4. faults' \in Nat
      BY <2>2 DEF TypeOK
    <2>5. \/ published' = published
          \/ published' = [published EXCEPT ![o] = Append(@, Event(registry[o]))]
      BY <1>7 DEF Publish, Emit
    <2>6. Event(registry[o]) \in Events
      BY <2>1, EventType DEF TypeOK
    <2>7. published \in [Orders -> Seq(Events)]
      BY DEF TypeOK
    <2> HIDE DEF o
    <2>8. published' \in [Orders -> Seq(Events)]
      BY <2>1, <2>5, <2>6, <2>7, AppendType
    <2>9. QED
      BY <1>7, <2>3, <2>4, <2>8 DEF Publish, HandlerOK, TypeOK
  <1>8. CASE DeadLetter
    <2>1. cur \in batch
      BY <1>8 DEF DeadLetter, TypeOK
    <2>2. cur \in Nat
      BY <2>1 DEF TypeOK, GroupOf
    <2>3. QED
      BY <1>8, <2>1, <2>2, HandlerGoesType DEF DeadLetter, HandlerOK, TypeOK
  <1>9. CASE Ack
    <2>1. /\ approved' \in Group(Orders)
          /\ approved'.cursor = approved.cursor
      BY <1>9, XAckGroup DEF Ack, TypeOK, Group
    <2>2. QED
      BY <1>9, <2>1 DEF Ack, HandlerDone, TypeOK, Group
  <1>11. QED
    BY <1>1, <1>2, <1>3, <1>4, <1>5, <1>6, <1>7, <1>8, <1>9, <1>10 DEF Handle

LEMMA PollTypeOK ==
    ASSUME TypeOK, Poll
    PROVE  TypeOK'
  <1> USE DEF redisVars, histVars
  <1>1. CASE NothingToPoll
    BY <1>1 DEF NothingToPoll, LoopAt, TypeOK
  <1>2. CASE PollFails
    BY <1>2 DEF PollFails, LoopAt, TypeOK
  <1>3. ASSUME NEW R \in SUBSET Polled, NEW U \in SUBSET R, PollReport(R, U)
        PROVE  TypeOK'
    <2>1. R \subseteq Orders
      BY DEF Polled, LiveOrders
    <2>2. \A o \in Orders :
             [st |-> IF o \in U THEN broker[o].st ELSE "unknown",
              filled |-> broker[o].filled] \in ReportRow
      BY DEF TypeOK, BrokerOrder, BrokerStatus, ReportRow
    <2>3. NoRow \in ReportRow
      BY DEF NoRow, ReportRow, BrokerStatus
    <2>4. report' \in [Orders -> ReportRow]
      BY <1>3, <2>2, <2>3 DEF PollReport
    <2>5. QED
      BY <1>3, <2>1, <2>4 DEF PollReport, LoopAt, TypeOK
  <1>4. ASSUME NEW o \in Orders, NEW r \in Order, r.status \in Status,
               registry' = [registry EXCEPT ![o] = r], Emit(o, r),
               todo' \subseteq todo, phase \in {"apply", "expire"},
               UNCHANGED <<mode, halted, broker, phase, batch, cur, step, report,
                           approved, keys, lapsed, dead, histVars>>
        PROVE  TypeOK'
    <2>1. registry' \in [Orders -> Order]
      BY <1>4 DEF TypeOK
    <2>2. Event(r) \in Events
      BY <1>4, EventType
    <2>3. published' \in [Orders -> Seq(Events)]
      BY <1>4, <2>2, AppendType DEF Emit, TypeOK
    <2>4. step' # "publish"
      BY <1>4 DEF TypeOK
    <2>5. QED
      BY <1>4, <2>1, <2>3, <2>4 DEF TypeOK
  <1>5. ASSUME NEW o \in Orders, ApplyFill(o) PROVE TypeOK'
    <2> DEFINE r == AddFill(registry[o], NewlyFilled(o), Quantity[o])
    <2>1. NewlyFilled(o) \in Nat
      BY <1>5 DEF ApplyFill, NewlyFilled, TypeOK, ReportRow, Order
    <2>2. registry[o] \in Order /\ Quantity[o] \in Nat \ {0}
      BY OrdersAssumption DEF TypeOK
    <2>3. r \in Order /\ r.status \in Status
      BY <2>1, <2>2, AddFillType DEF Status, Live, Terminal
    <2>4. registry' = [registry EXCEPT ![o] = r] /\ Emit(o, r)
      BY <1>5 DEF ApplyFill
    <2> HIDE DEF r
    <2>5. QED
      BY <1>4, <1>5, <2>3, <2>4 DEF ApplyFill
  <1>6. ASSUME NEW o \in Orders, ApplyEnd(o) PROVE TypeOK'
    <2> DEFINE r == [registry[o] EXCEPT !.status = MappedStatus(report[o].st)]
    <2>0. /\ registry[o] \in Order
          /\ MappedStatus(report[o].st) \in Status
      BY <1>6 DEF ApplyEnd, ReportedEnd, TypeOK, Status, Terminal
    <2>1. r \in Order /\ r.status \in Status
      BY <2>0, TransitionType
    <2>2. registry' = [registry EXCEPT ![o] = r] /\ Emit(o, r)
      BY <1>6 DEF ApplyEnd
    <2> HIDE DEF r
    <2>3. QED
      BY <1>4, <1>6, <2>1, <2>2 DEF ApplyEnd
  <1>7. ASSUME NEW o \in Orders, ApplyNothing(o) PROVE TypeOK'
    BY <1>7 DEF ApplyNothing, TypeOK
  <1>8. ASSUME NEW o \in Orders, ExpireStale(o) PROVE TypeOK'
    <2> DEFINE r == [registry[o] EXCEPT !.status = "EXPIRED"]
    <2>0. registry[o] \in Order /\ "EXPIRED" \in Status
      BY DEF TypeOK, Status, Terminal
    <2>1. r \in Order /\ r.status \in Status
      BY <2>0, TransitionType
    <2>2. registry' = [registry EXCEPT ![o] = r] /\ Emit(o, r)
      BY <1>8 DEF ExpireStale
    <2> HIDE DEF r
    <2>3. QED
      BY <1>4, <1>8, <2>1, <2>2 DEF ExpireStale
  <1>9. CASE AllApplied
    BY <1>9 DEF AllApplied, NoReport, NoRow, ReportRow, BrokerStatus, TypeOK
  <1>10. CASE LoopEnds
    <2>1. registry' \in [Orders -> Order]
      BY <1>10, NewOrderType DEF LoopEnds, TypeOK
    <2>2. step = "idle"
      BY <1>10 DEF LoopEnds, TypeOK
    <2>3. QED
      BY <1>10, <2>1, <2>2 DEF LoopEnds, TypeOK
  <1>11. QED
    BY <1>1, <1>2, <1>3, <1>5, <1>6, <1>7, <1>8, <1>9, <1>10 DEF Poll

LEMMA CrashTypeOK ==
    ASSUME TypeOK, Crash
    PROVE  TypeOK'
  <1>1. registry' \in [Orders -> Order]
    BY NewOrderType DEF Crash
  <1>2. report' \in [Orders -> ReportRow]
    BY DEF Crash, NoReport, NoRow, ReportRow, BrokerStatus
  <1>3. QED
    BY <1>1, <1>2 DEF Crash, TypeOK, redisVars

(* No interleaving of handlers, polls, crashes and failed calls takes the  *)
(* engine out of its domains: the entry a handler works on was delivered   *)
(* and is still in the batch, only registered orders are published.        *)
THEOREM TypeCorrect == Spec => []TypeOK
  <1>1. Init => TypeOK
    BY InitTypeOK
  <1>2. TypeOK /\ [Next]_vars => TypeOK'
    <2> SUFFICES ASSUME TypeOK, [Next]_vars PROVE TypeOK'
      OBVIOUS
    <2>1. CASE Environment
      BY <2>1, EnvironmentTypeOK
    <2>2. CASE Engine
      BY <2>2, LoopTypeOK, HandleTypeOK, PollTypeOK DEF Engine
    <2>3. CASE Crash
      BY <2>3, CrashTypeOK
    <2>4. CASE UNCHANGED vars
      BY <2>4 DEF vars, engineVars, redisVars, histVars, TypeOK
    <2>5. QED
      BY <2>1, <2>2, <2>3, <2>4 DEF Next
  <1>3. QED
    BY <1>1, <1>2, PTL DEF Spec

----------------------------------------------------------------------------
(* At most one placement.  AdmissionInv is inductive: every placed order   *)
(* has a dedupe key or had one until it was settled, and the entry a       *)
(* handler holds is not settled.                                           *)

(* Steps that touch neither the group, nor the keys, nor the handler.      *)
LEMMA AdmissionFrame ==
    ASSUME AdmissionInv,
           UNCHANGED <<approved, keys, lapsed, batch, cur, step>>,
           \A o \in Orders : broker'[o].placed = broker[o].placed,
           TypeOK
    PROVE  AdmissionInv'
  <1>1. \A o \in Orders : EntriesOf(o)' = EntriesOf(o)
    BY DEF EntriesOf
  <1>2. step' = "send" => approved.log[cur] \in Orders
    BY EntryIsOrder DEF TypeOK
  <1>3. QED
    BY <1>1, <1>2 DEF AdmissionInv, TypeOK, Settled

(* Steps of a handler that neither write a key nor send.                   *)
LEMMA AdmissionHandler ==
    ASSUME AdmissionInv, UNCHANGED <<approved, keys, lapsed, broker>>,
           batch' \subseteq batch, step' # "send"
    PROVE  AdmissionInv'
  BY DEF AdmissionInv, EntriesOf, Settled

LEMMA HandlerKeepsBatch ==
    ASSUME NEW i,
           \/ \E s \in {"publish", "ack", "dead"} : HandlerGoes(i, s)
           \/ HandlerFails(i)
    PROVE  batch' \subseteq batch /\ step' # "send"
  BY DEF HandlerFails, HandlerGoes, HandlerDone

LEMMA EnvironmentAdmission ==
    ASSUME KeyOutlivesOrder, TypeOK, AdmissionInv, Environment
    PROVE  AdmissionInv'
  <1> USE DEF engineVars, redisVars, histVars
  <1>1. ASSUME NEW o \in Orders, Approve(o) PROVE AdmissionInv'
    <2>1. /\ approved'.cursor = approved.cursor
          /\ approved'.pending = approved.pending
          /\ Len(approved'.log) = Len(approved.log) + 1
          /\ approved'.log[Len(approved.log) + 1] = o
          /\ \A i \in 1..Len(approved.log) : approved'.log[i] = approved.log[i]
      BY <1>1, XAddGroup DEF Approve, TypeOK, Group
    <2>2. o \notin lapsed
      BY <1>1 DEF Approve
    <2>3. \A p \in Orders \ {o} : EntriesOf(p)' = EntriesOf(p)
      <3>1. Len(approved.log) \in Nat
        BY DEF TypeOK, GroupOf
      <3>2. QED
        BY <2>1, <3>1 DEF EntriesOf
    <2>4. \A p \in lapsed' : \A i \in EntriesOf(p)' : Settled(approved, i)'
      BY <1>1, <2>1, <2>2, <2>3 DEF Approve, AdmissionInv, Settled, TypeOK
    <2>5. step = "send" => approved'.log[cur] = approved.log[cur]
      BY <2>1, EntryIsOrder DEF TypeOK
    <2>6. QED
      BY <1>1, <2>1, <2>4, <2>5 DEF Approve, AdmissionInv
  <1>2. ASSUME NEW o \in Orders, KeyExpires(o) PROVE AdmissionInv'
    <2>1. \A i \in EntriesOf(o) : Settled(approved, i)
      BY <1>2 DEF KeyExpires
    <2>2. \A p \in Orders : EntriesOf(p)' = EntriesOf(p)
      BY <1>2 DEF KeyExpires, EntriesOf
    <2>3. step = "send" => approved.log[cur] # o
      BY <2>1, EntryIsOrder DEF TypeOK, AdmissionInv, EntriesOf, Settled
    <2>4. \A p \in lapsed' : \A i \in EntriesOf(p)' : Settled(approved, i)'
      BY <1>2, <2>1, <2>2 DEF KeyExpires, AdmissionInv, Settled, TypeOK
    <2>5. QED
      BY <1>2, <2>3, <2>4 DEF KeyExpires, AdmissionInv
  <1>3. ASSUME NEW o \in Orders, BrokerFills(o) PROVE AdmissionInv'
    BY <1>3, AdmissionFrame DEF BrokerFills, TypeOK
  <1>4. ASSUME NEW o \in Orders, BrokerEnds(o) PROVE AdmissionInv'
    BY <1>4, AdmissionFrame DEF BrokerEnds, TypeOK
  <1>5. CASE Halt \/ ClearHalt
    BY <1>5, AdmissionFrame DEF Halt, ClearHalt
  <1>6. QED
    BY <1>1, <1>2, <1>3, <1>4, <1>5 DEF Environment

LEMMA LoopAdmission ==
    ASSUME TypeOK, AdmissionInv
    PROVE  /\ \A S \in SUBSET approved.pending : ClaimStale(S) => AdmissionInv'
           /\ Read => AdmissionInv'
  <1>1. ASSUME NEW S \in SUBSET approved.pending, ClaimStale(S)
        PROVE  AdmissionInv'
    <2>1. /\ approved'.log = approved.log /\ approved'.cursor = approved.cursor
          /\ approved'.pending = approved.pending
      BY <1>1, XAutoClaimGroup DEF ClaimStale, TypeOK, Group
    <2>2. step' # "send"
      BY <1>1 DEF ClaimStale, LoopAt, TypeOK
    <2>3. QED
      BY <1>1, <2>1, <2>2 DEF ClaimStale, AdmissionInv, EntriesOf, Settled
  <1>2. ASSUME Read PROVE AdmissionInv'
    <2>1. /\ approved'.log = approved.log /\ approved'.cursor >= approved.cursor
          /\ approved'.pending = approved.pending \cup Unread(approved, ReadCount)
          /\ \A i \in Unread(approved, ReadCount) : i > approved.cursor
          /\ approved'.cursor \in Nat
      <3>1. approved \in Group(Orders) /\ ReadCount \in Nat \ {0}
        BY OrdersAssumption DEF TypeOK, Group
      <3>2. approved' = XReadGroup(approved, ReadCount)
        BY <1>2 DEF Read
      <3>3. approved' \in Group(Orders)
        BY <3>1, <3>2, XReadGroupGroup
      <3>4. QED
        BY <3>1, <3>2, <3>3, XReadGroupGroup DEF Group, GroupOf
    <2>2. step' # "send"
      BY <1>2 DEF Read, LoopAt, TypeOK
    <2>3. \A o \in Orders : EntriesOf(o)' = EntriesOf(o)
      BY <2>1 DEF EntriesOf
    <2>4. ASSUME NEW i \in 1..Len(approved.log), Settled(approved, i)
          PROVE  Settled(approved, i)'
      BY <2>1, <2>4 DEF Settled, TypeOK, GroupOf
    <2>5. \A p \in lapsed' : \A i \in EntriesOf(p)' : Settled(approved, i)'
      <3>1. lapsed' = lapsed /\ lapsed \subseteq Orders
        BY <1>2 DEF Read, TypeOK
      <3>2. \A p \in lapsed : \A i \in EntriesOf(p) : Settled(approved, i)
        BY DEF AdmissionInv
      <3>3. \A p \in Orders : EntriesOf(p) \subseteq 1..Len(approved.log)
        BY DEF EntriesOf
      <3>4. QED
        BY <2>3, <2>4, <3>1, <3>2, <3>3
    <2>6. QED
      BY <1>2, <2>1, <2>2, <2>5 DEF Read, AdmissionInv
  <1>3. QED
    BY <1>1, <1>2

LEMMA HandleAdmission ==
    ASSUME TypeOK, AdmissionInv, Handle
    PROVE  AdmissionInv'
  <1> USE DEF redisVars, histVars
  <1>1. ASSUME NEW i \in batch,
               Skip(i) \/ Refuse(i) \/ CannotBuild(i)
        PROVE  AdmissionInv'
    <2>1. batch' \subseteq batch /\ step' # "send"
      BY <1>1, HandlerKeepsBatch DEF Skip, Refuse, CannotBuild
    <2>2. QED
      BY <1>1, <2>1, AdmissionHandler DEF Skip, Refuse, CannotBuild
  <1>2. ASSUME NEW i \in batch, Accept(i) PROVE AdmissionInv'
    <2> DEFINE o == approved.log[i]
    <2>1. o \in Orders /\ i \in EntriesOf(o)
      BY EntryIsOrder DEF EntriesOf
    <2>2. o \notin keys /\ o \notin lapsed
      BY <1>2, <2>1 DEF Accept, AlreadySent, AdmissionInv, Settled
    <2>3. broker[o].placed = 0
      BY <2>1, <2>2 DEF AdmissionInv
    <2>4. /\ keys \subseteq keys'
          /\ UNCHANGED <<approved, lapsed, broker>>
      BY <1>2 DEF Accept
    <2>5. /\ batch' \subseteq batch
          /\ step' = "send" => cur' = i /\ o \in keys'
      BY <1>2 DEF Accept, HandlerFails, HandlerGoes, HandlerDone
    <2> HIDE DEF o
    <2>6. \A p \in lapsed' : \A j \in EntriesOf(p)' : Settled(approved, j)'
      BY <2>4 DEF AdmissionInv, EntriesOf, Settled
    <2>7. step' = "send" => approved.log[cur'] = o
      BY <2>5 DEF o
    <2>8. QED
      BY <2>3, <2>4, <2>5, <2>6, <2>7 DEF AdmissionInv
  <1>3. CASE SendDry \/ SendUnresolved \/ Publish \/ DeadLetter
    <2>1. batch' \subseteq batch /\ step' # "send"
      BY <1>3, HandlerKeepsBatch
      DEF SendDry, SendUnresolved, Publish, DeadLetter
    <2>2. QED
      BY <1>3, <2>1, AdmissionHandler
      DEF SendDry, SendUnresolved, Publish, DeadLetter
  <1>4. ASSUME NEW reply \in Replies, SendLive(reply) PROVE AdmissionInv'
    <2> DEFINE o == approved.log[cur]
    <2>1. o \in Orders /\ o \in keys /\ broker[o].placed = 0
      BY <1>4, EntryIsOrder DEF SendLive, TypeOK, AdmissionInv
    <2>2. \/ broker' = broker
          \/ broker' = [broker EXCEPT ![o] = AtBroker(broker[o], reply)]
      BY <1>4 DEF SendLive
    <2>3. AtBroker(broker[o], reply).placed = 1
      BY <2>1 DEF AtBroker
    <2>4. /\ batch' \subseteq batch /\ step' # "send"
          /\ UNCHANGED <<approved, keys, lapsed>>
      BY <1>4, HandlerKeepsBatch DEF SendLive
    <2>5. broker \in [Orders -> BrokerOrder]
      BY DEF TypeOK
    <2> HIDE DEF o
    <2>6. \A p \in Orders : \/ broker'[p].placed = 0
                            \/ broker'[p].placed = 1 /\ p \in keys \cup lapsed
      <3>1. \A p \in Orders : \/ broker'[p] = broker[p]
                              \/ p = o /\ broker'[p] = AtBroker(broker[o], reply)
        BY <2>1, <2>2, <2>5
      <3>2. \A p \in Orders : \/ broker[p].placed = 0
                              \/ broker[p].placed = 1 /\ p \in keys \cup lapsed
        BY DEF AdmissionInv
      <3>3. QED
        BY <2>1, <2>3, <3>1, <3>2
    <2>7. \A p \in lapsed' : \A j \in EntriesOf(p)' : Settled(approved, j)'
      BY <2>4 DEF AdmissionInv, EntriesOf, Settled
    <2>8. QED
      BY <2>4, <2>6, <2>7 DEF AdmissionInv
  <1>5. CASE Ack
    <2>1. /\ approved'.log = approved.log /\ approved'.cursor = approved.cursor
          /\ approved'.pending = approved.pending \ {cur}
          /\ batch' = batch \ {cur} /\ step' # "send"
          /\ UNCHANGED <<keys, lapsed, broker>>
      BY <1>5, XAckGroup DEF Ack, HandlerDone, TypeOK, Group
    <2>2. QED
      BY <2>1 DEF AdmissionInv, EntriesOf, Settled
  <1>6. QED
    BY <1>1, <1>2, <1>3, <1>4, <1>5 DEF Handle

LEMMA PollAdmission ==
    ASSUME TypeOK, AdmissionInv, Poll
    PROVE  AdmissionInv'
  <1>1. UNCHANGED <<approved, keys, lapsed, batch, cur, step, broker>>
    BY DEF Poll, NothingToPoll, PollFails, PollReport, ApplyFill, ApplyEnd,
           ApplyNothing, ExpireStale, AllApplied, LoopEnds, redisVars
  <1>2. QED
    BY <1>1, AdmissionFrame

(* AdmissionInv is inductive as long as a dedupe key outlives the          *)
(* deliveries of its order.                                                *)
LEMMA AdmissionInvariant ==
    ASSUME KeyOutlivesOrder
    PROVE  Spec => []AdmissionInv
  <1>1. Init => AdmissionInv
    BY DEF Init, AdmissionInv
  <1>2. TypeOK /\ AdmissionInv /\ [Next]_vars => AdmissionInv'
    <2> SUFFICES ASSUME TypeOK, AdmissionInv, [Next]_vars PROVE AdmissionInv'
      OBVIOUS
    <2>1. CASE Environment
      BY <2>1, EnvironmentAdmission
    <2>2. CASE Engine
      BY <2>2, LoopAdmission, HandleAdmission, PollAdmission DEF Engine
    <2>3. CASE Crash
      BY <2>3 DEF Crash, AdmissionInv, EntriesOf, Settled, redisVars
    <2>4. CASE UNCHANGED vars
      BY <2>4, AdmissionFrame DEF vars, engineVars, redisVars
    <2>5. QED
      BY <2>1, <2>2, <2>3, <2>4 DEF Next
  <1>3. QED
    BY <1>1, <1>2, TypeCorrect, PTL DEF Spec

(* Whatever is redelivered, approved twice, interrupted by a crash or half *)
(* written, no order is at the broker twice, as long as a dedupe key       *)
(* outlives the deliveries of its order.                                   *)
THEOREM AtMostOnce ==
    ASSUME KeyOutlivesOrder
    PROVE  Spec => []AtMostOncePlacement
  <1>1. TypeOK /\ AdmissionInv => AtMostOncePlacement
    BY DEF TypeOK, AdmissionInv, AtMostOncePlacement, BrokerOrder
  <1>2. QED
    BY <1>1, AdmissionInvariant, TypeCorrect, PTL

----------------------------------------------------------------------------
(* The kill switch.  The one open a halt lets through was at the send when *)
(* the halt was engaged: once it has gone, no other gets there.            *)

HaltInv ==
    /\ overshoot <= 1
    /\ overshoot = 1 => ~(step = "send" /\ HaltRefuses(approved.log[cur]))

(* A halt engaged at any moment stops all but the one opening order whose  *)
(* handler has already passed the kill-switch check, for any batch size.   *)
THEOREM HaltIsPrompt == Spec => []HaltLetsAtMostOneOpenThrough
  <1> USE DEF engineVars, redisVars, histVars
  <1>1. Init => HaltInv
    BY DEF Init, HaltInv
  <1>2. TypeOK /\ HaltInv /\ [Next]_vars => HaltInv'
    <2> SUFFICES ASSUME TypeOK, HaltInv, [Next]_vars PROVE HaltInv'
      OBVIOUS
    <2>0. ASSUME overshoot' = overshoot, step' # "send" PROVE HaltInv'
      BY <2>0 DEF HaltInv
    <2>1. CASE Environment
      <3>1. ASSUME NEW o \in Orders, Approve(o) PROVE HaltInv'
        <4>1. \A i \in 1..Len(approved.log) : approved'.log[i] = approved.log[i]
          BY <3>1, XAddGroup DEF Approve, TypeOK, Group
        <4>2. step = "send" => approved'.log[cur] = approved.log[cur]
          BY <4>1, EntryIsOrder DEF TypeOK
        <4>3. QED
          BY <3>1, <4>2 DEF Approve, HaltInv, HaltRefuses
      <3>2. ASSUME NEW o \in Orders,
                   KeyExpires(o) \/ BrokerFills(o) \/ BrokerEnds(o)
            PROVE  HaltInv'
        BY <3>2 DEF KeyExpires, BrokerFills, BrokerEnds, HaltInv, HaltRefuses
      <3>3. CASE Halt
        BY <3>3 DEF Halt, HaltInv
      <3>4. CASE ClearHalt
        BY <3>4 DEF ClearHalt, HaltInv, HaltRefuses
      <3>5. QED
        BY <2>1, <3>1, <3>2, <3>3, <3>4 DEF Environment
    <2>2. CASE \E S \in SUBSET approved.pending : ClaimStale(S)
      BY <2>0, <2>2 DEF ClaimStale, LoopAt, TypeOK
    <2>3. CASE Read
      BY <2>0, <2>3 DEF Read, LoopAt, TypeOK
    <2>4. CASE Handle
      <3>1. ASSUME NEW i \in batch, Accept(i) PROVE HaltInv'
        <4>1. overshoot' = overshoot /\ UNCHANGED <<approved, halted>>
              /\ ~HaltRefuses(approved.log[i])
          BY <3>1 DEF Accept
        <4>2. step' = "send" => cur' = i
          BY <3>1 DEF Accept, HandlerFails, HandlerGoes, HandlerDone
        <4>3. QED
          BY <4>1, <4>2 DEF HaltInv, HaltRefuses
      <3>2. ASSUME NEW reply \in Replies, SendLive(reply) PROVE HaltInv'
        <4>1. step = "send" /\ step' # "send"
          BY <3>2 DEF SendLive, HandlerGoes
        <4>2. \/ overshoot' = overshoot
              \/ /\ HaltRefuses(approved.log[cur])
                 /\ overshoot' = overshoot + 1
          BY <3>2 DEF SendLive, HaltRefuses
        <4>3. QED
          BY <4>1, <4>2 DEF HaltInv, TypeOK
      <3>3. ASSUME NEW i \in batch, Skip(i) \/ Refuse(i) \/ CannotBuild(i)
            PROVE  HaltInv'
        BY <2>0, <3>3, HandlerKeepsBatch DEF Skip, Refuse, CannotBuild
      <3>4. CASE SendDry \/ SendUnresolved \/ Publish \/ DeadLetter
        BY <2>0, <3>4, HandlerKeepsBatch
        DEF SendDry, SendUnresolved, Publish, DeadLetter
      <3>5. CASE Ack
        BY <2>0, <3>5 DEF Ack, HandlerDone
      <3>6. QED
        BY <2>4, <3>1, <3>2, <3>3, <3>4, <3>5 DEF Handle
    <2>5. CASE Poll
      <3>1. UNCHANGED <<approved, halted, cur, step, overshoot>>
        BY <2>5 DEF Poll, NothingToPoll, PollFails, PollReport, ApplyFill,
                    ApplyEnd, ApplyNothing, ExpireStale, AllApplied, LoopEnds
      <3>2. QED
        BY <3>1 DEF HaltInv, HaltRefuses
    <2>6. CASE Crash
      BY <2>0, <2>6 DEF Crash
    <2>7. CASE UNCHANGED vars
      BY <2>7 DEF vars, HaltInv, HaltRefuses
    <2>8. QED
      BY <2>1, <2>2, <2>3, <2>4, <2>5, <2>6, <2>7 DEF Next, Engine
  <1>3. HaltInv => HaltLetsAtMostOneOpenThrough
    BY DEF HaltInv, HaltLetsAtMostOneOpenThrough
  <1>4. QED
    BY <1>1, <1>2, <1>3, TypeCorrect, PTL DEF Spec

----------------------------------------------------------------------------
(* Dead letters.  An entry about to be dead-lettered has used its          *)
(* deliveries up, and deliveries are never taken back.                     *)

DeadInv ==
    /\ dead \subseteq 1..Len(approved.log)
    /\ \A i \in dead : approved.times[i] >= MaxDeliveries
    /\ step = "dead" => approved.times[cur] >= MaxDeliveries

(* Steps that take no delivery back and dead-letter nothing.               *)
LEMMA DeadFrame ==
    ASSUME TypeOK, DeadInv, dead' = dead, approved' \in Group(Orders),
           Len(approved'.log) >= Len(approved.log),
           \A i \in 1..Len(approved.log) : approved'.times[i] >= approved.times[i],
           step' = "dead" => \/ step = "dead" /\ cur' = cur
                            \/ approved'.times[cur'] >= MaxDeliveries
    PROVE  DeadInv'
  <1>1. /\ Len(approved.log) \in Nat /\ Len(approved'.log) \in Nat
        /\ \A i \in 1..Len(approved.log) : /\ approved.times[i] \in Nat
                                           /\ approved'.times[i] \in Nat
    <2>1. approved \in Group(Orders)
      BY DEF TypeOK, Group
    <2>2. Len(approved.log) \in Nat /\ Len(approved'.log) \in Nat
      BY <2>1, GroupTimes
    <2>3. 1..Len(approved.log) \subseteq 1..Len(approved'.log)
      BY <2>2
    <2>4. QED
      BY <2>1, <2>2, <2>3, GroupTimes
  <1>2. step = "dead" => cur \in 1..Len(approved.log)
    BY EntryIsOrder DEF TypeOK
  <1>3. \A i \in dead : approved'.times[i] >= MaxDeliveries
    BY <1>1, MaxDeliveriesAssumption DEF DeadInv
  <1>4. step' = "dead" => approved'.times[cur'] >= MaxDeliveries
    BY <1>1, <1>2, MaxDeliveriesAssumption DEF DeadInv
  <1>5. dead' \subseteq 1..Len(approved'.log)
    BY <1>1 DEF DeadInv
  <1>6. QED
    BY <1>3, <1>4, <1>5 DEF DeadInv

(* An order is given up for dead only after it was handed to the handler   *)
(* MaxDeliveries times, by whichever instances of the process.             *)
THEOREM DeadLettersHadTheirChances == Spec => []OnlyPoisonIsDeadLettered
  <1> USE DEF engineVars, redisVars, histVars
  <1>1. Init => DeadInv
    BY DEF Init, DeadInv
  <1>2. TypeOK /\ DeadInv /\ [Next]_vars => DeadInv'
    <2> SUFFICES ASSUME TypeOK, DeadInv, [Next]_vars PROVE DeadInv'
      OBVIOUS
    <2>0. approved \in Group(Orders) /\ Len(approved.log) \in Nat
      BY DEF TypeOK, Group, GroupOf
    <2>1. ASSUME approved' = approved, dead' = dead,
                 step' = "dead" => \/ step = "dead" /\ cur' = cur
                                  \/ IsPoison(approved, cur')
          PROVE  DeadInv'
      <3>1. \A i \in 1..Len(approved.log) : approved.times[i] \in Nat
        BY DEF TypeOK, GroupOf, WellFormed
      <3>2. QED
        BY <2>0, <2>1, <3>1, DeadFrame DEF IsPoison
    <2>2. CASE Environment
      <3>1. ASSUME NEW o \in Orders, Approve(o) PROVE DeadInv'
        <4>1. /\ approved' \in Group(Orders)
              /\ Len(approved'.log) = Len(approved.log) + 1
              /\ \A i \in 1..Len(approved.log) :
                    approved'.times[i] = approved.times[i]
          BY <2>0, <3>1, XAddGroup DEF Approve
        <4>2. \A i \in 1..Len(approved.log) : approved.times[i] \in Nat
          BY DEF TypeOK, GroupOf, WellFormed
        <4>3. dead' = dead /\ step' = step /\ cur' = cur
          BY <3>1 DEF Approve
        <4>4. QED
          BY <2>0, <4>1, <4>2, <4>3, DeadFrame
      <3>2. CASE UNCHANGED <<approved, dead, step, cur>>
        BY <2>1, <3>2
      <3>3. QED
        BY <2>2, <3>1, <3>2
        DEF Environment, KeyExpires, BrokerFills, BrokerEnds, Halt, ClearHalt
    <2>3. ASSUME NEW S \in SUBSET approved.pending, ClaimStale(S) PROVE DeadInv'
      <3>1. /\ approved' \in Group(Orders) /\ approved'.log = approved.log
            /\ \A i \in 1..Len(approved.log) :
                  approved'.times[i] >= approved.times[i]
        BY <2>0, <2>3, XAutoClaimGroup DEF ClaimStale
      <3>2. dead' = dead /\ step' = "idle"
        BY <2>3 DEF ClaimStale, LoopAt, TypeOK
      <3>3. QED
        BY <2>0, <3>1, <3>2, DeadFrame
    <2>4. CASE Read
      <3>1. /\ approved' \in Group(Orders) /\ approved'.log = approved.log
            /\ \A i \in 1..Len(approved.log) :
                  approved'.times[i] >= approved.times[i]
        BY <2>0, <2>4, XReadGroupGroup, OrdersAssumption DEF Read
      <3>2. dead' = dead /\ step' = "idle"
        BY <2>4 DEF Read, LoopAt, TypeOK
      <3>3. QED
        BY <2>0, <3>1, <3>2, DeadFrame
    <2>5. CASE Handle
      <3>1. ASSUME NEW i \in batch,
                   Skip(i) \/ Refuse(i) \/ CannotBuild(i) \/ Accept(i)
            PROVE  DeadInv'
        BY <2>1, <3>1 DEF Skip, Refuse, CannotBuild, Accept, HandlerFails,
                          HandlerGoes, HandlerDone
      <3>2. CASE SendDry \/ SendUnresolved \/ Publish
        BY <2>1, <3>2 DEF SendDry, SendUnresolved, Publish, HandlerFails,
                          HandlerGoes, HandlerDone
      <3>3. ASSUME NEW reply \in Replies, SendLive(reply) PROVE DeadInv'
        BY <2>1, <3>3 DEF SendLive, HandlerGoes
      <3>4. CASE DeadLetter
        <4>1. cur \in 1..Len(approved.log)
          BY <3>4, EntryIsOrder DEF DeadLetter, TypeOK
        <4>2. QED
          BY <3>4, <4>1 DEF DeadLetter, HandlerGoes, DeadInv
      <3>5. CASE Ack
        <4>1. /\ approved' \in Group(Orders) /\ approved'.log = approved.log
              /\ approved'.times = approved.times
          BY <2>0, <3>5, XAckGroup DEF Ack
        <4>2. dead' = dead /\ step' = "idle"
          BY <3>5 DEF Ack, HandlerDone
        <4>3. \A i \in 1..Len(approved.log) : approved.times[i] \in Nat
          BY DEF TypeOK, GroupOf, WellFormed
        <4>4. QED
          BY <2>0, <4>1, <4>2, <4>3, DeadFrame
      <3>6. QED
        BY <2>5, <3>1, <3>2, <3>3, <3>4, <3>5 DEF Handle
    <2>6. CASE Poll
      <3>1. UNCHANGED <<approved, dead, step, cur>>
        BY <2>6 DEF Poll, NothingToPoll, PollFails, PollReport, ApplyFill,
                    ApplyEnd, ApplyNothing, ExpireStale, AllApplied, LoopEnds
      <3>2. QED
        BY <2>1, <3>1
    <2>7. CASE Crash \/ UNCHANGED vars
      BY <2>1, <2>7 DEF Crash, vars
    <2>8. QED
      BY <2>2, <2>3, <2>4, <2>5, <2>6, <2>7 DEF Next, Engine
  <1>3. DeadInv => OnlyPoisonIsDeadLettered
    BY DEF DeadInv, OnlyPoisonIsDeadLettered
  <1>4. QED
    BY <1>1, <1>2, <1>3, TypeCorrect, PTL DEF Spec

----------------------------------------------------------------------------
(* What a fault costs.  An order is on record once something is published  *)
(* of it, a halt refused it or one of its entries is dead-lettered; it is  *)
(* under way between its dedupe key and its first event.  An order with a  *)
(* dedupe key that is neither is lost: its key keeps it from being tried   *)
(* again.                                                                  *)

OnRecord(o) ==
    published[o] # <<>> \/ o \in refused \/ EntriesOf(o) \cap dead # {}

Underway(o) == step \in {"send", "publish"} /\ approved.log[cur] = o

(* Its entry is about to be acknowledged.                                  *)
Leaving(o) == step = "ack" /\ approved.log[cur] = o

Lost == {o \in Orders : o \in keys \cup lapsed /\ ~OnRecord(o) /\ ~Underway(o)}

LossInv ==
    /\ IsFiniteSet(Lost) /\ Cardinality(Lost) <= faults
    /\ SilentlyDropped \subseteq Lost
    /\ \A o \in Orders : Leaving(o) => o \in keys \cup lapsed \/ OnRecord(o)


(* A step with which at most one order is lost, and that only by a fault.  *)
LEMMA LossCount ==
    ASSUME TypeOK, LossInv, NEW x,
           \/ Lost' \subseteq Lost /\ faults' \in {faults, faults + 1}
           \/ Lost' \subseteq Lost \cup {x} /\ faults' = faults + 1
    PROVE  IsFiniteSet(Lost)' /\ (Cardinality(Lost) <= faults)'
  <1>1. /\ IsFiniteSet(Lost) /\ Cardinality(Lost) \in Nat
        /\ Cardinality(Lost) <= faults /\ faults \in Nat
    BY FS_CardinalityType DEF LossInv, TypeOK
  <1>2. /\ IsFiniteSet(Lost \cup {x})
        /\ Cardinality(Lost \cup {x}) \in {Cardinality(Lost), Cardinality(Lost) + 1}
    BY <1>1, FS_AddElement
  <1>3. CASE Lost' \subseteq Lost /\ faults' \in {faults, faults + 1}
    <2>1. IsFiniteSet(Lost') /\ Cardinality(Lost') <= Cardinality(Lost)
      BY <1>1, <1>3, FS_Subset
    <2>2. Cardinality(Lost') \in Nat
      BY <2>1, FS_CardinalityType
    <2>3. QED
      BY <1>1, <1>3, <2>1, <2>2
  <1>4. CASE Lost' \subseteq Lost \cup {x} /\ faults' = faults + 1
    <2>1. /\ IsFiniteSet(Lost')
          /\ Cardinality(Lost') <= Cardinality(Lost \cup {x})
      BY <1>2, <1>4, FS_Subset
    <2>2. Cardinality(Lost') \in Nat
      BY <2>1, FS_CardinalityType
    <2>3. QED
      BY <1>1, <1>2, <1>4, <2>1, <2>2
  <1>5. QED
    BY <1>3, <1>4

(* A step that settles no entry and writes no key: what is on record stays *)
(* on record, and what is no longer under way is on record.                *)
LEMMA LossKept ==
    ASSUME TypeOK, LossInv,
           keys' \cup lapsed' = keys \cup lapsed,
           faults' \in {faults, faults + 1},
           \A p \in Orders : OnRecord(p) => OnRecord(p)',
           \A p \in Orders : Underway(p) => Underway(p)' \/ OnRecord(p)',
           \A p \in Orders : Underway(p)' => Underway(p),
           \A p \in Orders : p \in SilentlyDropped' => p \in SilentlyDropped,
           \A p \in Orders :
              Leaving(p)' => Leaving(p) \/ p \in keys \cup lapsed \/ OnRecord(p)'
    PROVE  LossInv'
  <1>1. \A p \in Lost' : p \in Lost
    BY DEF Lost
  <1>2. IsFiniteSet(Lost)' /\ (Cardinality(Lost) <= faults)'
    BY <1>1, LossCount
  <1>3. \A p \in SilentlyDropped' : p \in Lost'
    <2>1. ASSUME NEW p \in SilentlyDropped' PROVE p \in Lost'
      <3>1. p \in Orders /\ p \in SilentlyDropped /\ p \in Lost
        BY <2>1 DEF SilentlyDropped, LossInv
      <3>2. p \in keys' \cup lapsed' /\ ~Underway(p)'
        BY <3>1 DEF Lost
      <3>3. ~OnRecord(p)'
        BY <2>1 DEF SilentlyDropped, OnRecord
      <3>4. QED
        BY <3>1, <3>2, <3>3 DEF Lost
    <2>2. QED
      BY <2>1
  <1>4. \A p \in Orders :
           Leaving(p)' => p \in keys' \cup lapsed' \/ OnRecord(p)'
    BY DEF LossInv
  <1>5. QED
    BY <1>2, <1>3, <1>4 DEF LossInv

(* What a step that leaves the group alone keeps.                          *)
LEMMA RecordKept ==
    ASSUME approved' = approved, dead \subseteq dead', refused \subseteq refused',
           \A p \in Orders : published[p] # <<>> => published'[p] # <<>>
    PROVE  /\ \A p \in Orders : OnRecord(p) => OnRecord(p)'
           /\ \A p \in Orders : p \in SilentlyDropped' => p \in SilentlyDropped
  <1>1. \A p \in Orders : EntriesOf(p)' = EntriesOf(p)
    BY DEF EntriesOf
  <1>2. QED
    BY <1>1 DEF OnRecord, SilentlyDropped, Settled

LEMMA EmitRecords ==
    ASSUME TypeOK, NEW o \in Orders, NEW r, Emit(o, r)
    PROVE  /\ published'[o] # <<>>
           /\ \A p \in Orders : published[p] # <<>> => published'[p] # <<>>
  <1>1. published \in [Orders -> Seq(Events)]
    BY DEF TypeOK
  <1>2. Append(published[o], Event(r)) # <<>>
    BY <1>1
  <1>3. QED
    BY <1>1, <1>2 DEF Emit

LEMMA EnvironmentLoss ==
    ASSUME TypeOK, LossInv, Environment
    PROVE  LossInv'
  <1> USE DEF engineVars, redisVars, histVars
  <1>1. ASSUME NEW o \in Orders, Approve(o) PROVE LossInv'
    <2>1. /\ approved'.cursor = approved.cursor
          /\ approved'.pending = approved.pending
          /\ Len(approved'.log) = Len(approved.log) + 1
          /\ \A i \in 1..Len(approved.log) : approved'.log[i] = approved.log[i]
      BY <1>1, XAddGroup DEF Approve, TypeOK, Group
    <2>2. /\ Len(approved.log) \in Nat /\ approved.cursor \in Nat
          /\ approved.cursor <= Len(approved.log)
      BY DEF TypeOK, GroupOf, WellFormed
    <2>3. \A p \in Orders : /\ EntriesOf(p) \subseteq EntriesOf(p)'
                            /\ \A i \in EntriesOf(p)' \ EntriesOf(p) :
                                  i > approved.cursor
      BY <2>1, <2>2 DEF EntriesOf
    <2>4. \A p \in Orders : OnRecord(p) => OnRecord(p)'
      BY <1>1, <2>3 DEF Approve, OnRecord
    <2>5. ASSUME NEW p \in Orders, p \in SilentlyDropped'
          PROVE  p \in SilentlyDropped
      <3>1. PICK i \in EntriesOf(p)' : Settled(approved, i)'
        BY <2>5 DEF SilentlyDropped
      <3>2. i \in EntriesOf(p) /\ Settled(approved, i)
        <4>1. i \in Nat /\ i <= approved.cursor /\ i \notin approved.pending
          BY <2>1, <2>2, <3>1 DEF Settled, EntriesOf
        <4>2. i \in EntriesOf(p)
          BY <2>2, <2>3, <3>1, <4>1
        <4>3. QED
          BY <4>1, <4>2 DEF Settled
      <3>3. QED
        BY <1>1, <2>3, <2>5, <3>2 DEF Approve, SilentlyDropped
    <2>6. step # "idle" => approved'.log[cur] = approved.log[cur]
      BY <2>1, EntryIsOrder DEF TypeOK
    <2>7. \A p \in Orders : /\ Underway(p)' <=> Underway(p)
                            /\ Leaving(p)' <=> Leaving(p)
      BY <1>1, <2>6 DEF Approve, Underway, Leaving
    <2>8. keys' \cup lapsed' = keys \cup lapsed /\ faults' = faults
      BY <1>1 DEF Approve
    <2>9. QED
      BY <2>4, <2>5, <2>7, <2>8, LossKept
  <1>2. ASSUME UNCHANGED <<approved, dead, refused, published, faults, step, cur>>,
               keys' \cup lapsed' = keys \cup lapsed
        PROVE  LossInv'
    <2>1. /\ \A p \in Orders : OnRecord(p) => OnRecord(p)'
          /\ \A p \in Orders : p \in SilentlyDropped' => p \in SilentlyDropped
      BY <1>2, RecordKept
    <2>2. \A p \in Orders : /\ Underway(p)' <=> Underway(p)
                            /\ Leaving(p)' <=> Leaving(p)
      BY <1>2 DEF Underway, Leaving
    <2>3. QED
      BY <1>2, <2>1, <2>2, LossKept
  <1>3. ASSUME NEW o \in Orders, KeyExpires(o) PROVE LossInv'
    BY <1>2, <1>3 DEF KeyExpires
  <1>4. ASSUME NEW o \in Orders, BrokerFills(o) \/ BrokerEnds(o) PROVE LossInv'
    BY <1>2, <1>4 DEF BrokerFills, BrokerEnds
  <1>5. CASE Halt \/ ClearHalt
    BY <1>2, <1>5 DEF Halt, ClearHalt
  <1>6. QED
    BY <1>1, <1>3, <1>4, <1>5 DEF Environment


(* A handler step that leaves the group alone: o is the order it handles.  *)
LEMMA HandlerLoss ==
    ASSUME TypeOK, LossInv, NEW o \in Orders,
           UNCHANGED <<approved, keys, lapsed>>, faults' \in {faults, faults + 1},
           dead \subseteq dead', refused \subseteq refused',
           \A p \in Orders : published[p] # <<>> => published'[p] # <<>>,
           step \in {"send", "publish"} => approved.log[cur] = o,
           step' \in {"send", "publish"} =>
              step \in {"send", "publish"} /\ approved.log[cur'] = o,
           step' = "ack" =>
              approved.log[cur'] = o /\ (o \in keys \/ OnRecord(o)'),
           step \in {"send", "publish"} =>
              step' \in {"send", "publish"} \/ OnRecord(o)'
    PROVE  LossInv'
  <1>1. /\ \A p \in Orders : OnRecord(p) => OnRecord(p)'
        /\ \A p \in Orders : p \in SilentlyDropped' => p \in SilentlyDropped
    BY RecordKept
  <1>2. \A p \in Orders : /\ Underway(p) => Underway(p)' \/ OnRecord(p)'
                          /\ Underway(p)' => Underway(p)
    BY DEF Underway
  <1>3. \A p \in Orders :
           Leaving(p)' => p \in keys \cup lapsed \/ OnRecord(p)'
    BY DEF Leaving
  <1>4. QED
    BY <1>1, <1>2, <1>3, LossKept

LEMMA LoopLoss ==
    ASSUME TypeOK, LossInv
    PROVE  /\ \A S \in SUBSET approved.pending : ClaimStale(S) => LossInv'
           /\ Read => LossInv'
  <1>1. ASSUME approved'.log = approved.log,
               \A i \in 1..Len(approved.log) :
                  Settled(approved, i)' => Settled(approved, i),
               UNCHANGED <<keys, lapsed, published, dead, refused, faults>>,
               step = "idle", step' = "idle"
        PROVE  LossInv'
    <2>1. \A p \in Orders : /\ EntriesOf(p)' = EntriesOf(p)
                            /\ EntriesOf(p) \subseteq 1..Len(approved.log)
      BY <1>1 DEF EntriesOf
    <2>2. \A p \in Orders : OnRecord(p) => OnRecord(p)'
      BY <1>1, <2>1 DEF OnRecord
    <2>3. ASSUME NEW p \in Orders, p \in SilentlyDropped'
          PROVE  p \in SilentlyDropped
      <3>1. PICK i \in EntriesOf(p)' : Settled(approved, i)'
        BY <2>3 DEF SilentlyDropped
      <3>2. i \in EntriesOf(p) /\ Settled(approved, i)
        BY <1>1, <2>1, <3>1
      <3>3. QED
        BY <1>1, <2>1, <2>3, <3>2 DEF SilentlyDropped
    <2>4. \A p \in Orders : ~Underway(p) /\ ~Underway(p)' /\ ~Leaving(p)'
      BY <1>1 DEF Underway, Leaving
    <2>5. QED
      BY <1>1, <2>2, <2>3, <2>4, LossKept
  <1>2. ASSUME NEW S \in SUBSET approved.pending, ClaimStale(S)
        PROVE  LossInv'
    <2>1. /\ approved'.log = approved.log /\ approved'.cursor = approved.cursor
          /\ approved'.pending = approved.pending
      BY <1>2, XAutoClaimGroup DEF ClaimStale, TypeOK, Group
    <2>2. step = "idle" /\ step' = "idle"
      BY <1>2 DEF ClaimStale, LoopAt, TypeOK, GroupOf
    <2>3. QED
      BY <1>1, <1>2, <2>1, <2>2 DEF ClaimStale, Settled, histVars
  <1>3. ASSUME Read PROVE LossInv'
    <2>1. approved \in Group(Orders) /\ ReadCount \in Nat \ {0}
      BY OrdersAssumption DEF TypeOK, Group
    <2>2. approved' = XReadGroup(approved, ReadCount)
      BY <1>3 DEF Read
    <2>3. approved'.log = approved.log
      BY <2>1, <2>2, XReadGroupGroup
    <2>4. \A i \in 1..Len(approved.log) :
             Settled(approved', i) => Settled(approved, i)
      BY <2>1, <2>2, XReadGroupSettlesNothing
    <2>5. step = "idle" /\ step' = "idle"
      BY <1>3 DEF Read, LoopAt, TypeOK, GroupOf
    <2>6. QED
      BY <1>1, <1>3, <2>3, <2>4, <2>5 DEF Read, Settled, histVars
  <1>4. QED
    BY <1>2, <1>3


(* An order that may become lost in this step, by the fault that makes it. *)
LEMMA FaultLoss ==
    ASSUME TypeOK, LossInv, NEW o \in Orders, o \notin SilentlyDropped,
           UNCHANGED <<approved, lapsed, published, dead, refused>>,
           keys' \in {keys, keys \cup {o}}, faults' = faults + 1,
           \A p \in Orders : Underway(p) => p = o,
           step' \notin {"send", "publish", "ack"}
    PROVE  LossInv'
  <1>1. \A p \in Orders : EntriesOf(p)' = EntriesOf(p)
    BY DEF EntriesOf
  <1>2. \A p \in Orders : /\ OnRecord(p)' <=> OnRecord(p)
                          /\ p \in SilentlyDropped' <=> p \in SilentlyDropped
                          /\ ~Underway(p)' /\ ~Leaving(p)'
    BY <1>1 DEF OnRecord, SilentlyDropped, Settled, Underway, Leaving
  <1>3. \A p \in Lost' : p \in Lost \cup {o}
    BY <1>2 DEF Lost
  <1>4. IsFiniteSet(Lost)' /\ (Cardinality(Lost) <= faults)'
    BY <1>3, LossCount
  <1>5. \A p \in SilentlyDropped' : p \in Lost'
    <2>1. \A p \in SilentlyDropped' : p \in Orders /\ p \in Lost
      BY <1>2 DEF SilentlyDropped, LossInv
    <2>2. QED
      BY <1>2, <2>1 DEF Lost
  <1>6. QED
    BY <1>2, <1>4, <1>5 DEF LossInv

(* An order still in the batch has an entry that is not settled.           *)
LEMMA UnsentIsNotDropped ==
    ASSUME TypeOK, AdmissionInv, LossInv, NEW i \in batch,
           ~AlreadySent(approved.log[i])
    PROVE  approved.log[i] \notin SilentlyDropped /\ approved.log[i] \notin lapsed
  <1>1. approved.log[i] \in Orders /\ i \in EntriesOf(approved.log[i])
    BY EntryIsOrder DEF EntriesOf
  <1>2. approved.log[i] \notin lapsed
    BY <1>1 DEF AdmissionInv, Settled
  <1>3. approved.log[i] \notin Lost
    BY <1>2 DEF Lost, AlreadySent
  <1>4. QED
    BY <1>2, <1>3 DEF LossInv

LEMMA HandleLoss ==
    ASSUME Unresolvable = {}, TypeOK, AdmissionInv, LossInv, Handle
    PROVE  LossInv'
  <1> USE DEF redisVars, histVars
  <1>1. ASSUME NEW i \in batch, Skip(i) \/ Refuse(i) \/ CannotBuild(i) \/ Accept(i)
        PROVE  LossInv'
    <2>1. PICK o \in Orders : o = approved.log[i]
      BY EntryIsOrder
    <2>2. step = "idle"
      BY <1>1 DEF Skip, Refuse, CannotBuild, Accept, IsNext, TypeOK, GroupOf
    <2>3. CASE Skip(i)
      BY <2>1, <2>2, <2>3, HandlerLoss DEF Skip, HandlerGoes, AlreadySent, TypeOK
    <2>4. CASE Refuse(i)
      <3>1. /\ refused' = refused \cup {o} /\ step' = "ack" /\ cur' = i
            /\ faults' \in {faults, faults + 1}
        BY <2>1, <2>4 DEF Refuse, HandlerGoes, RedisFails
      <3>2. OnRecord(o)'
        BY <3>1 DEF OnRecord
      <3>3. QED
        BY <2>1, <2>2, <2>4, <3>1, <3>2, HandlerLoss DEF Refuse
    <2>5. CASE CannotBuild(i)
      <3>1. step' \in {"idle", "dead"} /\ faults' = faults
        BY <2>5 DEF CannotBuild, HandlerFails, HandlerGoes, HandlerDone
      <3>2. QED
        BY <2>1, <2>2, <2>5, <3>1, HandlerLoss DEF CannotBuild
    <2>6. CASE Accept(i)
      <3>1. o \notin SilentlyDropped /\ o \notin lapsed /\ o \notin keys
        BY <2>1, <2>6, UnsentIsNotDropped DEF Accept, AlreadySent
      <3>2. UNCHANGED <<approved, lapsed, published, dead, refused>>
        BY <2>6 DEF Accept
      <3>3. \A p \in Orders : ~Underway(p)
        BY <2>2 DEF Underway
      <3>4. CASE HandlerFails(i) /\ RedisFails /\ keys' \in {keys, keys \cup {o}}
        <4>1. step' \in {"idle", "dead"}
          BY <3>4 DEF HandlerFails, HandlerGoes, HandlerDone
        <4>2. QED
          BY <3>1, <3>2, <3>3, <3>4, <4>1, FaultLoss DEF RedisFails
      <3>5. CASE keys' = keys \cup {o} /\ HandlerGoes(i, "send") /\ faults' = faults
        <4>1. \A p \in Orders : EntriesOf(p)' = EntriesOf(p)
          BY <3>2 DEF EntriesOf
        <4>2. \A p \in Orders : /\ OnRecord(p)' <=> OnRecord(p)
                                /\ p \in SilentlyDropped' <=> p \in SilentlyDropped
          BY <3>2, <4>1 DEF OnRecord, SilentlyDropped, Settled
        <4>3. \A p \in Orders : /\ Underway(p)' <=> p = o
                                /\ ~Leaving(p)'
          BY <2>1, <3>2, <3>5 DEF Underway, Leaving, HandlerGoes
        <4>4. \A p \in Orders : p \in Lost' <=> p \in Lost
          BY <3>1, <3>2, <3>3, <3>5, <4>2, <4>3 DEF Lost
        <4>5. IsFiniteSet(Lost)' /\ (Cardinality(Lost) <= faults)'
          <5>1. Lost' \subseteq Lost
            BY <4>4 DEF Lost
          <5>2. QED
            BY <3>5, <5>1, LossCount
        <4>6. \A p \in SilentlyDropped' : p \in Lost'
          <5>1. \A p \in SilentlyDropped' : p \in Orders /\ p \in Lost
            BY <4>2 DEF SilentlyDropped, LossInv
          <5>2. QED
            BY <4>4, <5>1
        <4>7. QED
          BY <4>3, <4>5, <4>6 DEF LossInv
      <3>6. QED
        BY <2>1, <2>6, <3>4, <3>5 DEF Accept
    <2>7. QED
      BY <1>1, <2>3, <2>4, <2>5, <2>6
  <1>2. ASSUME SendDry \/ (\E reply \in Replies : SendLive(reply)) PROVE LossInv'
    <2>1. step = "send" /\ step' = "publish" /\ cur' = cur
      BY <1>2 DEF SendDry, SendLive, HandlerGoes
    <2>2. PICK o \in Orders : o = approved.log[cur]
      BY <2>1, EntryIsOrder DEF TypeOK
    <2>3. UNCHANGED <<approved, keys, lapsed, published, dead, refused, faults>>
      BY <1>2 DEF SendDry, SendLive
    <2>4. QED
      BY <2>1, <2>2, <2>3, HandlerLoss
  <1>3. CASE SendUnresolved
    BY <1>3 DEF SendUnresolved
  <1>4. CASE Publish
    <2>1. PICK o \in Orders : o = approved.log[cur] /\ cur \in batch
      BY <1>4, EntryIsOrder DEF Publish, TypeOK
    <2>2. /\ UNCHANGED <<approved, keys, lapsed, dead, refused>>
          /\ step = "publish"
      BY <1>4 DEF Publish
    <2>3. CASE Emit(o, registry[o]) /\ faults' \in {faults, faults + 1}
      <3>1. OnRecord(o)' /\ \A p \in Orders : published[p] # <<>> => published'[p] # <<>>
        BY <2>3, EmitRecords DEF OnRecord
      <3>2. \/ step' = "ack" /\ cur' = cur
            \/ step' \in {"idle", "dead"}
        BY <1>4 DEF Publish, HandlerGoes, HandlerFails, HandlerDone
      <3>3. QED
        BY <2>1, <2>2, <2>3, <3>1, <3>2, HandlerLoss
    <2>4. CASE UNCHANGED published /\ HandlerFails(cur) /\ RedisFails
      <3>1. step' \in {"idle", "dead"} /\ faults' = faults + 1
        BY <2>4 DEF HandlerGoes, HandlerFails, HandlerDone, RedisFails
      <3>2. \A p \in Orders : Underway(p) <=> p = o
        BY <2>1, <2>2 DEF Underway
      <3>3. o \notin SilentlyDropped
        BY <3>2 DEF LossInv, Lost
      <3>4. QED
        BY <2>2, <2>4, <3>1, <3>2, <3>3, FaultLoss
    <2>5. QED
      BY <1>4, <2>1, <2>3, <2>4 DEF Publish, RedisFails
  <1>5. CASE DeadLetter
    <2>1. PICK o \in Orders : o = approved.log[cur] /\ cur \in EntriesOf(o)
      BY <1>5, EntryIsOrder DEF DeadLetter, TypeOK, EntriesOf
    <2>2. /\ dead' = dead \cup {cur} /\ step = "dead" /\ step' = "ack" /\ cur' = cur
          /\ UNCHANGED <<approved, keys, lapsed, published, refused, faults>>
      BY <1>5 DEF DeadLetter, HandlerGoes
    <2>3. OnRecord(o)'
      BY <2>1, <2>2 DEF OnRecord, EntriesOf
    <2>4. QED
      BY <2>1, <2>2, <2>3, HandlerLoss
  <1>6. CASE Ack
    <2>1. PICK o \in Orders : o = approved.log[cur] /\ cur \in EntriesOf(o)
      BY <1>6, EntryIsOrder DEF Ack, TypeOK, EntriesOf
    <2>2. /\ approved'.log = approved.log /\ approved'.cursor = approved.cursor
          /\ approved'.pending = approved.pending \ {cur}
          /\ step = "ack" /\ step' = "idle"
          /\ UNCHANGED <<keys, lapsed, published, dead, refused, faults>>
      BY <1>6, XAckGroup DEF Ack, HandlerDone, TypeOK, Group
    <2>3. \A p \in Orders : EntriesOf(p)' = EntriesOf(p)
      BY <2>2 DEF EntriesOf
    <2>4. \A p \in Orders : /\ OnRecord(p)' <=> OnRecord(p)
                            /\ ~Underway(p) /\ ~Underway(p)' /\ ~Leaving(p)'
      BY <2>2, <2>3 DEF OnRecord, Underway, Leaving
    <2>5. \A p \in Orders : p \in Lost' <=> p \in Lost
      BY <2>2, <2>4 DEF Lost
    <2>6. IsFiniteSet(Lost)' /\ (Cardinality(Lost) <= faults)'
      <3>1. Lost' \subseteq Lost
        BY <2>5 DEF Lost
      <3>2. QED
        BY <2>2, <3>1, LossCount
    <2>7. ASSUME NEW p \in SilentlyDropped' PROVE p \in Lost'
      <3>1. p \in Orders /\ ~OnRecord(p)
        BY <2>4, <2>7 DEF SilentlyDropped, OnRecord
      <3>2. CASE p = o
        <4>1. Leaving(p)
          BY <2>1, <2>2, <3>2 DEF Leaving
        <4>2. QED
          BY <2>4, <2>5, <3>1, <4>1 DEF LossInv, Lost
      <3>3. CASE p # o
        <4>1. PICK j \in EntriesOf(p)' : Settled(approved, j)'
          BY <2>7 DEF SilentlyDropped
        <4>2. j \in EntriesOf(p) /\ j # cur
          BY <2>1, <2>3, <3>1, <3>3, <4>1 DEF EntriesOf
        <4>3. Settled(approved, j)
          BY <2>2, <4>1, <4>2 DEF Settled
        <4>4. p \in SilentlyDropped
          BY <2>2, <3>1, <4>2, <4>3 DEF SilentlyDropped, OnRecord
        <4>5. QED
          BY <2>5, <3>1, <4>4 DEF LossInv
      <3>4. QED
        BY <3>2, <3>3
    <2>8. QED
      BY <2>4, <2>6, <2>7 DEF LossInv
  <1>7. QED
    BY <1>1, <1>2, <1>3, <1>4, <1>5, <1>6 DEF Handle

LEMMA PollLoss ==
    ASSUME TypeOK, LossInv, Poll
    PROVE  LossInv'
  <1>1. UNCHANGED <<approved, keys, lapsed, dead, refused, faults, cur, step>>
    BY DEF Poll, NothingToPoll, PollFails, PollReport, ApplyFill, ApplyEnd,
           ApplyNothing, ExpireStale, AllApplied, LoopEnds, redisVars, histVars
  <1>2. \A p \in Orders : published[p] # <<>> => published'[p] # <<>>
    BY EmitRecords
    DEF Poll, NothingToPoll, PollFails, PollReport, ApplyFill, ApplyEnd,
        ApplyNothing, ExpireStale, AllApplied, LoopEnds, redisVars
  <1>3. /\ \A p \in Orders : OnRecord(p) => OnRecord(p)'
        /\ \A p \in Orders : p \in SilentlyDropped' => p \in SilentlyDropped
    BY <1>1, <1>2, RecordKept
  <1>4. \A p \in Orders : /\ Underway(p)' <=> Underway(p)
                          /\ Leaving(p)' <=> Leaving(p)
    BY <1>1 DEF Underway, Leaving
  <1>5. QED
    BY <1>1, <1>3, <1>4, LossKept

(* Each crash dooms at most the order whose handler it interrupts.         *)
LEMMA CrashLoss ==
    ASSUME TypeOK, LossInv, Crash
    PROVE  LossInv'
  <1>1. /\ UNCHANGED <<approved, keys, lapsed, published, dead, refused>>
        /\ faults' = faults + 1 /\ step' = "idle"
    BY DEF Crash, redisVars
  <1>2. CASE step \in {"send", "publish"}
    <2>1. PICK o \in Orders : o = approved.log[cur]
      BY <1>2, EntryIsOrder DEF TypeOK
    <2>2. \A p \in Orders : Underway(p) <=> p = o
      BY <1>2, <2>1 DEF Underway
    <2>3. o \notin SilentlyDropped
      BY <2>2 DEF LossInv, Lost
    <2>4. QED
      BY <1>1, <2>2, <2>3, FaultLoss
  <1>3. CASE step \notin {"send", "publish"}
    <2>1. \A p \in Orders : ~Underway(p) /\ ~Underway(p)' /\ ~Leaving(p)'
      BY <1>1, <1>3 DEF Underway, Leaving
    <2>2. QED
      BY <1>1, <2>1, RecordKept, LossKept
  <1>4. QED
    BY <1>2, <1>3

LEMMA LossInvariant ==
    ASSUME KeyOutlivesOrder, Unresolvable = {}
    PROVE  Spec => []LossInv
  <1>1. Init => LossInv
    <2> SUFFICES ASSUME Init PROVE LossInv
      OBVIOUS
    <2>1. Lost = {} /\ SilentlyDropped = {} /\ faults = 0 /\ step = "idle"
      BY DEF Init, Lost, SilentlyDropped, EntriesOf, EmptyGroup
    <2>2. QED
      BY <2>1, FS_EmptySet DEF LossInv, Leaving
  <1>2. TypeOK /\ AdmissionInv /\ LossInv /\ [Next]_vars => LossInv'
    <2> SUFFICES ASSUME TypeOK, AdmissionInv, LossInv, [Next]_vars PROVE LossInv'
      OBVIOUS
    <2>1. CASE UNCHANGED vars
      <3>1. UNCHANGED <<approved, keys, lapsed, published, dead, refused, faults,
                        step, cur>>
        BY <2>1 DEF vars, engineVars, redisVars, histVars
      <3>2. \A p \in Orders : /\ Underway(p)' <=> Underway(p)
                              /\ Leaving(p)' <=> Leaving(p)
        BY <3>1 DEF Underway, Leaving
      <3>3. QED
        BY <3>1, <3>2, RecordKept, LossKept
    <2>2. QED
      BY <2>1, EnvironmentLoss, LoopLoss, HandleLoss, PollLoss, CrashLoss
      DEF Next, Engine
  <1>3. QED
    BY <1>1, <1>2, TypeCorrect, AdmissionInvariant, PTL DEF Spec

(* However orders are approved again, redelivered, halted or dead-lettered,*)
(* an order vanishes without a trace only by a crash or a failed call to   *)
(* Redis, and each of those costs at most one.                             *)
THEOREM FaultsCostOneOrderEach ==
    ASSUME KeyOutlivesOrder, Unresolvable = {}
    PROVE  Spec => []EachFaultLosesAtMostOneOrder
  <1>1. TypeOK /\ LossInv => EachFaultLosesAtMostOneOrder
    <2> SUFFICES ASSUME TypeOK, LossInv PROVE EachFaultLosesAtMostOneOrder
      OBVIOUS
    <2>1. /\ IsFiniteSet(SilentlyDropped)
          /\ Cardinality(SilentlyDropped) <= Cardinality(Lost)
      BY FS_Subset DEF LossInv
    <2>2. /\ Cardinality(Lost) \in Nat /\ Cardinality(SilentlyDropped) \in Nat
          /\ Cardinality(Lost) <= faults /\ faults \in Nat
      BY <2>1, FS_CardinalityType DEF LossInv, TypeOK
    <2>3. QED
      BY <2>1, <2>2 DEF EachFaultLosesAtMostOneOrder
  <1>2. QED
    BY <1>1, LossInvariant, TypeCorrect, PTL

----------------------------------------------------------------------------
(* What the engine tells of its orders is true, and it implements          *)
(* OrderPromise.                                                           *)
(*                                                                         *)
(* Two hypotheses, both shown necessary by runs.  A dedupe key outlives    *)
(* the deliveries of its order (config.ORDER_DEDUPE_TTL_SECONDS is a day). *)
(* And no order that reached the exchange is answered with an error        *)
(* payload: the code takes one for a rejection (ErrorAsData.cfg).          *)

Premises == KeyOutlivesOrder /\ "error_after" \notin Replies

----------------------------------------------------------------------------
(* The inductive invariant, order by order.                                *)

(* The next effect of the handler is s, on order o.                        *)
Handling(o, s) == step = s /\ approved.log[cur] = o

(* Nothing has left the engine for order o.                                *)
Unsent(o) ==
    /\ published[o] = <<>> /\ broker[o].placed = 0
    /\ registry[o] \in {Absent, NewOrder}

(* Without a dedupe key, or between the key and the send, an order is      *)
(* unsent.                                                                 *)
KeyInv(o) == o \notin keys \cup lapsed \/ Handling(o, "send") => Unsent(o)

BrokerInv(o) ==
    /\ broker[o].placed = 0 <=> broker[o].st = "none"
    /\ broker[o].st = "none" => broker[o].filled = 0
    /\ broker[o].filled <= Quantity[o]
    /\ broker[o].filled = Quantity[o] => broker[o].st = "complete"

(* An order about to be published for the first time is what place_order   *)
(* made of it.                                                             *)
PublishInv(o) == Handling(o, "publish") =>
    /\ published[o] = <<>> /\ o \in keys \cup lapsed
    /\ \/ mode = "live" /\ registry[o].status \in {"SENT", "ACKED", "REJECTED"}
       \/ /\ mode # "live"
          /\ registry[o].status = "FILLED" /\ registry[o].filled = Quantity[o]
    /\ registry[o].status = "REJECTED" /\ mode = "live"
          => broker[o].st \in {"none", "rejected"}

(* Of a live order nothing final was told, and no more than the registry   *)
(* holds; of one never acknowledged, only that it was sent.                *)
LiveInv(o) == registry[o].status \in Live =>
    \A k \in 1..Len(published[o]) :
        /\ published[o][k].status \notin Terminal
        /\ published[o][k].filled <= registry[o].filled
        /\ registry[o].status = "SENT" => published[o][k].status = "SENT"

(* A report may be old but never says more than the broker still says, and *)
(* is applied only to live orders.                                         *)
ReportInv(o) ==
    /\ report[o].filled <= broker[o].filled
    /\ report[o].st \in {"rejected", "cancelled"} => broker[o].st = report[o].st
    /\ o \in todo => phase = "apply" /\ registry[o].status \in Live

(* Event k of order o is true.                                             *)
EventIsTrue(o, k) ==
    LET e == published[o][k] IN
    /\ e.status \in Terminal => k = Len(published[o])
    /\ e.status \in {"PARTIAL", "FILLED"} =>
          /\ mode = "live" => e.filled <= broker[o].filled
          /\ e.status = "FILLED" <=> e.filled = Quantity[o]
          /\ \A j \in FillEvents(o) : j < k => published[o][j].filled < e.filled
    /\ e.status = "REJECTED" /\ mode = "live"
          => broker[o].st \in {"none", "rejected"}
    /\ e.status = "CANCELLED" /\ mode = "live" => broker[o].st = "cancelled"
    /\ e.status = "EXPIRED" => \A j \in 1..k-1 : published[o][j].status = "SENT"

EventInv(o) ==
    /\ \A k \in 1..Len(published[o]) : EventIsTrue(o, k)
    /\ FillEvents(o) # {} =>
          \E k \in FillEvents(o) : \A j \in FillEvents(o) : j <= k

OrderInv(o) == /\ KeyInv(o) /\ BrokerInv(o) /\ PublishInv(o)
               /\ LiveInv(o) /\ ReportInv(o) /\ EventInv(o)

TellingInv == \A o \in Orders : OrderInv(o)

----------------------------------------------------------------------------
(* A step that leaves order o, and what is known of it, alone.             *)

LeavesAlone(o) ==
    /\ mode' = mode
    /\ published'[o] = published[o] /\ broker'[o] = broker[o]
    /\ registry'[o] = registry[o] /\ report'[o] = report[o]
    /\ o \in keys' \cup lapsed' <=> o \in keys \cup lapsed
    /\ o \in todo' => o \in todo /\ phase' = phase
    /\ \A s \in {"send", "publish"} : Handling(o, s)' => Handling(o, s)

LEMMA OrderFrame ==
    ASSUME NEW o \in Orders, OrderInv(o), LeavesAlone(o)
    PROVE  OrderInv(o)'
  <1>1. FillEvents(o)' = FillEvents(o)
    BY DEF LeavesAlone, FillEvents
  <1>2. KeyInv(o)'
    BY DEF OrderInv, LeavesAlone, KeyInv, Unsent
  <1>3. BrokerInv(o)'
    BY DEF OrderInv, LeavesAlone, BrokerInv
  <1>4. PublishInv(o)'
    BY DEF OrderInv, LeavesAlone, PublishInv
  <1>5. LiveInv(o)'
    BY DEF OrderInv, LeavesAlone, LiveInv
  <1>6. ReportInv(o)'
    BY DEF OrderInv, LeavesAlone, ReportInv
  <1>7. EventInv(o)'
    BY <1>1 DEF OrderInv, LeavesAlone, EventInv, EventIsTrue
  <1>8. QED
    BY <1>2, <1>3, <1>4, <1>5, <1>6, <1>7 DEF OrderInv

LEMMA ToldEvent ==
    ASSUME TypeOK, NEW o \in Orders, NEW k \in 1..Len(published[o])
    PROVE  published[o][k].filled \in Nat /\ published[o][k].status \in Status
  <1>1. published[o] \in Seq(Events)
    BY DEF TypeOK
  <1>2. published[o][k] \in Events
    BY <1>1
  <1>3. QED
    BY <1>2 DEF Events

(* Where nothing is being handled there is no report to apply, and the     *)
(* other way round.                                                        *)
LEMMA ReportsAreAppliedApart ==
    ASSUME TypeOK, NEW o \in Orders, OrderInv(o)
    PROVE  /\ phase # "apply" => o \notin todo
           /\ batch # {} \/ step # "idle" => o \notin todo
  BY DEF TypeOK, OrderInv, ReportInv

(* Of an order nothing was told of, all is true.                           *)
LEMMA NothingTold ==
    ASSUME NEW o \in Orders, published[o] = <<>>
    PROVE  EventInv(o) /\ LiveInv(o) /\ FillEvents(o) = {}
  <1>1. 1..Len(published[o]) = {}
    OBVIOUS
  <1>2. QED
    BY <1>1 DEF EventInv, LiveInv, FillEvents

LEMMA InitTelling == Init => TellingInv
  <1> SUFFICES ASSUME Init, NEW o \in Orders PROVE OrderInv(o)
    BY DEF TellingInv
  <1>1. KeyInv(o)
    BY DEF Init, KeyInv, Unsent
  <1>2. BrokerInv(o)
    BY OrdersAssumption DEF Init, BrokerInv
  <1>3. PublishInv(o) /\ EventInv(o) /\ LiveInv(o)
    BY NothingTold DEF Init, PublishInv, Handling
  <1>4. ReportInv(o)
    BY DEF Init, ReportInv, NoReport, NoRow
  <1>5. QED
    BY <1>1, <1>2, <1>3, <1>4 DEF OrderInv

(* The broker fills or ends a working order: what was reported, and what   *)
(* was told, stays true.                                                   *)
LEMMA BrokerMoves ==
    ASSUME TypeOK, TellingInv, NEW o \in Orders, broker[o].st = "working",
           NEW b \in BrokerOrder, broker' = [broker EXCEPT ![o] = b],
           b.placed = broker[o].placed,
           b.filled >= broker[o].filled, b.filled <= Quantity[o],
           b.st # "none", b.filled = Quantity[o] => b.st = "complete",
           UNCHANGED <<mode, engineVars, redisVars>>
    PROVE  TellingInv'
  <1> USE DEF engineVars, redisVars
  <1>1. ASSUME NEW p \in Orders, p # o PROVE OrderInv(p)'
    <2>1. LeavesAlone(p)
      BY <1>1 DEF LeavesAlone, Handling, TypeOK
    <2>2. QED
      BY <2>1, OrderFrame DEF TellingInv
  <1>2. OrderInv(o)'
    <2>1. OrderInv(o) /\ broker'[o] = b
      BY DEF TellingInv, TypeOK
    <2>2. FillEvents(o)' = FillEvents(o)
      BY DEF FillEvents
    <2>3. broker[o].placed # 0
      BY <2>1 DEF OrderInv, BrokerInv
    <2>4. KeyInv(o)'
      BY <2>1, <2>3 DEF OrderInv, KeyInv, Unsent, Handling
    <2>5. BrokerInv(o)'
      BY <2>1, <2>3 DEF BrokerInv
    <2>6. PublishInv(o)' /\ LiveInv(o)'
      BY <2>1 DEF OrderInv, PublishInv, LiveInv, Handling
    <2>7. ReportInv(o)'
      <3>1. report[o].filled \in Nat /\ broker[o].filled \in Nat /\ b.filled \in Nat
        BY DEF TypeOK, ReportRow, BrokerOrder
      <3>2. QED
        BY <2>1, <3>1 DEF OrderInv, ReportInv
    <2>8. EventInv(o)'
      <3>1. ASSUME NEW k \in 1..Len(published[o]) PROVE EventIsTrue(o, k)'
        <4>1. EventIsTrue(o, k)
          BY <2>1 DEF OrderInv, EventInv
        <4>2. published[o][k].filled \in Nat /\ broker[o].filled \in Nat
              /\ b.filled \in Nat
          BY ToldEvent DEF TypeOK, BrokerOrder
        <4>3. QED
          BY <2>1, <2>2, <4>1, <4>2 DEF EventIsTrue
      <3>2. QED
        BY <2>1, <2>2, <3>1 DEF OrderInv, EventInv
    <2>9. QED
      BY <2>4, <2>5, <2>6, <2>7, <2>8 DEF OrderInv
  <1>3. QED
    BY <1>1, <1>2 DEF TellingInv

LEMMA EnvironmentTelling ==
    ASSUME TypeOK, TellingInv, Environment
    PROVE  TellingInv'
  <1>1. ASSUME NEW o \in Orders, Approve(o) PROVE TellingInv'
    <2>1. \A i \in 1..Len(approved.log) : approved'.log[i] = approved.log[i]
      BY <1>1, XAddGroup DEF Approve, TypeOK, Group
    <2>2. step # "idle" => approved'.log[cur] = approved.log[cur]
      BY <2>1, EntryIsOrder DEF TypeOK
    <2>3. \A p \in Orders : LeavesAlone(p)
      BY <1>1, <2>2 DEF Approve, LeavesAlone, Handling, engineVars
    <2>4. QED
      BY <2>3, OrderFrame DEF TellingInv
  <1>2. ASSUME NEW o \in Orders, KeyExpires(o) PROVE TellingInv'
    <2>1. \A p \in Orders : LeavesAlone(p)
      BY <1>2 DEF KeyExpires, LeavesAlone, Handling, engineVars
    <2>2. QED
      BY <2>1, OrderFrame DEF TellingInv
  <1>3. ASSUME NEW o \in Orders, BrokerFills(o) PROVE TellingInv'
    <2>1. PICK n \in 1..Quantity[o] :
             /\ n > broker[o].filled
             /\ broker' = [broker EXCEPT ![o] =
                   [placed |-> @.placed,
                    st     |-> IF n = Quantity[o] THEN "complete" ELSE "working",
                    filled |-> n]]
      BY <1>3 DEF BrokerFills
    <2> DEFINE b == [placed |-> broker[o].placed,
                     st     |-> IF n = Quantity[o] THEN "complete" ELSE "working",
                     filled |-> n]
    <2>2. b \in BrokerOrder /\ broker' = [broker EXCEPT ![o] = b]
      BY <2>1, OrdersAssumption DEF TypeOK, BrokerOrder, BrokerStatus
    <2>3. /\ b.placed = broker[o].placed /\ b.filled >= broker[o].filled
          /\ b.filled <= Quantity[o] /\ b.st # "none"
          /\ b.filled = Quantity[o] => b.st = "complete"
      BY <2>1, OrdersAssumption DEF TypeOK, BrokerOrder
    <2> HIDE DEF b
    <2>4. QED
      BY <1>3, <2>2, <2>3, BrokerMoves DEF BrokerFills
  <1>4. ASSUME NEW o \in Orders, BrokerEnds(o) PROVE TellingInv'
    <2>1. PICK st \in {"rejected", "cancelled"} :
             broker' = [broker EXCEPT ![o] =
                [placed |-> @.placed, st |-> st, filled |-> @.filled]]
      BY <1>4 DEF BrokerEnds
    <2> DEFINE b == [placed |-> broker[o].placed, st |-> st,
                     filled |-> broker[o].filled]
    <2>2. b \in BrokerOrder /\ broker' = [broker EXCEPT ![o] = b]
      BY <2>1 DEF TypeOK, BrokerOrder, BrokerStatus
    <2>3. BrokerInv(o) /\ broker[o].st = "working" /\ broker[o].filled \in Nat
      BY <1>4 DEF BrokerEnds, TellingInv, OrderInv, TypeOK, BrokerOrder
    <2>4. /\ b.placed = broker[o].placed /\ b.filled >= broker[o].filled
          /\ b.filled <= Quantity[o] /\ b.st # "none"
          /\ b.filled = Quantity[o] => b.st = "complete"
      BY <2>3 DEF BrokerInv
    <2> HIDE DEF b
    <2>5. QED
      BY <2>2, <2>3, <2>4, <1>4, BrokerMoves DEF BrokerEnds
  <1>5. CASE Halt \/ ClearHalt
    <2>1. \A p \in Orders : LeavesAlone(p)
      BY <1>5 DEF Halt, ClearHalt, LeavesAlone, Handling, engineVars, redisVars
    <2>2. QED
      BY <2>1, OrderFrame DEF TellingInv
  <1>6. QED
    BY <1>1, <1>2, <1>3, <1>4, <1>5 DEF Environment

(* Reclaiming and reading hand out entries and handle none.                *)
LEMMA LoopTelling ==
    ASSUME TypeOK, TellingInv,
           Read \/ \E S \in SUBSET approved.pending : ClaimStale(S)
    PROVE  TellingInv'
  <1>1. /\ step' = "idle" /\ phase # "apply"
        /\ UNCHANGED <<mode, broker, registry, report, todo, keys, lapsed, published>>
    BY DEF Read, ClaimStale, LoopAt, TypeOK
  <1>2. \A o \in Orders : LeavesAlone(o)
    BY <1>1, ReportsAreAppliedApart DEF LeavesAlone, Handling, TellingInv
  <1>3. QED
    BY <1>2, OrderFrame DEF TellingInv

----------------------------------------------------------------------------
(* The handler.                                                            *)

(* Steps of the handler that concern no order's registry entry, placement  *)
(* or events.                                                              *)
LEMMA HandlerFrame ==
    ASSUME TypeOK, TellingInv, step' \notin {"send", "publish"},
           UNCHANGED <<mode, broker, phase, registry, report, todo, keys, lapsed,
                       published>>
    PROVE  TellingInv'
  <1>1. \A o \in Orders : LeavesAlone(o)
    BY DEF LeavesAlone, Handling
  <1>2. QED
    BY <1>1, OrderFrame DEF TellingInv

(* A step of the handler of order o: the other orders are left alone.      *)
LEMMA OneOrderHandled ==
    ASSUME TypeOK, TellingInv, NEW o \in Orders, OrderInv(o)',
           UNCHANGED <<mode, phase, report, todo>>,
           \A p \in Orders \ {o} :
              /\ published'[p] = published[p] /\ broker'[p] = broker[p]
              /\ registry'[p] = registry[p]
              /\ p \in keys' \cup lapsed' <=> p \in keys \cup lapsed,
           step' \in {"send", "publish"} => approved'.log[cur'] = o
    PROVE  TellingInv'
  <1>1. \A p \in Orders \ {o} : LeavesAlone(p)
    BY DEF LeavesAlone, Handling
  <1>2. QED
    BY <1>1, OrderFrame DEF TellingInv

(* An order whose handler begins has no key and never had one: it is       *)
(* unsent, and registering it changes nothing.                             *)
LEMMA AcceptTelling ==
    ASSUME TypeOK, AdmissionInv, TellingInv, NEW i \in batch, Accept(i)
    PROVE  TellingInv'
  <1>1. PICK o \in Orders : o = approved.log[i] /\ i \in EntriesOf(o)
    BY EntryIsOrder DEF EntriesOf
  <1>2. o \notin keys /\ o \notin lapsed
    BY <1>1 DEF Accept, AlreadySent, AdmissionInv, Settled
  <1>3. OrderInv(o) /\ Unsent(o) /\ o \notin todo
    BY <1>1, <1>2, ReportsAreAppliedApart DEF TellingInv, OrderInv, KeyInv
  <1>4. /\ UNCHANGED <<mode, broker, phase, report, todo, approved, lapsed, published>>
        /\ registry' = [registry EXCEPT ![o] = NewOrder]
        /\ keys' \in {keys, keys \cup {o}}
        /\ o \in keys' \/ step' # "send"
    BY <1>1 DEF Accept, HandlerFails, HandlerGoes, HandlerDone
  <1>5. /\ step' # "publish"
        /\ step' = "send" => cur' = i
    BY DEF Accept, HandlerFails, HandlerGoes, HandlerDone
  <1>6. registry'[o] = NewOrder
    BY <1>1, <1>4 DEF TypeOK
  <1>7. OrderInv(o)'
    <2>1. KeyInv(o)' /\ PublishInv(o)'
      BY <1>3, <1>4, <1>5, <1>6 DEF KeyInv, PublishInv, Unsent, Handling
    <2>2. EventInv(o)'
      BY <1>3, <1>4, NothingTold DEF Unsent, EventInv, FillEvents, EventIsTrue
    <2>3. LiveInv(o)'
      BY <1>3, <1>4 DEF LiveInv, Unsent
    <2>4. BrokerInv(o)' /\ ReportInv(o)'
      BY <1>3, <1>4 DEF OrderInv, BrokerInv, ReportInv
    <2>5. QED
      BY <2>1, <2>2, <2>3, <2>4 DEF OrderInv
  <1>8. step' \in {"send", "publish"} => approved'.log[cur'] = o
    BY <1>1, <1>4, <1>5
  <1>9. \A p \in Orders \ {o} :
           /\ registry'[p] = registry[p] /\ broker'[p] = broker[p]
           /\ published'[p] = published[p]
           /\ p \in keys' \cup lapsed' <=> p \in keys \cup lapsed
    BY <1>4 DEF TypeOK
  <1>10. QED
    BY <1>1, <1>4, <1>7, <1>8, <1>9, OneOrderHandled

(* The order a handler is about to send is unsent and has its key.         *)
LEMMA SendingOrder ==
    ASSUME TypeOK, AdmissionInv, TellingInv, step = "send",
           NEW o \in Orders, o = approved.log[cur]
    PROVE  OrderInv(o) /\ Unsent(o) /\ o \in keys /\ o \notin todo
  BY ReportsAreAppliedApart
  DEF TellingInv, OrderInv, KeyInv, Handling, AdmissionInv

(* What sending leaves of an unsent order: a registry entry to publish.    *)
LEMMA SentOrder ==
    ASSUME TypeOK, NEW o \in Orders, OrderInv(o), Unsent(o), o \in keys,
           o \notin todo, NEW r, registry' = [registry EXCEPT ![o] = r],
           \/ /\ mode = "live" /\ r.status \in {"SENT", "ACKED", "REJECTED"}
              /\ r.status = "REJECTED" => broker'[o].st \in {"none", "rejected"}
           \/ mode # "live" /\ r.status = "FILLED" /\ r.filled = Quantity[o],
           \/ broker'[o] = broker[o]
           \/ /\ broker'[o].placed # 0 /\ broker'[o].st \notin {"none", "complete"}
              /\ broker'[o].filled = 0,
           step' = "publish", UNCHANGED <<mode, report, todo, keys, published>>
    PROVE  OrderInv(o)'
  <1>1. registry'[o] = r
    BY DEF TypeOK
  <1>2. KeyInv(o)' /\ PublishInv(o)'
    BY <1>1 DEF Unsent, KeyInv, PublishInv, Handling
  <1>3. EventInv(o)'
    BY NothingTold DEF Unsent, EventInv, FillEvents, EventIsTrue
  <1>4. LiveInv(o)'
    BY DEF Unsent, LiveInv
  <1>5. broker[o].st = "none" /\ broker[o].filled = 0
    BY DEF Unsent, OrderInv, BrokerInv
  <1>6. BrokerInv(o)'
    BY <1>5, OrdersAssumption DEF OrderInv, BrokerInv
  <1>7. ReportInv(o)'
    BY <1>5 DEF OrderInv, ReportInv
  <1>8. QED
    BY <1>2, <1>3, <1>4, <1>6, <1>7 DEF OrderInv

(* Filled at once, without a broker.                                       *)
LEMMA SendDryTelling ==
    ASSUME TypeOK, AdmissionInv, TellingInv, SendDry
    PROVE  TellingInv'
  <1>1. PICK o \in Orders : o = approved.log[cur]
    BY EntryIsOrder DEF SendDry, TypeOK
  <1> DEFINE r == AddFill([registry[o] EXCEPT !.hasId = TRUE],
                          Quantity[o], Quantity[o])
  <1>2. OrderInv(o) /\ Unsent(o) /\ o \in keys /\ o \notin todo
    BY <1>1, SendingOrder DEF SendDry
  <1>3. r.status = "FILLED" /\ r.filled = Quantity[o]
    <2>1. registry[o].filled \in Nat /\ Quantity[o] \in Nat \ {0}
          /\ registry[o] \in Order
      BY OrdersAssumption DEF TypeOK, Order
    <2>2. [registry[o] EXCEPT !.hasId = TRUE].filled = registry[o].filled
      BY <2>1 DEF Order
    <2>3. QED
      BY <2>1, <2>2 DEF AddFill
  <1>4. /\ UNCHANGED <<mode, broker, phase, report, todo, approved, keys, lapsed,
                       published>>
        /\ mode # "live" /\ step' = "publish" /\ cur' = cur
        /\ registry' = [registry EXCEPT ![o] = r]
    BY <1>1 DEF SendDry, HandlerGoes, redisVars
  <1> HIDE DEF r
  <1>5. OrderInv(o)'
    BY <1>2, <1>3, <1>4, SentOrder
  <1>6. \A p \in Orders \ {o} : registry'[p] = registry[p]
    BY <1>4 DEF TypeOK
  <1>7. QED
    BY <1>1, <1>4, <1>5, <1>6, OneOrderHandled

(* place_order and its answer.  An order the engine takes for rejected is  *)
(* one the exchange refused or never saw.                                  *)
LEMMA SendLiveTelling ==
    ASSUME Premises, TypeOK, AdmissionInv, TellingInv,
           NEW reply \in Replies, SendLive(reply)
    PROVE  TellingInv'
  <1>1. PICK o \in Orders : o = approved.log[cur]
    BY EntryIsOrder DEF SendLive, TypeOK
  <1> DEFINE r == AfterReply(registry[o], reply)
  <1>2. OrderInv(o) /\ Unsent(o) /\ o \in keys /\ o \notin todo
    BY <1>1, SendingOrder DEF SendLive
  <1>3. /\ UNCHANGED <<mode, phase, report, todo, approved, keys, lapsed, published>>
        /\ mode = "live" /\ step' = "publish" /\ cur' = cur
        /\ registry' = [registry EXCEPT ![o] = r]
        /\ \/ broker' = broker /\ reply \in {"lost_before", "error_before"}
           \/ broker' = [broker EXCEPT ![o] = AtBroker(broker[o], reply)]
    BY <1>1 DEF SendLive, HandlerGoes, redisVars
  <1>4. /\ r.status \in {"SENT", "ACKED", "REJECTED"}
        /\ r.status = "REJECTED" => reply \in {"rejected", "error_before"}
    <2>1. registry[o] \in Order /\ reply # "error_after"
      BY DEF TypeOK, Premises
    <2>2. QED
      BY <2>1 DEF AfterReply, Order
  <1>5. broker[o].placed = 0 /\ broker[o].st = "none" /\ broker[o].filled = 0
    BY <1>2 DEF Unsent, OrderInv, BrokerInv
  <1>6. /\ \/ broker'[o] = broker[o] /\ reply # "rejected"
           \/ /\ broker'[o].placed # 0
              /\ broker'[o].st \notin {"none", "complete"}
              /\ broker'[o].filled = 0
        /\ reply \in {"rejected", "error_before"} =>
              broker'[o].st \in {"none", "rejected"}
    <2>1. CASE broker' = broker /\ reply \in {"lost_before", "error_before"}
      BY <2>1, <1>5
    <2>2. CASE /\ broker' = [broker EXCEPT ![o] = AtBroker(broker[o], reply)]
               /\ reply # "error_before"
      <3>1. broker'[o] = AtBroker(broker[o], reply)
        BY <2>2 DEF TypeOK
      <3>2. QED
        BY <3>1, <2>2, <1>5 DEF AtBroker
    <2>3. reply = "error_before" => broker' = broker
      BY DEF SendLive
    <2>4. QED
      BY <1>3, <2>1, <2>2, <2>3
  <1> HIDE DEF r
  <1>7. OrderInv(o)'
    BY <1>2, <1>3, <1>4, <1>6, SentOrder
  <1>8. \A p \in Orders \ {o} : registry'[p] = registry[p] /\ broker'[p] = broker[p]
    BY <1>3 DEF TypeOK
  <1>9. QED
    BY <1>1, <1>3, <1>7, <1>8, OneOrderHandled

(* filled_orders of order o gains one event.                               *)
LEMMA OneMoreEvent ==
    ASSUME TypeOK, NEW o \in Orders, NEW r, Emit(o, r)
    PROVE  LET n == Len(published[o]) IN
           /\ n \in Nat /\ Len(published'[o]) = n + 1
           /\ \A k \in 1..n : published'[o][k] = published[o][k]
           /\ published'[o][n + 1].status = r.status
           /\ published'[o][n + 1].filled = r.filled
           /\ \A p \in Orders \ {o} : published'[p] = published[p]
  <1>1. published[o] \in Seq(Events)
    BY DEF TypeOK
  <1>2. published'[o] = Append(published[o], Event(r))
    BY DEF Emit, TypeOK
  <1>3. Event(r).status = r.status /\ Event(r).filled = r.filled
    BY DEF Event
  <1>4. \A p \in Orders \ {o} : published'[p] = published[p]
    BY DEF Emit, TypeOK
  <1>5. QED
    BY <1>1, <1>2, <1>3, <1>4

(* A true event about an order nothing final was told of keeps all of its  *)
(* events true.                                                            *)
LEMMA TellingTruth ==
    ASSUME TypeOK, NEW o \in Orders, EventInv(o), NEW r, Emit(o, r),
           UNCHANGED <<mode, broker>>,
           \A k \in 1..Len(published[o]) : published[o][k].status \notin Terminal,
           r.status \in {"PARTIAL", "FILLED"} =>
              /\ mode = "live" => r.filled <= broker[o].filled
              /\ r.status = "FILLED" <=> r.filled = Quantity[o]
              /\ \A j \in FillEvents(o) : published[o][j].filled < r.filled,
           r.status = "REJECTED" /\ mode = "live"
              => broker[o].st \in {"none", "rejected"},
           r.status = "CANCELLED" /\ mode = "live" => broker[o].st = "cancelled",
           r.status = "EXPIRED" =>
              \A j \in 1..Len(published[o]) : published[o][j].status = "SENT"
    PROVE  EventInv(o)'
  <1> DEFINE p == published'[o]
  <1>1. PICK n \in Nat :
           /\ n = Len(published[o]) /\ Len(p) = n + 1
           /\ \A k \in 1..n : p[k] = published[o][k]
           /\ p[n + 1].status = r.status /\ p[n + 1].filled = r.filled
    BY OneMoreEvent
  <1>2. /\ FillEvents(o)' \subseteq FillEvents(o) \cup {n + 1}
        /\ FillEvents(o) \subseteq 1..n
    BY <1>1 DEF FillEvents
  <1>3. \A j \in FillEvents(o) : p[j] = published[o][j]
    BY <1>1, <1>2
  <1>4. ASSUME NEW k \in 1..n PROVE EventIsTrue(o, k)'
    <2>1. EventIsTrue(o, k) /\ published[o][k].status \notin Terminal
      BY <1>1 DEF EventInv
    <2>2. p[k] = published[o][k] /\ k < n + 1
      BY <1>1
    <2>3. \A j \in FillEvents(o)' : j < k => j \in FillEvents(o)
      BY <1>1, <1>2
    <2>4. \A j \in 1..k-1 : p[j] = published[o][j]
      BY <1>1
    <2>5. QED
      BY <2>1, <2>2, <2>3, <2>4, <1>3 DEF EventIsTrue
  <1>5. EventIsTrue(o, n + 1)'
    <2>1. \A j \in FillEvents(o)' : j < n + 1 => j \in FillEvents(o)
      BY <1>1, <1>2
    <2>2. \A j \in 1..(n + 1)-1 : j \in 1..n /\ p[j] = published[o][j]
      BY <1>1
    <2>3. QED
      BY <1>1, <1>3, <2>1, <2>2 DEF EventIsTrue
  <1>6. FillEvents(o)' # {} =>
           \E k \in FillEvents(o)' : \A j \in FillEvents(o)' : j <= k
    <2>1. CASE n + 1 \in FillEvents(o)'
      BY <1>2, <2>1
    <2>2. CASE n + 1 \notin FillEvents(o)'
      <3>1. FillEvents(o)' = FillEvents(o)
        BY <1>1, <1>2, <2>2 DEF FillEvents
      <3>2. QED
        BY <3>1 DEF EventInv
    <2>3. QED
      BY <2>1, <2>2
  <1>7. QED
    BY <1>1, <1>4, <1>5, <1>6 DEF EventInv

(* The first word on an order: what place_order made of it.                *)
LEMMA PublishTelling ==
    ASSUME TypeOK, TellingInv, Publish
    PROVE  TellingInv'
  <1>1. PICK o \in Orders : o = approved.log[cur]
    BY EntryIsOrder DEF Publish, TypeOK
  <1>2. /\ UNCHANGED <<mode, broker, phase, registry, report, todo, keys, lapsed>>
        /\ step' \notin {"send", "publish"} /\ step = "publish"
        /\ published' = published \/ Emit(o, registry[o])
    BY <1>1 DEF Publish, HandlerFails, HandlerGoes, HandlerDone
  <1>3. CASE published' = published
    BY <1>2, <1>3, HandlerFrame
  <1>4. CASE Emit(o, registry[o])
    <2>1. OrderInv(o) /\ o \notin todo
      BY <1>2, ReportsAreAppliedApart DEF TellingInv
    <2>2. PublishInv(o) /\ Handling(o, "publish")
      BY <1>1, <1>2, <2>1 DEF OrderInv, Handling
    <2>3. published[o] = <<>> /\ o \in keys \cup lapsed /\ Len(published[o]) = 0
      BY <2>2 DEF PublishInv
    <2>4. registry[o].status = "FILLED" => registry[o].filled = Quantity[o]
      BY <2>2 DEF PublishInv
    <2>5. /\ registry[o].status \in {"SENT", "ACKED", "REJECTED", "FILLED"}
          /\ registry[o].status = "FILLED" => mode # "live"
          /\ registry[o].status = "REJECTED" /\ mode = "live" =>
                broker[o].st \in {"none", "rejected"}
      BY <2>2 DEF PublishInv
    <2>6. EventInv(o)'
      <3>1. EventInv(o) /\ FillEvents(o) = {}
        BY <2>3, NothingTold
      <3>2. QED
        BY <1>2, <1>4, <2>3, <2>4, <2>5, <3>1, TellingTruth
    <2>7. /\ Len(published'[o]) = 1
          /\ published'[o][1].status = registry[o].status
          /\ published'[o][1].filled = registry[o].filled
          /\ \A p \in Orders \ {o} : published'[p] = published[p]
      <3> DEFINE n == Len(published[o])
      <3>1. n = 0
        BY <2>3
      <3>2. /\ Len(published'[o]) = n + 1
            /\ published'[o][n + 1].status = registry[o].status
            /\ published'[o][n + 1].filled = registry[o].filled
            /\ \A p \in Orders \ {o} : published'[p] = published[p]
        BY <1>4, OneMoreEvent
      <3> HIDE DEF n
      <3>3. QED
        BY <3>1, <3>2
    <2>8. LiveInv(o)'
      <3>1. registry[o].filled \in Nat
        BY DEF TypeOK, Order
      <3>2. QED
        BY <1>2, <2>7, <3>1 DEF LiveInv, Live, Terminal
    <2>9. KeyInv(o)' /\ PublishInv(o)'
      BY <1>2, <2>3 DEF KeyInv, PublishInv, Handling
    <2>10. BrokerInv(o)' /\ ReportInv(o)'
      BY <1>2, <2>1 DEF OrderInv, BrokerInv, ReportInv
    <2>11. OrderInv(o)'
      BY <2>6, <2>8, <2>9, <2>10 DEF OrderInv
    <2>12. QED
      BY <1>2, <2>7, <2>11, OneOrderHandled
  <1>5. QED
    BY <1>2, <1>3, <1>4

LEMMA HandleTelling ==
    ASSUME Premises, TypeOK, AdmissionInv, TellingInv, Handle
    PROVE  TellingInv'
  <1>1. ASSUME NEW i \in batch, Skip(i) \/ Refuse(i) \/ CannotBuild(i)
        PROVE  TellingInv'
    BY <1>1, HandlerFrame
    DEF Skip, Refuse, CannotBuild, HandlerFails, HandlerGoes, HandlerDone, redisVars
  <1>2. CASE SendUnresolved \/ DeadLetter \/ Ack
    BY <1>2, HandlerFrame
    DEF SendUnresolved, DeadLetter, Ack, HandlerFails, HandlerGoes, HandlerDone,
        redisVars
  <1>3. QED
    BY <1>1, <1>2, AcceptTelling, SendDryTelling, SendLiveTelling, PublishTelling
    DEF Handle

----------------------------------------------------------------------------
(* The poll.                                                               *)

(* Applying a report row or expiring an order: order o becomes r, and is   *)
(* told so.                                                                *)
LEMMA PollTells ==
    ASSUME TypeOK, TellingInv, NEW o \in Orders, NEW r \in Order,
           registry[o].status \in Live, phase \in {"apply", "expire"},
           registry' = [registry EXCEPT ![o] = r], Emit(o, r),
           o \notin todo', todo' \subseteq todo,
           UNCHANGED <<mode, broker, phase, batch, cur, step, report, approved,
                       keys, lapsed>>,
           EventInv(o)',
           r.status \in Live =>
              r.status = "PARTIAL" /\ r.filled >= registry[o].filled
    PROVE  TellingInv'
  <1>1. step = "idle" /\ registry'[o] = r
    BY DEF TypeOK
  <1>2. PICK n \in Nat :
           /\ n = Len(published[o]) /\ Len(published'[o]) = n + 1
           /\ \A k \in 1..n : published'[o][k] = published[o][k]
           /\ published'[o][n + 1].status = r.status
           /\ published'[o][n + 1].filled = r.filled
           /\ \A p \in Orders \ {o} : published'[p] = published[p]
    BY OneMoreEvent
  <1>3. ASSUME NEW p \in Orders \ {o} PROVE OrderInv(p)'
    <2>1. LeavesAlone(p)
      BY <1>2 DEF LeavesAlone, Handling, TypeOK
    <2>2. QED
      BY <2>1, OrderFrame DEF TellingInv
  <1>4. OrderInv(o)'
    <2>1. OrderInv(o)
      BY DEF TellingInv
    <2>2. o \in keys \cup lapsed
      BY <2>1 DEF OrderInv, KeyInv, Unsent, Absent, NewOrder, Live
    <2>3. KeyInv(o)' /\ PublishInv(o)'
      BY <1>1, <2>2 DEF KeyInv, PublishInv, Handling
    <2>4. BrokerInv(o)' /\ ReportInv(o)'
      BY <2>1 DEF OrderInv, BrokerInv, ReportInv
    <2>5. LiveInv(o)'
      <3>1. SUFFICES ASSUME r.status \in Live, NEW k \in 1..n+1
                     PROVE  /\ published'[o][k].status \notin Terminal
                            /\ published'[o][k].filled <= r.filled
        BY <1>1, <1>2 DEF LiveInv
      <3>2. /\ r.filled \in Nat /\ registry[o].filled \in Nat
            /\ r.filled >= registry[o].filled /\ r.status \notin Terminal
        BY <3>1 DEF TypeOK, Order, Terminal
      <3>3. CASE k = n + 1
        BY <1>2, <3>2, <3>3
      <3>4. CASE k \in 1..n
        <4>1. /\ published[o][k].status \notin Terminal
              /\ published[o][k].filled <= registry[o].filled
              /\ published[o][k].filled \in Nat
          BY <1>2, <2>1, <3>4, ToldEvent DEF OrderInv, LiveInv
        <4>2. QED
          BY <1>2, <3>2, <3>4, <4>1
      <3>5. QED
        BY <3>3, <3>4
    <2>6. QED
      BY <2>3, <2>4, <2>5 DEF OrderInv
  <1>5. QED
    BY <1>3, <1>4 DEF TellingInv

(* What was told of a live order, seen from the next event.                *)
LEMMA LiveOrderTold ==
    ASSUME TypeOK, TellingInv, NEW o \in Orders, registry[o].status \in Live
    PROVE  /\ EventInv(o)
           /\ \A k \in 1..Len(published[o]) : published[o][k].status \notin Terminal
           /\ \A j \in FillEvents(o) : /\ published[o][j].filled \in Nat
                                       /\ published[o][j].filled <= registry[o].filled
           /\ registry[o].status = "SENT" =>
                 \A k \in 1..Len(published[o]) : published[o][k].status = "SENT"
  BY ToldEvent DEF TellingInv, OrderInv, LiveInv, FillEvents

(* A fill of more than the registry holds: the new total is the report's.  *)
LEMMA ReportedFill ==
    ASSUME TypeOK, TellingInv, NEW o \in Orders, ApplyFill(o)
    PROVE  LET r == AddFill(registry[o], NewlyFilled(o), Quantity[o]) IN
           /\ registry[o].status \in Live /\ r \in Order
           /\ r.status \in {"PARTIAL", "FILLED"}
           /\ r.filled = report[o].filled /\ r.filled > registry[o].filled
           /\ r.filled <= broker[o].filled
           /\ r.status = "FILLED" <=> r.filled = Quantity[o]
  <1>1. o \in todo /\ OrderInv(o) /\ NewlyFilled(o) > 0
    BY DEF ApplyFill, TellingInv
  <1>2. /\ registry[o] \in Order /\ registry[o].filled \in Nat
        /\ report[o].filled \in Nat /\ broker[o].filled \in Nat
        /\ Quantity[o] \in Nat \ {0}
    BY OrdersAssumption DEF TypeOK, Order, ReportRow, BrokerOrder
  <1>3. /\ registry[o].status \in Live /\ report[o].filled <= broker[o].filled
        /\ broker[o].filled <= Quantity[o]
    BY <1>1 DEF OrderInv, ReportInv, BrokerInv
  <1>4. /\ NewlyFilled(o) \in Nat
        /\ registry[o].filled + NewlyFilled(o) = report[o].filled
        /\ report[o].filled > registry[o].filled
        /\ report[o].filled <= Quantity[o]
    BY <1>1, <1>2, <1>3 DEF NewlyFilled
  <1>5. QED
    BY <1>2, <1>3, <1>4, AddFillType DEF AddFill

LEMMA ApplyTelling ==
    ASSUME TypeOK, TellingInv, NEW o \in Orders, ApplyFill(o) \/ ApplyEnd(o)
    PROVE  TellingInv'
  <1>1. CASE ApplyFill(o)
    <2> DEFINE r == AddFill(registry[o], NewlyFilled(o), Quantity[o])
    <2>1. /\ registry[o].status \in Live /\ r \in Order
          /\ r.status \in {"PARTIAL", "FILLED"}
          /\ r.filled > registry[o].filled
          /\ r.filled <= broker[o].filled
          /\ r.status = "FILLED" <=> r.filled = Quantity[o]
      BY <1>1, ReportedFill
    <2>2. /\ registry' = [registry EXCEPT ![o] = r] /\ Emit(o, r)
          /\ phase = "apply" /\ todo' = todo \ {o}
          /\ UNCHANGED <<mode, broker, phase, batch, cur, step, report, approved,
                         keys, lapsed>>
      BY <1>1 DEF ApplyFill
    <2> HIDE DEF r
    <2>3. r.filled \in Nat /\ registry[o].filled \in Nat
      BY <2>1 DEF TypeOK, Order
    <2>4. EventInv(o)'
      BY <2>1, <2>2, <2>3, LiveOrderTold, TellingTruth
    <2>5. r.status \in Live => r.status = "PARTIAL" /\ r.filled >= registry[o].filled
      BY <2>1, <2>3 DEF Live
    <2>6. QED
      BY <2>1, <2>2, <2>4, <2>5, PollTells
  <1>2. CASE ApplyEnd(o)
    <2> DEFINE r == [registry[o] EXCEPT !.status = MappedStatus(report[o].st)]
    <2>1. /\ registry' = [registry EXCEPT ![o] = r] /\ Emit(o, r)
          /\ phase = "apply" /\ o \in todo /\ todo' = todo \ {o}
          /\ UNCHANGED <<mode, broker, phase, batch, cur, step, report, approved,
                         keys, lapsed>>
      BY <1>2 DEF ApplyEnd
    <2>2. MappedStatus(report[o].st) \in {"REJECTED", "CANCELLED"}
      BY <1>2 DEF ApplyEnd, ReportedEnd
    <2>3. /\ r \in Order /\ r.status \in {"REJECTED", "CANCELLED"}
          /\ r.status = MappedStatus(report[o].st)
      BY <2>2, TransitionType DEF TypeOK, Status, Terminal
    <2>4. OrderInv(o) /\ registry[o].status \in Live
      BY <2>1 DEF TellingInv, OrderInv, ReportInv
    <2>5. /\ r.status = "REJECTED" => report[o].st = "rejected"
          /\ r.status = "CANCELLED" => report[o].st = "cancelled"
      BY <2>3 DEF MappedStatus
    <2>6. /\ r.status = "REJECTED" => broker[o].st = "rejected"
          /\ r.status = "CANCELLED" => broker[o].st = "cancelled"
      BY <2>4, <2>5 DEF OrderInv, ReportInv
    <2> HIDE DEF r
    <2>7. EventInv(o)'
      BY <2>1, <2>3, <2>4, <2>6, LiveOrderTold, TellingTruth
    <2>8. QED
      BY <2>1, <2>3, <2>4, <2>7, PollTells DEF Live
  <1>3. QED
    BY <1>1, <1>2

LEMMA ExpireTelling ==
    ASSUME TypeOK, TellingInv, NEW o \in Orders, ExpireStale(o)
    PROVE  TellingInv'
  <1> DEFINE r == [registry[o] EXCEPT !.status = "EXPIRED"]
  <1>1. /\ registry' = [registry EXCEPT ![o] = r] /\ Emit(o, r)
        /\ phase = "expire" /\ registry[o].status = "SENT"
        /\ UNCHANGED <<mode, broker, phase, batch, cur, step, report, todo, approved,
                       keys, lapsed>>
    BY DEF ExpireStale
  <1>2. r \in Order /\ r.status = "EXPIRED"
    BY TransitionType DEF TypeOK, Status, Terminal
  <1>3. registry[o].status \in Live /\ o \notin todo
    BY <1>1, ReportsAreAppliedApart DEF Live, TellingInv
  <1> HIDE DEF r
  <1>4. EventInv(o)'
    BY <1>1, <1>2, <1>3, LiveOrderTold, TellingTruth
  <1>5. QED
    BY <1>1, <1>2, <1>3, <1>4, PollTells DEF Live

(* Only what is terminal, or what a crash takes, leaves the registry.      *)
LEMMA RegistryForgets ==
    ASSUME TypeOK, NEW o \in Orders, OrderInv(o),
           registry'[o] \in {registry[o], Absent}, o \notin todo',
           report'[o].filled <= broker[o].filled,
           report'[o].st \notin {"rejected", "cancelled"}, step' = "idle",
           published'[o] = published[o], broker'[o] = broker[o], mode' = mode,
           o \in keys' \cup lapsed' <=> o \in keys \cup lapsed
    PROVE  OrderInv(o)'
  <1>1. KeyInv(o)' /\ PublishInv(o)'
    BY DEF OrderInv, KeyInv, PublishInv, Unsent, Handling
  <1>2. BrokerInv(o)' /\ ReportInv(o)'
    BY DEF OrderInv, BrokerInv, ReportInv
  <1>3. LiveInv(o)'
    BY DEF OrderInv, LiveInv, Absent, Live
  <1>4. FillEvents(o)' = FillEvents(o)
    BY DEF FillEvents
  <1>5. EventInv(o)'
    BY <1>4 DEF OrderInv, EventInv, EventIsTrue
  <1>6. QED
    BY <1>1, <1>2, <1>3, <1>5 DEF OrderInv

(* A report is taken of the broker as it is, for live orders.              *)
LEMMA PollReportTelling ==
    ASSUME TypeOK, TellingInv, NEW R \in SUBSET Polled, NEW U \in SUBSET R,
           PollReport(R, U)
    PROVE  TellingInv'
  <1> SUFFICES ASSUME NEW o \in Orders PROVE OrderInv(o)'
    BY DEF TellingInv
  <1>1. /\ UNCHANGED <<mode, broker, registry, keys, lapsed, published, cur, step>>
        /\ UNCHANGED approved
        /\ todo' = R /\ phase' = "apply" /\ step = "idle"
        /\ report'[o] = IF o \in R
                        THEN [st |-> IF o \in U THEN broker[o].st ELSE "unknown",
                              filled |-> broker[o].filled]
                        ELSE NoRow
    BY DEF PollReport, LoopAt, TypeOK, redisVars
  <1>2. /\ report'[o].filled <= broker[o].filled
        /\ report'[o].st \in {"rejected", "cancelled"} =>
              broker[o].st = report'[o].st
    BY <1>1 DEF NoRow, TypeOK, BrokerOrder
  <1>3. o \in R => registry[o].status \in Live
    BY DEF Polled, LiveOrders
  <1>4. ReportInv(o)'
    BY <1>1, <1>2, <1>3 DEF ReportInv
  <1>5. OrderInv(o) /\ FillEvents(o)' = FillEvents(o)
    BY <1>1 DEF TellingInv, FillEvents
  <1>6. KeyInv(o)' /\ BrokerInv(o)' /\ PublishInv(o)' /\ LiveInv(o)'
    BY <1>1, <1>5
    DEF OrderInv, KeyInv, Unsent, BrokerInv, PublishInv, LiveInv, Handling
  <1>7. EventInv(o)'
    BY <1>1, <1>5 DEF OrderInv, EventInv, EventIsTrue
  <1>8. QED
    BY <1>4, <1>6, <1>7 DEF OrderInv

LEMMA PollTelling ==
    ASSUME TypeOK, TellingInv, Poll
    PROVE  TellingInv'
  <1> USE DEF redisVars
  <1>1. CASE NothingToPoll \/ PollFails
    <2>1. \A o \in Orders : LeavesAlone(o)
      BY <1>1, ReportsAreAppliedApart
      DEF NothingToPoll, PollFails, LoopAt, LeavesAlone, Handling, TellingInv
    <2>2. QED
      BY <2>1, OrderFrame DEF TellingInv
  <1>2. ASSUME NEW o \in Orders, ApplyNothing(o) PROVE TellingInv'
    <2>1. \A p \in Orders : LeavesAlone(p)
      BY <1>2 DEF ApplyNothing, LeavesAlone, Handling
    <2>2. QED
      BY <2>1, OrderFrame DEF TellingInv
  <1>3. CASE AllApplied
    <2>1. ASSUME NEW o \in Orders PROVE OrderInv(o)'
      <3>1. /\ report'[o].filled = 0 /\ report'[o].st = "none"
            /\ broker[o].filled \in Nat /\ step = "idle"
        BY <1>3 DEF AllApplied, NoReport, NoRow, TypeOK, BrokerOrder
      <3>2. QED
        BY <1>3, <3>1, RegistryForgets DEF AllApplied, TellingInv
    <2>2. QED
      BY <2>1 DEF TellingInv
  <1>4. CASE LoopEnds
    <2>1. ASSUME NEW o \in Orders PROVE OrderInv(o)'
      <3>1. /\ registry'[o] \in {registry[o], Absent} /\ step = "idle"
            /\ UNCHANGED <<mode, broker, report, todo, keys, lapsed, published, step>>
            /\ phase = "expire"
        BY <1>4 DEF LoopEnds, TypeOK
      <3>2. OrderInv(o) /\ o \notin todo
        BY <3>1, ReportsAreAppliedApart DEF TellingInv
      <3>3. KeyInv(o)' /\ PublishInv(o)'
        BY <3>1, <3>2 DEF OrderInv, KeyInv, PublishInv, Unsent, Handling
      <3>4. BrokerInv(o)' /\ ReportInv(o)' /\ LiveInv(o)'
        BY <3>1, <3>2 DEF OrderInv, BrokerInv, ReportInv, LiveInv, Absent, Live
      <3>5. FillEvents(o)' = FillEvents(o)
        BY <3>1 DEF FillEvents
      <3>6. EventInv(o)'
        BY <3>1, <3>2, <3>5 DEF OrderInv, EventInv, EventIsTrue
      <3>7. QED
        BY <3>3, <3>4, <3>6 DEF OrderInv
    <2>2. QED
      BY <2>1 DEF TellingInv
  <1>5. QED
    BY <1>1, <1>2, <1>3, <1>4, PollReportTelling, ApplyTelling, ExpireTelling
    DEF Poll

(* A crash loses the registry and nothing else this speaks of.             *)
LEMMA CrashTelling ==
    ASSUME TypeOK, TellingInv, Crash
    PROVE  TellingInv'
  <1>1. ASSUME NEW o \in Orders PROVE OrderInv(o)'
    <2>1. /\ report'[o].filled = 0 /\ report'[o].st = "none"
          /\ broker[o].filled \in Nat /\ todo' = {}
      BY DEF Crash, NoReport, NoRow, TypeOK, BrokerOrder
    <2>2. QED
      BY <2>1, RegistryForgets DEF Crash, TellingInv, redisVars
  <1>2. QED
    BY <1>1 DEF TellingInv

----------------------------------------------------------------------------
LEMMA TellingInvariant ==
    ASSUME Premises
    PROVE  Spec => [](TypeOK /\ AdmissionInv /\ TellingInv)
  <1>1. KeyOutlivesOrder
    BY DEF Premises
  <1>2. Spec => []AdmissionInv
    BY <1>1, AdmissionInvariant
  <1>3. TypeOK /\ AdmissionInv /\ TellingInv /\ [Next]_vars => TellingInv'
    <2> SUFFICES ASSUME TypeOK, AdmissionInv, TellingInv, [Next]_vars
                 PROVE  TellingInv'
      OBVIOUS
    <2>1. CASE Environment
      BY <2>1, EnvironmentTelling
    <2>2. CASE Engine
      BY <2>2, LoopTelling, HandleTelling, PollTelling DEF Engine
    <2>3. CASE Crash
      BY <2>3, CrashTelling
    <2>4. CASE UNCHANGED vars
      <3>1. \A o \in Orders : LeavesAlone(o)
        BY <2>4 DEF vars, engineVars, redisVars, LeavesAlone, Handling
      <3>2. QED
        BY <3>1, OrderFrame DEF TellingInv
    <2>5. QED
      BY <2>1, <2>2, <2>3, <2>4 DEF Next
  <1>4. QED
    BY <1>2, <1>3, InitTelling, TypeCorrect, PTL DEF Spec

(* Downstream never hears of an order again after its last word: neither a *)
(* redelivery, a report however old nor the ack timeout reopens an order,  *)
(* whatever crashes in between.                                            *)
THEOREM LastWordIsLast ==
    ASSUME Premises
    PROVE  Spec => []TerminalEventIsLast
  <1>1. TellingInv => TerminalEventIsLast
    BY DEF TellingInv, OrderInv, EventInv, EventIsTrue, TerminalEventIsLast
  <1>2. QED
    BY <1>1, TellingInvariant, PTL

(* Every fill told of happened at the broker and every ending told of is   *)
(* the broker's, or of an order it never acknowledged.                     *)
THEOREM EventsAreTrue ==
    ASSUME Premises
    PROVE  Spec => []EventsAreTruthful
  <1>1. TypeOK /\ TellingInv => FillsAreTruthful
    BY DEF TellingInv, OrderInv, EventInv, EventIsTrue, FillsAreTruthful, FillEvents
  <1>2. TypeOK /\ TellingInv => EndingsAreTruthful
    BY DEF TellingInv, OrderInv, EventInv, EventIsTrue, EndingsAreTruthful
  <1>3. TypeOK /\ TellingInv => EventsAreTruthful
    BY <1>1, <1>2 DEF EventsAreTruthful
  <1>4. QED
    BY <1>3, TellingInvariant, PTL

----------------------------------------------------------------------------
(* The refinement.  What an event does to what was told and to the verdict *)
(* of its order.                                                           *)

LEMMA ToldFrame ==
    ASSUME NEW o \in Orders, published'[o] = published[o], mode' = mode
    PROVE  ToldFilled(o)' = ToldFilled(o) /\ Verdict(o)' = Verdict(o)
  <1>1. FillEvents(o)' = FillEvents(o)
    BY DEF FillEvents
  <1>2. LastFill(o)' = LastFill(o)
    BY <1>1 DEF LastFill
  <1>3. QED
    BY <1>1, <1>2 DEF ToldFilled, Verdict

(* Outside live mode the promise has nothing to say.                       *)
LEMMA ToldOnlyWhenLive ==
    ASSUME NEW o \in Orders, mode # "live"
    PROVE  ToldFilled(o) = 0 /\ Verdict(o) = "none"
  BY DEF ToldFilled, Verdict

LEMMA LastFillIsLast ==
    ASSUME NEW o \in Orders, NEW m \in FillEvents(o),
           \A j \in FillEvents(o) : j <= m
    PROVE  LastFill(o) = m
  <1>1. FillEvents(o) \subseteq Int
    BY DEF FillEvents
  <1>2. /\ LastFill(o) \in FillEvents(o)
        /\ \A j \in FillEvents(o) : j <= LastFill(o)
    BY DEF LastFill
  <1>3. QED
    BY <1>1, <1>2

(* What was told of an order is in one of its events, and none says more.  *)
LEMMA ToldIsAnEvent ==
    ASSUME TypeOK, NEW o \in Orders, EventInv(o)
    PROVE  /\ ToldFilled(o) \in Nat
           /\ \/ ToldFilled(o) = 0
              \/ /\ FillEvents(o) # {}
                 /\ \E k \in FillEvents(o) : ToldFilled(o) = published[o][k].filled
  <1>1. CASE mode # "live" \/ FillEvents(o) = {}
    BY <1>1 DEF ToldFilled
  <1>2. CASE mode = "live" /\ FillEvents(o) # {}
    <2>1. PICK m \in FillEvents(o) : \A j \in FillEvents(o) : j <= m
      BY <1>2 DEF EventInv
    <2>2. LastFill(o) = m
      BY <2>1, LastFillIsLast
    <2>3. ToldFilled(o) = published[o][m].filled
      BY <1>2, <2>2 DEF ToldFilled
    <2>4. published[o][m].filled \in Nat
      BY ToldEvent DEF FillEvents
    <2>5. QED
      BY <1>2, <2>3, <2>4
  <1>3. QED
    BY <1>1, <1>2

VerdictOf(s) ==
    CASE s = "FILLED"    -> "filled"
      [] s = "REJECTED"  -> "rejected"
      [] s = "CANCELLED" -> "cancelled"
      [] s = "EXPIRED"   -> "expired"
      [] OTHER           -> "none"

LEMMA EventChangesPromise ==
    ASSUME TypeOK, NEW o \in Orders, NEW r, Emit(o, r), mode = "live", mode' = mode,
           EventInv(o),
           \A k \in 1..Len(published[o]) : published[o][k].status \notin Terminal
    PROVE  /\ Verdict(o) = "none"
           /\ Verdict(o)' = VerdictOf(r.status)
           /\ r.status \in {"PARTIAL", "FILLED"} => ToldFilled(o)' = r.filled
           /\ r.status \notin {"PARTIAL", "FILLED"} =>
                 ToldFilled(o)' = ToldFilled(o)
           /\ \A p \in Orders \ {o} : /\ ToldFilled(p)' = ToldFilled(p)
                                       /\ Verdict(p)' = Verdict(p)
  <1> DEFINE q == published'[o]
  <1>1. PICK n \in Nat :
           /\ n = Len(published[o]) /\ Len(q) = n + 1
           /\ \A k \in 1..n : q[k] = published[o][k]
           /\ q[n + 1].status = r.status /\ q[n + 1].filled = r.filled
           /\ \A p \in Orders \ {o} : published'[p] = published[p]
    BY OneMoreEvent
  <1>2. Verdict(o) = "none"
    <2>1. CASE published[o] = <<>>
      BY <2>1 DEF Verdict
    <2>2. CASE published[o] # <<>>
      <3>1. published[o] \in Seq(Events)
        BY DEF TypeOK
      <3>2. n \in 1..n
        BY <1>1, <2>2, <3>1
      <3>3. published[o][n].status \notin Terminal
        BY <1>1, <3>2
      <3>4. QED
        BY <1>1, <2>2, <3>3 DEF Verdict, Terminal
    <2>3. QED
      BY <2>1, <2>2
  <1>3. Verdict(o)' = VerdictOf(r.status)
    <2>1. q # <<>> /\ q[Len(q)].status = r.status
      BY <1>1
    <2>2. QED
      BY <2>1 DEF Verdict, VerdictOf
  <1>4. /\ FillEvents(o)' =
              IF r.status \in {"PARTIAL", "FILLED"}
              THEN FillEvents(o) \cup {n + 1} ELSE FillEvents(o)
        /\ FillEvents(o) \subseteq 1..n
    BY <1>1 DEF FillEvents
  <1>5. ASSUME r.status \in {"PARTIAL", "FILLED"} PROVE ToldFilled(o)' = r.filled
    <2>1. n + 1 \in FillEvents(o)' /\ \A j \in FillEvents(o)' : j <= n + 1
      BY <1>4, <1>5
    <2>2. LastFill(o)' = n + 1
      <3>1. FillEvents(o)' \subseteq Int
        BY <1>4
      <3>2. /\ LastFill(o)' \in FillEvents(o)'
            /\ \A j \in FillEvents(o)' : j <= LastFill(o)'
        BY <2>1 DEF LastFill
      <3>3. QED
        BY <2>1, <3>1, <3>2
    <2>3. QED
      BY <1>1, <2>1, <2>2 DEF ToldFilled
  <1>6. ASSUME r.status \notin {"PARTIAL", "FILLED"}
        PROVE  ToldFilled(o)' = ToldFilled(o)
    <2>1. FillEvents(o)' = FillEvents(o)
      BY <1>4, <1>6
    <2>2. LastFill(o)' = LastFill(o)
      BY <2>1 DEF LastFill
    <2>3. CASE FillEvents(o) = {}
      BY <2>1, <2>3 DEF ToldFilled
    <2>4. CASE FillEvents(o) # {}
      <3>1. LastFill(o) \in FillEvents(o)
        BY <2>4 DEF LastFill, EventInv
      <3>2. q[LastFill(o)] = published[o][LastFill(o)]
        BY <1>1, <1>4, <3>1
      <3>3. QED
        BY <2>1, <2>2, <3>2 DEF ToldFilled
    <2>5. QED
      BY <2>3, <2>4
  <1>7. \A p \in Orders \ {o} : ToldFilled(p)' = ToldFilled(p) /\ Verdict(p)' = Verdict(p)
    BY <1>1, ToldFrame
  <1>8. QED
    BY <1>2, <1>3, <1>5, <1>6, <1>7

(* The variables of the promise, as the engine's state gives them.         *)
Placed   == [o \in Orders |-> broker[o].placed]
Filled   == [o \in Orders |-> broker[o].filled]
Ended    == [o \in Orders |-> IF broker[o].st \in {"rejected", "cancelled"}
                              THEN broker[o].st ELSE "open"]
Told     == [o \in Orders |-> ToldFilled(o)]
Verdicts == [o \in Orders |-> Verdict(o)]

(* Steps that neither place, fill nor tell.                                *)
LEMMA PromiseFrame ==
    ASSUME UNCHANGED <<mode, broker, published>>
    PROVE  UNCHANGED Promise!vars
  <1>1. \A o \in Orders : ToldFilled(o)' = ToldFilled(o) /\ Verdict(o)' = Verdict(o)
    BY ToldFrame
  <1>2. QED
    BY <1>1 DEF Promise!vars

(* A change of one order at the broker, nothing being told.                *)
LEMMA BrokerChange ==
    ASSUME NEW o \in Orders, TypeOK, UNCHANGED <<mode, published>>,
           NEW b, broker' = [broker EXCEPT ![o] = b]
    PROVE  /\ broker'[o] = b
           /\ Placed' = [Placed EXCEPT ![o] = b.placed]
           /\ Filled' = [Filled EXCEPT ![o] = b.filled]
           /\ Ended' = [Ended EXCEPT ![o] =
                 IF b.st \in {"rejected", "cancelled"} THEN b.st ELSE "open"]
           /\ Told' = Told /\ Verdicts' = Verdicts
  <1>1. \A p \in Orders : ToldFilled(p)' = ToldFilled(p) /\ Verdict(p)' = Verdict(p)
    BY ToldFrame
  <1>2. broker'[o] = b /\ \A p \in Orders \ {o} : broker'[p] = broker[p]
    BY DEF TypeOK
  <1>3. Told' = Told /\ Verdicts' = Verdicts
    BY <1>1 DEF Told, Verdicts
  <1>4. Placed' = [Placed EXCEPT ![o] = b.placed]
    <2>1. \A p \in Orders :
             broker'[p].placed = IF p = o THEN b.placed ELSE broker[p].placed
      BY <1>2
    <2>2. QED
      BY <2>1 DEF Placed
  <1>5. Filled' = [Filled EXCEPT ![o] = b.filled]
    <2>1. \A p \in Orders :
             broker'[p].filled = IF p = o THEN b.filled ELSE broker[p].filled
      BY <1>2
    <2>2. QED
      BY <2>1 DEF Filled
  <1>6. Ended' = [Ended EXCEPT ![o] =
           IF b.st \in {"rejected", "cancelled"} THEN b.st ELSE "open"]
    BY <1>2 DEF Ended
  <1>7. QED
    BY <1>2, <1>3, <1>4, <1>5, <1>6

LEMMA BrokerKeepsPromise ==
    ASSUME TypeOK, AdmissionInv, TellingInv, NEW o \in Orders,
           BrokerFills(o) \/ BrokerEnds(o)
    PROVE  Promise!Next
  <1>1. /\ broker[o].st = "working" /\ broker[o].placed = 1
        /\ broker[o].filled < Quantity[o] /\ broker[o].filled \in Nat
    <2>1. broker[o].st = "working" /\ BrokerInv(o)
      BY DEF BrokerFills, BrokerEnds, TellingInv, OrderInv
    <2>2. broker[o].filled \in Nat /\ Quantity[o] \in Nat
      BY OrdersAssumption DEF TypeOK, BrokerOrder
    <2>3. QED
      BY <2>1, <2>2 DEF BrokerInv, AdmissionInv
  <1>2. UNCHANGED <<mode, published>>
    BY DEF BrokerFills, BrokerEnds, redisVars
  <1>3. CASE BrokerFills(o)
    <2>1. PICK n \in 1..Quantity[o] :
             /\ n > broker[o].filled
             /\ broker' = [broker EXCEPT ![o] =
                   [placed |-> @.placed,
                    st     |-> IF n = Quantity[o] THEN "complete" ELSE "working",
                    filled |-> n]]
      BY <1>3 DEF BrokerFills
    <2> DEFINE b == [placed |-> broker[o].placed,
                     st     |-> IF n = Quantity[o] THEN "complete" ELSE "working",
                     filled |-> n]
    <2>2. /\ broker' = [broker EXCEPT ![o] = b]
          /\ b.placed = 1 /\ b.filled = n /\ b.st \in {"working", "complete"}
      BY <1>1, <2>1
    <2> HIDE DEF b
    <2>3. /\ Placed[o] = 1 /\ Ended[o] = "open" /\ Filled[o] = broker[o].filled
          /\ Placed' = [Placed EXCEPT ![o] = 1]
          /\ Filled' = [Filled EXCEPT ![o] = n]
          /\ Ended' = [Ended EXCEPT ![o] = "open"]
          /\ Told' = Told /\ Verdicts' = Verdicts
      BY <1>1, <1>2, <2>2, BrokerChange DEF Placed, Ended, Filled
    <2>4. Placed' = Placed /\ Ended' = Ended
      BY <2>3 DEF Placed, Ended
    <2>5. n \in Filled[o] + 1 .. Quantity[o]
      BY <1>1, <2>1, <2>3
    <2>6. Promise!Fill(o)
      BY <2>3, <2>4, <2>5
      DEF Promise!Fill, Placed, Filled, Ended, Told, Verdicts
    <2>7. QED
      BY <2>6 DEF Promise!Next
  <1>4. CASE BrokerEnds(o)
    <2>1. PICK e \in {"rejected", "cancelled"} :
             broker' = [broker EXCEPT ![o] =
                [placed |-> @.placed, st |-> e, filled |-> @.filled]]
      BY <1>4 DEF BrokerEnds
    <2> DEFINE b == [placed |-> broker[o].placed, st |-> e,
                     filled |-> broker[o].filled]
    <2>2. /\ broker' = [broker EXCEPT ![o] = b]
          /\ b.placed = 1 /\ b.filled = broker[o].filled /\ b.st = e
      BY <1>1, <2>1
    <2> HIDE DEF b
    <2>3. /\ Placed[o] = 1 /\ Ended[o] = "open" /\ Filled[o] = broker[o].filled
          /\ Filled[o] < Quantity[o]
          /\ Placed' = [Placed EXCEPT ![o] = 1]
          /\ Filled' = [Filled EXCEPT ![o] = broker[o].filled]
          /\ Ended' = [Ended EXCEPT ![o] = e]
          /\ Told' = Told /\ Verdicts' = Verdicts
      <3>1. /\ Placed' = [Placed EXCEPT ![o] = b.placed]
            /\ Filled' = [Filled EXCEPT ![o] = b.filled]
            /\ Ended' = [Ended EXCEPT ![o] =
                  IF b.st \in {"rejected", "cancelled"} THEN b.st ELSE "open"]
            /\ Told' = Told /\ Verdicts' = Verdicts
        BY <1>2, <2>2, BrokerChange
      <3>2. Placed[o] = 1 /\ Ended[o] = "open" /\ Filled[o] = broker[o].filled
        BY <1>1 DEF Placed, Ended, Filled
      <3>3. QED
        BY <1>1, <2>2, <3>1, <3>2
    <2>4. Placed' = Placed /\ Filled' = Filled
      BY <2>3 DEF Placed, Filled
    <2>5. Promise!End(o)
      BY <2>3, <2>4 DEF Promise!End, Placed, Filled, Ended, Told, Verdicts
    <2>6. QED
      BY <2>5 DEF Promise!Next
  <1>5. QED
    BY <1>3, <1>4

LEMMA SendKeepsPromise ==
    ASSUME TypeOK, AdmissionInv, TellingInv,
           NEW reply \in Replies, SendLive(reply)
    PROVE  Promise!Next \/ UNCHANGED Promise!vars
  <1>1. PICK o \in Orders : o = approved.log[cur]
    BY EntryIsOrder DEF SendLive, TypeOK
  <1>2. /\ UNCHANGED <<mode, published>>
        /\ \/ broker' = broker
           \/ broker' = [broker EXCEPT ![o] = AtBroker(broker[o], reply)]
    BY <1>1 DEF SendLive, redisVars
  <1>3. CASE broker' = broker
    BY <1>2, <1>3, PromiseFrame
  <1>4. CASE broker' = [broker EXCEPT ![o] = AtBroker(broker[o], reply)]
    <2>1. OrderInv(o) /\ Unsent(o)
      BY <1>1, SendingOrder DEF SendLive
    <2>2. broker[o].placed = 0 /\ broker[o].st = "none" /\ Verdict(o) = "none"
      BY <2>1 DEF OrderInv, Unsent, BrokerInv, Verdict
    <2>3. LET b == AtBroker(broker[o], reply) IN
          /\ b.placed = 1 /\ b.filled = broker[o].filled
          /\ b.st \in {"rejected", "working"}
      BY <2>2 DEF AtBroker
    <2>4. /\ Placed[o] = 0 /\ Verdicts[o] = "none" /\ Ended[o] = "open"
          /\ Filled[o] = broker[o].filled
          /\ Placed' = [Placed EXCEPT ![o] = 1]
          /\ Filled' = [Filled EXCEPT ![o] = broker[o].filled]
          /\ \/ Ended' = [Ended EXCEPT ![o] = "rejected"]
             \/ Ended' = [Ended EXCEPT ![o] = "open"]
          /\ Told' = Told /\ Verdicts' = Verdicts
      <3> DEFINE b == AtBroker(broker[o], reply)
      <3>1. /\ Placed' = [Placed EXCEPT ![o] = b.placed]
            /\ Filled' = [Filled EXCEPT ![o] = b.filled]
            /\ Ended' = [Ended EXCEPT ![o] =
                  IF b.st \in {"rejected", "cancelled"} THEN b.st ELSE "open"]
            /\ Told' = Told /\ Verdicts' = Verdicts
        BY <1>2, <1>4, BrokerChange
      <3>2. b.placed = 1 /\ b.filled = broker[o].filled /\ b.st \in {"rejected", "working"}
        BY <2>3
      <3> HIDE DEF b
      <3>3. QED
        BY <2>2, <3>1, <3>2 DEF Placed, Filled, Ended, Verdicts
    <2>5. Filled' = Filled /\ Ended' \in {Ended, [Ended EXCEPT ![o] = "rejected"]}
      BY <2>4 DEF Filled, Ended
    <2>6. Promise!Place(o)
      BY <2>4, <2>5 DEF Promise!Place, Placed, Filled, Ended, Told, Verdicts
    <2>7. QED
      BY <2>6 DEF Promise!Next
  <1>5. QED
    BY <1>2, <1>3, <1>4

(* An event about an order nothing final was told of: more of its fills,   *)
(* or its end, or neither.                                                 *)
LEMMA TellKeepsPromise ==
    ASSUME TypeOK, TellingInv, NEW o \in Orders, NEW r, Emit(o, r),
           UNCHANGED <<mode, broker>>, r.status \in Status, r.filled \in Nat,
           \A k \in 1..Len(published[o]) : published[o][k].status \notin Terminal,
           mode = "live" =>
              /\ r.status \in {"PARTIAL", "FILLED"} =>
                    /\ ToldFilled(o) < r.filled /\ r.filled <= broker[o].filled
                    /\ r.status = "FILLED" <=> r.filled = Quantity[o]
              /\ r.status = "REJECTED" => broker[o].st \in {"none", "rejected"}
              /\ r.status = "CANCELLED" => broker[o].st = "cancelled"
              /\ r.status = "EXPIRED" => ToldFilled(o) = 0
    PROVE  Promise!Next \/ UNCHANGED Promise!vars
  <1>1. CASE mode # "live"
    <2>1. \A p \in Orders : /\ ToldFilled(p)' = ToldFilled(p)
                           /\ Verdict(p)' = Verdict(p)
      BY <1>1 DEF ToldFilled, Verdict
    <2>2. QED
      BY <2>1 DEF Promise!vars
  <1>2. CASE mode = "live"
    <2>1. OrderInv(o) /\ EventInv(o)
      BY DEF TellingInv, OrderInv
    <2>2. /\ Verdict(o) = "none" /\ Verdict(o)' = VerdictOf(r.status)
          /\ r.status \in {"PARTIAL", "FILLED"} => ToldFilled(o)' = r.filled
          /\ r.status \notin {"PARTIAL", "FILLED"} =>
                ToldFilled(o)' = ToldFilled(o)
          /\ \A p \in Orders \ {o} : /\ ToldFilled(p)' = ToldFilled(p)
                                      /\ Verdict(p)' = Verdict(p)
      BY <1>2, <2>1, EventChangesPromise
    <2>3. /\ Placed' = Placed /\ Filled' = Filled /\ Ended' = Ended
          /\ Verdicts' = [Verdicts EXCEPT ![o] = VerdictOf(r.status)]
          /\ r.status \in {"PARTIAL", "FILLED"} =>
                Told' = [Told EXCEPT ![o] = r.filled]
          /\ r.status \notin {"PARTIAL", "FILLED"} => Told' = Told
      BY <2>2 DEF Placed, Filled, Ended, Told, Verdicts
    <2>4. /\ Verdicts[o] = "none" /\ Told[o] = ToldFilled(o)
          /\ Filled[o] = broker[o].filled /\ Placed[o] = broker[o].placed
          /\ ToldFilled(o) \in Nat /\ broker[o].filled \in Nat
      BY <2>1, <2>2, ToldIsAnEvent DEF Verdicts, Told, Filled, Placed, TypeOK, BrokerOrder
    <2>5. CASE r.status \in {"PARTIAL", "FILLED"}
      <3>1. r.filled \in Told[o] + 1 .. Filled[o]
        BY <1>2, <2>4, <2>5
      <3>2. Told' = [Told EXCEPT ![o] = r.filled]
        BY <2>3, <2>5
      <3>3. Verdicts' = IF r.filled = Quantity[o]
                        THEN [Verdicts EXCEPT ![o] = "filled"] ELSE Verdicts
        <4>1. CASE r.filled = Quantity[o]
          BY <1>2, <2>3, <2>5, <4>1 DEF VerdictOf
        <4>2. CASE r.filled # Quantity[o]
          <5>1. VerdictOf(r.status) = "none"
            BY <1>2, <2>5, <4>2 DEF VerdictOf
          <5>2. QED
            BY <2>3, <2>4, <4>2, <5>1 DEF Verdicts
        <4>3. QED
          BY <4>1, <4>2
      <3>4. Promise!TellFill(o)
        BY <2>3, <2>4, <3>1, <3>2, <3>3
        DEF Promise!TellFill, Placed, Filled, Ended, Told, Verdicts
      <3>5. QED
        BY <3>4 DEF Promise!Next
    <2>6. CASE r.status \in {"REJECTED", "CANCELLED", "EXPIRED"}
      <3>1. Told' = Told /\ BrokerInv(o)
        BY <2>1, <2>3, <2>6 DEF OrderInv
      <3>2. \/ Ended[o] # "open" /\ Verdicts' = [Verdicts EXCEPT ![o] = Ended[o]]
            \/ Placed[o] = 0 /\ Verdicts' = [Verdicts EXCEPT ![o] = "rejected"]
            \/ Told[o] = 0 /\ Verdicts' = [Verdicts EXCEPT ![o] = "expired"]
        <4>1. CASE r.status = "EXPIRED"
          BY <1>2, <2>3, <2>4, <4>1 DEF VerdictOf
        <4>2. CASE r.status = "CANCELLED"
          <5>1. Ended[o] = "cancelled" /\ VerdictOf(r.status) = "cancelled"
            BY <1>2, <4>2 DEF Ended, VerdictOf
          <5>2. QED
            BY <2>3, <5>1
        <4>3. CASE r.status = "REJECTED"
          <5>1. VerdictOf(r.status) = "rejected"
            BY <4>3 DEF VerdictOf
          <5>2. CASE broker[o].st = "rejected"
            BY <2>3, <5>1, <5>2 DEF Ended
          <5>3. CASE broker[o].st = "none"
            BY <2>3, <2>4, <3>1, <5>1, <5>3 DEF BrokerInv
          <5>4. QED
            BY <1>2, <4>3, <5>2, <5>3
        <4>4. QED
          BY <2>6, <4>1, <4>2, <4>3
      <3>3. Promise!TellEnd(o)
        BY <2>3, <2>4, <3>1, <3>2
        DEF Promise!TellEnd, Placed, Filled, Ended, Told, Verdicts
      <3>4. QED
        BY <3>3 DEF Promise!Next
    <2>7. CASE r.status \in {"PENDING", "SENT", "ACKED"}
      <3>1. VerdictOf(r.status) = "none" /\ Told' = Told
        BY <2>3, <2>7 DEF VerdictOf
      <3>2. Verdicts' = Verdicts
        BY <2>3, <2>4, <3>1 DEF Verdicts
      <3>3. QED
        BY <2>3, <3>1, <3>2
        DEF Promise!vars, Placed, Filled, Ended, Told, Verdicts
    <2>8. QED
      BY <2>5, <2>6, <2>7 DEF Status, Live, Terminal
  <1>3. QED
    BY <1>1, <1>2

(* What was told of a live order is no more than the registry holds.       *)
LEMMA LiveOrderToldFilled ==
    ASSUME TypeOK, TellingInv, NEW o \in Orders, registry[o].status \in Live
    PROVE  /\ ToldFilled(o) \in Nat /\ ToldFilled(o) <= registry[o].filled
           /\ registry[o].status = "SENT" => ToldFilled(o) = 0
  <1>1. EventInv(o) /\ registry[o].filled \in Nat
    BY DEF TellingInv, OrderInv, TypeOK, Order
  <1>2. \A j \in FillEvents(o) : published[o][j].filled <= registry[o].filled
    BY LiveOrderTold
  <1>3. registry[o].status = "SENT" => FillEvents(o) = {}
    BY LiveOrderTold DEF FillEvents
  <1>4. QED
    BY <1>1, <1>2, <1>3, ToldIsAnEvent

LEMMA PublishKeepsPromise ==
    ASSUME TypeOK, TellingInv, Publish
    PROVE  Promise!Next \/ UNCHANGED Promise!vars
  <1>1. PICK o \in Orders : o = approved.log[cur]
    BY EntryIsOrder DEF Publish, TypeOK
  <1>2. /\ UNCHANGED <<mode, broker>> /\ step = "publish"
        /\ published' = published \/ Emit(o, registry[o])
    BY <1>1 DEF Publish
  <1>3. CASE published' = published
    BY <1>2, <1>3, PromiseFrame
  <1>4. CASE Emit(o, registry[o])
    <2>1. PublishInv(o) /\ Handling(o, "publish")
      BY <1>1, <1>2 DEF TellingInv, OrderInv, Handling
    <2>2. /\ published[o] = <<>> /\ Len(published[o]) = 0
          /\ registry[o].status \in {"SENT", "ACKED", "REJECTED", "FILLED"}
          /\ registry[o].status = "FILLED" => mode # "live"
          /\ registry[o].status = "REJECTED" /\ mode = "live" =>
                broker[o].st \in {"none", "rejected"}
      BY <2>1 DEF PublishInv
    <2>3. registry[o].status \in Status /\ registry[o].filled \in Nat
      BY <2>2 DEF TypeOK, Order, Status, Live, Terminal
    <2>4. QED
      BY <1>2, <1>4, <2>2, <2>3, TellKeepsPromise
  <1>5. QED
    BY <1>2, <1>3, <1>4

LEMMA PollKeepsPromise ==
    ASSUME TypeOK, TellingInv, NEW o \in Orders,
           ApplyFill(o) \/ ApplyEnd(o) \/ ExpireStale(o)
    PROVE  Promise!Next \/ UNCHANGED Promise!vars
  <1>1. CASE ApplyFill(o)
    <2> DEFINE r == AddFill(registry[o], NewlyFilled(o), Quantity[o])
    <2>1. /\ registry[o].status \in Live /\ r \in Order
          /\ r.status \in {"PARTIAL", "FILLED"}
          /\ r.filled > registry[o].filled
          /\ r.filled <= broker[o].filled
          /\ r.status = "FILLED" <=> r.filled = Quantity[o]
      BY <1>1, ReportedFill
    <2>2. Emit(o, r) /\ UNCHANGED <<mode, broker>>
      BY <1>1 DEF ApplyFill
    <2> HIDE DEF r
    <2>3. /\ r.filled \in Nat /\ registry[o].filled \in Nat
          /\ r.status \in Status
      BY <2>1 DEF TypeOK, Order, Status, Live, Terminal
    <2>4. ToldFilled(o) < r.filled
      BY <2>1, <2>3, LiveOrderToldFilled
    <2>5. QED
      BY <2>1, <2>2, <2>3, <2>4, LiveOrderTold, TellKeepsPromise
  <1>2. CASE ApplyEnd(o)
    <2> DEFINE r == [registry[o] EXCEPT !.status = MappedStatus(report[o].st)]
    <2>1. Emit(o, r) /\ o \in todo /\ UNCHANGED <<mode, broker>>
      BY <1>2 DEF ApplyEnd
    <2>2. MappedStatus(report[o].st) \in {"REJECTED", "CANCELLED"}
      BY <1>2 DEF ApplyEnd, ReportedEnd
    <2>3. /\ r \in Order /\ r.status \in {"REJECTED", "CANCELLED"}
          /\ r.status = MappedStatus(report[o].st)
      BY <2>2, TransitionType DEF TypeOK, Status, Terminal
    <2>4. OrderInv(o) /\ registry[o].status \in Live
      BY <2>1 DEF TellingInv, OrderInv, ReportInv
    <2>5. /\ r.status = "REJECTED" => broker[o].st = "rejected"
          /\ r.status = "CANCELLED" => broker[o].st = "cancelled"
      BY <2>3, <2>4 DEF MappedStatus, OrderInv, ReportInv
    <2> HIDE DEF r
    <2>6. r.filled \in Nat /\ r.status \in Status
      BY <2>3 DEF Order, Status, Terminal
    <2>7. QED
      BY <2>1, <2>3, <2>4, <2>5, <2>6, LiveOrderTold, TellKeepsPromise
  <1>3. CASE ExpireStale(o)
    <2> DEFINE r == [registry[o] EXCEPT !.status = "EXPIRED"]
    <2>1. Emit(o, r) /\ registry[o].status = "SENT" /\ UNCHANGED <<mode, broker>>
      BY <1>3 DEF ExpireStale
    <2>2. r \in Order /\ r.status = "EXPIRED"
      BY TransitionType DEF TypeOK, Status, Terminal
    <2>3. registry[o].status \in Live
      BY <2>1 DEF Live
    <2> HIDE DEF r
    <2>4. r.filled \in Nat /\ r.status \in Status
      BY <2>2 DEF Order, Status, Terminal
    <2>5. QED
      BY <2>1, <2>2, <2>3, <2>4, LiveOrderTold, LiveOrderToldFilled, TellKeepsPromise
  <1>4. QED
    BY <1>1, <1>2, <1>3

(* ExecutionEngine implements OrderPromise: placed at most once, told only *)
(* what happened, and after one true verdict nothing more, however streams *)
(* redeliver, reports age, calls fail and the process restarts.            *)
THEOREM EngineKeepsPromise ==
    ASSUME Premises
    PROVE  Spec => KeepsPromise
  <1>1. Init => Promise!Init
    <2> SUFFICES ASSUME Init PROVE Promise!Init
      OBVIOUS
    <2>1. \A o \in Orders : published[o] = <<>> /\ FillEvents(o) = {}
      BY NothingTold DEF Init
    <2>2. \A o \in Orders : ToldFilled(o) = 0 /\ Verdict(o) = "none"
      BY <2>1 DEF ToldFilled, Verdict
    <2>3. QED
      BY <2>2 DEF Init, Promise!Init
  <1>2. TypeOK /\ AdmissionInv /\ TellingInv /\ [Next]_vars
           => [Promise!Next]_(Promise!vars)
    <2> SUFFICES ASSUME TypeOK, AdmissionInv, TellingInv, [Next]_vars
                 PROVE  Promise!Next \/ UNCHANGED Promise!vars
      OBVIOUS
    <2> USE DEF engineVars, redisVars, histVars
    <2>1. CASE Environment
      <3>1. ASSUME NEW o \in Orders, BrokerFills(o) \/ BrokerEnds(o)
            PROVE  Promise!Next
        BY <3>1, BrokerKeepsPromise
      <3>2. ASSUME NEW o \in Orders, Approve(o) \/ KeyExpires(o)
            PROVE  UNCHANGED Promise!vars
        BY <3>2, PromiseFrame DEF Approve, KeyExpires
      <3>3. CASE Halt \/ ClearHalt
        BY <3>3, PromiseFrame DEF Halt, ClearHalt
      <3>4. QED
        BY <2>1, <3>1, <3>2, <3>3 DEF Environment
    <2>2. CASE Handle
      <3>1. ASSUME NEW i \in batch,
                   Skip(i) \/ Refuse(i) \/ CannotBuild(i) \/ Accept(i)
            PROVE  UNCHANGED Promise!vars
        BY <3>1, PromiseFrame DEF Skip, Refuse, CannotBuild, Accept
      <3>2. CASE SendDry \/ SendUnresolved \/ DeadLetter \/ Ack
        BY <3>2, PromiseFrame DEF SendDry, SendUnresolved, DeadLetter, Ack
      <3>3. QED
        BY <2>2, <3>1, <3>2, SendKeepsPromise, PublishKeepsPromise DEF Handle
    <2>3. CASE Poll
      <3>1. CASE NothingToPoll \/ PollFails \/ AllApplied \/ LoopEnds
        BY <3>1, PromiseFrame DEF NothingToPoll, PollFails, AllApplied, LoopEnds
      <3>2. ASSUME NEW R \in SUBSET Polled, NEW U \in SUBSET R, PollReport(R, U)
            PROVE  UNCHANGED Promise!vars
        BY <3>2, PromiseFrame DEF PollReport
      <3>3. ASSUME NEW o \in Orders, ApplyNothing(o) PROVE UNCHANGED Promise!vars
        BY <3>3, PromiseFrame DEF ApplyNothing
      <3>4. QED
        BY <2>3, <3>1, <3>2, <3>3, PollKeepsPromise DEF Poll
    <2>4. CASE Read \/ \E S \in SUBSET approved.pending : ClaimStale(S)
      BY <2>4, PromiseFrame DEF Read, ClaimStale
    <2>5. CASE Crash \/ UNCHANGED vars
      BY <2>5, PromiseFrame DEF Crash, vars
    <2>6. QED
      BY <2>1, <2>2, <2>3, <2>4, <2>5 DEF Next, Engine
  <1>3. QED
    BY <1>1, <1>2, TellingInvariant, PTL DEF Spec, KeepsPromise, Promise!Spec

============================================================================
