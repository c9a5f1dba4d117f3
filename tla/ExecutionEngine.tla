-------------------------- MODULE ExecutionEngine --------------------------
(***************************************************************************)
(* src/execution_engine.py with src/order_state.py: the process that turns *)
(* approved orders into broker orders and tells the rest of the system     *)
(* what became of them.                                                    *)
(*                                                                         *)
(* The process loops: reclaim stale entries, handle them; read new         *)
(* entries, handle them; poll the broker's order report; expire the        *)
(* unacknowledged.  It may crash between any two effects another process   *)
(* can see, and a call to Redis may fail under the handler; the registry   *)
(* of orders is lost in a crash, the dedupe keys and the consumer group    *)
(* are not.                                                                *)
(*                                                                         *)
(* The environment: the risk manager approves (and, being at-least-once    *)
(* itself, may approve again), the operator or a breaker halts, the        *)
(* broker fills, cancels and rejects.                                      *)
(***************************************************************************)
EXTENDS ConsumerGroup, FiniteSets

CONSTANTS
    Orders,         \* client order ids
    Opens,          \* those whose intent opens a position
    Malformed,      \* those approved without a quantity
    Unresolvable,   \* those whose instrument the master does not know
    Quantity,       \* shares ordered
    Modes,          \* modes the process is started in: "dry_run", "live"
    Replies,        \* what place_order() and its answer may come to
    ReadCount,      \* COUNT of the consumer's XREADGROUP
    Keep,           \* terminal orders the registry keeps
    KeyOutlivesOrder,   \* a dedupe key lives until its order is settled
    MaxLog,         \* bound: approved-order entries
    MaxFaults       \* bound: crashes and failed calls to Redis

(* place_order answers with an acknowledgement, with one that carries no   *)
(* order number, or with a rejection; it raises, or it returns an error    *)
(* payload (kotak_api), before or after the order reached the exchange.    *)
EveryReply == {"ok", "ok_no_id", "rejected",
               "lost_before", "lost_after", "error_before", "error_after"}

ASSUME OrdersAssumption ==
    /\ Opens \subseteq Orders /\ Malformed \subseteq Orders
    /\ Unresolvable \subseteq Orders
    /\ Quantity \in [Orders -> Nat \ {0}]
    /\ Modes \subseteq {"dry_run", "live"}
    /\ Replies \subseteq EveryReply
    /\ ReadCount \in Nat \ {0} /\ Keep \in Nat
    /\ KeyOutlivesOrder \in BOOLEAN
    /\ MaxLog \in Nat /\ MaxFaults \in Nat

VARIABLES
    mode,       \* config.TRADING_MODE
    approved,   \* the approved_orders stream and the execution group
    keys,       \* Redis dedupe keys present
    lapsed,     \* orders whose dedupe key has expired
    halted,     \* the kill switch
    phase,      \* where the loop of run() is
    batch,      \* entries read or reclaimed and not yet handled
    cur, step,  \* the entry being handled and the next effect of its handler
    registry,   \* OrderRegistry.orders
    report,     \* the order report being applied
    todo,       \* live orders the report has still to be applied to
    broker,     \* each order at the broker
    published,  \* filled_orders, per order
    dead,       \* entries on the dead_letter stream
    refused,    \* orders dropped because of a halt (history)
    overshoot,  \* opens sent since the halt was engaged (history)
    faults      \* crashes and failed calls to Redis so far (history)

engineVars == <<phase, batch, cur, step, registry, report, todo>>
redisVars  == <<approved, keys, lapsed, published, dead>>
histVars   == <<refused, overshoot, faults>>
vars == <<mode, halted, broker, engineVars, redisVars, histVars>>

----------------------------------------------------------------------------
(* Order state machine: OrderStatus and _ALLOWED.                          *)

Terminal == {"FILLED", "REJECTED", "CANCELLED", "EXPIRED"}
Live     == {"SENT", "ACKED", "PARTIAL"}
Status   == {"PENDING"} \cup Live \cup Terminal

Allowed == [s \in Status |->
    CASE s = "PENDING" -> {"SENT", "REJECTED", "CANCELLED"}
      [] s = "SENT"    -> {"ACKED", "PARTIAL"} \cup Terminal
      [] s = "ACKED"   -> {"PARTIAL"} \cup Terminal
      [] s = "PARTIAL" -> {"PARTIAL", "FILLED", "CANCELLED", "EXPIRED"}
      [] OTHER         -> {}]

(* ManagedOrder; hasId: broker_order_id is not empty.  Absent: the         *)
(* registry holds no such order.                                           *)
Order  == [status : Status \cup {"ABSENT"}, filled : Nat, hasId : BOOLEAN]
Absent == [status |-> "ABSENT", filled |-> 0, hasId |-> FALSE]
NewOrder == [status |-> "PENDING", filled |-> 0, hasId |-> FALSE]

(* add_fill of n > 0 shares: over-fills are clamped to what remains.       *)
AddFill(r, n, q) ==
    LET got == IF r.filled + n > q THEN q ELSE r.filled + n
    IN  [status |-> IF got = q THEN "FILLED" ELSE "PARTIAL",
         filled |-> got,
         hasId  |-> r.hasId]

(* Mutant: an unknown status is taken for a cancellation.                  *)
MappedStatusGuessing(st) ==
    CASE st = "working"  -> "ACKED"
      [] st = "complete" -> "FILLED"
      [] st = "rejected" -> "REJECTED"
      [] OTHER           -> "CANCELLED"

(* What mapped_status makes of a report row; "unknown" maps to nothing.    *)
MappedStatus(st) ==
    CASE st = "working"   -> "ACKED"
      [] st = "complete"  -> "FILLED"
      [] st = "rejected"  -> "REJECTED"
      [] st = "cancelled" -> "CANCELLED"
      [] OTHER            -> "none"

LiveOrders == {o \in Orders : registry[o].status \in Live}

(* to_event(): the state of an order, with its cumulative filled quantity. *)
Event(r) == [status |-> r.status, filled |-> r.filled]
Events   == [status : Status, filled : Nat]

(* filled_orders gains the event of order o in state r.                    *)
Emit(o, r) == published' = [published EXCEPT ![o] = Append(@, Event(r))]

----------------------------------------------------------------------------
BrokerStatus == {"none", "working", "complete", "rejected", "cancelled"}
BrokerOrder  == [placed : Nat, st : BrokerStatus, filled : Nat]

ReportRow == [st : BrokerStatus \cup {"unknown"}, filled : Nat]
NoRow     == [st |-> "none", filled |-> 0]
NoReport  == [o \in Orders |-> NoRow]

Init ==
    /\ mode \in Modes
    /\ approved = EmptyGroup
    /\ keys = {} /\ lapsed = {}
    /\ halted = FALSE
    /\ phase = "claim" /\ batch = {} /\ cur = 0 /\ step = "idle"
    /\ registry = [o \in Orders |-> Absent]
    /\ report = NoReport /\ todo = {}
    /\ broker = [o \in Orders |-> [placed |-> 0, st |-> "none", filled |-> 0]]
    /\ published = [o \in Orders |-> <<>>]
    /\ dead = {}
    /\ refused = {} /\ overshoot = 0 /\ faults = 0

----------------------------------------------------------------------------
(* The environment.                                                        *)

EntriesOf(o) == {i \in 1..Len(approved.log) : approved.log[i] = o}

(* RiskManager._handle_signal publishes an approved order: the same signal *)
(* handled twice gives the same client order id twice.                     *)
Approve(o) ==
    /\ Len(approved.log) < MaxLog
    /\ KeyOutlivesOrder => o \notin lapsed
    /\ approved' = XAdd(approved, o)
    /\ UNCHANGED <<mode, halted, broker, engineVars, keys, lapsed, published,
                   dead, histVars>>

Halt ==
    /\ ~halted /\ halted' = TRUE
    /\ overshoot' = 0
    /\ UNCHANGED <<mode, broker, engineVars, redisVars, refused, faults>>

ClearHalt ==
    /\ halted /\ halted' = FALSE
    /\ UNCHANGED <<mode, broker, engineVars, redisVars, histVars>>

(* The dedupe key's TTL (config.ORDER_DEDUPE_TTL_SECONDS) runs out.        *)
KeyExpires(o) ==
    /\ o \in keys
    /\ KeyOutlivesOrder =>
          /\ \A i \in EntriesOf(o) : Settled(approved, i)
          /\ broker[o].st # "working"
    /\ keys' = keys \ {o}
    /\ lapsed' = lapsed \cup {o}
    /\ UNCHANGED <<mode, halted, broker, engineVars, approved, published, dead,
                   histVars>>

BrokerFills(o) ==
    /\ broker[o].st = "working"
    /\ \E n \in 1..Quantity[o] :
          /\ n > broker[o].filled
          /\ broker' = [broker EXCEPT ![o] =
                [placed |-> @.placed,
                 st     |-> IF n = Quantity[o] THEN "complete" ELSE "working",
                 filled |-> n]]
    /\ UNCHANGED <<mode, halted, engineVars, redisVars, histVars>>

BrokerEnds(o) ==
    /\ broker[o].st = "working"
    /\ \E st \in {"rejected", "cancelled"} :
          broker' = [broker EXCEPT ![o] =
                [placed |-> @.placed, st |-> st, filled |-> @.filled]]
    /\ UNCHANGED <<mode, halted, engineVars, redisVars, histVars>>

Environment ==
    \/ \E o \in Orders :
          Approve(o) \/ KeyExpires(o) \/ BrokerFills(o) \/ BrokerEnds(o)
    \/ Halt
    \/ ClearHalt

----------------------------------------------------------------------------
(* The loop of run(): reclaim, then read, then poll.                       *)

(* Mutant: the loop moves on while entries are still being handled.        *)
LoopAtAnyTime(p) == phase = p

LoopAt(p) == phase = p /\ batch = {} /\ cur = 0

(* Mutant: what a dead instance left pending is never reclaimed.           *)
ClaimNothing(S) ==
    /\ LoopAt("claim")
    /\ phase' = "read"
    /\ UNCHANGED <<mode, halted, broker, batch, cur, step, registry, report,
                   todo, redisVars, histVars>>

(* Any pending entry may have been idle for CLAIM_IDLE_MS or not yet.      *)
ClaimStale(S) ==
    /\ LoopAt("claim")
    /\ approved' = XAutoClaim(approved, S)
    /\ batch' = S
    /\ phase' = "read"
    /\ UNCHANGED <<mode, halted, broker, cur, step, registry, report, todo,
                   keys, lapsed, published, dead, histVars>>

Read ==
    /\ LoopAt("read")
    /\ approved' = XReadGroup(approved, ReadCount)
    /\ batch' = Unread(approved, ReadCount)
    /\ phase' = "poll"
    /\ UNCHANGED <<mode, halted, broker, cur, step, registry, report, todo,
                   keys, lapsed, published, dead, histVars>>

----------------------------------------------------------------------------
(* StreamConsumer.handle and ExecutionEngine._handle, one entry at a time  *)
(* in the order of the batch.  "send", "publish", "ack" and "dead" name    *)
(* the next effect of the handler on entry cur.                            *)

IsNext(i) == cur = 0 /\ i \in batch /\ \A j \in batch : i <= j

HandlerGoes(i, s) == cur' = i /\ step' = s /\ UNCHANGED batch

HandlerDone(i) == cur' = 0 /\ step' = "idle" /\ batch' = batch \ {i}

(* handle() after its handler raised: poison is routed aside, anything     *)
(* else stays pending.                                                     *)
HandlerFails(i) ==
    \/ IsPoison(approved, i) /\ HandlerGoes(i, "dead")
    \/ ~IsPoison(approved, i) /\ HandlerDone(i)

(* A call to Redis raises under the handler.  If it was a write, it may    *)
(* have landed all the same.                                               *)
RedisFails == faults < MaxFaults /\ faults' = faults + 1

(* Mutant: the dedupe set lives in memory.                                 *)
AlreadySentInMemory(o) == registry[o].status # "ABSENT"

AlreadySent(o) == o \in keys

(* Mutant: the kill switch is not looked at.                               *)
HaltIgnored(o) == FALSE

(* A halt stops opens, never exits.                                        *)
HaltRefuses(o) == halted /\ o \in Opens

Skip(i) ==
    /\ IsNext(i) /\ AlreadySent(approved.log[i])
    /\ HandlerGoes(i, "ack")
    /\ UNCHANGED <<mode, halted, broker, phase, registry, report, todo,
                   redisVars, histVars>>

(* The order is dropped: by a halt, or because the kill switch cannot be   *)
(* read and fails closed.                                                  *)
Refuse(i) ==
    LET o == approved.log[i] IN
    /\ IsNext(i) /\ ~AlreadySent(o)
    /\ \/ HaltRefuses(o) /\ UNCHANGED faults
       \/ o \in Opens /\ RedisFails
    /\ HandlerGoes(i, "ack")
    /\ refused' = refused \cup {o}
    /\ UNCHANGED <<mode, halted, broker, phase, registry, report, todo,
                   redisVars, overshoot>>

(* _handle raises on an order it cannot build.                             *)
CannotBuild(i) ==
    LET o == approved.log[i] IN
    /\ IsNext(i) /\ ~AlreadySent(o) /\ ~HaltRefuses(o) /\ o \in Malformed
    /\ HandlerFails(i)
    /\ UNCHANGED <<mode, halted, broker, phase, registry, report, todo,
                   redisVars, histVars>>

(* register() and mark_sent(): the dedupe key is written before the send.  *)
Accept(i) ==
    LET o == approved.log[i] IN
    /\ IsNext(i)
    /\ ~AlreadySent(o) /\ ~HaltRefuses(o) /\ o \notin Malformed
    /\ registry' = [registry EXCEPT ![o] = NewOrder]
    /\ \/ /\ keys' = keys \cup {o}
          /\ HandlerGoes(i, "send")
          /\ UNCHANGED faults
       \/ /\ RedisFails
          /\ keys' \in {keys, keys \cup {o}}
          /\ HandlerFails(i)
    /\ UNCHANGED <<mode, halted, broker, phase, report, todo, approved, lapsed,
                   published, dead, refused, overshoot>>

(* _send outside live mode: filled at once, no broker involved.            *)
SendDry ==
    LET o == approved.log[cur] IN
    /\ step = "send" /\ mode # "live"
    /\ registry' = [registry EXCEPT
          ![o] = AddFill([@ EXCEPT !.hasId = TRUE], Quantity[o], Quantity[o])]
    /\ HandlerGoes(cur, "publish")
    /\ UNCHANGED <<mode, halted, broker, phase, report, todo, redisVars,
                   histVars>>

(* _send when _trading_symbol raises: the dedupe key is already written.   *)
SendUnresolved ==
    /\ step = "send" /\ mode = "live"
    /\ approved.log[cur] \in Unresolvable
    /\ HandlerFails(cur)
    /\ UNCHANGED <<mode, halted, broker, phase, registry, report, todo,
                   redisVars, histVars>>

(* A call that raised leaves the order SENT; any dict whose stat is not    *)
(* "ok", an error payload too, is taken for a rejection.                   *)
(* Mutant: a call that raised is taken for a rejection.                    *)
AfterReplyAssuming(r, reply) ==
    CASE reply = "ok"       -> [r EXCEPT !.status = "ACKED", !.hasId = TRUE]
      [] reply = "ok_no_id" -> [r EXCEPT !.status = "ACKED"]
      [] OTHER              -> [r EXCEPT !.status = "REJECTED"]

AfterReply(r, reply) ==
    CASE reply = "ok"       -> [r EXCEPT !.status = "ACKED", !.hasId = TRUE]
      [] reply = "ok_no_id" -> [r EXCEPT !.status = "ACKED"]
      [] reply \in {"rejected", "error_before", "error_after"}
                            -> [r EXCEPT !.status = "REJECTED"]
      [] OTHER              -> [r EXCEPT !.status = "SENT"]

AtBroker(b, reply) ==
    [placed |-> b.placed + 1,
     st     |-> IF reply = "rejected" THEN "rejected" ELSE "working",
     filled |-> b.filled]

SendLive(reply) ==
    LET o == approved.log[cur] IN
    /\ step = "send" /\ mode = "live" /\ o \notin Unresolvable
    /\ registry' = [registry EXCEPT ![o] = AfterReply(@, reply)]
    /\ \/ /\ reply \in {"lost_before", "error_before"}
          /\ UNCHANGED <<broker, overshoot>>
       \/ /\ reply \notin {"lost_before", "error_before"}
          /\ broker' = [broker EXCEPT ![o] = AtBroker(@, reply)]
          /\ overshoot' = IF halted /\ o \in Opens THEN overshoot + 1 ELSE overshoot
    /\ HandlerGoes(cur, "publish")
    /\ UNCHANGED <<mode, halted, phase, report, todo, redisVars, refused, faults>>

Publish ==
    LET o == approved.log[cur] IN
    /\ step = "publish"
    /\ \/ /\ Emit(o, registry[o])
          /\ HandlerGoes(cur, "ack")
          /\ UNCHANGED faults
       \/ /\ RedisFails
          /\ Emit(o, registry[o]) \/ UNCHANGED published
          /\ HandlerFails(cur)
    /\ UNCHANGED <<mode, halted, broker, phase, registry, report, todo, approved,
                   keys, lapsed, dead, refused, overshoot>>

(* dead_letter(): recorded first, acknowledged after.                      *)
DeadLetter ==
    /\ step = "dead"
    /\ dead' = dead \cup {cur}
    /\ HandlerGoes(cur, "ack")
    /\ UNCHANGED <<mode, halted, broker, phase, registry, report, todo, approved,
                   keys, lapsed, published, histVars>>

Ack ==
    /\ step = "ack"
    /\ approved' = XAck(approved, cur)
    /\ HandlerDone(cur)
    /\ UNCHANGED <<mode, halted, broker, phase, registry, report, todo, keys,
                   lapsed, published, dead, histVars>>

----------------------------------------------------------------------------
(* poll_open_orders: reconcile against the broker, then expire.            *)

NothingToPoll ==
    /\ LoopAt("poll")
    /\ mode # "live" \/ LiveOrders = {}
    /\ phase' = "expire"
    /\ UNCHANGED <<mode, halted, broker, batch, cur, step, registry, report,
                   todo, redisVars, histVars>>

(* The session has expired, or the call failed: nothing is assumed.        *)
PollFails ==
    /\ LoopAt("poll") /\ mode = "live" /\ LiveOrders # {}
    /\ phase' = "expire"
    /\ UNCHANGED <<mode, halted, broker, batch, cur, step, registry, report,
                   todo, redisVars, histVars>>

(* Mutant: partially filled orders are not polled.                         *)
PolledUnfilled == {o \in LiveOrders : registry[o].hasId /\ registry[o].filled = 0}

Polled == {o \in LiveOrders : registry[o].hasId}

(* A report that holds a row for the orders R and a status the code knows  *)
(* for the orders U.  It is a snapshot: the broker moves on while the rows *)
(* are applied.                                                            *)
PollReport(R, U) ==
    /\ LoopAt("poll") /\ mode = "live" /\ LiveOrders # {}
    /\ report' = [o \in Orders |->
          IF o \in R
          THEN [st |-> IF o \in U THEN broker[o].st ELSE "unknown",
                filled |-> broker[o].filled]
          ELSE NoRow]
    /\ todo' = R
    /\ phase' = "apply"
    /\ UNCHANGED <<mode, halted, broker, batch, cur, step, registry, redisVars,
                   histVars>>

(* Mutant: the cumulative quantity is taken for an increment.              *)
ReportedFilled(o) == report[o].filled

NewlyFilled(o) == report[o].filled - registry[o].filled

ReportedEnd(o) ==
    /\ NewlyFilled(o) <= 0
    /\ MappedStatus(report[o].st) \in {"REJECTED", "CANCELLED"}
    /\ MappedStatus(report[o].st) \in Allowed[registry[o].status]

(* _apply_broker_status: new quantity first, then a broker-side ending the *)
(* state machine allows; otherwise nothing.                                *)
ApplyFill(o) ==
    LET r == AddFill(registry[o], NewlyFilled(o), Quantity[o]) IN
    /\ phase = "apply" /\ o \in todo /\ NewlyFilled(o) > 0
    /\ registry' = [registry EXCEPT ![o] = r]
    /\ Emit(o, r)
    /\ todo' = todo \ {o}
    /\ UNCHANGED <<mode, halted, broker, phase, batch, cur, step, report,
                   approved, keys, lapsed, dead, histVars>>

ApplyEnd(o) ==
    LET r == [registry[o] EXCEPT !.status = MappedStatus(report[o].st)] IN
    /\ phase = "apply" /\ o \in todo /\ ReportedEnd(o)
    /\ registry' = [registry EXCEPT ![o] = r]
    /\ Emit(o, r)
    /\ todo' = todo \ {o}
    /\ UNCHANGED <<mode, halted, broker, phase, batch, cur, step, report,
                   approved, keys, lapsed, dead, histVars>>

ApplyNothing(o) ==
    /\ phase = "apply" /\ o \in todo
    /\ NewlyFilled(o) <= 0 /\ ~ReportedEnd(o)
    /\ todo' = todo \ {o}
    /\ UNCHANGED <<mode, halted, broker, phase, batch, cur, step, registry,
                   report, redisVars, histVars>>

AllApplied ==
    /\ phase = "apply" /\ todo = {}
    /\ phase' = "expire" /\ report' = NoReport
    /\ UNCHANGED <<mode, halted, broker, batch, cur, step, registry, todo,
                   redisVars, histVars>>

(* expire_stale: sent, never acknowledged, and the timeout has run out.    *)
ExpireStale(o) ==
    LET r == [registry[o] EXCEPT !.status = "EXPIRED"] IN
    /\ phase = "expire" /\ registry[o].status = "SENT"
    /\ registry' = [registry EXCEPT ![o] = r]
    /\ Emit(o, r)
    /\ UNCHANGED <<mode, halted, broker, phase, batch, cur, step, report, todo,
                   approved, keys, lapsed, dead, histVars>>

(* purge_terminal: at most Keep terminal orders stay.                      *)
LoopEnds ==
    LET ended == {o \in Orders : registry[o].status \in Terminal} IN
    /\ phase = "expire"
    /\ \E kept \in SUBSET ended :
          /\ IF Cardinality(ended) <= Keep THEN kept = ended
                                           ELSE Cardinality(kept) = Keep
          /\ registry' = [o \in Orders |->
                IF o \in ended \ kept THEN Absent ELSE registry[o]]
    /\ phase' = "claim"
    /\ UNCHANGED <<mode, halted, broker, batch, cur, step, report, todo,
                   redisVars, histVars>>

----------------------------------------------------------------------------
(* The process dies and is started again.                                  *)
Crash ==
    /\ faults < MaxFaults /\ faults' = faults + 1
    /\ phase' = "claim" /\ batch' = {} /\ cur' = 0 /\ step' = "idle"
    /\ registry' = [o \in Orders |-> Absent]
    /\ report' = NoReport /\ todo' = {}
    /\ UNCHANGED <<mode, halted, broker, redisVars, refused, overshoot>>

Handle ==
    \/ \E i \in batch :
          Skip(i) \/ Refuse(i) \/ CannotBuild(i) \/ Accept(i)
    \/ SendDry
    \/ SendUnresolved
    \/ \E reply \in Replies : SendLive(reply)
    \/ Publish
    \/ DeadLetter
    \/ Ack

Poll ==
    \/ NothingToPoll
    \/ PollFails
    \/ \E R \in SUBSET Polled : \E U \in SUBSET R : PollReport(R, U)
    \/ \E o \in Orders :
          ApplyFill(o) \/ ApplyEnd(o) \/ ApplyNothing(o) \/ ExpireStale(o)
    \/ AllApplied
    \/ LoopEnds

Engine ==
    \/ \E S \in SUBSET approved.pending : ClaimStale(S)
    \/ Read
    \/ Handle
    \/ Poll

Next == Environment \/ Engine \/ Crash

Spec == Init /\ [][Next]_vars

(* The process keeps running; an entry stays idle long enough to be        *)
(* reclaimed, the acknowledgement timeout runs out, and the order report   *)
(* is complete, again and again.                                           *)
Fairness ==
    /\ WF_vars(Engine)
    /\ SF_vars(ClaimStale(approved.pending))
    /\ SF_vars(PollReport(Polled, Polled))
    /\ SF_vars(\E o \in Orders : ExpireStale(o))

FairSpec == Spec /\ Fairness

----------------------------------------------------------------------------
(* Properties.                                                             *)

(* Every variable stays in its domain, the consumer group is well formed,  *)
(* the entry being handled is one that was delivered, entries are handled  *)
(* only where run() handles them, and only registered orders are published.*)
TypeOK ==
    /\ mode \in Modes
    /\ approved \in GroupOf(Orders) /\ WellFormed(approved)
    /\ keys \subseteq Orders /\ lapsed \subseteq Orders
    /\ halted \in BOOLEAN
    /\ phase \in {"claim", "read", "poll", "apply", "expire"}
    /\ batch \subseteq 1..approved.cursor
    /\ phase \notin {"read", "poll"} => batch = {}
    /\ step \in {"idle", "send", "publish", "ack", "dead"}
    /\ IF step = "idle" THEN cur = 0 ELSE cur \in batch
    /\ registry \in [Orders -> Order]
    /\ step = "publish" => registry[approved.log[cur]].status \in Status
    /\ report \in [Orders -> ReportRow]
    /\ todo \subseteq Orders
    /\ broker \in [Orders -> BrokerOrder]
    /\ published \in [Orders -> Seq(Events)]
    /\ dead \subseteq Nat
    /\ refused \subseteq Orders
    /\ overshoot \in Nat /\ faults \in Nat

(* No order reaches the broker twice: not when its entry is redelivered,   *)
(* not when the risk manager approved it twice, not across a crash at any  *)
(* point of the handler (the "double-firing" of DESIGN.md 3.3).            *)
AtMostOncePlacement == \A o \in Orders : broker[o].placed <= 1

(* Why: a placed order has its dedupe key or has had it long enough to be  *)
(* settled, and between the key check and the send nothing takes the key.  *)
AdmissionInv ==
    /\ batch \subseteq approved.pending
    /\ \A o \in Orders :
          \/ broker[o].placed = 0
          \/ broker[o].placed = 1 /\ o \in keys \cup lapsed
    /\ step = "send" => /\ approved.log[cur] \in keys
                       /\ broker[approved.log[cur]].placed = 0
    /\ \A o \in lapsed : \A i \in EntriesOf(o) : Settled(approved, i)

(* The orders acknowledged off approved_orders of which nothing was ever   *)
(* published, that no halt refused and that are not on the dead-letter     *)
(* stream ("Never silent", StreamConsumer).                                *)
SilentlyDropped ==
    {o \in Orders :
        /\ published[o] = <<>> /\ o \notin refused
        /\ EntriesOf(o) \cap dead = {}
        /\ \E i \in EntriesOf(o) : Settled(approved, i)}

(* Writing the dedupe key before the send trades a lost order for a        *)
(* duplicate one: each crash or failed call costs at most one order.       *)
EachFaultLosesAtMostOneOrder == Cardinality(SilentlyDropped) <= faults

(* Every drop is recorded somewhere a human can find it, as long as        *)
(* nothing fails around the engine.                                        *)
NeverSilent == faults = 0 => SilentlyDropped = {}

(* A halt engaged while an order is between the kill-switch check and the  *)
(* broker lets that one through and no other, whatever the batch holds.    *)
HaltLetsAtMostOneOpenThrough == overshoot <= 1

FillEvents(o) ==
    {k \in 1..Len(published[o]) :
        published[o][k].status \in {"PARTIAL", "FILLED"}}

(* What filled_orders says of fills happened at the broker, each fill      *)
(* event reports more than the one before, and FILLED means all of it.     *)
FillsAreTruthful ==
    \A o \in Orders : \A k \in FillEvents(o) :
        LET e == published[o][k] IN
        /\ mode = "live" => e.filled <= broker[o].filled
        /\ e.status = "FILLED" <=> e.filled = Quantity[o]
        /\ \A j \in FillEvents(o) : j < k => published[o][j].filled < e.filled

(* An order reported REJECTED is not working at the broker and did not     *)
(* fill there, one reported CANCELLED was cancelled, whatever the report's *)
(* age, and an EXPIRED order was never acknowledged.                       *)
EndingsAreTruthful ==
    mode = "live" =>
        \A o \in Orders : \A k \in 1..Len(published[o]) :
            CASE published[o][k].status = "REJECTED"  ->
                    broker[o].st \in {"none", "rejected"}
              [] published[o][k].status = "CANCELLED" -> broker[o].st = "cancelled"
              [] published[o][k].status = "EXPIRED"   ->
                    \A j \in 1..k-1 : published[o][j].status = "SENT"
              [] OTHER -> TRUE

(* What filled_orders tells the position manager of an order, fill by fill *)
(* and of its end, is what became of it at the broker.                     *)
EventsAreTruthful == FillsAreTruthful /\ EndingsAreTruthful

(* Downstream never hears of an order again after its last word: neither a *)
(* redelivery, a stale report nor the ack timeout reopens or re-ends it.   *)
TerminalEventIsLast ==
    \A o \in Orders : \A k \in 1..Len(published[o]) :
        published[o][k].status \in Terminal => k = Len(published[o])

(* An entry on the dead-letter stream had its MaxDeliveries chances.       *)
OnlyPoisonIsDeadLettered == \A i \in dead : approved.times[i] >= MaxDeliveries

(* "on approved_orders [a dead-lettered message] means a trade was never   *)
(* placed" (StreamConsumer.dead_letter).                                   *)
DeadLetteredIsUnplaced ==
    \A i \in dead : broker[approved.log[i]].placed = 0

(* Every approved order is handled to the end: handled entries leave the   *)
(* pending list, failing ones by way of the dead-letter stream.            *)
EveryEntrySettles ==
    \A i \in 1..MaxLog : [](i <= Len(approved.log) => <>Settled(approved, i))

(* An order the engine has a broker id for and that the broker has filled  *)
(* is eventually reported FILLED, unless the engine loses it in a crash.   *)
FillsAreHeard ==
    \A o \in Orders :
        (registry[o].status \in {"ACKED", "PARTIAL"} /\ registry[o].hasId
            /\ broker[o].st = "complete")
        ~> (registry[o].status \in {"FILLED", "ABSENT"})

(* "not acked yet; the timeout handles it" (_reconcile_live_orders): a live *)
(* order without a broker id does not stay live.                           *)
TimeoutHandlesIt ==
    \A o \in Orders :
        (registry[o].status \in Live /\ ~registry[o].hasId)
        ~> (registry[o].status \notin Live)

----------------------------------------------------------------------------
(* ExecutionEngine implements OrderPromise.  The promise is about orders   *)
(* sent to a broker: outside live mode nothing is placed or told.          *)

LastFill(o) ==
    CHOOSE k \in FillEvents(o) : \A j \in FillEvents(o) : j <= k

ToldFilled(o) ==
    IF mode # "live" \/ FillEvents(o) = {} THEN 0
    ELSE published[o][LastFill(o)].filled

Verdict(o) ==
    LET last == IF published[o] = <<>> THEN "SENT"
                ELSE published[o][Len(published[o])].status
    IN  IF mode # "live" THEN "none"
        ELSE CASE last = "FILLED"    -> "filled"
               [] last = "REJECTED"  -> "rejected"
               [] last = "CANCELLED" -> "cancelled"
               [] last = "EXPIRED"   -> "expired"
               [] OTHER              -> "none"

Promise == INSTANCE OrderPromise WITH
    placed  <- [o \in Orders |-> broker[o].placed],
    filled  <- [o \in Orders |-> broker[o].filled],
    ended   <- [o \in Orders |->
                   IF broker[o].st \in {"rejected", "cancelled"}
                   THEN broker[o].st ELSE "open"],
    told    <- [o \in Orders |-> ToldFilled(o)],
    verdict <- [o \in Orders |-> Verdict(o)]

(* Every step of the engine, the broker, a crash or a halt is a step of    *)
(* the promise or changes nothing it speaks of.                            *)
KeepsPromise == Promise!Spec

============================================================================
