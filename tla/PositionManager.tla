--------------------------- MODULE PositionManager ---------------------------
(***************************************************************************)
(* src/position_manager.py: the process that keeps the book of positions   *)
(* from the fills it is told of, checks it against the broker, and tells   *)
(* the risk manager the day's result.                                      *)
(*                                                                         *)
(* The loop: start a new session when the date changes, reclaim stale      *)
(* entries and handle them, read new entries and handle them, reconcile    *)
(* when it is time.  The book is in memory and lost in a crash; run()      *)
(* then starts from the broker's positions.                                *)
(*                                                                         *)
(* The environment: the exchange fills orders, some in pieces; the         *)
(* execution engine tells of fills some time later, with the order's       *)
(* cumulative quantity (ManagedOrder.to_event).  If Paper, exchange and    *)
(* engine are the paper broker, and the account at the broker stays flat.  *)
(***************************************************************************)
EXTENDS ConsumerGroup, PositionBook, FiniteSets

CONSTANTS
    Orders,         \* orders that reach the exchange
    OrderOf,        \* what each order is: [inst, qty (signed), price, costs]
    Piecemeal,      \* orders the exchange may fill in several steps
    Paper,          \* the paper broker fills orders: the account knows none
    HaltThreshold,  \* config.RECONCILE_HALT_THRESHOLD
    Rounding,       \* what truncating averages to whole units may add up to
    ReadCount,      \* COUNT of the consumer's XREADGROUP
    MaxDay,         \* bound: sessions
    MaxUpdates,     \* bound: position updates not yet read
    MaxFaults       \* bound: crashes, failed Redis calls, unusable answers

ASSUME PositionsAssumption ==
    /\ OrderOf \in [Orders -> [inst : Instruments, qty : Int \ {0},
                               price : Nat \ {0}, costs : Nat]]
    /\ IsFiniteSet(Orders) /\ Piecemeal \subseteq Orders
    /\ Paper \in BOOLEAN
    /\ {HaltThreshold, ReadCount} \subseteq Nat \ {0}
    /\ {Rounding, MaxDay, MaxUpdates, MaxFaults} \subseteq Nat

VARIABLES
    day,        \* the date
    done,       \* shares of each order filled at the exchange
    told,       \* shares the execution engine has told of
    ended,      \* orders the exchange will fill no further
    fills,      \* the filled_orders stream and the positions group
    phase,      \* where the loop of run() is
    batch,      \* entries read or reclaimed and not yet handled
    cur, step,  \* the entry being handled and the next effect to come
    book,       \* the PositionBook
    bookDay,    \* its session_day
    updates,    \* position_updates not yet read by the risk manager
    halted,     \* the kill switch
    faults,     \* faults so far (history)
    dead,       \* entries on the dead_letter stream
    applied,    \* entries this book has been moved by (history)
    cash,       \* what the shares handled have paid for (history)
    doubt       \* instruments for which the book may be wrong (history)

exchangeVars == <<day, done, told, ended>>
loopVars == <<phase, batch, cur, step>>
history  == <<faults, applied, cash, doubt>>
pmVars == <<exchangeVars, fills, loopVars, book, bookDay, updates, halted,
            dead, history>>

(* An entry of filled_orders; share: what the book had not been told yet   *)
(* (history).                                                              *)
Event == [order : Orders, fill : BOOLEAN, qty : Int, price : Nat, share : Int]
Update == [day : Nat, net : Int]

Signed(o, n) == IF OrderOf[o].qty > 0 THEN n ELSE -n

OrdersIn(i) == {o \in Orders : OrderOf[o].inst = i}

(* What the fills of i have added up to.                                   *)
Filled(i) == SumFunctionOnSet([o \in Orders |-> Signed(o, done[o])], OrdersIn(i))

(* What the broker's positions() reports.                                  *)
Holds == [i \in Instruments |-> IF Paper THEN 0 ELSE Filled(i)]

(* Only the paper broker's events have costs.                              *)
CostsOf(o) == IF Paper THEN OrderOf[o].costs ELSE 0

InstOf(e) == OrderOf[e.order].inst

(* What entry k will add to the position in i when it is handled.          *)
Carries(k, i) ==
    IF InstOf(fills.log[k]) = i /\ ~Settled(fills, k) /\ k \notin applied \cup dead
    THEN fills.log[k].share ELSE 0

(* Shares of i the exchange has filled and the book has yet to hear of.    *)
InFlight(i) ==
    LET Entries == 1..Len(fills.log)
    IN  SumFunctionOnSet([o \in Orders |-> Signed(o, done[o] - told[o])], OrdersIn(i))
          + SumFunctionOnSet([k \in Entries |-> Carries(k, i)], Entries)

PMInit ==
    /\ day = 0
    /\ done = [o \in Orders |-> 0] /\ told = [o \in Orders |-> 0] /\ ended = {}
    /\ fills = EmptyGroup
    /\ phase = "start" /\ batch = {} /\ cur = 0 /\ step = "idle"
    /\ book = EmptyBook /\ bookDay = 0
    /\ updates = <<>> /\ halted = FALSE
    /\ faults = 0 /\ applied = {} /\ dead = {} /\ cash = 0 /\ doubt = {}

Fault == faults < MaxFaults /\ faults' = faults + 1

----------------------------------------------------------------------------
(* The environment.                                                        *)

ExchangeFills(o, n) ==
    LET left == Size(OrderOf[o].qty) - done[o] IN
    /\ o \notin ended /\ n \in 1..left
    /\ o \notin Piecemeal => n = left
    /\ done' = [done EXCEPT ![o] = @ + n]
    /\ UNCHANGED <<day, told, ended, fills, loopVars, book, bookDay, updates,
                   halted, dead, history>>

(* The report may lack an average price: the event then says 0.            *)
EngineTells(o) ==
    /\ told[o] < done[o]
    /\ \E price \in {OrderOf[o].price, 0} :
          /\ IF price = 0 THEN Fault ELSE UNCHANGED faults
          /\ fills' = XAdd(fills, [order |-> o, fill |-> TRUE, price |-> price,
                                   qty   |-> Signed(o, done[o]),
                                   share |-> Signed(o, done[o] - told[o])])
    /\ told' = [told EXCEPT ![o] = done[o]]
    /\ UNCHANGED <<day, done, ended, loopVars, book, bookDay, updates, halted,
                   dead, applied, cash, doubt>>

(* Cancelled or expired: the handler takes the quantity filled, or if that *)
(* is none the quantity ordered.                                           *)
EngineEnds(o) ==
    /\ o \notin ended /\ done[o] < Size(OrderOf[o].qty) /\ told[o] = done[o]
    /\ ended' = ended \cup {o}
    /\ fills' = XAdd(fills, [order |-> o, fill |-> FALSE, share |-> 0,
                             qty |-> IF done[o] = 0 THEN OrderOf[o].qty
                                    ELSE Signed(o, done[o]),
                             price |-> OrderOf[o].price])
    /\ UNCHANGED <<day, done, told, loopVars, book, bookDay, updates, halted,
                   dead, history>>

NewDay ==
    /\ day < MaxDay
    /\ day' = day + 1
    /\ UNCHANGED <<done, told, ended, fills, loopVars, book, bookDay, updates,
                   halted, dead, history>>

ClearHalt ==
    /\ halted
    /\ halted' = FALSE
    /\ UNCHANGED <<exchangeVars, fills, loopVars, book, bookDay, updates, dead,
                   history>>

Environment ==
    \/ \E o \in Orders : \/ \E n \in 1..Size(OrderOf[o].qty) : ExchangeFills(o, n)
                         \/ EngineTells(o) \/ EngineEnds(o)
    \/ NewDay \/ ClearHalt

----------------------------------------------------------------------------
(* The loop.                                                               *)

LoopAt(p) == phase = p /\ batch = {} /\ cur = 0 /\ step = "idle"

NewSession ==
    /\ LoopAt("claim") /\ bookDay # day
    /\ book' = StartSession(book) /\ bookDay' = day
    /\ cash' = -Value(book)
    /\ phase' = "start"
    /\ UNCHANGED <<exchangeVars, fills, batch, cur, step, updates, halted, dead,
                   faults, applied, doubt>>

(* Any pending entry may have been idle for CLAIM_IDLE_MS or not yet.      *)
ClaimStale(S) ==
    /\ LoopAt("claim") /\ bookDay = day
    /\ fills' = XAutoClaim(fills, S)
    /\ batch' = S
    /\ phase' = "read"
    /\ UNCHANGED <<exchangeVars, cur, step, book, bookDay, updates, halted, dead,
                   history>>

Read ==
    /\ LoopAt("read")
    /\ fills' = XReadGroup(fills, ReadCount)
    /\ batch' = Unread(fills, ReadCount)
    /\ phase' = "reconcile"
    /\ UNCHANGED <<exchangeVars, cur, step, book, bookDay, updates, halted, dead,
                   history>>

----------------------------------------------------------------------------
(* StreamConsumer.handle and _handle_fill, one entry at a time.            *)

IsNext(k) == step = "idle" /\ k \in batch /\ \A j \in batch : k <= j

HandlerDone(k) == cur' = 0 /\ step' = "idle" /\ batch' = batch \ {k}

HandlerFails(k) ==
    \/ /\ IsPoison(fills, k)
       /\ cur' = k /\ step' = "dead" /\ UNCHANGED batch
    \/ ~IsPoison(fills, k) /\ HandlerDone(k)

(* Mutant: any event with a quantity moves the book.                       *)
GenuineAny(e) == e.qty # 0

(* Only FILLED and PARTIAL events with a quantity move the book.           *)
Genuine(e) == e.fill /\ e.qty # 0

Ignore(k) ==
    /\ IsNext(k) /\ ~Genuine(fills.log[k])
    /\ cur' = k /\ step' = "ack"
    /\ UNCHANGED <<exchangeVars, fills, phase, batch, book, bookDay, updates,
                   halted, dead, history>>

(* A fill without a usable price raises.                                   *)
NoPrice(k) ==
    /\ IsNext(k) /\ Genuine(fills.log[k]) /\ fills.log[k].price = 0
    /\ HandlerFails(k)
    /\ UNCHANGED <<exchangeVars, fills, phase, book, bookDay, updates, halted,
                   dead, history>>

(* The book takes the event's quantity for what the fill adds; it moves    *)
(* before anything is published.                                           *)
Apply(k) ==
    LET e == fills.log[k]
        o == OrderOf[e.order] IN
    /\ IsNext(k) /\ Genuine(e) /\ e.price # 0
    /\ book' = ApplyFill(book, o.inst, e.qty, e.price, CostsOf(e.order))
    /\ cash' = cash - e.qty * e.price
    /\ doubt' = IF k \in applied \cup dead \/ (e.fill /\ e.qty # e.share)
                THEN doubt \cup {o.inst} ELSE doubt
    /\ applied' = applied \cup {k}
    /\ cur' = k /\ step' = "publish"
    /\ UNCHANGED <<exchangeVars, fills, phase, batch, bookDay, updates, halted,
                   dead, faults>>

(* publish raises, before or after the update has landed.                  *)
PublishFails ==
    /\ step = "publish" /\ cur # 0
    /\ Fault
    /\ updates' \in {updates, Append(updates, [day |-> bookDay, net |-> NetPnl(book)])}
    /\ Len(updates') <= MaxUpdates
    /\ HandlerFails(cur)
    /\ UNCHANGED <<exchangeVars, fills, phase, book, bookDay, halted, dead,
                   applied, cash, doubt>>

(* dead_letter: published, then acknowledged.                              *)
DeadLetter ==
    /\ step = "dead"
    /\ dead' = dead \cup {cur}
    /\ doubt' = IF cur \in applied THEN doubt
                ELSE doubt \cup {InstOf(fills.log[cur])}
    /\ step' = "ack"
    /\ UNCHANGED <<exchangeVars, fills, phase, batch, cur, book, bookDay, updates,
                   halted, faults, applied, cash>>

Ack ==
    /\ step = "ack"
    /\ fills' = XAck(fills, cur)
    /\ HandlerDone(cur)
    /\ UNCHANGED <<exchangeVars, phase, book, bookDay, updates, halted, dead,
                   history>>

----------------------------------------------------------------------------
(* reconcile_now, at the start of a session and on a timer.                *)

Reconciling == LoopAt("start") \/ LoopAt("reconcile")

(* The answer read row by row: a row that cannot be parsed reads as flat.  *)
Rows(seen) == [i \in Instruments |-> IF i \in seen THEN Holds[i] ELSE 0]

(* Mutant: the update is published only when something was corrected.      *)
TellsBookIfWrong(wrong) == wrong # {}

TellsBook(wrong) == TRUE

(* Mutant: what only the broker holds is not adopted.                      *)
BooksOwn(rows) == [i \in Instruments |->
                      IF Quantity(book, i) = 0 THEN 0 ELSE rows[i]]

BooksOf(rows) == rows

Reconcile(seen) ==
    LET rows  == Rows(seen)
        wrong == Discrepancies(book, rows) IN
    /\ Reconciling
    /\ IF seen = Instruments THEN UNCHANGED faults ELSE Fault
    /\ book' = Reconciled(book, BooksOf(rows))
    /\ halted' = (halted \/ Cardinality(wrong) >= HaltThreshold)
    /\ cash' = book'.realized - Value(book')
    /\ doubt' = {i \in Instruments : InFlight(i) # 0 \/ i \notin seen}
    /\ IF TellsBook(wrong) THEN step' = "publish" /\ UNCHANGED phase
                           ELSE phase' = "claim" /\ UNCHANGED step
    /\ UNCHANGED <<exchangeVars, fills, batch, cur, bookDay, updates, dead,
                   applied>>

(* positions() fails: the book stays as it is; if the broker session has   *)
(* expired, trading is halted.                                             *)
ReconcileFails ==
    /\ Reconciling
    /\ Fault
    /\ halted' \in {halted, TRUE}
    /\ phase' = "claim"
    /\ UNCHANGED <<exchangeVars, fills, batch, cur, step, book, bookDay, updates,
                   dead, applied, cash, doubt>>

(* Not yet time.                                                           *)
NoReconcile ==
    /\ LoopAt("reconcile")
    /\ phase' = "claim"
    /\ UNCHANGED <<exchangeVars, fills, batch, cur, step, book, bookDay, updates,
                   halted, dead, history>>

(* _publish_update, after a fill or a reconciliation.                      *)
Publish ==
    /\ step = "publish" /\ Len(updates) < MaxUpdates
    /\ updates' = Append(updates, [day |-> bookDay, net |-> NetPnl(book)])
    /\ IF cur = 0 THEN step' = "idle" /\ phase' = "claim"
                  ELSE step' = "ack" /\ UNCHANGED phase
    /\ UNCHANGED <<exchangeVars, fills, batch, cur, book, bookDay, halted, dead,
                   history>>

----------------------------------------------------------------------------
(* The process dies and is started again: __init__ and start_session.      *)
Crash ==
    /\ Fault
    /\ phase' = "start" /\ batch' = {} /\ cur' = 0 /\ step' = "idle"
    /\ book' = EmptyBook /\ bookDay' = day
    /\ cash' = 0 /\ applied' = {}
    /\ doubt' = Instruments
    /\ UNCHANGED <<exchangeVars, fills, updates, halted, dead>>

Handle(k) == Ignore(k) \/ NoPrice(k) \/ Apply(k)

PositionLoop ==
    \/ NewSession
    \/ \E S \in SUBSET fills.pending : ClaimStale(S)
    \/ Read
    \/ \E k \in batch : Handle(k)
    \/ PublishFails \/ DeadLetter \/ Ack
    \/ \E seen \in SUBSET Instruments : Reconcile(seen)
    \/ ReconcileFails \/ NoReconcile \/ Publish

PMNext == Environment \/ PositionLoop \/ Crash

----------------------------------------------------------------------------
(* Properties.                                                             *)

(* Every variable stays in its domain, the group is well formed, and the   *)
(* entry being handled is one the group still holds as pending.            *)
TypeOK ==
    /\ day \in 0..MaxDay /\ bookDay \in 0..day
    /\ \A o \in Orders : 0 <= told[o] /\ told[o] <= done[o]
    /\ fills \in GroupOf(Event) /\ WellFormed(fills)
    /\ phase \in {"start", "claim", "read", "reconcile"}
    /\ step \in {"idle", "publish", "ack", "dead"}
    /\ batch \subseteq 1..fills.cursor
    /\ cur # 0 => cur \in batch /\ cur \in fills.pending /\ step # "idle"
    /\ book \in Book
    /\ updates \in Seq(Update) /\ Len(updates) <= MaxUpdates
    /\ halted \in BOOLEAN /\ faults \in 0..MaxFaults
    /\ dead \subseteq 1..fills.cursor

(* The book is what the broker holds less what is in flight, in every      *)
(* instrument, but for five reasons: a cumulative quantity applied as an   *)
(* increment, an entry applied a second time after its update could not be *)
(* published, a fill given up, one that was given up and then handed out   *)
(* again for want of its acknowledgement, and a reconciliation that found  *)
(* shares in flight (or rows it could not read).                           *)
SharesAddUp ==
    \A i \in Instruments \ doubt :
        Quantity(book, i) + InFlight(i) = Filled(i)

(* What the fills have made of a position is what the book and the fills   *)
(* in flight make together.                                                *)
FillsAddUp ==
    \A i \in Instruments : Quantity(book, i) + InFlight(i) = Filled(i)

(* A fill event that is new to the book moves it by what that event adds   *)
(* to its order's fills, and by nothing else.                              *)
EachFillIsAnIncrement ==
    [][\A k \in DOMAIN fills.log :
          k \in applied' \ applied /\ fills.log[k].fill =>
              \A i \in Instruments :
                  Quantity(book', i) - Quantity(book, i)
                      = IF i = InstOf(fills.log[k]) THEN fills.log[k].share
                                                    ELSE 0]_pmVars

(* Opening, adding, reducing, reversing: the day's result is what shares   *)
(* were sold and bought for, the open ones at their average price, but for *)
(* the rounding of averages.                                               *)
CashAddsUp == Size(book.realized - cash - Value(book)) <= Rounding

(* However often fills are counted twice or the process dies: when trading *)
(* is over, the book comes to equal what the broker holds.                 *)
BookConverges ==
    <>[](\A o \in Orders : told[o] = done[o]) =>
        <>[](\A i \in Instruments : Quantity(book, i) = Holds[i])

============================================================================
