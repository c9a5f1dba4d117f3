--------------------------- MODULE ConsumerGroup ---------------------------
(***************************************************************************)
(* One Redis stream read through one consumer group, as                    *)
(* src/event_bus.py's StreamConsumer uses it.  The group is a value:       *)
(*                                                                         *)
(*   log      the entries XADDed so far, oldest first                      *)
(*   cursor   the last entry XREADGROUP ">" has handed out                 *)
(*   pending  the Pending Entries List: handed out and not yet XACKed      *)
(*   times    times_delivered of every entry (0: never handed out)         *)
(*                                                                         *)
(* The group survives the consumer: a crash of the consumer leaves it as   *)
(* it is.  Each consuming component holds one such value in a variable and *)
(* moves it with the operators below.                                      *)
(***************************************************************************)
EXTENDS Integers, Sequences

CONSTANT MaxDeliveries          \* config.MAX_DELIVERIES

ASSUME MaxDeliveriesAssumption == MaxDeliveries \in Nat \ {0}

EmptyGroup == [log |-> <<>>, cursor |-> 0, pending |-> {}, times |-> <<>>]

GroupOf(E) == [log : Seq(E), cursor : Nat, pending : SUBSET Nat, times : Seq(Nat)]

(* What every reachable group satisfies.                                   *)
WellFormed(g) ==
    /\ Len(g.times) = Len(g.log)
    /\ g.cursor <= Len(g.log)
    /\ g.pending \subseteq 1..g.cursor

Bump(g, S) ==
    [i \in 1..Len(g.log) |-> IF i \in S THEN g.times[i] + 1 ELSE g.times[i]]

(* publish(): the MAXLEN trim is not modelled (see the README).            *)
XAdd(g, e) == [log     |-> Append(g.log, e),
               cursor  |-> g.cursor,
               pending |-> g.pending,
               times   |-> Append(g.times, 0)]

(* Several entries, one after the other.                                   *)
XAddAll(g, es) == [log     |-> g.log \o es,
                   cursor  |-> g.cursor,
                   pending |-> g.pending,
                   times   |-> g.times \o [k \in 1..Len(es) |-> 0]]

(* The entries one XREADGROUP ">" with COUNT n hands out.                  *)
Unread(g, n) == {i \in 1..Len(g.log) : i > g.cursor /\ i <= g.cursor + n}

(* Mutant: NOACK, an entry is settled as soon as it is handed out.         *)
XReadGroupNoAck(g, n) ==
    LET last == IF g.cursor + n < Len(g.log) THEN g.cursor + n ELSE Len(g.log)
    IN  [log     |-> g.log,
         cursor  |-> last,
         pending |-> g.pending,
         times   |-> Bump(g, Unread(g, n))]

XReadGroup(g, n) ==
    LET new  == Unread(g, n)
        last == IF g.cursor + n < Len(g.log) THEN g.cursor + n ELSE Len(g.log)
    IN  [log     |-> g.log,
         cursor  |-> last,
         pending |-> g.pending \cup new,
         times   |-> Bump(g, new)]

(* XAUTOCLAIM of the pending entries S that have been idle long enough.    *)
XAutoClaim(g, S) == [g EXCEPT !.times = Bump(g, S)]

XAck(g, i) == [g EXCEPT !.pending = @ \ {i}]

XAckAll(g, S) == [g EXCEPT !.pending = @ \ S]

(* Mutant: one delivery too few.                                           *)
IsPoisonEarly(g, i) == g.times[i] + 1 >= MaxDeliveries

IsPoison(g, i) == g.times[i] >= MaxDeliveries

(* Delivered and acknowledged: the group will not hand it out again.       *)
Settled(g, i) == i <= g.cursor /\ i \notin g.pending

============================================================================
