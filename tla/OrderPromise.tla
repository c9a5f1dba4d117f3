---------------------------- MODULE OrderPromise ----------------------------
(***************************************************************************)
(* What the execution engine promises the rest of the system about live    *)
(* orders, without streams, retries, reports or crashes: an order is       *)
(* placed at most once; what is told of its fills has happened at the      *)
(* broker and only ever grows; and after one verdict, which is true,       *)
(* nothing more is told.  ExecutionEngine implements it.                   *)
(***************************************************************************)
EXTENDS Integers

CONSTANTS Orders, Quantity

VARIABLES
    placed,     \* how often the order was placed at the broker
    filled,     \* shares the broker has filled
    ended,      \* how the broker ended the order other than by filling it
    told,       \* shares the engine has told of
    verdict     \* the last word on the order

vars == <<placed, filled, ended, told, verdict>>

Init ==
    /\ placed = [o \in Orders |-> 0]
    /\ filled = [o \in Orders |-> 0]
    /\ ended = [o \in Orders |-> "open"]
    /\ told = [o \in Orders |-> 0]
    /\ verdict = [o \in Orders |-> "none"]

(* The broker may refuse the order outright.                               *)
Place(o) ==
    /\ placed[o] = 0 /\ verdict[o] = "none"
    /\ placed' = [placed EXCEPT ![o] = 1]
    /\ ended' \in {ended, [ended EXCEPT ![o] = "rejected"]}
    /\ UNCHANGED <<filled, told, verdict>>

Fill(o) ==
    /\ placed[o] = 1 /\ ended[o] = "open"
    /\ \E n \in filled[o]+1..Quantity[o] : filled' = [filled EXCEPT ![o] = n]
    /\ UNCHANGED <<placed, ended, told, verdict>>

End(o) ==
    /\ placed[o] = 1 /\ ended[o] = "open" /\ filled[o] < Quantity[o]
    /\ \E e \in {"rejected", "cancelled"} : ended' = [ended EXCEPT ![o] = e]
    /\ UNCHANGED <<placed, filled, told, verdict>>

TellFill(o) ==
    /\ verdict[o] = "none"
    /\ \E n \in told[o]+1..filled[o] :
          /\ told' = [told EXCEPT ![o] = n]
          /\ verdict' = IF n = Quantity[o]
                        THEN [verdict EXCEPT ![o] = "filled"] ELSE verdict
    /\ UNCHANGED <<placed, filled, ended>>

(* The broker's ending; or that it was never taken; or, of an order        *)
(* nothing was heard of, that it is given up.                              *)
TellEnd(o) ==
    /\ verdict[o] = "none"
    /\ \/ ended[o] # "open" /\ verdict' = [verdict EXCEPT ![o] = ended[o]]
       \/ placed[o] = 0 /\ verdict' = [verdict EXCEPT ![o] = "rejected"]
       \/ told[o] = 0 /\ verdict' = [verdict EXCEPT ![o] = "expired"]
    /\ UNCHANGED <<placed, filled, ended, told>>

Next ==
    \E o \in Orders : Place(o) \/ Fill(o) \/ End(o) \/ TellFill(o) \/ TellEnd(o)

Spec == Init /\ [][Next]_vars

=============================================================================
