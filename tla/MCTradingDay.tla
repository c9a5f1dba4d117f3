---------------------------- MODULE MCTradingDay ----------------------------
(* Small instances of PaperBroker for TLC: the risk manager alone, the     *)
(* paper broker under any orders, or the one feeding the other.            *)
EXTENDS PaperBroker

CONSTANTS Parts, \* which of these a behaviour may be
          Sizes, \* bound: sizes of orders from outside the risk manager
          Ends   \* bound: minutes a bar may be of

VARIABLE part

vars == <<part, riskVars, paperVars>>

Loss == {-6}

FourAndTwo == [ref |-> 4, stop |-> 2, target |-> 0]

Approvable == {"OPEN_LONG", "CLOSE_LONG"}

Init == part \in Parts /\ RiskInit /\ PaperInit

Next ==
    /\ part' = part
    /\ \/ part = "risk" /\ (RiskLoop \/ RiskWorld \/ Clock) /\ UNCHANGED paperVars
       \/ part # "risk" /\ PaperLoop
       \/ part # "risk" /\ Clock /\ UNCHANGED paperVars
       \/ part # "risk" /\ \E b \in Bars(Ends) : BarComes(b)
       \/ part = "paper" /\ \E i \in Instruments, intent \in Approvable, n \in Sizes :
             OrderArrives([inst |-> i, intent |-> intent, barTime |-> 0,
                           qty |-> n, from |-> Len(approved.log) + 1,
                           day |-> 0])
       \/ part = "whole" /\ (RiskLoop \/ RiskWorld) /\ UNCHANGED paperVars

Spec == Init /\ [][Next]_vars

(* The steps of the world matter where they are read; elsewhere they       *)
(* commute with those of the two processes.  The paper broker does not     *)
(* read the clock, and its bars may come late: the clock can run ahead.    *)
ToJudge == rmBatch # {} /\ judged = NotJudged

WhenAsked ==
    IF part = "paper"
    THEN /\ approved'.log # approved.log => paperLoop = "orders"
         /\ tape'.log # tape.log => paperLoop = "read" /\ paperBatch = {}
         /\ now' = now => now = MaxTime
    ELSE /\ signals'.log # signals.log => rmLoop = "read" /\ rmBatch = {}
         /\ Len(updates') > Len(updates) => rmLoop \in {"positions", "down"}
         /\ now' # now => rmLoop \in {"top", "down"} \/ ToJudge
         /\ live' # live => ToJudge
         /\ (halted' # halted /\ rmLoop' = rmLoop /\ rmLoop # "down") => ToJudge

TypeOK == RiskTypeOK /\ PaperTypeOK

============================================================================
