---------------------------- MODULE DrawdownLoop ----------------------------
(***************************************************************************)
(* The loop that makes the daily drawdown breaker work: the position       *)
(* manager publishes its book, src/risk_manager.py adopts the day's result *)
(* and halts trading when it is too low.                                   *)
(*                                                                         *)
(* Of the risk manager: the session it starts when the date changes and    *)
(* _handle_position_update.  It reads position_updates in batches, through *)
(* a group whose stale entries it never reclaims: what it has read and not *)
(* handled when it dies is never handled.                                  *)
(***************************************************************************)
EXTENDS PositionManager

CONSTANT Cap        \* what the account may lose in a day

ASSUME CapAssumption == Cap \in Nat \ {0}

VARIABLES
    rmDay,      \* the risk engine's session_day
    pnl,        \* its realized_pnl_today
    tripped     \* its halted: the breaker

rmVars == <<rmDay, pnl, tripped>>
vars == <<pmVars, rmVars>>

Init == PMInit /\ rmDay = 0 /\ pnl = 0 /\ tripped = FALSE

(* Mutant: the kill switch is engaged only when the breaker first trips.   *)
HaltsAtFirst(trips) == halted \/ (trips /\ ~tripped)

(* Whenever the breaker is found tripped, now or before.                   *)
HaltsIf(trips) == halted \/ trips

(* _handle_position_update; read only in the session the clock says.       *)
RMHear ==
    /\ updates # <<>> /\ rmDay = day
    /\ pnl' = Head(updates).net
    /\ tripped' = (tripped \/ pnl' <= -Cap)
    /\ halted' = HaltsIf(tripped')
    /\ updates' = Tail(updates)
    /\ UNCHANGED <<exchangeVars, fills, loopVars, book, bookDay, dead, history,
                   rmDay>>

RMStarts == rmDay' = day /\ pnl' = 0 /\ tripped' = FALSE

(* RiskEngine.start_session on a new date.                                 *)
RMNewSession == rmDay # day /\ RMStarts /\ UNCHANGED pmVars

(* It dies with the first k updates read, and is started again.            *)
RMCrash(k) ==
    /\ Fault
    /\ updates' = SubSeq(updates, k + 1, Len(updates))
    /\ RMStarts
    /\ UNCHANGED <<exchangeVars, fills, loopVars, book, bookDay, halted, dead,
                   applied, cash, doubt>>

RiskLoop == RMHear \/ RMNewSession

Next == \/ PMNext /\ UNCHANGED rmVars
        \/ RiskLoop
        \/ \E k \in 0..Len(updates) : RMCrash(k)

Spec == Init /\ [][Next]_vars

(* The loops run, and a reconciliation that comes up again and again, as   *)
(* the timer makes it, is not put off or refused for ever.                 *)
Fairness ==
    /\ WF_vars(PositionLoop /\ UNCHANGED rmVars)
    /\ WF_vars(RiskLoop)
    /\ SF_vars(Reconcile(Instruments) /\ UNCHANGED rmVars)

FairSpec == Spec /\ Fairness

----------------------------------------------------------------------------
(* Properties.                                                             *)

Lost == NetPnl(book) <= -Cap

(* A day's loss beyond the cap that the book knows of, and keeps knowing   *)
(* of, trips the risk manager's breaker for good and halts trading,        *)
(* whatever updates were lost and whichever process was restarted; and a   *)
(* halt that a person clears while the loss stands is engaged again.       *)
LossReachesBreaker == <>[]Lost => <>[]tripped /\ []<>halted

============================================================================
