---------------------------- MODULE MCOperations ----------------------------
(* Small instances for TLC of what runs beside the trading path: the       *)
(* archiver, an alerter, and the guard and the ladder of live trading.     *)
EXTENDS Archive, Alerter, LiveTrading

CONSTANT Parts  \* which of these a behaviour may be

VARIABLE part

vars == <<part, archiveVars, alertVars, liveVars>>

Rungs == <<[sessions |-> 1, trades |-> 2], [sessions |-> 2, trades |-> 2],
           [sessions |-> 0, trades |-> 0]>>

Sessions == [trades : 0..2, net : {-1, 1}, r : {-1, 1}, halted : BOOLEAN]

Init ==
    /\ part \in Parts /\ ArchiveInit /\ AlertInit /\ LiveInit
    /\ part # "archive" => influx = "up"

Next ==
    /\ part' = part
    /\ \/ part = "archive" /\ ArchiveNext /\ UNCHANGED <<alertVars, liveVars>>
       \/ part = "alerter" /\ AlertNext /\ UNCHANGED <<archiveVars, liveVars>>
       \/ part = "guard" /\ GuardNext /\ UNCHANGED <<archiveVars, alertVars>>
       \/ part = "ladder" /\ LadderNext /\ UNCHANGED <<archiveVars, alertVars>>

(* The fairness of ArchiveFairness, for the behaviours that are archivers. *)
ArchivesOn ==
    part = "archive" /\ ArchiveLoop /\ UNCHANGED <<part, alertVars, liveVars>>

Spec == Init /\ [][Next]_vars /\ WF_vars(ArchivesOn)

============================================================================
