--------------------------- MODULE SessionEquity ---------------------------
(***************************************************************************)
(* src/account.py: the equity a day's positions are sized on.  It is read  *)
(* from the broker once, checked, and pinned in a file, so that a process  *)
(* that starts again sizes by the same figure.                             *)
(***************************************************************************)
EXTENDS Integers

CONSTANTS
    MinEquity,      \* config.MIN_EQUITY; 0: no floor
    MaxJumpPercent  \* validate_snapshot's max_jump_ratio

ASSUME SessionEquityAssumption == {MinEquity, MaxJumpPercent} \subseteq Nat

(* The state file: an unreadable one counts as none.                       *)
Pin   == [day : Nat, equity : Int]
NoPin == [day |-> -1, equity |-> 0]

(* last_known_equity: 0 stands for none.                                   *)
LastKnown(file) == file.equity

Change(e, f) == IF e > f THEN e - f ELSE f - e

(* validate_snapshot.                                                      *)
ValidSnapshot(e, previous) ==
    /\ e > 0
    /\ MinEquity > 0 => e >= MinEquity
    /\ previous > 0 => Change(e, previous) * 100 <= MaxJumpPercent * previous

(* Mutant: every process asks the broker anew.                             *)
RestoresNever(file, day) == FALSE

(* A restart within the session.                                           *)
Restores(file, day) == file.day = day

(* resolve, in a process that has not resolved this day: answer is the     *)
(* broker's figure, of which there may be none.  The empty set:            *)
(* EquityUnavailable.                                                      *)
Resolved(file, day, answers) ==
    IF Restores(file, day) THEN {file}
    ELSE {[day |-> day, equity |-> e] :
             e \in {a \in answers : ValidSnapshot(a, LastKnown(file))}}

============================================================================
