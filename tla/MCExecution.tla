---------------------------- MODULE MCExecution ----------------------------
(* Small instances of ExecutionEngine for TLC.                             *)
EXTENDS ExecutionEngine, TLC

CONSTANT Shares                 \* every order is for this many

EveryOrder == [o \in Orders |-> Shares]

Symmetry == Permutations(Orders)

(* The runs about admission leave the broker's own steps, and the reports  *)
(* that would show them, to the runs about fills.  They take a step of the *)
(* environment only where the engine's next step reads what it writes: an  *)
(* approval before a read, a halt before a kill-switch check or a send, a  *)
(* lapse of a key before a loop.  Elsewhere these steps commute with the   *)
(* engine's.                                                               *)
AdmissionOnly ==
    /\ approved'.log # approved.log => LoopAt("read")
    /\ halted' # halted => step = "send" \/ (cur = 0 /\ batch # {})
    /\ lapsed' # lapsed => LoopAt("claim")
    /\ \A o \in Orders : broker'[o].placed = broker[o].placed
                           => broker'[o] = broker[o]
    /\ phase' # "apply"

============================================================================
