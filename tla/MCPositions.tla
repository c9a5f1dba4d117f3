---------------------------- MODULE MCPositions ----------------------------
(* Small instances of DrawdownLoop for TLC.                                *)
EXTENDS DrawdownLoop, TLC

CONSTANTS i1, buy, sell

(* Bought, and more than that sold lower: a loss and a reversal.           *)
(* Multiples of 2520 keep most averages whole.                             *)
LossThenReversal ==
    (buy  :> [inst |-> i1, qty |->  2, price |-> 5040, costs |-> 1]) @@
    (sell :> [inst |-> i1, qty |-> -3, price |-> 2520, costs |-> 1])

(* The environment takes a step only where a step of the two processes may *)
(* read what it writes: a fill before a reconciliation, or with its report *)
(* before a read; a date before a loop that looks at it.  Elsewhere these  *)
(* steps commute with those of the processes.                              *)
WhenRead ==
    /\ done' # done \/ told' # told \/ ended' # ended
          => Reconciling \/ LoopAt("read")
    /\ day' # day => LoopAt("claim") \/ updates # <<>>
    /\ halted # halted' /\ ~halted' => LoopAt("claim")

============================================================================
