---------------------------- MODULE SmaCrossover ----------------------------
(***************************************************************************)
(* src/strategies/sma_crossover.py on one instrument: two running sums of  *)
(* the session's closes, and a signal where their means cross.  The engine *)
(* decides when an entry is allowed and what is held.                      *)
(***************************************************************************)
EXTENDS Integers, Sequences, SequencesExt

CONSTANTS
    ShortPeriod, LongPeriod,
    SmaCloses,      \* what a bar may close at
    MaxSmaBars      \* bound: bars of a session

ASSUME SmaAssumption ==
    /\ {ShortPeriod, LongPeriod} \subseteq Nat \ {0} /\ ShortPeriod < LongPeriod
    /\ SmaCloses \subseteq Nat

VARIABLES
    window,     \* _windows
    shortSum,   \* _short_sum
    longSum,    \* _long_sum
    above,      \* _above: "unknown" until the averages have been read
    long,       \* whether a position is held
    crossing,   \* what the last bar made the strategy signal
    closes      \* the closes of the session (history)

averages == <<window, shortSum, longSum, above>>
smaVars  == <<averages, long, crossing, closes>>

SmaInit ==
    /\ window = <<>> /\ shortSum = 0 /\ longSum = 0 /\ above = "unknown"
    /\ long = FALSE /\ crossing = "none" /\ closes = <<>>

(* Mutant: the close that leaves the short sum is one too new.             *)
LeavesShortLate(w) == w[Len(w) - ShortPeriod + 1]

(* The close that leaves the short sum when w has been pushed.             *)
LeavesShort(w) == w[Len(w) - ShortPeriod]

(* _update.                                                                *)
Pushes(c) ==
    LET w == Append(window, c)
        full == Len(w) > LongPeriod
    IN  /\ shortSum' = shortSum + c - (IF Len(w) > ShortPeriod THEN LeavesShort(w) ELSE 0)
        /\ longSum' = longSum + c - (IF full THEN w[1] ELSE 0)
        /\ window' = IF full THEN Tail(w) ELSE w

IsAbove == shortSum' * LongPeriod > longSum' * ShortPeriod

(* Mutant: the first reading counts as a crossing.                         *)
CrossesAtOnce(was, is) == was # is

(* The first reading establishes state only.                               *)
Crosses(was, is) == was # "unknown" /\ was # is

(* on_bar.                                                                 *)
SmaBar(c, allowsEntry) ==
    LET is == IF IsAbove THEN "above" ELSE "below"
    IN  /\ Len(closes) < MaxSmaBars
        /\ Pushes(c) /\ closes' = Append(closes, c) /\ long' = long
        /\ IF Len(window') < LongPeriod
           THEN above' = above /\ crossing' = "none"
           ELSE /\ above' = is
                /\ crossing' = IF ~Crosses(above, is) THEN "none"
                               ELSE CASE is = "above" /\ ~long /\ allowsEntry -> "open"
                                      [] is = "below" /\ long -> "close"
                                      [] OTHER -> "none"

(* on_session_start, or a new process.                                     *)
SmaSession ==
    /\ closes # <<>>
    /\ window' = <<>> /\ shortSum' = 0 /\ longSum' = 0 /\ above' = "unknown"
    /\ crossing' = "none" /\ closes' = <<>>
    /\ long' = long

(* The mirror of position_updates: filled, stopped out or exited.          *)
SmaMirror ==
    /\ long' = ~long /\ crossing' = "none"
    /\ UNCHANGED <<averages, closes>>

SmaNext ==
    \/ \E c \in SmaCloses, allowsEntry \in BOOLEAN : SmaBar(c, allowsEntry)
    \/ SmaSession \/ SmaMirror

SmaSpec == SmaInit /\ [][SmaNext]_smaVars

----------------------------------------------------------------------------

(* The means of the definition: those of the last closes of the session.   *)
MeanAbove(s) ==
    LET sum(n) == SumFunctionOnSet(s, (Len(s) - n + 1)..Len(s))
    IN  sum(ShortPeriod) * LongPeriod > sum(LongPeriod) * ShortPeriod

(* An entry is signalled at a crossing of the two moving averages of this  *)
(* session's closes, and an exit at one the other way: at the bar before,  *)
(* which had a full window too, the averages lay the other way round.      *)
SignalsAreCrossings ==
    crossing # "none" =>
        /\ Len(closes) > LongPeriod
        /\ MeanAbove(closes) = (crossing = "open")
        /\ MeanAbove(Front(closes)) = (crossing = "close")

============================================================================
