--------------------------- MODULE MarketCalendar ---------------------------
(***************************************************************************)
(* src/market_calendar.py: which days the exchange trades, and what the    *)
(* bot may do at each time of such a day.  A moment is a number of time    *)
(* units, DayLength of them to a day; day 0 is a Monday.                   *)
(***************************************************************************)
EXTENDS Integers, FiniteSets

CONSTANTS
    DayLength,      \* units in a day
    PreOpenStart, SessionOpen, EntryStart, EntryCutoff, SquareOff,
    SessionClose,   \* times of day
    Holidays        \* HOLIDAYS: days

ASSUME CalendarAssumption ==
    /\ Holidays \subseteq Nat
    /\ {DayLength, PreOpenStart, SessionOpen, EntryStart, EntryCutoff,
        SquareOff, SessionClose} \subseteq Nat
    /\ PreOpenStart <= SessionOpen /\ SessionOpen <= EntryStart
    /\ EntryStart <= EntryCutoff /\ EntryCutoff <= SquareOff
    /\ SquareOff <= SessionClose /\ SessionClose < DayLength

Phases == {"closed", "pre_open", "opening", "entry", "no_new_entry", "square_off"}

AllowsEntry(p)  == p = "entry"
AllowsExit(p)   == p \in {"opening", "entry", "no_new_entry", "square_off"}
RequiresFlat(p) == p = "square_off"

DateOf(t)  == t \div DayLength
TimeOf(t)  == t % DayLength
At(d, c)   == d * DayLength + c

IsTradingDay(d) == d % 7 < 5 /\ d \notin Holidays

(* Only for trading days: None otherwise.                                  *)
SessionWindow(d) == [open |-> At(d, SessionOpen), close |-> At(d, SessionClose)]

Phase(t) ==
    LET c == TimeOf(t)
    IN  CASE ~IsTradingDay(DateOf(t)) \/ c < PreOpenStart \/ c >= SessionClose
                               -> "closed"
          [] OTHER -> CASE c < SessionOpen -> "pre_open"
                        [] c >= SessionOpen /\ c < EntryStart -> "opening"
                        [] c >= EntryStart /\ c < EntryCutoff -> "entry"
                        [] c >= EntryCutoff /\ c < SquareOff -> "no_new_entry"
                        [] c >= SquareOff -> "square_off"

IsMarketOpen(t) == AllowsExit(Phase(t))

============================================================================
