----------------------------- MODULE MCBacktest -----------------------------
(* Small instances of Backtest for TLC.                                    *)
EXTENDS Backtest

TradedBar(o, h, l, c, m) ==
    [open |-> o, high |-> h, low |-> l, close |-> c, most |-> m,
     synthetic |-> FALSE]

(* A quiet bar, one whose range holds stop and target of a long, a gap     *)
(* down, a bar in which one share can be filled, and a rise in which none. *)
FewBars ==
    {TradedBar(20, 20, 20, 20, 9), TradedBar(20, 30, 17, 20, 9),
     TradedBar(16, 16, 16, 16, 9), TradedBar(20, 20, 20, 20, 1),
     TradedBar(20, 30, 20, 20, 0)}

QuietBars == {TradedBar(20, 20, 20, 20, 9)}

(* Sessions of four bars, one of them after the square-off window.         *)
FourBarDay == [t \in 0..MaxTime |-> t \div 4]

FourBarPhase ==
    [t \in 0..MaxTime |->
        <<"entry", "entry", "square_off", "closed">>[1 + (t % 4)]]

OneDay == [t \in 0..MaxTime |-> 0]

EntryPhase == [t \in 0..MaxTime |-> "entry"]

============================================================================
