---------------------------- MODULE PositionBook ----------------------------
(***************************************************************************)
(* src/position_manager.py, PositionBook: positions and the day's result   *)
(* as a value, and what a fill or the broker's word makes of it.           *)
(*                                                                         *)
(*   positions  per instrument the signed quantity and the average price;  *)
(*              quantity 0: none                                           *)
(*   realized   realized_pnl_today                                         *)
(*   costs      costs_today                                                *)
(*                                                                         *)
(* Stops, open times, trade counts and the result per position are only    *)
(* reported.  Prices are whole units, chosen so that averages are too.     *)
(***************************************************************************)
EXTENDS Integers, FiniteSetsExt

CONSTANT Instruments

Size(n) == IF n < 0 THEN -n ELSE n

Holding == [qty : Int, price : Int]
Nothing == [qty |-> 0, price |-> 0]

Book == [positions : [Instruments -> Holding], realized : Int, costs : Int]

EmptyBook == [positions |-> [i \in Instruments |-> Nothing],
              realized |-> 0, costs |-> 0]

(* The positions stay.                                                     *)
StartSession(b) == [positions |-> b.positions, realized |-> 0, costs |-> 0]

NetPnl(b) == b.realized - b.costs

Quantity(b, i) == b.positions[i].qty

----------------------------------------------------------------------------
(* apply_fill of n shares, n # 0 and signed: the four cases.               *)

Opposite(h, n) == (h.qty > 0 /\ n < 0) \/ (h.qty < 0 /\ n > 0)

Opened(n, price) == [qty |-> n, price |-> price]

Added(h, n, price) ==
    [qty   |-> h.qty + n,
     price |-> (h.price * Size(h.qty) + price * Size(n)) \div Size(h.qty + n)]

(* Mutant: a reversal is a plain close, the remainder is lost.             *)
ReducedNoReversal(h, n, price) ==
    IF Size(n) >= Size(h.qty) THEN Nothing
    ELSE [qty |-> h.qty + n, price |-> h.price]

(* Closed, reduced, or reversed through zero.                              *)
Reduced(h, n, price) ==
    CASE Size(n) = Size(h.qty) -> Nothing
      [] Size(n) < Size(h.qty) -> [qty |-> h.qty + n, price |-> h.price]
      [] OTHER                 -> Opened(h.qty + n, price)

AfterFill(h, n, price) ==
    IF h.qty = 0 THEN Opened(n, price)
    ELSE IF Opposite(h, n) THEN Reduced(h, n, price) ELSE Added(h, n, price)

(* Mutant: the whole fill is taken for a close.                            *)
RealizedOfFill(h, n, price) ==
    IF Opposite(h, n) THEN (price - h.price) * (-n) ELSE 0

(* What the fill realises: on the shares it closes.                        *)
Realized(h, n, price) ==
    IF ~Opposite(h, n) THEN 0
    ELSE (price - h.price) * (IF Size(n) < Size(h.qty) THEN (-n) ELSE h.qty)

ApplyFill(b, i, n, price, costs) ==
    [positions |-> [b.positions EXCEPT ![i] = AfterFill(@, n, price)],
     realized  |-> b.realized + Realized(b.positions[i], n, price),
     costs     |-> b.costs + costs]

----------------------------------------------------------------------------
(* reconcile with the broker's quantities: it wins.  What it holds and the *)
(* book does not is adopted at an unknown price.                           *)

Corrected(h, n) ==
    IF n = 0 THEN Nothing
    ELSE [qty |-> n, price |-> IF h.qty = 0 THEN 0 ELSE h.price]

Reconciled(b, broker) ==
    [positions |-> [i \in Instruments |-> Corrected(b.positions[i], broker[i])],
     realized |-> b.realized, costs |-> b.costs]

Discrepancies(b, broker) == {i \in Instruments : Quantity(b, i) # broker[i]}

----------------------------------------------------------------------------
(* What the positions have cost at their average prices.                   *)
Value(b) ==
    MapThenSumSet(LAMBDA i : Quantity(b, i) * b.positions[i].price, Instruments)

============================================================================
