--------------------------- MODULE PositionProofs ---------------------------
(***************************************************************************)
(* The book of positions and the fills at the exchange, for any number of  *)
(* instruments, orders, deliveries, sessions and faults: the book is off   *)
(* only where one of the causes that `doubt' names has put it off.         *)
(***************************************************************************)
EXTENDS DrawdownLoop, Lemmas

----------------------------------------------------------------------------
(* The book as a value.                                                    *)

LEMMA SizeIs ==
    ASSUME NEW n \in Int
    PROVE  Size(n) \in Nat /\ (n # 0 => Size(n) > 0)
  BY DEF Size

(* A fill moves a position by its shares, whichever of the cases it is:    *)
(* opening, adding, reducing, closing, reversing.                          *)
LEMMA FillMovesBy ==
    ASSUME NEW h \in Holding, NEW n \in Int \ {0}, NEW price \in Int
    PROVE  /\ AfterFill(h, n, price) \in Holding
           /\ AfterFill(h, n, price).qty = h.qty + n
<1>1. h.qty \in Int /\ h.price \in Int
  BY DEF Holding
<1>2. CASE h.qty = 0
  BY <1>1, <1>2 DEF AfterFill, Opened, Holding
<1>3. CASE h.qty # 0 /\ Opposite(h, n)
  BY <1>1, <1>3 DEF AfterFill, Reduced, Opposite, Size, Nothing, Opened, Holding
<1>4. CASE h.qty # 0 /\ ~Opposite(h, n)
  <2>1. h.qty + n \in Int \ {0}
    BY <1>1, <1>4 DEF Opposite
  <2> DEFINE paid == h.price * Size(h.qty) + price * Size(n)
  <2>2. /\ Size(h.qty) \in Nat /\ Size(n) \in Nat
        /\ Size(h.qty + n) \in Nat /\ Size(h.qty + n) > 0
    BY <1>1, <2>1, SizeIs
  <2>3. paid \in Int
    BY <1>1, <2>2
  <2> HIDE DEF paid
  <2>4. paid \div Size(h.qty + n) \in Int
    BY <2>2, <2>3
  <2> QED
    BY <1>4, <2>1, <2>4 DEF AfterFill, Added, Holding, paid
<1> QED
  BY <1>2, <1>3, <1>4

LEMMA FillKeepsBook ==
    ASSUME NEW b \in Book, NEW i \in Instruments, NEW n \in Int \ {0},
           NEW price \in Int, NEW costs \in Int
    PROVE  /\ ApplyFill(b, i, n, price, costs) \in Book
           /\ Quantity(ApplyFill(b, i, n, price, costs), i) = Quantity(b, i) + n
           /\ \A j \in Instruments \ {i} :
                 Quantity(ApplyFill(b, i, n, price, costs), j) = Quantity(b, j)
<1> DEFINE h == b.positions[i]
           c == ApplyFill(b, i, n, price, costs)
<1>1. /\ h \in Holding /\ b.positions \in [Instruments -> Holding]
      /\ b.realized \in Int /\ b.costs \in Int
  BY DEF Book
<1>2. AfterFill(h, n, price) \in Holding /\ AfterFill(h, n, price).qty = h.qty + n
  BY <1>1, FillMovesBy
<1>3. Realized(h, n, price) \in Int
  <2>1. h.qty \in Int /\ h.price \in Int
    BY <1>1 DEF Holding
  <2>2. (price - h.price) * (-n) \in Int /\ (price - h.price) * h.qty \in Int
    BY <2>1
  <2> QED
    BY <2>2 DEF Realized
<1>4. /\ c.positions = [b.positions EXCEPT ![i] = AfterFill(h, n, price)]
      /\ c.realized = b.realized + Realized(h, n, price)
      /\ c.costs = b.costs + costs
      /\ c = [positions |-> c.positions, realized |-> c.realized, costs |-> c.costs]
  BY DEF ApplyFill
<1> HIDE DEF c, h
<1>5. c.positions \in [Instruments -> Holding]
  BY <1>1, <1>2, <1>4
<1>6. c \in Book
  BY <1>1, <1>3, <1>4, <1>5 DEF Book
<1>7. c.positions[i] = AfterFill(h, n, price)
  BY <1>1, <1>4
<1>8. \A j \in Instruments \ {i} : c.positions[j] = b.positions[j]
  BY <1>1, <1>4
<1> QED
  BY <1>2, <1>6, <1>7, <1>8 DEF Quantity, c, h

(* The broker's word is taken.                                             *)
LEMMA BrokerWins ==
    ASSUME NEW b \in Book, NEW rows \in [Instruments -> Int]
    PROVE  /\ Reconciled(b, rows) \in Book
           /\ \A i \in Instruments : Quantity(Reconciled(b, rows), i) = rows[i]
<1>1. \A i \in Instruments : /\ Corrected(b.positions[i], rows[i]) \in Holding
                             /\ Corrected(b.positions[i], rows[i]).qty = rows[i]
  BY DEF Corrected, Nothing, Holding, Book
<1> QED
  BY <1>1 DEF Reconciled, Quantity, Book

LEMMA SessionKeepsPositions ==
    ASSUME NEW b \in Book
    PROVE  /\ StartSession(b) \in Book
           /\ \A i \in Instruments : Quantity(StartSession(b), i) = Quantity(b, i)
  BY DEF StartSession, Quantity, Book

LEMMA EmptyBookIsBook ==
    /\ EmptyBook \in Book
    /\ \A i \in Instruments : Quantity(EmptyBook, i) = 0
  BY DEF EmptyBook, Nothing, Quantity, Book, Holding

LEMMA NetIsInt == ASSUME NEW b \in Book PROVE NetPnl(b) \in Int
  BY DEF NetPnl, Book

----------------------------------------------------------------------------
(* Types, with what the handler of an entry has done to it so far.         *)

(* An event of a fill has shares, and any other stands for none.           *)
EventsTell == \A k \in 1..Len(fills.log) :
                 IF fills.log[k].fill THEN fills.log[k].qty # 0
                                      ELSE fills.log[k].share = 0

(* The entry at hand is applied before its update is published, and it is  *)
(* acknowledged only when it is applied, given up, or stands for nothing.  *)
HandlerInv ==
    /\ step = "idle" => cur = 0
    /\ step \in {"ack", "dead"} => cur # 0
    /\ step = "publish" /\ cur # 0 => cur \in applied
    /\ step = "ack" => cur \in applied \cup dead \/ fills.log[cur].share = 0

TypeInv ==
    /\ TypeOK /\ EventsTell /\ HandlerInv
    /\ done \in [Orders -> Nat] /\ told \in [Orders -> Nat]
    /\ batch \subseteq fills.pending
    /\ applied \subseteq 1..fills.cursor

LEMMA SignedIsInt ==
    ASSUME NEW o \in Orders, NEW n \in Int
    PROVE  Signed(o, n) \in Int /\ (n = 0 <=> Signed(o, n) = 0)
  BY DEF Signed

LEMMA OrderTypes ==
    ASSUME NEW o \in Orders
    PROVE  /\ OrderOf[o].inst \in Instruments /\ OrderOf[o].qty \in Int \ {0}
           /\ OrderOf[o].price \in Nat \ {0} /\ CostsOf(o) \in Nat
           /\ Size(OrderOf[o].qty) \in Nat
<1>1. OrderOf[o] \in [inst : Instruments, qty : Int \ {0}, price : Nat \ {0}, costs : Nat]
  BY PositionsAssumption
<1> QED
  BY <1>1, SizeIs DEF CostsOf

LEMMA FillsAreGroup == TypeOK <=> TypeOK /\ fills \in Group(Event)
  BY DEF TypeOK, Group

LEMMA TypeInitially == Init => TypeInv
<1> SUFFICES ASSUME Init PROVE TypeInv
  OBVIOUS
<1>1. EmptyGroup \in Group(Event)
  BY EmptyGroupIsGroup
<1>2. /\ Len(fills.log) = 0 /\ fills.cursor = 0 /\ fills.pending = {}
  BY DEF Init, PMInit, EmptyGroup
<1>3. TypeOK
  <2>1. MaxDay \in Nat /\ MaxUpdates \in Nat /\ MaxFaults \in Nat
    BY PositionsAssumption
  <2>2. \A o \in Orders : told[o] = 0 /\ done[o] = 0
    BY DEF Init, PMInit
  <2>3. fills \in GroupOf(Event) /\ WellFormed(fills)
    BY <1>1 DEF Init, PMInit, Group
  <2>4. updates \in Seq(Update) /\ Len(updates) <= MaxUpdates
    BY <2>1 DEF Init, PMInit
  <2>5. book \in Book
    BY EmptyBookIsBook DEF Init, PMInit
  <2>6. /\ day = 0 /\ bookDay = 0 /\ phase = "start" /\ step = "idle" /\ cur = 0
        /\ batch = {} /\ dead = {} /\ faults = 0
    BY DEF Init, PMInit
  <2>7. halted \in BOOLEAN
    BY DEF Init, PMInit
  <2> QED
    BY <2>1, <2>2, <2>3, <2>4, <2>5, <2>6, <2>7 DEF TypeOK
<1>4. EventsTell /\ HandlerInv
  BY <1>2 DEF Init, PMInit, EventsTell, HandlerInv
<1> QED
  BY <1>3, <1>4 DEF Init, PMInit, TypeInv

LEMMA TypeOfExchangeFills ==
    ASSUME TypeInv, NEW o \in Orders, NEW n \in 1..Size(OrderOf[o].qty), ExchangeFills(o, n)
    PROVE  TypeInv'
  BY OrderTypes DEF ExchangeFills, TypeInv, TypeOK, EventsTell, HandlerInv, loopVars, history

(* An event is published: it is new, and nothing else changes.             *)
LEMMA TypeOfTelling ==
    ASSUME TypeInv, NEW e \in Event, fills' = XAdd(fills, e),
           IF e.fill THEN e.qty # 0 ELSE e.share = 0
    PROVE  /\ fills' \in Group(Event) /\ EventsTell'
           /\ fills'.cursor = fills.cursor /\ fills'.pending = fills.pending
           /\ Len(fills'.log) = Len(fills.log) + 1 /\ fills'.log[Len(fills.log) + 1] = e
           /\ \A k \in 1..Len(fills.log) : fills'.log[k] = fills.log[k]
           /\ UNCHANGED loopVars /\ UNCHANGED <<applied, dead>> => HandlerInv'
<1>0. fills \in Group(Event) /\ Len(fills.log) \in Nat
  BY FillsAreGroup, GroupTimes DEF TypeInv
<1>1. /\ fills' \in Group(Event)
      /\ fills'.cursor = fills.cursor /\ fills'.pending = fills.pending
      /\ Len(fills'.log) = Len(fills.log) + 1 /\ fills'.log[Len(fills.log) + 1] = e
      /\ \A k \in 1..Len(fills.log) : fills'.log[k] = fills.log[k]
  BY <1>0, XAddGroup
<1>2. EventsTell'
  BY <1>0, <1>1 DEF EventsTell, TypeInv
<1>3. step = "ack" => cur \in 1..Len(fills.log)
  BY <1>0 DEF TypeInv, TypeOK, HandlerInv, Group, GroupOf, WellFormed
<1>4. UNCHANGED loopVars /\ UNCHANGED <<applied, dead>> => HandlerInv'
  BY <1>1, <1>3 DEF TypeInv, HandlerInv, loopVars
<1> QED
  BY <1>1, <1>2, <1>4

LEMMA TypeOfEngineTells ==
    ASSUME TypeInv, NEW o \in Orders, EngineTells(o)
    PROVE  TypeInv'
<1>1. PICK price \in {OrderOf[o].price, 0} :
         /\ IF price = 0 THEN Fault ELSE UNCHANGED faults
         /\ fills' = XAdd(fills, [order |-> o, fill |-> TRUE, price |-> price,
                                  qty   |-> Signed(o, done[o]),
                                  share |-> Signed(o, done[o] - told[o])])
  BY DEF EngineTells
<1> DEFINE e == [order |-> o, fill |-> TRUE, price |-> price,
                 qty |-> Signed(o, done[o]), share |-> Signed(o, done[o] - told[o])]
<1>2. done[o] \in Nat /\ told[o] \in Nat /\ done[o] # 0 /\ done[o] - told[o] \in Int
  BY DEF EngineTells, TypeInv
<1>3. e \in Event /\ e.fill /\ e.qty # 0
  BY <1>2, OrderTypes, SignedIsInt DEF Event
<1> HIDE DEF e
<1>4. /\ fills' \in Group(Event) /\ EventsTell' /\ HandlerInv'
      /\ fills'.cursor = fills.cursor /\ fills'.pending = fills.pending
  <2>1. fills' = XAdd(fills, e)
    BY <1>1 DEF e
  <2>2. UNCHANGED loopVars /\ UNCHANGED <<applied, dead>>
    BY DEF EngineTells
  <2> QED
    BY <1>3, <2>1, <2>2, TypeOfTelling
<1>5. faults' \in 0..MaxFaults
  BY <1>1, PositionsAssumption DEF TypeInv, TypeOK, Fault
<1>6. told' \in [Orders -> Nat] /\ \A p \in Orders : 0 <= told'[p] /\ told'[p] <= done'[p]
  BY <1>2 DEF EngineTells, TypeInv, TypeOK
<1>7. TypeOK'
  BY <1>4, <1>5, <1>6 DEF EngineTells, loopVars, TypeInv, TypeOK, Group
<1> QED
  BY <1>4, <1>6, <1>7 DEF EngineTells, loopVars, TypeInv

LEMMA TypeOfEngineEnds ==
    ASSUME TypeInv, NEW o \in Orders, EngineEnds(o)
    PROVE  TypeInv'
<1> DEFINE e == [order |-> o, fill |-> FALSE, share |-> 0,
                 qty |-> IF done[o] = 0 THEN OrderOf[o].qty ELSE Signed(o, done[o]),
                 price |-> OrderOf[o].price]
<1>1. e \in Event /\ ~e.fill /\ e.share = 0
  BY OrderTypes, SignedIsInt DEF Event, TypeInv
<1>2. fills' = XAdd(fills, e)
  BY DEF EngineEnds
<1> HIDE DEF e
<1>3. UNCHANGED loopVars /\ UNCHANGED <<applied, dead>>
  BY DEF EngineEnds, history
<1>4. /\ fills' \in Group(Event) /\ EventsTell' /\ HandlerInv'
      /\ fills'.cursor = fills.cursor /\ fills'.pending = fills.pending
  BY <1>1, <1>2, <1>3, TypeOfTelling
<1>5. TypeOK'
  BY <1>4 DEF EngineEnds, loopVars, history, TypeInv, TypeOK, Group
<1> QED
  BY <1>4, <1>5 DEF EngineEnds, loopVars, history, TypeInv

LEMMA TypeOfEnvironment == TypeInv /\ Environment => TypeInv'
<1> SUFFICES ASSUME TypeInv, Environment PROVE TypeInv'
  OBVIOUS
<1>1. CASE \E o \in Orders : \E n \in 1..Size(OrderOf[o].qty) : ExchangeFills(o, n)
  BY <1>1, TypeOfExchangeFills
<1>2. CASE \E o \in Orders : EngineTells(o) \/ EngineEnds(o)
  BY <1>2, TypeOfEngineTells, TypeOfEngineEnds
<1>3. CASE NewDay
  BY <1>3, PositionsAssumption
     DEF NewDay, TypeInv, TypeOK, EventsTell, HandlerInv, loopVars, history
<1>4. CASE ClearHalt
  BY <1>4 DEF ClearHalt, TypeInv, TypeOK, EventsTell, HandlerInv, loopVars, history,
              exchangeVars
<1> QED
  BY <1>1, <1>2, <1>3, <1>4 DEF Environment

(* The log keeps its entries while they are handed out and settled.        *)
LEMMA TypeOfReading ==
    TypeInv /\ (NewSession \/ (\E S \in SUBSET fills.pending : ClaimStale(S)) \/ Read)
        => TypeInv'
<1> SUFFICES ASSUME TypeInv,
                    NewSession \/ (\E S \in SUBSET fills.pending : ClaimStale(S)) \/ Read
             PROVE  TypeInv'
  OBVIOUS
<1>0. fills \in Group(Event)
  BY FillsAreGroup DEF TypeInv
<1>1. CASE NewSession
  <2>1. book' \in Book /\ bookDay' \in 0..day' /\ phase' = "start"
    BY <1>1, SessionKeepsPositions DEF NewSession, exchangeVars, TypeInv, TypeOK
  <2>2. TypeOK'
    BY <1>1, <2>1 DEF NewSession, exchangeVars, TypeInv, TypeOK
  <2> QED
    BY <1>1, <2>2 DEF NewSession, exchangeVars, TypeInv, EventsTell, HandlerInv
<1>2. ASSUME NEW S \in SUBSET fills.pending, ClaimStale(S) PROVE TypeInv'
  <2>1. /\ fills' \in Group(Event) /\ fills'.log = fills.log
        /\ fills'.cursor = fills.cursor /\ fills'.pending = fills.pending
    BY <1>0, <1>2, XAutoClaimGroup DEF ClaimStale
  <2>2. /\ batch' = S /\ phase' = "read" /\ cur = 0 /\ step = "idle"
        /\ UNCHANGED <<exchangeVars, cur, step, book, bookDay, updates, halted, dead, history>>
    BY <1>2 DEF ClaimStale, LoopAt
  <2>3. fills.pending \subseteq 1..fills.cursor
    BY <1>0 DEF Group, WellFormed
  <2>4. TypeOK'
    BY <2>1, <2>2, <2>3 DEF exchangeVars, history, TypeInv, TypeOK, Group
  <2> QED
    BY <2>1, <2>2, <2>4 DEF exchangeVars, history, TypeInv, EventsTell, HandlerInv
<1>3. CASE Read
  <2>1. ReadCount \in Nat
    BY PositionsAssumption
  <2>2. /\ fills' \in Group(Event) /\ fills'.log = fills.log
        /\ fills'.cursor >= fills.cursor
        /\ fills'.pending = fills.pending \cup batch'
        /\ batch' \subseteq 1..fills'.cursor
    BY <1>0, <1>3, <2>1, XReadGroupGroup DEF Read
  <2>3. /\ phase' = "reconcile" /\ cur = 0 /\ step = "idle"
        /\ UNCHANGED <<exchangeVars, cur, step, book, bookDay, updates, halted, dead, history>>
    BY <1>3 DEF Read, LoopAt
  <2>4. 1..fills.cursor \subseteq 1..fills'.cursor
    BY <1>0, <2>2 DEF Group, GroupOf
  <2>5. TypeOK'
    BY <2>2, <2>3, <2>4 DEF exchangeVars, history, TypeInv, TypeOK, Group
  <2> QED
    BY <2>2, <2>3, <2>4, <2>5 DEF exchangeVars, history, TypeInv, EventsTell, HandlerInv
<1> QED
  BY <1>1, <1>2, <1>3

(* An update is published, or not, and there is room for it.               *)
LEMMA TypeOfUpdates ==
    ASSUME TypeInv, Len(updates') <= MaxUpdates,
           updates' \in {updates, Append(updates, [day |-> bookDay, net |-> NetPnl(book)])}
    PROVE  updates' \in Seq(Update)
<1>1. [day |-> bookDay, net |-> NetPnl(book)] \in Update
  BY NetIsInt DEF Update, TypeInv, TypeOK
<1>2. updates \in Seq(Update)
  BY DEF TypeInv, TypeOK
<1> HIDE DEF Update
<1>3. Append(updates, [day |-> bookDay, net |-> NetPnl(book)]) \in Seq(Update)
  BY <1>1, <1>2
<1> QED
  BY <1>2, <1>3

LEMMA TypeOfHandle ==
    ASSUME TypeInv, NEW k \in batch, Handle(k)
    PROVE  TypeInv'
<1>0. /\ k \in fills.pending /\ k \in 1..fills.cursor /\ k \in 1..Len(fills.log) /\ k # 0
      /\ fills \in Group(Event)
  BY FillsAreGroup DEF TypeInv, TypeOK, Group, GroupOf, WellFormed
<1>1. CASE Ignore(k)
  <2>1. fills.log[k].share = 0
    BY <1>0, <1>1 DEF Ignore, Genuine, EventsTell, TypeInv
  <2>2. /\ cur' = k /\ step' = "ack" /\ cur = 0
        /\ UNCHANGED <<exchangeVars, fills, phase, batch, book, bookDay, updates, halted,
                       dead, history>>
    BY <1>1 DEF Ignore, IsNext, TypeInv, HandlerInv
  <2>3. TypeOK'
    BY <1>0, <2>2 DEF exchangeVars, history, TypeInv, TypeOK
  <2> QED
    BY <1>0, <2>1, <2>2, <2>3 DEF exchangeVars, history, TypeInv, EventsTell, HandlerInv
<1>2. CASE NoPrice(k)
  <2>1. /\ \/ cur' = k /\ step' = "dead" /\ batch' = batch
           \/ cur' = 0 /\ step' = "idle" /\ batch' = batch \ {k}
        /\ UNCHANGED <<exchangeVars, fills, phase, book, bookDay, updates, halted, dead,
                       history>>
    BY <1>2 DEF NoPrice, HandlerFails, HandlerDone
  <2>2. TypeOK'
    BY <1>0, <2>1 DEF exchangeVars, history, TypeInv, TypeOK
  <2> QED
    BY <1>0, <2>1, <2>2 DEF exchangeVars, history, TypeInv, EventsTell, HandlerInv
<1>3. CASE Apply(k)
  <2> DEFINE e == fills.log[k]
  <2>1. e \in Event
    BY <1>0 DEF Group, GroupOf
  <2>2. e.order \in Orders /\ e.qty \in Int \ {0} /\ e.price \in Int
    BY <1>3, <2>1 DEF Apply, Genuine, Event
  <2>3. book' \in Book
    BY <1>3, <2>2, OrderTypes, FillKeepsBook DEF Apply, TypeInv, TypeOK
  <2>4. /\ cur' = k /\ step' = "publish" /\ cur = 0 /\ applied' = applied \cup {k}
        /\ UNCHANGED <<exchangeVars, fills, phase, batch, bookDay, updates, halted, dead,
                       faults>>
    BY <1>3 DEF Apply, IsNext, TypeInv, HandlerInv
  <2>5. TypeOK'
    BY <1>0, <2>3, <2>4 DEF exchangeVars, TypeInv, TypeOK
  <2> QED
    BY <1>0, <2>4, <2>5 DEF exchangeVars, TypeInv, EventsTell, HandlerInv
<1> QED
  BY <1>1, <1>2, <1>3 DEF Handle

LEMMA TypeOfSettling ==
    TypeInv /\ (PublishFails \/ DeadLetter \/ Ack \/ Publish) => TypeInv'
<1> SUFFICES ASSUME TypeInv, PublishFails \/ DeadLetter \/ Ack \/ Publish
             PROVE  TypeInv'
  OBVIOUS
<1>0. fills \in Group(Event) /\ (cur # 0 => cur \in batch /\ cur \in fills.pending)
  BY FillsAreGroup DEF TypeInv, TypeOK
<1>1. CASE PublishFails
  <2>1. /\ cur # 0 /\ faults' \in 0..MaxFaults
        /\ \/ cur' = cur /\ step' = "dead" /\ batch' = batch
           \/ cur' = 0 /\ step' = "idle" /\ batch' = batch \ {cur}
        /\ UNCHANGED <<exchangeVars, fills, phase, book, bookDay, halted, dead,
                       applied, cash, doubt>>
    BY <1>1, PositionsAssumption
       DEF PublishFails, Fault, HandlerFails, HandlerDone, TypeInv, TypeOK
  <2>2. updates' \in Seq(Update) /\ Len(updates') <= MaxUpdates
    BY <1>1, TypeOfUpdates DEF PublishFails
  <2>3. TypeOK'
    BY <1>0, <2>1, <2>2 DEF exchangeVars, TypeInv, TypeOK
  <2> QED
    BY <1>0, <2>1, <2>3 DEF exchangeVars, TypeInv, EventsTell, HandlerInv
<1>2. CASE DeadLetter
  <2>1. /\ cur # 0 /\ dead' = dead \cup {cur} /\ step' = "ack"
        /\ UNCHANGED <<exchangeVars, fills, phase, batch, cur, book, bookDay, updates,
                       halted, faults, applied, cash>>
    BY <1>2 DEF DeadLetter, TypeInv, HandlerInv
  <2>2. cur \in 1..fills.cursor
    BY <1>0, <2>1 DEF Group, WellFormed
  <2>3. TypeOK'
    BY <1>0, <2>1, <2>2 DEF exchangeVars, TypeInv, TypeOK
  <2> QED
    BY <1>0, <2>1, <2>3 DEF exchangeVars, TypeInv, EventsTell, HandlerInv
<1>3. CASE Ack
  <2>1. /\ fills' \in Group(Event) /\ fills'.log = fills.log
        /\ fills'.cursor = fills.cursor /\ fills'.pending = fills.pending \ {cur}
    BY <1>0, <1>3, XAckGroup DEF Ack
  <2>2. /\ cur' = 0 /\ step' = "idle" /\ batch' = batch \ {cur}
        /\ UNCHANGED <<exchangeVars, phase, book, bookDay, updates, halted, dead, history>>
    BY <1>3 DEF Ack, HandlerDone
  <2>3. TypeOK'
    BY <2>1, <2>2 DEF exchangeVars, history, TypeInv, TypeOK, Group
  <2> QED
    BY <2>1, <2>2, <2>3 DEF exchangeVars, history, TypeInv, EventsTell, HandlerInv
<1>4. CASE Publish
  <2>1. /\ \/ cur = 0 /\ step' = "idle" /\ phase' = "claim"
           \/ cur # 0 /\ step' = "ack" /\ phase' = phase
        /\ step = "publish"
        /\ UNCHANGED <<exchangeVars, fills, batch, cur, book, bookDay, halted, dead,
                       history>>
    BY <1>4 DEF Publish
  <2>2. updates' \in Seq(Update) /\ Len(updates') <= MaxUpdates
    <3>1. Len(updates') <= MaxUpdates
      BY <1>4, PositionsAssumption DEF Publish, TypeInv, TypeOK
    <3> QED
      BY <1>4, <3>1, TypeOfUpdates DEF Publish
  <2>3. TypeOK'
    BY <1>0, <2>1, <2>2 DEF exchangeVars, history, TypeInv, TypeOK
  <2> QED
    BY <1>0, <2>1, <2>3 DEF exchangeVars, history, TypeInv, EventsTell, HandlerInv
<1> QED
  BY <1>1, <1>2, <1>3, <1>4

(* What the account reports is a number of shares of every instrument.     *)
LEMMA RowsAreShares ==
    ASSUME TypeInv, NEW seen
    PROVE  Rows(seen) \in [Instruments -> Int]
<1>1. ASSUME NEW i \in Instruments PROVE Filled(i) \in Int
  <2> DEFINE f == [o \in Orders |-> Signed(o, done[o])]
  <2>1. IsFiniteSet(OrdersIn(i))
    BY PositionsAssumption, FS_Subset DEF OrdersIn
  <2>2. \A o \in OrdersIn(i) : f[o] \in Int
    BY SignedIsInt DEF OrdersIn, TypeInv
  <2> HIDE DEF f
  <2>3. SumFunctionOnSet(f, OrdersIn(i)) \in Int
    BY <2>1, <2>2, SumIsInt
  <2> QED
    BY <2>3 DEF Filled, f
<1> QED
  BY <1>1 DEF Rows, Holds

LEMMA TypeOfReconciling ==
    TypeInv /\ ((\E seen \in SUBSET Instruments : Reconcile(seen)) \/ ReconcileFails
                  \/ NoReconcile \/ Crash) => TypeInv'
<1> SUFFICES ASSUME TypeInv,
                    (\E seen \in SUBSET Instruments : Reconcile(seen)) \/ ReconcileFails
                       \/ NoReconcile \/ Crash
             PROVE  TypeInv'
  OBVIOUS
<1>1. ASSUME NEW seen \in SUBSET Instruments, Reconcile(seen) PROVE TypeInv'
  <2>1. book' \in Book
    BY <1>1, RowsAreShares, BrokerWins DEF Reconcile, BooksOf, TypeInv, TypeOK
  <2>2. faults' \in 0..MaxFaults
    BY <1>1, PositionsAssumption DEF Reconcile, Fault, TypeInv, TypeOK
  <2>3. /\ cur = 0 /\ step' = "publish" /\ phase' = phase
        /\ UNCHANGED <<exchangeVars, fills, batch, cur, bookDay, updates, dead, applied>>
    BY <1>1 DEF Reconcile, Reconciling, LoopAt, TellsBook
  <2>4. halted' \in BOOLEAN
    BY <1>1 DEF Reconcile, TypeInv, TypeOK
  <2>5. TypeOK'
    BY <2>1, <2>2, <2>3, <2>4 DEF exchangeVars, TypeInv, TypeOK
  <2> QED
    BY <2>3, <2>5 DEF exchangeVars, TypeInv, EventsTell, HandlerInv
<1>2. CASE ReconcileFails \/ NoReconcile
  <2>0. halted \in BOOLEAN /\ faults \in 0..MaxFaults /\ MaxFaults \in Nat
    BY PositionsAssumption DEF TypeInv, TypeOK
  <2>1. faults' \in 0..MaxFaults /\ halted' \in BOOLEAN /\ phase' = "claim"
    <3>1. halted' = halted \/ halted' = TRUE
      BY <1>2 DEF ReconcileFails, NoReconcile
    <3>2. faults' = faults \/ Fault
      BY <1>2 DEF ReconcileFails, NoReconcile, history
    <3>3. phase' = "claim"
      BY <1>2 DEF ReconcileFails, NoReconcile
    <3>4. faults' \in 0..MaxFaults
      BY <2>0, <3>2 DEF Fault
    <3>5. halted' \in BOOLEAN
      BY <2>0, <3>1, Zenon
    <3> QED
      BY <3>3, <3>4, <3>5
  <2>2. UNCHANGED <<exchangeVars, fills, batch, cur, step, book, bookDay, updates, dead,
                    applied>>
    BY <1>2 DEF ReconcileFails, NoReconcile, history
  <2>3. TypeOK'
    BY <2>1, <2>2 DEF exchangeVars, TypeInv, TypeOK
  <2> QED
    BY <2>2, <2>3 DEF exchangeVars, TypeInv, EventsTell, HandlerInv
<1>3. CASE Crash
  <2>1. /\ faults' \in 0..MaxFaults /\ book' \in Book /\ bookDay' = day
        /\ phase' = "start" /\ batch' = {} /\ cur' = 0 /\ step' = "idle" /\ applied' = {}
        /\ UNCHANGED <<exchangeVars, fills, updates, halted, dead>>
    BY <1>3, PositionsAssumption, EmptyBookIsBook DEF Crash, Fault, TypeInv, TypeOK
  <2>2. TypeOK'
    BY <2>1 DEF exchangeVars, TypeInv, TypeOK
  <2> QED
    BY <2>1, <2>2 DEF exchangeVars, TypeInv, EventsTell, HandlerInv
<1> QED
  BY <1>1, <1>2, <1>3

LEMMA TypeOfRiskManager ==
    TypeInv /\ (RiskLoop \/ \E k \in 0..Len(updates) : RMCrash(k)) => TypeInv'
<1> SUFFICES ASSUME TypeInv, RiskLoop \/ \E k \in 0..Len(updates) : RMCrash(k)
             PROVE  TypeInv'
  OBVIOUS
<1>0. updates \in Seq(Update) /\ Len(updates) <= MaxUpdates
  BY DEF TypeInv, TypeOK
<1>1. CASE RMHear
  <2>1. updates' \in Seq(Update) /\ Len(updates') <= MaxUpdates
    BY <1>0, <1>1, PositionsAssumption DEF RMHear
  <2>2. halted' \in BOOLEAN
    BY <1>1 DEF RMHear, HaltsIf, TypeInv, TypeOK
  <2>3. UNCHANGED <<exchangeVars, fills, loopVars, book, bookDay, dead, history>>
    BY <1>1 DEF RMHear
  <2>4. TypeOK'
    BY <2>1, <2>2, <2>3 DEF exchangeVars, loopVars, history, TypeInv, TypeOK
  <2> QED
    BY <2>3, <2>4 DEF exchangeVars, loopVars, history, TypeInv, EventsTell, HandlerInv
<1>2. CASE RMNewSession
  BY <1>2 DEF RMNewSession, pmVars, exchangeVars, loopVars, history,
              TypeInv, TypeOK, EventsTell, HandlerInv
<1>3. ASSUME NEW k \in 0..Len(updates), RMCrash(k) PROVE TypeInv'
  <2>1. updates' \in Seq(Update) /\ Len(updates') <= MaxUpdates
    BY <1>0, <1>3, PositionsAssumption DEF RMCrash
  <2>2. faults' \in 0..MaxFaults
    BY <1>3, PositionsAssumption DEF RMCrash, Fault, TypeInv, TypeOK
  <2>3. UNCHANGED <<exchangeVars, fills, loopVars, book, bookDay, halted, dead, applied,
                    cash, doubt>>
    BY <1>3 DEF RMCrash
  <2>4. TypeOK'
    BY <2>1, <2>2, <2>3 DEF exchangeVars, loopVars, TypeInv, TypeOK
  <2> QED
    BY <2>3, <2>4 DEF exchangeVars, loopVars, TypeInv, EventsTell, HandlerInv
<1> QED
  BY <1>1, <1>2, <1>3 DEF RiskLoop

LEMMA TypeInductive == TypeInv /\ [Next]_vars => TypeInv'
<1> SUFFICES ASSUME TypeInv, [Next]_vars PROVE TypeInv'
  OBVIOUS
<1>1. CASE PMNext
  <2>1. CASE PositionLoop
    BY <2>1, TypeOfReading, TypeOfHandle, TypeOfSettling, TypeOfReconciling
       DEF PositionLoop
  <2> QED
    BY <1>1, <2>1, TypeOfEnvironment, TypeOfReconciling DEF PMNext
<1>2. CASE RiskLoop \/ \E k \in 0..Len(updates) : RMCrash(k)
  BY <1>2, TypeOfRiskManager
<1>3. CASE UNCHANGED vars
  BY <1>3 DEF vars, pmVars, exchangeVars, loopVars, history,
              TypeInv, TypeOK, EventsTell, HandlerInv
<1> QED
  BY <1>1, <1>2, <1>3 DEF Next

----------------------------------------------------------------------------
(* Shares: filled at the exchange, untold, on the stream.                  *)

Untold(i) == SumFunctionOnSet([o \in Orders |-> Signed(o, done[o] - told[o])], OrdersIn(i))

OnStream(i) ==
    SumFunctionOnSet([k \in 1..Len(fills.log) |-> Carries(k, i)], 1..Len(fills.log))

LEMMA FlightParts == \A i : InFlight(i) = Untold(i) + OnStream(i)
  BY DEF InFlight, Untold, OnStream

LEMMA StreamTypes ==
    ASSUME TypeInv
    PROVE  /\ Len(fills.log) \in Nat /\ fills \in Group(Event)
           /\ \A k \in 1..Len(fills.log) : /\ fills.log[k] \in Event
                                           /\ \A i : Carries(k, i) \in Int
<1>1. fills \in Group(Event) /\ Len(fills.log) \in Nat
  BY FillsAreGroup, GroupTimes DEF TypeInv
<1>2. \A k \in 1..Len(fills.log) : fills.log[k] \in Event
  BY <1>1 DEF Group, GroupOf
<1> QED
  BY <1>1, <1>2 DEF Carries, Event

LEMMA SharesAreInt ==
    ASSUME TypeInv, NEW i
    PROVE  Filled(i) \in Int /\ Untold(i) \in Int /\ OnStream(i) \in Int
<1> DEFINE f == [o \in Orders |-> Signed(o, done[o])]
           g == [o \in Orders |-> Signed(o, done[o] - told[o])]
           c == [k \in 1..Len(fills.log) |-> Carries(k, i)]
<1>0. IsFiniteSet(1..Len(fills.log))
  <2>1. Len(fills.log) \in Int
    BY StreamTypes
  <2> QED
    BY <2>1, FS_Interval
<1>1. IsFiniteSet(OrdersIn(i))
  BY PositionsAssumption, FS_Subset DEF OrdersIn
<1>2. /\ \A o \in OrdersIn(i) : f[o] \in Int /\ g[o] \in Int
      /\ \A k \in 1..Len(fills.log) : c[k] \in Int
  BY SignedIsInt, StreamTypes DEF OrdersIn, TypeInv
<1> HIDE DEF f, g, c
<1>3. /\ SumFunctionOnSet(f, OrdersIn(i)) \in Int /\ SumFunctionOnSet(g, OrdersIn(i)) \in Int
      /\ SumFunctionOnSet(c, 1..Len(fills.log)) \in Int
  BY <1>0, <1>1, <1>2, SumIsInt
<1> QED
  BY <1>3 DEF Filled, Untold, OnStream, f, g, c

LEMMA SignedAdds ==
    ASSUME NEW o \in Orders, NEW m \in Int, NEW n \in Int
    PROVE  Signed(o, m + n) = Signed(o, m) + Signed(o, n)
  BY DEF Signed

(* What the exchange fills is filled and untold.                           *)
LEMMA FillsAreUntold ==
    ASSUME TypeInv, NEW o \in Orders, NEW n \in Int, NEW i,
           done' = [done EXCEPT ![o] = @ + n], told' = told
    PROVE  Filled(i)' - Filled(i) = Untold(i)' - Untold(i)
<1> DEFINE f  == [p \in Orders |-> Signed(p, done[p])]
           f2 == [p \in Orders |-> Signed(p, done'[p])]
           g  == [p \in Orders |-> Signed(p, done[p] - told[p])]
           g2 == [p \in Orders |-> Signed(p, done'[p] - told[p])]
           S  == OrdersIn(i)
<1>1. IsFiniteSet(S) /\ S \subseteq Orders
  BY PositionsAssumption, FS_Subset DEF OrdersIn
<1>2. \A p \in Orders : /\ done[p] \in Int /\ told[p] \in Int /\ done'[p] \in Int
                        /\ done'[p] = IF p = o THEN done[p] + n ELSE done[p]
  BY DEF TypeInv
<1>3. \A p \in Orders : f[p] \in Int /\ f2[p] \in Int /\ g[p] \in Int /\ g2[p] \in Int
  BY <1>2, SignedIsInt
<1>4. \A p \in Orders : p # o => f2[p] = f[p] /\ g2[p] = g[p]
  BY <1>2
<1>5. f2[o] - f[o] = g2[o] - g[o]
  <2>1. done'[o] = done[o] + n /\ done'[o] - told[o] = (done[o] - told[o]) + n
    BY <1>2
  <2>2. /\ Signed(o, done[o] + n) = Signed(o, done[o]) + Signed(o, n)
        /\ Signed(o, (done[o] - told[o]) + n) = Signed(o, done[o] - told[o]) + Signed(o, n)
    BY <1>2, SignedAdds
  <2>3. Signed(o, n) \in Int /\ Signed(o, done[o]) \in Int /\ Signed(o, done[o] - told[o]) \in Int
    BY <1>2, SignedIsInt
  <2> QED
    BY <2>1, <2>2, <2>3
<1> HIDE DEF f, f2, g, g2, S
<1>6. SumFunctionOnSet(f2, S) - SumFunctionOnSet(f, S)
        = SumFunctionOnSet(g2, S) - SumFunctionOnSet(g, S)
  <2>1. CASE o \in S
    <3>0. /\ \A p \in S : f[p] \in Int /\ f2[p] \in Int
          /\ \A p \in S : g[p] \in Int /\ g2[p] \in Int
          /\ \A p \in S : p # o => f2[p] = f[p]
          /\ \A p \in S : p # o => g2[p] = g[p]
      BY <1>1, <1>3, <1>4
    <3>1. /\ SumFunctionOnSet(f2, S) = SumFunctionOnSet(f, S) - f[o] + f2[o]
          /\ SumFunctionOnSet(f2, S) \in Int /\ SumFunctionOnSet(f, S) \in Int
      BY <1>1, <2>1, <3>0, SumOfChanged
    <3>2. /\ SumFunctionOnSet(g2, S) = SumFunctionOnSet(g, S) - g[o] + g2[o]
          /\ SumFunctionOnSet(g2, S) \in Int /\ SumFunctionOnSet(g, S) \in Int
      BY <1>1, <2>1, <3>0, SumOfChanged
    <3> QED
      BY <1>3, <1>5, <3>1, <3>2
  <2>2. CASE o \notin S
    <3>1. SumFunctionOnSet(f2, S) = SumFunctionOnSet(f, S)
      BY <1>1, <1>4, <2>2, SumOfEquals
    <3>2. SumFunctionOnSet(g2, S) = SumFunctionOnSet(g, S)
      BY <1>1, <1>4, <2>2, SumOfEquals
    <3>3. SumFunctionOnSet(f, S) \in Int /\ SumFunctionOnSet(g, S) \in Int
      BY <1>1, <1>3, SumIsInt
    <3> QED
      BY <3>1, <3>2, <3>3
  <2> QED
    BY <2>1, <2>2
<1>7. /\ Filled(i) = SumFunctionOnSet(f, S) /\ Filled(i)' = SumFunctionOnSet(f2, S)
      /\ Untold(i) = SumFunctionOnSet(g, S) /\ Untold(i)' = SumFunctionOnSet(g2, S)
  BY DEF Filled, Untold, f, f2, g, g2, S, OrdersIn, Signed
<1> QED
  BY <1>6, <1>7

(* What is told of is no longer untold.                                    *)
LEMMA ToldIsNotUntold ==
    ASSUME TypeInv, NEW o \in Orders, NEW i \in Instruments,
           told' = [told EXCEPT ![o] = done[o]], done' = done
    PROVE  /\ Filled(i)' = Filled(i)
           /\ Untold(i)' = Untold(i) - (IF OrderOf[o].inst = i
                                        THEN Signed(o, done[o] - told[o]) ELSE 0)
<1> DEFINE g  == [p \in Orders |-> Signed(p, done[p] - told[p])]
           g2 == [p \in Orders |-> Signed(p, done[p] - told'[p])]
           S  == OrdersIn(i)
<1>1. IsFiniteSet(S) /\ S \subseteq Orders /\ (o \in S <=> OrderOf[o].inst = i)
  BY PositionsAssumption, FS_Subset DEF OrdersIn
<1>2. \A p \in Orders : /\ done[p] \in Int /\ told[p] \in Int /\ told'[p] \in Int
                        /\ told'[p] = IF p = o THEN done[p] ELSE told[p]
  BY DEF TypeInv
<1>3. \A p \in Orders : g[p] \in Int /\ g2[p] \in Int
  BY <1>2, SignedIsInt
<1>4. \A p \in Orders : p # o => g2[p] = g[p]
  BY <1>2
<1>5. g2[o] = 0 /\ g[o] = Signed(o, done[o] - told[o])
  BY <1>2 DEF Signed
<1> HIDE DEF g, g2, S
<1>6. SumFunctionOnSet(g, S) \in Int
  BY <1>1, <1>3, SumIsInt
<1>7. CASE o \in S
  <2>1. SumFunctionOnSet(g2, S) = SumFunctionOnSet(g, S) - g[o] + g2[o]
    <3>1. /\ \A p \in S : g[p] \in Int /\ g2[p] \in Int
          /\ \A p \in S : p # o => g2[p] = g[p]
      BY <1>1, <1>3, <1>4
    <3> QED
      BY <1>1, <1>7, <3>1, SumOfChanged
  <2>2. SumFunctionOnSet(g2, S) = SumFunctionOnSet(g, S) - g[o]
    BY <1>3, <1>5, <1>6, <2>1
  <2> QED
    BY <1>1, <1>5, <1>7, <2>2 DEF Filled, Untold, OrdersIn, Signed, g, g2, S
<1>8. CASE o \notin S
  <2>1. SumFunctionOnSet(g2, S) = SumFunctionOnSet(g, S)
    BY <1>1, <1>4, <1>8, SumOfEquals
  <2> QED
    BY <1>1, <1>6, <1>8, <2>1 DEF Filled, Untold, OrdersIn, Signed, g, g2, S
<1> QED
  BY <1>7, <1>8

(* A published event is on the stream.                                     *)
LEMMA EventsAreOnStream ==
    ASSUME TypeInv, NEW e \in Event, fills' = XAdd(fills, e), UNCHANGED <<applied, dead>>,
           NEW i \in Instruments
    PROVE  OnStream(i)' = OnStream(i) + (IF InstOf(e) = i THEN e.share ELSE 0)
<1>0. PICK n : n = Len(fills.log)
  OBVIOUS
<1> DEFINE c  == [k \in 1..n |-> Carries(k, i)]
           c2 == [k \in 1..(n + 1) |-> Carries(k, i)']
<1>1. /\ fills' \in Group(Event) /\ fills'.cursor = fills.cursor
      /\ fills'.pending = fills.pending /\ Len(fills'.log) = n + 1 /\ fills'.log[n + 1] = e
      /\ \A k \in 1..n : fills'.log[k] = fills.log[k]
  BY <1>0, StreamTypes, XAddGroup
<1>2. n \in Nat /\ fills.cursor \in Nat /\ fills.cursor <= n
      /\ applied \subseteq 1..fills.cursor /\ dead \subseteq 1..fills.cursor
  BY <1>0, StreamTypes DEF TypeInv, TypeOK, Group, GroupOf, WellFormed
<1>3. \A k \in 1..n : Carries(k, i)' = Carries(k, i)
  BY <1>1 DEF Carries, Settled
<1>4. Carries(n + 1, i)' = IF InstOf(e) = i THEN e.share ELSE 0
  <2>1. n + 1 \notin applied \cup dead /\ ~(n + 1 <= fills.cursor)
    BY <1>2
  <2> QED
    BY <1>1, <2>1 DEF Carries, Settled
<1>5. \A k \in 1..n : c[k] \in Int
  BY <1>0, StreamTypes
<1>6. \A k \in 1..(n + 1) : c2[k] \in Int
  <2>1. e.share \in Int
    BY DEF Event
  <2> QED
    BY <1>2, <1>3, <1>4, <1>5, <2>1
<1>7. \A k \in 1..n : c2[k] = c[k]
  BY <1>2, <1>3
<1>8. c2[n + 1] = IF InstOf(e) = i THEN e.share ELSE 0
  BY <1>2, <1>4
<1>9. OnStream(i) = SumFunctionOnSet(c, 1..n) /\ OnStream(i)' = SumFunctionOnSet(c2, 1..(n + 1))
  BY <1>0, <1>1 DEF OnStream
<1> HIDE DEF c, c2
<1>10. /\ IsFiniteSet(1..n) /\ IsFiniteSet(1..(n + 1)) /\ n + 1 \in 1..(n + 1)
       /\ (1..(n + 1)) \ {n + 1} = 1..n
  <2>1. n \in Int /\ n + 1 \in Int
    BY <1>2
  <2>2. IsFiniteSet(1..n) /\ IsFiniteSet(1..(n + 1))
    BY <2>1, FS_Interval
  <2> QED
    BY <1>2, <2>2
<1>11. SumFunctionOnSet(c2, 1..(n + 1)) = c2[n + 1] + SumFunctionOnSet(c2, 1..n)
  <2> DEFINE T == 1..(n + 1)
             m == n + 1
  <2>1. IsFiniteSet(T) /\ m \in T /\ \A k \in T : c2[k] \in Int
    BY <1>6, <1>10
  <2> HIDE DEF T, m
  <2>2. SumFunctionOnSet(c2, T) = c2[m] + SumFunctionOnSet(c2, T \ {m})
    BY <2>1, SumOfRest
  <2> QED
    BY <1>10, <2>2 DEF T, m
<1>12. SumFunctionOnSet(c2, 1..n) = SumFunctionOnSet(c, 1..n) /\ SumFunctionOnSet(c, 1..n) \in Int
  BY <1>5, <1>7, <1>10, SumOfEquals, SumIsInt
<1>13. e.share \in Int
  BY DEF Event
<1> QED
  BY <1>8, <1>9, <1>11, <1>12, <1>13

(* One entry is handled: what it carried it carries no longer.             *)
LEMMA EntryLeavesStream ==
    ASSUME TypeInv, Len(fills'.log) = Len(fills.log), NEW i \in Instruments,
           NEW k \in 1..Len(fills.log), Carries(k, i)' \in Int,
           \A j \in 1..Len(fills.log) : j # k => Carries(j, i)' = Carries(j, i)
    PROVE  OnStream(i)' = OnStream(i) - Carries(k, i) + Carries(k, i)'
<1> DEFINE S  == 1..Len(fills.log)
           c  == [j \in S |-> Carries(j, i)]
           c2 == [j \in S |-> Carries(j, i)']
<1>1. IsFiniteSet(S)
  <2>1. Len(fills.log) \in Int
    BY StreamTypes
  <2> QED
    BY <2>1, FS_Interval
<1>2. /\ \A j \in S : c[j] \in Int /\ c2[j] \in Int
      /\ \A j \in S : j # k => c2[j] = c[j]
  BY StreamTypes
<1>3. /\ OnStream(i) = SumFunctionOnSet(c, S) /\ OnStream(i)' = SumFunctionOnSet(c2, S)
      /\ c[k] = Carries(k, i) /\ c2[k] = Carries(k, i)'
  BY DEF OnStream
<1> HIDE DEF c, c2
<1>4. SumFunctionOnSet(c2, S) = SumFunctionOnSet(c, S) - c[k] + c2[k]
  BY <1>1, <1>2, SumOfChanged
<1> QED
  BY <1>3, <1>4

(* While no order is filled or told of and no entry handled, nothing moves.*)
LEMMA NothingMoves ==
    ASSUME TypeInv, NEW i, UNCHANGED <<done, told>>, Len(fills'.log) = Len(fills.log),
           \A j \in 1..Len(fills.log) : Carries(j, i)' = Carries(j, i)
    PROVE  Filled(i)' = Filled(i) /\ Untold(i)' = Untold(i) /\ OnStream(i)' = OnStream(i)
<1> DEFINE S  == 1..Len(fills.log)
           c  == [j \in S |-> Carries(j, i)]
           c2 == [j \in S |-> Carries(j, i)']
<1>1. c = c2
  OBVIOUS
<1>2. OnStream(i) = SumFunctionOnSet(c, S) /\ OnStream(i)' = SumFunctionOnSet(c2, S)
  BY DEF OnStream
<1> HIDE DEF c, c2
<1>3. Filled(i)' = Filled(i) /\ Untold(i)' = Untold(i)
  BY DEF Filled, Untold, OrdersIn, Signed
<1> QED
  BY <1>1, <1>2, <1>3

----------------------------------------------------------------------------
(* The book and the exchange.                                              *)

Right(i) == Quantity(book, i) + Untold(i) + OnStream(i) = Filled(i)

LEMMA AddingUp ==
    ASSUME TypeInv
    PROVE  SharesAddUp <=> \A i \in Instruments \ doubt : Right(i)
<1>1. \A i \in Instruments : Quantity(book, i) \in Int
  BY DEF TypeInv, TypeOK, Book, Holding, Quantity
<1>2. \A i : Untold(i) \in Int /\ OnStream(i) \in Int /\ Filled(i) \in Int
  BY SharesAreInt
<1> QED
  BY <1>1, <1>2, FlightParts DEF SharesAddUp, Right

(* A step that fills nothing, tells of nothing and applies nothing, and    *)
(* settles only what the book has been moved by or will never be.          *)
LEMMA QuietSteps ==
    ASSUME TypeInv, NEW i, Right(i), UNCHANGED <<done, told>>,
           Quantity(book', i) = Quantity(book, i), Len(fills'.log) = Len(fills.log),
           \A j \in 1..Len(fills.log) : Carries(j, i)' = Carries(j, i)
    PROVE  Right(i)'
<1>1. Filled(i)' = Filled(i) /\ Untold(i)' = Untold(i) /\ OnStream(i)' = OnStream(i)
  BY NothingMoves
<1> QED
  BY <1>1 DEF Right, Quantity

LEMMA SameStream ==
    ASSUME UNCHANGED <<fills, applied, dead>>
    PROVE  Len(fills'.log) = Len(fills.log) /\ \A i, j : Carries(j, i)' = Carries(j, i)
  BY DEF Carries, Settled, InstOf

LEMMA RightOfEnvironment ==
    ASSUME TypeInv, TypeInv', NEW i \in Instruments, Right(i), Environment
    PROVE  Right(i)'
<1>0. Quantity(book, i) \in Int
  BY DEF TypeInv, TypeOK, Book, Holding, Quantity
<1>1. Untold(i) \in Int /\ OnStream(i) \in Int /\ Filled(i) \in Int
  BY SharesAreInt
<1>2. Untold(i)' \in Int /\ Filled(i)' \in Int
  <2> DEFINE f == [o \in Orders |-> Signed(o, done'[o])]
             g == [o \in Orders |-> Signed(o, done'[o] - told'[o])]
  <2>1. IsFiniteSet(OrdersIn(i)) /\ OrdersIn(i) \subseteq Orders
    BY PositionsAssumption, FS_Subset DEF OrdersIn
  <2>2. \A o \in OrdersIn(i) : f[o] \in Int /\ g[o] \in Int
    BY <2>1, SignedIsInt DEF TypeInv
  <2>3. /\ Filled(i)' = SumFunctionOnSet(f, OrdersIn(i))
        /\ Untold(i)' = SumFunctionOnSet(g, OrdersIn(i))
    BY DEF Filled, Untold, OrdersIn, Signed
  <2> HIDE DEF f, g
  <2> QED
    BY <2>1, <2>2, <2>3, SumIsInt
<1>3. ASSUME NEW o \in Orders, NEW n \in 1..Size(OrderOf[o].qty), ExchangeFills(o, n)
      PROVE  Right(i)'
  <2>1. done' = [done EXCEPT ![o] = @ + n] /\ told' = told /\ n \in Int
    BY <1>3, OrderTypes DEF ExchangeFills
  <2>2. Filled(i)' - Filled(i) = Untold(i)' - Untold(i)
    BY <2>1, FillsAreUntold
  <2>3. OnStream(i)' = OnStream(i)
    BY <1>3 DEF ExchangeFills, history, OnStream, Carries, Settled, InstOf
  <2>4. Quantity(book, i)' = Quantity(book, i)
    BY <1>3 DEF ExchangeFills, Quantity
  <2> QED
    BY <1>0, <1>1, <1>2, <2>2, <2>3, <2>4 DEF Right
<1>4. ASSUME NEW o \in Orders, EngineTells(o) PROVE Right(i)'
  <2>1. PICK price \in {OrderOf[o].price, 0} :
           fills' = XAdd(fills, [order |-> o, fill |-> TRUE, price |-> price,
                                 qty   |-> Signed(o, done[o]),
                                 share |-> Signed(o, done[o] - told[o])])
    BY <1>4 DEF EngineTells
  <2> DEFINE e == [order |-> o, fill |-> TRUE, price |-> price,
                   qty |-> Signed(o, done[o]), share |-> Signed(o, done[o] - told[o])]
  <2>2. e \in Event /\ e.share = Signed(o, done[o] - told[o]) /\ InstOf(e) = OrderOf[o].inst
    BY OrderTypes, SignedIsInt DEF Event, TypeInv, InstOf
  <2>3. fills' = XAdd(fills, e) /\ UNCHANGED <<applied, dead>>
    BY <1>4, <2>1 DEF EngineTells
  <2> HIDE DEF e
  <2>4. OnStream(i)' = OnStream(i) + (IF InstOf(e) = i THEN e.share ELSE 0)
    BY <2>2, <2>3, EventsAreOnStream
  <2>5. /\ Filled(i)' = Filled(i)
        /\ Untold(i)' = Untold(i) - (IF OrderOf[o].inst = i
                                     THEN Signed(o, done[o] - told[o]) ELSE 0)
    BY <1>4, ToldIsNotUntold DEF EngineTells
  <2>6. Quantity(book, i)' = Quantity(book, i)
    BY <1>4 DEF EngineTells, Quantity
  <2>7. e.share \in Int
    BY <2>2 DEF Event
  <2> QED
    BY <1>0, <1>1, <1>2, <2>2, <2>4, <2>5, <2>6, <2>7 DEF Right
<1>5. ASSUME NEW o \in Orders, EngineEnds(o) PROVE Right(i)'
  <2> DEFINE e == [order |-> o, fill |-> FALSE, share |-> 0,
                   qty |-> IF done[o] = 0 THEN OrderOf[o].qty ELSE Signed(o, done[o]),
                   price |-> OrderOf[o].price]
  <2>1. e \in Event /\ e.share = 0
    BY OrderTypes, SignedIsInt DEF Event, TypeInv
  <2>2. fills' = XAdd(fills, e) /\ UNCHANGED <<applied, dead>>
    BY <1>5 DEF EngineEnds, history
  <2> HIDE DEF e
  <2>3. OnStream(i)' = OnStream(i) + (IF InstOf(e) = i THEN e.share ELSE 0)
    BY <2>1, <2>2, EventsAreOnStream
  <2>4. Filled(i)' = Filled(i) /\ Untold(i)' = Untold(i) /\ Quantity(book, i)' = Quantity(book, i)
    BY <1>5 DEF EngineEnds, Filled, Untold, OrdersIn, Signed, Quantity
  <2> QED
    BY <1>0, <1>1, <2>1, <2>3, <2>4 DEF Right
<1>6. CASE NewDay \/ ClearHalt
  <2>1. UNCHANGED <<done, told, fills, applied, dead, book>>
    BY <1>6 DEF NewDay, ClearHalt, exchangeVars, history
  <2> QED
    BY <2>1, SameStream, QuietSteps
<1> QED
  BY <1>3, <1>4, <1>5, <1>6 DEF Environment

(* Handing out settles nothing.                                            *)
LEMMA RightOfReading ==
    ASSUME TypeInv, NEW i \in Instruments, Right(i),
           NewSession \/ (\E S \in SUBSET fills.pending : ClaimStale(S)) \/ Read
    PROVE  Right(i)'
<1>0. fills \in Group(Event)
  BY FillsAreGroup DEF TypeInv
<1>1. CASE NewSession
  <2>1. UNCHANGED <<done, told, fills, applied, dead>>
    BY <1>1 DEF NewSession, exchangeVars
  <2>2. Quantity(book', i) = Quantity(book, i)
    BY <1>1, SessionKeepsPositions DEF NewSession, TypeInv, TypeOK
  <2> QED
    BY <2>1, <2>2, SameStream, QuietSteps
<1>2. ASSUME NEW S \in SUBSET fills.pending, ClaimStale(S) PROVE Right(i)'
  <2>1. /\ fills'.log = fills.log /\ fills'.cursor = fills.cursor
        /\ fills'.pending = fills.pending
    BY <1>0, <1>2, XAutoClaimGroup DEF ClaimStale
  <2>2. UNCHANGED <<done, told, applied, dead, book>>
    BY <1>2 DEF ClaimStale, exchangeVars, history
  <2>3. \A j \in 1..Len(fills.log) : Carries(j, i)' = Carries(j, i)
    BY <2>1, <2>2 DEF Carries, Settled
  <2> QED
    BY <2>1, <2>2, <2>3, QuietSteps
<1>3. CASE Read
  <2>1. ReadCount \in Nat
    BY PositionsAssumption
  <2>2. /\ fills'.log = fills.log /\ fills'.cursor >= fills.cursor
        /\ fills'.pending = fills.pending \cup batch'
        /\ batch' = Unread(fills, ReadCount)
        /\ \A j \in batch' : j > fills.cursor
    BY <1>0, <1>3, <2>1, XReadGroupGroup DEF Read
  <2>3. UNCHANGED <<done, told, applied, dead, book>>
    BY <1>3 DEF Read, exchangeVars, history
  <2>4. ASSUME NEW j \in 1..Len(fills.log)
        PROVE  Settled(fills', j) <=> Settled(fills, j)
    <3>1. ReadCount \in Nat \ {0} /\ fills' = XReadGroup(fills, ReadCount)
      BY <1>3, PositionsAssumption DEF Read
    <3>2. Settled(fills', j) => Settled(fills, j)
      BY <1>0, <3>1, XReadGroupSettlesNothing
    <3>3. fills.cursor \in Nat /\ fills'.cursor \in Nat
      BY <1>0, <2>1, <3>1, XReadGroupGroup DEF Group, GroupOf
    <3>4. Settled(fills, j) => Settled(fills', j)
      BY <2>2, <3>3 DEF Settled
    <3> QED
      BY <3>2, <3>4
  <2>5. \A j \in 1..Len(fills.log) : Carries(j, i)' = Carries(j, i)
    BY <2>2, <2>3, <2>4 DEF Carries
  <2> QED
    BY <2>2, <2>3, <2>5, QuietSteps
<1> QED
  BY <1>1, <1>2, <1>3

(* A fill that is new moves the book by what it carried.                   *)
LEMMA RightOfApply ==
    ASSUME TypeInv, NEW i \in Instruments, Right(i), NEW k \in batch, Apply(k), i \notin doubt'
    PROVE  Right(i)'
<1> DEFINE e == fills.log[k]
<1>0. /\ k \in fills.pending /\ k \in 1..Len(fills.log) /\ e \in Event
  BY StreamTypes DEF TypeInv, Group, GroupOf, WellFormed
<1>1. e.order \in Orders /\ e.qty \in Int \ {0} /\ e.price \in Int /\ e.share \in Int /\ e.fill
  BY <1>0 DEF Apply, Genuine, Event
<1>2. /\ book' = ApplyFill(book, InstOf(e), e.qty, e.price, CostsOf(e.order))
      /\ applied' = applied \cup {k} /\ UNCHANGED <<done, told, fills, dead>>
      /\ doubt' = IF k \in applied \cup dead \/ (e.fill /\ e.qty # e.share)
                  THEN doubt \cup {InstOf(e)} ELSE doubt
  BY DEF Apply, exchangeVars, InstOf
<1>3. InstOf(e) \in Instruments /\ CostsOf(e.order) \in Int /\ book \in Book
  BY <1>1, OrderTypes DEF InstOf, TypeInv, TypeOK
<1>4. \A j \in 1..Len(fills.log) : j # k => Carries(j, i)' = Carries(j, i)
  BY <1>2 DEF Carries, Settled, InstOf
<1>5. Carries(k, i)' = 0
  BY <1>2 DEF Carries
<1>6. OnStream(i)' = OnStream(i) - Carries(k, i) + Carries(k, i)'
  BY <1>0, <1>2, <1>4, <1>5, EntryLeavesStream
<1>7. Filled(i)' = Filled(i) /\ Untold(i)' = Untold(i)
  BY <1>2 DEF Filled, Untold, OrdersIn, Signed
<1>8. Untold(i) \in Int /\ OnStream(i) \in Int /\ Filled(i) \in Int /\ Carries(k, i) \in Int
  BY <1>0, SharesAreInt, StreamTypes
<1>9. Quantity(book, i) \in Int
  BY <1>3 DEF Book, Holding, Quantity
<1>10. CASE i = InstOf(e)
  <2>1. k \notin applied \cup dead /\ e.qty = e.share
    BY <1>1, <1>2, <1>10
  <2>2. Carries(k, i) = e.share
    BY <1>0, <1>10, <2>1 DEF Carries, Settled
  <2>3. Quantity(book', i) = Quantity(book, i) + e.qty
    BY <1>1, <1>2, <1>3, <1>10, FillKeepsBook
  <2>4. Quantity(book, i)' = Quantity(book, i) + e.qty
    BY <2>3 DEF Quantity
  <2> HIDE DEF e
  <2> QED
    BY <1>1, <1>5, <1>6, <1>7, <1>8, <1>9, <2>1, <2>2, <2>4 DEF Right
<1>11. CASE i # InstOf(e)
  <2>1. Carries(k, i) = 0
    BY <1>11 DEF Carries
  <2>2. Quantity(book', i) = Quantity(book, i)
    BY <1>1, <1>2, <1>3, <1>11, FillKeepsBook
  <2>3. Quantity(book, i)' = Quantity(book, i)
    BY <2>2 DEF Quantity
  <2> HIDE DEF e
  <2> QED
    BY <1>5, <1>6, <1>7, <1>8, <1>9, <2>1, <2>3 DEF Right
<1> QED
  BY <1>10, <1>11

(* A fill that is given up puts the book in doubt, unless the book has     *)
(* been moved by it.  What is acknowledged carries nothing any more.       *)
LEMMA RightOfSettling ==
    ASSUME TypeInv, NEW i \in Instruments, Right(i), i \notin doubt',
           PublishFails \/ DeadLetter \/ Ack \/ Publish
    PROVE  Right(i)'
<1>0. fills \in Group(Event) /\ cur # 0 => cur \in fills.pending /\ cur \in 1..Len(fills.log)
  BY FillsAreGroup DEF TypeInv, TypeOK, Group, GroupOf, WellFormed
<1>1. CASE PublishFails \/ Publish
  <2>1. UNCHANGED <<done, told, fills, applied, dead, book>>
    BY <1>1 DEF PublishFails, Publish, exchangeVars, history
  <2> QED
    BY <2>1, SameStream, QuietSteps
<1>2. CASE DeadLetter
  <2>1. /\ cur # 0 /\ dead' = dead \cup {cur}
        /\ doubt' = IF cur \in applied THEN doubt ELSE doubt \cup {InstOf(fills.log[cur])}
        /\ UNCHANGED <<done, told, fills, applied, book>>
    BY <1>2 DEF DeadLetter, exchangeVars, TypeInv, HandlerInv
  <2>2. cur \in applied \/ InstOf(fills.log[cur]) # i
    BY <2>1
  <2>3. \A j \in 1..Len(fills.log) : Carries(j, i)' = Carries(j, i)
    BY <2>1, <2>2 DEF Carries, Settled, InstOf
  <2> QED
    BY <2>1, <2>3, QuietSteps
<1>3. CASE Ack
  <2>1. fills \in Group(Event) /\ cur # 0
    BY <1>3, FillsAreGroup DEF Ack, TypeInv, HandlerInv
  <2>2. /\ fills'.log = fills.log /\ fills'.cursor = fills.cursor
        /\ fills'.pending = fills.pending \ {cur}
    BY <1>3, <2>1, XAckGroup DEF Ack
  <2>3. UNCHANGED <<done, told, applied, dead, book>>
    BY <1>3 DEF Ack, exchangeVars, history
  <2>4. cur \in applied \cup dead \/ fills.log[cur].share = 0
    BY <1>3 DEF Ack, TypeInv, HandlerInv
  <2>5. \A j \in 1..Len(fills.log) : Carries(j, i)' = Carries(j, i)
    BY <2>2, <2>3, <2>4 DEF Carries, Settled, InstOf
  <2> QED
    BY <2>2, <2>3, <2>5, QuietSteps
<1> QED
  BY <1>1, <1>2, <1>3

(* The broker's word is right where it could be read, and final where no   *)
(* fill is on its way to the book.                                         *)
LEMMA RightOfReconcile ==
    ASSUME ~Paper, TypeInv, NEW i \in Instruments, NEW seen, Reconcile(seen), i \notin doubt'
    PROVE  Right(i)'
<1>1. InFlight(i) = 0 /\ i \in seen
  BY DEF Reconcile
<1>2. Rows(seen) \in [Instruments -> Int] /\ Rows(seen)[i] = Filled(i)
  BY <1>1, RowsAreShares DEF Rows, Holds
<1>3. book' = Reconciled(book, Rows(seen)) /\ book \in Book
      /\ UNCHANGED <<done, told, fills, applied, dead>>
  BY DEF Reconcile, BooksOf, TypeInv, TypeOK, exchangeVars
<1>4. Quantity(book', i) = Filled(i)
  BY <1>2, <1>3, BrokerWins
<1>5. Filled(i)' = Filled(i) /\ Untold(i)' = Untold(i) /\ OnStream(i)' = OnStream(i)
  BY <1>3, SameStream, NothingMoves
<1>6. Quantity(book, i)' = Filled(i)
  BY <1>4 DEF Quantity
<1> QED
  BY <1>1, <1>5, <1>6, SharesAreInt, FlightParts DEF Right

LEMMA RightInductive ==
    ASSUME ~Paper, TypeInv, TypeInv', \A i \in Instruments \ doubt : Right(i), [Next]_vars,
           NEW i \in Instruments \ doubt'
    PROVE  Right(i)'
<1>1. ASSUME NEW seen \in SUBSET Instruments, Reconcile(seen) PROVE Right(i)'
  BY <1>1, RightOfReconcile
<1>2. CASE Crash
  BY <1>2 DEF Crash
<1>3. ASSUME i \notin doubt PROVE Right(i)'
  <2>0. Right(i)
    BY <1>3
  <2>1. CASE Environment
    BY <2>0, <2>1, RightOfEnvironment
  <2>2. CASE NewSession \/ (\E S \in SUBSET fills.pending : ClaimStale(S)) \/ Read
    BY <2>0, <2>2, RightOfReading
  <2>3. ASSUME NEW k \in batch, Handle(k) PROVE Right(i)'
    <3>1. CASE Apply(k)
      BY <2>0, <3>1, RightOfApply
    <3>2. CASE Ignore(k) \/ NoPrice(k)
      <4>1. UNCHANGED <<done, told, fills, applied, dead, book>>
        BY <3>2 DEF Ignore, NoPrice, exchangeVars, history
      <4> QED
        BY <2>0, <4>1, SameStream, QuietSteps
    <3> QED
      BY <2>3, <3>1, <3>2 DEF Handle
  <2>4. CASE PublishFails \/ DeadLetter \/ Ack \/ Publish
    BY <2>0, <2>4, RightOfSettling
  <2>5. CASE ReconcileFails \/ NoReconcile \/ RiskLoop
             \/ (\E k \in 0..Len(updates) : RMCrash(k)) \/ UNCHANGED vars
    <3>1. UNCHANGED <<done, told, fills, applied, dead, book>>
      BY <2>5 DEF ReconcileFails, NoReconcile, RiskLoop, RMHear, RMNewSession, RMCrash,
                  vars, pmVars, exchangeVars, history
    <3> QED
      BY <2>0, <3>1, SameStream, QuietSteps
  <2> QED
    BY <1>1, <1>2, <2>1, <2>2, <2>3, <2>4, <2>5 DEF Next, PMNext, PositionLoop
<1>4. ASSUME i \in doubt PROVE Right(i)'
  <2>1. doubt' # doubt
    BY <1>4
  <2>2. ~ UNCHANGED doubt
    BY <2>1
  <2>3. CASE DeadLetter
    BY <1>4, <2>3 DEF DeadLetter
  <2>4. ASSUME NEW k \in batch, Apply(k) PROVE Right(i)'
    BY <1>4, <2>4 DEF Apply
  <2>5. (\E seen \in SUBSET Instruments : Reconcile(seen)) \/ Crash \/ DeadLetter
           \/ (\E k \in batch : Apply(k))
    BY <2>2 DEF Next, PMNext, PositionLoop, Environment, ExchangeFills, EngineTells,
                EngineEnds, NewDay, ClearHalt, NewSession, ClaimStale, Read, Handle, Ignore,
                NoPrice, PublishFails, Ack, ReconcileFails, NoReconcile, Publish, RiskLoop,
                RMHear, RMNewSession, RMCrash, vars, pmVars, history
  <2> QED
    BY <1>1, <1>2, <2>3, <2>4, <2>5
<1> QED
  BY <1>3, <1>4

----------------------------------------------------------------------------

(* Every variable stays in its domain, the group is well formed and the    *)
(* entry being handled is pending.                                         *)
THEOREM PositionsTypeCorrect == Spec => []TypeOK
<1>1. TypeInv => TypeOK
  BY DEF TypeInv
<1> QED
  BY <1>1, TypeInitially, TypeInductive, PTL DEF Spec

(* When the account at the broker is the one the orders fill in, the book  *)
(* is what the exchange has filled less what is still on its way, in every *)
(* instrument that none of the named causes has put in doubt.              *)
THEOREM BookAndExchangeAgree == ASSUME ~Paper PROVE Spec => []SharesAddUp
<1>1. Init => SharesAddUp
  <2> SUFFICES ASSUME Init, NEW i \in Instruments
               PROVE  Right(i)
    BY AddingUp, TypeInitially
  <2>1. TypeInv
    BY TypeInitially
  <2> DEFINE f == [o \in Orders |-> Signed(o, done[o])]
             g == [o \in Orders |-> Signed(o, done[o] - told[o])]
             c == [k \in 1..Len(fills.log) |-> Carries(k, i)]
  <2>2. IsFiniteSet(OrdersIn(i)) /\ OrdersIn(i) \subseteq Orders
    BY PositionsAssumption, FS_Subset DEF OrdersIn
  <2>3. \A o \in OrdersIn(i) : f[o] = 0 /\ g[o] = 0
    <3>1. \A o \in Orders : done[o] = 0 /\ done[o] - told[o] = 0
      BY DEF Init, PMInit
    <3>2. \A o \in Orders : Signed(o, 0) = 0
      BY SignedIsInt
    <3> QED
      BY <2>2, <3>1, <3>2
  <2>4. 1..Len(fills.log) = {}
    BY DEF Init, PMInit, EmptyGroup
  <2> HIDE DEF f, g, c
  <2>5. SumFunctionOnSet(f, OrdersIn(i)) = 0 /\ SumFunctionOnSet(g, OrdersIn(i)) = 0
    BY <2>2, <2>3, SumOfZeros
  <2>6. SumFunctionOnSet(c, 1..Len(fills.log)) = 0
    BY <2>4, SumOfNone
  <2>7. Filled(i) = 0 /\ Untold(i) = 0 /\ OnStream(i) = 0
    BY <2>5, <2>6 DEF Filled, Untold, OnStream, f, g, c
  <2>8. Quantity(book, i) = 0
    BY EmptyBookIsBook DEF Init, PMInit
  <2> QED
    BY <2>7, <2>8 DEF Right
<1>2. TypeInv /\ SharesAddUp /\ [Next]_vars => SharesAddUp'
  <2> SUFFICES ASSUME TypeInv, SharesAddUp, [Next]_vars PROVE SharesAddUp'
    OBVIOUS
  <2>1. TypeInv' /\ \A i \in Instruments \ doubt : Right(i)
    BY TypeInductive, AddingUp
  <2>2. \A i \in Instruments \ doubt' : Right(i)'
    BY <2>1, RightInductive
  <2>3. (TypeInv => (SharesAddUp <=> \A i \in Instruments \ doubt : Right(i)))'
    BY AddingUp, PTL
  <2> QED
    BY <2>1, <2>2, <2>3
<1> QED
  BY <1>1, <1>2, TypeInitially, TypeInductive, PTL DEF Spec

============================================================================
