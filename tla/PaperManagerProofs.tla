-------------------------- MODULE PaperManagerProofs --------------------------
(***************************************************************************)
(* Proofs about PaperManager, for every set of symbols, quantities, prices *)
(* and brackets and every bound: first the positions and the rules they    *)
(* implement, then the order book, its audit rows and the watchdog's       *)
(* exits, and last the fills the positions are made of.                    *)
(***************************************************************************)
EXTENDS PaperManager, FiniteSetTheorems, WellFoundedInduction, TLAPS

(* While a tick is being processed its time is the current one, which makes a
   valid id for the exits it fires. *)
ScanTimed == Locked => now > 0
TypeInv == TypeOK /\ ScanTimed

(* A fill takes a position record to a position record. *)
LEMMA AfterFillType ==
  ASSUME NEW p \in Position, NEW d \in Side, NEW q \in Nat
  PROVE  AfterFill(p, d, q) \in Position
<1>1. p.net + Signed(d, q) \in Int
  <2>1. p.net \in Int
    BY DEF Position
  <2>2. Signed(d, q) \in Int
    BY DEF Signed
  <2>. QED
    BY <2>1, <2>2
<1>2. SideOf(p.net + Signed(d, q)) \in {"LONG", "SHORT", ""}
  BY DEF SideOf
<1>3. p.tp \in {0} \cup Price /\ p.sl \in {0} \cup Price
  BY DEF Position
<1>. QED
  BY <1>1, <1>2, <1>3 DEF AfterFill, Position

(* updatePositionState keeps the types of what it assigns. *)
LEMMA UpdatePositionStateType ==
  ASSUME TypeOK, NEW k \in Key, NEW d \in Side, NEW q \in Nat,
         UpdatePositionState(k, d, q)
  PROVE  /\ held' \in SUBSET Key
         /\ pos' \in [Key -> Position]
         /\ snap' \in [Key -> Position]
<1>1. AfterFill(pos[k], d, q) \in Position
  BY AfterFillType DEF TypeOK
<1>. QED
  BY <1>1 DEF UpdatePositionState, TypeOK

(* PersistOrder keeps the audit table typed. *)
LEMMA PersistOrderType ==
  ASSUME TypeOK, NEW o \in Order, PersistOrder(o)
  PROVE  ledger' \in [Id -> Order \cup {NoRow}]
<1>1. o.id \in Id
  BY DEF Order
<1>2. ledger[o.id] \in Order \cup {NoRow}
  BY <1>1 DEF TypeOK
<1>3. CASE ledger[o.id] = NoRow
  BY <1>1, <1>3 DEF PersistOrder, TypeOK
<1>4. CASE ledger[o.id] # NoRow
  <2>1. [ledger[o.id] EXCEPT !.status = o.status, !.filled = o.filled, !.price = o.price]
          \in Order
    BY <1>2, <1>4 DEF Order
  <2>. QED
    BY <1>1, <1>4, <2>1 DEF PersistOrder, TypeOK
<1>. QED
  BY <1>3, <1>4

(* The position callback carries an integer. *)
LEMMA CallbackType ==
  ASSUME TypeOK, NEW s \in Symbol, pos' \in [Key -> Position],
         PositionChangeCallback(s)
  PROVE  told' \in [Symbol -> Int]
<1>1. pos'[<<s, "MIS">>].net \in Int
  BY DEF Key, Product, Position
<1>. QED
  BY <1>1 DEF PositionChangeCallback, TypeOK

(* A market order built from typed parts is an order. *)
LEMMA MarketOrderType ==
  ASSUME NEW id \in Id, NEW s \in Symbol, NEW d \in Side, NEW q \in Nat, NEW price \in Nat
  PROVE  MarketOrder(id, s, d, q, price) \in Order
BY DEF MarketOrder, Order
-----------------------------------------------------------------------------
(* The parts an action is built from: a caller's order id, a recorded price and
   the tick's time are typed. *)
LEMMA PartsType ==
  ASSUME TypeInv
  PROVE  /\ \A s \in Symbol : last[s] \in Nat
         /\ issued < MaxOrders => <<"user", issued + 1>> \in Id /\ issued + 1 \in 0 .. MaxOrders
         /\ Locked => <<"auto", now>> \in Id /\ scan.sym \in Symbol
         /\ \A k \in Key : k[1] \in Symbol /\ Abs(pos[k].net) \in Nat /\ Opposite(pos[k]) \in Side
         /\ \A q \in Qty : q \in Nat
<1>1. \A s \in Symbol : last[s] \in Nat
  <2>1. {0} \cup Price \subseteq Nat
    BY PaperAssumption
  <2>2. last \in [Symbol -> {0} \cup Price]
    BY DEF TypeInv, TypeOK
  <2>. QED
    BY <2>1, <2>2
<1>2. ASSUME issued < MaxOrders
      PROVE  <<"user", issued + 1>> \in Id /\ issued + 1 \in 0 .. MaxOrders
  <2>1. issued + 1 \in 1 .. MaxOrders
    BY <1>2, PaperAssumption DEF TypeInv, TypeOK
  <2>. QED
    BY <2>1, PaperAssumption DEF Id
<1>3. ASSUME Locked
      PROVE  <<"auto", now>> \in Id /\ scan.sym \in Symbol
  <2>1. now \in 1 .. MaxTime
    BY <1>3, PaperAssumption DEF TypeInv, TypeOK, ScanTimed
  <2>. QED
    BY <1>3, <2>1 DEF Id, TypeInv, TypeOK, Locked
<1>4. ASSUME NEW k \in Key
      PROVE  k[1] \in Symbol /\ Abs(pos[k].net) \in Nat /\ Opposite(pos[k]) \in Side
  <2>1. pos[k].net \in Int
    BY DEF TypeInv, TypeOK, Position
  <2>2. Abs(pos[k].net) \in Nat
    BY <2>1 DEF Abs
  <2>. QED
    BY <2>2 DEF Key, Opposite, Side
<1>. QED
  BY <1>1, <1>2, <1>3, <1>4, PaperAssumption

(* A market fill recorded in the book by a caller or by the watchdog: what
   PlaceOrder, ExitPosition and executeInternalMarketExit have in common. *)
LEMMA RecordedFillType ==
  ASSUME TypeInv, NEW k \in Key, NEW d \in Side, NEW q \in Nat, NEW id \in Id,
         book' = Append(book, MarketOrder(id, k[1], d, q, last[k[1]])),
         PersistOrder(MarketOrder(id, k[1], d, q, last[k[1]])),
         UpdatePositionState(k, d, q),
         PositionChangeCallback(k[1])
  PROVE  /\ held' \in SUBSET Key
         /\ pos' \in [Key -> Position]
         /\ snap' \in [Key -> Position]
         /\ book' \in Seq(Order)
         /\ ledger' \in [Id -> Order \cup {NoRow}]
         /\ told' \in [Symbol -> Int]
<1>. DEFINE o == MarketOrder(id, k[1], d, q, last[k[1]])
<1>1. o \in Order
  BY PartsType, MarketOrderType
<1>2. TypeOK
  BY DEF TypeInv
<1>3. book' \in Seq(Order)
  BY <1>1, <1>2 DEF TypeOK
<1>4. ledger' \in [Id -> Order \cup {NoRow}]
  BY <1>1, <1>2, PersistOrderType
<1>5. /\ held' \in SUBSET Key
      /\ pos' \in [Key -> Position]
      /\ snap' \in [Key -> Position]
  BY <1>2, UpdatePositionStateType
<1>6. told' \in [Symbol -> Int]
  BY <1>2, <1>5, PartsType, CallbackType
<1>. QED
  BY <1>3, <1>4, <1>5, <1>6

(* One iteration of the product loop keeps the types. *)
LEMMA ScanPositionType ==
  ASSUME TypeInv, Locked, NEW k \in Key, ScanPosition(k)
  PROVE  /\ held' \in SUBSET Key
         /\ pos' \in [Key -> Position]
         /\ snap' \in [Key -> Position]
         /\ book' \in Seq(Order)
         /\ ledger' \in [Id -> Order \cup {NoRow}]
         /\ told' \in [Symbol -> Int]
<1>1. CASE InternalMarketExit(k)
  BY <1>1, PartsType, RecordedFillType DEF InternalMarketExit
<1>2. CASE UNCHANGED <<pos, held, book, ledger, snap, told>>
  BY <1>2 DEF TypeInv, TypeOK
<1>. QED
  BY <1>1, <1>2 DEF ScanPosition
-----------------------------------------------------------------------------
(* The initial state is typed. *)
LEMMA InitType == Init => TypeInv
<1>1. Flat \in Position
  BY DEF Flat, Position
<1>2. ~(Idle # Idle)
  OBVIOUS
<1>. QED
  BY <1>1, PaperAssumption DEF Init, TypeInv, TypeOK, ScanTimed, Locked

(* Every action keeps the types. *)
LEMMA NextType == TypeInv /\ [Next]_vars => TypeInv'
<1>. SUFFICES ASSUME TypeInv, [Next]_vars
              PROVE  TypeInv'
  OBVIOUS
<1>. USE DEF TypeInv, ScanTimed, Locked
<1>1. ASSUME NEW s \in Symbol, NEW prod \in Product, NEW d \in Side, NEW q \in Qty,
             PlaceMarket(s, prod, d, q)
      PROVE  TypeInv'
  <2>. DEFINE k == <<s, prod>>
  <2>1. k \in Key /\ k[1] = s
    BY DEF Key
  <2>2. q \in Nat /\ <<"user", issued + 1>> \in Id /\ issued' \in 0 .. MaxOrders
    BY <1>1, PartsType DEF PlaceMarket
  <2>3. /\ held' \in SUBSET Key
        /\ pos' \in [Key -> Position]
        /\ snap' \in [Key -> Position]
        /\ book' \in Seq(Order)
        /\ ledger' \in [Id -> Order \cup {NoRow}]
        /\ told' \in [Symbol -> Int]
    BY <1>1, <2>1, <2>2, RecordedFillType DEF PlaceMarket
  <2>. QED
    BY <1>1, <2>2, <2>3 DEF PlaceMarket, TypeOK
<1>2. ASSUME NEW s \in Symbol, NEW d \in Side, NEW q \in Qty, NEW price \in Price,
             PlaceLimit(s, d, q, price)
      PROVE  TypeInv'
  <2>. DEFINE o == LimitOrder(<<"user", issued + 1>>, s, d, q, price)
  <2>1. q \in Nat /\ <<"user", issued + 1>> \in Id /\ issued' \in 0 .. MaxOrders
    BY <1>2, PartsType DEF PlaceLimit
  <2>2. o \in Order
    BY <2>1, PaperAssumption DEF LimitOrder, Order
  <2>3. ledger' \in [Id -> Order \cup {NoRow}]
    BY <1>2, <2>2, PersistOrderType DEF PlaceLimit
  <2>. QED
    BY <1>2, <2>1, <2>2, <2>3 DEF PlaceLimit, TypeOK
<1>3. ASSUME NEW i \in DOMAIN book, NEW price \in Price, ModifyOrder(i, price)
      PROVE  TypeInv'
  <2>. DEFINE o == [book[i] EXCEPT !.price = price]
  <2>1. o \in Order
    <3>1. book[i] \in Order /\ price \in Nat
      BY PaperAssumption DEF TypeOK
    <3>. QED
      BY <3>1 DEF Order
  <2>2. ledger' \in [Id -> Order \cup {NoRow}]
    BY <1>3, <2>1, PersistOrderType DEF ModifyOrder
  <2>3. book' \in Seq(Order)
    BY <1>3, <2>1 DEF ModifyOrder, TypeOK
  <2>. QED
    BY <1>3, <2>2, <2>3 DEF ModifyOrder, TypeOK
<1>4. ASSUME NEW i \in DOMAIN book, CancelOrder(i)
      PROVE  TypeInv'
  <2>. DEFINE o == [book[i] EXCEPT !.status = "CANCELLED"]
  <2>1. o \in Order
    <3>1. book[i] \in Order
      BY DEF TypeOK
    <3>. QED
      BY <3>1 DEF Order
  <2>2. ledger' \in [Id -> Order \cup {NoRow}]
    BY <1>4, <2>1, PersistOrderType DEF CancelOrder
  <2>3. book' \in Seq(Order)
    BY <1>4, <2>1 DEF CancelOrder, TypeOK
  <2>. QED
    BY <1>4, <2>2, <2>3 DEF CancelOrder, TypeOK
<1>5. ASSUME NEW k \in Key, NEW b \in Bracket, UpdatePositionMetadata(k, b)
      PROVE  TypeInv'
  <2>1. b[1] \in {0} \cup Price /\ b[2] \in {0} \cup Price
    BY PaperAssumption
  <2>2. [pos[k] EXCEPT !.tp = b[1], !.sl = b[2]] \in Position
    <3>1. pos[k] \in Position
      BY DEF TypeOK
    <3>. QED
      BY <2>1, <3>1 DEF Position
  <2>3. pos' \in [Key -> Position]
    BY <1>5, <2>2 DEF UpdatePositionMetadata, TypeOK
  <2>4. snap' \in [Key -> Position]
    BY <1>5, <2>3 DEF UpdatePositionMetadata, TypeOK
  <2>. QED
    BY <1>5, <2>3, <2>4 DEF UpdatePositionMetadata, TypeOK
<1>6. ASSUME NEW k \in Key, NEW q \in Qty, ExitPosition(k, q)
      PROVE  TypeInv'
  <2>1. q \in Nat /\ <<"user", issued + 1>> \in Id /\ issued' \in 0 .. MaxOrders
    BY <1>6, PartsType DEF ExitPosition
  <2>2. Opposite(pos[k]) \in Side
    BY PartsType
  <2>3. /\ held' \in SUBSET Key
        /\ pos' \in [Key -> Position]
        /\ snap' \in [Key -> Position]
        /\ book' \in Seq(Order)
        /\ ledger' \in [Id -> Order \cup {NoRow}]
        /\ told' \in [Symbol -> Int]
    BY <1>6, <2>1, <2>2, RecordedFillType DEF ExitPosition
  <2>. QED
    BY <1>6, <2>1, <2>3 DEF ExitPosition, TypeOK
<1>7. CASE ClearPositions
  <2>1. Flat \in Position
    BY DEF Flat, Position
  <2>2. 0 \in 0 .. MaxTime
    BY PaperAssumption
  <2>. QED
    BY <1>7, <2>1, <2>2 DEF ClearPositions, TypeOK
<1>8. ASSUME NEW s \in Symbol, NEW price \in Price, NEW ts \in 1 .. MaxTime,
             TickArrives(s, price, ts)
      PROVE  TypeInv'
  <2>1. now' \in 0 .. MaxTime /\ now' > 0
    BY <1>8, PaperAssumption DEF TickArrives
  <2>2. scan' \in [phase: {"orders", "CNC"}, sym: Symbol]
    BY <1>8 DEF TickArrives
  <2>. QED
    BY <1>8, <2>1, <2>2 DEF TickArrives, TypeOK
<1>9. CASE FillLimit
  <2>1. PICK i \in Crossing :
          LET o == [book[i] EXCEPT !.status = "COMPLETE", !.filled = book[i].qty] IN
          /\ book' = [book EXCEPT ![i] = o]
          /\ PersistOrder(o)
          /\ UpdatePositionState(<<scan.sym, "MIS">>, o.side, o.qty)
          /\ PositionChangeCallback(scan.sym)
    BY <1>9 DEF FillLimit
  <2>. DEFINE o == [book[i] EXCEPT !.status = "COMPLETE", !.filled = book[i].qty]
  <2>2. i \in DOMAIN book /\ book[i] \in Order
    BY DEF Crossing, TypeOK
  <2>3. o \in Order
    BY <2>2 DEF Order
  <2>4. scan.sym \in Symbol /\ <<scan.sym, "MIS">> \in Key
    BY <1>9, PartsType DEF FillLimit, Key, Product
  <2>5. ledger' \in [Id -> Order \cup {NoRow}]
    BY <2>1, <2>3, PersistOrderType
  <2>6. book' \in Seq(Order)
    BY <2>1, <2>2, <2>3 DEF TypeOK
  <2>7. o.side \in Side /\ o.qty \in Nat
    BY <2>3 DEF Order
  <2>8. /\ held' \in SUBSET Key
        /\ pos' \in [Key -> Position]
        /\ snap' \in [Key -> Position]
    BY <2>1, <2>4, <2>7, UpdatePositionStateType
  <2>9. told' \in [Symbol -> Int]
    BY <2>1, <2>4, <2>8, CallbackType
  <2>. QED
    BY <1>9, <2>5, <2>6, <2>8, <2>9 DEF FillLimit, TypeOK
<1>10. CASE ScanMIS
  <2>1. <<scan.sym, "MIS">> \in Key /\ scan.sym \in Symbol
    BY <1>10, PartsType DEF ScanMIS, Key, Product
  <2>2. /\ held' \in SUBSET Key
        /\ pos' \in [Key -> Position]
        /\ snap' \in [Key -> Position]
        /\ book' \in Seq(Order)
        /\ ledger' \in [Id -> Order \cup {NoRow}]
        /\ told' \in [Symbol -> Int]
    BY <1>10, <2>1, ScanPositionType DEF ScanMIS
  <2>3. scan' \in [phase: {"orders", "CNC"}, sym: Symbol]
    BY <1>10 DEF ScanMIS, TypeOK
  <2>. QED
    BY <1>10, <2>2, <2>3 DEF ScanMIS, TypeOK
<1>11. CASE ScanCNC
  <2>1. <<scan.sym, "CNC">> \in Key /\ scan.sym \in Symbol
    BY <1>11, PartsType DEF ScanCNC, Key, Product
  <2>2. /\ held' \in SUBSET Key
        /\ pos' \in [Key -> Position]
        /\ snap' \in [Key -> Position]
        /\ book' \in Seq(Order)
        /\ ledger' \in [Id -> Order \cup {NoRow}]
        /\ told' \in [Symbol -> Int]
    BY <1>11, <2>1, ScanPositionType DEF ScanCNC
  <2>. QED
    BY <1>11, <2>2 DEF ScanCNC, TypeOK
<1>12. CASE UNCHANGED vars
  BY <1>12 DEF vars, TypeOK
<1>. QED
  BY <1>1, <1>2, <1>3, <1>4, <1>5, <1>6, <1>7, <1>8, <1>9, <1>10, <1>11, <1>12
  DEF Next, OnPriceUpdateStep

(* The strengthened type invariant, and the type invariant itself: every variable
   of the paper manager keeps the shape its handlers rely on. *)
LEMMA TypeInvCorrect == Spec => []TypeInv
<1>. QED
  BY InitType, NextType, PTL DEF Spec

(* The type invariant holds in every reachable state. *)
THEOREM TypeCorrect == Spec => []TypeOK
<1>1. TypeInv => TypeOK
  BY DEF TypeInv
<1>. QED
  BY <1>1, TypeInvCorrect, PTL
-----------------------------------------------------------------------------
(* All that one step may do to the positions: nothing, one fill, one assignment of
   thresholds to a position with exposure, or forgetting all of them. *)
FillStep(k, d, q) == pos' = [pos EXCEPT ![k] = AfterFill(pos[k], d, q)]
BracketStep(k, b) ==
  /\ pos[k].net # 0
  /\ pos' = [pos EXCEPT ![k].tp = b[1], ![k].sl = b[2]]
PositionStep ==
  \/ pos' = pos
  \/ \E k \in Key, d \in Side, q \in Nat : FillStep(k, d, q)
  \/ \E k \in Key, b \in Bracket : BracketStep(k, b)
  \/ pos' = [k \in Key |-> Flat]

(* Every step of the manager is such a step. *)
LEMMA NextPositionStep == TypeInv /\ [Next]_vars => PositionStep
<1>. SUFFICES ASSUME TypeInv, [Next]_vars
              PROVE  PositionStep
  OBVIOUS
<1>1. ASSUME NEW s \in Symbol, NEW prod \in Product, NEW d \in Side, NEW q \in Qty,
             PlaceMarket(s, prod, d, q)
      PROVE  PositionStep
  <2>1. <<s, prod>> \in Key /\ q \in Nat
    BY PaperAssumption DEF Key
  <2>2. FillStep(<<s, prod>>, d, q)
    BY <1>1 DEF PlaceMarket, UpdatePositionState, FillStep
  <2>. QED
    BY <2>1, <2>2 DEF PositionStep
<1>2. ASSUME NEW s \in Symbol, NEW d \in Side, NEW q \in Qty, NEW price \in Price,
             PlaceLimit(s, d, q, price)
      PROVE  PositionStep
  BY <1>2 DEF PlaceLimit, PositionStep
<1>3. ASSUME NEW i \in DOMAIN book, NEW price \in Price, ModifyOrder(i, price)
      PROVE  PositionStep
  BY <1>3 DEF ModifyOrder, PositionStep
<1>4. ASSUME NEW i \in DOMAIN book, CancelOrder(i)
      PROVE  PositionStep
  BY <1>4 DEF CancelOrder, PositionStep
<1>5. ASSUME NEW k \in Key, NEW b \in Bracket, UpdatePositionMetadata(k, b)
      PROVE  PositionStep
  BY <1>5 DEF UpdatePositionMetadata, BracketStep, PositionStep
<1>6. ASSUME NEW k \in Key, NEW q \in Qty, ExitPosition(k, q)
      PROVE  PositionStep
  <2>1. Opposite(pos[k]) \in Side /\ q \in Nat
    BY PartsType
  <2>2. FillStep(k, Opposite(pos[k]), q)
    BY <1>6 DEF ExitPosition, UpdatePositionState, FillStep
  <2>. QED
    BY <2>1, <2>2 DEF PositionStep
<1>7. CASE ClearPositions
  BY <1>7 DEF ClearPositions, PositionStep
<1>8. ASSUME NEW s \in Symbol, NEW price \in Price, NEW ts \in 1 .. MaxTime,
             TickArrives(s, price, ts)
      PROVE  PositionStep
  BY <1>8 DEF TickArrives, PositionStep
<1>9. CASE FillLimit
  <2>1. PICK i \in Crossing :
          UpdatePositionState(<<scan.sym, "MIS">>, book[i].side, book[i].qty)
    <3>1. \A i \in Crossing : book[i] \in Order
      BY DEF Crossing, TypeInv, TypeOK
    <3>. QED
      BY <1>9, <3>1 DEF FillLimit, Order
  <2>2. book[i].side \in Side /\ book[i].qty \in Nat
    <3>1. book[i] \in Order
      BY DEF Crossing, TypeInv, TypeOK
    <3>. QED
      BY <3>1 DEF Order
  <2>3. <<scan.sym, "MIS">> \in Key
    BY <1>9, PartsType DEF FillLimit, Key, Product
  <2>4. FillStep(<<scan.sym, "MIS">>, book[i].side, book[i].qty)
    BY <2>1 DEF UpdatePositionState, FillStep
  <2>. QED
    BY <2>2, <2>3, <2>4 DEF PositionStep
<1>10. ASSUME NEW k \in Key, ScanPosition(k)
       PROVE  PositionStep
  <2>1. CASE InternalMarketExit(k)
    <3>1. Opposite(pos[k]) \in Side /\ Abs(pos[k].net) \in Nat
      BY PartsType
    <3>2. FillStep(k, Opposite(pos[k]), Abs(pos[k].net))
      BY <2>1 DEF InternalMarketExit, UpdatePositionState, FillStep
    <3>. QED
      BY <3>1, <3>2 DEF PositionStep
  <2>2. CASE pos' = pos
    BY <2>2 DEF PositionStep
  <2>. QED
    BY <1>10, <2>1, <2>2 DEF ScanPosition
<1>11. CASE ScanMIS \/ ScanCNC
  <2>1. <<scan.sym, "MIS">> \in Key /\ <<scan.sym, "CNC">> \in Key
    BY <1>11, PartsType DEF ScanMIS, ScanCNC, Key, Product
  <2>. QED
    BY <1>10, <1>11, <2>1 DEF ScanMIS, ScanCNC
<1>12. CASE UNCHANGED vars
  BY <1>12 DEF vars, PositionStep
<1>. QED
  BY <1>1, <1>2, <1>3, <1>4, <1>5, <1>6, <1>7, <1>8, <1>9, <1>11, <1>12
  DEF Next, OnPriceUpdateStep

(* The fields of the record of a forgotten position. *)
LEMMA FlatFields ==
  Flat.net = 0 /\ Flat.side = SideOf(Flat.net) /\ Flat.tp = 0 /\ Flat.sl = 0
BY DEF Flat, SideOf

(* A fill leaves no threshold on a flat position and the side of the quantity. *)
LEMMA AfterFillSafe ==
  ASSUME NEW p \in Position, NEW d \in Side, NEW q \in Nat
  PROVE  LET r == AfterFill(p, d, q)
         IN  (r.net = 0 => r.tp = 0 /\ r.sl = 0) /\ r.side = SideOf(r.net)
BY DEF AfterFill

(* A step of the positions keeps the thresholds where the exposure is. *)
LEMMA PositionStepSafe ==
  TypeInv /\ ThresholdsNeedExposure /\ PositionStep => ThresholdsNeedExposure'
<1>. SUFFICES ASSUME TypeInv, ThresholdsNeedExposure, PositionStep
              PROVE  ThresholdsNeedExposure'
  OBVIOUS
<1>. USE DEF ThresholdsNeedExposure
<1>1. pos \in [Key -> Position]
  BY DEF TypeInv, TypeOK
<1>2. CASE pos' = pos
  BY <1>2
<1>3. ASSUME NEW k \in Key, NEW d \in Side, NEW q \in Nat, FillStep(k, d, q)
      PROVE  ThresholdsNeedExposure'
  <2>1. /\ pos'[k] = AfterFill(pos[k], d, q)
        /\ \A j \in Key : j # k => pos'[j] = pos[j]
    BY <1>1, <1>3 DEF FillStep
  <2>2. /\ pos'[k].net = 0 => pos'[k].tp = 0 /\ pos'[k].sl = 0
        /\ pos'[k].side = SideOf(pos'[k].net)
    BY <1>1, <2>1, AfterFillSafe
  <2>. QED
    BY <2>1, <2>2
<1>4. ASSUME NEW k \in Key, NEW b \in Bracket, BracketStep(k, b)
      PROVE  ThresholdsNeedExposure'
  <2>1. /\ pos'[k].net = pos[k].net /\ pos'[k].side = pos[k].side
        /\ \A j \in Key : j # k => pos'[j] = pos[j]
    BY <1>1, <1>4 DEF BracketStep, Position
  <2>. QED
    BY <1>4, <2>1 DEF BracketStep
<1>5. CASE pos' = [k \in Key |-> Flat]
  BY <1>5, FlatFields
<1>. QED
  BY <1>2, <1>3, <1>4, <1>5 DEF PositionStep

(* Rules 4.1 and 4.3 of docs/order_manager.md: no position without exposure has a
   threshold, and the side the thresholds are compared on is that of the quantity. *)
THEOREM ThresholdsSafe == Spec => []ThresholdsNeedExposure
<1>1. Init => ThresholdsNeedExposure
  BY FlatFields DEF Init, ThresholdsNeedExposure
<1>2. TypeInv /\ ThresholdsNeedExposure /\ [Next]_vars => ThresholdsNeedExposure'
  BY NextPositionStep, PositionStepSafe
<1>. QED
  BY <1>1, <1>2, TypeInvCorrect, PTL DEF Spec
-----------------------------------------------------------------------------
(* A fill that keeps the direction keeps the thresholds, any other drops them; the
   direction is all that matters, because the manager keeps them on scaling. *)
LEMMA AfterFillRules ==
  ASSUME NEW p \in Position, NEW d \in Side, NEW q \in Nat,
         p.net = 0 => p.tp = 0 /\ p.sl = 0
  PROVE  LET r == AfterFill(p, d, q)
         IN  IF Rules!SameDirection(p.net, r.net)
             THEN r.tp = p.tp /\ r.sl = p.sl
             ELSE r.tp = 0 /\ r.sl = 0
<1>1. p.net \in Int
  BY DEF Position
<1>2. CASE d = "BUY"
  BY <1>1, <1>2 DEF AfterFill, Signed, Rules!SameDirection
<1>3. CASE d = "SELL"
  BY <1>1, <1>3 DEF AfterFill, Signed, Rules!SameDirection
<1>. QED
  BY <1>2, <1>3 DEF Side

(* A fill of the manager is a trade of the abstract specification. *)
LEMMA FillImplementsTrade ==
  ASSUME TypeInv, ThresholdsNeedExposure,
         NEW k \in Key, NEW d \in Side, NEW q \in Nat, FillStep(k, d, q)
  PROVE  Rules!Trade(k)
<1>1. pos \in [Key -> Position]
  BY DEF TypeInv, TypeOK
<1>. DEFINE r == AfterFill(pos[k], d, q)
<1>2. r \in Position
  BY <1>1, AfterFillType
<1>3. \A j \in Key : pos'[j] = IF j = k THEN r ELSE pos[j]
  BY <1>1 DEF FillStep
<1>4. IF Rules!SameDirection(pos[k].net, r.net)
      THEN r.tp = pos[k].tp /\ r.sl = pos[k].sl
      ELSE r.tp = 0 /\ r.sl = 0
  BY <1>1, AfterFillRules DEF ThresholdsNeedExposure
<1>. HIDE DEF r
<1>5. r.net \in Int
  BY <1>2 DEF Position
<1>. QED
  BY <1>3, <1>4, <1>5 DEF Rules!Trade, Rules!Survive

(* An assignment of thresholds is the abstract one. *)
LEMMA BracketImplementsProtect ==
  ASSUME TypeInv, NEW k \in Key, NEW b \in Bracket, BracketStep(k, b)
  PROVE  Rules!Protect(k)
<1>1. pos \in [Key -> Position]
  BY DEF TypeInv, TypeOK
<1>2. b[1] \in Nat /\ b[2] \in Nat
  <2>1. {0} \cup Price \subseteq Nat
    BY PaperAssumption
  <2>2. b[1] \in {0} \cup Price /\ b[2] \in {0} \cup Price
    BY PaperAssumption
  <2>. QED
    BY <2>1, <2>2
<1>3. \A j \in Key :
        /\ pos'[j].net = pos[j].net
        /\ pos'[j].tp = IF j = k THEN b[1] ELSE pos[j].tp
        /\ pos'[j].sl = IF j = k THEN b[2] ELSE pos[j].sl
  BY <1>1 DEF BracketStep, Position
<1>4. pos[k].net # 0
  BY DEF BracketStep
<1>5. pos'[k].tp \in Nat /\ pos'[k].sl \in Nat
  BY <1>2, <1>3
<1>. QED
  BY <1>3, <1>4, <1>5 DEF Rules!Protect

(* The manager implements the position rules of docs/order_manager.md, chapter 4,
   but for the scaling clause of 4.2, which the code contradicts: whatever the
   interleaving of placements, limit fills, manual and automatic exits, a fill that
   opens, flattens or reverses a position leaves it without thresholds in that step,
   and a fill that adds to a position changes neither. *)
THEOREM ImplementsRules == Spec => RulesSpec
<1>1. Init => Rules!Init
  BY FlatFields DEF Init, Rules!Init
<1>2. TypeInv /\ ThresholdsNeedExposure /\ [Next]_vars => [Rules!Next]_(Rules!vars)
  <2>. SUFFICES ASSUME TypeInv, ThresholdsNeedExposure, PositionStep
                PROVE  Rules!Next \/ UNCHANGED Rules!vars
    BY NextPositionStep
  <2>1. CASE pos' = pos
    BY <2>1 DEF Rules!vars
  <2>2. ASSUME NEW k \in Key, NEW d \in Side, NEW q \in Nat, FillStep(k, d, q)
        PROVE  Rules!Next
    BY <2>2, FillImplementsTrade DEF Rules!Next
  <2>3. ASSUME NEW k \in Key, NEW b \in Bracket, BracketStep(k, b)
        PROVE  Rules!Next
    BY <2>3, BracketImplementsProtect DEF Rules!Next
  <2>4. CASE pos' = [k \in Key |-> Flat]
    BY <2>4, FlatFields DEF Rules!Next, Rules!Reset
  <2>. QED
    BY <2>1, <2>2, <2>3, <2>4 DEF PositionStep
<1>. QED
  BY <1>1, <1>2, TypeInvCorrect, ThresholdsSafe, PTL DEF Spec, RulesSpec, Rules!Spec
-----------------------------------------------------------------------------

(* Why an upsert by order_id is safe for the orders of callers: their ids come
   from a counter that has not reached an id without a row, so no two orders of the
   book share one.  The ids of automatic exits, made of a tick's time, have no such
   property and the invariant says nothing of them. *)
UserId(id) == id[1] = "user"
IdsIssued ==
  /\ \A i \in DOMAIN book : UserId(book[i].id) => book[i].id[2] <= issued
  /\ \A i, j \in DOMAIN book : UserId(book[i].id) /\ book[i].id = book[j].id => i = j
  /\ \A id \in Id : UserId(id) /\ id[2] > issued => ledger[id] = NoRow
RowsCurrent ==
  \A i \in DOMAIN book : UserId(book[i].id) => ledger[book[i].id] = book[i]
AuditInv == IdsIssued /\ RowsCurrent
SnapshotsCurrent == \A k \in held : snap[k] = pos[k]

(* No order is the missing row. *)
LEMMA NoRowNotOrder == NoRow \notin Order
BY DEF NoRow, Order

(* Appending a new order and persisting it keeps the audit invariant when the
   order takes the next caller's id, or an id that is not a caller's. *)
LEMMA AppendKeepsAudit ==
  ASSUME TypeInv, AuditInv, NEW o \in Order,
         book' = Append(book, o), PersistOrder(o),
         \/ ~UserId(o.id) /\ issued' = issued
         \/ o.id = <<"user", issued + 1>> /\ issued' = issued + 1
  PROVE  AuditInv'
<1>. DEFINE n == Len(book) + 1
<1>1. book \in Seq(Order) /\ issued \in Nat /\ ledger \in [Id -> Order \cup {NoRow}]
  BY PaperAssumption DEF TypeInv, TypeOK
<1>2. /\ DOMAIN book' = DOMAIN book \cup {n}
      /\ n \notin DOMAIN book
      /\ book'[n] = o
      /\ \A i \in DOMAIN book : book'[i] = book[i]
  BY <1>1
<1>3. o.id \in Id /\ \A i \in DOMAIN book : book[i].id \in Id
  <2>1. \A i \in DOMAIN book : book[i] \in Order
    BY <1>1
  <2>. QED
    BY <2>1 DEF Order
<1>4. /\ \A id \in Id : id # o.id => ledger'[id] = ledger[id]
      /\ ledger[o.id] = NoRow => ledger'[o.id] = o
  BY <1>1, <1>3 DEF PersistOrder
<1>. HIDE DEF n
<1>5. CASE ~UserId(o.id) /\ issued' = issued
  <2>1. IdsIssued'
    BY <1>2, <1>3, <1>4, <1>5 DEF AuditInv, IdsIssued, UserId
  <2>2. RowsCurrent'
    BY <1>2, <1>3, <1>4, <1>5 DEF AuditInv, RowsCurrent, UserId
  <2>. QED
    BY <2>1, <2>2 DEF AuditInv
<1>6. CASE o.id = <<"user", issued + 1>> /\ issued' = issued + 1
  <2>1. UserId(o.id) /\ o.id[2] = issued + 1
    BY <1>6 DEF UserId
  <2>2. \A i \in DOMAIN book : UserId(book[i].id) => book[i].id # o.id
    BY <1>1, <2>1 DEF AuditInv, IdsIssued
  <2>3. ledger'[o.id] = o
    BY <1>1, <1>3, <1>4, <2>1 DEF AuditInv, IdsIssued
  <2>4. RowsCurrent'
    BY <1>2, <1>3, <1>4, <2>2, <2>3 DEF AuditInv, RowsCurrent
  <2>5. \A i \in DOMAIN book' : UserId(book'[i].id) => book'[i].id[2] <= issued'
    <3>1. \A i \in DOMAIN book : UserId(book[i].id) => book[i].id[2] \in Nat
      BY <1>3 DEF Id, UserId
    <3>. QED
      BY <1>1, <1>2, <1>6, <2>1, <3>1 DEF AuditInv, IdsIssued
  <2>6. \A i, j \in DOMAIN book' :
          UserId(book'[i].id) /\ book'[i].id = book'[j].id => i = j
    BY <1>2, <2>2 DEF AuditInv, IdsIssued
  <2>7. \A id \in Id : UserId(id) /\ id[2] > issued' => ledger'[id] = NoRow
    <3>1. \A id \in Id : UserId(id) => id[2] \in Nat
      BY DEF Id, UserId
    <3>. QED
      BY <1>1, <1>4, <1>6, <2>1, <3>1 DEF AuditInv, IdsIssued
  <2>. QED
    BY <2>4, <2>5, <2>6, <2>7 DEF AuditInv, IdsIssued
<1>. QED
  BY <1>5, <1>6

(* Changing the status, the filled quantity or the price of an order in the book
   and persisting it keeps the audit invariant: the upsert writes those columns. *)
LEMMA UpdateKeepsAudit ==
  ASSUME TypeInv, AuditInv, issued' = issued, NEW i \in DOMAIN book, NEW o \in Order,
         o.id = book[i].id, o.sym = book[i].sym, o.side = book[i].side,
         o.type = book[i].type, o.qty = book[i].qty,
         book' = [book EXCEPT ![i] = o], PersistOrder(o)
  PROVE  AuditInv'
<1>1. book \in Seq(Order) /\ ledger \in [Id -> Order \cup {NoRow}]
  BY DEF TypeInv, TypeOK
<1>2. /\ DOMAIN book' = DOMAIN book
      /\ book'[i] = o
      /\ \A j \in DOMAIN book : j # i => book'[j] = book[j]
  BY <1>1
<1>3. book[i] \in Order /\ o.id \in Id /\ \A j \in DOMAIN book : book[j].id \in Id
  <2>1. \A j \in DOMAIN book : book[j] \in Order
    BY <1>1
  <2>. QED
    BY <2>1 DEF Order
<1>4. \A id \in Id : id # o.id => ledger'[id] = ledger[id]
  BY <1>1, <1>3 DEF PersistOrder
<1>5. UserId(o.id) => ledger'[o.id] = o
  <2>. SUFFICES ASSUME UserId(o.id)
                PROVE  ledger'[o.id] = o
    OBVIOUS
  <2>1. ledger[o.id] = book[i]
    BY DEF AuditInv, RowsCurrent
  <2>2. ledger'[o.id] =
          [book[i] EXCEPT !.status = o.status, !.filled = o.filled, !.price = o.price]
    BY <1>1, <1>3, <2>1, NoRowNotOrder DEF PersistOrder
  <2>3. o = [book[i] EXCEPT !.status = o.status, !.filled = o.filled, !.price = o.price]
    BY <1>3 DEF Order
  <2>. QED
    BY <2>2, <2>3
<1>6. RowsCurrent'
  BY <1>2, <1>3, <1>4, <1>5 DEF AuditInv, IdsIssued, RowsCurrent
<1>7. \A j \in DOMAIN book' : book'[j].id = book[j].id
  BY <1>2
<1>8. UserId(o.id) => ~(o.id[2] > issued)
  <2>1. UserId(o.id) => o.id[2] \in Nat
    BY <1>3 DEF Id, UserId
  <2>2. issued \in Nat
    BY PaperAssumption DEF TypeInv, TypeOK
  <2>. QED
    BY <2>1, <2>2 DEF AuditInv, IdsIssued
<1>9. IdsIssued'
  BY <1>2, <1>4, <1>7, <1>8 DEF AuditInv, IdsIssued
<1>. QED
  BY <1>6, <1>9 DEF AuditInv
-----------------------------------------------------------------------------
(* All that one step may do to the order book and its audit rows. *)
AppendStep(o) ==
  /\ book' = Append(book, o)
  /\ PersistOrder(o)
  /\ \/ ~UserId(o.id) /\ issued' = issued
     \/ o.id = <<"user", issued + 1>> /\ issued' = issued + 1
UpdateStep(i, o) ==
  /\ o.id = book[i].id /\ o.sym = book[i].sym /\ o.side = book[i].side
  /\ o.type = book[i].type /\ o.qty = book[i].qty
  /\ book[i].status = "PENDING"
  /\ book' = [book EXCEPT ![i] = o]
  /\ PersistOrder(o)
  /\ issued' = issued
  /\ o.status = "COMPLETE" =>
       /\ Locked /\ Crosses(book[i], scan.sym, last[scan.sym])
       /\ o.filled = o.qty
BookStep ==
  \/ UNCHANGED <<book, ledger, issued>>
  \/ \E o \in Order : AppendStep(o)
  \/ \E i \in DOMAIN book, o \in Order : UpdateStep(i, o)
  \/ book' = <<>> /\ UNCHANGED <<ledger, issued>>

(* A new market order is appended under its own id. *)
LEMMA MarketAppendStep ==
  ASSUME TypeInv, NEW k \in Key, NEW d \in Side, NEW q \in Nat, NEW id \in Id,
         \/ ~UserId(id) /\ issued' = issued
         \/ id = <<"user", issued + 1>> /\ issued' = issued + 1,
         book' = Append(book, MarketOrder(id, k[1], d, q, last[k[1]])),
         PersistOrder(MarketOrder(id, k[1], d, q, last[k[1]]))
  PROVE  BookStep
<1>. DEFINE o == MarketOrder(id, k[1], d, q, last[k[1]])
<1>1. o \in Order
  BY PartsType, MarketOrderType
<1>2. o.id = id
  BY DEF MarketOrder
<1>3. AppendStep(o)
  BY <1>2 DEF AppendStep
<1>. QED
  BY <1>1, <1>3 DEF BookStep

(* Every step of the manager is such a step. *)
LEMMA NextBookStep == TypeInv /\ [Next]_vars => BookStep
<1>. SUFFICES ASSUME TypeInv, [Next]_vars
              PROVE  BookStep
  OBVIOUS
<1>0. \A i \in DOMAIN book : book[i] \in Order
  BY DEF TypeInv, TypeOK
<1>1. ASSUME NEW s \in Symbol, NEW prod \in Product, NEW d \in Side, NEW q \in Qty,
             PlaceMarket(s, prod, d, q)
      PROVE  BookStep
  <2>. DEFINE k == <<s, prod>>
  <2>1. k \in Key /\ k[1] = s /\ q \in Nat /\ <<"user", issued + 1>> \in Id
    BY <1>1, PartsType DEF Key, PlaceMarket
  <2>. QED
    BY <1>1, <2>1, MarketAppendStep DEF PlaceMarket
<1>2. ASSUME NEW s \in Symbol, NEW d \in Side, NEW q \in Qty, NEW price \in Price,
             PlaceLimit(s, d, q, price)
      PROVE  BookStep
  <2>. DEFINE o == LimitOrder(<<"user", issued + 1>>, s, d, q, price)
  <2>1. q \in Nat /\ price \in Nat /\ <<"user", issued + 1>> \in Id
    BY <1>2, PartsType, PaperAssumption DEF PlaceLimit
  <2>2. o \in Order /\ o.id = <<"user", issued + 1>>
    BY <2>1 DEF LimitOrder, Order
  <2>3. AppendStep(o)
    BY <1>2, <2>2 DEF PlaceLimit, AppendStep
  <2>. QED
    BY <2>2, <2>3 DEF BookStep
<1>3. ASSUME NEW i \in DOMAIN book, NEW price \in Price, ModifyOrder(i, price)
      PROVE  BookStep
  <2>. DEFINE o == [book[i] EXCEPT !.price = price]
  <2>1. book[i] \in Order /\ price \in Nat
    BY <1>0, PaperAssumption
  <2>2. o \in Order /\ o.status = "PENDING"
    BY <1>3, <2>1 DEF ModifyOrder, Order
  <2>3. UpdateStep(i, o)
    BY <1>3, <2>1, <2>2 DEF ModifyOrder, UpdateStep, Order
  <2>. QED
    BY <2>2, <2>3 DEF BookStep
<1>4. ASSUME NEW i \in DOMAIN book, CancelOrder(i)
      PROVE  BookStep
  <2>. DEFINE o == [book[i] EXCEPT !.status = "CANCELLED"]
  <2>1. book[i] \in Order /\ book[i].status = "PENDING"
    BY <1>0, <1>4 DEF CancelOrder, Order
  <2>2. o \in Order /\ o.status = "CANCELLED"
    BY <2>1 DEF Order
  <2>3. UpdateStep(i, o)
    BY <1>4, <2>1, <2>2 DEF CancelOrder, UpdateStep, Order
  <2>. QED
    BY <2>2, <2>3 DEF BookStep
<1>5. ASSUME NEW k \in Key, NEW b \in Bracket, UpdatePositionMetadata(k, b)
      PROVE  BookStep
  BY <1>5 DEF UpdatePositionMetadata, BookStep
<1>6. ASSUME NEW k \in Key, NEW q \in Qty, ExitPosition(k, q)
      PROVE  BookStep
  <2>1. Opposite(pos[k]) \in Side /\ q \in Nat /\ <<"user", issued + 1>> \in Id
    BY <1>6, PartsType DEF ExitPosition
  <2>. QED
    BY <1>6, <2>1, MarketAppendStep DEF ExitPosition
<1>7. CASE ClearPositions
  BY <1>7 DEF ClearPositions, BookStep
<1>8. ASSUME NEW s \in Symbol, NEW price \in Price, NEW ts \in 1 .. MaxTime,
             TickArrives(s, price, ts)
      PROVE  BookStep
  BY <1>8 DEF TickArrives, BookStep
<1>9. CASE FillLimit
  <2>1. PICK i \in Crossing :
          LET o == [book[i] EXCEPT !.status = "COMPLETE", !.filled = book[i].qty] IN
          /\ book' = [book EXCEPT ![i] = o]
          /\ PersistOrder(o)
    BY <1>9 DEF FillLimit
  <2>. DEFINE o == [book[i] EXCEPT !.status = "COMPLETE", !.filled = book[i].qty]
  <2>2. /\ i \in DOMAIN book /\ book[i] \in Order /\ book[i].status = "PENDING"
        /\ Locked /\ Crosses(book[i], scan.sym, last[scan.sym])
    BY <1>0, <1>9 DEF Crossing, Crosses, FillLimit
  <2>3. o \in Order /\ o.filled = o.qty
    BY <2>2 DEF Order
  <2>4. UpdateStep(i, o)
    BY <1>9, <2>1, <2>2, <2>3 DEF FillLimit, UpdateStep, Order
  <2>. QED
    BY <2>2, <2>3, <2>4 DEF BookStep
<1>10. ASSUME NEW k \in Key, Locked, ScanPosition(k), issued' = issued
       PROVE  BookStep
  <2>1. CASE InternalMarketExit(k)
    <3>1. Opposite(pos[k]) \in Side /\ Abs(pos[k].net) \in Nat /\ <<"auto", now>> \in Id
      BY <1>10, PartsType
    <3>2. ~UserId(<<"auto", now>>)
      BY DEF UserId
    <3>. QED
      BY <1>10, <2>1, <3>1, <3>2, MarketAppendStep DEF InternalMarketExit
  <2>2. CASE UNCHANGED <<book, ledger>>
    BY <1>10, <2>2 DEF BookStep
  <2>. QED
    BY <1>10, <2>1, <2>2 DEF ScanPosition
<1>11. CASE ScanMIS \/ ScanCNC
  <2>1. <<scan.sym, "MIS">> \in Key /\ <<scan.sym, "CNC">> \in Key
    BY <1>11, PartsType DEF ScanMIS, ScanCNC, Key, Product
  <2>. QED
    BY <1>10, <1>11, <2>1 DEF ScanMIS, ScanCNC
<1>12. CASE UNCHANGED vars
  BY <1>12 DEF vars, BookStep
<1>. QED
  BY <1>1, <1>2, <1>3, <1>4, <1>5, <1>6, <1>7, <1>8, <1>9, <1>11, <1>12
  DEF Next, OnPriceUpdateStep

(* An order in a final status never changes again, and a limit order completes only
   when the tick being processed reaches its price, for its whole quantity. *)
THEOREM OrdersFinal == Spec => OrderLifecycle
<1>1. TypeInv /\ BookStep => OrderStep
  <2>. SUFFICES ASSUME TypeInv, BookStep
                PROVE  OrderStep
    OBVIOUS
  <2>1. book \in Seq(Order)
    BY DEF TypeInv, TypeOK
  <2>2. CASE UNCHANGED <<book, ledger, issued>>
    BY <2>1, <2>2 DEF OrderStep
  <2>3. ASSUME NEW o \in Order, AppendStep(o)
        PROVE  OrderStep
    <3>1. /\ Len(book') >= Len(book)
          /\ \A i \in DOMAIN book : book'[i] = book[i]
      BY <2>1, <2>3 DEF AppendStep
    <3>. QED
      BY <3>1 DEF OrderStep
  <2>4. ASSUME NEW i \in DOMAIN book, NEW o \in Order, UpdateStep(i, o)
        PROVE  OrderStep
    <3>1. /\ Len(book') = Len(book)
          /\ book'[i] = o
          /\ \A j \in DOMAIN book : j # i => book'[j] = book[j]
      BY <2>1, <2>4 DEF UpdateStep
    <3>. QED
      BY <2>1, <2>4, <3>1 DEF OrderStep, UpdateStep
  <2>5. CASE book' = <<>>
    BY <2>5 DEF OrderStep
  <2>. QED
    BY <2>2, <2>3, <2>4, <2>5 DEF BookStep
<1>2. TypeInv /\ [Next]_vars => [OrderStep]_vars
  BY <1>1, NextBookStep
<1>. QED
  BY <1>2, TypeInvCorrect, PTL DEF Spec, OrderLifecycle
-----------------------------------------------------------------------------
(* The audit rows of callers' orders stay current. *)
LEMMA AuditCorrect == Spec => []AuditInv
<1>1. Init => AuditInv
  BY DEF Init, AuditInv, IdsIssued, RowsCurrent
<1>2. TypeInv /\ AuditInv /\ BookStep => AuditInv'
  <2>. SUFFICES ASSUME TypeInv, AuditInv, BookStep
                PROVE  AuditInv'
    OBVIOUS
  <2>1. CASE UNCHANGED <<book, ledger, issued>>
    BY <2>1 DEF AuditInv, IdsIssued, RowsCurrent
  <2>2. ASSUME NEW o \in Order, AppendStep(o)
        PROVE  AuditInv'
    BY <2>2, AppendKeepsAudit DEF AppendStep
  <2>3. ASSUME NEW i \in DOMAIN book, NEW o \in Order, UpdateStep(i, o)
        PROVE  AuditInv'
    BY <2>3, UpdateKeepsAudit DEF UpdateStep
  <2>4. CASE book' = <<>> /\ UNCHANGED <<ledger, issued>>
    BY <2>4 DEF AuditInv, IdsIssued, RowsCurrent
  <2>. QED
    BY <2>1, <2>2, <2>3, <2>4 DEF BookStep
<1>. QED
  BY <1>1, <1>2, NextBookStep, TypeInvCorrect, PTL DEF Spec

(* Every action that changes a position writes its snapshot, and a key that is not
   in the map has no exposure. *)
HeldInv == SnapshotsCurrent /\ \A k \in Key : k \notin held => pos[k] = Flat

LEMMA UpdatePositionStateHeld ==
  ASSUME TypeInv, HeldInv, NEW k \in Key, NEW d \in Side, NEW q \in Nat,
         UpdatePositionState(k, d, q)
  PROVE  HeldInv'
BY DEF UpdatePositionState, HeldInv, SnapshotsCurrent, TypeInv, TypeOK

LEMMA NextHeld == TypeInv /\ HeldInv /\ [Next]_vars => HeldInv'
<1>. SUFFICES ASSUME TypeInv, HeldInv, [Next]_vars
              PROVE  HeldInv'
  OBVIOUS
<1>0. UNCHANGED <<pos, held, snap>> => HeldInv'
  BY DEF HeldInv, SnapshotsCurrent
<1>1. ASSUME NEW s \in Symbol, NEW prod \in Product, NEW d \in Side, NEW q \in Qty,
             PlaceMarket(s, prod, d, q)
      PROVE  HeldInv'
  <2>1. <<s, prod>> \in Key /\ q \in Nat
    BY PaperAssumption DEF Key
  <2>. QED
    BY <1>1, <2>1, UpdatePositionStateHeld DEF PlaceMarket
<1>2. ASSUME NEW s \in Symbol, NEW d \in Side, NEW q \in Qty, NEW price \in Price,
             PlaceLimit(s, d, q, price)
      PROVE  HeldInv'
  BY <1>0, <1>2 DEF PlaceLimit
<1>3. ASSUME NEW i \in DOMAIN book, NEW price \in Price, ModifyOrder(i, price)
      PROVE  HeldInv'
  BY <1>0, <1>3 DEF ModifyOrder
<1>4. ASSUME NEW i \in DOMAIN book, CancelOrder(i)
      PROVE  HeldInv'
  BY <1>0, <1>4 DEF CancelOrder
<1>5. ASSUME NEW k \in Key, NEW b \in Bracket, UpdatePositionMetadata(k, b)
      PROVE  HeldInv'
  BY <1>5 DEF UpdatePositionMetadata, HeldInv, SnapshotsCurrent, TypeInv, TypeOK
<1>6. ASSUME NEW k \in Key, NEW q \in Qty, ExitPosition(k, q)
      PROVE  HeldInv'
  <2>1. Opposite(pos[k]) \in Side /\ q \in Nat
    BY PartsType
  <2>. QED
    BY <1>6, <2>1, UpdatePositionStateHeld DEF ExitPosition
<1>7. CASE ClearPositions
  BY <1>7 DEF ClearPositions, HeldInv, SnapshotsCurrent
<1>8. ASSUME NEW s \in Symbol, NEW price \in Price, NEW ts \in 1 .. MaxTime,
             TickArrives(s, price, ts)
      PROVE  HeldInv'
  BY <1>0, <1>8 DEF TickArrives
<1>9. CASE FillLimit
  <2>1. PICK i \in Crossing :
          UpdatePositionState(<<scan.sym, "MIS">>, book[i].side, book[i].qty)
    <3>1. \A i \in Crossing : book[i] \in Order
      BY DEF Crossing, TypeInv, TypeOK
    <3>. QED
      BY <1>9, <3>1 DEF FillLimit, Order
  <2>2. book[i] \in Order
    BY DEF Crossing, TypeInv, TypeOK
  <2>3. book[i].side \in Side /\ book[i].qty \in Nat
    BY <2>2 DEF Order
  <2>4. <<scan.sym, "MIS">> \in Key
    BY <1>9, PartsType DEF FillLimit, Key, Product
  <2>. QED
    BY <2>1, <2>3, <2>4, UpdatePositionStateHeld
<1>10. ASSUME NEW k \in Key, ScanPosition(k)
       PROVE  HeldInv'
  <2>1. Opposite(pos[k]) \in Side /\ Abs(pos[k].net) \in Nat
    BY PartsType
  <2>. QED
    BY <1>0, <1>10, <2>1, UpdatePositionStateHeld DEF ScanPosition, InternalMarketExit
<1>11. CASE ScanMIS \/ ScanCNC
  <2>1. <<scan.sym, "MIS">> \in Key /\ <<scan.sym, "CNC">> \in Key
    BY <1>11, PartsType DEF ScanMIS, ScanCNC, Key, Product
  <2>. QED
    BY <1>10, <1>11, <2>1 DEF ScanMIS, ScanCNC
<1>12. CASE UNCHANGED vars
  BY <1>0, <1>12 DEF vars
<1>. QED
  BY <1>1, <1>2, <1>3, <1>4, <1>5, <1>6, <1>7, <1>8, <1>9, <1>11, <1>12
  DEF Next, OnPriceUpdateStep

LEMMA HeldCorrect == Spec => []HeldInv
<1>1. Init => HeldInv
  BY DEF Init, HeldInv, SnapshotsCurrent
<1>. QED
  BY <1>1, NextHeld, TypeInvCorrect, PTL DEF Spec

(* What is persisted of the open positions and of the orders of callers is what is
   in memory, after every method and between the iterations of OnPriceUpdate. *)
THEOREM PersistedCorrect == Spec => []PersistedStateCurrent
<1>1. AuditInv /\ HeldInv => PersistedStateCurrent
  BY DEF AuditInv, RowsCurrent, HeldInv, SnapshotsCurrent, PersistedStateCurrent, UserId
<1>. QED
  BY <1>1, AuditCorrect, HeldCorrect, PTL
-----------------------------------------------------------------------------
(* The exit of the watchdog flattens: the opposite side for the whole quantity. *)
LEMMA ExitFlattens ==
  ASSUME NEW p \in Position, p.side = SideOf(p.net), p.net # 0
  PROVE  /\ AfterFill(p, Opposite(p), Abs(p.net)) = Flat
         /\ Opposite(p) = IF p.net > 0 THEN "SELL" ELSE "BUY"
<1>1. p.net \in Int
  BY DEF Position
<1>. DEFINE r == AfterFill(p, Opposite(p), Abs(p.net))
<1>0. Flat = [net |-> 0, side |-> SideOf(0), tp |-> 0, sl |-> 0]
  <2>1. SideOf(0) = ""
    BY FlatFields DEF Flat
  <2>. QED
    BY <2>1 DEF Flat
<1>2. CASE p.net > 0
  <2>1. ~(p.net < 0) /\ ~(p.net <= 0) /\ p.net >= 0
    BY <1>1, <1>2
  <2>2. p.side = "LONG"
    BY <1>2 DEF SideOf
  <2>3. Opposite(p) = "SELL" /\ Abs(p.net) = p.net
    BY <2>1, <2>2 DEF Opposite, Abs
  <2>4. p.net + Signed("SELL", p.net) = 0
    BY <1>1 DEF Signed
  <2>5. r = [net |-> 0, side |-> SideOf(0), tp |-> 0, sl |-> 0]
    BY <2>3, <2>4 DEF AfterFill
  <2>. QED
    BY <1>0, <1>2, <2>3, <2>5
<1>3. CASE p.net < 0
  <2>1. ~(p.net > 0)
    BY <1>1, <1>3
  <2>2. p.side = "SHORT"
    BY <1>3, <2>1 DEF SideOf
  <2>3. Opposite(p) = "BUY" /\ Abs(p.net) = -p.net
    BY <1>3, <2>2 DEF Opposite, Abs
  <2>4. p.net + Signed("BUY", -p.net) = 0
    BY <1>1 DEF Signed
  <2>5. r = [net |-> 0, side |-> SideOf(0), tp |-> 0, sl |-> 0]
    BY <2>3, <2>4 DEF AfterFill
  <2>. QED
    BY <1>0, <2>1, <2>3, <2>5
<1>. QED
  BY <1>1, <1>2, <1>3

(* One iteration of the product loop: nothing, or the exact liquidation. *)
LEMMA ScanPositionExact ==
  ASSUME TypeInv, ThresholdsNeedExposure, Locked, NEW k \in Key, ScanPosition(k)
  PROVE  \/ UNCHANGED <<pos, book>> /\ (k \in held => ~Breached(pos[k], last[k[1]]))
         \/ /\ Breached(pos[k], last[k[1]])
            /\ pos' = [pos EXCEPT ![k] = Flat]
            /\ \E o \in Order :
                 /\ book' = Append(book, o)
                 /\ o.type = "MARKET"
                 /\ o.qty = Abs(pos[k].net)
                 /\ o.side = (IF pos[k].net > 0 THEN "SELL" ELSE "BUY")
<1>1. CASE k \in held /\ Breached(pos[k], last[k[1]])
  <2>. DEFINE o == MarketOrder(<<"auto", now>>, k[1], Opposite(pos[k]), Abs(pos[k].net), last[k[1]])
  <2>1. pos[k] \in Position /\ pos[k].net # 0 /\ pos[k].side = SideOf(pos[k].net)
    BY <1>1 DEF TypeInv, TypeOK, Breached, ThresholdsNeedExposure
  <2>2. InternalMarketExit(k)
    BY <1>1 DEF ScanPosition
  <2>3. pos' = [pos EXCEPT ![k] = Flat]
    BY <2>1, <2>2, ExitFlattens DEF InternalMarketExit, UpdatePositionState
  <2>4. book' = Append(book, o)
    BY <2>2 DEF InternalMarketExit
  <2>5. /\ o.type = "MARKET" /\ o.qty = Abs(pos[k].net)
        /\ o.side = (IF pos[k].net > 0 THEN "SELL" ELSE "BUY")
    BY <2>1, ExitFlattens DEF MarketOrder
  <2>6. o \in Order
    BY PartsType, MarketOrderType
  <2>. QED
    BY <1>1, <2>3, <2>4, <2>5, <2>6
<1>2. CASE ~(k \in held /\ Breached(pos[k], last[k[1]]))
  BY <1>2 DEF ScanPosition
<1>. QED
  BY <1>1, <1>2

(* Rule 5.3: the watchdog liquidates exactly the quantity that the position has, only
   beyond a threshold, and touches no order of the book. *)
THEOREM LiquidationsExact == Spec => LiquidationExact
<1>1. TypeInv /\ ThresholdsNeedExposure /\ [Next]_vars => LiquidationStep
  <2>. SUFFICES ASSUME TypeInv, ThresholdsNeedExposure, [Next]_vars
                PROVE  LiquidationStep
    OBVIOUS
  <2>1. book \in Seq(Order)
    BY DEF TypeInv, TypeOK
  <2>2. DOMAIN book' = DOMAIN book => LiquidationStep
    BY DEF LiquidationStep
  <2>3. book' = <<>> => LiquidationStep
    BY DEF LiquidationStep
  <2>4. ASSUME NEW o, book' = Append(book, o), ~(o.id[1] = "auto")
        PROVE  LiquidationStep
    <3>1. \A n \in DOMAIN book' : n \notin DOMAIN book => book'[n] = o
      BY <2>1, <2>4
    <3>. QED
      BY <2>4, <3>1 DEF LiquidationStep
  <2>5. ASSUME NEW k \in Key, Locked, ScanPosition(k)
        PROVE  LiquidationStep
    <3>1. CASE UNCHANGED <<pos, book>>
      BY <2>2, <3>1
    <3>2. CASE /\ Breached(pos[k], last[k[1]])
               /\ pos' = [pos EXCEPT ![k] = Flat]
               /\ \E o \in Order :
                    /\ book' = Append(book, o)
                    /\ o.type = "MARKET"
                    /\ o.qty = Abs(pos[k].net)
                    /\ o.side = (IF pos[k].net > 0 THEN "SELL" ELSE "BUY")
      <4>1. PICK o \in Order :
              /\ book' = Append(book, o)
              /\ o.qty = Abs(pos[k].net)
              /\ o.side = (IF pos[k].net > 0 THEN "SELL" ELSE "BUY")
        BY <3>2
      <4>2. /\ \A i \in DOMAIN book : book'[i] = book[i]
            /\ \A n \in DOMAIN book' : n \notin DOMAIN book => book'[n] = o
        BY <2>1, <4>1
      <4>. QED
        BY <3>2, <4>1, <4>2 DEF LiquidationStep
    <3>. QED
      BY <2>5, <3>1, <3>2, ScanPositionExact
  <2>6. ASSUME NEW s \in Symbol, NEW prod \in Product, NEW d \in Side, NEW q \in Qty,
               PlaceMarket(s, prod, d, q)
        PROVE  LiquidationStep
    BY <2>4, <2>6 DEF PlaceMarket, MarketOrder
  <2>7. ASSUME NEW s \in Symbol, NEW d \in Side, NEW q \in Qty, NEW price \in Price,
               PlaceLimit(s, d, q, price)
        PROVE  LiquidationStep
    BY <2>4, <2>7 DEF PlaceLimit, LimitOrder
  <2>8. ASSUME NEW k \in Key, NEW q \in Qty, ExitPosition(k, q)
        PROVE  LiquidationStep
    BY <2>4, <2>8 DEF ExitPosition, MarketOrder
  <2>9. ASSUME NEW i \in DOMAIN book, NEW o, book' = [book EXCEPT ![i] = o]
        PROVE  LiquidationStep
    BY <2>1, <2>2, <2>9
  <2>10. CASE UNCHANGED book
    BY <2>2, <2>10
  <2>11. CASE FillLimit
    <3>1. PICK i \in DOMAIN book :
            book' = [book EXCEPT ![i] =
                       [book[i] EXCEPT !.status = "COMPLETE", !.filled = book[i].qty]]
      BY <2>11 DEF FillLimit, Crossing
    <3>. QED
      BY <2>9, <3>1
  <2>12. CASE ScanMIS \/ ScanCNC
    <3>1. <<scan.sym, "MIS">> \in Key /\ <<scan.sym, "CNC">> \in Key
      BY <2>12, PartsType DEF ScanMIS, ScanCNC, Key, Product
    <3>. QED
      BY <2>5, <2>12, <3>1 DEF ScanMIS, ScanCNC
  <2>. QED
    BY <2>3, <2>6, <2>7, <2>8, <2>9, <2>10, <2>11, <2>12
    DEF Next, OnPriceUpdateStep, vars, ModifyOrder, CancelOrder, UpdatePositionMetadata,
        ClearPositions, TickArrives
<1>2. TypeInv /\ ThresholdsNeedExposure /\ [Next]_vars => [LiquidationStep]_vars
  BY <1>1
<1>. QED
  BY <1>2, TypeInvCorrect, ThresholdsSafe, PTL DEF Spec, LiquidationExact
-----------------------------------------------------------------------------
(* Between the two product iterations the first product is already settled and no
   order that the tick crosses is pending: nothing in between can undo that,
   because the tick holds mu. *)
HalfSettled ==
  Locked /\ scan.phase = "CNC" =>
    /\ Crossing = {}
    /\ ~Breached(pos[<<scan.sym, "MIS">>], last[scan.sym])

(* After its iteration a position is not beyond a threshold, the other positions are
   as they were and no crossing order has appeared. *)
LEMMA ScanPositionSettles ==
  ASSUME TypeInv, ThresholdsNeedExposure, HeldInv, Locked,
         NEW k \in Key, k[1] = scan.sym, Crossing = {}, ScanPosition(k)
  PROVE  /\ ~Breached(pos'[k], last[scan.sym])
         /\ \A j \in Key : j # k => pos'[j] = pos[j]
         /\ \A i \in DOMAIN book' : ~Crosses(book'[i], scan.sym, last[scan.sym])
<1>1. /\ pos \in [Key -> Position]
      /\ book \in Seq(Order)
      /\ \A i \in DOMAIN book : ~Crosses(book[i], scan.sym, last[scan.sym])
  BY DEF TypeInv, TypeOK, Crossing
<1>2. CASE UNCHANGED <<pos, book>> /\ (k \in held => ~Breached(pos[k], last[k[1]]))
  <2>1. k \notin held => ~Breached(pos[k], last[k[1]])
    BY FlatFields DEF HeldInv, Breached
  <2>. QED
    BY <1>1, <1>2, <2>1
<1>3. ASSUME pos' = [pos EXCEPT ![k] = Flat],
             NEW o \in Order, book' = Append(book, o), o.type = "MARKET"
      PROVE  /\ ~Breached(pos'[k], last[scan.sym])
             /\ \A j \in Key : j # k => pos'[j] = pos[j]
             /\ \A i \in DOMAIN book' : ~Crosses(book'[i], scan.sym, last[scan.sym])
  <2>1. ~Breached(pos'[k], last[scan.sym])
    BY <1>1, <1>3, FlatFields DEF Breached
  <2>2. ~Crosses(o, scan.sym, last[scan.sym])
    BY <1>3 DEF Crosses
  <2>3. \A i \in DOMAIN book' : book'[i] = o \/ (i \in DOMAIN book /\ book'[i] = book[i])
    BY <1>1, <1>3
  <2>. QED
    BY <1>1, <1>3, <2>1, <2>2, <2>3
<1>. QED
  BY <1>2, <1>3, ScanPositionExact

LEMMA NextHalfSettled ==
  TypeInv /\ ThresholdsNeedExposure /\ HeldInv /\ HalfSettled /\ [Next]_vars => HalfSettled'
<1>. SUFFICES ASSUME TypeInv, ThresholdsNeedExposure, HeldInv, HalfSettled, [Next]_vars
              PROVE  HalfSettled'
  OBVIOUS
<1>1. ~Locked' => HalfSettled'
  BY DEF HalfSettled
<1>2. ~Locked /\ scan' = scan => HalfSettled'
  BY <1>1 DEF Locked
<1>3. ASSUME NEW s \in Symbol, NEW price \in Price, NEW ts \in 1 .. MaxTime,
             TickArrives(s, price, ts)
      PROVE  HalfSettled'
  BY <1>3 DEF TickArrives, HalfSettled
<1>4. CASE FillLimit
  BY <1>4 DEF FillLimit, HalfSettled
<1>5. CASE ScanMIS
  <2>. DEFINE k == <<scan.sym, "MIS">>
  <2>1. k \in Key /\ k[1] = scan.sym /\ Locked /\ Crossing = {} /\ ScanPosition(k)
    BY <1>5, PartsType DEF ScanMIS, Key, Product
  <2>2. /\ ~Breached(pos'[k], last[scan.sym])
        /\ \A i \in DOMAIN book' : ~Crosses(book'[i], scan.sym, last[scan.sym])
    BY <2>1, ScanPositionSettles
  <2>3. scan'.sym = scan.sym /\ last' = last
    BY <1>5 DEF ScanMIS, Locked, TypeInv, TypeOK
  <2>. QED
    BY <2>2, <2>3 DEF HalfSettled, Crossing
<1>6. CASE ScanCNC
  BY <1>1, <1>6 DEF ScanCNC, Locked
<1>7. CASE UNCHANGED vars
  BY <1>7 DEF vars, HalfSettled, Locked, Crossing
<1>. QED
  BY <1>2, <1>3, <1>4, <1>5, <1>6, <1>7
  DEF Next, OnPriceUpdateStep, PlaceMarket, PlaceLimit, ModifyOrder, CancelOrder,
      UpdatePositionMetadata, ExitPosition, ClearPositions

LEMMA HalfSettledCorrect == Spec => []HalfSettled
<1>1. Init => HalfSettled
  BY DEF Init, HalfSettled, Locked
<1>. QED
  BY <1>1, NextHalfSettled, TypeInvCorrect, ThresholdsSafe, HeldCorrect, PTL DEF Spec

(* A tick is settled when it ends: no position of its symbol stays open beyond a
   threshold and no limit order it crosses stays pending. *)
THEOREM TicksSettle == Spec => TickSettles
<1>1. TypeInv /\ ThresholdsNeedExposure /\ HeldInv /\ HalfSettled /\ [Next]_vars => TickStep
  <2>. SUFFICES ASSUME TypeInv, ThresholdsNeedExposure, HeldInv, HalfSettled,
                       [Next]_vars, Locked, ~Locked'
                PROVE  /\ \A prod \in Product : ~Breached(pos'[<<scan.sym, prod>>], last[scan.sym])
                       /\ \A i \in DOMAIN book' : ~Crosses(book'[i], scan.sym, last[scan.sym])
    BY DEF TickStep
  <2>1. ScanCNC
    <3>1. scan' # scan
      BY DEF Locked
    <3>2. ~(scan'.phase = "CNC" /\ scan' \in [phase: {"orders", "CNC"}, sym: Symbol])
      BY DEF Locked, Idle
    <3>3. ~ScanMIS
      BY <3>2, PartsType DEF ScanMIS, Locked, TypeInv, TypeOK
    <3>. QED
      BY <3>1, <3>3
      DEF Next, OnPriceUpdateStep, vars, PlaceMarket, PlaceLimit, ModifyOrder, CancelOrder,
          UpdatePositionMetadata, ExitPosition, ClearPositions, TickArrives, FillLimit
  <2>. DEFINE k == <<scan.sym, "CNC">>
              m == <<scan.sym, "MIS">>
  <2>2. /\ k \in Key /\ m \in Key /\ k # m /\ k[1] = scan.sym
        /\ Crossing = {} /\ ScanPosition(k)
        /\ ~Breached(pos[m], last[scan.sym])
    BY <2>1, PartsType DEF ScanCNC, Key, Product, HalfSettled
  <2>3. /\ ~Breached(pos'[k], last[scan.sym])
        /\ \A j \in Key : j # k => pos'[j] = pos[j]
        /\ \A i \in DOMAIN book' : ~Crosses(book'[i], scan.sym, last[scan.sym])
    BY <2>2, ScanPositionSettles
  <2>. QED
    BY <2>2, <2>3 DEF Product
<1>2. TypeInv /\ ThresholdsNeedExposure /\ HeldInv /\ HalfSettled /\ [Next]_vars
        => [TickStep]_vars
  BY <1>1
<1>. QED
  BY <1>2, TypeInvCorrect, ThresholdsSafe, HeldCorrect, HalfSettledCorrect, PTL
  DEF Spec, TickSettles
-----------------------------------------------------------------------------
(* Every set of natural numbers that is not empty has a least member. *)
LEMMA LeastNatural ==
  ASSUME NEW T \in SUBSET Nat, T # {}
  PROVE  \E n \in T : \A m \in T : n <= m
<1> DEFINE R == {p \in Nat \X Nat : p[1] < p[2]}
<1>1. IsWellFoundedOn(R, Nat) BY NatLessThanWellFounded DEF OpToRel
<1>2. PICK n \in T : \A m \in T : <<m, n>> \notin R BY <1>1, WFMin
<1>3. \A m \in T : ~(m < n) BY <1>2
<1>. QED BY <1>3

(* A set of finite sets that is not empty has a member of the least number of elements. *)
LEMMA Smallest ==
  ASSUME NEW S, IsFiniteSet(S), NEW F \in SUBSET (SUBSET S), F # {}
  PROVE  \E s \in F : \A r \in F : Cardinality(s) <= Cardinality(r)
<1>. DEFINE T == {Cardinality(s) : s \in F}
<1>1. \A s \in F : Cardinality(s) \in Nat BY FS_Subset, FS_CardinalityType
<1>2. T \in SUBSET Nat /\ T # {} BY <1>1
<1>. HIDE DEF T
<1>3. PICK n \in T : \A m \in T : n <= m BY <1>2, LeastNatural
<1>4. PICK s \in F : n = Cardinality(s) BY <1>3 DEF T
<1>. QED BY <1>3, <1>4 DEF T

LEMMA Smaller ==
  ASSUME NEW S, IsFiniteSet(S), NEW s \in SUBSET S, NEW x \in s
  PROVE  s \ {x} \in SUBSET S /\ ~(Cardinality(s) <= Cardinality(s \ {x}))
<1>1. IsFiniteSet(s) BY FS_Subset
<1>2. Cardinality(s) \in Nat /\ Cardinality(s \ {x}) = Cardinality(s) - 1
  BY <1>1, FS_CardinalityType, FS_RemoveElement
<1>. QED BY <1>2
-----------------------------------------------------------------------------
(* The signed quantity that order i of a book has filled, and the sums of these quantities
   over the subsets of S, taking the orders as the folds of the community modules do. *)
Filled(b, i) == Signed(b[i].side, b[i].filled)
Pick(s) == CHOOSE x \in s : TRUE
AddsUp(it, b, S) == it = [s \in SUBSET S |-> IF s = {} THEN 0 ELSE Filled(b, Pick(s)) + it[s \ {Pick(s)}]]

LEMMA Picked == ASSUME NEW s, s # {} PROVE Pick(s) \in s
BY DEF Pick

(* The sum exists. *)
LEMMA SumExists ==
  ASSUME NEW S, IsFiniteSet(S), NEW b
  PROVE  \E it : AddsUp(it, b, S)
<1>. DEFINE Small(n) == {s \in SUBSET S : Cardinality(s) <= n}
            Body(it, s) == IF s = {} THEN 0 ELSE Filled(b, Pick(s)) + it[s \ {Pick(s)}]
            Is(it, n) == it = [s \in Small(n) |-> Body(it, s)]
            T == {n \in Nat : ~ \E it : Is(it, n)}
<1>1. \A s \in SUBSET S : Cardinality(s) \in Nat BY FS_Subset, FS_CardinalityType
<1>2. \A n \in Nat : \E it : Is(it, n)
  <2>. SUFFICES ASSUME T # {} PROVE FALSE OBVIOUS
  <2>1. T \in SUBSET Nat OBVIOUS
  <2>. HIDE DEF T
  <2>2. PICK n \in T : \A m \in T : n <= m BY <2>1, LeastNatural
  <2>3. n \in Nat /\ ~ \E it : Is(it, n) BY <2>2 DEF T
  <2>4. PICK g : \A s \in Small(n) : s # {} => \E m \in Nat : n = m + 1 /\ g = [r \in Small(m) |-> Body(g, r)]
    <3>1. CASE n = 0
      <4>1. \A s \in Small(n) : s = {}
        <5>1. \A s \in SUBSET S : IsFiniteSet(s) BY FS_Subset
        <5>. QED BY <1>1, <3>1, <5>1, FS_EmptySet
      <4>. QED BY <4>1
    <3>2. CASE n # 0
      <4>1. n - 1 \in Nat /\ ~(n <= n - 1) /\ n = (n - 1) + 1 BY <2>3, <3>2
      <4>2. n - 1 \notin T BY <2>2, <4>1
      <4>3. PICK g : Is(g, n - 1) BY <4>1, <4>2 DEF T
      <4>. QED BY <4>1, <4>3
    <3>. QED BY <3>1, <3>2
  <2>. DEFINE h == [s \in Small(n) |-> Body(g, s)]
  <2>5. ASSUME NEW s \in Small(n) PROVE h[s] = Body(h, s)
    <3>1. CASE s = {} BY <3>1
    <3>2. CASE s # {}
      <4>1. PICK m \in Nat : n = m + 1 /\ g = [r \in Small(m) |-> Body(g, r)] BY <2>4, <3>2
      <4>. DEFINE r == s \ {Pick(s)}
      <4>2. Pick(s) \in s BY <3>2, Picked
      <4>3. r \in SUBSET S /\ ~(Cardinality(s) <= Cardinality(r)) BY <4>2, Smaller
      <4>. HIDE DEF r
      <4>4. r \in Small(m) /\ r \in Small(n) BY <1>1, <4>1, <4>3
      <4>5. g[r] = Body(g, r) BY <4>1, <4>4
      <4>6. h[r] = Body(g, r) BY <4>4
      <4>. QED BY <3>2, <4>5, <4>6 DEF r
    <3>. QED BY <3>1, <3>2
  <2>6. h = [s \in Small(n) |-> h[s]] OBVIOUS
  <2>. HIDE DEF h
  <2>7. Is(h, n) BY <2>5, <2>6
  <2>. QED BY <2>3, <2>7
<1>3. PICK it : Is(it, Cardinality(S)) BY <1>1, <1>2
<1>4. Small(Cardinality(S)) = SUBSET S BY FS_Subset
<1>. QED BY <1>3, <1>4 DEF AddsUp

(* The sum does not depend on the order of its elements. *)
LEMMA SumAny ==
  ASSUME NEW S, IsFiniteSet(S), NEW b, NEW it, AddsUp(it, b, S), \A x \in S : Filled(b, x) \in Int
  PROVE  \A s \in SUBSET S : it[s] \in Int /\ \A y \in s : it[s] = Filled(b, y) + it[s \ {y}]
<1>. DEFINE Good(s) == it[s] \in Int /\ \A y \in s : it[s] = Filled(b, y) + it[s \ {y}]
            F == {s \in SUBSET S : ~Good(s)}
<1>. SUFFICES ASSUME F # {} PROVE FALSE OBVIOUS
<1>1. PICK s \in F : \A r \in F : Cardinality(s) <= Cardinality(r)
  <2>. HIDE DEF Good
  <2>1. F \in SUBSET (SUBSET S) OBVIOUS
  <2>. HIDE DEF F
  <2>. QED BY <2>1, Smallest
<1>2. s \in SUBSET S /\ ~Good(s) OBVIOUS
<1>3. \A r \in SUBSET S : it[r] = IF r = {} THEN 0 ELSE Filled(b, Pick(r)) + it[r \ {Pick(r)}] BY DEF AddsUp
<1>4. ASSUME NEW y \in s PROVE s \ {y} \in SUBSET S /\ Good(s \ {y})
  <2>1. s \ {y} \in SUBSET S /\ ~(Cardinality(s) <= Cardinality(s \ {y})) BY Smaller
  <2>2. s \ {y} \notin F
    <3>. HIDE DEF F, Good
    <3>. QED BY <1>1, <2>1
  <2>. QED BY <2>1, <2>2
<1>5. CASE s = {}
  <2>1. it[s] = 0 BY <1>2, <1>3, <1>5
  <2>. QED BY <1>2, <1>5, <2>1
<1>6. CASE s # {}
  <2>. DEFINE x == Pick(s)
  <2>1. x \in s BY <1>6, Picked
  <2>2. it[s] = Filled(b, x) + it[s \ {x}] BY <1>2, <1>3, <1>6
  <2>. HIDE DEF x
  <2>3. Filled(b, x) \in Int /\ it[s \ {x}] \in Int BY <1>2, <1>4, <2>1
  <2>4. ASSUME NEW y \in s, y # x PROVE it[s] = Filled(b, y) + it[s \ {y}]
    <3>. DEFINE q == (s \ {y}) \ {x}
    <3>1. x \in s \ {y} /\ y \in s \ {x} /\ (s \ {x}) \ {y} = q /\ q \in SUBSET S
      BY <1>2, <2>1, <2>4
    <3>2. Good(s \ {x}) /\ Good(s \ {y}) BY <1>4, <2>1
    <3>. HIDE DEF q
    <3>3. it[s \ {x}] = Filled(b, y) + it[q] /\ it[s \ {y}] = Filled(b, x) + it[q] BY <3>1, <3>2 DEF q
    <3>4. Good(q)
      <4>. HIDE DEF F, Good
      <4>1. s \ {y} \in SUBSET S /\ ~(Cardinality(s) <= Cardinality(s \ {y})) BY <1>2, Smaller
      <4>2. ~(Cardinality(s \ {y}) <= Cardinality(q)) BY <3>1, <4>1, Smaller DEF q
      <4>3. Cardinality(s) \in Nat /\ Cardinality(s \ {y}) \in Nat /\ Cardinality(q) \in Nat
        BY <1>2, <3>1, <4>1, FS_Subset, FS_CardinalityType
      <4>4. ~(Cardinality(s) <= Cardinality(q)) BY <4>1, <4>2, <4>3
      <4>5. q \notin F BY <1>1, <4>4
      <4>. QED BY <3>1, <4>5 DEF F
    <3>5. it[q] \in Int /\ Filled(b, y) \in Int BY <1>2, <3>4
    <3>. QED BY <2>2, <2>3, <3>3, <3>5
  <2>5. it[s] \in Int BY <2>2, <2>3
  <2>. QED BY <1>2, <2>2, <2>4, <2>5
<1>. QED BY <1>5, <1>6

(* Equal values have equal sums. *)
LEMMA SumSame ==
  ASSUME NEW S, IsFiniteSet(S), NEW b, NEW it, AddsUp(it, b, S), \A x \in S : Filled(b, x) \in Int,
         NEW S2, IsFiniteSet(S2), NEW c, NEW jt, AddsUp(jt, c, S2), \A x \in S2 : Filled(c, x) \in Int
  PROVE  \A s \in SUBSET (S \cap S2) : (\A x \in s : Filled(b, x) = Filled(c, x)) => it[s] = jt[s]
<1>. DEFINE Same(s) == (\A x \in s : Filled(b, x) = Filled(c, x)) => it[s] = jt[s]
            F == {s \in SUBSET (S \cap S2) : ~Same(s)}
<1>. SUFFICES ASSUME F # {} PROVE FALSE OBVIOUS
<1>1. IsFiniteSet(S \cap S2) BY FS_Subset
<1>2. PICK s \in F : \A r \in F : Cardinality(s) <= Cardinality(r)
  <2>. HIDE DEF Same
  <2>1. F \in SUBSET (SUBSET (S \cap S2)) OBVIOUS
  <2>. HIDE DEF F
  <2>. QED BY <1>1, <2>1, Smallest
<1>3. s \in SUBSET (S \cap S2) /\ s \in SUBSET S /\ s \in SUBSET S2 /\ ~Same(s) OBVIOUS
<1>4. CASE s = {} BY <1>3, <1>4 DEF AddsUp
<1>5. CASE s # {}
  <2>1. PICK y \in s : TRUE BY <1>5
  <2>2. s \ {y} \in SUBSET (S \cap S2) /\ ~(Cardinality(s) <= Cardinality(s \ {y})) BY <1>1, <1>3, Smaller
  <2>3. s \ {y} \notin F
    <3>. HIDE DEF F, Same
    <3>. QED BY <1>2, <2>2
  <2>4. Same(s \ {y}) BY <2>2, <2>3
  <2>5. it[s] = Filled(b, y) + it[s \ {y}] BY <1>3, SumAny
  <2>6. jt[s] = Filled(c, y) + jt[s \ {y}] BY <1>3, SumAny
  <2>. QED BY <1>3, <2>4, <2>5, <2>6
<1>. QED BY <1>4, <1>5

(* What the sums of the community modules are. *)
-----------------------------------------------------------------------------
(* What the orders of a symbol have filled, and the sum of FillsAccounted. *)
Of(b, s) == {i \in DOMAIN b : b[i].sym = s}
Total(b, s) == MapThenSumSet(LAMBDA i : Signed(b[i].side, b[i].filled), Of(b, s))

LEMMA TotalIs ==
  ASSUME NEW b \in Seq(Order), NEW s
  PROVE  /\ IsFiniteSet(Of(b, s))
         /\ \E it : AddsUp(it, b, Of(b, s)) /\ Total(b, s) = it[Of(b, s)]
<1>. DEFINE it == CHOOSE g : AddsUp(g, b, Of(b, s))
<1>1. IsFiniteSet(DOMAIN b)
  <2>1. IsFiniteSet(1 .. Len(b)) BY FS_Interval
  <2>. QED BY <2>1
<1>2. IsFiniteSet(Of(b, s)) BY <1>1, FS_Subset DEF Of
<1>3. AddsUp(it, b, Of(b, s)) BY <1>2, SumExists
<1>4. Total(b, s) = it[Of(b, s)]
  BY DEF AddsUp, Pick, Filled, Total, MapThenSumSet, MapThenFoldSet
<1>. QED BY <1>2, <1>3, <1>4

(* What an order of the book has filled is an integer. *)
LEMMA FilledIs ==
  ASSUME NEW b \in Seq(Order), NEW i \in DOMAIN b
  PROVE  Filled(b, i) \in Int
<1>1. b[i] \in Order OBVIOUS
<1>2. b[i].filled \in Nat BY <1>1 DEF Order
<1>. QED BY <1>2 DEF Filled, Signed

(* One order more, or one that changes: the total differs by what it fills. *)
LEMMA TotalWith ==
  ASSUME NEW b \in Seq(Order), NEW r \in Seq(Order), NEW s, NEW i \in Of(b, s),
         Of(r, s) \ {i} = Of(b, s) \ {i}, \A j \in Of(b, s) \ {i} : r[j] = b[j]
  PROVE  /\ Total(b, s) \in Int /\ Total(r, s) \in Int
         /\ i \in Of(r, s) => Total(b, s) - Filled(b, i) = Total(r, s) - Filled(r, i)
         /\ i \notin Of(r, s) => Total(b, s) - Filled(b, i) = Total(r, s)
<1>. DEFINE R == Of(b, s) \ {i}
<1>1. PICK it : IsFiniteSet(Of(b, s)) /\ AddsUp(it, b, Of(b, s)) /\ Total(b, s) = it[Of(b, s)] BY TotalIs
<1>2. PICK jt : IsFiniteSet(Of(r, s)) /\ AddsUp(jt, r, Of(r, s)) /\ Total(r, s) = jt[Of(r, s)] BY TotalIs
<1>3. \A j \in Of(b, s) : Filled(b, j) \in Int BY FilledIs DEF Of
<1>4. \A j \in Of(r, s) : Filled(r, j) \in Int BY FilledIs DEF Of
<1>5. it[Of(b, s)] \in Int /\ it[Of(b, s)] = Filled(b, i) + it[R] /\ it[R] \in Int
  <2>1. Of(b, s) \in SUBSET Of(b, s) OBVIOUS
  <2>. QED BY <1>1, <1>3, <2>1, SumAny
<1>6. it[R] = jt[R]
  <2>1. R \in SUBSET (Of(b, s) \cap Of(r, s)) OBVIOUS
  <2>2. \A j \in R : Filled(b, j) = Filled(r, j) BY DEF Filled
  <2>. QED BY <1>1, <1>2, <1>3, <1>4, <2>1, <2>2, SumSame
<1>7. jt[Of(r, s)] \in Int /\ (i \in Of(r, s) => jt[Of(r, s)] = Filled(r, i) + jt[R])
  <2>1. Of(r, s) \in SUBSET Of(r, s) OBVIOUS
  <2>. QED BY <1>2, <1>4, <2>1, SumAny
<1>8. i \notin Of(r, s) => Of(r, s) = R OBVIOUS
<1>9. Filled(b, i) \in Int /\ (i \in Of(r, s) => Filled(r, i) \in Int) BY <1>3, <1>4
<1>. HIDE DEF R
<1>. DEFINE x == it[R]
            f == Filled(b, i)
            g == Filled(r, i)
            p == Total(b, s)
            q == Total(r, s)
<1>10. /\ p \in Int /\ q \in Int /\ x \in Int /\ f \in Int /\ p = f + x
       /\ i \in Of(r, s) => q = g + x /\ g \in Int
       /\ i \notin Of(r, s) => q = x
  BY <1>1, <1>2, <1>5, <1>6, <1>7, <1>8, <1>9
<1>. HIDE DEF x, f, g, p, q
<1>11. /\ i \in Of(r, s) => p - f = q - g
       /\ i \notin Of(r, s) => p - f = q
  BY <1>10
<1>. QED BY <1>10, <1>11 DEF f, g, p, q

(* Orders of other symbols do not matter. *)
LEMMA TotalSame ==
  ASSUME NEW b \in Seq(Order), NEW r \in Seq(Order), NEW s, Of(b, s) = Of(r, s), \A j \in Of(b, s) : r[j] = b[j]
  PROVE  Total(b, s) = Total(r, s) /\ Total(b, s) \in Int
<1>1. PICK it : IsFiniteSet(Of(b, s)) /\ AddsUp(it, b, Of(b, s)) /\ Total(b, s) = it[Of(b, s)] BY TotalIs
<1>2. PICK jt : IsFiniteSet(Of(r, s)) /\ AddsUp(jt, r, Of(r, s)) /\ Total(r, s) = jt[Of(r, s)] BY TotalIs
<1>3. \A j \in Of(b, s) : Filled(b, j) \in Int /\ Filled(b, j) = Filled(r, j) BY FilledIs DEF Of, Filled
<1>4. \A j \in Of(r, s) : Filled(r, j) \in Int BY <1>3
<1>5. Of(b, s) \in SUBSET (Of(b, s) \cap Of(r, s)) /\ Of(b, s) \in SUBSET Of(b, s) OBVIOUS
<1>6. it[Of(b, s)] = jt[Of(b, s)] BY <1>1, <1>2, <1>3, <1>4, <1>5, SumSame
<1>7. it[Of(b, s)] \in Int BY <1>1, <1>3, <1>5, SumAny
<1>. QED BY <1>1, <1>2, <1>6, <1>7

LEMMA TotalEmpty == \A s : Total(<<>>, s) = 0
<1>. SUFFICES ASSUME NEW s PROVE Total(<<>>, s) = 0 OBVIOUS
<1>1. <<>> \in Seq(Order) /\ Of(<<>>, s) = {} BY DEF Of
<1>2. PICK it : AddsUp(it, <<>>, Of(<<>>, s)) /\ Total(<<>>, s) = it[Of(<<>>, s)] BY <1>1, TotalIs
<1>. QED BY <1>1, <1>2 DEF AddsUp

(* An order placed in a book, at its end or instead of one that is there. *)
Placed(r, b, i, o) ==
  /\ r \in Seq(Order) /\ DOMAIN r = DOMAIN b \cup {i} /\ r[i] = o
  /\ \A j \in DOMAIN b \ {i} : r[j] = b[j]
Instead(b, i, o) == i \in DOMAIN b => b[i].sym = o.sym /\ b[i].side = o.side /\ b[i].filled = 0

LEMMA PlacedIs ==
  ASSUME NEW b \in Seq(Order), NEW o \in Order
  PROVE  /\ Placed(Append(b, o), b, Len(b) + 1, o) /\ Len(b) + 1 \notin DOMAIN b
         /\ \A i \in DOMAIN b : Placed([b EXCEPT ![i] = o], b, i, o)
<1>1. Placed(Append(b, o), b, Len(b) + 1, o) /\ Len(b) + 1 \notin DOMAIN b
  <2>. DEFINE r == Append(b, o)
  <2>1. DOMAIN b = 1 .. Len(b) /\ Len(b) \in Nat /\ DOMAIN r = 1 .. Len(b) + 1 /\ r \in Seq(Order) OBVIOUS
  <2>2. r[Len(b) + 1] = o /\ \A j \in 1 .. Len(b) : r[j] = b[j] OBVIOUS
  <2>. QED BY <2>1, <2>2 DEF Placed
<1>2. ASSUME NEW i \in DOMAIN b PROVE Placed([b EXCEPT ![i] = o], b, i, o)
  <2>1. [b EXCEPT ![i] = o] \in Seq(Order) OBVIOUS
  <2>. QED BY <2>1 DEF Placed
<1>. QED BY <1>1, <1>2

(* Its symbol has filled as much more as it has. *)
LEMMA TotalPlaced ==
  ASSUME NEW b \in Seq(Order), NEW o \in Order, NEW i, NEW r, Placed(r, b, i, o), Instead(b, i, o), NEW s
  PROVE  /\ Total(b, s) \in Int
         /\ Total(r, s) = Total(b, s) + (IF o.sym = s THEN Signed(o.side, o.filled) ELSE 0)
<1>1. /\ r \in Seq(Order) /\ DOMAIN r = DOMAIN b \cup {i} /\ r[i] = o /\ \A j \in DOMAIN b \ {i} : r[j] = b[j]
  BY DEF Placed
<1>2. CASE o.sym = s
  <2>1. i \in Of(r, s) /\ Of(b, s) \ {i} = Of(r, s) \ {i} /\ \A j \in Of(r, s) \ {i} : b[j] = r[j]
    BY <1>1, <1>2 DEF Of
  <2>2. /\ Total(r, s) \in Int /\ Total(b, s) \in Int
        /\ i \in Of(b, s) => Total(r, s) - Filled(r, i) = Total(b, s) - Filled(b, i)
        /\ i \notin Of(b, s) => Total(r, s) - Filled(r, i) = Total(b, s)
    BY <1>1, <2>1, TotalWith
  <2>3. Filled(r, i) \in Int /\ Filled(r, i) = Signed(o.side, o.filled) BY <1>1, FilledIs DEF Filled
  <2>4. i \in Of(b, s) => Filled(b, i) = 0
    <3>1. SUFFICES ASSUME i \in DOMAIN b PROVE Filled(b, i) = 0 BY DEF Of
    <3>. DEFINE f == b[i].filled
    <3>2. f \in Int /\ f <= 0 /\ f >= 0 /\ Filled(b, i) \in {f, -f} BY <3>1 DEF Instead, Filled, Signed
    <3>3. \A n \in Int : n <= 0 /\ n >= 0 => -n = n OBVIOUS
    <3>4. f = 0 BY <3>1 DEF Instead
    <3>. HIDE DEF f
    <3>. QED BY <3>2, <3>3, <3>4
  <2>. QED BY <1>2, <2>2, <2>3, <2>4
<1>3. CASE o.sym # s
  <2>1. i \notin Of(b, s) /\ Of(b, s) = Of(r, s) BY <1>1, <1>3 DEF Of, Instead
  <2>2. \A j \in Of(b, s) : r[j] = b[j] BY <1>1, <2>1 DEF Of
  <2>3. Total(b, s) = Total(r, s) /\ Total(b, s) \in Int BY <1>1, <2>1, <2>2, TotalSame
  <2>. QED BY <1>3, <2>3
<1>. QED BY <1>2, <1>3
-----------------------------------------------------------------------------
(* A position is the sum of what orders of its symbol have filled; it is inductive with
   orders that wait not having filled anything. *)
Exposure(s) == pos[<<s, "MIS">>].net + pos[<<s, "CNC">>].net
Accounts ==
  /\ \A s \in Symbol : Exposure(s) = Total(book, s)
  /\ \A s \in Symbol : <<s, "MIS">> \in held => told[s] = pos[<<s, "MIS">>].net
  /\ \A i \in DOMAIN book : book[i].status = "PENDING" => book[i].filled = 0

(* What a fill does to the positions, and what the listener is told. *)
LEMMA PositionMoves ==
  ASSUME TypeOK, Accounts, NEW k \in Key, NEW d \in Side, NEW q \in Nat,
         UpdatePositionState(k, d, q), PositionChangeCallback(k[1])
  PROVE  /\ \A s \in Symbol : /\ Exposure(s)' = Exposure(s) + (IF k[1] = s THEN Signed(d, q) ELSE 0)
                              /\ <<s, "MIS">> \in held' => told'[s] = pos'[<<s, "MIS">>].net
<1>1. k[1] \in Symbol /\ k[2] \in Product /\ k = <<k[1], k[2]>> BY DEF Key
<1>2. /\ pos' = [pos EXCEPT ![k] = AfterFill(pos[k], d, q)] /\ held' = held \cup {k}
      /\ pos \in [Key -> Position] /\ told \in [Symbol -> Int]
  BY DEF UpdatePositionState, TypeOK
<1>3. \A l \in Key : pos[l].net \in Int BY <1>2 DEF Position
<1>4. AfterFill(pos[k], d, q).net = pos[k].net + Signed(d, q) /\ Signed(d, q) \in Int
  BY DEF AfterFill, Signed
<1>5. pos'[k].net = pos[k].net + Signed(d, q) /\ \A l \in Key \ {k} : pos'[l] = pos[l] BY <1>2, <1>4
<1>6. ASSUME NEW s \in Symbol
      PROVE  /\ Exposure(s)' = Exposure(s) + (IF k[1] = s THEN Signed(d, q) ELSE 0)
             /\ <<s, "MIS">> \in held' => told'[s] = pos'[<<s, "MIS">>].net
  <2>1. <<s, "MIS">> \in Key /\ <<s, "CNC">> \in Key BY DEF Key, Product
  <2>. DEFINE m == pos[<<s, "MIS">>].net
              c == pos[<<s, "CNC">>].net
              m2 == pos'[<<s, "MIS">>].net
              c2 == pos'[<<s, "CNC">>].net
              z == Signed(d, q)
  <2>2. m \in Int /\ c \in Int /\ z \in Int BY <1>3, <1>4, <2>1
  <2>3. CASE k[1] # s
    <3>1. k # <<s, "MIS">> /\ k # <<s, "CNC">> BY <2>3
    <3>2. m2 = m /\ c2 = c BY <1>5, <2>1, <3>1
    <3>3. told'[s] = told[s] BY <1>1, <1>2, <2>3 DEF PositionChangeCallback
    <3>4. <<s, "MIS">> \in held' => <<s, "MIS">> \in held BY <1>2, <3>1
    <3>. QED BY <2>2, <2>3, <3>2, <3>3, <3>4 DEF Exposure, Accounts
  <2>4. CASE k = <<s, "MIS">>
    <3>1. k[1] = s /\ k # <<s, "CNC">> BY <2>4
    <3>2. m2 = m + z /\ c2 = c BY <1>5, <2>1, <2>4, <3>1
    <3>3. told'[s] = m2 BY <1>2, <2>4, <3>1 DEF PositionChangeCallback
    <3>4. m2 + c2 = (m + c) + z BY <2>2, <3>2
    <3>. QED BY <3>1, <3>3, <3>4 DEF Exposure
  <2>5. CASE k = <<s, "CNC">>
    <3>1. k[1] = s /\ k # <<s, "MIS">> BY <2>5
    <3>2. m2 = m /\ c2 = c + z BY <1>5, <2>1, <2>5, <3>1
    <3>3. <<s, "MIS">> \in held' => told'[s] = m2 BY <1>2, <3>1 DEF PositionChangeCallback
    <3>4. m2 + c2 = (m + c) + z BY <2>2, <3>2
    <3>. QED BY <3>1, <3>3, <3>4 DEF Exposure
  <2>. QED BY <1>1, <2>3, <2>4, <2>5 DEF Product
<1>. QED BY <1>6

(* A fill recorded by a new order, or by an order of the book. *)
LEMMA FillAccounted ==
  ASSUME TypeOK, Accounts, NEW k \in Key, NEW d \in Side, NEW q \in Nat,
         UpdatePositionState(k, d, q), PositionChangeCallback(k[1]),
         NEW o \in Order, o.sym = k[1], o.side = d, o.filled = q, o.status = "COMPLETE",
         NEW i, Placed(book', book, i, o), Instead(book, i, o)
  PROVE  Accounts'
<1>1. book \in Seq(Order) BY DEF TypeOK
<1>2. \A s \in Symbol : Total(book', s) = Total(book, s) + (IF o.sym = s THEN Signed(d, q) ELSE 0)
  BY <1>1, TotalPlaced
<1>3. \A j \in DOMAIN book' : book'[j].status = "PENDING" => book'[j].filled = 0
  BY DEF Accounts, Placed
<1>4. \A s \in Symbol : Exposure(s)' = Total(book', s)
  <2>. TAKE s \in Symbol
  <2>1. Exposure(s)' = Exposure(s) + (IF k[1] = s THEN Signed(d, q) ELSE 0) BY PositionMoves
  <2>2. Exposure(s) = Total(book, s) BY DEF Accounts
  <2>. QED BY <1>2, <2>1, <2>2
<1>5. \A s \in Symbol : <<s, "MIS">> \in held' => told'[s] = pos'[<<s, "MIS">>].net BY PositionMoves
<1>. QED BY <1>3, <1>4, <1>5 DEF Accounts

(* What changes neither a net quantity nor a filled one. *)
LEMMA NothingFilled ==
  ASSUME TypeOK, Accounts, held' = held, told' = told, \A k \in Key : pos'[k].net = pos[k].net,
         \/ book' = book
         \/ \E o \in Order : \E i : Placed(book', book, i, o) /\ Instead(book, i, o) /\ o.filled = 0
  PROVE  Accounts'
<1>1. book \in Seq(Order) BY DEF TypeOK
<1>2. ASSUME NEW o \in Order, o.filled = 0 PROVE Signed(o.side, o.filled) = 0
  <2>. DEFINE f == o.filled
  <2>1. f \in Int /\ f <= 0 /\ f >= 0 BY <1>2
  <2>2. \A n \in Int : n <= 0 /\ n >= 0 => -n = n OBVIOUS
  <2>3. Signed(o.side, o.filled) \in {f, -f} BY DEF Signed
  <2>4. f = 0 BY <1>2
  <2>. HIDE DEF f
  <2>. QED BY <2>1, <2>2, <2>3, <2>4
<1>3. ASSUME NEW s \in Symbol PROVE Total(book', s) = Total(book, s)
  <2>1. CASE book' = book BY <2>1
  <2>2. ASSUME NEW o \in Order, NEW i, Placed(book', book, i, o), Instead(book, i, o), o.filled = 0
        PROVE  Total(book', s) = Total(book, s)
    <3>1. /\ Total(book, s) \in Int
          /\ Total(book', s) = Total(book, s) + (IF o.sym = s THEN Signed(o.side, o.filled) ELSE 0)
      BY <1>1, <2>2, TotalPlaced
    <3>2. Signed(o.side, o.filled) = 0 BY <1>2, <2>2
    <3>. QED BY <3>1, <3>2
  <2>. QED BY <2>1, <2>2
<1>4. \A j \in DOMAIN book' : book'[j].status = "PENDING" => book'[j].filled = 0
  BY DEF Accounts, Placed
<1>5. \A s \in Symbol : <<s, "MIS">> \in Key /\ <<s, "CNC">> \in Key BY DEF Key, Product
<1>6. \A s \in Symbol : Exposure(s)' = Exposure(s) BY <1>5 DEF Exposure
<1>. QED BY <1>3, <1>4, <1>5, <1>6 DEF Accounts

(* A market fill that is recorded by an order of its own. *)
LEMMA MarketAccounted ==
  ASSUME TypeInv, Accounts, NEW k \in Key, NEW d \in Side, NEW q \in Nat, NEW id \in Id,
         book' = Append(book, MarketOrder(id, k[1], d, q, last[k[1]])),
         UpdatePositionState(k, d, q), PositionChangeCallback(k[1])
  PROVE  Accounts'
<1>. DEFINE o == MarketOrder(id, k[1], d, q, last[k[1]])
<1>1. o \in Order BY PartsType, MarketOrderType
<1>2. o.sym = k[1] /\ o.side = d /\ o.filled = q /\ o.status = "COMPLETE" BY DEF MarketOrder
<1>3. TypeOK /\ book \in Seq(Order) BY DEF TypeInv, TypeOK
<1>. HIDE DEF o
<1>4. Placed(book', book, Len(book) + 1, o) /\ Instead(book, Len(book) + 1, o)
  BY <1>1, <1>3, PlacedIs DEF Instead, o
<1>. QED BY <1>1, <1>2, <1>3, <1>4, FillAccounted

LEMMA StepAccounts == TypeInv /\ Accounts /\ [Next]_vars => Accounts'
<1>. SUFFICES ASSUME TypeInv, Accounts, [Next]_vars PROVE Accounts' OBVIOUS
<1>0. TypeOK /\ book \in Seq(Order) /\ \A i \in DOMAIN book : book[i] \in Order BY DEF TypeInv, TypeOK
<1>1. ASSUME NEW s \in Symbol, NEW prod \in Product, NEW d \in Side, NEW q \in Qty, PlaceMarket(s, prod, d, q)
      PROVE  Accounts'
  <2>. DEFINE k == <<s, prod>>
  <2>1. k \in Key /\ k[1] = s /\ q \in Nat /\ <<"user", issued + 1>> \in Id
    BY <1>1, PartsType DEF Key, PlaceMarket
  <2>. QED BY <1>1, <2>1, MarketAccounted DEF PlaceMarket
<1>2. ASSUME NEW s \in Symbol, NEW d \in Side, NEW q \in Qty, NEW price \in Price, PlaceLimit(s, d, q, price)
      PROVE  Accounts'
  <2>. DEFINE o == LimitOrder(<<"user", issued + 1>>, s, d, q, price)
  <2>1. q \in Nat /\ price \in Nat /\ <<"user", issued + 1>> \in Id
    BY <1>2, PartsType, PaperAssumption DEF PlaceLimit
  <2>2. o \in Order /\ o.filled = 0 BY <2>1 DEF LimitOrder, Order
  <2>3. book' = Append(book, o) /\ held' = held /\ told' = told /\ pos' = pos BY <1>2 DEF PlaceLimit
  <2>. HIDE DEF o
  <2>4. Placed(book', book, Len(book) + 1, o) /\ Instead(book, Len(book) + 1, o)
    BY <1>0, <2>2, <2>3, PlacedIs DEF Instead
  <2>. QED BY <1>0, <2>2, <2>3, <2>4, NothingFilled
<1>3. ASSUME NEW i \in DOMAIN book, book[i].status = "PENDING", NEW o \in Order,
             book' = [book EXCEPT ![i] = o], o.sym = book[i].sym, o.side = book[i].side, o.filled = book[i].filled,
             UNCHANGED <<pos, held, told>>
      PROVE  Accounts'
  <2>1. book[i].filled = 0 BY <1>3 DEF Accounts
  <2>2. Placed(book', book, i, o) /\ Instead(book, i, o) BY <1>0, <1>3, <2>1, PlacedIs DEF Instead
  <2>3. o.filled = 0 BY <1>3, <2>1
  <2>. QED BY <1>0, <1>3, <2>2, <2>3, NothingFilled
<1>4. ASSUME NEW i \in DOMAIN book, NEW price \in Price, ModifyOrder(i, price) PROVE Accounts'
  <2>. DEFINE o == [book[i] EXCEPT !.price = price]
  <2>1. o \in Order /\ o.sym = book[i].sym /\ o.side = book[i].side /\ o.filled = book[i].filled
    BY <1>0, PaperAssumption DEF Order
  <2>. QED BY <1>3, <1>4, <2>1 DEF ModifyOrder
<1>5. ASSUME NEW i \in DOMAIN book, CancelOrder(i) PROVE Accounts'
  <2>. DEFINE o == [book[i] EXCEPT !.status = "CANCELLED"]
  <2>1. o \in Order /\ o.sym = book[i].sym /\ o.side = book[i].side /\ o.filled = book[i].filled
    BY <1>0 DEF Order
  <2>2. book[i].status = "PENDING" BY <1>0, <1>5 DEF CancelOrder, Order
  <2>. QED BY <1>3, <1>5, <2>1, <2>2 DEF CancelOrder
<1>6. ASSUME NEW k \in Key, NEW b \in Bracket, UpdatePositionMetadata(k, b) PROVE Accounts'
  <2>1. pos \in [Key -> Position] BY <1>0 DEF TypeOK
  <2>2. \A l \in Key : pos'[l].net = pos[l].net BY <1>6, <2>1 DEF UpdatePositionMetadata, Position
  <2>3. book' = book /\ held' = held /\ told' = told BY <1>6 DEF UpdatePositionMetadata
  <2>. QED BY <1>0, <2>2, <2>3, NothingFilled
<1>7. ASSUME NEW k \in Key, NEW q \in Qty, ExitPosition(k, q) PROVE Accounts'
  <2>1. Opposite(pos[k]) \in Side /\ q \in Nat /\ <<"user", issued + 1>> \in Id BY <1>7, PartsType DEF ExitPosition
  <2>. QED BY <1>7, <2>1, MarketAccounted DEF ExitPosition
<1>8. CASE ClearPositions
  <2>1. pos' = [k \in Key |-> Flat] /\ held' = {} /\ book' = <<>> BY <1>8 DEF ClearPositions
  <2>2. \A s \in Symbol : <<s, "MIS">> \in Key /\ <<s, "CNC">> \in Key BY DEF Key, Product
  <2>3. \A k \in Key : pos'[k].net = 0 BY <2>1, FlatFields
  <2>4. \A s \in Symbol : Exposure(s)' = 0
    <3>. TAKE s \in Symbol
    <3>1. pos'[<<s, "MIS">>].net = 0 /\ pos'[<<s, "CNC">>].net = 0 BY <2>2, <2>3
    <3>. QED BY <3>1 DEF Exposure
  <2>. QED BY <2>1, <2>4, TotalEmpty DEF Accounts
<1>9. CASE UNCHANGED <<pos, held, book, told>> BY <1>0, <1>9, NothingFilled
<1>10. CASE FillLimit
  <2>1. PICK i \in Crossing :
          LET o == [book[i] EXCEPT !.status = "COMPLETE", !.filled = book[i].qty] IN
          /\ book' = [book EXCEPT ![i] = o]
          /\ UpdatePositionState(<<scan.sym, "MIS">>, o.side, o.qty)
          /\ PositionChangeCallback(scan.sym)
    BY <1>10 DEF FillLimit
  <2>. DEFINE o == [book[i] EXCEPT !.status = "COMPLETE", !.filled = book[i].qty]
              k == <<scan.sym, "MIS">>
  <2>2. i \in DOMAIN book /\ book[i] \in Order /\ book[i].status = "PENDING" /\ book[i].sym = scan.sym
    BY <1>0 DEF Crossing, Crosses
  <2>3. /\ o \in Order /\ o.sym = k[1] /\ o.sym = book[i].sym /\ o.side = book[i].side /\ o.filled = o.qty
        /\ o.side \in Side /\ o.qty \in Nat /\ o.status = "COMPLETE"
    BY <2>2 DEF Order
  <2>4. k \in Key /\ k[1] = scan.sym BY <1>10, PartsType DEF FillLimit, Key, Product
  <2>5. book' = [book EXCEPT ![i] = o] /\ UpdatePositionState(k, o.side, o.qty) /\ PositionChangeCallback(k[1])
    BY <2>1
  <2>6. book[i].filled = 0 BY <2>2 DEF Accounts
  <2>. HIDE DEF o, k
  <2>7. Placed(book', book, i, o) /\ Instead(book, i, o) BY <1>0, <2>2, <2>3, <2>5, <2>6, PlacedIs DEF Instead
  <2>. QED BY <1>0, <2>3, <2>4, <2>5, <2>7, FillAccounted
<1>11. ASSUME NEW k \in Key, Locked, ScanPosition(k) PROVE Accounts'
  <2>1. Opposite(pos[k]) \in Side /\ Abs(pos[k].net) \in Nat /\ <<"auto", now>> \in Id BY <1>11, PartsType
  <2>2. CASE InternalMarketExit(k) BY <2>1, <2>2, MarketAccounted DEF InternalMarketExit
  <2>. QED BY <1>9, <1>11, <2>2 DEF ScanPosition
<1>12. CASE ScanMIS \/ ScanCNC
  <2>1. <<scan.sym, "MIS">> \in Key /\ <<scan.sym, "CNC">> \in Key
    BY <1>12, PartsType DEF ScanMIS, ScanCNC, Key, Product
  <2>. QED BY <1>11, <1>12, <2>1 DEF ScanMIS, ScanCNC
<1>13. ASSUME NEW s \in Symbol, NEW price \in Price, NEW ts \in 1 .. MaxTime, TickArrives(s, price, ts)
       PROVE  Accounts'
  BY <1>9, <1>13 DEF TickArrives
<1>. QED
  BY <1>1, <1>2, <1>4, <1>5, <1>6, <1>7, <1>8, <1>9, <1>10, <1>12, <1>13 DEF Next, OnPriceUpdateStep, vars

(* Every share held is the result of a recorded fill, whatever was placed, modified,
   cancelled, filled or liquidated, and the listener knows of it. *)
THEOREM FillsKept == Spec => []FillsAccounted
<1>1. Init => Accounts
  <2>. SUFFICES ASSUME Init PROVE Accounts OBVIOUS
  <2>1. pos = [k \in Key |-> Flat] /\ held = {} /\ book = <<>> BY DEF Init
  <2>2. \A s \in Symbol : <<s, "MIS">> \in Key /\ <<s, "CNC">> \in Key BY DEF Key, Product
  <2>3. \A k \in Key : pos[k].net = 0 BY <2>1, FlatFields
  <2>4. \A s \in Symbol : Exposure(s) = 0
    <3>. TAKE s \in Symbol
    <3>1. pos[<<s, "MIS">>].net = 0 /\ pos[<<s, "CNC">>].net = 0 BY <2>2, <2>3
    <3>. QED BY <3>1 DEF Exposure
  <2>. QED BY <2>1, <2>4, TotalEmpty DEF Accounts
<1>2. Accounts => FillsAccounted BY DEF Accounts, FillsAccounted, Exposure, Total, Of
<1>. QED BY <1>1, <1>2, StepAccounts, TypeInvCorrect, PTL DEF Spec
=============================================================================
