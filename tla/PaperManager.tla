----------------------------- MODULE PaperManager -----------------------------
(***************************************************************************)
(* The paper trading order manager, order/paper_manager.go: an order book, *)
(* one position per (symbol, product) with local exit thresholds, and the  *)
(* rows it persists through the DBWriter.                                  *)
(*                                                                         *)
(* Every exported method holds mu from its first line to its return, so a  *)
(* method is one action.  OnPriceUpdate loops over the book and the two    *)
(* products while it holds mu; it is modelled as the sequence of its       *)
(* iterations, and scan says that it is between two of them, which         *)
(* excludes every other method.                                            *)
(*                                                                         *)
(* Abstracted: prices are small positive numbers (0 is "no price"), symbols*)
(* are values; average price, P&L and display fields are left out.  Order  *)
(* ids built from the wall clock are a counter, those built from a tick's  *)
(* time are that time.                                                     *)
(***************************************************************************)
EXTENDS Integers, Sequences, FiniteSets, FiniteSetsExt

CONSTANTS Symbol,     (* traded symbols                                    *)
          Qty,        (* quantities a request may carry                    *)
          Price,      (* prices a tick, an order or a threshold may have   *)
          Bracket,    (* pairs (take profit, stop loss) a user may assign  *)
          MaxOrders,  (* bound: orders placed by callers                   *)
          MaxTime     (* bound: the exchange time of a tick                *)

ASSUME PaperAssumption ==
  /\ Qty \subseteq Nat \ {0}
  /\ Price \subseteq Nat \ {0}
  /\ Bracket \subseteq ({0} \cup Price) \X ({0} \cup Price)
  /\ MaxOrders \in Nat
  /\ MaxTime \in Nat

VARIABLES pos,     (* activePositions: the record of each key              *)
          held,    (* DOMAIN of activePositions                            *)
          book,    (* orderBook                                            *)
          last,    (* lastPrices, 0 when there is no entry                 *)
          now,     (* currentSimTime, 0 when zero                          *)
          scan,    (* progress of the OnPriceUpdate that holds mu          *)
          issued,  (* how many wall-clock order ids were generated         *)
          ledger,  (* table gidh_orders: the row of each order id          *)
          snap,    (* table gidh_positions: the row of each key            *)
          told     (* net quantity in the last position callback spawned   *)

vars == <<pos, held, book, last, now, scan, issued, ledger, snap, told>>

Product == {"MIS", "CNC"}
Key == Symbol \X Product
Side == {"BUY", "SELL"}

(* Positions: models.Position *)
Flat == [net |-> 0, side |-> "", tp |-> 0, sl |-> 0]
Position == [net: Int, side: {"LONG", "SHORT", ""}, tp: {0} \cup Price, sl: {0} \cup Price]

(* Order ids: "PPR-<wall clock>" and "PPR-MANUAL-EXIT-<wall clock>" are both
   "user", "PPR-AUTO-RISK-EXIT-<tick time>" is "auto". *)
Id == ({"user"} \X (1 .. MaxOrders)) \cup ({"auto"} \X (1 .. MaxTime))
Order == [id: Id, sym: Symbol, side: Side, type: {"MARKET", "LIMIT"}, qty: Nat,
          filled: Nat, price: Nat, status: {"PENDING", "COMPLETE", "CANCELLED"}]
NoRow == [status |-> "none"]

Idle == [phase |-> "idle"]
Locked == scan # Idle

TypeOK ==
  /\ pos \in [Key -> Position]
  /\ held \in SUBSET Key
  /\ book \in Seq(Order)
  /\ last \in [Symbol -> {0} \cup Price]
  /\ now \in 0 .. MaxTime
  /\ scan \in {Idle} \cup [phase: {"orders", "CNC"}, sym: Symbol]
  /\ issued \in 0 .. MaxOrders
  /\ ledger \in [Id -> Order \cup {NoRow}]
  /\ snap \in [Key -> Position]
  /\ told \in [Symbol -> Int]

Init ==
  /\ pos = [k \in Key |-> Flat]
  /\ held = {}
  /\ book = <<>>
  /\ last = [s \in Symbol |-> 0]
  /\ now = 0
  /\ scan = Idle
  /\ issued = 0
  /\ ledger = [i \in Id |-> NoRow]
  /\ snap = [k \in Key |-> Flat]
  /\ told = [s \in Symbol |-> 0]
-----------------------------------------------------------------------------
(* Mutant of Abs: the sign is kept. *)
AbsSigned(n) == n
Abs(n) == IF n < 0 THEN -n ELSE n
Signed(d, q) == IF d = "BUY" THEN q ELSE -q
(* Mutant of Opposite: a short position is sold as well. *)
OppositeSell(p) == "SELL"
Opposite(p) == IF p.side = "SHORT" THEN "BUY" ELSE "SELL"
SideOf(n) == IF n > 0 THEN "LONG" ELSE IF n < 0 THEN "SHORT" ELSE ""

(* Mutant of AfterFill: thresholds survive a reversal. *)
AfterFillReversalKeeps(p, d, q) ==
  LET n == p.net + Signed(d, q) IN
  [net |-> n, side |-> SideOf(n), tp |-> IF n = 0 THEN 0 ELSE p.tp,
   sl |-> IF n = 0 THEN 0 ELSE p.sl]

(* updatePositionState on one record: a fill in the position's direction, or
   from flat, keeps the thresholds; one that closes keeps them only when some of
   the position is left. *)
AfterFill(p, d, q) ==
  LET n == p.net + Signed(d, q)
      increasing == (d = "BUY" /\ p.net >= 0) \/ (d = "SELL" /\ p.net <= 0)
      reversed == ~increasing /\ ((d = "BUY" /\ n > 0) \/ (d = "SELL" /\ n < 0))
      keep == n # 0 /\ ~reversed
  IN  [net |-> n, side |-> SideOf(n),
       tp |-> IF keep THEN p.tp ELSE 0,
       sl |-> IF keep THEN p.sl ELSE 0]

(* updatePositionState: RAM, then the persisted snapshot. *)
UpdatePositionState(k, d, q) ==
  /\ held' = held \cup {k}
  /\ pos' = [pos EXCEPT ![k] = AfterFill(@, d, q)]
  /\ snap' = [snap EXCEPT ![k] = pos'[k]]

(* PersistOrder is an upsert: on a conflicting order_id only status, filled_qty,
   price (and user_email) of the existing row change. *)
PersistOrder(o) ==
  ledger' = [ledger EXCEPT ![o.id] =
               IF @ = NoRow THEN o
               ELSE [@ EXCEPT !.status = o.status, !.filled = o.filled, !.price = o.price]]

(* broadcastPositionChangeCallback looks only at the MIS position. *)
PositionChangeCallback(s) ==
  told' = IF <<s, "MIS">> \in held' THEN [told EXCEPT ![s] = pos'[<<s, "MIS">>].net]
                                    ELSE told

MarketOrder(id, s, d, q, price) ==
  [id |-> id, sym |-> s, side |-> d, type |-> "MARKET", qty |-> q, filled |-> q,
   price |-> price, status |-> "COMPLETE"]
LimitOrder(id, s, d, q, price) ==
  [id |-> id, sym |-> s, side |-> d, type |-> "LIMIT", qty |-> q, filled |-> 0,
   price |-> price, status |-> "PENDING"]
-----------------------------------------------------------------------------
(* PlaceOrder, MARKET: fails without a last price, else fills at once. *)
PlaceMarket(s, prod, d, q) ==
  LET o == MarketOrder(<<"user", issued + 1>>, s, d, q, last[s]) IN
  /\ ~Locked /\ issued < MaxOrders
  /\ last[s] # 0
  /\ issued' = issued + 1
  /\ UpdatePositionState(<<s, prod>>, d, q)
  /\ book' = Append(book, o)
  /\ PersistOrder(o)
  /\ PositionChangeCallback(s)
  /\ UNCHANGED <<last, now, scan>>

(* PlaceOrder, LIMIT: recorded as PENDING; the requested product is not kept. *)
PlaceLimit(s, d, q, price) ==
  LET o == LimitOrder(<<"user", issued + 1>>, s, d, q, price) IN
  /\ ~Locked /\ issued < MaxOrders
  /\ issued' = issued + 1
  /\ book' = Append(book, o)
  /\ PersistOrder(o)
  /\ UNCHANGED <<pos, held, last, now, scan, snap, told>>

(* ModifyOrder: only a PENDING order takes a new price. *)
ModifyOrder(i, price) ==
  LET o == [book[i] EXCEPT !.price = price] IN
  /\ ~Locked
  /\ book[i].status = "PENDING"
  /\ book' = [book EXCEPT ![i] = o]
  /\ PersistOrder(o)
  /\ UNCHANGED <<pos, held, last, now, scan, issued, snap, told>>

(* Mutant of CancelOrder: a completed order can be cancelled. *)
CancelAnyOrder(i) ==
  LET o == [book[i] EXCEPT !.status = "CANCELLED"] IN
  /\ ~Locked
  /\ book[i].status # "CANCELLED"
  /\ book' = [book EXCEPT ![i] = o]
  /\ PersistOrder(o)
  /\ UNCHANGED <<pos, held, last, now, scan, issued, snap, told>>

(* CancelOrder: refuses an order in a final status. *)
CancelOrder(i) ==
  LET o == [book[i] EXCEPT !.status = "CANCELLED"] IN
  /\ ~Locked
  /\ book[i].status \notin {"COMPLETE", "REJECTED", "CANCELLED"}
  /\ book' = [book EXCEPT ![i] = o]
  /\ PersistOrder(o)
  /\ UNCHANGED <<pos, held, last, now, scan, issued, snap, told>>

(* Mutant of UpdatePositionMetadata: the new thresholds are not persisted. *)
UpdateMetadataInRam(k, b) ==
  /\ ~Locked
  /\ k \in held /\ pos[k].net # 0
  /\ pos' = [pos EXCEPT ![k].tp = b[1], ![k].sl = b[2]]
  /\ UNCHANGED <<held, book, last, now, scan, issued, ledger, snap, told>>

(* UpdatePositionMetadata: refuses a flat position, checks nothing else. *)
UpdatePositionMetadata(k, b) ==
  /\ ~Locked
  /\ k \in held /\ pos[k].net # 0
  /\ pos' = [pos EXCEPT ![k].tp = b[1], ![k].sl = b[2]]
  /\ snap' = [snap EXCEPT ![k] = pos'[k]]
  /\ UNCHANGED <<held, book, last, now, scan, issued, ledger, told>>

(* ExitPosition: the caller names the quantity, which may exceed the position. *)
ExitPosition(k, q) ==
  LET d == Opposite(pos[k])
      o == MarketOrder(<<"user", issued + 1>>, k[1], d, q, last[k[1]]) IN
  /\ ~Locked /\ issued < MaxOrders
  /\ k \in held /\ pos[k].net # 0
  /\ last[k[1]] # 0
  /\ issued' = issued + 1
  /\ book' = Append(book, o)
  /\ PersistOrder(o)
  /\ UpdatePositionState(k, d, q)
  /\ PositionChangeCallback(k[1])
  /\ UNCHANGED <<last, now, scan>>

(* ClearPositions: RAM only. A session's snapshots are keyed by its trading date,
   those of the session that ends are not looked at again. *)
ClearPositions ==
  /\ ~Locked
  /\ pos' = [k \in Key |-> Flat]
  /\ held' = {}
  /\ book' = <<>>
  /\ last' = [s \in Symbol |-> 0]
  /\ now' = 0
  /\ snap' = [k \in Key |-> Flat]
  /\ UNCHANGED <<scan, issued, ledger, told>>
-----------------------------------------------------------------------------
(* OnPriceUpdate, first part: the tick's price and time are recorded. *)
TickArrives(s, price, ts) ==
  /\ ~Locked
  /\ ts \in now .. MaxTime /\ ts > 0
  /\ last' = [last EXCEPT ![s] = price]
  /\ now' = ts
  /\ scan' = [phase |-> "orders", sym |-> s]
  /\ UNCHANGED <<pos, held, book, issued, ledger, snap, told>>

(* Mutant of Crosses: the status of the order is not looked at. *)
CrossesAnyStatus(o, s, price) ==
  /\ o.type = "LIMIT" /\ o.sym = s
  /\ \/ o.side = "BUY" /\ price <= o.price
     \/ o.side = "SELL" /\ price >= o.price

(* The price of the tick reaches the limit of a PENDING order of its symbol. *)
Crosses(o, s, price) ==
  /\ o.status = "PENDING" /\ o.type = "LIMIT" /\ o.sym = s
  /\ \/ o.side = "BUY" /\ price <= o.price
     \/ o.side = "SELL" /\ price >= o.price

Crossing == {i \in DOMAIN book : Crosses(book[i], scan.sym, last[scan.sym])}

(* One iteration of the order loop: the orders fill in book order, always into
   the MIS position. *)
FillLimit ==
  /\ Locked /\ scan.phase = "orders"
  /\ \E i \in Crossing :
       LET o == [book[i] EXCEPT !.status = "COMPLETE", !.filled = book[i].qty] IN
       /\ \A j \in Crossing : i <= j
       /\ book' = [book EXCEPT ![i] = o]
       /\ PersistOrder(o)
       /\ UpdatePositionState(<<scan.sym, "MIS">>, o.side, o.qty)
       /\ PositionChangeCallback(scan.sym)
  /\ UNCHANGED <<last, now, scan, issued>>

TargetHit(p, price) ==
  /\ p.tp > 0
  /\ \/ p.side = "LONG" /\ price >= p.tp
     \/ p.side = "SHORT" /\ price <= p.tp

StopHit(p, price) ==
  /\ p.sl > 0
  /\ \/ p.side = "LONG" /\ price <= p.sl
     \/ p.side = "SHORT" /\ price >= p.sl

Breached(p, price) == p.net # 0 /\ (TargetHit(p, price) \/ StopHit(p, price))

(* executeInternalMarketExit: the whole position, at the tick's price, under an
   order id made of the tick's time. *)
InternalMarketExit(k) ==
  LET d == Opposite(pos[k])
      q == Abs(pos[k].net)
      o == MarketOrder(<<"auto", now>>, k[1], d, q, last[k[1]]) IN
  /\ book' = Append(book, o)
  /\ PersistOrder(o)
  /\ UpdatePositionState(k, d, q)
  /\ PositionChangeCallback(k[1])

(* One iteration of the product loop. *)
ScanPosition(k) ==
  IF k \in held /\ Breached(pos[k], last[k[1]])
  THEN InternalMarketExit(k)
  ELSE UNCHANGED <<pos, held, book, ledger, snap, told>>

(* Mutant of ScanMIS: thresholds are scanned before the limit orders fill. *)
ScanMISFirst ==
  /\ Locked /\ scan.phase = "orders"
  /\ ScanPosition(<<scan.sym, "MIS">>)
  /\ scan' = [scan EXCEPT !.phase = "CNC"]
  /\ UNCHANGED <<last, now, issued>>

ScanMIS ==
  /\ Locked /\ scan.phase = "orders" /\ Crossing = {}
  /\ ScanPosition(<<scan.sym, "MIS">>)
  /\ scan' = [scan EXCEPT !.phase = "CNC"]
  /\ UNCHANGED <<last, now, issued>>

ScanCNC ==
  /\ Locked /\ scan.phase = "CNC"
  /\ ScanPosition(<<scan.sym, "CNC">>)
  /\ scan' = Idle
  /\ UNCHANGED <<last, now, issued>>

OnPriceUpdateStep == FillLimit \/ ScanMIS \/ ScanCNC
-----------------------------------------------------------------------------
Next ==
  \/ \E s \in Symbol, prod \in Product, d \in Side, q \in Qty : PlaceMarket(s, prod, d, q)
  \/ \E s \in Symbol, d \in Side, q \in Qty, price \in Price : PlaceLimit(s, d, q, price)
  \/ \E i \in DOMAIN book, price \in Price : ModifyOrder(i, price)
  \/ \E i \in DOMAIN book : CancelOrder(i)
  \/ \E k \in Key, b \in Bracket : UpdatePositionMetadata(k, b)
  \/ \E k \in Key, q \in Qty : ExitPosition(k, q)
  \/ ClearPositions
  \/ \E s \in Symbol, price \in Price, ts \in 1 .. MaxTime : TickArrives(s, price, ts)
  \/ OnPriceUpdateStep

Spec == Init /\ [][Next]_vars
-----------------------------------------------------------------------------
(* Rules 4.1 and 4.3: a position without exposure has no threshold, and the
   direction that the threshold comparisons use is that of the quantity, so that a
   stop can never be evaluated on the wrong side. *)
ThresholdsNeedExposure ==
  \A k \in Key :
    /\ pos[k].net = 0 => pos[k].tp = 0 /\ pos[k].sl = 0
    /\ pos[k].side = SideOf(pos[k].net)

(* Every share held is the result of a recorded fill: over both products of a symbol,
   the positions add up to the signed filled quantities of its orders in the book. Two
   executions of one order, or one lost, would break it.  And the listener (the risk
   manager) has been told the quantity of every intraday position there is, whoever
   changed it last: a placement, a limit fill, a manual exit or the watchdog. *)
FillsAccounted ==
  \A s \in Symbol :
    /\ pos[<<s, "MIS">>].net + pos[<<s, "CNC">>].net =
         MapThenSumSet(LAMBDA i : Signed(book[i].side, book[i].filled),
                       {i \in DOMAIN book : book[i].sym = s})
    /\ <<s, "MIS">> \in held => told[s] = pos[<<s, "MIS">>].net

(* What a restart would read back: the persisted snapshot of each open position is
   the position, thresholds included, and the audit row of every order a caller
   placed says what the book says of it. Of automatic exits it does not hold: their id
   is the tick's time, and two on one tick share a row. *)
PersistedStateCurrent ==
  /\ \A k \in held : snap[k] = pos[k]
  /\ \A i \in DOMAIN book : book[i].id[1] = "user" => ledger[book[i].id] = book[i]

(* When OnPriceUpdate returns, the tick is settled: no position of its symbol is
   still open beyond one of its thresholds and no limit order it crosses is still
   pending, whatever the fills of this tick did to the position in between. *)
TickStep ==
  Locked /\ ~Locked' =>
    /\ \A prod \in Product : ~Breached(pos'[<<scan.sym, prod>>], last[scan.sym])
    /\ \A i \in DOMAIN book' : ~Crosses(book'[i], scan.sym, last[scan.sym])
TickSettles == [][TickStep]_vars

(* The book only grows, or is cleared as a whole; an order in a final status never
   changes again; and a limit order completes only for its whole quantity at a
   price that reaches its limit: a cancelled order never fills and no order fills
   twice. *)
OrderStep ==
  \/ book' = <<>>
  \/ /\ Len(book') >= Len(book)
     /\ \A i \in DOMAIN book :
          /\ book[i].status # "PENDING" => book'[i] = book[i]
          /\ book[i].status = "PENDING" /\ book'[i].status = "COMPLETE" =>
               /\ Locked /\ Crosses(book[i], scan.sym, last[scan.sym])
               /\ book'[i].filled = book[i].qty
OrderLifecycle == [][OrderStep]_vars

(* Rule 5.3: a liquidation the watchdog fires is for exactly the quantity the
   position has at that moment, so it flattens it and never reverses it; it happens
   only to a position beyond a threshold; and it leaves every order that was in the
   book as it was. *)
LiquidationStep ==
  \A n \in DOMAIN book' :
    n \notin DOMAIN book /\ book'[n].id[1] = "auto" =>
      /\ \A i \in DOMAIN book : book'[i] = book[i]
      /\ \E k \in Key :
           /\ Breached(pos[k], last[k[1]])
           /\ pos' = [pos EXCEPT ![k] = Flat]
           /\ book'[n].qty = Abs(pos[k].net)
           /\ book'[n].side = (IF pos[k].net > 0 THEN "SELL" ELSE "BUY")
LiquidationExact == [][LiquidationStep]_vars

(* Chapter 4 of docs/order_manager.md holds of this manager, its rule 4.2 excepted
   where it speaks of scaling: a fill that opens, flattens or reverses a position
   leaves it without thresholds in the same step, and a fill that adds to a position
   keeps them (paper_manager.go:380-389), although the document has them default to
   0 then as well (order_manager.md:85).  With ScalingKeeps <- FALSE the property
   is the document's and the manager breaks it. *)
Rules == INSTANCE PositionRules
           WITH net <- [k \in Key |-> pos[k].net],
                tp <- [k \in Key |-> pos[k].tp],
                sl <- [k \in Key |-> pos[k].sl],
                ScalingKeeps <- TRUE
RulesSpec == Rules!Spec
=============================================================================
