----------------------------- MODULE LiveManager -----------------------------
(***************************************************************************)
(* The live order manager, order/live_manager.go, with execution enabled,  *)
(* in front of a broker: orders go out over HTTP, order updates come back  *)
(* over a websocket, and background syncs copy the broker's order book and *)
(* net positions into RAM.  The process may crash and restart from its     *)
(* database rows (App.initLiveState).                                      *)
(*                                                                         *)
(* mu is released around every call of the broker, so a method is the      *)
(* sequence of its critical sections; what it holds in between is in calls *)
(* (requests not yet sent), replies (answers not yet handled) and sync     *)
(* (SyncExchangeState goroutines and the snapshots they carry).            *)
(*                                                                         *)
(* Abstracted: order prices (so ModifyOrder, which changes nothing else),  *)
(* average price, P&L, users.  A PersistOrder follows every write of the   *)
(* order book inside the same critical section, so book also stands for    *)
(* today's rows of gidh_orders; database failures are not modelled.        *)
(***************************************************************************)
EXTENDS Integers, Sequences, FiniteSets, SequencesExt

CONSTANTS Symbol,     (* traded symbols                                    *)
          Product,    (* products the account uses                         *)
          Qty,        (* quantities a request may carry                    *)
          Price,      (* prices a tick or a threshold may have             *)
          Bracket,    (* pairs (take profit, stop loss) a user may assign  *)
          MaxOrders,  (* bound: orders the broker accepts                  *)
          MaxSync,    (* bound: SyncExchangeState goroutines at a time     *)
          MaxFaults   (* bound: crashes, lost updates and failed calls     *)

ASSUME LiveAssumption ==
  /\ Product \subseteq {"MIS", "CNC"} /\ "MIS" \in Product
  /\ Qty \subseteq Nat \ {0}
  /\ Price \subseteq Nat \ {0}
  /\ Bracket \subseteq ({0} \cup Price) \X ({0} \cup Price)
  /\ MaxOrders \in Nat /\ MaxSync \in Nat \ {0} /\ MaxFaults \in Nat

VARIABLES broker,   (* the broker's orders; an order's id is its index     *)
          net,      (* the broker's net positions                          *)
          wire,     (* order updates under way on the websocket            *)
          proc,     (* the process: "down", "booting" or "up"              *)
          pos,      (* activePositions; an absent entry is Flat            *)
          book,     (* orderBook                                           *)
          calls,    (* orders that goroutines are about to send            *)
          replies,  (* answers of the broker not yet handled               *)
          sync,     (* the SyncExchangeState goroutines                    *)
          snap,     (* today's rows of gidh_positions                      *)
          faults    (* crashes, lost updates and failed calls so far       *)

exchange == <<broker, net>>
vars == <<broker, net, wire, proc, pos, book, calls, replies, sync, snap, faults>>

Key == Symbol \X Product
Id == 1 .. MaxOrders
Slot == 1 .. MaxSync
Final == {"COMPLETE", "CANCELLED", "REJECTED"}

Flat == [net |-> 0, side |-> "FLAT", tp |-> 0, sl |-> 0]
Position == [net: Int, side: {"LONG", "SHORT", "FLAT"}, tp: {0} \cup Price, sl: {0} \cup Price]
BrokerOrder == [sym: Symbol, prod: Product, side: {"BUY", "SELL"}, qty: Nat, filled: Nat,
                status: {"OPEN"} \cup Final, cancel: BOOLEAN]
Entry == [id: Id, filled: Nat, status: {"PENDING"} \cup Final]
(* trigger is observed: the price of the tick a liquidation is for, 0 when a user exits. *)
Request == [sym: Symbol, side: {"BUY", "SELL"}, qty: Nat, trigger: {0} \cup Price]

Idle == [at |-> "idle"]
SyncState ==
  [at: {"idle", "start", "middle"}] \cup [at: {"orders"}, orders: Seq(Entry)]
    \cup [at: {"positions"}, net: [Key -> Int], listed: SUBSET Key]

TypeOK ==
  /\ broker \in Seq(BrokerOrder) /\ Len(broker) <= MaxOrders
  /\ net \in [Key -> Int]
  /\ wire \in Seq(Entry)
  /\ proc \in {"down", "booting", "up"}
  /\ pos \in [Key -> Position]
  /\ book \in Seq(Entry)
  /\ calls \in Seq(Request)
  /\ replies \in SUBSET [kind: {"placed", "cancelled"}, id: Id]
  /\ sync \in [Slot -> SyncState]
  /\ snap \in [Key -> Position]
  /\ faults \in 0 .. MaxFaults

Init ==
  /\ broker = <<>>
  /\ net = [k \in Key |-> 0]
  /\ wire = <<>>
  /\ proc = "up"
  /\ pos = [k \in Key |-> Flat]
  /\ book = <<>>
  /\ calls = <<>>
  /\ replies = {}
  /\ sync = [i \in Slot |-> Idle]
  /\ snap = [k \in Key |-> Flat]
  /\ faults = 0
-----------------------------------------------------------------------------
Up == proc = "up"
Signed(d, q) == IF d = "BUY" THEN q ELSE -q
SideOf(n) == IF n > 0 THEN "LONG" ELSE IF n < 0 THEN "SHORT" ELSE "FLAT"
Opposite(p) == IF p.side = "SHORT" THEN "BUY" ELSE "SELL"
(* Mutant of Abs: the sign is kept. *)
AbsSigned(n) == n
Abs(n) == IF n < 0 THEN -n ELSE n

(* The broker's record of an order as the manager maps it: the working states
   become PENDING. *)
Report(id, o) ==
  [id |-> id, filled |-> o.filled,
   status |-> IF o.status = "OPEN" THEN "PENDING" ELSE o.status]

(* The websocket exists while the process is up. *)
Notify(id, o) == wire' = IF Up THEN Append(wire, Report(id, o)) ELSE wire

(* The broker changes its record of an order, or makes it, and reports it. *)
Record(id, o) ==
  /\ broker' = IF id \in DOMAIN broker THEN [broker EXCEPT ![id] = o] ELSE Append(broker, o)
  /\ Notify(id, o)

Room == Len(broker) + Len(calls) < MaxOrders
Fault == faults < MaxFaults /\ faults' = faults + 1

(* The broker takes an order. *)
Accept(s, prod, d, q) ==
  /\ Record(Len(broker) + 1, [sym |-> s, prod |-> prod, side |-> d, qty |-> q,
                              filled |-> 0, status |-> "OPEN", cancel |-> FALSE])
  /\ UNCHANGED net

(* The exchange executes all or part of a working order. *)
BrokerFill(i, q) ==
  LET o == broker[i] IN
  /\ o.status = "OPEN" /\ q \in 1 .. o.qty - o.filled
  /\ Record(i, [o EXCEPT !.filled = @ + q,
                         !.status = IF o.filled + q = o.qty THEN "COMPLETE" ELSE "OPEN"])
  /\ net' = [net EXCEPT ![<<o.sym, o.prod>>] = @ + Signed(o.side, q)]
  /\ UNCHANGED <<proc, pos, book, calls, replies, sync, snap, faults>>

(* The exchange refuses an order it has not executed any of. *)
BrokerReject(i) ==
  /\ broker[i].status = "OPEN" /\ broker[i].filled = 0
  /\ Record(i, [broker[i] EXCEPT !.status = "REJECTED"])
  /\ UNCHANGED <<net, proc, pos, book, calls, replies, sync, snap, faults>>

(* The exchange cancels what is left of a working order, for a request of the manager
   that was accepted or for one of the account's owner. *)
BrokerCancel(i) ==
  /\ broker[i].status = "OPEN"
  /\ Record(i, [broker[i] EXCEPT !.status = "CANCELLED"])
  /\ UNCHANGED <<net, proc, pos, book, calls, replies, sync, snap, faults>>

(* The account's owner trades in another application. *)
ExternalOrder(s, prod, d, q) ==
  /\ Room
  /\ Accept(s, prod, d, q)
  /\ UNCHANGED <<proc, pos, book, calls, replies, sync, snap, faults>>

(* An order update is lost: the ticker reconnects. *)
LoseUpdate ==
  /\ wire # <<>> /\ Fault
  /\ wire' = Tail(wire)
  /\ UNCHANGED <<exchange, proc, pos, book, calls, replies, sync, snap>>
-----------------------------------------------------------------------------
Find(id) == {j \in DOMAIN book : book[j].id = id}
InBook(id) == Find(id) # {}
NewEntry(id) == [id |-> id, filled |-> 0, status |-> "PENDING"]

(* PlaceOrder up to the broker's answer; mu is not held. *)
PlaceOrder(s, d, q) ==
  /\ Up /\ Room
  /\ Accept(s, "MIS", d, q)
  /\ replies' = replies \cup {[kind |-> "placed", id |-> Len(broker) + 1]}
  /\ UNCHANGED <<proc, pos, book, calls, sync, snap, faults>>

(* PlaceOrder after the answer: an entry the websocket made first is kept. *)
OrderPlaced(id) ==
  /\ [kind |-> "placed", id |-> id] \in replies
  /\ replies' = replies \ {[kind |-> "placed", id |-> id]}
  /\ book' = IF InBook(id) THEN book ELSE Append(book, NewEntry(id))
  /\ UNCHANGED <<exchange, wire, proc, pos, calls, sync, snap, faults>>

(* CancelOrder up to the answer: the broker accepts the request for a working order;
   the exchange may cancel it, or fill it, before or after the answer is handled. *)
CancelOrder(id) ==
  /\ Up
  /\ broker[id].status = "OPEN"
  /\ broker' = [broker EXCEPT ![id].cancel = TRUE]
  /\ replies' = replies \cup {[kind |-> "cancelled", id |-> id]}
  /\ UNCHANGED <<net, wire, proc, pos, book, calls, sync, snap, faults>>

(* CancelOrder after the answer: the entry becomes CANCELLED whatever it says by now. *)
OrderCancelled(id) ==
  /\ [kind |-> "cancelled", id |-> id] \in replies
  /\ replies' = replies \ {[kind |-> "cancelled", id |-> id]}
  /\ book' = [j \in DOMAIN book |->
                IF book[j].id = id THEN [book[j] EXCEPT !.status = "CANCELLED"] ELSE book[j]]
  /\ UNCHANGED <<exchange, wire, proc, pos, calls, sync, snap, faults>>

(* ExitPosition: the check under mu; the caller names the quantity. *)
ExitPosition(k, q) ==
  /\ Up /\ Room
  /\ pos[k].net # 0
  /\ calls' = Append(calls, [sym |-> k[1], side |-> Opposite(pos[k]), qty |-> q, trigger |-> 0])
  /\ UNCHANGED <<exchange, wire, proc, pos, book, replies, sync, snap, faults>>

(* ExitPosition and executeBrokerMarketLiquidation send their order, always as
   MIS; the answer is not used. *)
SendCall(c) ==
  /\ Accept(calls[c].sym, "MIS", calls[c].side, calls[c].qty)
  /\ calls' = RemoveAt(calls, c)
  /\ UNCHANGED <<proc, pos, book, replies, sync, snap, faults>>

(* The broker refuses the order: the error is returned to the user or logged. *)
CallFails(c) ==
  /\ Fault
  /\ calls' = RemoveAt(calls, c)
  /\ UNCHANGED <<exchange, wire, proc, pos, book, replies, sync, snap>>

(* UpdatePositionMetadata: refuses a flat position. *)
UpdatePositionMetadata(k, b) ==
  /\ Up
  /\ pos[k].net # 0
  /\ pos' = [pos EXCEPT ![k].tp = b[1], ![k].sl = b[2]]
  /\ snap' = [snap EXCEPT ![k] = pos'[k]]
  /\ UNCHANGED <<exchange, wire, proc, book, calls, replies, sync, faults>>

-----------------------------------------------------------------------------
TargetHit(p, price) ==
  /\ p.tp > 0
  /\ \/ p.side = "LONG" /\ price >= p.tp
     \/ p.side = "SHORT" /\ price <= p.tp

StopHit(p, price) ==
  /\ p.sl > 0
  /\ \/ p.side = "LONG" /\ price <= p.sl
     \/ p.side = "SHORT" /\ price >= p.sl

Breached(p, price) == p.net # 0 /\ (TargetHit(p, price) \/ StopHit(p, price))

Liquidation(k, price) ==
  [sym |-> k[1], side |-> Opposite(pos[k]), qty |-> Abs(pos[k].net), trigger |-> price]

(* Mutant of OnPriceUpdate: the thresholds stay armed. *)
OnPriceUpdateStaysArmed(s, price) ==
  LET hit == SetToSeq({k \in Key : k[1] = s /\ Breached(pos[k], price)}) IN
  /\ Up
  /\ Len(broker) + Len(calls) + Len(hit) <= MaxOrders
  /\ calls' = calls \o [j \in DOMAIN hit |-> Liquidation(hit[j], price)]
  /\ UNCHANGED <<exchange, wire, proc, pos, book, replies, sync, snap, faults>>

(* OnPriceUpdate: each breached position of the symbol, if any, gets a goroutine that
   liquidates it, and loses its thresholds in RAM; its row is not written. *)
OnPriceUpdate(s, price) ==
  LET hit == SetToSeq({k \in Key : k[1] = s /\ Breached(pos[k], price)}) IN
  /\ Up
  /\ Len(broker) + Len(calls) + Len(hit) <= MaxOrders
  /\ calls' = calls \o [j \in DOMAIN hit |-> Liquidation(hit[j], price)]
  /\ pos' = [k \in Key |-> IF k \in ToSet(hit) THEN [pos[k] EXCEPT !.tp = 0, !.sl = 0]
                                               ELSE pos[k]]
  /\ UNCHANGED <<exchange, wire, proc, book, replies, sync, snap, faults>>

(* The first idle slot; the goroutines are otherwise alike. *)
Free == {i \in Slot : sync[i] = Idle /\ \A j \in Slot : sync[j] = Idle => i <= j}

(* Mutant of HandleOrderUpdate: an order the book does not have is ignored. *)
HandleKnownOrderUpdate ==
  /\ Up /\ wire # <<>>
  /\ LET e == Head(wire) IN
       /\ book' = [j \in DOMAIN book |-> IF book[j].id = e.id THEN e ELSE book[j]]
       /\ IF e.filled > 0 /\ InBook(e.id)
          THEN \E i \in Free : sync' = [sync EXCEPT ![i] = [at |-> "start"]]
          ELSE UNCHANGED sync
  /\ wire' = Tail(wire)
  /\ UNCHANGED <<exchange, proc, pos, calls, replies, snap, faults>>

(* HandleOrderUpdate: overwrites or appends the entry, whatever it says, and starts
   a sync when something is executed. *)
HandleOrderUpdate ==
  /\ Up /\ wire # <<>>
  /\ LET e == Head(wire) IN
       /\ book' = IF InBook(e.id)
                  THEN [j \in DOMAIN book |-> IF book[j].id = e.id THEN e ELSE book[j]]
                  ELSE Append(book, e)
       /\ IF e.filled > 0
          THEN \E i \in Free : sync' = [sync EXCEPT ![i] = [at |-> "start"]]
          ELSE UNCHANGED sync
  /\ wire' = Tail(wire)
  /\ UNCHANGED <<exchange, proc, pos, calls, replies, snap, faults>>
-----------------------------------------------------------------------------
(* SyncExchangeState: GetOrders answers with the broker's orders. *)
GetOrders(i) ==
  /\ sync[i].at = "start"
  /\ sync' = [sync EXCEPT ![i] =
                [at |-> "orders", orders |-> [j \in DOMAIN broker |-> Report(j, broker[j])]]]
  /\ UNCHANGED <<exchange, wire, proc, pos, book, calls, replies, snap, faults>>

(* Mutant of Retrogressive: nothing is discarded. *)
NeverRetrogressive(old, new) == FALSE

(* updateLocalOrderBookCache discards a report that is behind the entry. *)
Retrogressive(old, new) ==
  new.filled < old.filled \/ (old.status = "COMPLETE" /\ new.status # "COMPLETE")

(* updateLocalOrderBookCache: what the order book b is after a report e. *)
Cached(b, e) ==
  IF \E j \in DOMAIN b : b[j].id = e.id
  THEN [j \in DOMAIN b |-> IF b[j].id = e.id /\ ~Retrogressive(b[j], e) THEN e ELSE b[j]]
  ELSE Append(b, e)

(* The same for the orders of an answer, one after the other. *)
Cache(orders) ==
  LET after[j \in 0 .. Len(orders)] == IF j = 0 THEN book ELSE Cached(after[j - 1], orders[j])
  IN after[Len(orders)]

(* SyncExchangeState, first critical section. *)
ApplyOrders(i) ==
  /\ sync[i].at = "orders"
  /\ book' = Cache(sync[i].orders)
  /\ sync' = [sync EXCEPT ![i] = [at |-> "middle"]]
  /\ UNCHANGED <<exchange, wire, proc, pos, calls, replies, snap, faults>>

(* GetPositions answers with a row for every open position; one without exposure
   may be listed or not. *)
GetPositions(i) ==
  /\ sync[i].at = "middle"
  /\ \E listed \in SUBSET Key :
       /\ {k \in Key : net[k] # 0} \subseteq listed
       /\ sync' = [sync EXCEPT ![i] = [at |-> "positions", net |-> net, listed |-> listed]]
  /\ UNCHANGED <<exchange, wire, proc, pos, book, calls, replies, snap, faults>>

(* The startup sync is the only one while the process boots. *)
Ended == proc' = IF proc = "booting" THEN "up" ELSE proc

Listed(p, n) == IF n = 0 THEN Flat ELSE [p EXCEPT !.net = n, !.side = SideOf(n)]

(* Mutant of Reconciled: positions the broker does not list are kept. *)
ReconciledKeepsGhosts(s) ==
  [k \in Key |-> IF k \in s.listed THEN Listed(pos[k], s.net[k]) ELSE pos[k]]
(* Mutant of Reconciled: the thresholds come back from the persisted row. *)
ReconciledRearms(s) ==
  [k \in Key |-> IF k \in s.listed /\ s.net[k] # 0
                 THEN [net |-> s.net[k], side |-> SideOf(s.net[k]), tp |-> snap[k].tp, sl |-> snap[k].sl]
                 ELSE Flat]

(* What the second critical section makes of the local positions: the listed ones
   take the broker's quantity and keep their thresholds unless they are flat; a
   ghost the broker does not list is flattened. *)
Reconciled(s) ==
  [k \in Key |-> IF k \in s.listed THEN Listed(pos[k], s.net[k])
                 ELSE IF pos[k].net # 0 THEN Flat ELSE pos[k]]

(* Mutant of ApplyPositions: the row of a ghost is not written. *)
ApplyPositionsListed(i) ==
  /\ sync[i].at = "positions"
  /\ pos' = Reconciled(sync[i])
  /\ snap' = [k \in Key |-> IF k \in sync[i].listed THEN pos'[k] ELSE snap[k]]
  /\ sync' = [sync EXCEPT ![i] = Idle]
  /\ Ended
  /\ UNCHANGED <<exchange, wire, book, calls, replies, faults>>

(* SyncExchangeState, second critical section. *)
ApplyPositions(i) ==
  /\ sync[i].at = "positions"
  /\ pos' = Reconciled(sync[i])
  /\ snap' = [k \in Key |-> IF k \in sync[i].listed \/ pos[k].net # 0 THEN pos'[k] ELSE snap[k]]
  /\ sync' = [sync EXCEPT ![i] = Idle]
  /\ Ended
  /\ UNCHANGED <<exchange, wire, book, calls, replies, faults>>

(* Either call of the broker fails: the sync gives up, which is only logged. *)
SyncFails(i) ==
  /\ sync[i].at \in {"start", "middle"} /\ Fault
  /\ sync' = [sync EXCEPT ![i] = Idle]
  /\ Ended
  /\ UNCHANGED <<exchange, wire, pos, book, calls, replies, snap>>

SyncStep(i) == GetOrders(i) \/ ApplyOrders(i) \/ GetPositions(i) \/ ApplyPositions(i)
-----------------------------------------------------------------------------
(* Everything in RAM is lost, with the requests, answers and updates under way. *)
Crash ==
  /\ Up /\ Fault
  /\ proc' = "down"
  /\ pos' = [k \in Key |-> Flat]
  /\ wire' = <<>> /\ calls' = <<>> /\ replies' = {}
  /\ sync' = [i \in Slot |-> Idle]
  /\ UNCHANGED <<exchange, book, snap>>

(* initLiveState: ReconstituteState loads the day's orders and its open positions
   with their thresholds, then SyncExchangeState runs before anything else. *)
Restart ==
  /\ proc = "down"
  /\ proc' = "booting"
  /\ pos' = [k \in Key |-> IF snap[k].net # 0 THEN snap[k] ELSE Flat]
  /\ sync' = [sync EXCEPT ![1] = [at |-> "start"]]
  /\ UNCHANGED <<exchange, wire, book, calls, replies, snap, faults>>
-----------------------------------------------------------------------------
Next ==
  \/ \E i \in DOMAIN broker :
       \/ \E q \in 1 .. broker[i].qty : BrokerFill(i, q)
       \/ BrokerReject(i)
       \/ BrokerCancel(i)
       \/ CancelOrder(i)
  \/ \E s \in Symbol, d \in {"BUY", "SELL"}, q \in Qty :
       \/ PlaceOrder(s, d, q)
       \/ \E prod \in Product : ExternalOrder(s, prod, d, q)
  \/ \E id \in Id : OrderPlaced(id) \/ OrderCancelled(id)
  \/ \E k \in Key :
       \/ \E q \in Qty : ExitPosition(k, q)
       \/ \E b \in Bracket : UpdatePositionMetadata(k, b)
  \/ \E c \in DOMAIN calls : SendCall(c) \/ CallFails(c)
  \/ \E s \in Symbol, price \in Price : OnPriceUpdate(s, price)
  \/ HandleOrderUpdate
  \/ LoseUpdate
  \/ \E i \in Slot : SyncStep(i) \/ SyncFails(i)
  \/ Crash
  \/ Restart

(* The goroutines of the manager keep running, its broker calls have timeouts, and
   the ticker delivers what it has received. *)
Fairness ==
  /\ WF_vars(HandleOrderUpdate)
  /\ \A i \in Slot : WF_vars(SyncStep(i))

Spec == Init /\ [][Next]_vars /\ Fairness
-----------------------------------------------------------------------------
(* Nothing is under way any more and nothing was ever lost. *)
Quiet ==
  /\ Up /\ faults = 0
  /\ wire = <<>> /\ replies = {}
  /\ \A i \in Slot : sync[i] = Idle

(* The answer to an accepted cancel overwrites whatever status the entry has, COMPLETE
   too when a fill beat the cancel; nothing but a later report of the order heals it. *)
CancelAnswered(e) == e.status = "CANCELLED" /\ broker[e.id].cancel

(* "Prevent Race Conditions with WebSocket": whichever of the HTTP answers, the order
   update and the syncs comes first, an order has one entry, and the entry claims no
   execution and no end the broker does not know, except CANCELLED from the answer to an
   accepted cancel.  Once everything under way has arrived it has all the executions of a
   completed order: no late answer or overtaken sync takes one back, and its status is
   COMPLETE but for that exception. *)
BookFollowsBroker ==
  /\ \A j, l \in DOMAIN book : book[j].id = book[l].id => j = l
  /\ \A j \in DOMAIN book :
       LET o == broker[book[j].id] IN
       /\ book[j].filled <= o.filled
       /\ book[j].status \in {"PENDING", o.status} \/ CancelAnswered(book[j])
  /\ Quiet => \A id \in DOMAIN broker :
                broker[id].status = "COMPLETE" =>
                  \E j \in Find(id) :
                    /\ book[j].filled = broker[id].filled
                    /\ book[j].status = "COMPLETE" \/ CancelAnswered(book[j])

(* "This pulls the absolute reality" (live_manager.go:497): once everything under
   way has arrived, the positions in RAM are those of the broker. *)
PositionsReal == Quiet => \A k \in Key : pos[k].net = net[k]

(* The watchdog has just fired on position k. *)
Disarmed(k) ==
  /\ Len(calls') > Len(calls)
  /\ pos'[k] = [pos[k] EXCEPT !.tp = 0, !.sl = 0]

(* A restart may rely on the row of a position.  It has the quantity of RAM and the
   direction of that quantity, which the thresholds are compared by; without exposure
   neither RAM nor the row has a threshold (rules 4.1 and 4.3: "set to 0 in the database").
   Row and RAM part by one cause only, the watchdog that disarms the position in RAM,
   and then in nothing but the thresholds. *)
RowsCurrent ==
  /\ [](proc # "down" =>
          \A k \in Key :
            /\ snap[k].net = pos[k].net /\ snap[k].side = pos[k].side
            /\ pos[k].side = SideOf(pos[k].net)
            /\ pos[k].net = 0 => pos[k] = Flat /\ snap[k] = Flat
            /\ snap[k] = pos[k] \/ (pos[k].tp = 0 /\ pos[k].sl = 0))
  /\ [][\A k \in Key :
          proc' # "down" /\ snap'[k] # pos'[k] =>
            \/ proc # "down" /\ snap[k] # pos[k]
            \/ Disarmed(k) /\ snap'[k] = pos[k]]_vars

(* A sync that nothing overtakes between the broker's answer and its second critical
   section leaves every local position with the broker's quantity, those the
   broker has stopped listing included; the one at startup too. *)
SyncReconciles ==
  [][\A i \in Slot :
       ApplyPositions(i) /\ sync[i].net = net => \A k \in Key : pos'[k].net = net[k]]_vars

(* Rule 5.3: the watchdog fires on a position the tick has breached only; it liquidates
   the quantity the position has in RAM at that moment, on the closing side, and disarms
   it, so that the next tick does not liquidate it again. *)
LiquidationExact ==
  [][\A c \in DOMAIN calls' :
       c \notin DOMAIN calls /\ calls'[c].trigger > 0 =>
         \E k \in Key :
           /\ k[1] = calls'[c].sym
           /\ Breached(pos[k], calls'[c].trigger)
           /\ Signed(calls'[c].side, calls'[c].qty) = -pos[k].net
           /\ Disarmed(k)]_vars

(* Thresholds change by five causes only: a user, on the open position; a restart, which
   takes them from the row; the watchdog, which uses them up; a sync that finds the
   position closed, or a crash; and a change of direction, which may only clear them.
   Nothing else arms one, so that a position the watchdog has fired on is not liquidated
   again before one of these. *)
ThresholdsChange ==
  [][\A k \in Key :
       <<pos'[k].tp, pos'[k].sl>> # <<pos[k].tp, pos[k].sl>> =>
         \/ Up /\ pos'[k].net = pos[k].net /\ pos[k].net # 0 /\ snap'[k] = pos'[k]
            /\ UNCHANGED <<calls, sync, book>>
         \/ proc = "down" /\ pos'[k] = snap[k]
         \/ Disarmed(k)
         \/ pos'[k] = Flat
         \/ pos'[k].side # pos[k].side /\ pos'[k].tp = 0 /\ pos'[k].sl = 0]_vars

(* Rule 4.3: "If a position is fully reversed, previous directional risk rules are
   automatically invalidated."  The code clears them only when a sync finds the position
   flat: a sync that finds it reversed keeps the thresholds of the old direction. *)
ReversalDisarms ==
  [][\A k \in Key :
       {pos[k].side, pos'[k].side} = {"LONG", "SHORT"} => pos'[k].tp = 0 /\ pos'[k].sl = 0]_vars

(* A completed order is eventually shown as complete: the update that announces it
   is handled even when every sync slot was taken.  The answer to an accepted cancel may
   take that status away again. *)
CompletionShown ==
  \A id \in Id :
    id \in DOMAIN broker /\ broker[id].status = "COMPLETE"
      ~> \/ faults > 0
         \/ \E j \in Find(id) : book[j].status = "COMPLETE" \/ CancelAnswered(book[j])
=============================================================================
