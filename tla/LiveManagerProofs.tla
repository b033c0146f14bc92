--------------------------- MODULE LiveManagerProofs ---------------------------
(***************************************************************************)
(* The live order manager, for any symbols, products, quantities, prices,  *)
(* brackets and bounds: its types, what the rows of gidh_positions say,    *)
(* what its steps may do to thresholds and positions, and the order book   *)
(* against the broker's orders.                                            *)
(***************************************************************************)
EXTENDS LiveManager, FiniteSetTheorems, WellFoundedInduction, TLAPS

(* Sequences under the operations of the model. *)
LEMMA Appended ==
  ASSUME NEW S, NEW s \in Seq(S), NEW e \in S
  PROVE  /\ Append(s, e) \in Seq(S) /\ Len(s) \in Nat /\ Len(Append(s, e)) = Len(s) + 1
         /\ DOMAIN s = 1 .. Len(s) /\ DOMAIN Append(s, e) = 1 .. Len(s) + 1
         /\ \A i \in 1 .. Len(s) : Append(s, e)[i] = s[i] /\ s[i] \in S
         /\ Append(s, e)[Len(s) + 1] = e
  OBVIOUS

LEMMA Taken ==
  ASSUME NEW S, NEW s \in Seq(S), s # <<>>
  PROVE  /\ Len(s) \in Nat \ {0} /\ DOMAIN s = 1 .. Len(s)
         /\ Head(s) = s[1] /\ Head(s) \in S
         /\ Tail(s) \in Seq(S) /\ Len(Tail(s)) = Len(s) - 1 /\ DOMAIN Tail(s) = 1 .. Len(s) - 1
         /\ \A i \in 1 .. Len(s) - 1 : Tail(s)[i] = s[i + 1]
  OBVIOUS

LEMMA Replaced ==
  ASSUME NEW S, NEW s \in Seq(S), NEW i \in DOMAIN s, NEW e \in S
  PROVE  LET r == [s EXCEPT ![i] = e] IN
         /\ r \in Seq(S) /\ Len(r) = Len(s) /\ DOMAIN r = DOMAIN s
         /\ \A j \in DOMAIN s : r[j] = IF j = i THEN e ELSE s[j]
  OBVIOUS

LEMMA Joined ==
  ASSUME NEW S, NEW s \in Seq(S), NEW t \in Seq(S)
  PROVE  /\ Len(s) \in Nat /\ Len(t) \in Nat /\ s \o t \in Seq(S) /\ Len(s \o t) = Len(s) + Len(t)
         /\ DOMAIN (s \o t) = 1 .. Len(s) + Len(t)
         /\ \A i \in 1 .. Len(s) + Len(t) : (s \o t)[i] = IF i <= Len(s) THEN s[i] ELSE t[i - Len(s)]
  OBVIOUS

LEMMA Removed ==
  ASSUME NEW S, NEW s \in Seq(S), NEW i \in DOMAIN s
  PROVE  /\ Len(s) \in Nat /\ i \in 1 .. Len(s)
         /\ RemoveAt(s, i) \in Seq(S) /\ Len(RemoveAt(s, i)) = Len(s) - 1
<1> DEFINE l == SubSeq(s, 1, i - 1)
           r == SubSeq(s, i + 1, Len(s))
<1>1. Len(s) \in Nat /\ i \in 1 .. Len(s) OBVIOUS
<1>2. l \in Seq(S) /\ Len(l) = i - 1 BY <1>1
<1>3. r \in Seq(S) /\ Len(r) = Len(s) - i BY <1>1
<1>. HIDE DEF l, r
<1>4. l \o r \in Seq(S) /\ Len(l \o r) = Len(l) + Len(r) BY <1>2, <1>3, Joined
<1>5. RemoveAt(s, i) = l \o r BY DEF RemoveAt, l, r
<1>. QED BY <1>1, <1>2, <1>3, <1>4, <1>5

LEMMA Constants ==
  /\ "MIS" \in Product /\ Product \subseteq {"MIS", "CNC"} /\ IsFiniteSet(Product)
  /\ Qty \subseteq Nat /\ Price \subseteq Nat /\ MaxOrders \in Nat /\ MaxSync \in Nat \ {0}
  /\ MaxFaults \in Nat
  /\ \A b \in Bracket : b[1] \in {0} \cup Price /\ b[2] \in {0} \cup Price
<1>1. IsFiniteSet({"MIS", "CNC"})
  <2>1. IsFiniteSet({"MIS"} \cup {"CNC"}) BY FS_Singleton, FS_Union
  <2>2. {"MIS"} \cup {"CNC"} = {"MIS", "CNC"} OBVIOUS
  <2>. QED BY <2>1, <2>2
<1>2. IsFiniteSet(Product) BY <1>1, FS_Subset, LiveAssumption
<1>. QED BY <1>2, LiveAssumption

(* The breached positions of a symbol: a list of each, once. *)
LEMMA Listing ==
  ASSUME NEW s, NEW H, H \subseteq {k \in Key : k[1] = s}
  PROVE  /\ IsFiniteSet(H)
         /\ SetToSeq(H) \in Seq(H) /\ Len(SetToSeq(H)) \in Nat
         /\ DOMAIN SetToSeq(H) = 1 .. Len(SetToSeq(H)) /\ ToSet(SetToSeq(H)) = H
<1>1. IsFiniteSet({s} \X Product)
  BY Constants, FS_Singleton, FS_Product
<1>2. H \subseteq {s} \X Product BY DEF Key
<1>3. IsFiniteSet(H) BY <1>1, <1>2, FS_Subset
<1>4. /\ Cardinality(H) \in Nat
      /\ ExistsBijection(1 .. Cardinality(H), H)
  BY <1>3, FS_CardinalityType
<1>5. PICK f \in [1 .. Cardinality(H) -> H] : IsInjective(f)
  BY <1>4 DEF ExistsBijection, Bijection, Injection
<1>6. SetToSeq(H) \in [1 .. Cardinality(H) -> H] /\ IsInjective(SetToSeq(H))
  BY <1>5, Zenon DEF SetToSeq
<1> DEFINE g == SetToSeq(H)
<1>7. g \in Injection(1 .. Cardinality(H), H) BY <1>6 DEF Injection
<1>8. Cardinality(1 .. Cardinality(H)) = Cardinality(H)
  BY <1>4, FS_Interval
<1>9. g \in Surjection(1 .. Cardinality(H), H) BY <1>3, <1>7, <1>8, FS_Injection
<1>. HIDE DEF g
<1>10. ToSet(g) = H
  <2>1. g \in [1 .. Cardinality(H) -> H] /\ \A t \in H : \E j \in 1 .. Cardinality(H) : g[j] = t
    BY <1>9 DEF Surjection
  <2>. QED BY <2>1 DEF ToSet
<1>11. g \in Seq(H) /\ Len(g) \in Nat /\ DOMAIN g = 1 .. Len(g)
  <2>1. g \in [1 .. Cardinality(H) -> H] BY <1>6 DEF g
  <2>. QED BY <2>1, <1>4
<1>. QED BY <1>3, <1>10, <1>11 DEF g
-----------------------------------------------------------------------------
(* Type correctness.  The bound on the orders of the broker counts the requests that
   goroutines are about to send: SendCall does not test it. *)
Types == TypeOK /\ Len(broker) + Len(calls) <= MaxOrders

LEMMA ReportType ==
  ASSUME NEW id \in Id, NEW o \in BrokerOrder
  PROVE  Report(id, o) \in Entry /\ Report(id, o).id = id /\ Report(id, o).filled = o.filled
  BY DEF Report, Entry, BrokerOrder, Final

LEMMA Changed ==
  ASSUME NEW o \in BrokerOrder, NEW f \in Nat, NEW st \in {"OPEN"} \cup Final
  PROVE  LET c == [o EXCEPT !.filled = f, !.status = st] IN
         /\ c \in BrokerOrder /\ c.filled = f /\ c.status = st
  BY DEF BrokerOrder

LEMMA SideTypes ==
  ASSUME NEW n \in Int
  PROVE  /\ SideOf(n) \in {"LONG", "SHORT", "FLAT"} /\ Abs(n) \in Nat
         /\ \A q \in Nat, d \in {"BUY", "SELL"} : Signed(d, q) \in Int
  BY DEF SideOf, Abs, Signed

LEMMA FlatType == Flat \in Position
  BY DEF Flat, Position

(* What the broker's record of an order may become. *)
LEMMA RecordTypes ==
  ASSUME Types, NEW id \in Id, id <= Len(broker) + 1, NEW o \in BrokerOrder, Record(id, o)
  PROVE  /\ broker' \in Seq(BrokerOrder) /\ wire' \in Seq(Entry)
         /\ Len(broker') = IF id \in DOMAIN broker THEN Len(broker) ELSE Len(broker) + 1
         /\ DOMAIN broker' = DOMAIN broker \cup {id}
         /\ \A i \in DOMAIN broker' : broker'[i] = IF i = id THEN o ELSE broker[i]
<1>0. broker \in Seq(BrokerOrder) /\ wire \in Seq(Entry) BY DEF Types, TypeOK
<1>1. wire' \in Seq(Entry)
  <2>1. Report(id, o) \in Entry BY ReportType
  <2>2. wire' = Append(wire, Report(id, o)) \/ wire' = wire BY DEF Record, Notify
  <2>3. Append(wire, Report(id, o)) \in Seq(Entry) BY <1>0, <2>1, Appended
  <2>. QED BY <1>0, <2>2, <2>3
<1>2. CASE id \in DOMAIN broker
  <2>1. broker' = [broker EXCEPT ![id] = o] BY <1>2 DEF Record
  <2>2. /\ broker' \in Seq(BrokerOrder) /\ Len(broker') = Len(broker) /\ DOMAIN broker' = DOMAIN broker
        /\ \A i \in DOMAIN broker : broker'[i] = IF i = id THEN o ELSE broker[i]
    BY <1>0, <1>2, <2>1, Replaced
  <2>. QED BY <1>1, <1>2, <2>2
<1>3. CASE id \notin DOMAIN broker
  <2>1. broker' = Append(broker, o) BY <1>3 DEF Record
  <2>2. id = Len(broker) + 1 BY <1>0, <1>3 DEF Id
  <2>3. Len(broker) \in Nat /\ DOMAIN broker = 1 .. Len(broker) BY <1>0
  <2>4. /\ broker' \in Seq(BrokerOrder) /\ Len(broker') = Len(broker) + 1
        /\ DOMAIN broker' = 1 .. Len(broker) + 1
        /\ \A i \in 1 .. Len(broker) : broker'[i] = broker[i]
        /\ broker'[Len(broker) + 1] = o
    BY <1>0, <2>1, Appended
  <2>. QED BY <1>1, <1>3, <2>2, <2>3, <2>4
<1>. QED BY <1>2, <1>3

(* A new order of the broker. *)
LEMMA AcceptTypes ==
  ASSUME Types, NEW s \in Symbol, NEW prod \in Product, NEW d \in {"BUY", "SELL"}, NEW q \in Nat,
         Len(broker) < MaxOrders, Accept(s, prod, d, q)
  PROVE  /\ Len(broker) + 1 \in Id
         /\ broker' \in Seq(BrokerOrder) /\ wire' \in Seq(Entry) /\ Len(broker') = Len(broker) + 1
<1>1. Len(broker) + 1 \in Id BY Constants DEF Types, TypeOK, Id
<1>2. [sym |-> s, prod |-> prod, side |-> d, qty |-> q, filled |-> 0, status |-> "OPEN",
       cancel |-> FALSE] \in BrokerOrder
  BY DEF BrokerOrder, Final
<1>3. Len(broker) + 1 \notin DOMAIN broker BY DEF Types, TypeOK
<1>4. Len(broker) + 1 <= Len(broker) + 1 BY <1>1 DEF Id
<1>5. PICK o \in BrokerOrder : Record(Len(broker) + 1, o) BY <1>2 DEF Accept
<1>. QED BY <1>1, <1>3, <1>4, <1>5, RecordTypes
LEMMA InitTypes == Init => Types
<1>. SUFFICES ASSUME Init PROVE Types OBVIOUS
<1>1. broker \in Seq(BrokerOrder) /\ Len(broker) = 0 /\ calls \in Seq(Request) /\ Len(calls) = 0
  BY DEF Init
<1>2. wire \in Seq(Entry) /\ book \in Seq(Entry) BY DEF Init
<1>3. pos \in [Key -> Position] /\ snap \in [Key -> Position] BY FlatType DEF Init
<1>4. sync \in [Slot -> SyncState] BY DEF Init, Idle, SyncState
<1>. QED BY <1>1, <1>2, <1>3, <1>4, Constants DEF Init, Types, TypeOK

(* An accepted request to cancel changes nothing else in the broker's record. *)
LEMMA CancelTypes ==
  ASSUME Types, NEW i \in DOMAIN broker, CancelOrder(i)
  PROVE  /\ broker' \in Seq(BrokerOrder) /\ Len(broker') = Len(broker) /\ DOMAIN broker' = DOMAIN broker
         /\ broker'[i] \in BrokerOrder /\ broker'[i].cancel
         /\ broker'[i].filled = broker[i].filled /\ broker'[i].status = broker[i].status
         /\ \A j \in DOMAIN broker : j # i => broker'[j] = broker[j]
<1>0. broker \in Seq(BrokerOrder) /\ broker[i] \in BrokerOrder BY DEF Types, TypeOK
<1> DEFINE o == [broker[i] EXCEPT !.cancel = TRUE]
<1>1. o \in BrokerOrder /\ o.cancel /\ o.filled = broker[i].filled /\ o.status = broker[i].status
  BY <1>0 DEF BrokerOrder
<1>2. broker' = [broker EXCEPT ![i] = o] BY DEF CancelOrder
<1>. HIDE DEF o
<1>3. /\ broker' \in Seq(BrokerOrder) /\ Len(broker') = Len(broker) /\ DOMAIN broker' = DOMAIN broker
      /\ \A j \in DOMAIN broker : broker'[j] = IF j = i THEN o ELSE broker[j]
  BY <1>0, <1>1, <1>2, Replaced
<1>. QED BY <1>1, <1>3, Zenon

(* What the broker does alone, and the requests of the manager. *)
LEMMA BrokerTypes ==
  ASSUME Types, NEW i \in DOMAIN broker,
         \/ \E q \in 1 .. broker[i].qty : BrokerFill(i, q)
         \/ BrokerReject(i) \/ BrokerCancel(i) \/ CancelOrder(i)
  PROVE  Types'
<1>. USE DEF Types, TypeOK
<1>1. i \in Id /\ i <= Len(broker) + 1 /\ broker[i] \in BrokerOrder BY Constants DEF Id
<1>2. ASSUME NEW q \in 1 .. broker[i].qty, BrokerFill(i, q) PROVE Types'
  <2> DEFINE o == [broker[i] EXCEPT !.filled = @ + q,
                     !.status = IF broker[i].filled + q = broker[i].qty THEN "COMPLETE" ELSE "OPEN"]
  <2>0. /\ broker[i].filled \in Nat /\ broker[i].qty \in Nat /\ q \in Nat
        /\ broker[i].side \in {"BUY", "SELL"} /\ <<broker[i].sym, broker[i].prod>> \in Key
    BY <1>1 DEF BrokerOrder, Key
  <2>1. o \in BrokerOrder
    <3>1. PICK f \in Nat : f = broker[i].filled + q BY <2>0
    <3>2. PICK st \in {"OPEN", "COMPLETE"} : st = IF f = broker[i].qty THEN "COMPLETE" ELSE "OPEN" OBVIOUS
    <3>3. o = [broker[i] EXCEPT !.filled = f, !.status = st] BY <3>1, <3>2
    <3>. HIDE DEF o
    <3>. QED BY <1>1, <3>3, Changed DEF Final
  <2>2. Record(i, o) BY <1>2 DEF BrokerFill
  <2>. HIDE DEF o
  <2>3. broker' \in Seq(BrokerOrder) /\ wire' \in Seq(Entry) /\ Len(broker') = Len(broker)
    BY <1>1, <2>1, <2>2, RecordTypes
  <2>4. net' \in [Key -> Int]
    <3>1. Signed(broker[i].side, q) \in Int BY <2>0 DEF Signed
    <3>2. net' = [net EXCEPT ![<<broker[i].sym, broker[i].prod>>] = @ + Signed(broker[i].side, q)]
      BY <1>2 DEF BrokerFill
    <3>. QED BY <2>0, <3>1, <3>2
  <2>. QED BY <1>2, <2>3, <2>4 DEF BrokerFill
<1>3. CASE BrokerReject(i)
  <2>1. [broker[i] EXCEPT !.status = "REJECTED"] \in BrokerOrder BY <1>1 DEF BrokerOrder, Final
  <2>2. broker' \in Seq(BrokerOrder) /\ wire' \in Seq(Entry) /\ Len(broker') = Len(broker)
    BY <1>1, <1>3, <2>1, RecordTypes DEF BrokerReject
  <2>. QED BY <1>3, <2>2 DEF BrokerReject
<1>4. CASE BrokerCancel(i)
  <2>1. [broker[i] EXCEPT !.status = "CANCELLED"] \in BrokerOrder BY <1>1 DEF BrokerOrder, Final
  <2>2. broker' \in Seq(BrokerOrder) /\ wire' \in Seq(Entry) /\ Len(broker') = Len(broker)
    BY <1>1, <1>4, <2>1, RecordTypes DEF BrokerCancel
  <2>. QED BY <1>4, <2>2 DEF BrokerCancel
<1>5. CASE CancelOrder(i)
  <2>1. broker' \in Seq(BrokerOrder) /\ Len(broker') = Len(broker)
    BY <1>5, CancelTypes
  <2>2. replies' \in SUBSET [kind: {"placed", "cancelled"}, id: Id] BY <1>1, <1>5 DEF CancelOrder
  <2>. QED BY <1>5, <2>1, <2>2 DEF CancelOrder
<1>. QED BY <1>2, <1>3, <1>4, <1>5

LEMMA RequestTypes ==
  ASSUME Types, NEW s \in Symbol, NEW d \in {"BUY", "SELL"}, NEW q \in Qty,
         PlaceOrder(s, d, q) \/ \E prod \in Product : ExternalOrder(s, prod, d, q)
  PROVE  Types'
<1>1. q \in Nat /\ "MIS" \in Product BY Constants
<1>2. Len(broker) \in Nat /\ Len(calls) \in Nat /\ MaxOrders \in Nat BY Constants DEF Types, TypeOK
<1>3. Len(broker) < MaxOrders /\ Len(broker) + 1 + Len(calls) <= MaxOrders
  BY <1>2 DEF PlaceOrder, ExternalOrder, Room
<1>4. CASE PlaceOrder(s, d, q)
  <2>1. /\ Len(broker) + 1 \in Id
        /\ broker' \in Seq(BrokerOrder) /\ wire' \in Seq(Entry) /\ Len(broker') = Len(broker) + 1
    BY <1>1, <1>3, <1>4, AcceptTypes DEF PlaceOrder
  <2>2. replies' \in SUBSET [kind: {"placed", "cancelled"}, id: Id] BY <1>4, <2>1 DEF PlaceOrder, Types, TypeOK
  <2>3. net' = net BY <1>4 DEF PlaceOrder, Accept
  <2>. QED BY <1>2, <1>3, <1>4, <2>1, <2>2, <2>3 DEF PlaceOrder, Types, TypeOK
<1>5. ASSUME NEW prod \in Product, ExternalOrder(s, prod, d, q) PROVE Types'
  <2>1. /\ broker' \in Seq(BrokerOrder) /\ wire' \in Seq(Entry) /\ Len(broker') = Len(broker) + 1
    BY <1>1, <1>3, <1>5, AcceptTypes DEF ExternalOrder
  <2>3. net' = net BY <1>5 DEF ExternalOrder, Accept
  <2>. QED BY <1>2, <1>3, <1>5, <2>1, <2>3 DEF ExternalOrder, Types, TypeOK
<1>. QED BY <1>4, <1>5

LEMMA CallTypes ==
  ASSUME Types, NEW c \in DOMAIN calls, SendCall(c) \/ CallFails(c)
  PROVE  Types'
<1>1. calls \in Seq(Request) /\ broker \in Seq(BrokerOrder) /\ Len(broker) + Len(calls) <= MaxOrders
  BY DEF Types, TypeOK
<1>2. calls[c] \in Request BY <1>1
<1>3. /\ Len(calls) \in Nat /\ Len(calls) >= 1 /\ RemoveAt(calls, c) \in Seq(Request)
      /\ Len(RemoveAt(calls, c)) = Len(calls) - 1
  BY <1>1, Removed
<1>4. Len(broker) \in Nat /\ MaxOrders \in Nat BY <1>1, Constants
<1>5. CASE SendCall(c)
  <2>1. /\ broker' \in Seq(BrokerOrder) /\ wire' \in Seq(Entry) /\ Len(broker') = Len(broker) + 1
    <3>1. /\ calls[c].sym \in Symbol /\ calls[c].side \in {"BUY", "SELL"} /\ calls[c].qty \in Nat
      BY <1>2 DEF Request
    <3>2. Len(broker) < MaxOrders BY <1>1, <1>3, <1>4
    <3>3. Accept(calls[c].sym, "MIS", calls[c].side, calls[c].qty) BY <1>5 DEF SendCall
    <3>. QED BY <3>1, <3>2, <3>3, AcceptTypes, Constants
  <2>2. net' = net BY <1>5 DEF SendCall, Accept
  <2>3. calls' = RemoveAt(calls, c) BY <1>5 DEF SendCall
  <2>. QED BY <1>1, <1>3, <1>4, <1>5, <2>1, <2>2, <2>3 DEF SendCall, Types, TypeOK
<1>6. CASE CallFails(c)
  <2>1. calls' = RemoveAt(calls, c) BY <1>6 DEF CallFails
  <2>2. faults' \in 0 .. MaxFaults BY <1>6, Constants DEF CallFails, Fault, Types, TypeOK
  <2>. QED BY <1>1, <1>3, <1>4, <1>6, <2>1, <2>2 DEF CallFails, exchange, Types, TypeOK
<1>. QED BY <1>5, <1>6
LEMMA UserTypes ==
  ASSUME Types, NEW k \in Key
  PROVE  (\E q \in Qty : ExitPosition(k, q)) \/ (\E b \in Bracket : UpdatePositionMetadata(k, b)) => Types'
<1>1. ASSUME NEW q \in Qty, ExitPosition(k, q) PROVE Types'
  <2>1. k[1] \in Symbol /\ q \in Nat BY Constants DEF Key
  <2>2. [sym |-> k[1], side |-> Opposite(pos[k]), qty |-> q, trigger |-> 0] \in Request
    BY <2>1 DEF Request, Opposite
  <2>3. PICK r \in Request : calls' = Append(calls, r) BY <1>1, <2>2 DEF ExitPosition
  <2>4. calls' \in Seq(Request) /\ Len(calls') = Len(calls) + 1 /\ Len(calls) \in Nat
    BY <2>3, Appended DEF Types, TypeOK
  <2>5. Len(broker) + Len(calls) < MaxOrders BY <1>1 DEF ExitPosition, Room
  <2>6. Len(broker) \in Nat BY DEF Types, TypeOK
  <2>. QED BY <1>1, <2>4, <2>5, <2>6, Constants DEF ExitPosition, exchange, Types, TypeOK
<1>2. ASSUME NEW b \in Bracket, UpdatePositionMetadata(k, b) PROVE Types'
  <2>1. b[1] \in {0} \cup Price /\ b[2] \in {0} \cup Price BY Constants
  <2>2. PICK x \in {0} \cup Price, y \in {0} \cup Price : pos' = [pos EXCEPT ![k].tp = x, ![k].sl = y]
    BY <1>2, <2>1 DEF UpdatePositionMetadata
  <2>3. pos' \in [Key -> Position]
    <3>1. pos \in [Key -> Position] BY DEF Types, TypeOK
    <3>. QED BY <2>2, <3>1 DEF Position
  <2>4. snap' \in [Key -> Position] BY <1>2, <2>3 DEF UpdatePositionMetadata, Types, TypeOK
  <2>. QED BY <1>2, <2>3, <2>4 DEF UpdatePositionMetadata, exchange, Types, TypeOK
<1>. QED BY <1>1, <1>2

LEMMA WatchdogTypes ==
  ASSUME Types, NEW s \in Symbol, NEW price \in Price, OnPriceUpdate(s, price)
  PROVE  /\ Types'
         /\ \A k \in Key :
              pos'[k] = IF k[1] = s /\ Breached(pos[k], price) THEN [pos[k] EXCEPT !.tp = 0, !.sl = 0] ELSE pos[k]
         /\ Len(calls) \in Nat /\ DOMAIN calls = 1 .. Len(calls) /\ Len(calls') >= Len(calls)
         /\ \A k \in Key : k[1] = s /\ Breached(pos[k], price) => Len(calls') > Len(calls)
         /\ \A c \in DOMAIN calls' : c \notin DOMAIN calls =>
              \E k \in Key : k[1] = s /\ Breached(pos[k], price) /\ calls'[c] = Liquidation(k, price)
<1> DEFINE H == {k \in Key : k[1] = s /\ Breached(pos[k], price)}
           hit == SetToSeq(H)
           new == [j \in DOMAIN hit |-> Liquidation(hit[j], price)]
<1>1. hit \in Seq(H) /\ Len(hit) \in Nat /\ DOMAIN hit = 1 .. Len(hit) /\ ToSet(hit) = H
  BY Listing
<1>2. ASSUME NEW k \in Key PROVE Liquidation(k, price) \in Request
  <2>1. pos[k].net \in Int BY DEF Types, TypeOK, Position
  <2>2. Abs(pos[k].net) \in Nat BY <2>1, SideTypes
  <2>3. k[1] \in Symbol BY DEF Key
  <2>. QED BY <2>2, <2>3 DEF Liquidation, Request, Opposite
<1>3. H \subseteq Key OBVIOUS
<1>4. calls' = calls \o new BY Zenon DEF OnPriceUpdate
<1>5. Len(broker) + Len(calls) + Len(hit) <= MaxOrders BY Zenon DEF OnPriceUpdate
<1>6. pos' = [k \in Key |-> IF k \in ToSet(hit) THEN [pos[k] EXCEPT !.tp = 0, !.sl = 0] ELSE pos[k]]
  BY Zenon DEF OnPriceUpdate
<1>7. UNCHANGED <<exchange, wire, proc, book, replies, sync, snap, faults>>
  BY Zenon DEF OnPriceUpdate
<1>8. \A k \in Key : k \in H <=> k[1] = s /\ Breached(pos[k], price) BY Zenon
<1>. HIDE DEF H, hit
<1>9. \A j \in 1 .. Len(hit) : hit[j] \in H /\ hit[j] \in Key BY <1>1, <1>3
<1>10. new \in Seq(Request) /\ Len(new) = Len(hit) /\ \A j \in 1 .. Len(hit) : new[j] = Liquidation(hit[j], price)
  <2>1. \A j \in 1 .. Len(hit) : Liquidation(hit[j], price) \in Request BY <1>2, <1>9
  <2>. QED BY <1>1, <2>1
<1>11. calls \in Seq(Request) /\ Len(broker) \in Nat BY DEF Types, TypeOK
<1>. HIDE DEF new
<1>12. /\ Len(calls) \in Nat /\ DOMAIN calls = 1 .. Len(calls)
      /\ calls' \in Seq(Request) /\ Len(calls') = Len(calls) + Len(hit)
      /\ DOMAIN calls' = 1 .. Len(calls) + Len(hit)
      /\ \A i \in 1 .. Len(calls) + Len(hit) :
           calls'[i] = IF i <= Len(calls) THEN calls[i] ELSE new[i - Len(calls)]
  <2>0. new \in Seq(Request) /\ Len(new) = Len(hit) BY <1>10
  <2>1. /\ Len(calls) \in Nat /\ Len(new) \in Nat
        /\ calls \o new \in Seq(Request) /\ Len(calls \o new) = Len(calls) + Len(new)
        /\ DOMAIN (calls \o new) = 1 .. Len(calls) + Len(new)
        /\ \A i \in 1 .. Len(calls) + Len(new) :
             (calls \o new)[i] = IF i <= Len(calls) THEN calls[i] ELSE new[i - Len(calls)]
    BY <2>0, <1>11, Joined, Zenon
  <2>2. DOMAIN calls = 1 .. Len(calls) BY <1>11
  <2>. QED BY <1>4, <2>0, <2>1, <2>2
<1>13. Types'
  <2>1. \A k \in Key : [pos[k] EXCEPT !.tp = 0, !.sl = 0] \in Position BY DEF Types, TypeOK, Position
  <2>2. pos' \in [Key -> Position] BY <1>6, <2>1 DEF Types, TypeOK
  <2>3. /\ broker' = broker /\ net' = net /\ wire' = wire /\ proc' = proc /\ book' = book
        /\ replies' = replies /\ sync' = sync /\ snap' = snap /\ faults' = faults
    BY <1>7 DEF exchange
  <2>4. Len(broker') + Len(calls') <= MaxOrders BY <1>1, <1>5, <1>11, <1>12, <2>3, Constants
  <2>. QED BY <1>12, <2>2, <2>3, <2>4 DEF Types, TypeOK
<1>14. \A k \in Key :
         pos'[k] = IF k[1] = s /\ Breached(pos[k], price) THEN [pos[k] EXCEPT !.tp = 0, !.sl = 0] ELSE pos[k]
  BY <1>1, <1>6, <1>8
<1>15. ASSUME NEW k \in Key, k[1] = s, Breached(pos[k], price) PROVE Len(calls') > Len(calls)
  <2>1. k \in ToSet(hit) BY <1>1, <1>8, <1>15
  <2>2. Len(hit) > 0 BY <1>1, <2>1 DEF ToSet
  <2>. QED BY <1>1, <1>12, <2>2
<1>16. ASSUME NEW c \in DOMAIN calls', c \notin DOMAIN calls
       PROVE  \E k \in Key : k[1] = s /\ Breached(pos[k], price) /\ calls'[c] = Liquidation(k, price)
  <2>1. c \in 1 .. Len(calls) + Len(hit) /\ ~(c <= Len(calls)) BY <1>1, <1>12, <1>16
  <2>2. c - Len(calls) \in 1 .. Len(hit) BY <1>1, <1>12, <2>1
  <2>3. calls'[c] = Liquidation(hit[c - Len(calls)], price) BY <1>10, <1>12, <2>1, <2>2
  <2>4. hit[c - Len(calls)] \in Key /\ hit[c - Len(calls)] \in H BY <1>9, <2>2
  <2>5. PICK k \in Key : k = hit[c - Len(calls)] BY <2>4
  <2>6. k[1] = s /\ Breached(pos[k], price) BY <1>8, <2>4, <2>5, Zenon
  <2>7. calls'[c] = Liquidation(k, price) BY <2>3, <2>5, Zenon
  <2>. QED BY <2>6, <2>7, Zenon
<1>17. Len(calls') >= Len(calls) BY <1>1, <1>12
<1>. QED BY <1>12, <1>13, <1>14, <1>15, <1>16, <1>17, Zenon
-----------------------------------------------------------------------------
(* A set of natural numbers that is not empty has a least element: the form of induction
   used below. *)
LEMMA LeastNatural ==
  ASSUME NEW T \in SUBSET Nat, T # {}
  PROVE  \E n \in T : \A m \in T : n <= m
<1> DEFINE R == {p \in Nat \X Nat : p[1] < p[2]}
<1>1. IsWellFoundedOn(R, Nat) BY NatLessThanWellFounded DEF OpToRel
<1>2. PICK n \in T : \A m \in T : <<m, n>> \notin R BY <1>1, WFMin
<1>3. \A m \in T : ~(m < n) BY <1>2
<1>. QED BY <1>3

(* The loop of the first critical section, from an order book b: it has a value for every
   number of orders gone through. *)
Loop(b, orders) ==
  CHOOSE g : g = [j \in 0 .. Len(orders) |-> IF j = 0 THEN b ELSE Cached(g[j - 1], orders[j])]

LEMMA LoopUnfolds ==
  ASSUME NEW b, NEW orders \in Seq(Entry)
  PROVE  LET g == Loop(b, orders) IN
         /\ g[0] = b /\ \A j \in 1 .. Len(orders) : g[j] = Cached(g[j - 1], orders[j])
<1> DEFINE Is(g, m) == g = [j \in 0 .. m |-> IF j = 0 THEN b ELSE Cached(g[j - 1], orders[j])]
           T == {m \in Nat : ~ \E g : Is(g, m)}
<1>1. \A m \in Nat : \E g : Is(g, m)
  <2>. SUFFICES ASSUME T # {} PROVE FALSE OBVIOUS
  <2>1. T \in SUBSET Nat OBVIOUS
  <2>. HIDE DEF T
  <2>2. PICK n \in T : \A m \in T : n <= m BY <2>1, LeastNatural
  <2>. USE DEF T
  <2>3. n \in Nat /\ ~ \E g : Is(g, n) BY <2>2
  <2>4. CASE n = 0
    <3>1. Is([j \in 0 .. 0 |-> b], 0) OBVIOUS
    <3>. QED BY <2>3, <2>4, <3>1
  <2>5. CASE n # 0
    <3>1. n - 1 \in Nat /\ n - 1 \notin T
      <4>1. n - 1 \in Nat /\ ~(n <= n - 1) BY <2>3, <2>5
      <4>. HIDE DEF T
      <4>. QED BY <2>2, <4>1
    <3>2. PICK g : Is(g, n - 1) BY <3>1
    <3> DEFINE h == [j \in 0 .. n |-> IF j = n THEN Cached(g[n - 1], orders[n]) ELSE g[j]]
    <3>3. \A j \in 0 .. n - 1 : g[j] = IF j = 0 THEN b ELSE Cached(g[j - 1], orders[j]) BY <3>2
    <3>4. \A j \in 0 .. n : h[j] = IF j = 0 THEN b ELSE Cached(h[j - 1], orders[j])
      BY <2>3, <2>5, <3>3
    <3>5. Is(h, n) BY <3>4
    <3>. QED BY <2>3, <3>5
  <2>. QED BY <2>4, <2>5
<1>2. Len(orders) \in Nat OBVIOUS
<1>3. \E g : Is(g, Len(orders)) BY <1>1, <1>2
<1>4. Is(Loop(b, orders), Len(orders)) BY <1>3, Zenon DEF Loop
<1>. HIDE DEF Loop
<1>5. \A j \in 0 .. Len(orders) :
        Loop(b, orders)[j] = IF j = 0 THEN b ELSE Cached(Loop(b, orders)[j - 1], orders[j])
  BY <1>2, <1>4
<1>. QED BY <1>2, <1>5

LEMMA CacheIsLoop ==
  ASSUME NEW orders
  PROVE  Cache(orders) = Loop(book, orders)[Len(orders)]
  BY DEF Cache, Loop

(* One report: the entries of the order book, and what has become of each. *)
LEMMA CachedTypes ==
  ASSUME NEW b \in Seq(Entry), NEW e \in Entry
  PROVE  Cached(b, e) \in Seq(Entry)
<1>1. Append(b, e) \in Seq(Entry) BY Appended
<1>2. [j \in DOMAIN b |-> IF b[j].id = e.id /\ ~Retrogressive(b[j], e) THEN e ELSE b[j]] \in Seq(Entry)
  <2>1. DOMAIN b = 1 .. Len(b) /\ Len(b) \in Nat /\ \A j \in 1 .. Len(b) : b[j] \in Entry OBVIOUS
  <2>. QED BY <2>1
<1>. QED BY <1>1, <1>2 DEF Cached
LEMMA CacheTypes ==
  ASSUME NEW orders \in Seq(Entry), book \in Seq(Entry)
  PROVE  Cache(orders) \in Seq(Entry)
<1> DEFINE g == Loop(book, orders)
           T == {j \in 0 .. Len(orders) : g[j] \notin Seq(Entry)}
<1>1. g[0] = book /\ \A j \in 1 .. Len(orders) : g[j] = Cached(g[j - 1], orders[j]) BY LoopUnfolds
<1>. HIDE DEF g
<1>2. Len(orders) \in Nat OBVIOUS
<1>3. T = {}
  <2>. SUFFICES ASSUME T # {} PROVE FALSE OBVIOUS
  <2>1. T \in SUBSET Nat BY <1>2
  <2>. HIDE DEF T
  <2>2. PICK n \in T : \A m \in T : n <= m BY <2>1, LeastNatural
  <2>. USE DEF T
  <2>3. n \in 1 .. Len(orders) /\ n - 1 \in 0 .. Len(orders) BY <1>1, <1>2, <2>2
  <2>4. n - 1 \notin T
    <3>. HIDE DEF T
    <3>1. ~(n <= n - 1) BY <2>3
    <3>. QED BY <2>2, <3>1
  <2>5. g[n - 1] \in Seq(Entry) BY <2>3, <2>4
  <2>6. orders[n] \in Entry BY <2>3
  <2>. QED BY <1>1, <2>2, <2>3, <2>5, <2>6, CachedTypes
<1>4. g[Len(orders)] \in Seq(Entry) BY <1>2, <1>3
<1>. QED BY <1>4, CacheIsLoop DEF g

(* The answers and updates of the broker. *)
LEMMA AnswerTypes ==
  ASSUME Types, NEW id \in Id, OrderPlaced(id) \/ OrderCancelled(id)
  PROVE  Types'
<1>1. CASE OrderPlaced(id)
  <2>1. NewEntry(id) \in Entry BY DEF NewEntry, Entry
  <2>2. book' \in Seq(Entry) BY <1>1, <2>1, Appended DEF OrderPlaced, Types, TypeOK
  <2>3. replies' \in SUBSET [kind: {"placed", "cancelled"}, id: Id] BY <1>1 DEF OrderPlaced, Types, TypeOK
  <2>. QED BY <1>1, <2>2, <2>3 DEF OrderPlaced, exchange, Types, TypeOK
<1>2. CASE OrderCancelled(id)
  <2>1. DOMAIN book = 1 .. Len(book) /\ Len(book) \in Nat /\ \A j \in 1 .. Len(book) : book[j] \in Entry
    BY DEF Types, TypeOK
  <2>2. \A j \in 1 .. Len(book) : [book[j] EXCEPT !.status = "CANCELLED"] \in Entry
    BY <2>1 DEF Entry, Final
  <2>3. book' \in Seq(Entry) BY <1>2, <2>1, <2>2 DEF OrderCancelled
  <2>4. replies' \in SUBSET [kind: {"placed", "cancelled"}, id: Id] BY <1>2 DEF OrderCancelled, Types, TypeOK
  <2>. QED BY <1>2, <2>3, <2>4 DEF OrderCancelled, exchange, Types, TypeOK
<1>. QED BY <1>1, <1>2

LEMMA UpdateTypes ==
  ASSUME Types, HandleOrderUpdate \/ LoseUpdate
  PROVE  Types'
<1>1. wire \in Seq(Entry) /\ wire # <<>> /\ wire' = Tail(wire) BY DEF HandleOrderUpdate, LoseUpdate, Types, TypeOK
<1>2. wire' \in Seq(Entry) /\ Head(wire) \in Entry BY <1>1, Taken
<1>3. CASE HandleOrderUpdate
  <2>1. DOMAIN book = 1 .. Len(book) /\ Len(book) \in Nat /\ \A j \in 1 .. Len(book) : book[j] \in Entry
    BY DEF Types, TypeOK
  <2>2. Append(book, Head(wire)) \in Seq(Entry) BY <1>2, Appended DEF Types, TypeOK
  <2>3. [j \in DOMAIN book |-> IF book[j].id = Head(wire).id THEN Head(wire) ELSE book[j]] \in Seq(Entry)
    BY <1>2, <2>1
  <2>4. book' \in Seq(Entry) BY <1>3, <2>2, <2>3 DEF HandleOrderUpdate
  <2>5. [at |-> "start"] \in SyncState BY DEF SyncState
  <2>6. sync' = sync \/ \E i \in Free : sync' = [sync EXCEPT ![i] = [at |-> "start"]]
    BY <1>3 DEF HandleOrderUpdate
  <2>7. sync' \in [Slot -> SyncState] BY <2>5, <2>6 DEF Types, TypeOK
  <2>8. UNCHANGED <<exchange, proc, pos, calls, replies, snap, faults>> BY <1>3 DEF HandleOrderUpdate
  <2>. QED BY <1>2, <2>4, <2>7, <2>8 DEF exchange, Types, TypeOK
<1>4. CASE LoseUpdate
  <2>1. faults' \in 0 .. MaxFaults BY <1>4, Constants DEF LoseUpdate, Fault, Types, TypeOK
  <2>. QED BY <1>2, <1>4, <2>1 DEF LoseUpdate, exchange, Types, TypeOK
<1>. QED BY <1>3, <1>4

(* What a sync carries. *)
LEMMA Carried ==
  ASSUME Types, NEW i \in Slot
  PROVE  /\ sync[i] \in SyncState
         /\ sync[i].at = "orders" => sync[i].orders \in Seq(Entry)
         /\ sync[i].at = "positions" => sync[i].net \in [Key -> Int] /\ sync[i].listed \in SUBSET Key
<1>1. sync[i] \in SyncState BY DEF Types, TypeOK
<1>. QED BY <1>1 DEF SyncState

(* The broker's answer about its orders. *)
LEMMA AnswerOfOrders ==
  ASSUME Types
  PROVE  LET a == [j \in DOMAIN broker |-> Report(j, broker[j])] IN
         a \in Seq(Entry) /\ DOMAIN a = DOMAIN broker
<1>1. /\ DOMAIN broker = 1 .. Len(broker) /\ Len(broker) \in Nat /\ Len(broker) <= MaxOrders
      /\ \A j \in 1 .. Len(broker) : broker[j] \in BrokerOrder
  BY DEF Types, TypeOK
<1>2. \A j \in 1 .. Len(broker) : Report(j, broker[j]) \in Entry
  <2>1. \A j \in 1 .. Len(broker) : j \in Id BY <1>1, Constants DEF Id
  <2>. QED BY <1>1, <2>1, ReportType
<1>. QED BY <1>1, <1>2

(* What the second critical section of a sync makes of a position. *)
LEMMA ListedType ==
  ASSUME NEW p \in Position, NEW n \in Int
  PROVE  Listed(p, n) \in Position /\ Listed(p, n).net = n /\ Listed(p, n).side = SideOf(n)
<1>1. SideOf(n) \in {"LONG", "SHORT", "FLAT"} BY SideTypes
<1>2. SideOf(0) = "FLAT" BY DEF SideOf
<1>. QED BY <1>1, <1>2, FlatType DEF Listed, Position, Flat

LEMMA SyncTypes ==
  ASSUME Types, NEW i \in Slot, SyncStep(i) \/ SyncFails(i)
  PROVE  Types'
<1>1. CASE GetOrders(i)
  <2>1. PICK a \in Seq(Entry) : sync' = [sync EXCEPT ![i] = [at |-> "orders", orders |-> a]]
    BY <1>1, AnswerOfOrders DEF GetOrders
  <2>2. sync' \in [Slot -> SyncState]
    <3>1. [at |-> "orders", orders |-> a] \in SyncState BY <2>1 DEF SyncState
    <3>. QED BY <2>1, <3>1 DEF Types, TypeOK
  <2>3. UNCHANGED <<exchange, wire, proc, pos, book, calls, replies, snap, faults>> BY <1>1 DEF GetOrders
  <2>. QED BY <2>2, <2>3 DEF exchange, Types, TypeOK
<1>2. CASE ApplyOrders(i)
  <2>1. sync[i].orders \in Seq(Entry) BY <1>2, Carried DEF ApplyOrders
  <2>2. book' \in Seq(Entry) BY <1>2, <2>1, CacheTypes DEF ApplyOrders, Types, TypeOK
  <2>3. sync' \in [Slot -> SyncState]
    <3>1. [at |-> "middle"] \in SyncState BY DEF SyncState
    <3>. QED BY <1>2, <3>1 DEF ApplyOrders, Types, TypeOK
  <2>4. UNCHANGED <<exchange, wire, proc, pos, calls, replies, snap, faults>> BY <1>2 DEF ApplyOrders
  <2>. QED BY <2>2, <2>3, <2>4 DEF exchange, Types, TypeOK
<1>3. CASE GetPositions(i)
  <2>1. PICK listed \in SUBSET Key : sync' = [sync EXCEPT ![i] = [at |-> "positions", net |-> net, listed |-> listed]]
    BY <1>3 DEF GetPositions
  <2>2. [at |-> "positions", net |-> net, listed |-> listed] \in SyncState
    BY DEF SyncState, Types, TypeOK
  <2>3. sync' \in [Slot -> SyncState] BY <2>1, <2>2 DEF Types, TypeOK
  <2>4. UNCHANGED <<exchange, wire, proc, pos, book, calls, replies, snap, faults>> BY <1>3 DEF GetPositions
  <2>. QED BY <2>3, <2>4 DEF exchange, Types, TypeOK
<1>4. CASE ApplyPositions(i)
  <2>1. sync[i].net \in [Key -> Int] BY <1>4, Carried DEF ApplyPositions
  <2>2. \A k \in Key : Listed(pos[k], sync[i].net[k]) \in Position
    BY <2>1, ListedType DEF Types, TypeOK
  <2>3. pos' \in [Key -> Position]
    BY <1>4, <2>2, FlatType DEF ApplyPositions, Reconciled, Types, TypeOK
  <2>4. snap' \in [Key -> Position] BY <1>4, <2>3 DEF ApplyPositions, Types, TypeOK
  <2>5. sync' \in [Slot -> SyncState]
    <3>1. Idle \in SyncState BY DEF Idle, SyncState
    <3>. QED BY <1>4, <3>1 DEF ApplyPositions, Types, TypeOK
  <2>6. proc' \in {"down", "booting", "up"} BY <1>4 DEF ApplyPositions, Ended, Types, TypeOK
  <2>7. UNCHANGED <<exchange, wire, book, calls, replies, faults>> BY <1>4 DEF ApplyPositions
  <2>. QED BY <2>3, <2>4, <2>5, <2>6, <2>7 DEF exchange, Types, TypeOK
<1>5. CASE SyncFails(i)
  <2>1. sync' \in [Slot -> SyncState]
    <3>1. Idle \in SyncState BY DEF Idle, SyncState
    <3>. QED BY <1>5, <3>1 DEF SyncFails, Types, TypeOK
  <2>2. proc' \in {"down", "booting", "up"} BY <1>5 DEF SyncFails, Ended, Types, TypeOK
  <2>3. faults' \in 0 .. MaxFaults BY <1>5, Constants DEF SyncFails, Fault, Types, TypeOK
  <2>4. UNCHANGED <<exchange, wire, pos, book, calls, replies, snap>> BY <1>5 DEF SyncFails
  <2>. QED BY <2>1, <2>2, <2>3, <2>4 DEF exchange, Types, TypeOK
<1>. QED BY <1>1, <1>2, <1>3, <1>4, <1>5 DEF SyncStep

LEMMA ProcessTypes ==
  ASSUME Types, Crash \/ Restart
  PROVE  Types'
<1>1. CASE Crash
  <2>1. pos' \in [Key -> Position] BY <1>1, FlatType DEF Crash
  <2>2. sync' \in [Slot -> SyncState] BY <1>1 DEF Crash, Idle, SyncState
  <2>3. faults' \in 0 .. MaxFaults BY <1>1, Constants DEF Crash, Fault, Types, TypeOK
  <2>4. calls' \in Seq(Request) /\ Len(calls') = 0 /\ wire' \in Seq(Entry) /\ Len(broker) \in Nat
    BY <1>1 DEF Crash, Types, TypeOK
  <2>. QED BY <1>1, <2>1, <2>2, <2>3, <2>4, Constants DEF Crash, exchange, Types, TypeOK
<1>2. CASE Restart
  <2>1. pos' \in [Key -> Position] BY <1>2, FlatType DEF Restart, Types, TypeOK
  <2>2. sync' \in [Slot -> SyncState] BY <1>2 DEF Restart, SyncState, Types, TypeOK
  <2>. QED BY <1>2, <2>1, <2>2 DEF Restart, exchange, Types, TypeOK
<1>. QED BY <1>1, <1>2

LEMMA StepTypes == Types /\ [Next]_vars => Types'
<1>. SUFFICES ASSUME Types, [Next]_vars PROVE Types' OBVIOUS
<1>1. CASE UNCHANGED vars BY <1>1 DEF vars, Types, TypeOK
<1>2. CASE Next
  <2>1. \A s \in Symbol, price \in Price : OnPriceUpdate(s, price) => Types' BY WatchdogTypes
  <2>. QED
    BY <1>2, <2>1, BrokerTypes, RequestTypes, AnswerTypes, UserTypes, CallTypes, UpdateTypes, SyncTypes,
       ProcessTypes
    DEF Next
<1>. QED BY <1>1, <1>2

LEMMA TypesKept == Spec => []Types
  BY InitTypes, StepTypes, PTL DEF Spec

(* The live manager keeps the types of its order book, positions, requests and syncs, and
   never has more requests under way than the bound on the broker's orders leaves room
   for. *)
THEOREM TypeCorrect == Spec => []TypeOK
  BY TypesKept, PTL DEF Types
-----------------------------------------------------------------------------
(* The positions in RAM and their rows.  Only six kinds of step touch them. *)
Untouched ==
  /\ UNCHANGED <<pos, snap>>
  /\ proc' = proc \/ (proc # "down" /\ proc' = "up")

LEMMA PositionSteps ==
  ASSUME [Next]_vars
  PROVE  \/ Untouched
         \/ \E k \in Key, b \in Bracket : UpdatePositionMetadata(k, b)
         \/ \E s \in Symbol, price \in Price : OnPriceUpdate(s, price)
         \/ \E i \in Slot : ApplyPositions(i)
         \/ Crash
         \/ Restart
<1>1. CASE UNCHANGED vars BY <1>1 DEF vars, Untouched
<1>2. ASSUME NEW i \in DOMAIN broker,
             \/ \E q \in 1 .. broker[i].qty : BrokerFill(i, q)
         \/ BrokerReject(i) \/ BrokerCancel(i) \/ CancelOrder(i)
      PROVE  Untouched
  BY <1>2 DEF BrokerFill, BrokerReject, BrokerCancel, CancelOrder, Untouched
<1>3. ASSUME NEW s \in Symbol, NEW d \in {"BUY", "SELL"}, NEW q \in Qty,
             PlaceOrder(s, d, q) \/ \E prod \in Product : ExternalOrder(s, prod, d, q)
      PROVE  Untouched
  BY <1>3 DEF PlaceOrder, ExternalOrder, Untouched
<1>4. ASSUME NEW id \in Id, OrderPlaced(id) \/ OrderCancelled(id) PROVE Untouched
  BY <1>4 DEF OrderPlaced, OrderCancelled, Untouched
<1>5. ASSUME NEW k \in Key, NEW q \in Qty, ExitPosition(k, q) PROVE Untouched
  BY <1>5 DEF ExitPosition, Untouched
<1>6. ASSUME NEW c \in DOMAIN calls, SendCall(c) \/ CallFails(c) PROVE Untouched
  BY <1>6 DEF SendCall, CallFails, Untouched
<1>7. CASE HandleOrderUpdate \/ LoseUpdate
  BY <1>7 DEF HandleOrderUpdate, LoseUpdate, Untouched
<1>8. ASSUME NEW i \in Slot, GetOrders(i) \/ ApplyOrders(i) \/ GetPositions(i) \/ SyncFails(i)
      PROVE  Untouched
  BY <1>8 DEF GetOrders, ApplyOrders, GetPositions, SyncFails, Ended, Untouched
<1>. QED
  BY <1>1, <1>2, <1>3, <1>4, <1>5, <1>6, <1>7, <1>8 DEF Next, SyncStep

(* A row keeps the direction of its quantity, and none without exposure, while the process
   is down as well: a restart takes both from it. *)
RowsAgree ==
  proc # "down" =>
    \A k \in Key :
      /\ snap[k].net = pos[k].net /\ snap[k].side = pos[k].side
      /\ pos[k].side = SideOf(pos[k].net)
      /\ pos[k].net = 0 => pos[k] = Flat /\ snap[k] = Flat
      /\ snap[k] = pos[k] \/ (pos[k].tp = 0 /\ pos[k].sl = 0)

Rows ==
  /\ RowsAgree
  /\ \A k \in Key : snap[k].side = SideOf(snap[k].net) /\ (snap[k].net = 0 => snap[k] = Flat)

RowsStep ==
  \A k \in Key :
    proc' # "down" /\ snap'[k] # pos'[k] =>
      \/ proc # "down" /\ snap[k] # pos[k]
      \/ Disarmed(k) /\ snap'[k] = pos[k]

LEMMA FlatFields ==
  Flat.net = 0 /\ Flat.side = SideOf(0) /\ Flat.tp = 0 /\ Flat.sl = 0
  BY DEF Flat, SideOf

LEMMA InitRows == Init => Rows
  BY FlatFields DEF Init, Rows, RowsAgree

LEMMA ReconciledSide ==
  ASSUME Types, NEW i \in Slot, ApplyPositions(i), NEW k \in Key
  PROVE  /\ pos'[k] = IF k \in sync[i].listed THEN Listed(pos[k], sync[i].net[k])
                      ELSE IF pos[k].net # 0 THEN Flat ELSE pos[k]
         /\ snap'[k] = IF k \in sync[i].listed \/ pos[k].net # 0 THEN pos'[k] ELSE snap[k]
         /\ sync[i].net[k] \in Int /\ pos[k] \in Position /\ pos'[k] \in Position
         /\ k \in sync[i].listed => pos'[k].net = sync[i].net[k] /\ pos'[k].side = SideOf(pos'[k].net)
<1>1. sync[i].net \in [Key -> Int] BY Carried DEF ApplyPositions
<1>2. pos[k] \in Position BY DEF Types, TypeOK
<1>3. pos'[k] = IF k \in sync[i].listed THEN Listed(pos[k], sync[i].net[k])
                ELSE IF pos[k].net # 0 THEN Flat ELSE pos[k]
  BY DEF ApplyPositions, Reconciled
<1>4. snap'[k] = IF k \in sync[i].listed \/ pos[k].net # 0 THEN pos'[k] ELSE snap[k]
  BY DEF ApplyPositions
<1>5. sync[i].net[k] \in Int BY <1>1
<1>. QED BY <1>2, <1>3, <1>4, <1>5, ListedType, FlatType

LEMMA StepRows == Types /\ Rows /\ [Next]_vars => Rows'
<1>. SUFFICES ASSUME Types, Rows, [Next]_vars PROVE Rows' OBVIOUS
<1>1. CASE Untouched
  BY <1>1 DEF Untouched, Rows, RowsAgree
<1>2. ASSUME NEW k \in Key, NEW b \in Bracket, UpdatePositionMetadata(k, b) PROVE Rows'
  <2>1. /\ Up /\ pos[k].net # 0 /\ proc' = proc
        /\ pos' = [pos EXCEPT ![k].tp = b[1], ![k].sl = b[2]]
        /\ snap' = [snap EXCEPT ![k] = pos'[k]]
    BY <1>2 DEF UpdatePositionMetadata
  <2>2. pos \in [Key -> Position] /\ snap \in [Key -> Position] BY DEF Types, TypeOK
  <2>3. /\ pos'[k].net = pos[k].net /\ pos'[k].side = pos[k].side /\ snap'[k] = pos'[k]
        /\ \A l \in Key : l # k => pos'[l] = pos[l] /\ snap'[l] = snap[l]
    BY <2>1, <2>2 DEF Position
  <2>4. proc # "down" /\ proc' # "down" /\ pos[k].net # 0 BY <2>1 DEF Up
  <2>5. ASSUME NEW l \in Key
        PROVE  /\ snap'[l].net = pos'[l].net /\ snap'[l].side = pos'[l].side /\ pos'[l].side = SideOf(pos'[l].net)
               /\ pos'[l].net = 0 => pos'[l] = Flat /\ snap'[l] = Flat
               /\ snap'[l] = pos'[l] \/ (pos'[l].tp = 0 /\ pos'[l].sl = 0)
    <3>1. CASE l = k BY <2>3, <2>4, <3>1 DEF Rows, RowsAgree
    <3>2. CASE l # k
      <4>1. pos'[l] = pos[l] /\ snap'[l] = snap[l] BY <2>3, <3>2
      <4>. QED BY <2>4, <4>1 DEF Rows, RowsAgree
    <3>. QED BY <3>1, <3>2
  <2>6. \A l \in Key : snap'[l].side = SideOf(snap'[l].net) /\ (snap'[l].net = 0 => snap'[l] = Flat)
    BY <2>5
  <2>. QED BY <2>5, <2>6 DEF Rows, RowsAgree
<1>3. ASSUME NEW s \in Symbol, NEW price \in Price, OnPriceUpdate(s, price) PROVE Rows'
  <2>1. snap' = snap /\ proc' = proc /\ Up BY <1>3 DEF OnPriceUpdate
  <2>2. \A k \in Key : pos'[k] = pos[k] \/ (pos'[k] = [pos[k] EXCEPT !.tp = 0, !.sl = 0] /\ pos[k].net # 0)
    BY <1>3, WatchdogTypes DEF Breached
  <2>3. ASSUME NEW k \in Key, pos'[k] = [pos[k] EXCEPT !.tp = 0, !.sl = 0]
        PROVE  pos'[k].net = pos[k].net /\ pos'[k].side = pos[k].side /\ pos'[k].tp = 0 /\ pos'[k].sl = 0
    BY <2>3 DEF Types, TypeOK, Position
  <2>. QED BY <2>1, <2>2, <2>3 DEF Rows, RowsAgree, Up
<1>4. ASSUME NEW i \in Slot, ApplyPositions(i) PROVE Rows'
  <2>1. ASSUME NEW k \in Key PROVE snap'[k].side = SideOf(snap'[k].net) /\ (snap'[k].net = 0 => snap'[k] = Flat)
    <3>1. Listed(pos[k], 0) = Flat BY DEF Listed
    <3>2. CASE k \in sync[i].listed BY <1>4, <3>1, <3>2, ReconciledSide, FlatFields
    <3>3. CASE k \notin sync[i].listed BY <1>4, <3>3, ReconciledSide, FlatFields DEF Rows
    <3>. QED BY <3>2, <3>3
  <2>2. proc' # "down" => proc # "down" BY <1>4 DEF ApplyPositions, Ended
  <2>3. ASSUME NEW k \in Key, proc # "down"
        PROVE  /\ snap'[k].net = pos'[k].net /\ snap'[k].side = pos'[k].side /\ pos'[k].side = SideOf(pos'[k].net)
               /\ pos'[k].net = 0 => pos'[k] = Flat /\ snap'[k] = Flat
               /\ snap'[k] = pos'[k] \/ (pos'[k].tp = 0 /\ pos'[k].sl = 0)
    <3>1. CASE k \in sync[i].listed
      <4>1. pos'[k] = Listed(pos[k], sync[i].net[k]) /\ pos'[k].net = sync[i].net[k]
        BY <1>4, <3>1, ReconciledSide
      <4>2. sync[i].net[k] = 0 => Listed(pos[k], sync[i].net[k]) = Flat BY DEF Listed
      <4>3. pos'[k].net = 0 => pos'[k] = Flat BY <4>1, <4>2
      <4>. QED BY <1>4, <3>1, <4>3, ReconciledSide
    <3>2. CASE k \notin sync[i].listed
      BY <1>4, <2>3, <3>2, ReconciledSide, FlatFields DEF Rows, RowsAgree
    <3>. QED BY <3>1, <3>2
  <2>. QED BY <2>1, <2>2, <2>3 DEF Rows, RowsAgree
<1>5. CASE Crash
  BY <1>5 DEF Crash, Rows, RowsAgree
<1>6. CASE Restart
  <2>1. snap' = snap /\ \A k \in Key : pos'[k] = IF snap[k].net # 0 THEN snap[k] ELSE Flat
    BY <1>6 DEF Restart
  <2>. QED BY <2>1, FlatFields DEF Rows, RowsAgree
<1>. QED BY <1>1, <1>2, <1>3, <1>4, <1>5, <1>6, PositionSteps

LEMMA RowsKept == Spec => [](Types /\ Rows)
<1>1. Init => Types /\ Rows BY InitTypes, InitRows
<1>2. Types /\ Rows /\ [Next]_vars => (Types /\ Rows)' BY StepTypes, StepRows
<1>. QED BY <1>1, <1>2, PTL DEF Spec

(* Only the watchdog takes RAM away from the row. *)
LEMMA RowsSteps == Types /\ Rows /\ [Next]_vars => RowsStep
<1>. SUFFICES ASSUME Types, Rows, [Next]_vars, NEW k \in Key, proc' # "down", snap'[k] # pos'[k]
              PROVE  \/ proc # "down" /\ snap[k] # pos[k]
                     \/ Disarmed(k) /\ snap'[k] = pos[k]
  BY DEF RowsStep
<1>1. CASE Untouched BY <1>1 DEF Untouched
<1>2. ASSUME NEW l \in Key, NEW b \in Bracket, UpdatePositionMetadata(l, b)
      PROVE  proc # "down" /\ snap[k] # pos[k]
  <2>1. /\ Up
        /\ pos' = [pos EXCEPT ![l].tp = b[1], ![l].sl = b[2]]
        /\ snap' = [snap EXCEPT ![l] = pos'[l]]
    BY <1>2 DEF UpdatePositionMetadata
  <2>2. pos \in [Key -> Position] /\ snap \in [Key -> Position] BY DEF Types, TypeOK
  <2>3. snap'[l] = pos'[l] /\ \A m \in Key : m # l => pos'[m] = pos[m] /\ snap'[m] = snap[m]
    BY <2>1, <2>2
  <2>. QED BY <2>1, <2>3 DEF Up
<1>3. ASSUME NEW s \in Symbol, NEW price \in Price, OnPriceUpdate(s, price)
      PROVE  \/ proc # "down" /\ snap[k] # pos[k]
             \/ Disarmed(k) /\ snap'[k] = pos[k]
  <2>1. snap' = snap /\ Up BY <1>3 DEF OnPriceUpdate
  <2>2. pos'[k] = IF k[1] = s /\ Breached(pos[k], price) THEN [pos[k] EXCEPT !.tp = 0, !.sl = 0] ELSE pos[k]
    BY <1>3, WatchdogTypes, Zenon
  <2>3. CASE k[1] = s /\ Breached(pos[k], price)
    <3>1. Len(calls') > Len(calls) BY <1>3, <2>3, WatchdogTypes, Zenon
    <3>2. Disarmed(k) BY <2>2, <2>3, <3>1 DEF Disarmed
    <3>. QED BY <2>1, <3>2 DEF Up
  <2>4. CASE ~(k[1] = s /\ Breached(pos[k], price)) BY <2>1, <2>2, <2>4 DEF Up
  <2>. QED BY <2>3, <2>4
<1>4. ASSUME NEW i \in Slot, ApplyPositions(i) PROVE proc # "down" /\ snap[k] # pos[k]
  <2>1. proc # "down" BY <1>4 DEF ApplyPositions, Ended
  <2>2. snap'[k] = (IF k \in sync[i].listed \/ pos[k].net # 0 THEN pos'[k] ELSE snap[k])
        /\ (k \notin sync[i].listed /\ pos[k].net = 0 => pos'[k] = pos[k])
    BY <1>4, ReconciledSide
  <2>. QED BY <2>1, <2>2
<1>5. CASE Crash BY <1>5 DEF Crash
<1>6. CASE Restart
  <2>1. snap' = snap /\ pos'[k] = IF snap[k].net # 0 THEN snap[k] ELSE Flat BY <1>6 DEF Restart
  <2>. QED BY <2>1 DEF Rows
<1>. QED BY <1>1, <1>2, <1>3, <1>4, <1>5, <1>6, PositionSteps

(* Whatever syncs, users, ticks and crashes come in between, a restart may rely on the
   rows of gidh_positions: quantity, direction, no threshold without exposure, and
   otherwise the thresholds of RAM until the watchdog uses them up. *)
THEOREM RowsTrue == Spec => RowsCurrent
<1>1. RowsAgree =>
        (proc # "down" =>
          \A k \in Key :
            /\ snap[k].net = pos[k].net /\ snap[k].side = pos[k].side
            /\ pos[k].side = SideOf(pos[k].net)
            /\ pos[k].net = 0 => pos[k] = Flat /\ snap[k] = Flat
            /\ snap[k] = pos[k] \/ (pos[k].tp = 0 /\ pos[k].sl = 0))
  BY DEF RowsAgree
<1>2. Rows => RowsAgree BY DEF Rows
<1>3. Types /\ Rows /\ [Next]_vars =>
        [\A k \in Key :
           proc' # "down" /\ snap'[k] # pos'[k] =>
             \/ proc # "down" /\ snap[k] # pos[k]
             \/ Disarmed(k) /\ snap'[k] = pos[k]]_vars
  BY RowsSteps DEF RowsStep
<1>. QED BY <1>1, <1>2, <1>3, RowsKept, PTL DEF Spec, RowsCurrent
-----------------------------------------------------------------------------
(* The action properties about positions. *)
ThresholdsStep ==
  \A k \in Key :
    <<pos'[k].tp, pos'[k].sl>> # <<pos[k].tp, pos[k].sl>> =>
      \/ Up /\ pos'[k].net = pos[k].net /\ pos[k].net # 0 /\ snap'[k] = pos'[k]
         /\ UNCHANGED <<calls, sync, book>>
      \/ proc = "down" /\ pos'[k] = snap[k]
      \/ Disarmed(k)
      \/ pos'[k] = Flat
      \/ pos'[k].side # pos[k].side /\ pos'[k].tp = 0 /\ pos'[k].sl = 0

LEMMA ThresholdsSteps == Types /\ [Next]_vars => ThresholdsStep
<1>. SUFFICES ASSUME Types, [Next]_vars, NEW k \in Key,
                     <<pos'[k].tp, pos'[k].sl>> # <<pos[k].tp, pos[k].sl>>
              PROVE  \/ Up /\ pos'[k].net = pos[k].net /\ pos[k].net # 0 /\ snap'[k] = pos'[k]
                        /\ UNCHANGED <<calls, sync, book>>
                     \/ proc = "down" /\ pos'[k] = snap[k]
                     \/ Disarmed(k)
                     \/ pos'[k] = Flat
  BY DEF ThresholdsStep
<1>1. CASE Untouched BY <1>1 DEF Untouched
<1>2. ASSUME NEW l \in Key, NEW b \in Bracket, UpdatePositionMetadata(l, b)
      PROVE  Up /\ pos'[k].net = pos[k].net /\ pos[k].net # 0 /\ snap'[k] = pos'[k] /\ UNCHANGED <<calls, sync, book>>
  <2>1. /\ Up /\ pos[l].net # 0 /\ UNCHANGED <<calls, sync, book>>
        /\ pos' = [pos EXCEPT ![l].tp = b[1], ![l].sl = b[2]]
        /\ snap' = [snap EXCEPT ![l] = pos'[l]]
    BY <1>2 DEF UpdatePositionMetadata
  <2>2. pos \in [Key -> Position] /\ snap \in [Key -> Position] BY DEF Types, TypeOK
  <2>3. pos'[l].net = pos[l].net /\ snap'[l] = pos'[l] /\ \A m \in Key : m # l => pos'[m] = pos[m]
    BY <2>1, <2>2 DEF Position
  <2>4. k = l BY <2>3
  <2>. QED BY <2>1, <2>3, <2>4
<1>3. ASSUME NEW s \in Symbol, NEW price \in Price, OnPriceUpdate(s, price)
      PROVE  Disarmed(k)
  <2>1. pos'[k] = IF k[1] = s /\ Breached(pos[k], price) THEN [pos[k] EXCEPT !.tp = 0, !.sl = 0] ELSE pos[k]
    BY <1>3, WatchdogTypes, Zenon
  <2>2. k[1] = s /\ Breached(pos[k], price) BY <2>1
  <2>3. Len(calls') > Len(calls) BY <1>3, <2>2, WatchdogTypes, Zenon
  <2>. QED BY <2>1, <2>2, <2>3 DEF Disarmed
<1>4. ASSUME NEW i \in Slot, ApplyPositions(i) PROVE pos'[k] = Flat
  <2>1. pos[k] \in Position /\ pos'[k] # pos[k] BY DEF Types, TypeOK
  <2>2. sync[i].net[k] \in Int /\ (pos'[k] = Listed(pos[k], sync[i].net[k]) \/ pos'[k] = Flat)
    BY <1>4, <2>1, ReconciledSide
  <2>3. ASSUME NEW n \in Int, n # 0 PROVE Listed(pos[k], n).tp = pos[k].tp /\ Listed(pos[k], n).sl = pos[k].sl
    BY <2>1, <2>3 DEF Listed, Position
  <2>4. Listed(pos[k], 0) = Flat BY DEF Listed
  <2>. QED BY <2>2, <2>3, <2>4
<1>5. CASE Crash BY <1>5 DEF Crash
<1>6. CASE Restart BY <1>6 DEF Restart
<1>. QED BY <1>1, <1>2, <1>3, <1>4, <1>5, <1>6, PositionSteps

(* Nothing arms or moves a threshold but a user, a restart, the watchdog's disarming, and
   what flattens the position; a change of direction may at most clear it. *)
THEOREM ThresholdsKept == Spec => ThresholdsChange
  BY TypesKept, ThresholdsSteps, PTL DEF Spec, ThresholdsChange, ThresholdsStep

(* Requests made by the watchdog come from OnPriceUpdate only. *)
LEMMA NewCalls ==
  ASSUME Types, [Next]_vars, NEW c \in DOMAIN calls', c \notin DOMAIN calls, calls'[c].trigger > 0
  PROVE  \E s \in Symbol, price \in Price : OnPriceUpdate(s, price)
<1>. SUFFICES ASSUME \A s \in Symbol, price \in Price : ~OnPriceUpdate(s, price) PROVE FALSE
  OBVIOUS
<1>0. calls \in Seq(Request) /\ DOMAIN calls = 1 .. Len(calls) /\ Len(calls) \in Nat BY DEF Types, TypeOK
<1>1. calls' # calls OBVIOUS
<1>2. ASSUME NEW d \in DOMAIN calls, SendCall(d) \/ CallFails(d) PROVE FALSE
  <2>1. calls' = RemoveAt(calls, d) BY <1>2 DEF SendCall, CallFails
  <2>2. calls' \in Seq(Request) /\ Len(calls') = Len(calls) - 1 BY <1>0, <2>1, Removed
  <2>. QED BY <1>0, <2>2
<1>3. ASSUME NEW k \in Key, NEW q \in Qty, ExitPosition(k, q) PROVE FALSE
  <2>1. calls' = Append(calls, [sym |-> k[1], side |-> Opposite(pos[k]), qty |-> q, trigger |-> 0])
    BY <1>3 DEF ExitPosition
  <2>2. c = Len(calls) + 1 BY <1>0, <2>1
  <2>3. calls'[c] = [sym |-> k[1], side |-> Opposite(pos[k]), qty |-> q, trigger |-> 0] BY <1>0, <2>1, <2>2
  <2>. QED BY <2>3
<1>4. CASE Crash BY <1>4 DEF Crash
<1>5. CASE UNCHANGED vars BY <1>1, <1>5 DEF vars
<1>6. ASSUME NEW i \in DOMAIN broker,
             \/ \E q \in 1 .. broker[i].qty : BrokerFill(i, q)
         \/ BrokerReject(i) \/ BrokerCancel(i) \/ CancelOrder(i)
      PROVE  FALSE
  BY <1>1, <1>6 DEF BrokerFill, BrokerReject, BrokerCancel, CancelOrder
<1>7. ASSUME NEW s \in Symbol, NEW d \in {"BUY", "SELL"}, NEW q \in Qty,
             PlaceOrder(s, d, q) \/ \E prod \in Product : ExternalOrder(s, prod, d, q)
      PROVE  FALSE
  BY <1>1, <1>7 DEF PlaceOrder, ExternalOrder
<1>8. ASSUME NEW id \in Id, OrderPlaced(id) \/ OrderCancelled(id) PROVE FALSE
  BY <1>1, <1>8 DEF OrderPlaced, OrderCancelled
<1>9. ASSUME NEW k \in Key, NEW b \in Bracket, UpdatePositionMetadata(k, b) PROVE FALSE
  BY <1>1, <1>9 DEF UpdatePositionMetadata
<1>10. CASE HandleOrderUpdate \/ LoseUpdate \/ Restart
  BY <1>1, <1>10 DEF HandleOrderUpdate, LoseUpdate, Restart
<1>11. ASSUME NEW i \in Slot, SyncStep(i) \/ SyncFails(i) PROVE FALSE
  BY <1>1, <1>11 DEF SyncStep, GetOrders, ApplyOrders, GetPositions, ApplyPositions, SyncFails
<1>. QED
  BY <1>2, <1>3, <1>4, <1>5, <1>6, <1>7, <1>8, <1>9, <1>10, <1>11 DEF Next

LiquidationStep ==
  \A c \in DOMAIN calls' :
    c \notin DOMAIN calls /\ calls'[c].trigger > 0 =>
      \E k \in Key :
        /\ k[1] = calls'[c].sym
        /\ Breached(pos[k], calls'[c].trigger)
        /\ Signed(calls'[c].side, calls'[c].qty) = -pos[k].net
        /\ Disarmed(k)

LEMMA LiquidationSteps == Types /\ Rows /\ [Next]_vars => LiquidationStep
<1>. SUFFICES ASSUME Types, Rows, [Next]_vars,
                     NEW c \in DOMAIN calls', c \notin DOMAIN calls, calls'[c].trigger > 0
              PROVE  \E k \in Key :
                       /\ k[1] = calls'[c].sym
                       /\ Breached(pos[k], calls'[c].trigger)
                       /\ Signed(calls'[c].side, calls'[c].qty) = -pos[k].net
                       /\ Disarmed(k)
  BY DEF LiquidationStep
<1>1. PICK s \in Symbol, price \in Price : OnPriceUpdate(s, price) BY NewCalls
<1>2. PICK k \in Key : k[1] = s /\ Breached(pos[k], price) /\ calls'[c] = Liquidation(k, price)
  <2>1. \A d \in DOMAIN calls' : d \notin DOMAIN calls =>
          \E k \in Key : k[1] = s /\ Breached(pos[k], price) /\ calls'[d] = Liquidation(k, price)
    BY <1>1, WatchdogTypes, Zenon
  <2>2. c \in DOMAIN calls' /\ c \notin DOMAIN calls OBVIOUS
  <2>. QED BY <2>1, <2>2, Zenon
<1>3. Disarmed(k)
  <2>1. pos'[k] = IF k[1] = s /\ Breached(pos[k], price) THEN [pos[k] EXCEPT !.tp = 0, !.sl = 0] ELSE pos[k]
    BY <1>1, WatchdogTypes, Zenon
  <2>2. Len(calls') > Len(calls) BY <1>1, <1>2, WatchdogTypes, Zenon
  <2>. QED BY <1>2, <2>1, <2>2 DEF Disarmed
<1>4. pos[k].net \in Int /\ pos[k].net # 0 /\ pos[k].side = SideOf(pos[k].net)
  <2>1. proc # "down" BY <1>1 DEF OnPriceUpdate, Up
  <2>. QED BY <1>2, <2>1 DEF Rows, RowsAgree, Breached, Types, TypeOK, Position
<1>5. /\ k[1] = calls'[c].sym /\ calls'[c].side = Opposite(pos[k]) /\ calls'[c].qty = Abs(pos[k].net)
      /\ calls'[c].trigger = price
  BY <1>2 DEF Liquidation
<1>6. Signed(Opposite(pos[k]), Abs(pos[k].net)) = -pos[k].net
  BY <1>4 DEF Signed, Opposite, Abs, SideOf
<1>. QED BY <1>2, <1>3, <1>5, <1>6

(* The watchdog never sends anything but the order that closes what a position the tick has
   breached holds, and the same step disarms it. *)
THEOREM LiquidationsExact == Spec => LiquidationExact
  BY RowsKept, LiquidationSteps, PTL DEF Spec, LiquidationExact, LiquidationStep
(* The positions a sync carries: what the broker left out has no exposure. *)
Listings ==
  \A i \in Slot : sync[i].at = "positions" =>
    \A k \in Key : sync[i].net[k] # 0 => k \in sync[i].listed

LEMMA InitListings == Init => Listings
  BY DEF Init, Idle, Listings

LEMMA StepListings == Types /\ Listings /\ [Next]_vars => Listings'
<1>. SUFFICES ASSUME Types, Listings, [Next]_vars, NEW i \in Slot, sync'[i].at = "positions"
              PROVE  \A k \in Key : sync'[i].net[k] # 0 => k \in sync'[i].listed
  BY DEF Listings
<1>0. sync \in [Slot -> SyncState] BY DEF Types, TypeOK
<1>1. CASE UNCHANGED sync BY <1>1 DEF Listings
<1>2. CASE UNCHANGED vars BY <1>1, <1>2 DEF vars
<1>3. ASSUME NEW j \in DOMAIN broker,
             \/ \E q \in 1 .. broker[j].qty : BrokerFill(j, q)
             \/ BrokerReject(j) \/ BrokerCancel(j) \/ CancelOrder(j)
      PROVE  UNCHANGED sync
  BY <1>3 DEF BrokerFill, BrokerReject, BrokerCancel, CancelOrder
<1>4. ASSUME NEW s \in Symbol, NEW d \in {"BUY", "SELL"}, NEW q \in Qty,
             PlaceOrder(s, d, q) \/ \E prod \in Product : ExternalOrder(s, prod, d, q)
      PROVE  UNCHANGED sync
  BY <1>4 DEF PlaceOrder, ExternalOrder
<1>5. ASSUME NEW id \in Id, OrderPlaced(id) \/ OrderCancelled(id) PROVE UNCHANGED sync
  BY <1>5 DEF OrderPlaced, OrderCancelled
<1>6. ASSUME NEW k \in Key, (\E q \in Qty : ExitPosition(k, q)) \/ (\E b \in Bracket : UpdatePositionMetadata(k, b))
      PROVE  UNCHANGED sync
  BY <1>6 DEF ExitPosition, UpdatePositionMetadata
<1>7. ASSUME NEW c \in DOMAIN calls, SendCall(c) \/ CallFails(c) PROVE UNCHANGED sync
  BY <1>7 DEF SendCall, CallFails
<1>8. ASSUME NEW s \in Symbol, NEW price \in Price, OnPriceUpdate(s, price) PROVE UNCHANGED sync
  BY <1>8 DEF OnPriceUpdate
<1>9. ASSUME NEW j, NEW x, sync' = [sync EXCEPT ![j] = x], x.at # "positions" PROVE sync'[i] = sync[i]
  BY <1>0, <1>9
<1>10. CASE HandleOrderUpdate
  <2>1. UNCHANGED sync \/ \E j \in Free : sync' = [sync EXCEPT ![j] = [at |-> "start"]]
    BY <1>10 DEF HandleOrderUpdate
  <2>2. ASSUME NEW j, sync' = [sync EXCEPT ![j] = [at |-> "start"]] PROVE sync'[i] = sync[i]
    <3>1. [at |-> "start"].at # "positions" OBVIOUS
    <3>. QED BY <1>9, <2>2, <3>1
  <2>. QED BY <1>1, <2>1, <2>2 DEF Listings
<1>11. CASE LoseUpdate BY <1>1, <1>11 DEF LoseUpdate
<1>12. ASSUME NEW j \in Slot, GetPositions(j) PROVE \A k \in Key : sync'[i].net[k] # 0 => k \in sync'[i].listed
  <2>1. PICK listed \in SUBSET Key :
          /\ {k \in Key : net[k] # 0} \subseteq listed
          /\ sync' = [sync EXCEPT ![j] = [at |-> "positions", net |-> net, listed |-> listed]]
    BY <1>12 DEF GetPositions
  <2>2. CASE i = j
    <3>1. sync'[i] = [at |-> "positions", net |-> net, listed |-> listed] BY <1>0, <2>1, <2>2
    <3>2. sync'[i].net = net /\ sync'[i].listed = listed BY <3>1
    <3>. QED BY <2>1, <3>2
  <2>3. CASE i # j
    <3>1. sync'[i] = sync[i] BY <1>0, <2>1, <2>3
    <3>. QED BY <3>1 DEF Listings
  <2>. QED BY <2>2, <2>3
<1>13. ASSUME NEW j \in Slot, GetOrders(j) \/ ApplyOrders(j) \/ ApplyPositions(j) \/ SyncFails(j)
       PROVE  sync'[i] = sync[i]
  <2>1. CASE GetOrders(j)
    <3> DEFINE x == [at |-> "orders", orders |-> [l \in DOMAIN broker |-> Report(l, broker[l])]]
    <3>1. sync' = [sync EXCEPT ![j] = x] BY <2>1 DEF GetOrders
    <3>2. x.at # "positions" OBVIOUS
    <3>. HIDE DEF x
    <3>. QED BY <1>9, <3>1, <3>2
  <2>2. CASE ApplyOrders(j) BY <1>9, <2>2 DEF ApplyOrders
  <2>3. CASE ApplyPositions(j) \/ SyncFails(j) BY <1>9, <2>3 DEF ApplyPositions, SyncFails, Idle
  <2>. QED BY <1>13, <2>1, <2>2, <2>3
<1>14. CASE Crash BY <1>14 DEF Crash, Idle
<1>15. CASE Restart
  <2>1. sync' = [sync EXCEPT ![1] = [at |-> "start"]] BY <1>15 DEF Restart
  <2>. QED BY <1>9, <2>1 DEF Listings
<1>16. CASE sync'[i] = sync[i] BY <1>16 DEF Listings
<1>. QED
  BY <1>1, <1>2, <1>3, <1>4, <1>5, <1>6, <1>7, <1>8, <1>10, <1>11, <1>12, <1>13, <1>14, <1>15, <1>16
  DEF Next, SyncStep

(* A sync that nothing overtakes gives every local position the broker's quantity,
   whichever positions the broker lists. *)
THEOREM SyncsReconcile == Spec => SyncReconciles
<1>1. ASSUME Types, Listings, NEW i \in Slot, ApplyPositions(i), sync[i].net = net, NEW k \in Key
      PROVE  pos'[k].net = net[k]
  <2>1. CASE k \in sync[i].listed BY <1>1, <2>1, ReconciledSide
  <2>2. CASE k \notin sync[i].listed
    <3>1. net[k] = 0 BY <1>1, <2>2 DEF Listings, ApplyPositions
    <3>. QED BY <1>1, <2>2, <3>1, ReconciledSide, FlatFields
  <2>. QED BY <2>1, <2>2
<1>2. Types /\ Listings =>
        (\A i \in Slot : ApplyPositions(i) /\ sync[i].net = net => \A k \in Key : pos'[k].net = net[k])
  BY <1>1
<1>3. Spec => [](Types /\ Listings)
  <2>1. Init => Types /\ Listings BY InitTypes, InitListings
  <2>2. Types /\ Listings /\ [Next]_vars => (Types /\ Listings)' BY StepTypes, StepListings
  <2>. QED BY <2>1, <2>2, PTL DEF Spec
<1>. QED BY <1>2, <1>3, PTL DEF SyncReconciles
-----------------------------------------------------------------------------
(* The order book against the broker's orders.  An entry or report is behind the broker br:
   it may know less, never more, except that a cancel was accepted; and it knows of a
   completed order only what was not all of it, or its end. *)
Answered(e, br) == e.status = "CANCELLED" /\ br[e.id].cancel

Behind(e, br) ==
  /\ e.id \in DOMAIN br /\ e.filled <= br[e.id].filled
  /\ e.status \in {"PENDING", br[e.id].status} \/ Answered(e, br)
  /\ br[e.id].status = "COMPLETE" /\ e.status = "PENDING" => e.filled < br[e.id].filled

Sound(b, br) ==
  /\ \A j, l \in DOMAIN b : b[j].id = b[l].id => j = l
  /\ \A j \in DOMAIN b : Behind(b[j], br)

(* The entry e has all the executions of the completed order id, and its end or the answer
   to an accepted cancel. *)
Complete(e, br, id) ==
  /\ e.id = id /\ e.filled = br[id].filled
  /\ e.status = "COMPLETE" \/ Answered(e, br)

(* The book b shows a completed order. *)
Shows(b, br, id) == \E j \in DOMAIN b : Complete(b[j], br, id)

(* The last update under way about an order says all there is to know. *)
Announced(w, br, id) ==
  \E i \in DOMAIN w : w[i] = Report(id, br[id]) /\ \A j \in DOMAIN w : j > i => w[j].id # id
Silent(w, id) == \A j \in DOMAIN w : w[j].id # id

(* A completed order does not change any more, so a report about it that is behind the
   broker and not behind an entry that has all of it has all of it too. *)
LEMMA CompleteReport ==
  ASSUME NEW br \in Seq(BrokerOrder), NEW id \in DOMAIN br, br[id].status = "COMPLETE",
         NEW old \in Entry, Complete(old, br, id),
         NEW e \in Entry, Behind(e, br), e.id = id, ~Retrogressive(old, e)
  PROVE  Complete(e, br, id)
<1>1. br[id] \in BrokerOrder OBVIOUS
<1>2. br[id].filled \in Nat /\ e.filled \in Nat /\ old.filled \in Nat BY <1>1 DEF BrokerOrder, Entry
<1>3. e.filled = br[id].filled BY <1>2 DEF Retrogressive, Behind, Complete
<1>4. e.status # "PENDING" BY <1>2, <1>3 DEF Behind
<1>. QED BY <1>3, <1>4 DEF Behind, Complete

(* One report keeps the book sound and what it shows of completed orders. *)
LEMMA CachedSound ==
  ASSUME NEW br \in Seq(BrokerOrder), NEW b \in Seq(Entry), Sound(b, br),
         NEW e \in Entry, Behind(e, br)
  PROVE  /\ Sound(Cached(b, e), br)
         /\ \A id \in DOMAIN br : br[id].status = "COMPLETE" /\ Shows(b, br, id) => Shows(Cached(b, e), br, id)
<1>0. /\ DOMAIN b = 1 .. Len(b) /\ Len(b) \in Nat /\ \A j \in 1 .. Len(b) : b[j] \in Entry
  OBVIOUS
<1>1. CASE \E j \in DOMAIN b : b[j].id = e.id
  <2> DEFINE c == [j \in DOMAIN b |-> IF b[j].id = e.id /\ ~Retrogressive(b[j], e) THEN e ELSE b[j]]
  <2>1. Cached(b, e) = c BY <1>1 DEF Cached
  <2>2. DOMAIN c = DOMAIN b /\ \A j \in DOMAIN b : c[j].id = b[j].id /\ (c[j] = e \/ c[j] = b[j]) OBVIOUS
  <2>3. Sound(c, br)
    <3>. HIDE DEF c
    <3>. QED BY <2>2 DEF Sound
  <2>4. ASSUME NEW id \in DOMAIN br, br[id].status = "COMPLETE", NEW j \in DOMAIN b, Complete(b[j], br, id)
        PROVE  Complete(c[j], br, id)
    <3>1. b[j].id = id /\ b[j] \in Entry BY <1>0, <2>4 DEF Complete
    <3>2. CASE b[j].id = e.id /\ ~Retrogressive(b[j], e)
      <4>1. Complete(e, br, id) BY <2>4, <3>1, <3>2, CompleteReport
      <4>. QED BY <4>1, <3>2
    <3>3. CASE ~(b[j].id = e.id /\ ~Retrogressive(b[j], e)) BY <2>4, <3>3
    <3>. QED BY <3>2, <3>3
  <2>. HIDE DEF c
  <2>5. \A id \in DOMAIN br : br[id].status = "COMPLETE" /\ Shows(b, br, id) => Shows(c, br, id)
    BY <2>2, <2>4 DEF Shows
  <2>. QED BY <2>1, <2>3, <2>5
<1>2. CASE ~ \E j \in DOMAIN b : b[j].id = e.id
  <2> DEFINE c == Append(b, e)
  <2>1. Cached(b, e) = c BY <1>2 DEF Cached
  <2>2. /\ DOMAIN c = 1 .. Len(b) + 1 /\ c[Len(b) + 1] = e
        /\ \A j \in 1 .. Len(b) : c[j] = b[j]
    BY Appended
  <2>. HIDE DEF c
  <2>3. Sound(c, br)
    <3>1. ASSUME NEW j \in DOMAIN c, NEW l \in DOMAIN c, c[j].id = c[l].id PROVE j = l
      <4>1. CASE j \in 1 .. Len(b) /\ l \in 1 .. Len(b) BY <1>0, <2>2, <3>1, <4>1 DEF Sound
      <4>2. CASE j = Len(b) + 1 /\ l = Len(b) + 1 BY <4>2
      <4>3. CASE j = Len(b) + 1 /\ l \in 1 .. Len(b) BY <1>0, <1>2, <2>2, <3>1, <4>3
      <4>4. CASE l = Len(b) + 1 /\ j \in 1 .. Len(b) BY <1>0, <1>2, <2>2, <3>1, <4>4
      <4>. QED BY <1>0, <2>2, <4>1, <4>2, <4>3, <4>4
    <3>2. ASSUME NEW j \in DOMAIN c PROVE Behind(c[j], br)
      <4>1. CASE j = Len(b) + 1 BY <2>2, <4>1
      <4>2. CASE j \in 1 .. Len(b) BY <1>0, <2>2, <4>2 DEF Sound
      <4>. QED BY <1>0, <2>2, <4>1, <4>2
    <3>. QED BY <3>1, <3>2 DEF Sound
  <2>4. \A id \in DOMAIN br : Shows(b, br, id) => Shows(c, br, id)
    <3>1. DOMAIN b \subseteq DOMAIN c BY <1>0, <2>2
    <3>. QED BY <1>0, <2>2, <3>1 DEF Shows
  <2>. QED BY <2>1, <2>3, <2>4
<1>. QED BY <1>1, <1>2

(* So do all the orders of an answer, one after the other. *)
LEMMA CacheSound ==
  ASSUME NEW br \in Seq(BrokerOrder), book \in Seq(Entry), Sound(book, br),
         NEW orders \in Seq(Entry), \A j \in DOMAIN orders : Behind(orders[j], br)
  PROVE  /\ Sound(Cache(orders), br)
         /\ \A id \in DOMAIN br : br[id].status = "COMPLETE" /\ Shows(book, br, id) => Shows(Cache(orders), br, id)
<1> DEFINE g == Loop(book, orders)
           Kept(b) == /\ b \in Seq(Entry) /\ Sound(b, br)
                      /\ \A id \in DOMAIN br : br[id].status = "COMPLETE" /\ Shows(book, br, id) => Shows(b, br, id)
           T == {j \in 0 .. Len(orders) : ~Kept(g[j])}
<1>1. g[0] = book /\ \A j \in 1 .. Len(orders) : g[j] = Cached(g[j - 1], orders[j]) BY LoopUnfolds
<1>. HIDE DEF g
<1>2. Len(orders) \in Nat OBVIOUS
<1>3. Kept(book) OBVIOUS
<1>4. ASSUME NEW b, Kept(b), NEW e \in Entry, Behind(e, br) PROVE Kept(Cached(b, e))
  BY <1>4, CachedTypes, CachedSound
<1>. HIDE DEF Kept
<1>5. T = {}
  <2>. SUFFICES ASSUME T # {} PROVE FALSE OBVIOUS
  <2>1. T \in SUBSET Nat BY <1>2
  <2>. HIDE DEF T
  <2>2. PICK n \in T : \A m \in T : n <= m BY <2>1, LeastNatural
  <2>. USE DEF T
  <2>3. n \in 1 .. Len(orders) /\ n - 1 \in 0 .. Len(orders) BY <1>1, <1>2, <1>3, <2>2
  <2>4. n - 1 \notin T
    <3>. HIDE DEF T
    <3>1. ~(n <= n - 1) BY <2>3
    <3>. QED BY <2>2, <3>1
  <2>5. Kept(g[n - 1]) BY <2>3, <2>4
  <2>6. orders[n] \in Entry /\ Behind(orders[n], br) BY <2>3
  <2>7. Kept(g[n]) BY <1>1, <1>4, <2>3, <2>5, <2>6
  <2>. QED BY <2>2, <2>7
<1>6. Kept(g[Len(orders)]) BY <1>2, <1>5
<1>7. Kept(Cache(orders)) BY <1>6, CacheIsLoop DEF g
<1>. QED BY <1>7 DEF Kept
(* An order update overwrites the entry, whatever it says: what the book shows of the other
   orders stays. *)
Overwritten(b, e) ==
  IF \E j \in DOMAIN b : b[j].id = e.id
  THEN [j \in DOMAIN b |-> IF b[j].id = e.id THEN e ELSE b[j]]
  ELSE Append(b, e)

LEMMA OverwrittenSound ==
  ASSUME NEW br \in Seq(BrokerOrder), NEW b \in Seq(Entry), Sound(b, br),
         NEW e \in Entry, Behind(e, br)
  PROVE  /\ Sound(Overwritten(b, e), br)
         /\ \A id \in DOMAIN br : id # e.id /\ Shows(b, br, id) => Shows(Overwritten(b, e), br, id)
         /\ Complete(e, br, e.id) => Shows(Overwritten(b, e), br, e.id)
<1>0. /\ DOMAIN b = 1 .. Len(b) /\ Len(b) \in Nat /\ \A j \in 1 .. Len(b) : b[j] \in Entry
  OBVIOUS
<1>1. CASE \E j \in DOMAIN b : b[j].id = e.id
  <2> DEFINE c == [j \in DOMAIN b |-> IF b[j].id = e.id THEN e ELSE b[j]]
  <2>1. Overwritten(b, e) = c BY <1>1 DEF Overwritten
  <2>2. DOMAIN c = DOMAIN b /\ \A j \in DOMAIN b : c[j].id = b[j].id /\ c[j] = IF b[j].id = e.id THEN e ELSE b[j]
    OBVIOUS
  <2>. HIDE DEF c
  <2>3. Sound(c, br) BY <2>2 DEF Sound
  <2>4. ASSUME NEW id \in DOMAIN br, id # e.id, NEW j \in DOMAIN b, Complete(b[j], br, id)
        PROVE  Complete(c[j], br, id)
    <3>1. b[j].id = id BY <2>4 DEF Complete
    <3>. QED BY <2>2, <2>4, <3>1
  <2>5. Complete(e, br, e.id) => Shows(c, br, e.id)
    BY <1>1, <2>2 DEF Shows
  <2>6. \A id \in DOMAIN br : id # e.id /\ Shows(b, br, id) => Shows(c, br, id)
    BY <2>2, <2>4 DEF Shows
  <2>. QED BY <2>1, <2>3, <2>5, <2>6
<1>2. CASE ~ \E j \in DOMAIN b : b[j].id = e.id
  <2>1. Overwritten(b, e) = Cached(b, e) BY <1>2 DEF Overwritten, Cached
  <2> DEFINE c == Append(b, e)
  <2>2. Overwritten(b, e) = c BY <1>2 DEF Overwritten
  <2>3. /\ DOMAIN c = 1 .. Len(b) + 1 /\ c[Len(b) + 1] = e
        /\ \A j \in 1 .. Len(b) : c[j] = b[j]
    BY Appended
  <2>. HIDE DEF c
  <2>4. Sound(c, br) BY <2>1, <2>2, CachedSound
  <2>5. \A id \in DOMAIN br : Shows(b, br, id) => Shows(c, br, id)
    <3>1. DOMAIN b \subseteq DOMAIN c BY <1>0, <2>3
    <3>. QED BY <1>0, <2>3, <3>1 DEF Shows
  <2>6. Complete(e, br, e.id) => Shows(c, br, e.id)
    <3>1. Len(b) + 1 \in DOMAIN c BY <1>0, <2>3
    <3>. QED BY <2>3, <3>1 DEF Shows
  <2>. QED BY <2>2, <2>4, <2>5, <2>6
<1>. QED BY <1>1, <1>2

(* The broker's record moves forward: quantities grow, an accepted cancel stays accepted, an
   execution completes an order, and a final order does not change. *)
Advances(br, br2) ==
  /\ DOMAIN br \subseteq DOMAIN br2
  /\ \A i \in DOMAIN br :
       /\ br[i].filled <= br2[i].filled
       /\ br[i].cancel => br2[i].cancel
       /\ br[i].status # "OPEN" => br2[i] = br[i]
       /\ br[i].status = "OPEN" /\ br2[i].status = "COMPLETE" => br[i].filled < br2[i].filled

LEMMA BehindAdvances ==
  ASSUME NEW br \in Seq(BrokerOrder), NEW br2 \in Seq(BrokerOrder), Advances(br, br2),
         NEW e \in Entry, Behind(e, br)
  PROVE  Behind(e, br2)
<1>1. e.id \in DOMAIN br /\ e.id \in DOMAIN br2 BY DEF Behind, Advances
<1>2. br[e.id] \in BrokerOrder /\ br2[e.id] \in BrokerOrder BY <1>1
<1>3. e.filled <= br2[e.id].filled BY <1>1, <1>2 DEF Behind, Advances, BrokerOrder, Entry
<1>4. e.status \in {"PENDING", br2[e.id].status} \/ Answered(e, br2)
  <2>1. e.status # "OPEN" BY DEF Entry, Final
  <2>. QED BY <1>1, <2>1 DEF Behind, Advances, Answered
<1>5. br2[e.id].status = "COMPLETE" /\ e.status = "PENDING" => e.filled < br2[e.id].filled
  <2>1. e.filled \in Nat /\ br[e.id].filled \in Nat /\ br2[e.id].filled \in Nat
    BY <1>2 DEF BrokerOrder, Entry
  <2>2. CASE br[e.id].status = "OPEN" BY <1>1, <2>1, <2>2 DEF Behind, Advances
  <2>3. CASE br[e.id].status # "OPEN" BY <1>1, <2>3 DEF Behind, Advances
  <2>. QED BY <2>2, <2>3
<1>. QED BY <1>1, <1>3, <1>4, <1>5 DEF Behind

(* The invariant.  The book, the updates under way and the answers that syncs carry are all
   behind the broker, and answers not yet handled are about orders the broker has (whose
   cancel it accepted, when they say so).  Before the first fault, whatever completed is either announced
   by the last update under way about it, or shown, and then no older update can follow. *)
Completions ==
  faults = 0 =>
    /\ Up
    /\ \A id \in DOMAIN broker :
         broker[id].status = "COMPLETE" =>
           Announced(wire, broker, id) \/ (Shows(book, broker, id) /\ Silent(wire, id))

Reports ==
  /\ Sound(book, broker)
  /\ \A j \in DOMAIN wire : Behind(wire[j], broker)
  /\ \A i \in Slot : sync[i].at = "orders" =>
       \A j \in DOMAIN sync[i].orders : Behind(sync[i].orders[j], broker)
  /\ \A r \in replies : r.id \in DOMAIN broker /\ (r.kind = "cancelled" => broker[r.id].cancel)
  /\ \A id \in DOMAIN broker : broker[id].status = "COMPLETE" => broker[id].filled > 0

BookInv == Reports /\ Completions

LEMMA InitBook == Init => BookInv
<1>. SUFFICES ASSUME Init PROVE BookInv OBVIOUS
<1>1. DOMAIN book = {} /\ DOMAIN wire = {} /\ DOMAIN broker = {} /\ replies = {} BY DEF Init
<1>2. \A i \in Slot : sync[i].at # "orders" BY DEF Init, Idle
<1>3. Up BY DEF Init, Up
<1>. QED BY <1>1, <1>2, <1>3 DEF BookInv, Reports, Completions, Sound

(* A step of the broker. *)
LEMMA RecordKeeps ==
  ASSUME Types, BookInv, NEW id \in Id, id <= Len(broker) + 1, NEW o \in BrokerOrder, Record(id, o),
         id \in DOMAIN broker =>
           /\ broker[id].status = "OPEN" /\ broker[id].filled <= o.filled
           /\ broker[id].cancel => o.cancel
           /\ o.status = "COMPLETE" => broker[id].filled < o.filled,
         o.status = "COMPLETE" => o.filled > 0,
         UNCHANGED <<proc, book, sync, faults>>,
         \A r \in replies' : r \in replies \/ (r.id = id /\ r.kind = "placed")
  PROVE  BookInv'
<1>0. broker \in Seq(BrokerOrder) /\ wire \in Seq(Entry) /\ book \in Seq(Entry) /\ faults \in Nat
  BY Constants DEF Types, TypeOK
<1>1. /\ broker' \in Seq(BrokerOrder) /\ wire' \in Seq(Entry)
      /\ DOMAIN broker' = DOMAIN broker \cup {id}
      /\ \A i \in DOMAIN broker' : broker'[i] = IF i = id THEN o ELSE broker[i]
  BY RecordTypes
<1>2. Advances(broker, broker')
  <2>1. \A i \in DOMAIN broker : broker[i] \in BrokerOrder BY <1>0
  <2>. QED BY <1>1, <2>1 DEF Advances, BrokerOrder
<1>3. \A e \in Entry : Behind(e, broker) => Behind(e, broker') BY <1>0, <1>1, <1>2, BehindAdvances
<1>4. Report(id, o) \in Entry /\ Report(id, o).id = id BY ReportType
<1>5. Behind(Report(id, o), broker')
  <2>1. broker'[id] = o /\ id \in DOMAIN broker' BY <1>1
  <2>2. Report(id, o).filled = o.filled /\ o.filled <= o.filled BY DEF Report, BrokerOrder
  <2>3. Report(id, o).status \in {"PENDING", o.status} BY DEF Report
  <2>4. o.status = "COMPLETE" => Report(id, o).status # "PENDING" BY DEF Report
  <2>. QED BY <1>4, <2>1, <2>2, <2>3, <2>4 DEF Behind
<1>6. wire' = wire \/ wire' = Append(wire, Report(id, o)) BY DEF Record, Notify
<1>7. /\ DOMAIN wire = 1 .. Len(wire) /\ Len(wire) \in Nat /\ \A j \in 1 .. Len(wire) : wire[j] \in Entry
      /\ wire' = Append(wire, Report(id, o)) =>
           /\ DOMAIN wire' = 1 .. Len(wire) + 1 /\ wire'[Len(wire) + 1] = Report(id, o)
           /\ \A j \in 1 .. Len(wire) : wire'[j] = wire[j]
  <2>1. PICK e \in Entry : e = Report(id, o) BY <1>4
  <2>2. wire' = Append(wire, Report(id, o)) => wire' = Append(wire, e) BY <2>1
  <2>. QED BY <1>0, <2>1, <2>2, Appended
<1>8. Sound(book, broker)' BY <1>0, <1>3 DEF BookInv, Reports, Sound
<1>9. \A j \in DOMAIN wire' : Behind(wire'[j], broker')
  <2>1. \A j \in DOMAIN wire : Behind(wire[j], broker') BY <1>3, <1>7 DEF BookInv, Reports
  <2>. QED BY <1>5, <1>6, <1>7, <2>1
<1>10. ASSUME NEW i \in Slot, sync'[i].at = "orders" PROVE \A j \in DOMAIN sync'[i].orders : Behind(sync'[i].orders[j], broker')
  <2>1. sync[i].at = "orders" /\ sync'[i] = sync[i] BY <1>10
  <2>2. sync[i].orders \in Seq(Entry) BY <2>1, Carried
  <2>. QED BY <1>3, <2>1, <2>2 DEF BookInv, Reports
<1>11. ASSUME NEW r \in replies' PROVE r.id \in DOMAIN broker' /\ (r.kind = "cancelled" => broker'[r.id].cancel)
  <2>1. CASE r \in replies
    <3>1. r.id \in DOMAIN broker /\ (r.kind = "cancelled" => broker[r.id].cancel)
      BY <2>1 DEF BookInv, Reports
    <3>. QED BY <1>2, <3>1 DEF Advances
  <2>2. CASE r \notin replies BY <1>1, <1>11, <2>2
  <2>. QED BY <2>1, <2>2
<1>12. Completions'
  <2>. SUFFICES ASSUME faults = 0
                PROVE  Up' /\ \A k \in DOMAIN broker' : broker'[k].status = "COMPLETE" =>
                         Announced(wire', broker', k) \/ (Shows(book', broker', k) /\ Silent(wire', k))
    BY DEF Completions
  <2>1. Up /\ Up' BY DEF BookInv, Completions, Up
  <2>2. wire' = Append(wire, Report(id, o)) BY <2>1 DEF Record, Notify
  <2>3. Announced(wire', broker', id)
    <3>1. Len(wire) + 1 \in DOMAIN wire' /\ broker'[id] = o /\ \A j \in DOMAIN wire' : ~(j > Len(wire) + 1)
      BY <1>1, <1>7, <2>2
    <3>. QED BY <1>7, <2>2, <3>1 DEF Announced
  <2>4. ASSUME NEW k \in DOMAIN broker', k # id, broker'[k].status = "COMPLETE"
        PROVE  Announced(wire', broker', k) \/ (Shows(book', broker', k) /\ Silent(wire', k))
    <3>1. k \in DOMAIN broker /\ broker'[k] = broker[k] BY <1>1, <2>4
    <3>2. CASE Announced(wire, broker, k)
      <4>1. PICK i \in DOMAIN wire : wire[i] = Report(k, broker[k]) /\ \A j \in DOMAIN wire : j > i => wire[j].id # k
        BY <3>2 DEF Announced
      <4>2. i \in DOMAIN wire' /\ wire'[i] = Report(k, broker'[k]) BY <1>7, <2>2, <3>1, <4>1
      <4>3. ASSUME NEW j \in DOMAIN wire', j > i PROVE wire'[j].id # k
        <5>1. CASE j = Len(wire) + 1 BY <1>4, <1>7, <2>2, <2>4, <5>1
        <5>2. CASE j \in 1 .. Len(wire) BY <1>7, <2>2, <4>1, <4>3, <5>2
        <5>. QED BY <1>7, <2>2, <5>1, <5>2
      <4>. QED BY <4>2, <4>3 DEF Announced
    <3>3. CASE Shows(book, broker, k) /\ Silent(wire, k)
      <4>1. Shows(book', broker', k) BY <3>1, <3>3 DEF Shows, Complete, Answered
      <4>2. Silent(wire', k) BY <1>4, <1>7, <2>2, <2>4, <3>3 DEF Silent
      <4>. QED BY <4>1, <4>2
    <3>. QED BY <2>4, <3>1, <3>2, <3>3 DEF BookInv, Completions
  <2>. QED BY <2>1, <2>3, <2>4
<1>13. \A k \in DOMAIN broker' : broker'[k].status = "COMPLETE" => broker'[k].filled > 0
  BY <1>1 DEF BookInv, Reports
<1>. QED BY <1>8, <1>9, <1>10, <1>11, <1>12, <1>13 DEF BookInv, Reports

(* A request to cancel, accepted. *)
LEMMA CancelKeeps ==
  ASSUME Types, BookInv, NEW i \in DOMAIN broker, CancelOrder(i)
  PROVE  BookInv'
<1>0. /\ broker \in Seq(BrokerOrder) /\ wire \in Seq(Entry) /\ book \in Seq(Entry) /\ broker[i].status = "OPEN"
      /\ UNCHANGED <<wire, proc, book, sync, faults>>
      /\ replies' = replies \cup {[kind |-> "cancelled", id |-> i]}
  BY DEF CancelOrder, Types, TypeOK
<1>1. /\ broker' \in Seq(BrokerOrder) /\ DOMAIN broker' = DOMAIN broker
      /\ broker'[i].cancel /\ broker'[i].filled = broker[i].filled /\ broker'[i].status = broker[i].status
      /\ \A j \in DOMAIN broker : j # i => broker'[j] = broker[j]
  BY CancelTypes
<1>10. /\ \A j \in DOMAIN book : book[j] \in Entry
       /\ \A j \in DOMAIN wire : wire[j] \in Entry
  BY <1>0
<1>2. Advances(broker, broker')
  <2>1. \A j \in DOMAIN broker : broker[j].filled \in Nat
    <3>1. \A j \in DOMAIN broker : broker[j] \in BrokerOrder BY <1>0
    <3>. QED BY <3>1 DEF BrokerOrder
  <2>2. ASSUME NEW j \in DOMAIN broker
        PROVE  /\ broker[j].filled <= broker'[j].filled /\ (broker[j].cancel => broker'[j].cancel)
               /\ broker[j].status # "OPEN" => broker'[j] = broker[j]
               /\ broker[j].status = "OPEN" /\ broker'[j].status = "COMPLETE" => broker[j].filled < broker'[j].filled
    <3>1. CASE j = i BY <1>0, <1>1, <2>1, <3>1
    <3>2. CASE j # i BY <1>1, <2>1, <3>2
    <3>. QED BY <3>1, <3>2
  <2>. QED BY <1>1, <2>2 DEF Advances
<1>3. \A e \in Entry : Behind(e, broker) => Behind(e, broker') BY <1>0, <1>1, <1>2, BehindAdvances
<1>4. Sound(book, broker)'
  <2>1. book' = book BY <1>0
  <2>. QED BY <1>3, <1>10, <2>1 DEF BookInv, Reports, Sound
<1>5. \A j \in DOMAIN wire' : Behind(wire'[j], broker')
  <2>1. wire' = wire BY <1>0
  <2>. QED BY <1>3, <1>10, <2>1 DEF BookInv, Reports
<1>6. ASSUME NEW j \in Slot, sync'[j].at = "orders"
      PROVE  \A l \in DOMAIN sync'[j].orders : Behind(sync'[j].orders[l], broker')
  <2>1. sync[j].at = "orders" /\ sync'[j] = sync[j] BY <1>0, <1>6
  <2>2. sync[j].orders \in Seq(Entry) BY <2>1, Carried
  <2>. QED BY <1>3, <2>1, <2>2 DEF BookInv, Reports
<1>7. ASSUME NEW r \in replies' PROVE r.id \in DOMAIN broker' /\ (r.kind = "cancelled" => broker'[r.id].cancel)
  <2>1. CASE r \in replies BY <1>1, <1>2, <2>1 DEF BookInv, Reports, Advances
  <2>2. CASE r \notin replies BY <1>0, <1>1, <2>2
  <2>. QED BY <2>1, <2>2
<1>8. \A k \in DOMAIN broker' : broker'[k].status = "COMPLETE" => broker'[k].filled > 0
  BY <1>0, <1>1 DEF BookInv, Reports
<1>9. Completions'
  <2>1. \A k \in DOMAIN broker' : broker'[k].status = "COMPLETE" => k \in DOMAIN broker /\ broker'[k] = broker[k]
    BY <1>0, <1>1
  <2>. QED BY <1>0, <2>1 DEF BookInv, Completions, Up, Announced, Shows, Complete, Answered
<1>. QED BY <1>4, <1>5, <1>6, <1>7, <1>8, <1>9 DEF BookInv, Reports

LEMMA BrokerKeeps ==
  ASSUME Types, BookInv, NEW i \in DOMAIN broker,
         \/ \E q \in 1 .. broker[i].qty : BrokerFill(i, q)
         \/ BrokerReject(i) \/ BrokerCancel(i) \/ CancelOrder(i)
  PROVE  BookInv'
<1>1. /\ i \in Id /\ i <= Len(broker) + 1 /\ broker[i] \in BrokerOrder
      /\ broker[i].filled \in Nat /\ broker[i].qty \in Nat
  <2>1. i \in Id /\ i <= Len(broker) + 1 /\ broker[i] \in BrokerOrder BY Constants DEF Id, Types, TypeOK
  <2>. QED BY <2>1 DEF BrokerOrder
<1>2. ASSUME NEW q \in 1 .. broker[i].qty, BrokerFill(i, q) PROVE BookInv'
  <2>2. PICK f \in Nat : f = broker[i].filled + q BY <1>1
  <2>3. PICK st \in {"OPEN", "COMPLETE"} : st = IF f = broker[i].qty THEN "COMPLETE" ELSE "OPEN" OBVIOUS
  <2> DEFINE o == [broker[i] EXCEPT !.filled = f, !.status = st]
  <2>4. Record(i, o) /\ broker[i].status = "OPEN" BY <1>2, <2>2, <2>3 DEF BrokerFill
  <2>5. o \in BrokerOrder /\ o.filled = f /\ o.cancel = broker[i].cancel
    <3>1. st \in {"OPEN"} \cup Final BY <2>3 DEF Final
    <3>. QED BY <1>1, <3>1 DEF BrokerOrder
  <2>. HIDE DEF o
  <2>6. broker[i].filled < o.filled /\ broker[i].filled <= o.filled /\ o.filled > 0
    BY <1>1, <2>2, <2>5
  <2>7. UNCHANGED <<proc, book, sync, faults>> /\ replies' = replies BY <1>2 DEF BrokerFill
  <2>. QED BY <1>1, <2>4, <2>5, <2>6, <2>7, RecordKeeps
<1>3. ASSUME NEW st \in {"REJECTED", "CANCELLED"},
             Record(i, [broker[i] EXCEPT !.status = st]), broker[i].status = "OPEN",
             UNCHANGED <<proc, book, sync, faults>>, replies' = replies
      PROVE  BookInv'
  <2> DEFINE o == [broker[i] EXCEPT !.status = st]
  <2>1. o \in BrokerOrder /\ broker[i].filled <= o.filled /\ o.cancel = broker[i].cancel /\ o.status # "COMPLETE"
    BY <1>1 DEF BrokerOrder, Final
  <2>2. Record(i, o) BY <1>3
  <2>. HIDE DEF o
  <2>. QED BY <1>1, <1>3, <2>1, <2>2, RecordKeeps
<1>4. CASE BrokerReject(i) BY <1>3, <1>4 DEF BrokerReject
<1>5. CASE BrokerCancel(i) BY <1>3, <1>5 DEF BrokerCancel
<1>6. CASE CancelOrder(i) BY <1>6, CancelKeeps
<1>. QED BY <1>2, <1>4, <1>5, <1>6

LEMMA AcceptKeeps ==
  ASSUME Types, BookInv, NEW s \in Symbol, NEW prod \in Product, NEW d \in {"BUY", "SELL"}, NEW q \in Nat,
         Len(broker) < MaxOrders, Accept(s, prod, d, q),
         UNCHANGED <<proc, book, sync, faults>>,
         replies' = replies \/ replies' = replies \cup {[kind |-> "placed", id |-> Len(broker) + 1]}
  PROVE  BookInv'
<1> DEFINE o == [sym |-> s, prod |-> prod, side |-> d, qty |-> q, filled |-> 0, status |-> "OPEN",
                cancel |-> FALSE]
<1>1. Len(broker) + 1 \in Id /\ Len(broker) + 1 \notin DOMAIN broker /\ Len(broker) + 1 <= Len(broker) + 1
  BY Constants DEF Types, TypeOK, Id
<1>2. o \in BrokerOrder /\ o.status # "COMPLETE" BY DEF BrokerOrder, Final
<1>3. Record(Len(broker) + 1, o) BY DEF Accept
<1>. HIDE DEF o
<1>4. \A r \in replies' : r \in replies \/ (r.id = Len(broker) + 1 /\ r.kind = "placed")
  OBVIOUS
<1>. QED BY <1>1, <1>2, <1>3, <1>4, RecordKeeps

LEMMA RequestKeeps ==
  ASSUME Types, BookInv,
         \/ \E s \in Symbol, d \in {"BUY", "SELL"}, q \in Qty :
              PlaceOrder(s, d, q) \/ \E prod \in Product : ExternalOrder(s, prod, d, q)
         \/ \E c \in DOMAIN calls : SendCall(c)
  PROVE  BookInv'
<1>1. Len(broker) \in Nat /\ Len(calls) \in Nat /\ MaxOrders \in Nat /\ "MIS" \in Product
  BY Constants DEF Types, TypeOK
<1>2. ASSUME NEW s \in Symbol, NEW d \in {"BUY", "SELL"}, NEW q \in Qty, PlaceOrder(s, d, q) PROVE BookInv'
  <2>1. q \in Nat /\ Len(broker) < MaxOrders BY <1>1, <1>2, Constants DEF PlaceOrder, Room
  <2>2. /\ Accept(s, "MIS", d, q) /\ UNCHANGED <<proc, book, sync, faults>>
        /\ replies' = replies \cup {[kind |-> "placed", id |-> Len(broker) + 1]}
    BY <1>2 DEF PlaceOrder
  <2>. QED BY <1>1, <2>1, <2>2, AcceptKeeps
<1>3. ASSUME NEW s \in Symbol, NEW d \in {"BUY", "SELL"}, NEW q \in Qty, NEW prod \in Product,
             ExternalOrder(s, prod, d, q)
      PROVE  BookInv'
  <2>1. q \in Nat /\ Len(broker) < MaxOrders BY <1>1, <1>3, Constants DEF ExternalOrder, Room
  <2>2. Accept(s, prod, d, q) /\ UNCHANGED <<proc, book, sync, faults>> /\ replies' = replies
    BY <1>3 DEF ExternalOrder
  <2>. QED BY <2>1, <2>2, AcceptKeeps
<1>4. ASSUME NEW c \in DOMAIN calls, SendCall(c) PROVE BookInv'
  <2>1. calls[c] \in Request /\ Len(calls) >= 1 BY DEF Types, TypeOK
  <2>2. calls[c].sym \in Symbol /\ calls[c].side \in {"BUY", "SELL"} /\ calls[c].qty \in Nat BY <2>1 DEF Request
  <2>3. Len(broker) < MaxOrders BY <1>1, <2>1 DEF Types
  <2>4. /\ Accept(calls[c].sym, "MIS", calls[c].side, calls[c].qty)
        /\ UNCHANGED <<proc, book, sync, faults>> /\ replies' = replies
    BY <1>4 DEF SendCall
  <2>. QED BY <1>1, <2>2, <2>3, <2>4, AcceptKeeps
<1>. QED BY <1>2, <1>3, <1>4
(* An answer of the broker, handled late. *)
LEMMA AnswerKeeps ==
  ASSUME Types, BookInv, NEW id \in Id, OrderPlaced(id) \/ OrderCancelled(id)
  PROVE  BookInv'
<1>0. /\ broker \in Seq(BrokerOrder) /\ book \in Seq(Entry) /\ Sound(book, broker)
      /\ DOMAIN book = 1 .. Len(book) /\ Len(book) \in Nat /\ \A j \in 1 .. Len(book) : book[j] \in Entry
  BY DEF Types, TypeOK, BookInv, Reports
<1>1. UNCHANGED <<broker, wire, proc, sync, faults>> /\ replies' \subseteq replies
  BY DEF OrderPlaced, OrderCancelled, exchange
<1>2. /\ Sound(book', broker)
      /\ \A k \in DOMAIN broker : broker[k].status = "COMPLETE" /\ Shows(book, broker, k) => Shows(book', broker, k)
  <2>1. CASE OrderPlaced(id) /\ InBook(id) BY <1>0, <2>1 DEF OrderPlaced
  <2>2. CASE OrderPlaced(id) /\ ~InBook(id)
    <3>1. NewEntry(id) \in Entry /\ NewEntry(id).id = id /\ NewEntry(id).filled = 0 /\ NewEntry(id).status = "PENDING"
      BY DEF NewEntry, Entry
    <3>2. id \in DOMAIN broker BY <2>2 DEF OrderPlaced, BookInv, Reports
    <3>3. broker[id].filled \in Nat /\ (broker[id].status = "COMPLETE" => broker[id].filled > 0)
      <4>1. broker[id] \in BrokerOrder BY <1>0, <3>2
      <4>. QED BY <3>2, <4>1 DEF BrokerOrder, BookInv, Reports
    <3>4. Behind(NewEntry(id), broker) BY <3>1, <3>2, <3>3 DEF Behind
    <3>5. book' = Append(book, NewEntry(id)) BY <2>2 DEF OrderPlaced
    <3>6. ~ \E j \in DOMAIN book : book[j].id = id BY <2>2 DEF InBook, Find
    <3>7. book' = Cached(book, NewEntry(id)) BY <3>1, <3>5, <3>6 DEF Cached
    <3>. QED BY <1>0, <3>1, <3>4, <3>7, CachedSound
  <2>3. CASE OrderCancelled(id)
    <3>1. id \in DOMAIN broker /\ broker[id].cancel BY <2>3 DEF OrderCancelled, BookInv, Reports
    <3>2. DOMAIN book' = DOMAIN book BY <2>3 DEF OrderCancelled
    <3>3. ASSUME NEW j \in DOMAIN book
          PROVE  /\ book'[j].id = book[j].id /\ book'[j].filled = book[j].filled
                 /\ book[j].id = id => book'[j].status = "CANCELLED"
                 /\ book[j].id # id => book'[j] = book[j]
      <4>1. book'[j] = IF book[j].id = id THEN [book[j] EXCEPT !.status = "CANCELLED"] ELSE book[j]
        BY <2>3 DEF OrderCancelled
      <4>2. book[j] \in Entry BY <1>0
      <4>. QED BY <4>1, <4>2 DEF Entry
    <3>4. Sound(book', broker)
      <4>1. \A j \in DOMAIN book : Behind(book'[j], broker)
        BY <1>0, <3>1, <3>3 DEF Sound, Behind, Answered
      <4>. QED BY <1>0, <3>2, <3>3, <4>1 DEF Sound
    <3>5. ASSUME NEW k \in DOMAIN broker, broker[k].status = "COMPLETE", Shows(book, broker, k)
          PROVE  Shows(book', broker, k)
      <4>1. PICK j \in DOMAIN book : Complete(book[j], broker, k) BY <3>5 DEF Shows
      <4>2. Complete(book'[j], broker, k) BY <3>1, <3>3, <4>1 DEF Complete, Answered
      <4>. QED BY <3>2, <4>2 DEF Shows
    <3>. QED BY <3>4, <3>5
  <2>. QED BY <2>1, <2>2, <2>3
<1>3. Reports' BY <1>1, <1>2 DEF BookInv, Reports
<1>4. Completions' BY <1>1, <1>2 DEF BookInv, Completions, Up
<1>. QED BY <1>3, <1>4 DEF BookInv

(* An order update, handled: the first of the updates under way. *)
LEMMA UpdateKeeps ==
  ASSUME Types, BookInv, HandleOrderUpdate
  PROVE  BookInv'
<1>0. /\ broker \in Seq(BrokerOrder) /\ book \in Seq(Entry) /\ wire \in Seq(Entry) /\ wire # <<>>
      /\ Sound(book, broker) /\ wire' = Tail(wire)
  BY DEF HandleOrderUpdate, Types, TypeOK, BookInv, Reports
<1> DEFINE e == Head(wire)
<1>1. /\ Len(wire) \in Nat \ {0} /\ DOMAIN wire = 1 .. Len(wire)
      /\ e = wire[1] /\ e \in Entry /\ DOMAIN wire' = 1 .. Len(wire) - 1
      /\ \A i \in 1 .. Len(wire) - 1 : wire'[i] = wire[i + 1]
  BY <1>0, Taken
<1>2. /\ book' = Overwritten(book, e)
      /\ \A i \in Slot : sync'[i] = sync[i] \/ sync'[i] = [at |-> "start"]
      /\ UNCHANGED <<broker, proc, replies, faults>>
  <2>1. book' = Overwritten(book, e) BY DEF HandleOrderUpdate, Overwritten, InBook, Find
  <2>2. UNCHANGED sync \/ \E i \in Free : sync' = [sync EXCEPT ![i] = [at |-> "start"]]
    BY DEF HandleOrderUpdate
  <2>3. sync \in [Slot -> SyncState] BY DEF Types, TypeOK
  <2>4. \A i \in Slot : sync'[i] = sync[i] \/ sync'[i] = [at |-> "start"] BY <2>2, <2>3
  <2>5. UNCHANGED <<broker, proc, replies, faults>> BY DEF HandleOrderUpdate, exchange
  <2>. QED BY <2>1, <2>4, <2>5
<1>3. Behind(e, broker) BY <1>1 DEF BookInv, Reports
<1>. HIDE DEF e
<1>4. /\ Sound(book', broker)
      /\ \A k \in DOMAIN broker : k # e.id /\ Shows(book, broker, k) => Shows(book', broker, k)
      /\ Complete(e, broker, e.id) => Shows(book', broker, e.id)
  BY <1>0, <1>1, <1>2, <1>3, OverwrittenSound
<1>5. Reports'
  <2>1. \A j \in DOMAIN wire' : Behind(wire'[j], broker)
    BY <1>1 DEF BookInv, Reports
  <2>2. ASSUME NEW i \in Slot, sync'[i].at = "orders"
        PROVE  \A j \in DOMAIN sync'[i].orders : Behind(sync'[i].orders[j], broker)
    <3>1. sync'[i] = sync[i] BY <1>2, <2>2
    <3>. QED BY <2>2, <3>1 DEF BookInv, Reports
  <2>. QED BY <1>2, <1>4, <2>1, <2>2 DEF BookInv, Reports
<1>6. Completions'
  <2>. SUFFICES ASSUME faults = 0, NEW k \in DOMAIN broker, broker[k].status = "COMPLETE"
                PROVE  Announced(wire', broker, k) \/ (Shows(book', broker, k) /\ Silent(wire', k))
    BY <1>2 DEF BookInv, Completions, Up
  <2>5. broker[k].status = "COMPLETE" OBVIOUS
  <2>1. CASE Announced(wire, broker, k)
    <3>1. PICK i \in DOMAIN wire : wire[i] = Report(k, broker[k]) /\ \A j \in DOMAIN wire : j > i => wire[j].id # k
      BY <2>1 DEF Announced
    <3>2. CASE i = 1
      <4>1. e = Report(k, broker[k]) /\ e.id = k BY <1>1, <3>1, <3>2 DEF Report
      <4>2. Complete(e, broker, k) BY <2>5, <4>1 DEF Complete, Report
      <4>5. Shows(book', broker, k) BY <1>4, <4>1, <4>2
      <4>3. \A j \in 1 .. Len(wire) - 1 : j + 1 \in DOMAIN wire /\ j + 1 > i BY <1>1, <3>2
      <4>4. Silent(wire', k) BY <1>1, <3>1, <4>3 DEF Silent
      <4>. QED BY <4>4, <4>5
    <3>3. CASE i # 1
      <4>1. i - 1 \in DOMAIN wire' /\ wire'[i - 1] = Report(k, broker[k]) BY <1>1, <3>1, <3>3
      <4>2. ASSUME NEW j \in DOMAIN wire', j > i - 1 PROVE wire'[j].id # k
        <5>1. j + 1 \in DOMAIN wire /\ j + 1 > i BY <1>1, <4>2
        <5>. QED BY <1>1, <3>1, <5>1
      <4>. QED BY <4>1, <4>2 DEF Announced
    <3>. QED BY <3>2, <3>3
  <2>2. CASE Shows(book, broker, k) /\ Silent(wire, k)
    <3>1. e.id # k BY <1>1, <2>2 DEF Silent
    <3>2. \A j \in 1 .. Len(wire) - 1 : j + 1 \in DOMAIN wire BY <1>1
    <3>3. Silent(wire', k) BY <1>1, <2>2, <3>2 DEF Silent
    <3>. QED BY <1>4, <2>2, <3>1, <3>3
  <2>. QED BY <2>1, <2>2 DEF BookInv, Completions
<1>. QED BY <1>5, <1>6 DEF BookInv
(* The steps of a sync that do not write the order book, and the others that leave it, the
   broker and the updates alone: what they put in a sync is behind the broker. *)
LEMMA OthersKeep ==
  ASSUME Types, BookInv, UNCHANGED <<broker, wire, book, replies>>,
         \/ faults' = faults /\ (Up => Up')
         \/ faults' = faults + 1,
         \A i \in Slot : \/ sync'[i] = sync[i]
                        \/ sync'[i].at # "orders"
                        \/ sync'[i].orders = [j \in DOMAIN broker |-> Report(j, broker[j])]
  PROVE  BookInv'
<1>1. ASSUME NEW j \in DOMAIN broker PROVE Behind(Report(j, broker[j]), broker)
  <2>1. broker[j] \in BrokerOrder BY DEF Types, TypeOK
  <2>2. broker[j].filled \in Nat BY <2>1 DEF BrokerOrder
  <2>3. Report(j, broker[j]).status \in {"PENDING", broker[j].status}
        /\ (broker[j].status = "COMPLETE" => Report(j, broker[j]).status # "PENDING")
    BY DEF Report
  <2>. QED BY <2>2, <2>3 DEF Behind, Report
<1>2. ASSUME NEW i \in Slot, sync'[i].at = "orders"
      PROVE  \A j \in DOMAIN sync'[i].orders : Behind(sync'[i].orders[j], broker)
  <2>1. CASE sync'[i] = sync[i] BY <1>2, <2>1 DEF BookInv, Reports
  <2>2. CASE sync'[i].orders = [j \in DOMAIN broker |-> Report(j, broker[j])] BY <1>1, <2>2
  <2>. QED BY <1>2, <2>1, <2>2
<1>3. Reports' BY <1>2 DEF BookInv, Reports
<1>4. Completions'
  <2>1. CASE faults' = faults + 1
    <3>1. faults' # 0 BY <2>1, Constants DEF Types, TypeOK
    <3>. QED BY <3>1 DEF Completions
  <2>2. CASE faults' = faults /\ (Up => Up') BY <2>2 DEF BookInv, Completions
  <2>. QED BY <2>1, <2>2
<1>. QED BY <1>3, <1>4 DEF BookInv

LEMMA SyncKeeps ==
  ASSUME Types, BookInv, NEW i \in Slot, SyncStep(i) \/ SyncFails(i)
  PROVE  BookInv'
<1>0. sync \in [Slot -> SyncState] BY DEF Types, TypeOK
<1>1. CASE GetOrders(i)
  <2> DEFINE a == [j \in DOMAIN broker |-> Report(j, broker[j])]
  <2>1. sync' = [sync EXCEPT ![i] = [at |-> "orders", orders |-> a]] BY <1>1 DEF GetOrders
  <2>. HIDE DEF a
  <2>2. \A j \in Slot : sync'[j] = sync[j] \/ sync'[j].orders = a BY <1>0, <2>1
  <2>3. UNCHANGED <<broker, wire, book, replies, proc, faults>> BY <1>1 DEF GetOrders, exchange
  <2>. QED BY <2>2, <2>3, OthersKeep DEF a, Up
<1>2. CASE ApplyOrders(i)
  <2>1. /\ sync[i].at = "orders" /\ book' = Cache(sync[i].orders)
        /\ sync' = [sync EXCEPT ![i] = [at |-> "middle"]]
        /\ UNCHANGED <<broker, wire, proc, replies, faults>>
    BY <1>2 DEF ApplyOrders, exchange
  <2>2. /\ broker \in Seq(BrokerOrder) /\ book \in Seq(Entry) /\ Sound(book, broker)
        /\ sync[i].orders \in Seq(Entry)
        /\ \A j \in DOMAIN sync[i].orders : Behind(sync[i].orders[j], broker)
    BY <2>1, Carried DEF Types, TypeOK, BookInv, Reports
  <2>3. /\ Sound(book', broker)
        /\ \A k \in DOMAIN broker : broker[k].status = "COMPLETE" /\ Shows(book, broker, k) => Shows(book', broker, k)
    BY <2>1, <2>2, CacheSound
  <2>4. ASSUME NEW j \in Slot, sync'[j].at = "orders"
        PROVE  \A l \in DOMAIN sync'[j].orders : Behind(sync'[j].orders[l], broker)
    <3>1. sync'[j] = sync[j] \/ sync'[j] = [at |-> "middle"] BY <1>0, <2>1
    <3>2. sync'[j] = sync[j] BY <2>4, <3>1
    <3>. QED BY <2>4, <3>2 DEF BookInv, Reports
  <2>5. Reports' BY <2>1, <2>3, <2>4 DEF BookInv, Reports
  <2>6. Completions' BY <2>1, <2>3 DEF BookInv, Completions, Up
  <2>. QED BY <2>5, <2>6 DEF BookInv
<1>3. CASE GetPositions(i)
  <2>1. PICK listed \in SUBSET Key : sync' = [sync EXCEPT ![i] = [at |-> "positions", net |-> net, listed |-> listed]]
    BY <1>3 DEF GetPositions
  <2>2. \A j \in Slot : sync'[j] = sync[j] \/ sync'[j].at # "orders" BY <1>0, <2>1
  <2>3. UNCHANGED <<broker, wire, book, replies, proc, faults>> BY <1>3 DEF GetPositions, exchange
  <2>. QED BY <2>2, <2>3, OthersKeep DEF Up
<1>4. CASE ApplyPositions(i)
  <2>1. sync' = [sync EXCEPT ![i] = Idle] BY <1>4 DEF ApplyPositions
  <2>2. \A j \in Slot : sync'[j] = sync[j] \/ sync'[j].at # "orders" BY <1>0, <2>1 DEF Idle
  <2>3. UNCHANGED <<broker, wire, book, replies, faults>> /\ (Up => Up')
    BY <1>4 DEF ApplyPositions, exchange, Ended, Up
  <2>. QED BY <2>2, <2>3, OthersKeep
<1>5. CASE SyncFails(i)
  <2>1. sync' = [sync EXCEPT ![i] = Idle] BY <1>5 DEF SyncFails
  <2>2. \A j \in Slot : sync'[j] = sync[j] \/ sync'[j].at # "orders" BY <1>0, <2>1 DEF Idle
  <2>3. UNCHANGED <<broker, wire, book, replies>> /\ faults' = faults + 1
    BY <1>5 DEF SyncFails, exchange, Fault
  <2>. QED BY <2>2, <2>3, OthersKeep
<1>. QED BY <1>1, <1>2, <1>3, <1>4, <1>5 DEF SyncStep

(* A lost update and a crash: they are faults. *)
LEMMA FaultKeeps ==
  ASSUME Types, BookInv, LoseUpdate \/ Crash
  PROVE  BookInv'
<1>1. faults' # 0 /\ UNCHANGED <<broker, book>>
  BY Constants DEF LoseUpdate, Crash, Fault, exchange, Types, TypeOK
<1>2. CASE LoseUpdate
  <2>1. UNCHANGED <<replies, sync>> /\ wire # <<>> /\ wire' = Tail(wire) BY <1>2 DEF LoseUpdate
  <2>2. wire \in Seq(Entry) BY DEF Types, TypeOK
  <2>3. \A j \in DOMAIN wire' : j + 1 \in DOMAIN wire /\ wire'[j] = wire[j + 1]
    BY <2>1, <2>2, Taken
  <2>. QED BY <1>1, <2>1, <2>3 DEF BookInv, Reports, Completions
<1>3. CASE Crash
  <2>1. replies' = {} /\ DOMAIN wire' = {} /\ \A i \in Slot : sync'[i].at # "orders" BY <1>3 DEF Crash, Idle
  <2>. QED BY <1>1, <2>1 DEF BookInv, Reports, Completions
<1>. QED BY <1>2, <1>3

LEMMA StepBook == Types /\ BookInv /\ [Next]_vars => BookInv'
<1>. SUFFICES ASSUME Types, BookInv, [Next]_vars PROVE BookInv' OBVIOUS
<1>1. CASE UNCHANGED vars BY <1>1, OthersKeep DEF vars, Up
<1>2. ASSUME NEW k \in Key, (\E q \in Qty : ExitPosition(k, q)) \/ (\E b \in Bracket : UpdatePositionMetadata(k, b))
      PROVE  BookInv'
  <2>1. UNCHANGED <<broker, wire, book, replies, sync, proc, faults>>
    BY <1>2 DEF ExitPosition, UpdatePositionMetadata, exchange
  <2>. QED BY <2>1, OthersKeep DEF Up
<1>3. ASSUME NEW c \in DOMAIN calls, CallFails(c) PROVE BookInv'
  <2>1. UNCHANGED <<broker, wire, book, replies, sync>> /\ faults' = faults + 1
    BY <1>3 DEF CallFails, exchange, Fault
  <2>. QED BY <2>1, OthersKeep
<1>4. ASSUME NEW s \in Symbol, NEW price \in Price, OnPriceUpdate(s, price) PROVE BookInv'
  <2>1. UNCHANGED <<broker, wire, book, replies, sync, proc, faults>> BY <1>4 DEF OnPriceUpdate, exchange
  <2>. QED BY <2>1, OthersKeep DEF Up
<1>5. CASE Restart
  <2>1. UNCHANGED <<broker, wire, book, replies, faults>> /\ (Up => Up')
        /\ sync' = [sync EXCEPT ![1] = [at |-> "start"]]
    BY <1>5 DEF Restart, exchange, Up
  <2>2. sync \in [Slot -> SyncState] BY DEF Types, TypeOK
  <2>3. \A j \in Slot : sync'[j] = sync[j] \/ sync'[j].at # "orders" BY <2>1, <2>2
  <2>. QED BY <2>1, <2>3, OthersKeep
<1>. QED
  BY <1>1, <1>2, <1>3, <1>4, <1>5, BrokerKeeps, RequestKeeps, AnswerKeeps, UpdateKeeps, SyncKeeps, FaultKeeps
  DEF Next

LEMMA BookKept == Spec => [](Types /\ BookInv)
<1>1. Init => Types /\ BookInv BY InitTypes, InitBook
<1>2. Types /\ BookInv /\ [Next]_vars => (Types /\ BookInv)' BY StepTypes, StepBook
<1>. QED BY <1>1, <1>2, PTL DEF Spec

(* Whatever order answers, updates and overlapping syncs come in, and whether a fill or an
   accepted cancel comes first: an order has one entry, it claims no execution and no end
   the broker does not know but the accepted cancel, and once all has arrived and nothing
   was lost it has all the executions of every completed order. *)
THEOREM BookFollows == Spec => []BookFollowsBroker
<1>1. ASSUME BookInv PROVE BookFollowsBroker
  <2>1. \A j, l \in DOMAIN book : book[j].id = book[l].id => j = l BY <1>1 DEF BookInv, Reports, Sound
  <2>2. \A j \in DOMAIN book :
          LET o == broker[book[j].id] IN
          /\ book[j].filled <= o.filled
          /\ book[j].status \in {"PENDING", o.status} \/ CancelAnswered(book[j])
    BY <1>1 DEF BookInv, Reports, Sound, Behind, Answered, CancelAnswered
  <2>3. ASSUME Quiet, NEW id \in DOMAIN broker, broker[id].status = "COMPLETE"
        PROVE  \E j \in Find(id) :
                 /\ book[j].filled = broker[id].filled
                 /\ book[j].status = "COMPLETE" \/ CancelAnswered(book[j])
    <3>1. faults = 0 /\ DOMAIN wire = {} BY <2>3 DEF Quiet
    <3>2. Shows(book, broker, id) BY <1>1, <2>3, <3>1 DEF BookInv, Completions, Announced
    <3>3. PICK j \in DOMAIN book : Complete(book[j], broker, id) BY <3>2 DEF Shows
    <3>. QED BY <3>3 DEF Find, Complete, Answered, CancelAnswered
  <2>. QED BY <2>1, <2>2, <2>3 DEF BookFollowsBroker
<1>. QED BY <1>1, BookKept, PTL
=============================================================================
