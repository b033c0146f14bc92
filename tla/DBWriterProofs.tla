---------------------------- MODULE DBWriterProofs ----------------------------
(***************************************************************************)
(* For any batch size and any number of rows: no row is lost between Add   *)
(* and its insert, and only what Close copied may be inserted twice.       *)
(*                                                                         *)
(* The strengthening follows a row.  It waits in at most one place, a      *)
(* batch or one background insert (Apart); as long as it waits there it    *)
(* has not been written, once Close has copied it it may have been written *)
(* once by Close (Once); and what Close found in a batch is settled as     *)
(* soon as Close has inserted the kind (Copied).                           *)
(***************************************************************************)
EXTENDS DBWriter, FiniteSetTheorems, TLAPS

Waits(k, r) == r \in batch[k] \/ InFlight(k, r)
Owed(k, r) == k \in left /\ r \in copy[k]

(* What the control points of Close imply. *)
Stages ==
  /\ close # "no" => ~streaming
  /\ close \in {"no", "cancelled"} => left = {} /\ copy = [k \in Kind |-> {}]
  /\ close = "returned" => left = {} /\ ~timer /\ inserting = {}

(* Only rows that were added are anywhere. *)
Numbered ==
  \A k \in Kind : \A r \in Row :
    Waits(k, r) \/ Settled(k, r) \/ r \in copy[k] => r <= added[k]

(* A row waits in one place. *)
Apart ==
  /\ \A i \in inserting : \A r \in i.rows : r \notin batch[i.kind]
  /\ \A i, j \in inserting : i.kind = j.kind /\ i # j => \A r \in i.rows : r \notin j.rows

(* How often a row has been written. *)
Once ==
  \A k \in Kind : \A r \in Row :
    /\ written[k][r] <= 2
    /\ k = "bars" => written[k][r] <= 1
    /\ r \notin copy[k] => written[k][r] <= 1 /\ (Waits(k, r) => written[k][r] = 0)
    /\ Waits(k, r) \/ Owed(k, r) => written[k][r] <= 1
    /\ Waits(k, r) /\ Owed(k, r) => written[k][r] = 0

(* Every row added waits or is settled; Close looks after what it found in a batch. *)
Kept == \A k \in Kind : \A r \in 1 .. added[k] : Settled(k, r) \/ Waits(k, r)
Copied ==
  close \in {"inserting", "returned"} =>
    \A k \in Kind : batch[k] \subseteq copy[k] /\ \A r \in copy[k] : k \in left \/ Settled(k, r)

IInv == TypeOK /\ Stages /\ Numbered /\ Apart /\ Once /\ Kept /\ Copied

(* An empty batch is below its size. *)
LEMMA EmptyFits == Cardinality({}) < BatchSize
  BY FS_EmptySet, WriterAssumption

(* What Rest leaves fits. *)
LEMMA RestFits ==
  ASSUME NEW b \in SUBSET Row
  PROVE  Rest(b) \in SUBSET Row /\ Cardinality(Rest(b)) < BatchSize
<1>1. IsFiniteSet(Row) BY FS_Interval, WriterAssumption DEF Row
<1>2. Cardinality(b) \in Nat BY <1>1, FS_Subset, FS_CardinalityType
<1>. QED BY <1>2, EmptyFits, WriterAssumption DEF Rest, Full

LEMMA InitHolds == Init => IInv
<1>. SUFFICES ASSUME Init PROVE IInv OBVIOUS
<1> USE DEF Init
<1>1. TypeOK BY EmptyFits, WriterAssumption DEF TypeOK
<1>2. Stages /\ Apart BY DEF Stages, Apart
<1>3. Numbered /\ Once /\ Kept /\ Copied
  BY DEF Numbered, Once, Kept, Copied, Waits, Owed, InFlight, Settled
<1>. QED BY <1>1, <1>2, <1>3 DEF IInv

(* Add appends one new row; a full batch goes to a goroutine, row for row. *)
LEMMA AddKeeps ==
  ASSUME IInv, NEW k \in Kind, Add(k)
  PROVE  IInv'
<1> DEFINE n == added[k] + 1
           b == batch[k] \cup {n}
           job == [kind |-> k, rows |-> b]
<1>1. n \in Row /\ b \in SUBSET Row /\ job \in [kind : Kind, rows : SUBSET Row]
  BY WriterAssumption DEF Add, IInv, TypeOK, Row
<1>2. streaming /\ close = "no" BY DEF Add, IInv, Stages, TypeOK
<1>3. batch' = [batch EXCEPT ![k] = Rest(b)] /\ added' = [added EXCEPT ![k] = n]
  BY DEF Add
<1>4. \/ Rest(b) = {} /\ inserting' = inserting \cup {job}
      \/ Rest(b) = b /\ inserting' = inserting
  BY DEF Add, Rest
<1>5. UNCHANGED <<skip, written, dropped, copy, left, streaming, timer, close>>
  BY DEF Add
<1>6. ~Waits(k, n) /\ ~Settled(k, n) /\ n \notin copy[k]
  BY <1>1, WriterAssumption DEF IInv, Numbered, TypeOK, Row
<1>7. ASSUME NEW r \in Row PROVE Waits(k, r)' <=> Waits(k, r) \/ r = n
  <2>1. batch'[k] = Rest(b) BY <1>3 DEF IInv, TypeOK
  <2>2. CASE Rest(b) = b /\ inserting' = inserting
    BY <2>1, <2>2 DEF Waits, InFlight
  <2>3. CASE Rest(b) = {} /\ inserting' = inserting \cup {job}
    <3>1. job.kind = k /\ job.rows = b OBVIOUS
    <3>2. InFlight(k, r)' <=> InFlight(k, r) \/ r \in b
      <4>. HIDE DEF job
      <4>. QED BY <2>3, <3>1 DEF InFlight
    <3>. QED BY <2>1, <2>3, <3>2 DEF Waits
  <2>. QED BY <1>4, <2>2, <2>3
<1>8. \A q \in Kind \ {k} : \A r \in Row : Waits(q, r)' <=> Waits(q, r)
  BY <1>3, <1>4 DEF Waits, InFlight, IInv, TypeOK
<1>9. TypeOK'
  <2>1. batch' \in [Kind -> SUBSET Row] /\ \A q \in Kind : Cardinality(batch'[q]) < BatchSize
    BY <1>1, <1>3, RestFits DEF IInv, TypeOK
  <2>2. inserting' \in SUBSET [kind : Kind, rows : SUBSET Row]
    BY <1>1, <1>4 DEF IInv, TypeOK
  <2>3. added' \in [Kind -> 0 .. MaxRows]
    BY <1>1, <1>3 DEF IInv, TypeOK, Row
  <2>. QED BY <1>5, <2>1, <2>2, <2>3 DEF IInv, TypeOK
<1>10. Stages' BY <1>2, <1>5 DEF IInv, Stages
<1>11. Numbered'
  <2>. SUFFICES ASSUME NEW q \in Kind, NEW r \in Row,
                       Waits(q, r)' \/ Settled(q, r)' \/ r \in copy'[q]
                PROVE  r <= added'[q]
    BY DEF Numbered
  <2>1. Settled(q, r)' <=> Settled(q, r) BY <1>5 DEF Settled
  <2>2. added[q] \in Nat /\ r \in Nat
    <3>1. added[q] \in 0 .. MaxRows BY DEF IInv, TypeOK
    <3>. QED BY <3>1, WriterAssumption DEF Row
  <2>3. CASE q = k BY <1>3, <1>5, <1>7, <2>1, <2>2, <2>3 DEF IInv, Numbered, TypeOK
  <2>4. CASE q # k BY <1>3, <1>5, <1>8, <2>1, <2>4 DEF IInv, Numbered, TypeOK
  <2>. QED BY <2>3, <2>4
<1>12. Apart'
  <2>1. \A i \in inserting : i.kind = k => n \notin i.rows /\ \A r \in i.rows : r \notin b
    BY <1>6 DEF Waits, InFlight, IInv, Apart
  <2>2. job.kind = k /\ job.rows = b OBVIOUS
  <2>3. \A q \in Kind : batch'[q] = IF q = k THEN Rest(b) ELSE batch[q]
    BY <1>3 DEF IInv, TypeOK
  <2>4. \A i \in inserting : i.kind \in Kind BY DEF IInv, TypeOK
  <2>5. ASSUME NEW i \in inserting', NEW r \in i.rows PROVE r \notin batch'[i.kind]
    <3> HIDE DEF job, b
    <3>1. CASE i \in inserting
      BY <3>1, <2>1, <2>3, <2>4, <2>5, <1>4 DEF Apart, IInv
    <3>2. CASE i \notin inserting BY <3>2, <2>2, <2>3, <1>4
    <3>. QED BY <3>1, <3>2
  <2>6. ASSUME NEW i \in inserting', NEW j \in inserting', i.kind = j.kind, i # j, NEW r \in i.rows
        PROVE  r \notin j.rows
    <3> HIDE DEF job, b
    <3>1. CASE i \in inserting /\ j \in inserting BY <3>1, <2>6 DEF Apart, IInv
    <3>2. CASE i \notin inserting \/ j \notin inserting
      BY <3>2, <2>1, <2>2, <2>6, <1>4
    <3>. QED BY <3>1, <3>2
  <2>. QED BY <2>5, <2>6 DEF Apart
<1>13. Once'
  <2>. SUFFICES ASSUME NEW q \in Kind, NEW r \in Row
                PROVE  /\ written'[q][r] <= 2
                       /\ q = "bars" => written'[q][r] <= 1
                       /\ r \notin copy'[q] => written'[q][r] <= 1 /\ (Waits(q, r)' => written'[q][r] = 0)
                       /\ Waits(q, r)' \/ Owed(q, r)' => written'[q][r] <= 1
                       /\ Waits(q, r)' /\ Owed(q, r)' => written'[q][r] = 0
    BY DEF Once
  <2>1. Owed(q, r)' <=> Owed(q, r) BY <1>5 DEF Owed
  <2>2. written[q][r] \in Nat BY DEF IInv, TypeOK
  <2>3. CASE q = k /\ r = n BY <1>5, <1>6, <2>1, <2>2, <2>3 DEF Settled, Owed
  <2>4. CASE ~(q = k /\ r = n)
    BY <1>5, <1>7, <1>8, <2>1, <2>4 DEF IInv, Once
  <2>. QED BY <2>3, <2>4
<1>14. Kept'
  <2>. SUFFICES ASSUME NEW q \in Kind, NEW r \in 1 .. added'[q]
                PROVE  Settled(q, r)' \/ Waits(q, r)'
    BY DEF Kept
  <2>1. Settled(q, r)' <=> Settled(q, r) BY <1>5 DEF Settled
  <2>2. r \in Row BY <1>9, WriterAssumption DEF TypeOK, Row
  <2>3. CASE r \in 1 .. added[q]
    BY <2>1, <2>2, <2>3, <1>7, <1>8 DEF IInv, Kept
  <2>4. CASE r \notin 1 .. added[q]
    BY <2>4, <2>2, <1>3, <1>7 DEF IInv, TypeOK
  <2>. QED BY <2>3, <2>4
<1>15. Copied' BY <1>2, <1>5 DEF Copied
<1>. QED BY <1>9, <1>10, <1>11, <1>12, <1>13, <1>14, <1>15 DEF IInv

(* The timer moves every row from its batch to a goroutine: no row waits more or less. *)
LEMMA FlushKeeps ==
  ASSUME IInv, Flush
  PROVE  IInv'
<1> DEFINE Job(k) == [kind |-> k, rows |-> batch[k]]
<1>1. inserting' = inserting \cup {Job(k) : k \in ToFlush} /\ batch' = [k \in Kind |-> {}]
  BY DEF Flush
<1>2. UNCHANGED <<skip, added, written, dropped, copy, left, streaming, timer, close>> /\ timer
  BY DEF Flush
<1>3. \A k \in Kind : Job(k) \in [kind : Kind, rows : SUBSET Row]
  BY DEF IInv, TypeOK
<1>4. \A k \in Kind : Job(k).kind = k /\ Job(k).rows = batch[k]
  OBVIOUS
<1>5. ToFlush \subseteq Kind /\ \A k \in Kind : k \notin ToFlush => batch[k] = {}
  BY DEF ToFlush
<1>6. \A i \in inserting' : i \in inserting \/ \E k \in ToFlush : i = Job(k)
  BY <1>1
<1>7. \A k \in ToFlush : Job(k) \in inserting'
  BY <1>1
<1>8. \A i \in inserting : i \in inserting' BY <1>1
<1> HIDE DEF Job
<1>9. \A k \in Kind : \A r \in Row : Waits(k, r)' <=> Waits(k, r)
  <2>. SUFFICES ASSUME NEW k \in Kind, NEW r \in Row PROVE Waits(k, r)' <=> Waits(k, r)
    OBVIOUS
  <2>1. Waits(k, r)' <=> InFlight(k, r)' BY <1>1 DEF Waits
  <2>2. InFlight(k, r)' => Waits(k, r) BY <1>4, <1>5, <1>6 DEF InFlight, Waits
  <2>3. InFlight(k, r) => InFlight(k, r)' BY <1>8 DEF InFlight
  <2>4. r \in batch[k] => InFlight(k, r)' BY <1>4, <1>5, <1>7 DEF InFlight
  <2>. QED BY <2>1, <2>2, <2>3, <2>4 DEF Waits
<1>10. TypeOK'
  <2>1. inserting' \in SUBSET [kind : Kind, rows : SUBSET Row]
    BY <1>3, <1>5, <1>6 DEF IInv, TypeOK
  <2>2. batch' \in [Kind -> SUBSET Row] /\ \A k \in Kind : Cardinality(batch'[k]) < BatchSize
    BY <1>1, EmptyFits
  <2>. QED BY <1>2, <2>1, <2>2 DEF IInv, TypeOK
<1>11. Stages' BY <1>2 DEF IInv, Stages
<1>12. Numbered' BY <1>2, <1>9 DEF IInv, Numbered, Settled
<1>13. Apart'
  <2>1. \A i \in inserting' : i.kind \in Kind BY <1>10 DEF TypeOK
  <2>2. \A i \in inserting' : \A r \in i.rows : r \notin batch'[i.kind] BY <1>1, <2>1
  <2>3. ASSUME NEW i \in inserting', NEW j \in inserting', i.kind = j.kind, i # j, NEW r \in i.rows
        PROVE  r \notin j.rows
    BY <1>4, <1>5, <1>6, <2>3 DEF IInv, Apart
  <2>. QED BY <2>2, <2>3 DEF Apart
<1>14. Once' BY <1>2, <1>9 DEF IInv, Once, Owed
<1>15. Kept'
  <2>. SUFFICES ASSUME NEW k \in Kind, NEW r \in 1 .. added[k]
                PROVE  Settled(k, r)' \/ Waits(k, r)'
    BY <1>2 DEF Kept
  <2>1. r \in Row BY WriterAssumption DEF IInv, TypeOK, Row
  <2>. QED BY <1>2, <1>9, <2>1 DEF IInv, Kept, Settled
<1>16. Copied' BY <1>1, <1>2 DEF IInv, Copied, Settled
<1>. QED BY <1>10, <1>11, <1>12, <1>13, <1>14, <1>15, <1>16 DEF IInv

(* What an insert does to a row: its count grows by one at most, a bar's only from
   zero, and afterwards exactly the rows of the batch are settled in addition. *)
LEMMA StoreEffect ==
  ASSUME TypeOK, NEW k \in Kind, NEW rs \in SUBSET Row, Store(k, rs)
  PROVE  /\ written' \in [Kind -> [Row -> Nat]] /\ dropped' \in [Kind -> SUBSET Row]
         /\ \A q \in Kind : \A r \in Row :
              /\ \/ written'[q][r] = written[q][r]
                 \/ /\ q = k /\ r \in rs /\ written'[q][r] = written[q][r] + 1
                    /\ q = "bars" => written[q][r] = 0
              /\ Settled(q, r)' <=> Settled(q, r) \/ (q = k /\ r \in rs)
<1> USE DEF TypeOK
<1>0. \A q \in Kind : \A r \in Row : written[q][r] \in Nat OBVIOUS
<1>1. CASE /\ ~Refused(k, rs)
           /\ written' = [written EXCEPT ![k] = [r \in Row |-> IF r \in rs THEN @[r] + 1 ELSE @[r]]]
           /\ UNCHANGED dropped
  <2>1. ASSUME NEW q \in Kind, NEW r \in Row
        PROVE  written'[q][r] = IF q = k /\ r \in rs THEN written[q][r] + 1 ELSE written[q][r]
    BY <1>1
  <2>2. k = "bars" => \A r \in rs : written[k][r] = 0 BY <1>0, <1>1 DEF Refused
  <2>3. written' \in [Kind -> [Row -> Nat]] BY <1>0, <1>1
  <2>. QED BY <1>0, <1>1, <2>1, <2>2, <2>3 DEF Settled
<1>2. CASE dropped' = [dropped EXCEPT ![k] = @ \cup rs] /\ UNCHANGED written
  BY <1>2 DEF Settled
<1>. QED BY <1>1, <1>2 DEF Store

(* A background insert settles the rows it held, and they wait nowhere else. *)
LEMMA InsertKeeps ==
  ASSUME IInv, NEW i \in inserting, Insert(i)
  PROVE  IInv'
<1> DEFINE Held(q, r) == q = i.kind /\ r \in i.rows
<1>1. i.kind \in Kind /\ i.rows \in SUBSET Row BY DEF IInv, TypeOK
<1>2. Store(i.kind, i.rows) /\ inserting' = inserting \ {i} BY DEF Insert
<1>3. UNCHANGED <<skip, added, batch, copy, left, streaming, timer, close>> BY DEF Insert
<1>4. /\ written' \in [Kind -> [Row -> Nat]] /\ dropped' \in [Kind -> SUBSET Row]
      /\ \A q \in Kind : \A r \in Row :
           /\ \/ written'[q][r] = written[q][r]
              \/ Held(q, r) /\ written'[q][r] = written[q][r] + 1 /\ (q = "bars" => written[q][r] = 0)
           /\ Settled(q, r)' <=> Settled(q, r) \/ Held(q, r)
  BY <1>1, <1>2, StoreEffect DEF IInv
<1>5. \A q \in Kind : \A r \in Row : Waits(q, r)' <=> Waits(q, r) /\ ~Held(q, r)
  BY <1>2, <1>3 DEF IInv, Apart, Waits, InFlight
<1>6. \A q \in Kind : \A r \in Row : Held(q, r) => Waits(q, r)
  BY DEF Waits, InFlight
<1> HIDE DEF Held
<1>7. TypeOK' BY <1>2, <1>3, <1>4 DEF IInv, TypeOK
<1>8. Stages' BY <1>2, <1>3 DEF IInv, Stages
<1>9. Numbered' BY <1>3, <1>4, <1>5, <1>6 DEF IInv, Numbered
<1>10. Apart' BY <1>2, <1>3 DEF IInv, Apart
<1>11. Once'
  <2>. SUFFICES ASSUME NEW q \in Kind, NEW r \in Row
                PROVE  /\ written'[q][r] <= 2
                       /\ q = "bars" => written'[q][r] <= 1
                       /\ r \notin copy'[q] => written'[q][r] <= 1 /\ (Waits(q, r)' => written'[q][r] = 0)
                       /\ Waits(q, r)' \/ Owed(q, r)' => written'[q][r] <= 1
                       /\ Waits(q, r)' /\ Owed(q, r)' => written'[q][r] = 0
    BY DEF Once
  <2>1. written[q][r] \in Nat BY DEF IInv, TypeOK
  <2>2. Owed(q, r)' <=> Owed(q, r) BY <1>3 DEF Owed
  <2>3. CASE written'[q][r] = written[q][r]
    BY <1>3, <1>5, <2>2, <2>3 DEF IInv, Once
  <2>4. CASE Held(q, r) /\ written'[q][r] = written[q][r] + 1 /\ (q = "bars" => written[q][r] = 0)
    BY <1>3, <1>5, <1>6, <2>1, <2>2, <2>4 DEF IInv, Once
  <2>. QED BY <1>4, <2>3, <2>4
<1>12. Kept'
  <2>. SUFFICES ASSUME NEW q \in Kind, NEW r \in 1 .. added[q]
                PROVE  Settled(q, r)' \/ Waits(q, r)'
    BY <1>3 DEF Kept
  <2>1. r \in Row BY WriterAssumption DEF IInv, TypeOK, Row
  <2>. QED BY <1>4, <1>5, <2>1 DEF IInv, Kept
<1>13. Copied'
  <2>. SUFFICES ASSUME close \in {"inserting", "returned"}, NEW q \in Kind
                PROVE  batch[q] \subseteq copy[q] /\ \A r \in copy[q] : q \in left \/ Settled(q, r)'
    BY <1>3 DEF Copied
  <2>1. copy[q] \subseteq Row BY DEF IInv, TypeOK
  <2>. QED BY <1>4, <2>1 DEF IInv, Copied
<1>. QED BY <1>7, <1>8, <1>9, <1>10, <1>11, <1>12, <1>13 DEF IInv

(* Close settles what it copied of one kind; a tick of its copy that the timer took as
   well is then written once with a goroutine still to come. *)
LEMMA CloseInsertKeeps ==
  ASSUME IInv, NEW k \in Kind, CloseInserts(k)
  PROVE  IInv'
<1> DEFINE Mine(q, r) == q = k /\ r \in copy[k]
<1>1. k \in left /\ left' = left \ {k} BY DEF CloseInserts
<1>2. UNCHANGED <<skip, added, batch, inserting, copy, streaming, timer, close>> BY DEF CloseInserts
<1>3. copy[k] \in SUBSET Row BY DEF IInv, TypeOK
<1>4. /\ written' \in [Kind -> [Row -> Nat]] /\ dropped' \in [Kind -> SUBSET Row]
      /\ \A q \in Kind : \A r \in Row :
           /\ \/ written'[q][r] = written[q][r]
              \/ Mine(q, r) /\ written'[q][r] = written[q][r] + 1 /\ (q = "bars" => written[q][r] = 0)
           /\ Settled(q, r)' <=> Settled(q, r) \/ Mine(q, r)
  <2>1. CASE copy[k] = {}
    <3>1. UNCHANGED <<written, dropped>> BY <2>1 DEF CloseInserts
    <3>. QED BY <2>1, <3>1 DEF IInv, TypeOK, Settled
  <2>2. CASE copy[k] # {}
    <3>1. Store(k, copy[k]) BY <2>2 DEF CloseInserts
    <3>. QED BY <1>3, <3>1, StoreEffect DEF IInv
  <2>. QED BY <2>1, <2>2
<1>5. \A q \in Kind : \A r \in Row : Mine(q, r) => Owed(q, r)
  BY <1>1 DEF Owed
<1>6. \A q \in Kind : \A r \in Row : Owed(q, r)' <=> Owed(q, r) /\ ~Mine(q, r)
  BY <1>1, <1>2 DEF Owed
<1>7. \A q \in Kind : \A r \in Row : Waits(q, r)' <=> Waits(q, r)
  BY <1>2 DEF Waits, InFlight
<1>8. \A q \in Kind : \A r \in copy[q] : q \in left => q \in left' \/ Mine(q, r)
  BY <1>1
<1>9. \A q \in Kind : \A r \in Row : Mine(q, r) => r \in copy[q]
  OBVIOUS
<1> HIDE DEF Mine
<1>10. TypeOK' BY <1>1, <1>2, <1>4 DEF IInv, TypeOK
<1>11. Stages' BY <1>1, <1>2 DEF IInv, Stages
<1>12. Numbered' BY <1>2, <1>4, <1>7, <1>9 DEF IInv, Numbered
<1>13. Apart' BY <1>2 DEF IInv, Apart
<1>14. Once'
  <2>. SUFFICES ASSUME NEW q \in Kind, NEW r \in Row
                PROVE  /\ written'[q][r] <= 2
                       /\ q = "bars" => written'[q][r] <= 1
                       /\ r \notin copy'[q] => written'[q][r] <= 1 /\ (Waits(q, r)' => written'[q][r] = 0)
                       /\ Waits(q, r)' \/ Owed(q, r)' => written'[q][r] <= 1
                       /\ Waits(q, r)' /\ Owed(q, r)' => written'[q][r] = 0
    BY DEF Once
  <2>1. written[q][r] \in Nat BY DEF IInv, TypeOK
  <2>2. CASE written'[q][r] = written[q][r]
    BY <1>2, <1>6, <1>7, <2>2 DEF IInv, Once
  <2>3. CASE Mine(q, r) /\ written'[q][r] = written[q][r] + 1 /\ (q = "bars" => written[q][r] = 0)
    BY <1>2, <1>5, <1>6, <1>7, <1>9, <2>1, <2>3 DEF IInv, Once
  <2>. QED BY <1>4, <2>2, <2>3
<1>15. Kept'
  <2>. SUFFICES ASSUME NEW q \in Kind, NEW r \in 1 .. added[q]
                PROVE  Settled(q, r)' \/ Waits(q, r)'
    BY <1>2 DEF Kept
  <2>1. r \in Row BY WriterAssumption DEF IInv, TypeOK, Row
  <2>. QED BY <1>4, <1>7, <2>1 DEF IInv, Kept
<1>16. Copied'
  <2>. SUFFICES ASSUME close \in {"inserting", "returned"}, NEW q \in Kind
                PROVE  batch[q] \subseteq copy[q] /\ \A r \in copy[q] : q \in left' \/ Settled(q, r)'
    BY <1>2 DEF Copied
  <2>1. copy[q] \subseteq Row BY DEF IInv, TypeOK
  <2>. QED BY <1>4, <1>8, <2>1 DEF IInv, Copied
<1>. QED BY <1>10, <1>11, <1>12, <1>13, <1>14, <1>15, <1>16 DEF IInv

(* The steps that move no row: the timer ends, the stream stops, Close cancels, copies
   the batches or returns. *)
LEMMA ControlKeeps ==
  ASSUME IInv, TimerEnds \/ StreamStops \/ Close \/ CopyBatches \/ CloseReturns
  PROVE  IInv'
<1>1. UNCHANGED <<skip, added, batch, inserting, written, dropped>>
  BY DEF TimerEnds, StreamStops, Close, CopyBatches, CloseReturns, rows
<1>2. /\ \A k \in Kind : \A r \in Row : (Waits(k, r)' <=> Waits(k, r)) /\ (Settled(k, r)' <=> Settled(k, r))
      /\ Apart'
  BY <1>1 DEF Waits, InFlight, Settled, IInv, Apart
<1>3. Kept'
  <2>. SUFFICES ASSUME NEW k \in Kind, NEW r \in 1 .. added[k]
                PROVE  Settled(k, r)' \/ Waits(k, r)'
    BY <1>1 DEF Kept
  <2>1. r \in Row BY WriterAssumption DEF IInv, TypeOK, Row
  <2>. QED BY <1>2, <2>1 DEF IInv, Kept
<1>4. CASE TimerEnds \/ StreamStops \/ Close \/ CloseReturns
  <2>1. UNCHANGED <<copy, left>> BY <1>4 DEF TimerEnds, StreamStops, Close, CloseReturns, rows
  <2>2. TypeOK' BY <1>1, <1>4, <2>1 DEF IInv, TypeOK, TimerEnds, StreamStops, Close, CloseReturns
  <2>3. Stages'
    BY <1>1, <1>4, <2>1 DEF IInv, TypeOK, Stages, TimerEnds, StreamStops, Close, CloseReturns, AllEnded
  <2>4. Numbered' /\ Once' BY <1>1, <1>2, <2>1 DEF IInv, Numbered, Once, Owed
  <2>5. Copied'
    BY <1>1, <1>4, <2>1 DEF IInv, TypeOK, Copied, Settled, TimerEnds, StreamStops, Close, CloseReturns
  <2>. QED BY <1>2, <1>3, <2>2, <2>3, <2>4, <2>5 DEF IInv
<1>5. CASE CopyBatches
  <2>1. copy' = batch /\ left' = Kind /\ close' = "inserting" /\ UNCHANGED <<streaming, timer>>
    BY <1>5 DEF CopyBatches
  <2>2. close = "cancelled" /\ left = {} /\ \A k \in Kind : copy[k] = {}
    BY <1>5 DEF CopyBatches, IInv, Stages
  <2>3. TypeOK' BY <1>1, <2>1 DEF IInv, TypeOK
  <2>4. Stages' BY <2>1, <2>2 DEF IInv, Stages
  <2>5. Numbered' BY <1>1, <1>2, <2>1 DEF IInv, Numbered, Waits
  <2>6. Once'
    <3>. SUFFICES ASSUME NEW q \in Kind, NEW r \in Row
                  PROVE  /\ written'[q][r] <= 2
                         /\ q = "bars" => written'[q][r] <= 1
                         /\ r \notin copy'[q] => written'[q][r] <= 1 /\ (Waits(q, r)' => written'[q][r] = 0)
                         /\ Waits(q, r)' \/ Owed(q, r)' => written'[q][r] <= 1
                         /\ Waits(q, r)' /\ Owed(q, r)' => written'[q][r] = 0
      BY DEF Once
    <3>1. written[q][r] <= 1 /\ (Waits(q, r) => written[q][r] = 0)
      BY <2>2 DEF IInv, Once
    <3>2. written[q][r] \in Nat BY DEF IInv, TypeOK
    <3>. QED BY <1>1, <1>2, <3>1, <3>2
  <2>7. Copied' BY <1>1, <2>1 DEF Copied
  <2>. QED BY <1>2, <1>3, <2>3, <2>4, <2>5, <2>6, <2>7 DEF IInv
<1>. QED BY <1>4, <1>5

LEMMA StepHolds == IInv /\ [Next]_vars => IInv'
<1>. SUFFICES ASSUME IInv, [Next]_vars PROVE IInv' OBVIOUS
<1>1. CASE UNCHANGED vars
  BY <1>1 DEF IInv, TypeOK, Stages, Numbered, Apart, Once, Kept, Copied,
              Waits, Owed, InFlight, Settled, vars, rows
<1>2. CASE Next
  BY <1>2, AddKeeps, FlushKeeps, InsertKeeps, CloseInsertKeeps, ControlKeeps
     DEF Next, InsertStep, CloseStep
<1>. QED BY <1>1, <1>2

LEMMA Invariance == Spec => []IInv
<1>1. Init => IInv BY InitHolds
<1>2. IInv /\ [Next]_vars => IInv' BY StepHolds
<1>. QED BY <1>1, <1>2, PTL DEF Spec

(* The type invariant: among the rest, a batch in memory stays below its size. *)
THEOREM TypeCorrect == Spec => []TypeOK
<1>1. IInv => TypeOK BY DEF IInv
<1>. QED BY <1>1, Invariance, PTL

(* Between AddTick, AddDepth or AddBar and the insert no row is lost, and when Close
   returns every row has been inserted or its insert has failed. *)
THEOREM NothingLost == Spec => []RowsAccounted
<1>1. IInv => RowsAccounted
  <2>. SUFFICES ASSUME IInv, NEW k \in Kind, NEW r \in 1 .. added[k], ~Settled(k, r)
                PROVE  close # "returned" /\ (r \in batch[k] \/ InFlight(k, r))
    BY DEF RowsAccounted
  <2>1. r \in batch[k] \/ InFlight(k, r) BY DEF IInv, Kept, Waits
  <2>2. CASE close = "returned"
    <3>1. left = {} /\ ~InFlight(k, r) BY <2>2 DEF IInv, Stages, InFlight
    <3>. QED BY <2>1, <2>2, <3>1 DEF IInv, Copied
  <2>. QED BY <2>1, <2>2
<1>. QED BY <1>1, Invariance, PTL

(* No row is inserted twice, except a tick that Close has copied and the timer takes. *)
THEOREM RepeatsBounded == Spec => []OnlyCloseRepeats
<1>1. IInv => OnlyCloseRepeats
  <2>. SUFFICES ASSUME IInv, NEW k \in Kind, NEW r \in Row
                PROVE  \/ written[k][r] <= 1
                       \/ written[k][r] = 2 /\ r \in copy[k] /\ k # "bars"
    BY DEF OnlyCloseRepeats
  <2>1. written[k][r] \in Nat BY DEF IInv, TypeOK
  <2>. QED BY <2>1 DEF IInv, Once
<1>. QED BY <1>1, Invariance, PTL

(* Every row is stored, or reported as lost, once. *)
THEOREM StoredOnce == Spec => []RowsOnce
  BY NothingLost, RepeatsBounded, PTL DEF RowsOnce
-----------------------------------------------------------------------------
(* The writer keeps the promises of RowLog.  A row that waits is neither stored nor reported
   lost, unless Close has copied it. *)
Untouched == \A k \in Kind : \A r \in Row : Waits(k, r) /\ r \notin copy[k] => ~Settled(k, r)

LEMMA StepUntouched ==
  ASSUME IInv, Untouched, [Next]_vars
  PROVE  Untouched'
<1>1. ASSUME NEW k \in Kind, Add(k) PROVE Untouched'
  <2>. DEFINE n == added[k] + 1
  <2>1. UNCHANGED <<written, dropped, copy>> BY <1>1 DEF Add
  <2>2. n \in Row /\ ~Settled(k, n)
    <3>1. n \in Row BY <1>1, WriterAssumption DEF Add, IInv, TypeOK, Row
    <3>2. added[k] \in Nat BY WriterAssumption DEF IInv, TypeOK
    <3>. QED BY <3>1, <3>2 DEF IInv, Numbered
  <2>3. ASSUME NEW q \in Kind, NEW r \in Row, Waits(q, r)' PROVE Waits(q, r) \/ (q = k /\ r = n)
    <3>. DEFINE b == batch[k] \cup {n}
    <3>1. batch' = [batch EXCEPT ![k] = Rest(b)] /\ (Rest(b) = {} \/ Rest(b) = b) BY <1>1 DEF Add, Rest
    <3>2. \A i \in inserting' : i \in inserting \/ (i.kind = k /\ i.rows = b)
      <4>1. inserting' \subseteq inserting \cup {[kind |-> k, rows |-> b]} BY <1>1 DEF Add
      <4>. QED BY <4>1
    <3>3. InFlight(q, r)' => InFlight(q, r) \/ (q = k /\ r \in b) BY <3>2 DEF InFlight
    <3>4. r \in batch'[q] => r \in batch[q] \/ (q = k /\ r \in b)
      <4>. HIDE DEF b
      <4>. QED BY <3>1 DEF IInv, TypeOK
    <3>5. r \in b => r \in batch[k] \/ r = n OBVIOUS
    <3>. HIDE DEF b, n
    <3>. QED BY <2>3, <3>3, <3>4, <3>5 DEF Waits
  <2>. HIDE DEF n
  <2>. QED BY <2>1, <2>2, <2>3 DEF Untouched, Settled
<1>2. CASE Flush
  <2>1. UNCHANGED <<written, dropped, copy>> BY <1>2 DEF Flush
  <2>2. ASSUME NEW k \in Kind, NEW r \in Row, Waits(k, r)' PROVE Waits(k, r)
    <3>1. \A i \in inserting' : i \in inserting \/ (i.kind \in Kind /\ i.rows = batch[i.kind])
      BY <1>2 DEF Flush, ToFlush
    <3>2. batch'[k] = {} BY <1>2 DEF Flush
    <3>. QED BY <2>2, <3>1, <3>2 DEF Waits, InFlight
  <2>. QED BY <2>1, <2>2 DEF Untouched, Settled
<1>3. ASSUME NEW i \in inserting, Insert(i) PROVE Untouched'
  <2>1. /\ Store(i.kind, i.rows) /\ inserting' = inserting \ {i} /\ UNCHANGED <<batch, copy>>
        /\ i.kind \in Kind /\ i.rows \in SUBSET Row
    BY <1>3 DEF Insert, IInv, TypeOK
  <2>2. \A q \in Kind : \A r \in Row : Settled(q, r)' <=> Settled(q, r) \/ (q = i.kind /\ r \in i.rows)
    BY <2>1, StoreEffect DEF IInv
  <2>3. \A q \in Kind : \A r \in Row : Waits(q, r)' => Waits(q, r) /\ ~(q = i.kind /\ r \in i.rows)
    BY <2>1 DEF IInv, Apart, Waits, InFlight
  <2>. QED BY <2>1, <2>2, <2>3 DEF Untouched
<1>4. ASSUME NEW k \in Kind, CloseInserts(k) PROVE Untouched'
  <2>1. UNCHANGED <<batch, inserting, copy>> /\ copy[k] \in SUBSET Row BY <1>4 DEF CloseInserts, IInv, TypeOK
  <2>2. \A q \in Kind : \A r \in Row : Settled(q, r)' => Settled(q, r) \/ (q = k /\ r \in copy[k])
    <3>1. CASE copy[k] = {} BY <1>4, <3>1 DEF CloseInserts, Settled
    <3>2. CASE copy[k] # {}
      <4>1. Store(k, copy[k]) BY <1>4, <3>2 DEF CloseInserts
      <4>. QED BY <2>1, <4>1, StoreEffect DEF IInv
    <3>. QED BY <3>1, <3>2
  <2>. QED BY <2>1, <2>2 DEF Untouched, Waits, InFlight
<1>5. CASE TimerEnds \/ StreamStops \/ Close \/ CloseReturns \/ UNCHANGED vars
  BY <1>5 DEF Untouched, Waits, InFlight, Settled, TimerEnds, StreamStops, Close, CloseReturns, vars, rows
<1>6. CASE CopyBatches
  <2>1. UNCHANGED <<batch, inserting, written, dropped>> /\ \A k \in Kind : copy[k] = {}
    BY <1>6 DEF CopyBatches, IInv, Stages
  <2>. QED BY <2>1 DEF Untouched, Waits, InFlight, Settled
<1>. QED BY <1>1, <1>2, <1>3, <1>4, <1>5, <1>6 DEF Next, InsertStep, CloseStep

(* A batch is stored whole or reported lost; what Close has copied may have been settled. *)
LEMMA StoreLogged ==
  ASSUME IInv, NEW k \in Kind, NEW rs \in SUBSET Row, Store(k, rs), close # "returned",
         \A r \in rs : r <= added[k] /\ (Settled(k, r) => r \in copy[k]) /\ written[k][r] <= 1,
         UNCHANGED <<added, copy, close>>
  PROVE  Log!Next
<1>1. \A r \in rs : r <= added[k] /\ (Log!Settled(k, r) => r \in copy[k]) BY DEF Log!Settled, Settled
<1>2. Log!Owed(k, rs) BY <1>1 DEF Log!Owed
<1>3. CASE /\ ~Refused(k, rs)
           /\ written' = [written EXCEPT ![k] = [r \in Row |-> IF r \in rs THEN @[r] + 1 ELSE @[r]]]
           /\ UNCHANGED dropped
  <2>1. \A r \in rs : written[k][r] \in Nat BY DEF IInv, TypeOK
  <2>2. \A r \in rs : written[k][r] = 0 \/ (k \notin {"bars"} /\ written[k][r] = 1)
    BY <1>3, <2>1 DEF Refused
  <2>3. Log!Stored(k, rs) BY <1>2, <1>3, <2>2 DEF Log!Stored
  <2>. QED BY <2>3 DEF Log!Next
<1>4. CASE dropped' = [dropped EXCEPT ![k] = @ \cup rs] /\ UNCHANGED written
  <2>1. Log!Lost(k, rs) BY <1>2, <1>4 DEF Log!Lost
  <2>. QED BY <2>1 DEF Log!Next
<1>. QED BY <1>3, <1>4 DEF Store

LEMMA StepLogged ==
  ASSUME IInv, Untouched, RowsAccounted', [Next]_vars
  PROVE  [Log!Next]_(Log!vars)
<1>. DEFINE Begun == close = "inserting" \/ close = "returned"
            Ended == close = "returned"
            Hidden == UNCHANGED <<added, written, dropped, copy>> /\ (Begun' <=> Begun) /\ (Ended' <=> Ended)
<1>1. Hidden => UNCHANGED Log!vars
  <2>1. SUFFICES ASSUME Hidden PROVE Begun' = Begun /\ Ended' = Ended BY DEF Log!vars
  <2>2. (Begun' <=> Begun) /\ (Ended' <=> Ended) BY <2>1
  <2>3. Begun \in BOOLEAN BY Zenon
  <2>4. Begun' \in BOOLEAN BY Zenon
  <2>5. Ended \in BOOLEAN BY Zenon
  <2>6. Ended' \in BOOLEAN BY Zenon
  <2>. HIDE DEF Begun, Ended
  <2>. QED BY <2>2, <2>3, <2>4, <2>5, <2>6, Zenon
<1>2. ASSUME NEW k \in Kind, Add(k) PROVE Log!Next
  <2>1. close = "no" BY <1>2 DEF Add, IInv, TypeOK, Stages
  <2>2. Log!Add(k) BY <1>2, <2>1 DEF Add, Log!Add
  <2>. QED BY <2>2 DEF Log!Next
<1>3. ASSUME NEW i \in inserting, Insert(i) PROVE Log!Next
  <2>1. i.kind \in Kind /\ i.rows \in SUBSET Row BY DEF IInv, TypeOK
  <2>2. Store(i.kind, i.rows) /\ UNCHANGED <<added, copy, close>> BY <1>3 DEF Insert
  <2>3. close # "returned" BY DEF IInv, Stages
  <2>4. \A r \in i.rows : Waits(i.kind, r) BY DEF Waits, InFlight
  <2>5. \A r \in i.rows : /\ r <= added[i.kind] /\ (Settled(i.kind, r) => r \in copy[i.kind])
                          /\ written[i.kind][r] <= 1
    BY <2>1, <2>4 DEF IInv, Numbered, Untouched, Once
  <2>. QED BY <2>1, <2>2, <2>3, <2>5, StoreLogged
<1>4. ASSUME NEW k \in Kind, CloseInserts(k) PROVE Hidden \/ Log!Next
  <2>1. CASE copy[k] = {} BY <1>4, <2>1 DEF CloseInserts
  <2>2. CASE copy[k] # {}
    <3>1. Store(k, copy[k]) /\ UNCHANGED <<added, copy, close>> /\ k \in left BY <1>4, <2>2 DEF CloseInserts
    <3>2. copy[k] \in SUBSET Row /\ close # "returned" BY <3>1 DEF IInv, TypeOK, Stages
    <3>3. \A r \in copy[k] : r <= added[k] /\ written[k][r] <= 1
      BY <3>1, <3>2 DEF IInv, Numbered, Once, Owed
    <3>. QED BY <3>1, <3>2, <3>3, StoreLogged
  <2>. QED BY <2>1, <2>2
<1>5. CASE CopyBatches
  <2>1. /\ close = "cancelled" /\ close' = "inserting" /\ copy' = batch
        /\ UNCHANGED <<added, written, dropped>>
    BY <1>5 DEF CopyBatches
  <2>2. batch \in [Kind -> SUBSET Row] /\ \A k \in Kind : copy[k] = {} BY <2>1 DEF IInv, TypeOK, Stages
  <2>3. \A k \in Kind : \A r \in batch[k] : r \in Row /\ r <= added[k] /\ ~Settled(k, r)
    BY <2>2 DEF IInv, Numbered, Untouched, Waits
  <2>4. \A k \in Kind : copy'[k] \in SUBSET {r \in Row : r <= added[k] /\ ~Log!Settled(k, r)}
    BY <2>1, <2>3 DEF Settled, Log!Settled
  <2>5. copy' = [k \in Kind |-> copy'[k]] BY <2>1, <2>2
  <2>6. Log!Closing BY <2>1, <2>4, <2>5 DEF Log!Closing
  <2>. QED BY <2>6 DEF Log!Next
<1>6. CASE CloseReturns
  <2>1. close = "inserting" /\ close' = "returned" /\ UNCHANGED <<added, written, dropped, copy>>
    BY <1>6 DEF CloseReturns, rows
  <2>2. \A k \in Kind : \A r \in Row : r <= added[k] => Log!Settled(k, r)
    <3>1. ASSUME NEW k \in Kind, NEW r \in Row, r <= added[k] PROVE Log!Settled(k, r)
      <4>1. added[k] \in Nat /\ r \in Nat \ {0} BY WriterAssumption DEF IInv, TypeOK, Row
      <4>2. r \in 1 .. added'[k] BY <2>1, <3>1, <4>1
      <4>3. Settled(k, r)' BY <2>1, <4>2 DEF RowsAccounted
      <4>. QED BY <2>1, <4>3 DEF Settled, Log!Settled
    <3>. QED BY <3>1
  <2>3. Log!Closed BY <2>1, <2>2 DEF Log!Closed
  <2>. QED BY <2>3 DEF Log!Next
<1>7. ASSUME Flush \/ TimerEnds \/ StreamStops \/ Close \/ UNCHANGED vars PROVE Hidden
  BY <1>7 DEF Flush, TimerEnds, StreamStops, Close, vars, rows
<1>. HIDE DEF Hidden
<1>. QED BY <1>1, <1>2, <1>3, <1>4, <1>5, <1>6, <1>7 DEF Next, InsertStep, CloseStep

(* However adds, timer, background inserts and Close interleave, the tables see whole batches,
   each once but for what Close leaves to the timer, and nothing after Close has
   returned: every step is a step of RowLog or none. *)
THEOREM ImplementsLog == Spec => LogSpec
<1>1. Init => Log!Init BY DEF Init, Log!Init
<1>2. Init => Untouched BY DEF Init, Untouched, Waits, InFlight
<1>3. IInv /\ Untouched /\ [Next]_vars => Untouched' BY StepUntouched
<1>4. IInv /\ Untouched /\ RowsAccounted' /\ [Next]_vars => [Log!Next]_(Log!vars) BY StepLogged
<1>. QED BY <1>1, <1>2, <1>3, <1>4, Invariance, NothingLost, PTL DEF Spec, LogSpec, Log!Spec
=============================================================================
