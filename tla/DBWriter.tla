------------------------------- MODULE DBWriter -------------------------------
(***************************************************************************)
(* The batching writer, writer/db_writer.go.  Pipeline workers add rows to *)
(* three batches under the writer's mutex; a full batch, and every batch   *)
(* when the timer fires, is handed to a goroutine that copies it into its  *)
(* table; Close cancels the timer, copies what the batches hold and waits  *)
(* for the timer and for every goroutine.                                  *)
(*                                                                         *)
(* A row is the number of its Add within its kind.  CopyFrom stores a      *)
(* batch whole or not at all; gidh_bars has a primary key, the tables of   *)
(* ticks and depth have none (schema/001, 002, 006).  A failed copy is     *)
(* logged and its rows are gone.                                           *)
(*                                                                         *)
(* Close is called by App.Stop after the stream has been stopped, when no  *)
(* worker adds rows any more (QuietAfterStop of StreamManager).  The three *)
(* Persist functions write one row each, without a batch: the order        *)
(* managers' modules have them.                                            *)
(***************************************************************************)
EXTENDS Naturals, FiniteSets

CONSTANTS Kind,        (* the batches; depth is treated as ticks are       *)
          BatchSize,   (* rows in a full batch, 5000 in the code           *)
          MaxRows      (* bound: rows added of each kind                   *)

ASSUME WriterAssumption ==
  Kind \subseteq {"ticks", "depth", "bars"} /\ BatchSize \in Nat \ {0} /\ MaxRows \in Nat

Row == 1 .. MaxRows

VARIABLES skip,        (* SkipDatabaseInsert, as in every backtest         *)
          added,       (* how many rows of a kind were added               *)
          batch,       (* tickBatch, depthBatch, barBatch                  *)
          inserting,   (* batches held by insert goroutines                *)
          written,     (* how often a row is in its table                  *)
          dropped,     (* rows of inserts that failed or were skipped      *)
          streaming,   (* pipeline workers run                             *)
          timer,       (* flushTimer runs                                  *)
          close,       (* where Close is                                   *)
          copy,        (* the batches as Close copied them                 *)
          left         (* the kinds Close has still to insert              *)

rows == <<added, batch, inserting, written, dropped, copy, left>>
vars == <<skip, rows, streaming, timer, close>>

TypeOK ==
  /\ skip \in BOOLEAN /\ streaming \in BOOLEAN /\ timer \in BOOLEAN
  /\ added \in [Kind -> 0 .. MaxRows]
  /\ batch \in [Kind -> SUBSET Row] /\ \A k \in Kind : Cardinality(batch[k]) < BatchSize
  /\ inserting \in SUBSET [kind : Kind, rows : SUBSET Row]
  /\ written \in [Kind -> [Row -> Nat]]
  /\ dropped \in [Kind -> SUBSET Row] /\ copy \in [Kind -> SUBSET Row]
  /\ close \in {"no", "cancelled", "inserting", "returned"} /\ left \in SUBSET Kind

Init ==
  /\ skip \in BOOLEAN /\ streaming = TRUE /\ timer = TRUE
  /\ added = [k \in Kind |-> 0] /\ batch = [k \in Kind |-> {}] /\ inserting = {}
  /\ written = [k \in Kind |-> [r \in Row |-> 0]] /\ dropped = [k \in Kind |-> {}]
  /\ close = "no" /\ copy = [k \in Kind |-> {}] /\ left = {}
-----------------------------------------------------------------------------
Full(b) == Cardinality(b) >= BatchSize
(* Mutant of Rest: a batch is full with one row more. *)
RestOverfull(b) == IF Cardinality(b) > BatchSize THEN {} ELSE b
(* What an Add leaves in the batch: a full one is swapped for a new one. *)
Rest(b) == IF Full(b) THEN {} ELSE b

(* AddTick, AddDepth, AddBar. *)
Add(k) ==
  /\ streaming /\ added[k] < MaxRows
  /\ added' = [added EXCEPT ![k] = @ + 1]
  /\ LET b == batch[k] \cup {added[k] + 1}
     IN  /\ batch' = [batch EXCEPT ![k] = Rest(b)]
         /\ inserting' = IF Full(b) THEN inserting \cup {[kind |-> k, rows |-> b]} ELSE inserting
  /\ UNCHANGED <<skip, written, dropped, copy, left, streaming, timer, close>>

ToFlush == {k \in Kind : batch[k] # {}}

(* The timer fires: every batch is swapped out under one lock.  It may fire once
   more although the context is cancelled. *)
Flush ==
  /\ timer /\ ToFlush # {}
  /\ inserting' = inserting \cup {[kind |-> k, rows |-> batch[k]] : k \in ToFlush}
  /\ batch' = [k \in Kind |-> {}]
  /\ UNCHANGED <<skip, added, written, dropped, copy, left, streaming, timer, close>>

(* Mutant of TimerMayEnd: the timer fires once. *)
TimerMayEndAtOnce == TRUE
TimerMayEnd == close # "no"

TimerEnds ==
  /\ timer /\ TimerMayEnd
  /\ timer' = FALSE
  /\ UNCHANGED <<skip, rows, streaming, close>>

(* insertTicksBatch, insertDepthBatch, insertBarsBatch: all rows of a batch or none.
   Only ticks and depth are skipped; the primary key refuses a bar that is there. *)
Refused(k, rs) ==
  \/ skip /\ k # "bars"
  \/ k = "bars" /\ \E r \in rs : written[k][r] > 0

Store(k, rs) ==
  \/ /\ ~Refused(k, rs)
     /\ written' = [written EXCEPT ![k] = [r \in Row |-> IF r \in rs THEN @[r] + 1 ELSE @[r]]]
     /\ UNCHANGED dropped
  \/ /\ dropped' = [dropped EXCEPT ![k] = @ \cup rs]
     /\ UNCHANGED written

(* A background insert ends. *)
Insert(i) ==
  /\ Store(i.kind, i.rows)
  /\ inserting' = inserting \ {i}
  /\ UNCHANGED <<skip, added, batch, copy, left, streaming, timer, close>>
-----------------------------------------------------------------------------
(* App.Stop: the stream manager's Stop has returned. *)
StreamStops ==
  /\ streaming
  /\ streaming' = FALSE
  /\ UNCHANGED <<skip, rows, timer, close>>

(* Close cancels the timer's context. *)
Close ==
  /\ ~streaming /\ close = "no"
  /\ close' = "cancelled"
  /\ UNCHANGED <<skip, rows, streaming, timer>>

(* It reads the batches under the lock and leaves them where they are. *)
CopyBatches ==
  /\ close = "cancelled"
  /\ close' = "inserting"
  /\ copy' = batch /\ left' = Kind
  /\ UNCHANGED <<skip, added, batch, inserting, written, dropped, streaming, timer>>

(* The kinds are inserted one after the other, an empty copy not at all. *)
CloseInserts(k) ==
  /\ k \in left
  /\ k = "depth" => "ticks" \notin left
  /\ k = "bars" => left = {"bars"}
  /\ left' = left \ {k}
  /\ IF copy[k] = {} THEN UNCHANGED <<written, dropped>> ELSE Store(k, copy[k])
  /\ UNCHANGED <<skip, added, batch, inserting, copy, streaming, timer, close>>

(* Mutant of AllEnded: an insert does not enter the wait group. *)
TimerEnded == ~timer
(* wg: the timer and every background insert. *)
AllEnded == ~timer /\ inserting = {}

CloseReturns ==
  /\ close = "inserting" /\ left = {} /\ AllEnded
  /\ close' = "returned"
  /\ UNCHANGED <<skip, rows, streaming, timer>>

InsertStep == \E i \in inserting : Insert(i)
CloseStep == CopyBatches \/ CloseReturns \/ \E k \in Kind : CloseInserts(k)

Next ==
  \/ Flush \/ TimerEnds \/ InsertStep
  \/ StreamStops \/ Close \/ CloseStep
  \/ \E k \in Kind : Add(k)

(* The timer fires and sees the cancelled context, an insert ends within its timeout
   of 30 seconds, Close goes on.  Nobody must add rows or stop the application. *)
Fairness == WF_vars(Flush) /\ WF_vars(TimerEnds) /\ WF_vars(InsertStep) /\ WF_vars(CloseStep)

Spec == Init /\ [][Next]_vars /\ Fairness
-----------------------------------------------------------------------------
Settled(k, r) == written[k][r] > 0 \/ r \in dropped[k]
InFlight(k, r) == \E i \in inserting : i.kind = k /\ r \in i.rows

(* No row that was added gets lost on its way from a batch through the goroutines to
   its table, and "Closing DB writer, flushing remaining data" (db_writer.go:357)
   holds: when Close returns each one is in its table or its insert has failed. *)
RowsAccounted ==
  \A k \in Kind : \A r \in 1 .. added[k] :
    \/ Settled(k, r)
    \/ close # "returned" /\ (r \in batch[k] \/ InFlight(k, r))

(* Timer, full batches and Close hand each row to one insert, with one exception: what
   Close copied may also be taken by a last firing of the timer, since Close does not
   empty the batches.  Then a tick is stored twice; a bar is not, by its key. *)
OnlyCloseRepeats ==
  \A k \in Kind : \A r \in Row :
    \/ written[k][r] <= 1
    \/ written[k][r] = 2 /\ r \in copy[k] /\ k # "bars"

(* Every row is stored, or reported as lost, once, as the two properties say. *)
RowsOnce == RowsAccounted /\ OnlyCloseRepeats

(* A row does not wait in a batch for ever: the timer flushes a batch that never gets
   full, and every insert ends.  And Close returns: the timer it cancelled and all
   inserts leave the wait group. *)
WriterEnds ==
  /\ \A k \in Kind : \A r \in Row : (r <= added[k]) ~> Settled(k, r)
  /\ close = "cancelled" ~> close = "returned"

(* The promises of RowLog hold of this writer, step by step: batches, goroutines and Close's
   copies are what it owes. *)
Log == INSTANCE RowLog
         WITH Keyed <- {"bars"}, lost <- dropped, again <- copy,
              closing <- (close = "inserting" \/ close = "returned"), closed <- (close = "returned")
LogSpec == Log!Spec
=============================================================================
