-------------------------------- MODULE RowLog --------------------------------
(***************************************************************************)
(* What the batching writer, writer/db_writer.go, promises to the pipeline *)
(* that adds rows and to App.Stop, which closes the database pool next     *)
(* (app/app.go:313-317), with no word of batches, timer and goroutines:    *)
(* rows enter their table, or are reported lost, in groups and once; when  *)
(* the writer is closed nothing is owed; and a closed writer touches no    *)
(* table.                                                                  *)
(*                                                                         *)
(* One exception: Close leaves in the batches what it inserts itself, so   *)
(* rows it found there may be handled twice.  A table with a key still     *)
(* stores them once.                                                       *)
(*                                                                         *)
(* DBWriter implements this specification; DBWriterProofs proves it.       *)
(***************************************************************************)
EXTENDS Naturals

CONSTANTS Kind,      (* the tables                                         *)
          Keyed,     (* those with a primary key                           *)
          Row        (* the numbers of rows                                *)

VARIABLES added,     (* how many rows of a kind were added                 *)
          written,   (* how often a row is in its table                    *)
          lost,      (* rows of inserts that failed or were skipped        *)
          again,     (* rows Close has found, and leaves to others as well *)
          closing,   (* Close has looked at the batches                    *)
          closed     (* Close has returned                                 *)

vars == <<added, written, lost, again, closing, closed>>

Init ==
  /\ added = [k \in Kind |-> 0]
  /\ written = [k \in Kind |-> [r \in Row |-> 0]]
  /\ lost = [k \in Kind |-> {}] /\ again = [k \in Kind |-> {}]
  /\ closing = FALSE /\ closed = FALSE

Settled(k, r) == written[k][r] > 0 \/ r \in lost[k]

Add(k) ==
  /\ ~closing
  /\ added' = [added EXCEPT ![k] = @ + 1]
  /\ UNCHANGED <<written, lost, again, closing, closed>>

(* A group of rows that are owed, or are among those that Close has found. *)
Owed(k, rs) ==
  /\ ~closed
  /\ \A r \in rs : r <= added[k] /\ (Settled(k, r) => r \in again[k])

Stored(k, rs) ==
  /\ Owed(k, rs)
  /\ \A r \in rs : written[k][r] = 0 \/ (k \notin Keyed /\ written[k][r] = 1)
  /\ written' = [written EXCEPT ![k] = [r \in Row |-> IF r \in rs THEN @[r] + 1 ELSE @[r]]]
  /\ UNCHANGED <<added, lost, again, closing, closed>>

Lost(k, rs) ==
  /\ Owed(k, rs)
  /\ lost' = [lost EXCEPT ![k] = @ \cup rs]
  /\ UNCHANGED <<added, written, again, closing, closed>>

Closing ==
  /\ ~closing
  /\ closing' = TRUE
  /\ \A k \in Kind : again'[k] \in SUBSET {r \in Row : r <= added[k] /\ ~Settled(k, r)}
  /\ again' = [k \in Kind |-> again'[k]]
  /\ UNCHANGED <<added, written, lost, closed>>

Closed ==
  /\ closing
  /\ \A k \in Kind : \A r \in Row : r <= added[k] => Settled(k, r)
  /\ closed' = TRUE
  /\ UNCHANGED <<added, written, lost, again, closing>>

Next ==
  \/ \E k \in Kind : Add(k) \/ \E rs \in SUBSET Row : Stored(k, rs) \/ Lost(k, rs)
  \/ Closing \/ Closed

Spec == Init /\ [][Next]_vars
=============================================================================
