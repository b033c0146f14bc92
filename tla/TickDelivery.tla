----------------------------- MODULE TickDelivery -----------------------------
(***************************************************************************)
(* What the stream manager promises to whoever starts, stops and awaits    *)
(* it, stream/manager.go, with no word of channels and workers: the ticks  *)
(* of one instrument are processed one at a time in the order in which     *)
(* they were sent ("guarantees chronological sequence per stock"), those   *)
(* of different instruments side by side; done means that everything has   *)
(* been processed, unless the stream was cut off; and when Stop returns no *)
(* tick is being processed, nor will one be.                               *)
(*                                                                         *)
(* StreamManager implements this specification; StreamManagerProofs proves *)
(* it.                                                                     *)
(***************************************************************************)
EXTENDS Naturals, Sequences

CONSTANT Token    (* instrument tokens                                     *)

VARIABLES sent,      (* the tokens of the ticks sent, by number of the tick *)
          processed, (* the numbers of the ticks processed, in order        *)
          busy,      (* those being processed                              *)
          cut,       (* Stop was called                                     *)
          done,      (* the completion was announced                        *)
          quiet      (* Stop has returned                                   *)

vars == <<sent, processed, busy, cut, done, quiet>>

Init == sent = <<>> /\ processed = <<>> /\ busy = {} /\ cut = FALSE /\ done = FALSE /\ quiet = FALSE

Past(n) == \E i \in DOMAIN processed : processed[i] = n

(* A source that was cut off may go on for a while; one that is done does not. *)
Send(t) ==
  /\ done => cut
  /\ sent' = Append(sent, t)
  /\ UNCHANGED <<processed, busy, cut, done, quiet>>

(* The next tick of its instrument goes into the pipeline. *)
Begin(n) ==
  /\ ~done /\ ~quiet
  /\ n \notin busy /\ ~Past(n)
  /\ \A m \in DOMAIN sent : m < n /\ sent[m] = sent[n] => Past(m)
  /\ busy' = busy \cup {n}
  /\ UNCHANGED <<sent, processed, cut, done, quiet>>

Finish(n) ==
  /\ processed' = Append(processed, n)
  /\ busy' = busy \ {n}
  /\ UNCHANGED <<sent, cut, done, quiet>>

Cut == cut' = TRUE /\ UNCHANGED <<sent, processed, busy, done, quiet>>

Complete ==
  /\ busy = {}
  /\ cut \/ \A n \in DOMAIN sent : Past(n)
  /\ done' = TRUE
  /\ UNCHANGED <<sent, processed, busy, cut, quiet>>

(* Stop returns. *)
Rest ==
  /\ cut /\ busy = {}
  /\ quiet' = TRUE
  /\ UNCHANGED <<sent, processed, busy, cut, done>>

Next ==
  \/ \E t \in Token : Send(t)
  \/ \E n \in DOMAIN sent : Begin(n)
  \/ \E n \in busy : Finish(n)
  \/ Cut \/ Complete \/ Rest

Spec == Init /\ [][Next]_vars
=============================================================================
