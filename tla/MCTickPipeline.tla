----------------------------- MODULE MCTickPipeline -----------------------------
(* A small instance of TickPipeline. *)
EXTENDS TickPipeline

(* 09:14, 09:15, 09:22 and 09:26. *)
MCMinute == {-1, 0, 7, 11}
=============================================================================
