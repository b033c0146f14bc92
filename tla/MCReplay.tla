------------------------------- MODULE MCReplay -------------------------------
(* A small instance of Replay. *)
EXTENDS Replay

CONSTANTS a, b

At(token, time) == [token |-> token, time |-> time]

(* Two instruments whose ticks share a moment or follow each other, and
   books of one row, of two or none. *)
MCDay ==
  {[ticks |-> <<At(a, 1), At(b, 1), At(a, 3)>>, depth |-> <<At(a, 1), At(a, 1), At(a, 3)>>],
   [ticks |-> <<At(a, 1), At(a, 2), At(b, 4)>>, depth |-> <<>>]}

MCSpeed == {0, 1, 2, -99}
=============================================================================
