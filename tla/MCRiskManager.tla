----------------------------- MODULE MCRiskManager -----------------------------
(* A small instance of RiskManager. *)
EXTENDS RiskManager, TLC

CONSTANTS a, b

(* A position opened at 1000 at 09:20 gains or loses some 600 at once, or 2070 at 09:21:40.
   An exit of 09:20 forbids an entry at 09:21:40 and allows one at 09:25; at 15:02 no stop
   is looked at, at 15:15 all is closed. *)
MCTick ==
  {[time |-> t, price |-> 1000] : t \in {33600, 33900, 54120, 54900}}
  \cup {[time |-> 33600, price |-> 1007], [time |-> 33700, price |-> 1023]}

Symmetry == Permutations(Symbol)

(* Bound: orders and callbacks in the hands of goroutines, any two of which may overtake
   each other. *)
UnderWay == Cardinality(orders) + Cardinality(notices) <= 2
=============================================================================
