---------------------------- MODULE PositionRules ----------------------------
(***************************************************************************)
(* What docs/order_manager.md, chapter 4, says about a position and its    *)
(* local exit thresholds, whichever manager keeps it:                      *)
(*   4.1  a threshold exists only while the position has exposure;         *)
(*   4.2  both default to 0 when a fill opens or scales a position;        *)
(*   4.3  flattening erases both thresholds, reversing invalidates them.   *)
(* Document and code disagree on one point, and ScalingKeeps names it:     *)
(* FALSE is the document's 4.2 in full, TRUE what updatePositionState does *)
(* (paper_manager.go:380-389): a fill that adds to a position keeps its    *)
(* thresholds, so 4.2 is left with its opening half.  The paper manager    *)
(* implements the variant TRUE and only that one; PaperManagerProofs       *)
(* proves it.  Nothing here says how orders are routed, filled or recorded.*)
(***************************************************************************)
EXTENDS Integers

CONSTANTS
  Key,            (* one position per (symbol, product)                        *)
  ScalingKeeps    (* TRUE: a fill that adds to a position leaves its thresholds
                     alone; FALSE: it sets them to 0                          *)

VARIABLES net,    (* signed quantity of each position   *)
          tp,     (* take profit, 0 when disabled       *)
          sl      (* stop loss, 0 when disabled         *)

vars == <<net, tp, sl>>

Init ==
  /\ net = [k \in Key |-> 0]
  /\ tp  = [k \in Key |-> 0]
  /\ sl  = [k \in Key |-> 0]

(* n is exposure in the direction of m. *)
SameDirection(m, n) == (m > 0 /\ n > 0) \/ (m < 0 /\ n < 0)

(* n is more exposure than m in the direction of m. *)
Scaled(m, n) == (m > 0 /\ n > m) \/ (m < 0 /\ n < m)

(* The thresholds of a position survive a fill that takes it from m to n. *)
Survive(m, n) == SameDirection(m, n) /\ (ScalingKeeps \/ ~Scaled(m, n))

(* A fill changes the quantity of position k. *)
Trade(k) ==
  /\ net'[k] \in Int
  /\ net' = [net EXCEPT ![k] = net'[k]]
  /\ IF Survive(net[k], net'[k])
     THEN UNCHANGED <<tp, sl>>
     ELSE /\ tp' = [tp EXCEPT ![k] = 0]
          /\ sl' = [sl EXCEPT ![k] = 0]

(* A user assigns thresholds to a position that has exposure. *)
Protect(k) ==
  /\ net[k] # 0
  /\ tp'[k] \in Nat /\ sl'[k] \in Nat
  /\ tp' = [tp EXCEPT ![k] = tp'[k]]
  /\ sl' = [sl EXCEPT ![k] = sl'[k]]
  /\ UNCHANGED net

(* A session ends and every position is forgotten. *)
Reset ==
  /\ net' = [k \in Key |-> 0]
  /\ tp'  = [k \in Key |-> 0]
  /\ sl'  = [k \in Key |-> 0]

Next ==
  \/ \E k \in Key : Trade(k) \/ Protect(k)
  \/ Reset

Spec == Init /\ [][Next]_vars
=============================================================================
