---------------------------- MODULE MCLiveManager ----------------------------
(* A small instance of LiveManager. *)
EXTENDS LiveManager

MCQty == {2}
MCPrice == {1, 2}
(* A stop that a long and a short position both have reached at price 1. *)
MCBracket == {<<0, 1>>}
=============================================================================
