---------------------------- MODULE MCPaperManager ----------------------------
(* A small instance of PaperManager. *)
EXTENDS PaperManager

MCQty == {1, 2}
MCPrice == {1, 2}
(* No protection, a long position's bracket, a short position's bracket: each is
   the wrong way round for the other direction and already breached when set. *)
MCBracket == {<<0, 0>>, <<2, 1>>, <<1, 2>>}
=============================================================================
