------------------------------- MODULE Enrichment -------------------------------
(***************************************************************************)
(* What the enrichment stage keeps of an instrument between ticks and does *)
(* with a tick, pipeline/enrichment.go: the volume since the last tick,    *)
(* from the exchange's cumulative counter, and whether the order manager   *)
(* hears of the price.  Ranks and direction, which only decorate the tick, *)
(* and the rolling buffer they are computed from are left out.             *)
(***************************************************************************)
EXTENDS Integers

(* A context that NewEnrichmentStage makes for an instrument with DNA, or none. *)
Mapped == [known |-> TRUE, volume |-> 0, price |-> 0]
Unmapped == [known |-> FALSE, volume |-> 0, price |-> 0]

(* The lazily made context of an unmapped instrument holds the price of its first tick. *)
Context(c, price) == IF c.known THEN c ELSE [known |-> TRUE, volume |-> 0, price |-> price]

(* Mutant of Delta: every tick counts its last trade. *)
LastTrade(prev, curr, ltq) == ltq
(* Mutant of Delta: the operands swapped. *)
Backwards(prev, curr, ltq) == IF prev = 0 \/ curr < prev THEN ltq ELSE prev - curr
(* TickVolume: what was traded since the last tick, or the last trade if there was none. *)
Delta(prev, curr, ltq) == IF prev = 0 \/ curr < prev THEN ltq ELSE curr - prev

(* Process: the context afterwards. *)
Enriched(c, price, curr) == [Context(c, price) EXCEPT !.volume = curr, !.price = price]

(* Mutant of Announces: only a tick that carries volume is announced. *)
AnnouncesTrades(c, price, vol) == Context(c, price).price # price /\ vol > 0
(* OnPriceUpdate is called for a price that differs from the last one. *)
Announces(c, price, vol) == Context(c, price).price # price
=============================================================================
