------------------------------- MODULE BarManager -------------------------------
(***************************************************************************)
(* The bars of one instrument, pipeline/bar_manager.go, and what the       *)
(* analytics keep of the closed ones, pipeline/bar_analytics.go.           *)
(*                                                                         *)
(* Time is in minutes after the market opens at 09:15; a timeframe is its  *)
(* length in minutes.  A bar is its start, its volume and its close.  The  *)
(* analytics history is the number of bars closed and one of the four      *)
(* anchored VWAPs, which all work alike: AnchorDistGt starts at the first  *)
(* bar that closes far above its VWAP and sums volumes from then on.       *)
(* Ranks, slopes and rolling scores are left out: they are functions of    *)
(* the same closed bars and decide nothing.                                *)
(***************************************************************************)
EXTENDS Integers

CONSTANTS OpenMinute,  (* 09:15 in minutes of the UTC day: 225             *)
          FarPrice     (* a close from here on is far above the VWAP       *)

ASSUME BarAssumption == OpenMinute \in Nat /\ FarPrice \in Nat

NoCandle == [start |-> -1, vol |-> 0, close |-> 0]
NewHistory == [bars |-> 0, anchored |-> FALSE, held |-> 0]
NewBar(start, price) == [start |-> start, vol |-> 0, close |-> price]

(* marketTruncate: the start of a timeframe's first bar, counted from 09:15. *)
MarketTruncate(m, tf) == IF m < 0 THEN 0 ELSE (m \div tf) * tf

(* ts.Truncate, which starts all later bars: counted from midnight UTC. *)
Truncate(m, tf) == ((m + OpenMinute) \div tf) * tf - OpenMinute

(* Mutant of CloseDue: a bar is closed by the first tick of any other window. *)
OtherWindow(bar, m, tf) == bar.start # Truncate(m, tf)
(* cs.bar.Timestamp.Before(candleStart) *)
CloseDue(bar, m, tf) == bar.start < Truncate(m, tf)

(* EvaluateAndLockAnchors *)
Anchored(h, bar) ==
  IF bar.close >= FarPrice /\ ~h.anchored THEN [h EXCEPT !.anchored = TRUE, !.held = 0] ELSE h
(* AccumulateAnchorContext *)
Accumulated(h, bar) == IF h.anchored THEN [h EXCEPT !.held = @ + bar.vol] ELSE h
(* AnalyzeClose, and what RehydrateHistoricalBar repeats of it. *)
Analyzed(h, bar) == [Accumulated(Anchored(h, bar), bar) EXCEPT !.bars = @ + 1]

(* processTickForCandle *)
WithTick(bar, price, vol) == [bar EXCEPT !.vol = @ + vol, !.close = price]

(* The working bar when a tick finds none: Process and updateTimeframe. *)
Working(bar, m, tf, price) == IF bar = NoCandle THEN NewBar(MarketTruncate(m, tf), price) ELSE bar

(* updateTimeframe: the working bar after the tick. *)
Updated(bar, m, tf, price, vol) ==
  LET w == Working(bar, m, tf, price)
  IN WithTick(IF CloseDue(w, m, tf) THEN NewBar(Truncate(m, tf), price) ELSE w, price, vol)

(* updateTimeframe: the bars it closes, in a sequence of at most one. *)
ClosedBy(bar, m, tf, price) ==
  LET w == Working(bar, m, tf, price)
  IN IF CloseDue(w, m, tf) THEN <<w>> ELSE <<>>
=============================================================================
