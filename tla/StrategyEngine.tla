----------------------------- MODULE StrategyEngine -----------------------------
(***************************************************************************)
(* The strategy engine, strategy/strategy.go, router.go and the rules of   *)
(* the registered strategy, strat_momentum_run.go, for one instrument.     *)
(*                                                                         *)
(* A state is what the engine keeps of an instrument: the phase, the side  *)
(* and average price of the last evaluation that was committed, the        *)
(* high-water mark of the profit, the times of the last entry and exit (0  *)
(* for none) and the trades of the day.  UpdateContext works on a clone,   *)
(* which is only kept when the risk manager commits it.  Time is in        *)
(* seconds of the day.  When to enter is a choice of the strategy: the     *)
(* registered one never does.                                              *)
(***************************************************************************)
EXTENDS Integers, FiniteSetsExt

CONSTANT MaximumTradesCount

StartTradingTime == 915
EndTradingTime == 1500
ForceExitTime == 1515
HardStopLoss == -400
TakeProfit == 2000

Side == {"FLAT", "LONG", "SHORT"}
NewState == [phase |-> "NEUTRAL", side |-> "FLAT", avg |-> 0, peak |-> 0, entry |-> 0, exit |-> 0, trades |-> 0]

(* currentHM *)
HM(t) == (t \div 3600) * 100 + (t % 3600) \div 60

(* CurrentPnL of a position at a price. *)
PnL(side, avg, qty, price) ==
  IF side = "LONG" THEN (price - avg) * qty ELSE IF side = "SHORT" THEN (avg - price) * qty ELSE 0

TradingHours(t) == StartTradingTime <= HM(t) /\ HM(t) <= EndTradingTime
CoolingDown(state, t) == state.exit # 0 /\ t - state.exit < 180

(* ValidateTimeAndCooldowns, the square-off and the permission. *)
SquareOff(t, flat) == HM(t) >= ForceExitTime /\ ~flat
Allowed(state, t, flat) ==
  /\ ~(flat /\ state.trades >= MaximumTradesCount)
  /\ HM(t) < ForceExitTime
  /\ TradingHours(t)
  /\ ~(flat /\ CoolingDown(state, t))

(* CheckStopLoss: the hard stop and the tiers of the profit lock. *)
Stopped(pnl, peak) ==
  \/ pnl <= HardStopLoss
  \/ peak >= 1500 /\ pnl < peak - 300
  \/ peak >= 1000 /\ peak < 1500 /\ pnl < 600
  \/ peak >= 600 /\ peak < 1000 /\ pnl < 100

(* CheckTakeProfit, which UpdateContext asks a minute after the entry. *)
ProfitTaken(state, t, pnl) == state.entry # 0 /\ t - state.entry > 60 /\ pnl >= TakeProfit

(* Mutant of Peak: the high-water mark lives in the clone, which is dropped. *)
PeakOfClone(state, pnl) == state.peak
(* realState.PeakPnL on an evaluation of an open position. *)
Peak(state, pnl) == Max({state.peak, pnl})

(* UpdateContext: the state the engine keeps at once, and the result, a signal and the
   state to be committed with it.  entry is what CheckEntry would say. *)
UpdateContext(state, t, price, side, avg, qty, entry) ==
  LET flat == side = "FLAT" \/ qty = 0
      pnl == PnL(side, avg, qty, price)
      clone == [state EXCEPT !.side = side, !.avg = avg]
      exits == [signal |-> "EXIT", state |-> [clone EXCEPT !.phase = "NEUTRAL", !.peak = 0, !.exit = t]]
  IN IF SquareOff(t, flat) THEN [kept |-> state, result |-> exits]
     ELSE IF ~Allowed(state, t, flat) THEN [kept |-> state, result |-> [signal |-> "HOLD", state |-> clone]]
     ELSE LET peak == IF flat THEN 0 ELSE Peak(state, pnl)
              evaluated == [clone EXCEPT !.peak = peak, !.phase = IF flat THEN "NEUTRAL" ELSE "ACTIVE_TRADE"]
              out == Stopped(pnl, peak) \/ ProfitTaken(state, t, pnl)
          IN [kept |-> [state EXCEPT !.peak = peak],
              result |-> [signal |-> IF flat THEN entry ELSE IF out THEN "EXIT" ELSE "HOLD", state |-> evaluated]]

(* CommitTransaction *)
Entered(state, t) == [state EXCEPT !.phase = "ACTIVE_TRADE", !.entry = t, !.peak = 0, !.trades = @ + 1]
Exited(state, t) == [state EXCEPT !.phase = "NEUTRAL", !.exit = t]

(* calculateActivePnLState, when a bar closes.  The committed state of an open position
   is the one that was evaluated while it was flat: its high-water mark goes back to 0. *)
WithBar(state, close) ==
  IF state.phase # "ACTIVE_TRADE" \/ state.side = "FLAT" THEN [state EXCEPT !.peak = 0]
  ELSE [state EXCEPT !.peak = Max({@, IF state.side = "LONG" THEN close - state.avg ELSE state.avg - close})]
=============================================================================
