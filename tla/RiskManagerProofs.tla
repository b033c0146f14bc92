--------------------------- MODULE RiskManagerProofs ---------------------------
(***************************************************************************)
(* The agent, for any instruments, prices, times, limits and signals of a  *)
(* strategy: its types, its stops, its limits, and the agreement of its    *)
(* positions with the order manager's.                                     *)
(***************************************************************************)
EXTENDS RiskManager, FiniteSetTheorems, WellFoundedInduction, TLAPS

(* The larger of two numbers, as the helpers of the engine use it. *)
LEMMA MaxOfTwo ==
  ASSUME NEW x \in Int, NEW y \in Int
  PROVE  /\ Max({x, y}) = IF x >= y THEN x ELSE y
         /\ Max({x, y}) \in Int
<1>1. CASE x >= y
  <2>1. \A z \in {x, y} : (\A w \in {x, y} : z >= w) <=> z = x BY <1>1
  <2>. QED BY <1>1, <2>1 DEF Max
<1>2. CASE ~(x >= y)
  <2>1. \A z \in {x, y} : (\A w \in {x, y} : z >= w) <=> z = y BY <1>2
  <2>. QED BY <1>2, <2>1 DEF Max
<1>. QED BY <1>1, <1>2

LEMMA PnLType ==
  ASSUME NEW side \in Side, NEW avg \in Nat, NEW qty \in Nat, NEW price \in Nat
  PROVE  PnL(side, avg, qty, price) \in Int
  BY DEF PnL

(* What an evaluation keeps and returns. *)
LEMMA EvaluationTypes ==
  ASSUME NEW state \in State, NEW t \in Nat, NEW price \in Nat, NEW side \in Side, NEW avg \in Nat,
         NEW qty \in Nat, NEW entry \in EntrySignal
  PROVE  LET r == UpdateContext(state, t, price, side, avg, qty, entry) IN
         /\ r.kept \in State
         /\ r.result \in [signal : {"HOLD", "EXIT", "GO_LONG", "GO_SHORT"}, state : State]
<1> DEFINE pnl == PnL(side, avg, qty, price)
           flat == side = "FLAT" \/ qty = 0
           peak == IF flat THEN 0 ELSE Peak(state, pnl)
           clone == [state EXCEPT !.side = side, !.avg = avg]
<1>1. pnl \in Int BY PnLType
<1>2. peak \in Nat BY <1>1, MaxOfTwo DEF Peak, State
<1>3. clone \in State BY DEF State, Side
<1>4. [state EXCEPT !.peak = peak] \in State BY <1>2 DEF State
<1>5. [clone EXCEPT !.peak = peak, !.phase = IF flat THEN "NEUTRAL" ELSE "ACTIVE_TRADE"] \in State
  BY <1>2, <1>3 DEF State
<1>6. [clone EXCEPT !.phase = "NEUTRAL", !.peak = 0, !.exit = t] \in State BY <1>3 DEF State
<1>7. entry \in {"HOLD", "GO_LONG", "GO_SHORT"} BY AgentAssumption
<1>. QED
  BY <1>2, <1>3, <1>4, <1>5, <1>6, <1>7 DEF UpdateContext, State

(* An open position: when the strategy lets it be, it is early enough and, in trading
   hours, no stop is reached; the high-water mark then takes in the profit. *)
LEMMA EvaluationOfOpen ==
  ASSUME NEW state \in State, NEW t \in Nat, NEW price \in Nat, NEW side \in Side \ {"FLAT"}, NEW avg \in Nat,
         NEW qty \in Nat \ {0}, NEW entry \in EntrySignal
  PROVE  LET r == UpdateContext(state, t, price, side, avg, qty, entry)
             pnl == PnL(side, avg, qty, price) IN
         /\ r.kept.side = state.side /\ r.kept.exit = state.exit
         /\ r.result.signal \in {"HOLD", "EXIT"}
         /\ r.result.signal = "HOLD" => HM(t) < ForceExitTime
         /\ TradingHours(t) =>
              /\ r.kept.peak = Max({state.peak, pnl})
              /\ r.result.signal = "HOLD" => ~Stopped(pnl, r.kept.peak)
<1> DEFINE pnl == PnL(side, avg, qty, price)
<1>1. HM(t) \in Int BY DEF HM
<1>2. TradingHours(t) => Allowed(state, t, FALSE) /\ ~SquareOff(t, FALSE)
  BY <1>1 DEF TradingHours, Allowed, SquareOff, StartTradingTime, EndTradingTime, ForceExitTime
<1>3. ~SquareOff(t, FALSE) <=> HM(t) < ForceExitTime
  BY <1>1 DEF SquareOff, ForceExitTime
<1>. QED BY <1>2, <1>3 DEF UpdateContext, Peak, State

-----------------------------------------------------------------------------
(* Type correctness. *)
LEMMA Bounds ==
  /\ MaximumTradesCount \in Nat /\ MaxConcurrentTrades \in Nat /\ BuyingPower \in Nat /\ LegsToCap \in Nat
  /\ MaxTicks \in Nat /\ MaxBars \in Nat /\ MaxSurprises \in Nat
  BY AgentAssumption

LEMMA InitTypes == Init => TypeOK
<1>1. NewState \in State BY DEF NewState, State, Side
<1>2. Flat \in [qty : Nat, side : Side, avg : Nat] /\ Flat.qty = 0 /\ Flat.side = "FLAT" BY DEF Flat, Side
<1>3. Nothing \in [signal : {"HOLD", "EXIT", "GO_LONG", "GO_SHORT"}, state : State] BY <1>1 DEF Nothing
<1>. SUFFICES ASSUME Init PROVE TypeOK OBVIOUS
<1>4. /\ ticks \in 0 .. MaxTicks /\ bars \in 0 .. MaxBars /\ surprises \in 0 .. MaxSurprises
      /\ legs \in Nat
  <2>. HIDE DEF Init
  <2>1. ticks = 0 /\ bars = 0 /\ surprises = 0 /\ legs = 0 BY DEF Init
  <2>. QED BY <2>1, Bounds
<1>5. orders = {} /\ notices = {} BY DEF Init
<1>6. pos \in [Symbol -> [qty : Nat, side : Side, avg : Nat]] /\ \A s \in Symbol : pos[s].qty = 0 <=> pos[s].side = "FLAT"
  BY <1>2 DEF Init
<1>7. /\ registry \in [Symbol -> State]
      /\ hand \in [Symbol -> [signal : {"HOLD", "EXIT", "GO_LONG", "GO_SHORT"}, state : State]]
  BY <1>1, <1>3 DEF Init
<1>8. /\ synced \in [Symbol -> Int] /\ net \in [Symbol -> Int] /\ lastExit \in [Symbol -> Nat]
      /\ last \in [Symbol -> Tick \cup {None}] /\ best \in [Symbol -> Nat]
  BY DEF Init
<1>9. circuitBroken \in BOOLEAN BY Zenon DEF Init
<1>. QED BY <1>4, <1>5, <1>6, <1>7, <1>8, <1>9 DEF TypeOK

LEMMA LiquidateTypes ==
  ASSUME TypeOK, NEW s \in Symbol, NEW t \in Nat, Liquidate(s, t)
  PROVE  /\ pos' \in [Symbol -> [qty : Nat, side : Side, avg : Nat]]
         /\ \A u \in Symbol : pos'[u].qty = 0 <=> pos'[u].side = "FLAT"
         /\ lastExit' \in [Symbol -> Nat] /\ legs' \in Nat
         /\ orders' \subseteq [symbol : Symbol, leg : 1 .. legs', delta : Int]
<1>1. CASE ~Open(s) BY <1>1 DEF Liquidate, TypeOK
<1>2. CASE Open(s)
  <2>1. Flat \in [qty : Nat, side : Side, avg : Nat] /\ Flat.qty = 0 /\ Flat.side = "FLAT" BY DEF Flat, Side
  <2>2. pos' = [pos EXCEPT ![s] = Flat] /\ lastExit' = [lastExit EXCEPT ![s] = t]
    BY <1>2 DEF Liquidate, Flattened
  <2>3. ExitDelta(pos[s]) \in Int BY DEF TypeOK, ExitDelta, Signed
  <2>4. legs' = legs + 1 /\ orders' = orders \cup {[symbol |-> s, leg |-> legs + 1, delta |-> ExitDelta(pos[s])]}
    BY <1>2 DEF Liquidate, Dispatch
  <2>5. legs' \in Nat /\ orders' \subseteq [symbol : Symbol, leg : 1 .. legs', delta : Int]
    BY <2>3, <2>4 DEF TypeOK
  <2>. QED BY <2>1, <2>2, <2>5 DEF TypeOK
<1>. QED BY <1>1, <1>2

LEMMA LookTypes ==
  ASSUME TypeOK, NEW s \in Symbol, NEW tick \in Tick, NEW entry \in EntrySignal, Look(s, tick, entry)
  PROVE  TypeOK'
<1>1. tick.time \in Nat \ {0} /\ tick.price \in Nat BY AgentAssumption
<1>2. /\ ticks' \in 0 .. MaxTicks /\ bars' \in 0 .. MaxBars /\ surprises' \in 0 .. MaxSurprises
      /\ last' \in [Symbol -> Tick \cup {None}] /\ synced' \in [Symbol -> Int] /\ net' \in [Symbol -> Int]
      /\ notices' \subseteq Symbol \X Int
  BY AgentAssumption DEF TypeOK, Look, broker
<1>3. CASE BreakCircuit(s, tick.time)
  BY <1>1, <1>2, <1>3, LiquidateTypes DEF TypeOK, BreakCircuit
<1>4. CASE Evaluate(s, tick, entry)
  <2> DEFINE p == pos[s]
             r == UpdateContext(registry[s], tick.time, tick.price, p.side, p.avg, p.qty, entry)
  <2>1. p.side \in Side /\ p.avg \in Nat /\ p.qty \in Nat /\ registry[s] \in State BY DEF TypeOK
  <2>2. /\ r.kept \in State
        /\ r.result \in [signal : {"HOLD", "EXIT", "GO_LONG", "GO_SHORT"}, state : State]
    BY <1>1, <2>1, EvaluationTypes
  <2>3. Nothing \in [signal : {"HOLD", "EXIT", "GO_LONG", "GO_SHORT"}, state : State]
    BY DEF Nothing, NewState, State, Side
  <2>4. registry' \in [Symbol -> State] /\ hand' \in [Symbol -> [signal : {"HOLD", "EXIT", "GO_LONG", "GO_SHORT"}, state : State]]
    BY <1>4, <2>2, <2>3 DEF Evaluate, TypeOK
  <2>5. Max({best[s], PnL(p.side, p.avg, p.qty, tick.price)}) \in Nat
    <3>1. best[s] \in Nat BY DEF TypeOK
    <3>2. PnL(p.side, p.avg, p.qty, tick.price) \in Int BY <1>1, <2>1, PnLType
    <3>. HIDE DEF p
    <3>. QED BY <3>1, <3>2, MaxOfTwo
  <2>6. best' \in [Symbol -> Nat] BY <1>4, <2>5 DEF Evaluate, TypeOK
  <2>7. UNCHANGED <<pos, lastExit, legs, circuitBroken, orders>> BY <1>4 DEF Evaluate
  <2>. QED BY <1>2, <2>4, <2>6, <2>7 DEF TypeOK
<1>. QED BY <1>3, <1>4 DEF Look

LEMMA EnteredType ==
  ASSUME NEW state \in State, NEW t \in Nat
  PROVE  Entered(state, t) \in State
<1>1. [state EXCEPT !.phase = "ACTIVE_TRADE", !.entry = t, !.peak = 0] \in State BY DEF State
<1>2. state.trades + 1 \in Nat BY DEF State
<1>. QED BY <1>1, <1>2 DEF Entered, State

LEMMA HandleTypes ==
  ASSUME TypeOK, NEW s \in Symbol, Handle(s)
  PROVE  TypeOK'
<1>1. last[s].time \in Nat /\ last[s].price \in Nat BY AgentAssumption DEF TypeOK, None
<1>2. hand[s].state \in State BY DEF TypeOK
<1>3. hand' \in [Symbol -> [signal : {"HOLD", "EXIT", "GO_LONG", "GO_SHORT"}, state : State]]
  BY DEF Handle, TypeOK, Nothing, NewState, State, Side
<1>4. CASE Exit(s)
  <2>1. Exited(hand[s].state, last[s].time) \in State BY <1>1, <1>2 DEF Exited, State
  <2>2. registry' \in [Symbol -> State] BY <1>4, <2>1 DEF Exit, TypeOK
  <2>. QED BY <1>1, <1>3, <1>4, <2>2, LiquidateTypes DEF Handle, Exit, TypeOK, broker, market
<1>5. CASE Enter(s)
  <2> DEFINE qty == BuyingPower \div last[s].price
             p == [qty |-> qty, side |-> IF hand[s].signal = "GO_LONG" THEN "LONG" ELSE "SHORT", avg |-> last[s].price]
  <2>1. CASE Open(s) \/ ~MayEnter(s)
    BY <1>3, <1>5, <2>1 DEF Handle, Enter, TypeOK, broker, market
  <2>2. CASE ~(Open(s) \/ ~MayEnter(s))
    <3>1. qty \in Nat \ {0} BY <1>1, <2>2, AgentAssumption DEF MayEnter
    <3>2. p \in [qty : Nat, side : Side, avg : Nat] /\ (p.qty = 0 <=> p.side = "FLAT") BY <1>1, <3>1 DEF Side
    <3>3. Signed(p) \in Int BY <3>1 DEF Signed
    <3>4. /\ pos' = [pos EXCEPT ![s] = p] /\ Dispatch(s, Signed(p))
          /\ registry' = [registry EXCEPT ![s] = Entered(hand[s].state, last[s].time)]
          /\ best' = [best EXCEPT ![s] = 0]
      BY <1>5, <2>2 DEF Enter
    <3>5. Entered(hand[s].state, last[s].time) \in State BY <1>1, <1>2, EnteredType
    <3>6. legs' \in Nat /\ orders' \subseteq [symbol : Symbol, leg : 1 .. legs', delta : Int]
      BY <3>3, <3>4 DEF Dispatch, TypeOK
    <3>. QED BY <1>3, <1>5, <3>2, <3>4, <3>5, <3>6 DEF Handle, Enter, TypeOK, broker, market
  <2>. QED BY <2>1, <2>2
<1>. QED BY <1>4, <1>5 DEF Handle

LEMMA OtherTypes ==
  ASSUME TypeOK, NEW s \in Symbol,
         \/ BarCloses(s) \/ UserExit(s)
         \/ \E o \in orders : Fill(o) \/ Refuse(o)
         \/ \E n \in notices : Notice(n)
  PROVE  TypeOK'
<1>1. CASE BarCloses(s)
  <2>1. last[s].price \in Nat BY AgentAssumption DEF TypeOK, None
  <2>2. registry[s] \in State BY DEF TypeOK
  <2>3. WithBar(registry[s], last[s].price) \in State BY <2>1, <2>2, MaxOfTwo DEF WithBar, State
  <2>. QED BY <1>1, <2>3, AgentAssumption DEF BarCloses, TypeOK, agent, broker
<1>2. CASE UserExit(s)
  BY <1>2, AgentAssumption DEF UserExit, TypeOK, agent, market
<1>3. CASE \E o \in orders : Fill(o)
  BY <1>3 DEF Fill, TypeOK, agent, market
<1>4. CASE \E o \in orders : Refuse(o)
  BY <1>4, AgentAssumption DEF Refuse, TypeOK, agent, market
<1>5. CASE \E n \in notices : Notice(n)
  BY <1>5 DEF Notice, TypeOK, agent, market
<1>. QED BY <1>1, <1>2, <1>3, <1>4, <1>5

LEMMA StepTypes == TypeOK /\ [Next]_vars => TypeOK'
<1>. SUFFICES ASSUME TypeOK, [Next]_vars PROVE TypeOK' OBVIOUS
<1>1. CASE UNCHANGED vars BY <1>1 DEF TypeOK, vars, agent, broker, market
<1>2. ASSUME NEW o \in orders, Fill(o) \/ Refuse(o) PROVE TypeOK'
  <2>1. o.symbol \in Symbol BY DEF TypeOK
  <2>. QED BY <1>2, <2>1, OtherTypes
<1>3. ASSUME NEW n \in notices, Notice(n) PROVE TypeOK'
  <2>1. n[1] \in Symbol BY DEF TypeOK
  <2>. QED BY <1>3, <2>1, OtherTypes
<1>. QED BY <1>1, <1>2, <1>3, LookTypes, HandleTypes, OtherTypes DEF Next

(* Every variable keeps its range: orders carry legs that were counted, quantities are
   never negative and a position is flat exactly when it has none. *)
THEOREM TypeCorrect == Spec => []TypeOK
  BY InitTypes, StepTypes, PTL DEF Spec
-----------------------------------------------------------------------------
(* The stops.  Four facts about an instrument; the first three make the last inductive.

   A result waits only for the position it was computed for, and one that asks for an
   entry was computed in trading hours, after the cooldown. *)
Going(s) == Waiting(s) /\ hand[s].signal # "EXIT"
ResultFits(s) ==
  /\ Waiting(s) => hand[s].signal # "HOLD" /\ (hand[s].signal = "EXIT" <=> Open(s))
  /\ Going(s) => /\ TradingHours(last[s].time) /\ ~CoolingDown(registry[s], last[s].time)
                 /\ hand[s].state.side = "FLAT" /\ hand[s].state.exit = registry[s].exit

(* The engine and the risk manager know of the same last exit, unless the circuit breaker,
   of which the engine is not told, has ended all trading. *)
ExitKnown(s) == ~circuitBroken \/ Waiting(s) => registry[s].exit = lastExit[s]

(* The engine's high-water mark of an open position is the best profit a tick has shown, as
   long as ticks are evaluated; the side it has committed is still FLAT. *)
MarkTrue(s) ==
  Open(s) =>
    /\ registry[s].side = "FLAT" /\ StartTradingTime <= HM(last[s].time)
    /\ HM(last[s].time) <= EndTradingTime => registry[s].peak = best[s]

(* What StopsHonoured says of the instrument. *)
StopHonoured(s) ==
  Open(s) /\ ~Waiting(s) /\ ~circuitBroken =>
    /\ HM(last[s].time) < ForceExitTime
    /\ HM(last[s].time) <= EndTradingTime =>
         ~Stopped(PnL(pos[s].side, pos[s].avg, pos[s].qty, last[s].price), best[s])

Sound(s) == ResultFits(s) /\ ExitKnown(s) /\ MarkTrue(s) /\ StopHonoured(s)
SInv == TypeOK /\ \A s \in Symbol : Sound(s)

(* What leaves an instrument alone leaves it sound; the circuit only ever breaks. *)
LEMMA SoundFrame ==
  ASSUME NEW u \in Symbol, Sound(u), circuitBroken => circuitBroken',
         UNCHANGED <<pos[u], lastExit[u], registry[u], hand[u], last[u], best[u]>>
  PROVE  Sound(u)'
  BY DEF Sound, ResultFits, ExitKnown, MarkTrue, StopHonoured, Waiting, Going, Open

(* Hours and minutes grow with the time. *)
LEMMA HMGrows ==
  ASSUME NEW t \in Nat, NEW u \in Nat, t <= u
  PROVE  HM(t) \in Nat /\ HM(t) <= HM(u)
  BY DEF HM

LEMMA LastTime ==
  ASSUME TypeOK, NEW s \in Symbol
  PROVE  last[s].time \in Nat /\ last[s].price \in Nat
  BY AgentAssumption DEF TypeOK, None

(* A position that has just been opened, or forgotten its best profit, is no candidate of a
   stop that it was none of before. *)
LEMMA NoStopAtOnce ==
  /\ \A side \in Side, avg \in Nat, qty \in Nat : ~Stopped(PnL(side, avg, qty, avg), 0)
  /\ \A pnl \in Int, peak \in Nat : ~Stopped(pnl, peak) => ~Stopped(pnl, 0)
<1>1. \A side \in Side, avg \in Nat, qty \in Nat : PnL(side, avg, qty, avg) = 0 BY DEF PnL
<1>. QED BY <1>1 DEF Stopped, HardStopLoss

LEMMA CircuitSound ==
  ASSUME SInv, NEW s \in Symbol, NEW tick \in Tick, NEW entry \in EntrySignal,
         Look(s, tick, entry), BreakCircuit(s, tick.time)
  PROVE  Sound(s)'
<1>1. ~Waiting(s) /\ UNCHANGED hand /\ circuitBroken' /\ Liquidate(s, tick.time) BY DEF Look, BreakCircuit
<1>2. ~Open(s)'
  <2>1. CASE Open(s) BY <1>1, <2>1 DEF Liquidate, Flattened, Flat, Open, SInv, TypeOK
  <2>2. CASE ~Open(s) BY <1>1, <2>2 DEF Liquidate, Open
  <2>. QED BY <2>1, <2>2
<1>3. ~Waiting(s)' BY <1>1 DEF Waiting
<1>. QED BY <1>1, <1>2, <1>3 DEF Sound, ResultFits, ExitKnown, MarkTrue, StopHonoured, Going

(* The tick of an open position: it is closed, or no stop is reached. *)
LEMMA OpenSound ==
  ASSUME SInv, NEW s \in Symbol, NEW tick \in Tick, NEW entry \in EntrySignal,
         Look(s, tick, entry), Evaluate(s, tick, entry), Open(s)
  PROVE  Sound(s)'
<1> DEFINE p == pos[s]
           t == tick.time
           pnl == PnL(p.side, p.avg, p.qty, tick.price)
           r == UpdateContext(registry[s], t, tick.price, p.side, p.avg, p.qty, entry)
<1>1. /\ p.side \in Side \ {"FLAT"} /\ p.avg \in Nat /\ p.qty \in Nat \ {0}
      /\ registry[s] \in State /\ best[s] \in Nat /\ t \in Nat /\ tick.price \in Nat
      /\ last[s].time \in Nat /\ last[s].time <= t
  BY AgentAssumption, LastTime DEF SInv, TypeOK, Open, Look
<1>2. /\ r.result.signal \in {"HOLD", "EXIT"}
      /\ r.result.signal = "HOLD" => HM(t) < ForceExitTime
      /\ TradingHours(t) =>
           /\ r.kept.peak = Max({registry[s].peak, pnl})
           /\ r.result.signal = "HOLD" => ~Stopped(pnl, r.kept.peak)
      /\ r.kept.side = registry[s].side /\ r.kept.exit = registry[s].exit
  <2>. HIDE DEF p, t
  <2>. HIDE DEF pnl
  <2>1. /\ r.kept.side = registry[s].side /\ r.kept.exit = registry[s].exit
        /\ r.result.signal \in {"HOLD", "EXIT"}
        /\ r.result.signal = "HOLD" => HM(t) < ForceExitTime
        /\ TradingHours(t) =>
             /\ r.kept.peak = Max({registry[s].peak, PnL(p.side, p.avg, p.qty, tick.price)})
             /\ r.result.signal = "HOLD" => ~Stopped(PnL(p.side, p.avg, p.qty, tick.price), r.kept.peak)
    BY <1>1, EvaluationOfOpen
  <2>. QED BY <2>1 DEF pnl
<1>3. /\ registry'[s] = r.kept /\ UNCHANGED <<pos, lastExit, circuitBroken>> /\ last'[s] = tick
      /\ hand'[s] = (IF r.result.signal = "HOLD" THEN Nothing ELSE r.result)
      /\ best'[s] = Max({best[s], pnl}) /\ ~circuitBroken /\ ~Waiting(s)
  BY DEF Look, Evaluate, SInv, TypeOK
<1>4. Open(s)' BY <1>3 DEF Open
<1>5. Waiting(s)' <=> r.result.signal = "EXIT"
  BY <1>2, <1>3 DEF Waiting, Nothing
<1>6. registry'[s].side = "FLAT" /\ registry'[s].exit = lastExit'[s]
  BY <1>1, <1>2, <1>3 DEF SInv, Sound, MarkTrue, ExitKnown, State
<1>7. StartTradingTime <= HM(t) /\ HM(t) \in Nat
  <2>1. StartTradingTime <= HM(last[s].time) BY DEF SInv, Sound, MarkTrue
  <2>. QED BY <1>1, <2>1, HMGrows DEF StartTradingTime
<1>8. HM(t) <= EndTradingTime => TradingHours(t) /\ registry[s].peak = best[s]
  <2>1. HM(t) <= EndTradingTime => HM(last[s].time) <= EndTradingTime
    BY <1>1, HMGrows DEF EndTradingTime
  <2>. QED BY <1>7, <2>1 DEF SInv, Sound, MarkTrue, TradingHours
<1>9. ResultFits(s)' BY <1>3, <1>4, <1>5 DEF ResultFits, Going
<1>10. ExitKnown(s)' BY <1>6 DEF ExitKnown
<1>11. MarkTrue(s)' BY <1>2, <1>3, <1>6, <1>7, <1>8 DEF MarkTrue
<1>12. StopHonoured(s)' BY <1>2, <1>3, <1>5, <1>8 DEF StopHonoured
<1>. QED BY <1>9, <1>10, <1>11, <1>12 DEF Sound

(* The tick of an instrument without a position: the strategy may only ask for an entry, in
   trading hours and when the cooldown is over, and the state it would commit knows of no
   side. *)
LEMMA FlatSound ==
  ASSUME SInv, NEW s \in Symbol, NEW tick \in Tick, NEW entry \in EntrySignal,
         Look(s, tick, entry), Evaluate(s, tick, entry), ~Open(s)
  PROVE  Sound(s)'
<1> DEFINE p == pos[s]
           t == tick.time
           r == UpdateContext(registry[s], t, tick.price, p.side, p.avg, p.qty, entry)
<1>1. /\ p.side = "FLAT" /\ p.side \in Side /\ p.avg \in Nat /\ p.qty \in Nat
      /\ registry[s] \in State /\ t \in Nat /\ tick.price \in Nat
  BY AgentAssumption DEF SInv, TypeOK, Open
<1>2. /\ r.result.signal # "EXIT"
      /\ r.result.signal # "HOLD" => TradingHours(t) /\ ~CoolingDown(registry[s], t)
      /\ r.result.state.side = "FLAT" /\ r.result.state.exit = registry[s].exit
      /\ r.kept.exit = registry[s].exit
  <2>. HIDE DEF p, t
  <2>1. entry # "EXIT" BY AgentAssumption
  <2>. QED BY <1>1, <2>1 DEF UpdateContext, Allowed, SquareOff, State
<1>3. /\ registry'[s] = r.kept /\ UNCHANGED <<pos, lastExit, circuitBroken>> /\ last'[s] = tick
      /\ hand'[s] = (IF r.result.signal = "HOLD" THEN Nothing ELSE r.result)
      /\ ~circuitBroken /\ ~Waiting(s)
  BY DEF Look, Evaluate, SInv, TypeOK
<1>4. ~Open(s)' BY <1>3 DEF Open
<1>5. Waiting(s)' => hand'[s] = r.result /\ r.result.signal # "HOLD"
  BY <1>3 DEF Waiting
<1>6. registry'[s].exit = registry[s].exit
  BY <1>1, <1>2, <1>3 DEF State
<1>7. ~CoolingDown(registry[s], t) => ~CoolingDown(registry'[s], t)
  BY <1>6 DEF CoolingDown
<1>8. ResultFits(s)' BY <1>2, <1>3, <1>4, <1>5, <1>6, <1>7 DEF ResultFits, Going
<1>9. ExitKnown(s)' BY <1>3, <1>6 DEF ExitKnown, SInv, Sound
<1>. QED BY <1>4, <1>8, <1>9 DEF Sound, MarkTrue, StopHonoured

LEMMA ExitSound ==
  ASSUME SInv, NEW s \in Symbol, Handle(s), Exit(s)
  PROVE  Sound(s)'
<1>1. Open(s) BY DEF SInv, Sound, ResultFits, Exit, Handle
<1>2. /\ pos'[s] = Flat /\ lastExit'[s] = last[s].time /\ ~Waiting(s)'
      /\ registry'[s].exit = last[s].time
  <2>1. pos'[s] = Flat /\ lastExit'[s] = last[s].time
    BY <1>1 DEF Exit, Liquidate, Flattened, SInv, TypeOK
  <2>2. ~Waiting(s)' BY DEF Handle, Waiting, SInv, TypeOK
  <2>3. registry'[s] = Exited(hand[s].state, last[s].time) BY <1>1 DEF Exit, SInv, TypeOK
  <2>4. hand[s].state \in State BY DEF SInv, TypeOK
  <2>. QED BY <2>1, <2>2, <2>3, <2>4 DEF Exited, State
<1>3. ~Open(s)' BY <1>2 DEF Open, Flat
<1>. QED BY <1>2, <1>3 DEF Sound, ResultFits, ExitKnown, MarkTrue, StopHonoured, Going

LEMMA EnterSound ==
  ASSUME SInv, NEW s \in Symbol, Handle(s), Enter(s)
  PROVE  Sound(s)'
<1> DEFINE qty == BuyingPower \div last[s].price
           p == [qty |-> qty, side |-> IF hand[s].signal = "GO_LONG" THEN "LONG" ELSE "SHORT", avg |-> last[s].price]
<1>1. Going(s) /\ ~Open(s) BY DEF SInv, Sound, ResultFits, Going, Enter, Handle
<1>2. ~Waiting(s)' /\ UNCHANGED <<last, lastExit, circuitBroken>>
  BY DEF Handle, Enter, Waiting, market, SInv, TypeOK
<1>3. CASE ~MayEnter(s)
  <2>1. UNCHANGED <<pos, registry>> BY <1>3 DEF Enter
  <2>2. ~Open(s)' /\ (ExitKnown(s) => ExitKnown(s)')
    BY <1>1, <1>2, <2>1 DEF Open, ExitKnown
  <2>. QED BY <1>2, <2>2 DEF SInv, Sound, ResultFits, MarkTrue, StopHonoured, Going
<1>4. CASE MayEnter(s)
  <2>1. /\ pos'[s] = p /\ best'[s] = 0 /\ registry'[s] = Entered(hand[s].state, last[s].time)
    BY <1>1, <1>4 DEF Enter, SInv, TypeOK
  <2>2. /\ registry'[s].side = hand[s].state.side /\ registry'[s].exit = hand[s].state.exit
        /\ registry'[s].peak = 0
    <3>1. hand[s].state \in State BY DEF SInv, TypeOK
    <3>. QED BY <2>1, <3>1 DEF Entered, State
  <2>3. hand[s].state.side = "FLAT" /\ hand[s].state.exit = registry[s].exit /\ TradingHours(last[s].time)
    BY <1>1 DEF SInv, Sound, ResultFits
  <2>4. registry[s].exit = lastExit[s] BY <1>1 DEF SInv, Sound, ExitKnown, Going
  <2>5. HM(last[s].time) \in Nat BY LastTime, HMGrows DEF SInv
  <2>6. StartTradingTime <= HM(last[s].time) /\ HM(last[s].time) <= EndTradingTime BY <2>3 DEF TradingHours
  <2>7. HM(last[s].time) < ForceExitTime BY <2>5, <2>6 DEF EndTradingTime, ForceExitTime
  <2>8. p.side \in Side /\ p.avg \in Nat /\ p.qty \in Nat /\ p.avg = last[s].price
    BY <1>4, Bounds, LastTime DEF MayEnter, SInv, Side
  <2>9. ~Stopped(PnL(p.side, p.avg, p.qty, last[s].price), 0) BY <2>8, NoStopAtOnce
  <2>10. StopHonoured(s)' BY <1>2, <2>1, <2>7, <2>9 DEF StopHonoured
  <2>11. ExitKnown(s)' BY <1>2, <2>2, <2>3, <2>4 DEF ExitKnown
  <2>12. MarkTrue(s)' BY <1>2, <2>1, <2>2, <2>3, <2>6 DEF MarkTrue
  <2>13. ResultFits(s)' BY <1>2 DEF ResultFits, Going
  <2>. QED BY <2>10, <2>11, <2>12, <2>13 DEF Sound
<1>. QED BY <1>3, <1>4

LEMMA BarSound ==
  ASSUME SInv, NEW s \in Symbol, BarCloses(s)
  PROVE  Sound(s)'
<1>1. /\ registry'[s] = WithBar(registry[s], last[s].price) /\ best'[s] = 0 /\ ~Waiting(s)
      /\ UNCHANGED <<pos, lastExit, circuitBroken, hand, last>>
  BY DEF BarCloses, agent, SInv, TypeOK
<1>2. /\ registry'[s].exit = registry[s].exit /\ registry'[s].side = registry[s].side
      /\ registry[s].side = "FLAT" => registry'[s].peak = 0
  <2>1. registry[s] \in State BY DEF SInv, TypeOK
  <2>. QED BY <1>1, <2>1 DEF WithBar, State
<1>3. ~Waiting(s)' /\ (Open(s)' <=> Open(s)) BY <1>1 DEF Waiting, Open
<1>4. Open(s) /\ ~circuitBroken /\ HM(last[s].time) <= EndTradingTime =>
        ~Stopped(PnL(pos[s].side, pos[s].avg, pos[s].qty, last[s].price), 0)
  <2>1. PnL(pos[s].side, pos[s].avg, pos[s].qty, last[s].price) \in Int /\ best[s] \in Nat
    BY PnLType, LastTime DEF SInv, TypeOK
  <2>. QED BY <1>1, <2>1, NoStopAtOnce DEF SInv, Sound, StopHonoured
<1>5. ResultFits(s)' BY <1>3 DEF ResultFits, Going
<1>6. ExitKnown(s)' BY <1>1, <1>2, <1>3 DEF ExitKnown, SInv, Sound
<1>7. MarkTrue(s)' BY <1>1, <1>2, <1>3 DEF MarkTrue, SInv, Sound
<1>8. StopHonoured(s)' BY <1>1, <1>3, <1>4 DEF StopHonoured, SInv, Sound
<1>. QED BY <1>5, <1>6, <1>7, <1>8 DEF Sound

(* A step of one instrument, or of the order manager, leaves every other sound. *)
LEMMA OthersSound ==
  ASSUME SInv, NEW s \in Symbol, NEW u \in Symbol \ {s},
         \/ \E tick \in Tick, entry \in EntrySignal : Look(s, tick, entry)
         \/ Handle(s) \/ BarCloses(s)
  PROVE  Sound(u)'
<1>1. ASSUME NEW t \in Nat, Liquidate(s, t)
      PROVE  UNCHANGED <<pos[u], lastExit[u]>>
  BY <1>1 DEF Liquidate, SInv, TypeOK
<1>2. ASSUME NEW tick \in Tick, NEW entry \in EntrySignal, Look(s, tick, entry)
      PROVE  UNCHANGED <<pos[u], lastExit[u], registry[u], hand[u], last[u], best[u]>> /\ (circuitBroken => circuitBroken')
  <2>1. UNCHANGED last[u] /\ ~circuitBroken BY <1>2 DEF Look, SInv, TypeOK
  <2>2. CASE BreakCircuit(s, tick.time)
    <3>1. tick.time \in Nat BY AgentAssumption
    <3>2. UNCHANGED <<registry, hand, best>> /\ Liquidate(s, tick.time) BY <2>2 DEF BreakCircuit
    <3>. QED BY <1>1, <2>1, <3>1, <3>2
  <2>3. CASE Evaluate(s, tick, entry)
    BY <2>1, <2>3 DEF Evaluate, SInv, TypeOK
  <2>. QED BY <1>2, <2>2, <2>3 DEF Look
<1>3. ASSUME Handle(s)
      PROVE  UNCHANGED <<pos[u], lastExit[u], registry[u], hand[u], last[u], best[u], circuitBroken>>
  <2>1. UNCHANGED <<hand[u], last[u], circuitBroken>> BY <1>3 DEF Handle, SInv, TypeOK, market
  <2>2. CASE Exit(s)
    <3>1. last[s].time \in Nat BY LastTime DEF SInv
    <3>2. UNCHANGED <<registry[u], best[u]>> /\ Liquidate(s, last[s].time) BY <2>2 DEF Exit, SInv, TypeOK
    <3>. QED BY <1>1, <2>1, <3>1, <3>2
  <2>3. CASE Enter(s)
    BY <2>1, <2>3 DEF Enter, SInv, TypeOK
  <2>. QED BY <1>3, <2>2, <2>3 DEF Handle
<1>4. ASSUME BarCloses(s)
      PROVE  UNCHANGED <<pos[u], lastExit[u], registry[u], hand[u], last[u], best[u], circuitBroken>>
  BY <1>4 DEF BarCloses, agent, SInv, TypeOK
<1>. QED BY <1>2, <1>3, <1>4, SoundFrame DEF SInv

LEMMA StepSound == SInv /\ [Next]_vars => SInv'
<1>. SUFFICES ASSUME SInv, [Next]_vars, NEW u \in Symbol PROVE Sound(u)'
  BY StepTypes DEF SInv
<1>1. CASE UNCHANGED <<agent, registry, hand, market, best>>
  BY <1>1, SoundFrame DEF SInv, agent, market
<1>2. ASSUME NEW s \in Symbol, NEW tick \in Tick, NEW entry \in EntrySignal, Look(s, tick, entry)
      PROVE  Sound(u)'
  <2>1. CASE u = s
    <3>1. CASE BreakCircuit(s, tick.time) BY <1>2, <2>1, <3>1, CircuitSound
    <3>2. CASE Evaluate(s, tick, entry) BY <1>2, <2>1, <3>2, OpenSound, FlatSound
    <3>. QED BY <1>2, <3>1, <3>2 DEF Look
  <2>2. CASE u # s BY <1>2, <2>2, OthersSound
  <2>. QED BY <2>1, <2>2
<1>3. ASSUME NEW s \in Symbol, Handle(s)
      PROVE  Sound(u)'
  <2>1. CASE u = s
    <3>1. CASE Exit(s) BY <1>3, <2>1, <3>1, ExitSound
    <3>2. CASE Enter(s) BY <1>3, <2>1, <3>2, EnterSound
    <3>. QED BY <1>3, <3>1, <3>2 DEF Handle
  <2>2. CASE u # s BY <1>3, <2>2, OthersSound
  <2>. QED BY <2>1, <2>2
<1>4. ASSUME NEW s \in Symbol, BarCloses(s)
      PROVE  Sound(u)'
  BY <1>4, BarSound, OthersSound
<1>5. ASSUME \/ \E s \in Symbol : UserExit(s)
             \/ \E o \in orders : Fill(o) \/ Refuse(o)
             \/ \E n \in notices : Notice(n)
             \/ UNCHANGED vars
      PROVE  UNCHANGED <<agent, registry, hand, market, best>>
  BY <1>5 DEF UserExit, Fill, Refuse, Notice, vars
<1>. QED BY <1>1, <1>2, <1>3, <1>4, <1>5 DEF Next

LEMMA InitSound == Init => SInv
<1>. SUFFICES ASSUME Init, NEW s \in Symbol PROVE Sound(s)
  BY InitTypes DEF SInv
<1>1. ~Open(s) /\ ~Waiting(s) BY DEF Init, Open, Waiting, Flat
<1>2. registry[s].exit = lastExit[s] BY DEF Init, NewState
<1>. QED BY <1>1, <1>2 DEF Sound, ResultFits, ExitKnown, MarkTrue, StopHonoured, Going

(* While a tick's result waits to be handled nothing makes it unfit for its position, and the
   exit times, high-water marks and exits of the agent stay what its rules read them as. *)
THEOREM AgentSound == Spec => []SInv
  BY InitSound, StepSound, PTL DEF Spec

(* The exit rules are kept whatever the other instruments' ticks, the goroutines and the
   callbacks do between the evaluation of a tick and its handling. *)
THEOREM StopsKept == Spec => []StopsHonoured
<1>1. SInv => StopsHonoured BY DEF SInv, Sound, StopHonoured, StopsHonoured
<1>. QED BY <1>1, AgentSound, PTL
-----------------------------------------------------------------------------
(* The limits.  Every tick in progress may still send one order, and so may the tick that
   will break the circuit; no tick is begun once the cap is reached. *)
Positions == {s \in Symbol : Open(s)}
Busy == {s \in Symbol : Waiting(s)}

Margin ==
  IF Symbol = {} THEN legs = 0
  ELSE legs + Cardinality(Busy) + (IF circuitBroken THEN 0 ELSE 1) <= LegsToCap + Cardinality(Symbol)

Limits == Cardinality(Positions) <= MaxConcurrentTrades /\ Margin

LEMMA Counted ==
  /\ IsFiniteSet(Symbol) /\ Cardinality(Symbol) \in Nat /\ (Symbol # {} => Cardinality(Symbol) >= 1)
  /\ \A S \in SUBSET Symbol : IsFiniteSet(S) /\ Cardinality(S) \in Nat /\ Cardinality(S) <= Cardinality(Symbol)
<1>1. IsFiniteSet(Symbol) BY AgentAssumption
<1>2. Cardinality(Symbol) \in Nat /\ (Symbol # {} => Cardinality(Symbol) # 0)
  BY <1>1, FS_CardinalityType, FS_EmptySet
<1>3. \A S \in SUBSET Symbol : IsFiniteSet(S) /\ Cardinality(S) \in Nat /\ Cardinality(S) <= Cardinality(Symbol)
  BY <1>1, FS_Subset, FS_CardinalityType
<1>. QED BY <1>1, <1>2, <1>3

(* One more, one less, and no more than before. *)
LEMMA CountSteps ==
  ASSUME NEW S \in SUBSET Symbol, NEW s \in Symbol
  PROVE  /\ Cardinality(S \cup {s}) <= Cardinality(S) + 1
         /\ s \in S => Cardinality(S \ {s}) = Cardinality(S) - 1
         /\ \A U \in SUBSET S : Cardinality(U) <= Cardinality(S)
<1>1. IsFiniteSet(S) /\ Cardinality(S) \in Nat BY Counted
<1>2. Cardinality(S \cup {s}) <= Cardinality(S) + 1 BY <1>1, FS_AddElement
<1>3. s \in S => Cardinality(S \ {s}) = Cardinality(S) - 1 BY <1>1, FS_RemoveElement
<1>4. \A U \in SUBSET S : Cardinality(U) <= Cardinality(S) BY <1>1, FS_Subset
<1>. QED BY <1>2, <1>3, <1>4

(* An exit sends one order at most and opens nothing. *)
LEMMA LiquidateCounts ==
  ASSUME TypeOK, NEW s \in Symbol, NEW t \in Nat, Liquidate(s, t)
  PROVE  legs' \in Nat /\ legs' <= legs + 1 /\ Positions' \subseteq Positions
<1>1. legs' \in Nat /\ legs' <= legs + 1 BY DEF Liquidate, Dispatch, TypeOK
<1>2. CASE ~Open(s) BY <1>1, <1>2 DEF Liquidate, Positions, Open
<1>3. CASE Open(s)
  <2>1. pos' = [pos EXCEPT ![s] = Flat] BY <1>3 DEF Liquidate, Flattened
  <2>2. \A u \in Symbol : Open(u)' => Open(u) BY <2>1, <1>3 DEF Open, TypeOK
  <2>. QED BY <1>1, <2>2 DEF Positions
<1>. QED BY <1>2, <1>3

LEMMA LookLimits ==
  ASSUME TypeOK, Limits, NEW s \in Symbol, NEW tick \in Tick, NEW entry \in EntrySignal, Look(s, tick, entry)
  PROVE  Limits'
<1>1. Busy \in SUBSET Symbol /\ Positions \in SUBSET Symbol /\ s \notin Busy /\ ~circuitBroken
  BY DEF Busy, Positions, Look
<1>2. CASE BreakCircuit(s, tick.time)
  <2>1. tick.time \in Nat BY AgentAssumption
  <2>2. legs' \in Nat /\ legs' <= legs + 1 /\ Positions' \subseteq Positions
    BY <1>2, <2>1, LiquidateCounts DEF BreakCircuit
  <2>3. Cardinality(Positions') <= MaxConcurrentTrades
    <3>1. Cardinality(Positions') <= Cardinality(Positions) BY <1>1, <2>2, CountSteps
    <3>. QED BY <3>1, <1>1, <2>2, Counted, Bounds DEF Limits
  <2>4. Busy' = Busy /\ circuitBroken' BY <1>2 DEF BreakCircuit, Busy, Waiting
  <2>5. Margin' BY <1>1, <2>2, <2>4, Counted, Bounds DEF Limits, Margin, TypeOK
  <2>. QED BY <2>3, <2>5 DEF Limits
<1>3. CASE Evaluate(s, tick, entry)
  <2>1. UNCHANGED <<pos, legs, circuitBroken>> /\ legs < LegsToCap
    BY <1>3, Bounds DEF Evaluate, CapReached, TypeOK
  <2>2. Positions' = Positions BY <2>1 DEF Positions, Open
  <2>3. Busy' \in SUBSET Symbol BY DEF Busy
  <2>4. Cardinality(Busy') \in Nat /\ Cardinality(Busy') <= Cardinality(Symbol) BY <2>3, Counted
  <2>5. Margin' BY <1>1, <2>1, <2>4, Counted, Bounds DEF Margin, TypeOK
  <2>. QED BY <2>2, <2>5 DEF Limits
<1>. QED BY <1>2, <1>3 DEF Look

LEMMA HandleLimits ==
  ASSUME TypeOK, Limits, NEW s \in Symbol, Handle(s)
  PROVE  Limits'
<1>1. Busy \in SUBSET Symbol /\ Positions \in SUBSET Symbol /\ s \in Busy
  BY DEF Busy, Positions, Handle
<1>2. Busy' = Busy \ {s} /\ UNCHANGED circuitBroken
  <2>1. \A u \in Symbol : Waiting(u)' <=> Waiting(u) /\ u # s BY DEF Handle, Waiting, TypeOK
  <2>. QED BY <2>1 DEF Busy, Handle
<1>3. Cardinality(Busy') = Cardinality(Busy) - 1 /\ Cardinality(Busy) \in Nat BY <1>1, <1>2, CountSteps, Counted
<1>4. legs' \in Nat /\ legs' <= legs + 1 /\ Cardinality(Positions') <= MaxConcurrentTrades
  <2>1. Cardinality(Positions) \in Nat BY <1>1, Counted
  <2>2. CASE Exit(s)
    <3>1. last[s].time \in Nat BY LastTime
    <3>2. legs' \in Nat /\ legs' <= legs + 1 /\ Positions' \subseteq Positions
      BY <2>2, <3>1, LiquidateCounts DEF Exit
    <3>3. Cardinality(Positions') <= Cardinality(Positions) BY <1>1, <3>2, CountSteps
    <3>4. Cardinality(Positions') \in Nat BY <1>1, <3>2, Counted
    <3>. QED BY <2>1, <3>2, <3>3, <3>4, Bounds DEF Limits
  <2>3. CASE Enter(s) /\ (Open(s) \/ ~MayEnter(s))
    <3>1. UNCHANGED <<pos, legs>> BY <2>3 DEF Enter
    <3>2. Positions' = Positions BY <3>1 DEF Positions, Open
    <3>. QED BY <3>1, <3>2 DEF Limits, TypeOK
  <2>4. CASE Enter(s) /\ ~(Open(s) \/ ~MayEnter(s))
    <3>1. legs' = legs + 1 /\ \A u \in Symbol \ {s} : pos'[u] = pos[u]
      BY <2>4 DEF Enter, Dispatch, TypeOK
    <3>2. Positions' \in SUBSET (Positions \cup {s}) BY <3>1 DEF Positions, Open
    <3>3. Cardinality(Positions) < MaxConcurrentTrades
      <4>1. {u \in Symbol : synced[u] # 0} \in SUBSET Symbol OBVIOUS
      <4>2. Cardinality({u \in Symbol : synced[u] # 0}) \in Nat BY <4>1, Counted
      <4>3. ActiveTrades < MaxConcurrentTrades BY <2>4 DEF MayEnter
      <4>. HIDE DEF Positions
      <4>4. ActiveTrades = Cardinality(Positions) + Cardinality({u \in Symbol : synced[u] # 0})
        BY DEF ActiveTrades, Positions
      <4>. QED BY <2>1, <4>2, <4>3, <4>4, Bounds
    <3>4. Cardinality(Positions') <= Cardinality(Positions) + 1
      <4>1. Positions \cup {s} \in SUBSET Symbol BY <1>1
      <4>2. Cardinality(Positions \cup {s}) <= Cardinality(Positions) + 1 BY <1>1, CountSteps
      <4>3. Cardinality(Positions') <= Cardinality(Positions \cup {s}) BY <3>2, <4>1, CountSteps
      <4>4. Cardinality(Positions') \in Nat /\ Cardinality(Positions \cup {s}) \in Nat BY <3>2, <4>1, Counted
      <4>. QED BY <2>1, <4>2, <4>3, <4>4
    <3>5. Cardinality(Positions') \in Nat
      <4>1. Positions' \in SUBSET Symbol BY <1>1, <3>2
      <4>. QED BY <4>1, Counted
    <3>. QED BY <2>1, <3>1, <3>3, <3>4, <3>5, Bounds DEF TypeOK
  <2>. QED BY <2>2, <2>3, <2>4 DEF Handle
<1>5. Margin'
  <2>1. CASE Symbol = {} BY <2>1
  <2>2. CASE Symbol # {}
    <3>1. legs + Cardinality(Busy) + (IF circuitBroken THEN 0 ELSE 1) <= LegsToCap + Cardinality(Symbol)
      BY <2>2 DEF Limits, Margin
    <3>. QED BY <1>2, <1>3, <1>4, <2>2, <3>1, Counted, Bounds DEF Margin, TypeOK
  <2>. QED BY <2>1, <2>2
<1>. QED BY <1>4, <1>5 DEF Limits

LEMMA InitLimits == Init => Limits
<1>. SUFFICES ASSUME Init PROVE Limits OBVIOUS
<1>1. Positions = {} /\ Busy = {} BY DEF Init, Positions, Busy, Open, Waiting, Flat
<1>2. Cardinality(Positions) = 0 /\ Cardinality(Busy) = 0 BY <1>1, FS_EmptySet
<1>3. legs = 0 BY DEF Init
<1>. QED BY <1>2, <1>3, Counted, Bounds DEF Limits, Margin

LEMMA StepLimits == TypeOK /\ Limits /\ [Next]_vars => Limits'
<1>. SUFFICES ASSUME TypeOK, Limits, [Next]_vars PROVE Limits' OBVIOUS
<1>1. CASE UNCHANGED <<agent, hand>>
  BY <1>1 DEF agent, Limits, Margin, Positions, Busy, Open, Waiting
<1>2. ASSUME \/ \E s \in Symbol : UserExit(s) \/ BarCloses(s)
             \/ \E o \in orders : Fill(o) \/ Refuse(o)
             \/ \E n \in notices : Notice(n)
             \/ UNCHANGED vars
      PROVE  UNCHANGED <<agent, hand>>
  BY <1>2 DEF UserExit, BarCloses, Fill, Refuse, Notice, vars
<1>. QED BY <1>1, <1>2, LookLimits, HandleLimits DEF Next

(* What an entry has been through, when it is made. *)
LEMMA EntryGuards ==
  ASSUME SInv, [Next]_vars, NEW s \in Symbol, ~Open(s), pos'[s].qty # 0
  PROVE  /\ StartTradingTime <= HM(last[s].time) /\ HM(last[s].time) <= EndTradingTime
         /\ lastExit[s] # 0 => last[s].time - lastExit[s] >= 180
<1>1. \A u \in Symbol, t \in Nat : Liquidate(u, t) => pos'[s] = pos[s] \/ pos'[s] = Flat
  BY DEF Liquidate, Flattened, SInv, TypeOK
<1>2. pos'[s] # pos[s] /\ pos'[s] # Flat BY DEF Open, Flat
<1>3. \A u \in Symbol, t \in Nat : ~Liquidate(u, t) BY <1>1, <1>2
<1>4. PICK u \in Symbol : Handle(u) /\ Enter(u)
  <2>1. \A u \in Symbol, tick \in Tick, entry \in EntrySignal : ~Look(u, tick, entry)
    BY <1>2, <1>3, AgentAssumption DEF Look, BreakCircuit, Evaluate
  <2>2. \A u \in Symbol : ~Exit(u)
    BY <1>3, LastTime DEF Exit, SInv
  <2>3. \E u \in Symbol : Handle(u)
    BY <1>2, <2>1 DEF Next, vars, agent, BarCloses, UserExit, Fill, Refuse, Notice
  <2>. QED BY <2>2, <2>3 DEF Handle
<1>5. u = s BY <1>2, <1>4 DEF Enter, SInv, TypeOK
<1>6. Going(s) BY <1>4, <1>5 DEF Going, Handle, Enter
<1>7. /\ TradingHours(last[s].time) /\ ~CoolingDown(registry[s], last[s].time)
      /\ registry[s].exit = lastExit[s]
  BY <1>6 DEF SInv, Sound, ResultFits, ExitKnown, Going
<1>8. last[s].time \in Nat /\ lastExit[s] \in Nat BY LastTime DEF SInv, TypeOK
<1>. QED BY <1>7, <1>8 DEF TradingHours, CoolingDown

(* However many instruments have a tick in progress, no more positions are open than allowed,
   the cap on the day's charges is overshot by no more than a leg per instrument, whoever
   is still in progress when it is reached, and every entry is made in trading hours and
   three minutes after the exit before it. *)
THEOREM LimitsKept == Spec => LimitsHold
<1>1. Limits /\ TypeOK => Cardinality({s \in Symbol : Open(s)}) <= MaxConcurrentTrades /\ Overshoot
  <2>. SUFFICES ASSUME Limits, TypeOK
                PROVE  Cardinality({s \in Symbol : Open(s)}) <= MaxConcurrentTrades /\ Overshoot
    OBVIOUS
  <2>1. Symbol = {} => legs = 0 /\ ~(legs >= LegsToCap) BY AgentAssumption DEF Limits, Margin
  <2>. QED BY <2>1 DEF Limits, Positions, Margin, Overshoot, Busy
<1>2. SInv /\ [Next]_vars =>
        [\A s \in Symbol : ~Open(s) /\ pos'[s].qty # 0 =>
          /\ StartTradingTime <= HM(last[s].time) /\ HM(last[s].time) <= EndTradingTime
          /\ lastExit[s] # 0 => last[s].time - lastExit[s] >= 180]_vars
  BY EntryGuards
<1>3. Spec => []Limits BY InitLimits, StepLimits, TypeCorrect, PTL DEF Spec
<1>. QED BY <1>1, <1>2, <1>3, TypeCorrect, AgentSound, PTL DEF Spec, LimitsHold
-----------------------------------------------------------------------------
(* The books.  The orders under way lead from what the order manager holds to what the agent
   believes: an account of an instrument takes in its orders one leg after the other.  Legs
   are what keeps two equal orders apart. *)
OneLeg == \A o, p \in orders : o.leg = p.leg => o = p

Account(s, acc) ==
  /\ acc[0] = net[s] /\ acc[legs] = Signed(pos[s])
  /\ \A i \in 1 .. legs :
       /\ \A o \in orders : o.symbol = s /\ o.leg = i => acc[i] = acc[i - 1] + o.delta
       /\ (\A o \in orders : o.symbol = s => o.leg # i) => acc[i] = acc[i - 1]

Accounted(s) == \E acc \in [0 .. legs -> Int] : Account(s, acc)
Books == OneLeg /\ (surprises = 0 => \A s \in Symbol : Accounted(s))

(* A set of natural numbers that is not empty has a least element. *)
LEMMA LeastNatural ==
  ASSUME NEW T \in SUBSET Nat, T # {}
  PROVE  \E m \in T : \A k \in T : m <= k
<1> DEFINE R == {p \in Nat \X Nat : p[1] < p[2]}
<1>1. IsWellFoundedOn(R, Nat) BY NatLessThanWellFounded DEF OpToRel
<1>2. PICK m \in T : \A k \in T : <<k, m>> \notin R BY <1>1, WFMin
<1>3. \A k \in T : ~(k < m) BY <1>2
<1>. QED BY <1>3

(* An account without orders under way stands still. *)
LEMMA AccountStandsStill ==
  ASSUME NEW n \in Nat, NEW acc \in [0 .. n -> Int], \A i \in 1 .. n : acc[i] = acc[i - 1]
  PROVE  acc[n] = acc[0]
<1> DEFINE T == {i \in 0 .. n : acc[i] # acc[0]}
<1>. SUFFICES ASSUME T # {} PROVE FALSE OBVIOUS
<1>1. PICK m \in T : \A k \in T : m <= k
  <2>1. T \in SUBSET Nat OBVIOUS
  <2>. HIDE DEF T
  <2>. QED BY <2>1, LeastNatural
<1>2. m \in 1 .. n /\ acc[m] # acc[0] BY <1>1
<1>3. m - 1 \in 0 .. n /\ m - 1 \notin T
  <2>1. m - 1 \in 0 .. n /\ ~(m <= m - 1) BY <1>2
  <2>. QED BY <1>1, <2>1
<1>. QED BY <1>2, <1>3

LEMMA SignedType ==
  ASSUME NEW p \in [qty : Nat, side : Side, avg : Nat]
  PROVE  Signed(p) \in Int
<1>1. p.qty \in Nat OBVIOUS
<1>. QED BY <1>1 DEF Signed

(* An order that is sent makes up for the change of the position it is sent for. *)
LEMMA DispatchAccounts ==
  ASSUME TypeOK, Books, NEW s \in Symbol, NEW delta \in Int, Dispatch(s, delta),
         UNCHANGED <<net, surprises>>, Signed(pos'[s]) = Signed(pos[s]) + delta,
         \A u \in Symbol \ {s} : pos'[u] = pos[u]
  PROVE  Books'
<1> DEFINE o == [symbol |-> s, leg |-> legs + 1, delta |-> delta]
<1>1. legs \in Nat /\ legs' = legs + 1 /\ orders' = orders \cup {o} BY DEF TypeOK, Dispatch
<1>2. \A p \in orders : p.leg \in 1 .. legs /\ p.delta \in Int BY DEF TypeOK
<1>3. OneLeg' BY <1>1, <1>2 DEF Books, OneLeg
<1>4. ASSUME NEW u \in Symbol, Accounted(u) PROVE Accounted(u)'
  <2>1. PICK acc \in [0 .. legs -> Int] : Account(u, acc) BY <1>4 DEF Accounted
  <2> DEFINE d == IF u = s THEN delta ELSE 0
             acc1 == [i \in 0 .. legs' |-> IF i <= legs THEN acc[i] ELSE acc[legs] + d]
  <2>2. d \in Int OBVIOUS
  <2>3. acc1 \in [0 .. legs' -> Int] BY <1>1, <2>2
  <2>4. acc1[0] = net'[u] BY <1>1, <2>1 DEF Account
  <2>5. Signed(pos'[u]) = Signed(pos[u]) + d
    <3>1. Signed(pos[u]) \in Int BY SignedType DEF TypeOK
    <3>. QED BY <3>1
  <2>6. acc1[legs'] = Signed(pos'[u])
    <3>1. acc1[legs'] = acc[legs] + d BY <1>1
    <3>. QED BY <2>1, <2>5, <3>1 DEF Account
  <2>7. ASSUME NEW i \in 1 .. legs'
        PROVE  /\ \A p \in orders' : p.symbol = u /\ p.leg = i => acc1[i] = acc1[i - 1] + p.delta
               /\ (\A p \in orders' : p.symbol = u => p.leg # i) => acc1[i] = acc1[i - 1]
    <3>1. CASE i \in 1 .. legs
      <4>1. acc1[i] = acc[i] /\ acc1[i - 1] = acc[i - 1] BY <1>1, <3>1
      <4>2. o.leg # i BY <1>1, <3>1
      <4>. QED BY <1>1, <2>1, <3>1, <4>1, <4>2 DEF Account
    <3>2. CASE i = legs + 1
      <4>1. acc1[i] = acc[legs] + d /\ acc1[i - 1] = acc[legs] /\ acc[legs] \in Int BY <1>1, <3>2
      <4>2. \A p \in orders' : p.leg = i => p = o BY <1>1, <1>2, <3>2
      <4>3. o \in orders' /\ o.leg = i /\ o.symbol = s /\ o.delta = delta BY <1>1, <3>2
      <4>4. ASSUME NEW p \in orders', p.symbol = u, p.leg = i PROVE acc1[i] = acc1[i - 1] + p.delta
        <5>1. p = o BY <4>2, <4>4
        <5>2. u = s /\ d = delta BY <4>3, <4>4, <5>1
        <5>. QED BY <4>1, <4>3, <5>1, <5>2
      <4>5. ASSUME \A p \in orders' : p.symbol = u => p.leg # i PROVE acc1[i] = acc1[i - 1]
        <5>1. u # s BY <4>3, <4>5
        <5>2. d = 0 BY <5>1
        <5>. QED BY <4>1, <5>2
      <4>. QED BY <4>4, <4>5
    <3>. QED BY <1>1, <3>1, <3>2
  <2>. HIDE DEF acc1
  <2>8. \E a \in [0 .. legs' -> Int] :
         /\ a[0] = net'[u] /\ a[legs'] = Signed(pos'[u])
         /\ \A i \in 1 .. legs' :
              /\ \A p \in orders' : p.symbol = u /\ p.leg = i => a[i] = a[i - 1] + p.delta
              /\ (\A p \in orders' : p.symbol = u => p.leg # i) => a[i] = a[i - 1]
    BY <2>3, <2>4, <2>6, <2>7
  <2>. QED BY <2>8 DEF Accounted, Account
<1>. QED BY <1>3, <1>4 DEF Books

(* An order that is filled moves the start of its instrument's account by what it adds. *)
LEMMA FillAccounts ==
  ASSUME TypeOK, Books, NEW o \in orders, Fill(o)
  PROVE  Books'
<1>1. o.symbol \in Symbol /\ o.leg \in 1 .. legs /\ o.delta \in Int /\ legs \in Nat BY DEF TypeOK
<1>2. /\ orders' = orders \ {o} /\ net' = [net EXCEPT ![o.symbol] = @ + o.delta]
      /\ UNCHANGED <<pos, legs, surprises>>
  BY DEF Fill, agent
<1>3. OneLeg' BY <1>2 DEF Books, OneLeg
<1>4. ASSUME NEW u \in Symbol, Accounted(u), u # o.symbol PROVE Accounted(u)'
  <2>1. PICK acc \in [0 .. legs -> Int] : Account(u, acc) BY <1>4 DEF Accounted
  <2>2. net'[u] = net[u] BY <1>1, <1>2, <1>4 DEF TypeOK
  <2>3. \A p : p.symbol = u => (p \in orders' <=> p \in orders) BY <1>2, <1>4
  <2>4. Account(u, acc)' BY <1>2, <2>1, <2>2, <2>3 DEF Account
  <2>. QED BY <1>2, <2>4 DEF Accounted
<1>5. ASSUME NEW u \in Symbol, Accounted(u), u = o.symbol PROVE Accounted(u)'
  <2>1. PICK acc \in [0 .. legs -> Int] : Account(u, acc) BY <1>5 DEF Accounted
  <2> DEFINE acc1 == [i \in 0 .. legs |-> IF i < o.leg THEN acc[i] + o.delta ELSE acc[i]]
  <2>2. acc1 \in [0 .. legs -> Int] BY <1>1
  <2>3. acc1[0] = net'[u]
    <3>1. net'[u] = net[u] + o.delta BY <1>2, <1>5 DEF TypeOK
    <3>2. acc1[0] = acc[0] + o.delta BY <1>1
    <3>. QED BY <2>1, <3>1, <3>2 DEF Account
  <2>4. acc1[legs] = Signed(pos[u]) BY <1>1, <2>1 DEF Account
  <2>5. ASSUME NEW i \in 1 .. legs
        PROVE  /\ \A p \in orders' : p.symbol = u /\ p.leg = i => acc1[i] = acc1[i - 1] + p.delta
               /\ (\A p \in orders' : p.symbol = u => p.leg # i) => acc1[i] = acc1[i - 1]
    <3>1. CASE i = o.leg
      <4>1. \A p \in orders' : p.leg # i BY <1>2, <3>1 DEF Books, OneLeg
      <4>2. acc[i] = acc[i - 1] + o.delta BY <1>5, <2>1, <3>1 DEF Account
      <4>3. acc1[i] = acc[i] /\ acc1[i - 1] = acc[i - 1] + o.delta BY <1>1, <3>1
      <4>. QED BY <4>1, <4>2, <4>3
    <3>2. CASE i # o.leg
      <4>1. /\ \A p \in orders : p.symbol = u /\ p.leg = i => acc[i] = acc[i - 1] + p.delta
            /\ (\A p \in orders : p.symbol = u => p.leg # i) => acc[i] = acc[i - 1]
        BY <2>1 DEF Account
      <4>2. \A p : p.leg = i => (p \in orders' <=> p \in orders) BY <1>2, <3>2
      <4>3. \A p \in orders : p.delta \in Int BY DEF TypeOK
      <4>4. \/ acc1[i] = acc[i] + o.delta /\ acc1[i - 1] = acc[i - 1] + o.delta
            \/ acc1[i] = acc[i] /\ acc1[i - 1] = acc[i - 1]
        <5>1. i - 1 \in 0 .. legs /\ i \in 0 .. legs BY <1>1
        <5>2. CASE i < o.leg
          <6>1. i - 1 < o.leg BY <1>1, <5>2
          <6>. QED BY <5>1, <5>2, <6>1
        <5>3. CASE i > o.leg
          <6>1. ~(i < o.leg) /\ ~(i - 1 < o.leg) BY <1>1, <5>3
          <6>. QED BY <5>1, <6>1
        <5>. QED BY <1>1, <3>2, <5>2, <5>3
      <4>5. acc[i] \in Int /\ acc[i - 1] \in Int BY <1>1
      <4>. HIDE DEF acc1
      <4>6. ASSUME NEW p \in orders', p.symbol = u, p.leg = i PROVE acc1[i] = acc1[i - 1] + p.delta
        <5>1. acc[i] = acc[i - 1] + p.delta /\ p.delta \in Int BY <4>1, <4>2, <4>3, <4>6
        <5>. QED BY <1>1, <4>4, <4>5, <5>1
      <4>7. ASSUME \A p \in orders' : p.symbol = u => p.leg # i PROVE acc1[i] = acc1[i - 1]
        <5>1. acc[i] = acc[i - 1] BY <4>1, <4>2, <4>7
        <5>. QED BY <4>4, <5>1
      <4>. QED BY <4>6, <4>7
    <3>. QED BY <3>1, <3>2
  <2>. HIDE DEF acc1
  <2>6. \E a \in [0 .. legs' -> Int] :
         /\ a[0] = net'[u] /\ a[legs'] = Signed(pos'[u])
         /\ \A i \in 1 .. legs' :
              /\ \A p \in orders' : p.symbol = u /\ p.leg = i => a[i] = a[i - 1] + p.delta
              /\ (\A p \in orders' : p.symbol = u => p.leg # i) => a[i] = a[i - 1]
    BY <1>2, <2>2, <2>3, <2>4, <2>5
  <2>. QED BY <2>6 DEF Accounted, Account
<1>. QED BY <1>2, <1>3, <1>4, <1>5 DEF Books

LEMMA LiquidateAccounts ==
  ASSUME TypeOK, Books, NEW s \in Symbol, NEW t \in Nat, Liquidate(s, t), UNCHANGED <<net, surprises>>
  PROVE  Books'
<1>1. CASE ~Open(s)
  BY <1>1 DEF Liquidate, Books, OneLeg, Accounted, Account
<1>2. CASE Open(s)
  <2>1. Signed(pos[s]) \in Int BY SignedType DEF TypeOK
  <2>2. Dispatch(s, -Signed(pos[s])) /\ pos' = [pos EXCEPT ![s] = Flat]
    BY <1>2 DEF Liquidate, Flattened, ExitDelta
  <2>3. pos'[s] = Flat /\ \A u \in Symbol \ {s} : pos'[u] = pos[u] BY <2>2 DEF TypeOK
  <2>4. Signed(pos'[s]) = 0 BY <2>3 DEF Signed, Flat
  <2>5. -Signed(pos[s]) \in Int /\ Signed(pos'[s]) = Signed(pos[s]) + (-Signed(pos[s])) BY <2>1, <2>4
  <2>. QED BY <2>2, <2>3, <2>5, DispatchAccounts
<1>. QED BY <1>1, <1>2

LEMMA EnterAccounts ==
  ASSUME TypeOK, Books, NEW s \in Symbol, Handle(s), Enter(s)
  PROVE  Books'
<1> DEFINE qty == BuyingPower \div last[s].price
           p == [qty |-> qty, side |-> IF hand[s].signal = "GO_LONG" THEN "LONG" ELSE "SHORT", avg |-> last[s].price]
<1>1. UNCHANGED <<net, surprises>> BY DEF Handle, broker
<1>2. CASE Open(s) \/ ~MayEnter(s)
  BY <1>1, <1>2 DEF Enter, Books, OneLeg, Accounted, Account
<1>3. CASE ~(Open(s) \/ ~MayEnter(s))
  <2>1. qty \in Nat BY <1>3, LastTime, Bounds DEF MayEnter
  <2>2. Signed(p) \in Int BY <2>1 DEF Signed
  <2>3. Signed(pos[s]) = 0 BY <1>3 DEF Open, Signed, TypeOK
  <2>4. pos' = [pos EXCEPT ![s] = p] /\ Dispatch(s, Signed(p)) BY <1>3 DEF Enter
  <2>. HIDE DEF p
  <2>5. pos'[s] = p /\ \A u \in Symbol \ {s} : pos'[u] = pos[u] BY <2>4 DEF TypeOK
  <2>6. Signed(pos'[s]) = Signed(pos[s]) + Signed(p) BY <2>2, <2>3, <2>5
  <2>. QED BY <1>1, <2>2, <2>4, <2>5, <2>6, DispatchAccounts
<1>. QED BY <1>2, <1>3

LEMMA StepBooks == TypeOK /\ Books /\ [Next]_vars => Books'
<1>. SUFFICES ASSUME TypeOK, Books, [Next]_vars PROVE Books' OBVIOUS
<1>1. CASE UNCHANGED <<pos, legs, orders, net, surprises>>
  BY <1>1 DEF Books, OneLeg, Accounted, Account
<1>2. ASSUME NEW s \in Symbol, NEW tick \in Tick, NEW entry \in EntrySignal, Look(s, tick, entry)
      PROVE  Books'
  <2>1. UNCHANGED <<net, surprises>> /\ tick.time \in Nat BY <1>2, AgentAssumption DEF Look, broker
  <2>2. CASE BreakCircuit(s, tick.time) BY <2>1, <2>2, LiquidateAccounts DEF BreakCircuit
  <2>3. CASE Evaluate(s, tick, entry) BY <1>1, <2>1, <2>3 DEF Evaluate
  <2>. QED BY <1>2, <2>2, <2>3 DEF Look
<1>3. ASSUME NEW s \in Symbol, Handle(s)
      PROVE  Books'
  <2>1. UNCHANGED <<net, surprises>> /\ last[s].time \in Nat BY <1>3, LastTime DEF Handle, broker
  <2>2. CASE Exit(s) BY <2>1, <2>2, LiquidateAccounts DEF Exit
  <2>. QED BY <1>3, <2>2, EnterAccounts DEF Handle
<1>4. ASSUME (\E o \in orders : Refuse(o)) \/ (\E s \in Symbol : UserExit(s))
      PROVE  Books'
  <2>1. surprises' # 0 BY <1>4, Bounds DEF Refuse, UserExit, TypeOK
  <2>2. orders' \subseteq orders BY <1>4 DEF Refuse, UserExit
  <2>. QED BY <2>1, <2>2 DEF Books, OneLeg
<1>5. ASSUME \/ \E s \in Symbol : BarCloses(s)
             \/ \E n \in notices : Notice(n)
             \/ UNCHANGED vars
      PROVE  UNCHANGED <<pos, legs, orders, net, surprises>>
  BY <1>5 DEF BarCloses, Notice, vars, agent, broker
<1>. QED BY <1>1, <1>2, <1>3, <1>4, <1>5, FillAccounts DEF Next

LEMMA InitBooks == Init => Books
<1>. SUFFICES ASSUME Init PROVE Books OBVIOUS
<1>1. orders = {} /\ legs = 0 BY DEF Init
<1>2. ASSUME NEW s \in Symbol PROVE Accounted(s)
  <2> DEFINE acc == [i \in 0 .. 0 |-> 0]
  <2>1. acc \in [0 .. legs -> Int] /\ acc[0] = 0 BY <1>1
  <2>2. net[s] = 0 /\ Signed(pos[s]) = 0 BY DEF Init, Signed, Flat
  <2>3. 1 .. legs = {} BY <1>1
  <2>. HIDE DEF acc
  <2>4. Account(s, acc) BY <1>1, <2>1, <2>2, <2>3 DEF Account
  <2>. QED BY <2>1, <2>4 DEF Accounted
<1>. QED BY <1>1, <1>2 DEF Books, OneLeg

(* When the orders sent for an instrument have all been filled, in whatever order, the order
   manager holds what the agent believes, unless an order was refused or a user has
   intervened. *)
THEOREM BooksKept == Spec => []BooksAgree
<1>1. TypeOK /\ Books => BooksAgree
  <2>. SUFFICES ASSUME TypeOK, Books, surprises = 0, NEW s \in Symbol, \A o \in orders : o.symbol # s
                PROVE  net[s] = Signed(pos[s])
    BY DEF BooksAgree
  <2>1. PICK acc \in [0 .. legs -> Int] : Account(s, acc) BY DEF Books, Accounted
  <2>2. legs \in Nat /\ \A i \in 1 .. legs : acc[i] = acc[i - 1] BY <2>1 DEF Account, TypeOK
  <2>3. acc[legs] = acc[0] BY <2>2, AccountStandsStill
  <2>. QED BY <2>1, <2>3 DEF Account
<1>2. Spec => []Books BY InitBooks, StepBooks, TypeCorrect, PTL DEF Spec
<1>. QED BY <1>1, <1>2, TypeCorrect, PTL
=============================================================================
