------------------------------ MODULE RiskManager ------------------------------
(***************************************************************************)
(* The agent: risk/risk_manager.go and risk/helpers.go over the strategy   *)
(* engine and an order manager.                                            *)
(*                                                                         *)
(* A tick of an instrument runs under the lock of its token.  It reads the *)
(* agent's position and evaluates the strategy (Look), and acts on the     *)
(* result in a second critical section (Handle); ticks of other            *)
(* instruments come in between.  Orders are sent by goroutines, so they    *)
(* arrive in any order; the order manager's callback runs in one too.      *)
(*                                                                         *)
(* agentPositions has two keys per instrument: pos is the one ticks use,   *)
(* synced the one the callback writes.  A position whose side is FLAT has  *)
(* quantity 0.  Charges are counted in legs: the brokerage is capped and   *)
(* the capital per stock fixed, so legs cost about the same, and           *)
(* LegsToCap of them reach MaxDailyLossAllowed; dailyRealized is never     *)
(* assigned.                                                               *)
(***************************************************************************)
EXTENDS StrategyEngine, FiniteSets

CONSTANTS Symbol,
          Tick,                 (* times and prices of ticks                *)
          EntrySignal,          (* what CheckEntry may say                  *)
          MaxConcurrentTrades,
          BuyingPower,          (* leveraged capital per stock: 90000       *)
          LegsToCap,
          MaxTicks, MaxBars,    (* bounds: ticks, closed bars               *)
          MaxSurprises          (* bound: refused orders and manual exits   *)

ASSUME AgentAssumption ==
  /\ IsFiniteSet(Symbol) /\ Tick \subseteq [time : Nat \ {0}, price : Nat]
  /\ EntrySignal \subseteq {"HOLD", "GO_LONG", "GO_SHORT"}
  /\ {MaximumTradesCount, MaxConcurrentTrades, BuyingPower, MaxTicks, MaxBars, MaxSurprises} \subseteq Nat
  /\ LegsToCap \in Nat \ {0}

VARIABLES pos,           (* agentPositions[symbol]                          *)
          synced,        (* quantity of agentPositions["symbol:MIS"]        *)
          lastExit,      (* lastExitTime, 0 for none                        *)
          legs,          (* dailyChargesPaid                                *)
          circuitBroken,
          registry,      (* the engine's states                             *)
          hand,          (* results that wait for Handle                    *)
          orders,        (* orders in the hands of goroutines               *)
          net,           (* net positions of the order manager              *)
          notices,       (* its callbacks under way                         *)
          last,          (* the last tick of each instrument                *)
          ticks, bars, surprises,
          best           (* observation: best PnL of a tick since the entry *)
                         (* or the last closed bar                          *)

agent == <<pos, lastExit, legs, circuitBroken>>
market == <<last, ticks, bars>>
broker == <<net, notices, surprises>>
vars == <<agent, synced, registry, hand, orders, broker, market, best>>

Flat == [qty |-> 0, side |-> "FLAT", avg |-> 0]
Nothing == [signal |-> "HOLD", state |-> NewState]
None == [time |-> 0, price |-> 0]

State == [phase : {"NEUTRAL", "ACTIVE_TRADE"}, side : Side, avg : Nat, peak : Nat, entry : Nat, exit : Nat, trades : Nat]

TypeOK ==
  /\ pos \in [Symbol -> [qty : Nat, side : Side, avg : Nat]]
  /\ \A s \in Symbol : pos[s].qty = 0 <=> pos[s].side = "FLAT"
  /\ synced \in [Symbol -> Int] /\ net \in [Symbol -> Int]
  /\ lastExit \in [Symbol -> Nat] /\ legs \in Nat /\ circuitBroken \in BOOLEAN
  /\ registry \in [Symbol -> State]
  /\ hand \in [Symbol -> [signal : {"HOLD", "EXIT", "GO_LONG", "GO_SHORT"}, state : State]]
  /\ orders \subseteq [symbol : Symbol, leg : 1 .. legs, delta : Int]
  /\ notices \subseteq Symbol \X Int
  /\ last \in [Symbol -> Tick \cup {None}]
  /\ ticks \in 0 .. MaxTicks /\ bars \in 0 .. MaxBars /\ surprises \in 0 .. MaxSurprises
  /\ best \in [Symbol -> Nat]

Init ==
  /\ pos = [s \in Symbol |-> Flat] /\ synced = [s \in Symbol |-> 0]
  /\ lastExit = [s \in Symbol |-> 0] /\ legs = 0 /\ circuitBroken = FALSE
  /\ registry = [s \in Symbol |-> NewState] /\ hand = [s \in Symbol |-> Nothing]
  /\ orders = {} /\ net = [s \in Symbol |-> 0] /\ notices = {}
  /\ last = [s \in Symbol |-> None]
  /\ ticks = 0 /\ bars = 0 /\ surprises = 0 /\ best = [s \in Symbol |-> 0]
-----------------------------------------------------------------------------
Waiting(s) == hand[s] # Nothing
Open(s) == pos[s].qty # 0
Signed(p) == IF p.side = "SHORT" THEN -p.qty ELSE p.qty

(* go rm.orderManager.PlaceOrder, and the charges of the leg. *)
Dispatch(s, delta) ==
  /\ legs' = legs + 1
  /\ orders' = orders \cup {[symbol |-> s, leg |-> legs + 1, delta |-> delta]}

(* Mutant of ExitDelta: the exit has the side of the entry. *)
SameDelta(p) == Signed(p)
ExitDelta(p) == -Signed(p)

(* Mutant of Flattened: the side stays. *)
QuantityOnly(p) == [p EXCEPT !.qty = 0]
Flattened(p) == Flat

(* executeBrokerOrder *)
Liquidate(s, t) ==
  IF ~Open(s) THEN UNCHANGED <<pos, lastExit, legs, orders>>
  ELSE /\ Dispatch(s, ExitDelta(pos[s]))
       /\ lastExit' = [lastExit EXCEPT ![s] = t]
       /\ pos' = [pos EXCEPT ![s] = Flattened(@)]

(* Mutant of CapReached: the leg that reaches the cap is let through. *)
CapPassed == legs > LegsToCap
(* The drawdown check, which breaks the circuit. *)
CapReached == legs >= LegsToCap

BreakCircuit(s, t) ==
  /\ CapReached
  /\ circuitBroken' = TRUE
  /\ Liquidate(s, t)
  /\ UNCHANGED <<registry, hand, best>>

(* The first half of ProcessSequentialTick: the strategy evaluates the position. *)
Evaluate(s, tick, entry) ==
  LET p == pos[s]
      evaluation == UpdateContext(registry[s], tick.time, tick.price, p.side, p.avg, p.qty, entry) IN
  /\ ~CapReached
  /\ registry' = [registry EXCEPT ![s] = evaluation.kept]
  /\ hand' = [hand EXCEPT ![s] = IF evaluation.result.signal = "HOLD" THEN Nothing ELSE evaluation.result]
  /\ best' = [best EXCEPT ![s] = IF Open(s) THEN Max({@, PnL(p.side, p.avg, p.qty, tick.price)}) ELSE 0]
  /\ UNCHANGED <<pos, lastExit, legs, circuitBroken, orders>>

(* A tick begins; once the circuit is broken it does nothing. *)
Look(s, tick, entry) ==
  /\ ~circuitBroken /\ ~Waiting(s)
  /\ ticks < MaxTicks /\ ticks' = ticks + 1
  /\ tick.time >= last[s].time /\ last' = [last EXCEPT ![s] = tick]
  /\ BreakCircuit(s, tick.time) \/ Evaluate(s, tick, entry)
  /\ UNCHANGED <<synced, broker, bars>>
-----------------------------------------------------------------------------
(* An exit is committed and sent. *)
Exit(s) ==
  /\ hand[s].signal = "EXIT"
  /\ IF Open(s) THEN registry' = [registry EXCEPT ![s] = Exited(hand[s].state, last[s].time)]
     ELSE UNCHANGED registry
  /\ Liquidate(s, last[s].time)
  /\ UNCHANGED best

(* Positions that count towards the limit: both keys of an instrument do. *)
ActiveTrades == Cardinality({s \in Symbol : Open(s)}) + Cardinality({s \in Symbol : synced[s] # 0})

(* The guards of an entry. *)
MayEnter(s) ==
  /\ ActiveTrades < MaxConcurrentTrades
  /\ lastExit[s] # 0 => last[s].time - lastExit[s] >= 5
  /\ last[s].price > 0 /\ BuyingPower \div last[s].price > 0

(* An entry takes its position, is committed and sent, unless a guard refuses it. *)
Enter(s) ==
  LET qty == BuyingPower \div last[s].price
      p == [qty |-> qty, side |-> IF hand[s].signal = "GO_LONG" THEN "LONG" ELSE "SHORT", avg |-> last[s].price] IN
  /\ hand[s].signal \in {"GO_LONG", "GO_SHORT"}
  /\ IF Open(s) \/ ~MayEnter(s) THEN UNCHANGED <<pos, legs, orders, registry, best>>
     ELSE /\ pos' = [pos EXCEPT ![s] = p]
          /\ Dispatch(s, Signed(p))
          /\ registry' = [registry EXCEPT ![s] = Entered(hand[s].state, last[s].time)]
          /\ best' = [best EXCEPT ![s] = 0]
  /\ UNCHANGED lastExit

(* The second half of ProcessSequentialTick. *)
Handle(s) ==
  /\ Waiting(s) /\ hand' = [hand EXCEPT ![s] = Nothing]
  /\ Exit(s) \/ Enter(s)
  /\ UNCHANGED <<circuitBroken, synced, broker, market>>

(* IngestClosedBar, under the token lock before a tick of the instrument. *)
BarCloses(s) ==
  /\ ~Waiting(s) /\ last[s] # None
  /\ bars < MaxBars /\ bars' = bars + 1
  /\ registry' = [registry EXCEPT ![s] = WithBar(@, last[s].price)]
  /\ best' = [best EXCEPT ![s] = 0]
  /\ UNCHANGED <<agent, synced, hand, orders, broker, last, ticks>>
-----------------------------------------------------------------------------
(* The order manager fills an order and calls back; what it reports is the net position. *)
Fill(o) ==
  /\ orders' = orders \ {o}
  /\ net' = [net EXCEPT ![o.symbol] = @ + o.delta]
  /\ notices' = notices \cup {<<o.symbol, net'[o.symbol]>>}
  /\ UNCHANGED <<agent, synced, registry, hand, surprises, market, best>>

(* The order is refused, which nobody notices. *)
Refuse(o) ==
  /\ surprises < MaxSurprises /\ surprises' = surprises + 1
  /\ orders' = orders \ {o}
  /\ UNCHANGED <<agent, synced, registry, hand, net, notices, market, best>>

(* A user exits the position. *)
UserExit(s) ==
  /\ surprises < MaxSurprises /\ surprises' = surprises + 1
  /\ net[s] # 0 /\ net' = [net EXCEPT ![s] = 0]
  /\ notices' = notices \cup {<<s, 0>>}
  /\ UNCHANGED <<agent, synced, registry, hand, orders, market, best>>

(* HandleManualAndBrokerStateSync *)
Notice(n) ==
  /\ notices' = notices \ {n}
  /\ synced' = [synced EXCEPT ![n[1]] = n[2]]
  /\ UNCHANGED <<agent, registry, hand, orders, net, surprises, market, best>>

Next ==
  \/ \E s \in Symbol, tick \in Tick, entry \in EntrySignal : Look(s, tick, entry)
  \/ \E s \in Symbol : Handle(s) \/ BarCloses(s) \/ UserExit(s)
  \/ \E o \in orders : Fill(o) \/ Refuse(o)
  \/ \E n \in notices : Notice(n)

Spec == Init /\ [][Next]_vars
-----------------------------------------------------------------------------
(* A position that is left open after a tick of its instrument is one that no rule closes:
   its profit is above the floor that its best tick has earned, and it is not yet 15:15.
   Exceptions: the best tick is forgotten whenever a bar closes; after 15:00 no stop is
   looked at; the circuit breaker leaves the other instruments' positions to themselves. *)
StopsHonoured ==
  \A s \in Symbol : Open(s) /\ ~Waiting(s) /\ ~circuitBroken =>
    /\ HM(last[s].time) < ForceExitTime
    /\ HM(last[s].time) <= EndTradingTime =>
         ~Stopped(PnL(pos[s].side, pos[s].avg, pos[s].qty, last[s].price), best[s])

(* In whatever order the goroutines deliver the orders, when all have arrived the order
   manager holds what the agent believes.  Exceptions: a refused order and a manual exit,
   which the agent never learns of. *)
BooksAgree ==
  surprises = 0 => \A s \in Symbol :
    (\A o \in orders : o.symbol # s) => net[s] = Signed(pos[s])

(* The limits hold though ticks of several instruments are in progress:
     - no more than MaxConcurrentTrades positions are open;
     - once the charges have reached the daily cap, every tick still in progress adds a leg
       at most and the tick that breaks the circuit one more, so that the cap is overshot
       by no more than a leg per instrument;
     - an entry is in trading hours and three minutes after the last exit.
   The cap is one of charges alone: the comment at risk_manager.go:70 speaks of net PnL,
   but dailyRealized stays 0, and losses of trades never break the circuit. *)
Overshoot ==
  legs >= LegsToCap =>
    legs + Cardinality({s \in Symbol : Waiting(s)}) + (IF circuitBroken THEN 0 ELSE 1)
      <= LegsToCap + Cardinality(Symbol)
LimitsHold ==
  /\ [](Cardinality({s \in Symbol : Open(s)}) <= MaxConcurrentTrades /\ Overshoot)
  /\ [][\A s \in Symbol : ~Open(s) /\ pos'[s].qty # 0 =>
          /\ StartTradingTime <= HM(last[s].time) /\ HM(last[s].time) <= EndTradingTime
          /\ lastExit[s] # 0 => last[s].time - lastExit[s] >= 180]_vars
=============================================================================
