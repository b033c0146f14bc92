-------------------------- MODULE StreamManagerProofs --------------------------
(***************************************************************************)
(* The stream manager, for any tokens, number of processors, room in the   *)
(* channels and length of the stream: its types, the order in which the    *)
(* ticks of a token are processed, what is complete when done is closed,   *)
(* the silence after Stop, and that it implements TickDelivery.            *)
(***************************************************************************)
EXTENDS StreamManager, Integers, SequenceTheorems, TLAPS

(* Channels are sequences; the two operations on them. *)
LEMMA Sent ==
  ASSUME NEW S, NEW s \in Seq(S), NEW e \in S
  PROVE  /\ Append(s, e) \in Seq(S) /\ Len(s) \in Nat /\ Len(Append(s, e)) = Len(s) + 1
         /\ DOMAIN s = 1 .. Len(s) /\ DOMAIN Append(s, e) = 1 .. Len(s) + 1
         /\ \A i \in 1 .. Len(s) : Append(s, e)[i] = s[i] /\ s[i] \in S
         /\ Append(s, e)[Len(s) + 1] = e
  OBVIOUS

LEMMA Taken ==
  ASSUME NEW S, NEW s \in Seq(S), s # <<>>
  PROVE  /\ Len(s) \in Nat \ {0} /\ DOMAIN s = 1 .. Len(s)
         /\ Head(s) = s[1] /\ Head(s) \in S
         /\ Tail(s) \in Seq(S) /\ Len(Tail(s)) = Len(s) - 1 /\ DOMAIN Tail(s) = 1 .. Len(s) - 1
         /\ \A i \in 1 .. Len(s) - 1 : Tail(s)[i] = s[i + 1]
  OBVIOUS

LEMMA Constants ==
  /\ Token \subseteq Nat /\ Processors \in Nat \ {0} /\ Cap \in Nat \ {0} /\ MaxTicks \in Nat
  /\ 0 \in Worker
  BY StreamAssumption DEF Worker
-----------------------------------------------------------------------------
(* Type correctness. *)
LEMMA InitTypes == Init => TypeOK
<1>. SUFFICES ASSUME Init PROVE TypeOK OBVIOUS
<1>1. /\ kind \in {"backtest", "live"}
      /\ start \in {"no", "connected", "workers", "started", "failed"}
      /\ stop \in {"no", "waiting", "returned"} /\ reader \in {"off", "query", "reading", "done"}
  BY DEF Init
<1>2. /\ cancelled \in BOOLEAN /\ sourceClosed \in BOOLEAN /\ workersClosed \in BOOLEAN
      /\ done \in BOOLEAN /\ panic \in BOOLEAN /\ locked \in BOOLEAN
  BY Zenon DEF Init
<1>3. /\ emitted \in Seq(Token) /\ Len(emitted) <= MaxTicks
      /\ sourceChan \in Seq(Tick) /\ Len(sourceChan) <= Cap /\ processed \in Seq(Tick)
  BY Constants DEF Init
<1>4. /\ workerChan \in [Worker -> Seq(Tick)] /\ \A w \in Worker : Len(workerChan[w]) <= Cap
  BY Constants DEF Init
<1>5. /\ dispatcher \in [at: {"off", "on", "done"}, tick: {0} \cup Tick]
      /\ worker \in [Worker -> [at: {"off", "on", "drain", "done"}, tick: {0} \cup Tick]]
  BY DEF Init
<1>. QED BY <1>1, <1>2, <1>3, <1>4, <1>5 DEF TypeOK

LEMMA StepTypes == TypeOK /\ [Next]_vars => TypeOK'
<1>. SUFFICES ASSUME TypeOK, [Next]_vars PROVE TypeOK' OBVIOUS
<1>. USE DEF TypeOK
<1>1. CASE UNCHANGED vars
  BY <1>1 DEF vars, control, stream, source, workers
<1>2. CASE Connect
  BY <1>2 DEF Connect, Outcome, stream, source, workers
<1>3. CASE StartWorkers
  BY <1>3 DEF StartWorkers, source
<1>4. CASE StartDispatcher
  BY <1>4 DEF StartDispatcher, workers
<1>5. CASE SignalDone
  BY <1>5 DEF SignalDone, stream, source, workers
<1>6. CASE Stop
  BY <1>6 DEF Stop, stream, source, workers
<1>7. CASE StopReturns
  BY <1>7 DEF StopReturns, stream, source, workers
<1>8. CASE Query
  <2>1. sourceClosed' \in BOOLEAN BY <1>8, Zenon DEF Query
  <2>2. reader' \in {"off", "query", "reading", "done"} BY <1>8 DEF Query
  <2>. QED BY <1>8, <2>1, <2>2 DEF Query, control, workers
<1>9. ASSUME NEW t \in Token, Send(t) PROVE TypeOK'
  <2>1. /\ emitted' \in Seq(Token) /\ Len(emitted') = Len(emitted) + 1 /\ Len(emitted) < MaxTicks
        /\ Len(emitted) \in Nat
    BY <1>9, Sent DEF Send
  <2>2. Len(emitted') \in Tick BY <2>1, Constants DEF Tick
  <2>3. sourceChan' \in Seq(Tick) /\ Len(sourceChan') <= Cap
    BY <1>9, <2>2, Sent, Constants DEF Send, Room
  <2>4. Len(emitted') <= MaxTicks BY <2>1, Constants
  <2>. QED BY <1>9, <2>1, <2>3, <2>4 DEF Send, control, workers
<1>10. CASE GiveUp
  BY <1>10 DEF GiveUp, stream, source, workers
<1>11. CASE ReadEnds
  BY <1>11 DEF ReadEnds, control, workers
<1>12. CASE LateTick
  BY <1>12 DEF LateTick, stream, source, workers
<1>13. CASE Receive
  <2>1. /\ Head(sourceChan) \in Tick /\ sourceChan' \in Seq(Tick) /\ Len(sourceChan') <= Cap
    BY <1>13, Taken, Constants DEF Receive
  <2>. QED BY <1>13, <2>1 DEF Receive, control, workers
<1>14. CASE Route
  <2> DEFINE w == Owner(dispatcher.tick)
  <2>1. dispatcher.tick \in Tick BY <1>14 DEF Route
  <2>2. ASSUME w \in Worker PROVE workerChan' \in [Worker -> Seq(Tick)] /\ \A u \in Worker : Len(workerChan'[u]) <= Cap
    <3>1. Append(workerChan[w], dispatcher.tick) \in Seq(Tick) /\ Len(Append(workerChan[w], dispatcher.tick)) <= Cap
      BY <1>14, <2>1, <2>2, Sent, Constants DEF Route, Room
    <3>2. workerChan' = [workerChan EXCEPT ![w] = Append(workerChan[w], dispatcher.tick)] BY <1>14 DEF Route
    <3>. HIDE DEF w
    <3>. QED BY <2>2, <3>1, <3>2
  <2>3. ASSUME w \notin Worker PROVE workerChan' = workerChan
    <3>1. workerChan' = [workerChan EXCEPT ![w] = Append(workerChan[w], dispatcher.tick)] BY <1>14 DEF Route
    <3>. HIDE DEF w
    <3>. QED BY <2>3, <3>1
  <2>. HIDE DEF w
  <2>4. workerChan' \in [Worker -> Seq(Tick)] /\ \A u \in Worker : Len(workerChan'[u]) <= Cap BY <2>2, <2>3
  <2>. QED BY <1>14, <2>4 DEF Route, control, source
<1>15. CASE DispatcherEnds
  BY <1>15 DEF DispatcherEnds, CloseWorkers, control, source
<1>16. ASSUME NEW w \in Worker, Take(w) PROVE TypeOK'
  <2>1. /\ Head(workerChan[w]) \in Tick /\ Tail(workerChan[w]) \in Seq(Tick) /\ Len(Tail(workerChan[w])) <= Cap
    BY <1>16, Taken, Constants DEF Take
  <2>2. workerChan' \in [Worker -> Seq(Tick)] /\ \A u \in Worker : Len(workerChan'[u]) <= Cap
    BY <1>16, <2>1 DEF Take
  <2>. QED BY <1>16, <2>1, <2>2 DEF Take, control, source
<1>17. ASSUME NEW w \in Worker, Finish(w) PROVE TypeOK'
  <2>1. worker[w].tick \in Tick BY <1>17 DEF Finish
  <2>2. processed' \in Seq(Tick) BY <1>17, <2>1, Sent DEF Finish
  <2>3. worker' \in [Worker -> [at: {"off", "on", "drain", "done"}, tick: {0} \cup Tick]] BY <1>17 DEF Finish
  <2>. QED BY <1>17, <2>2, <2>3 DEF Finish, control, source, workers
<1>18. ASSUME NEW w \in Worker, Halt(w) \/ WorkerEnds(w) PROVE TypeOK'
  <2>1. worker' \in [Worker -> [at: {"off", "on", "drain", "done"}, tick: {0} \cup Tick]]
    <3>1. PICK a \in {"drain", "done"} : worker' = [worker EXCEPT ![w].at = a] BY <1>18 DEF Halt, WorkerEnds
    <3>. QED BY <3>1
  <2>2. UNCHANGED <<control, source, dispatcher, workerChan, workersClosed, processed>>
    BY <1>18 DEF Halt, WorkerEnds
  <2>. QED BY <2>1, <2>2 DEF control, source
<1>. HIDE DEF TypeOK
<1>. QED
  BY <1>1, <1>2, <1>3, <1>4, <1>5, <1>6, <1>7, <1>8, <1>9, <1>10, <1>11, <1>12, <1>13, <1>14, <1>15, <1>16,
     <1>17, <1>18
     DEF Next, StartStep, ReaderStep, DispatcherStep, WorkerStep, Emit, OnTick

(* Every variable keeps its range, in particular no channel ever holds more than its room. *)
THEOREM TypeCorrect == Spec => []TypeOK
  BY InitTypes, StepTypes, PTL DEF Spec
-----------------------------------------------------------------------------
(* The phases.  Which goroutines exist is a matter of how far Start is; what is closed, of
   which of them have ended.  Before the source reads, no tick is anywhere. *)
Phases ==
  /\ \A w \in Worker : worker[w].at = "off" <=> start \in {"no", "connected", "failed"}
  /\ dispatcher.at = "off" <=> start # "started"
  /\ reader = "off" <=> start # "started"
  /\ \A w \in Worker : worker[w].at \in {"off", "done"} => worker[w].tick = 0
  /\ \A w \in Worker : worker[w].at = "done" => workersClosed /\ workerChan[w] = <<>>
  /\ dispatcher.at # "on" => dispatcher.tick = 0

Closings ==
  /\ sourceClosed <=> reader = "done"
  /\ workersClosed <=> dispatcher.at = "done"
  /\ dispatcher.at = "done" /\ ~cancelled => sourceClosed /\ sourceChan = <<>>

Silence ==
  /\ reader \in {"off", "query"} => emitted = <<>>
  /\ emitted = <<>> => /\ sourceChan = <<>> /\ dispatcher.tick = 0
                       /\ \A w \in Worker : workerChan[w] = <<>> /\ worker[w].tick = 0

(* Stop returns in one of two ways: everything that Start has started has ended, or Stop came
   first, and a backtest then never reads a tick. *)
Ended == start = "started" /\ PoolEmpty
Never == kind = "backtest" /\ reader # "reading" /\ emitted = <<>>
Stops ==
  /\ done => Ended
  /\ stop # "no" => cancelled /\ (kind = "live" => start = "started")
  /\ stop = "returned" => Ended \/ Never

Lifecycle == TypeOK /\ Phases /\ Closings /\ Silence /\ Stops

(* The steps by what they leave alone. *)
LEMMA PhasesStep ==
  ASSUME TypeOK, Phases, Closings, [Next]_vars
  PROVE  Phases'
<1>. USE DEF Phases
<1>1. CASE UNCHANGED <<start, dispatcher, reader, workers>>
  BY <1>1 DEF workers
<1>2. CASE Connect
  BY <1>2 DEF Connect, Outcome, stream, source, workers
<1>3. CASE StartWorkers
  BY <1>3, Constants DEF StartWorkers, source
<1>4. CASE StartDispatcher
  BY <1>4 DEF StartDispatcher, workers, TypeOK
<1>5. CASE Query \/ ReadEnds
  <2>1. UNCHANGED <<start, dispatcher, workers>> /\ reader # "off" /\ reader' # "off"
    BY <1>5 DEF Query, ReadEnds, control
  <2>. QED BY <2>1 DEF workers
<1>6. CASE Receive
  BY <1>6 DEF Receive, control, workers
<1>7. CASE Route
  <2>1. UNCHANGED <<start, reader, worker, workersClosed>> /\ dispatcher.at = "on" /\ dispatcher'.at = "on"
    BY <1>7 DEF Route, control, source
  <2>2. ~workersClosed BY <2>1 DEF Closings
  <2>3. \A w \in Worker : worker[w].at # "done" BY <2>2
  <2>. QED BY <2>1, <2>3
<1>8. CASE DispatcherEnds
  BY <1>8 DEF DispatcherEnds, CloseWorkers, control, source
<1>9. ASSUME NEW w \in Worker, Take(w) PROVE Phases'
  BY <1>9 DEF Take, Free, control, source, TypeOK
<1>10. ASSUME NEW w \in Worker, Finish(w) PROVE Phases'
  BY <1>10 DEF Finish, control, source, TypeOK
<1>11. ASSUME NEW w \in Worker, Halt(w) PROVE Phases'
  BY <1>11 DEF Halt, control, source, TypeOK
<1>12. ASSUME NEW w \in Worker, WorkerEnds(w) PROVE Phases'
  BY <1>12 DEF WorkerEnds, Free, Drained, control, source, TypeOK
<1>13. ASSUME \/ SignalDone \/ Stop \/ StopReturns \/ LateTick \/ GiveUp \/ UNCHANGED vars
              \/ \E t \in Token : Emit(t) \/ OnTick(t)
       PROVE  UNCHANGED <<start, dispatcher, reader, workers>>
  BY <1>13 DEF SignalDone, Stop, StopReturns, LateTick, GiveUp, Emit, OnTick, Send, vars, control, stream, source
<1>. HIDE DEF Phases
<1>. QED
  BY <1>1, <1>2, <1>3, <1>4, <1>5, <1>6, <1>7, <1>8, <1>9, <1>10, <1>11, <1>12, <1>13
     DEF Next, StartStep, ReaderStep, DispatcherStep, WorkerStep

LEMMA ClosingsStep ==
  ASSUME TypeOK, Phases, Closings, [Next]_vars
  PROVE  Closings'
<1>. USE DEF Closings
<1>1. CASE UNCHANGED <<source, dispatcher, workersClosed>> /\ (cancelled => cancelled')
  BY <1>1 DEF source
<1>2. CASE StartDispatcher
  BY <1>2 DEF StartDispatcher, workers, Phases
<1>3. CASE Query \/ ReadEnds
  BY <1>3 DEF Query, ReadEnds, control, workers
<1>4. ASSUME NEW t \in Token, Emit(t) \/ OnTick(t) PROVE Closings'
  <2>1. reader = "reading" /\ UNCHANGED <<reader, sourceClosed, dispatcher, workersClosed, cancelled>>
    BY <1>4 DEF Emit, OnTick, Send, control, workers
  <2>. QED BY <2>1
<1>5. CASE Receive \/ Route
  BY <1>5 DEF Receive, Route, control, source, workers
<1>6. CASE DispatcherEnds
  BY <1>6 DEF DispatcherEnds, CloseWorkers, EndOfStream, control, source
<1>7. ASSUME NEW w \in Worker, WorkerStep(w) PROVE UNCHANGED <<control, source, dispatcher, workersClosed>>
  BY <1>7 DEF WorkerStep, Take, Finish, Halt, WorkerEnds
<1>8. ASSUME Connect \/ StartWorkers \/ SignalDone \/ Stop \/ StopReturns \/ LateTick \/ GiveUp \/ UNCHANGED vars
      PROVE  UNCHANGED <<source, dispatcher, workersClosed>> /\ (cancelled => cancelled')
  BY <1>8 DEF Connect, StartWorkers, SignalDone, Stop, StopReturns, LateTick, GiveUp, vars, control, stream, workers
<1>. HIDE DEF Closings
<1>. QED
  BY <1>1, <1>2, <1>3, <1>4, <1>5, <1>6, <1>7, <1>8
     DEF Next, StartStep, ReaderStep, DispatcherStep, control

LEMMA SilenceStep ==
  ASSUME TypeOK, Phases, Silence, [Next]_vars
  PROVE  Silence'
<1>. USE DEF Silence
<1>1. CASE UNCHANGED stream
  BY <1>1 DEF stream, source, workers
<1>2. CASE StartWorkers
  BY <1>2 DEF StartWorkers, source
<1>3. CASE StartDispatcher
  BY <1>3 DEF StartDispatcher, workers, TypeOK, Phases
<1>4. CASE Query \/ ReadEnds
  BY <1>4 DEF Query, ReadEnds, workers
<1>5. ASSUME NEW t \in Token, Emit(t) \/ OnTick(t) PROVE Silence'
  <2>1. reader' = "reading" /\ emitted' = Append(emitted, t) BY <1>5 DEF Emit, OnTick, Send
  <2>2. emitted' # <<>> BY <2>1, Sent DEF TypeOK
  <2>. QED BY <2>1, <2>2
<1>6. CASE Receive
  <2>1. emitted # <<>> /\ UNCHANGED <<emitted, reader>> BY <1>6 DEF Receive
  <2>. QED BY <2>1
<1>7. CASE Route
  <2>1. emitted # <<>> /\ UNCHANGED <<emitted, reader>> BY <1>7 DEF Route, source
  <2>. QED BY <2>1
<1>8. CASE DispatcherEnds
  BY <1>8 DEF DispatcherEnds, source
<1>9. ASSUME NEW w \in Worker, Take(w) \/ Finish(w) PROVE Silence'
  <2>1. emitted # <<>> /\ UNCHANGED <<emitted, reader>> BY <1>9 DEF Take, Finish, source
  <2>. QED BY <2>1
<1>10. ASSUME NEW w \in Worker, Halt(w) \/ WorkerEnds(w) PROVE Silence'
  <2>1. UNCHANGED <<source, dispatcher, workerChan>> BY <1>10 DEF Halt, WorkerEnds
  <2>2. PICK a \in {"drain", "done"} : worker' = [worker EXCEPT ![w].at = a] BY <1>10 DEF Halt, WorkerEnds
  <2>3. \A u \in Worker : worker'[u].tick = worker[u].tick BY <2>2 DEF TypeOK
  <2>. QED BY <2>1, <2>3 DEF source
<1>11. ASSUME Connect \/ SignalDone \/ Stop \/ StopReturns \/ LateTick \/ GiveUp \/ UNCHANGED vars
      PROVE  UNCHANGED stream
  BY <1>11 DEF Connect, SignalDone, Stop, StopReturns, LateTick, GiveUp, vars
<1>. HIDE DEF Silence
<1>. QED
  BY <1>1, <1>2, <1>3, <1>4, <1>5, <1>6, <1>7, <1>8, <1>9, <1>10, <1>11
     DEF Next, StartStep, ReaderStep, DispatcherStep, WorkerStep

(* What has ended stays so: a worker that has returned takes and holds no tick. *)
LEMMA EndedStays ==
  ASSUME TypeOK, Phases, Ended, [Next]_vars
  PROVE  Ended' /\ UNCHANGED <<worker, processed>>
<1>1. start = "started" /\ dispatcher.at = "done" BY DEF Ended, PoolEmpty, Phases
<1>2. \A w \in Worker : worker[w].at = "done" /\ worker[w].tick = 0
  BY <1>1 DEF Ended, PoolEmpty, Phases
<1>3. \A w \in Worker : ~WorkerStep(w)
  BY <1>2 DEF WorkerStep, Take, Finish, Halt, WorkerEnds, Free
<1>4. ~StartStep /\ ~DispatcherStep
  BY <1>1 DEF StartStep, Connect, StartWorkers, StartDispatcher, DispatcherStep, Receive, Route, DispatcherEnds
<1>5. UNCHANGED <<start, dispatcher, worker, processed>>
  BY <1>3, <1>4 DEF Next, SignalDone, Stop, StopReturns, ReaderStep, Query, Emit, OnTick, Send, GiveUp, ReadEnds,
       LateTick, vars, control, stream, source, workers
<1>. QED BY <1>1, <1>5 DEF Ended, PoolEmpty

(* A backtest that was stopped before it read a tick never will: the database refuses the
   query under the cancelled context. *)
LEMMA NeverStays ==
  ASSUME TypeOK, Phases, Silence, Never, cancelled, [Next]_vars
  PROVE  Never' /\ UNCHANGED processed
<1>1. \A w \in Worker : ~Take(w) /\ ~Finish(w) BY DEF Never, Silence, Take, Finish
<1>2. \A t \in Token : ~Emit(t) /\ ~OnTick(t) BY DEF Never, Emit, OnTick
<1>3. UNCHANGED <<kind, emitted, processed>>
  BY <1>1, <1>2 DEF Next, StartStep, Connect, StartWorkers, StartDispatcher, SignalDone, Stop, StopReturns, ReaderStep,
       Query, GiveUp, ReadEnds, LateTick, DispatcherStep, Receive, Route, DispatcherEnds, WorkerStep, Halt, WorkerEnds,
       vars, control, stream, source, workers
<1>4. reader' # "reading"
  BY <1>2 DEF Never, Next, StartStep, Connect, StartWorkers, StartDispatcher, SignalDone, Stop, StopReturns, ReaderStep,
       Query, GiveUp, ReadEnds, LateTick, DispatcherStep, Receive, Route, DispatcherEnds, WorkerStep, Take, Finish, Halt,
       WorkerEnds, vars, control, stream, source, workers
<1>. QED BY <1>3, <1>4 DEF Never

LEMMA StopsStep ==
  ASSUME Lifecycle, [Next]_vars
  PROVE  Stops'
<1>. USE DEF Lifecycle
<1>1. start = "started" => start' = "started"
  BY DEF Next, StartStep, Connect, StartWorkers, StartDispatcher, SignalDone, Stop, StopReturns, ReaderStep, Query, Emit,
       OnTick, Send, GiveUp, ReadEnds, LateTick, DispatcherStep, Receive, Route, DispatcherEnds, WorkerStep, Take, Finish,
       Halt, WorkerEnds, vars, control, stream, source
<1>2. Ended => Ended' BY EndedStays
<1>3. Never /\ cancelled => Never' BY NeverStays
<1>4. CASE SignalDone
  <2>1. Ended BY <1>4 DEF SignalDone, Ended
  <2>. QED BY <1>1, <1>2, <1>3, <1>4, <2>1 DEF SignalDone, Stops
<1>5. CASE Stop
  BY <1>1, <1>2, <1>5 DEF Stop, Stops
<1>6. CASE StopReturns
  <2>1. CASE start = "started"
    <3>1. Ended BY <1>6, <2>1 DEF StopReturns, Ended
    <3>. QED BY <1>1, <1>2, <1>6, <3>1 DEF StopReturns, Stops
  <2>2. CASE start # "started"
    <3>1. kind = "backtest" /\ cancelled BY <1>6, <2>2 DEF StopReturns, Stops, TypeOK
    <3>2. reader = "off" /\ emitted = <<>> BY <2>2 DEF Phases, Silence
    <3>3. Never BY <3>1, <3>2 DEF Never
    <3>. QED BY <1>1, <1>2, <1>3, <1>6, <3>1, <3>3 DEF StopReturns, Stops
  <2>. QED BY <2>1, <2>2
<1>7. CASE UNCHANGED <<stop, done, cancelled, kind>>
  BY <1>1, <1>2, <1>3, <1>7 DEF Stops
<1>8. ASSUME ~SignalDone, ~Stop, ~StopReturns
      PROVE  UNCHANGED <<stop, done, cancelled, kind>>
  BY <1>8 DEF Next, StartStep, Connect, StartWorkers, StartDispatcher, ReaderStep, Query, Emit, OnTick, Send, GiveUp,
       ReadEnds, LateTick, DispatcherStep, Receive, Route, DispatcherEnds, WorkerStep, Take, Finish, Halt, WorkerEnds, vars,
       control
<1>. QED BY <1>4, <1>5, <1>6, <1>7, <1>8

LEMMA InitLifecycle == Init => Lifecycle
<1>. SUFFICES ASSUME Init PROVE Lifecycle OBVIOUS
<1>1. Phases BY DEF Init, Phases
<1>2. Closings /\ Stops BY DEF Init, Closings, Stops
<1>3. Silence BY DEF Init, Silence
<1>. QED BY <1>1, <1>2, <1>3, InitTypes DEF Lifecycle

(* Through every interleaving of Start, Stop, the source and the pool: the phases of the
   stream's goroutines fit together, a channel is closed only by its owner when it has
   finished, and a Stop that has returned leaves nobody at work. *)
THEOREM LifecycleKept == Spec => []Lifecycle
<1>1. Lifecycle /\ [Next]_vars => Lifecycle'
  BY StepTypes, PhasesStep, ClosingsStep, SilenceStep, StopsStep DEF Lifecycle
<1>. QED BY InitLifecycle, <1>1, PTL DEF Spec

(* When Stop has returned, no tick is in a worker's hands and none is processed any more,
   whether Stop came after Start, during it or before it. *)
THEOREM QuietKept == Spec => QuietAfterStop
<1>1. ASSUME Lifecycle, [Next]_vars, stop = "returned"
      PROVE  processed' = processed /\ \A w \in Worker : worker'[w].tick = 0
  <2>1. Lifecycle' BY <1>1, StepTypes, PhasesStep, ClosingsStep, SilenceStep, StopsStep DEF Lifecycle
  <2>2. CASE Ended
    <3>1. Ended' /\ processed' = processed BY <1>1, <2>2, EndedStays DEF Lifecycle
    <3>. QED BY <2>1, <3>1 DEF Ended, PoolEmpty, Lifecycle, Phases
  <2>3. CASE Never
    <3>1. Never' /\ processed' = processed BY <1>1, <2>3, NeverStays DEF Lifecycle, Stops
    <3>. QED BY <2>1, <3>1 DEF Never, Lifecycle, Silence
  <2>. QED BY <1>1, <2>2, <2>3 DEF Lifecycle, Stops
<1>2. Lifecycle /\ [Next]_vars =>
        [stop = "returned" => processed' = processed /\ \A w \in Worker : worker'[w].tick = 0]_vars
  BY <1>1
<1>. QED BY <1>2, LifecycleKept, PTL DEF Spec, QuietAfterStop
-----------------------------------------------------------------------------
(* The order of the ticks.  f ticks have been handed to the workers; own is the worker of each
   tick, hand the tick each worker processes, chan their channels, past what is processed.
   Every tick that was handed over is with its worker: processed, in hand or in the channel,
   and for one worker these three follow each other in the order of the ticks. *)
Belong(f, own, hand, chan, past) ==
  /\ \A w \in Worker : hand[w] # 0 => hand[w] \in 1 .. f /\ own[hand[w]] = w
  /\ \A w \in Worker : \A i \in DOMAIN chan[w] : chan[w][i] \in 1 .. f /\ own[chan[w][i]] = w
  /\ \A j \in DOMAIN past : past[j] \in 1 .. f

Nowhere(n, own, hand, chan, past) ==
  /\ \A j \in DOMAIN past : past[j] # n
  /\ hand[own[n]] # n
  /\ \A i \in DOMAIN chan[own[n]] : chan[own[n]][i] # n

Queued(hand, chan) ==
  /\ \A w \in Worker : \A i, k \in DOMAIN chan[w] : i < k => chan[w][i] < chan[w][k]
  /\ \A w \in Worker : \A i \in DOMAIN chan[w] : hand[w] < chan[w][i]

PastFirst(own, hand, chan, past) ==
  /\ \A j \in DOMAIN past :
       /\ hand[own[past[j]]] # 0 => past[j] < hand[own[past[j]]]
       /\ \A i \in DOMAIN chan[own[past[j]]] : past[j] < chan[own[past[j]]][i]
  /\ \A j, k \in DOMAIN past : j < k /\ own[past[j]] = own[past[k]] => past[j] < past[k]

Delivered(f, own, hand, chan, past) ==
  /\ Belong(f, own, hand, chan, past)
  /\ \A n \in 1 .. f : ~Nowhere(n, own, hand, chan, past)
  /\ Queued(hand, chan)
  /\ PastFirst(own, hand, chan, past)

Data(f, own, hand, chan, past) ==
  /\ f \in Nat /\ own \in [1 .. f -> Worker] /\ hand \in [Worker -> Nat]
  /\ chan \in [Worker -> Seq(Nat)] /\ past \in Seq(Nat)

(* The next tick is handed to its worker. *)
LEMMA DeliveredRoute ==
  ASSUME NEW f, NEW own, NEW own1, NEW hand, NEW chan, NEW past,
         Data(f, own, hand, chan, past), own1 \in [1 .. f + 1 -> Worker], \A n \in 1 .. f : own1[n] = own[n],
         Delivered(f, own, hand, chan, past), NEW w \in Worker, own1[f + 1] = w
  PROVE  Delivered(f + 1, own1, hand, [chan EXCEPT ![w] = Append(@, f + 1)], past)
<1> DEFINE chan1 == [chan EXCEPT ![w] = Append(@, f + 1)]
<1>1. f \in Nat /\ f + 1 \in Nat /\ hand \in [Worker -> Nat] /\ chan \in [Worker -> Seq(Nat)] /\ past \in Seq(Nat)
  BY DEF Data
<1>2. /\ DOMAIN chan1[w] = 1 .. Len(chan[w]) + 1 /\ DOMAIN chan[w] = 1 .. Len(chan[w]) /\ Len(chan[w]) \in Nat
      /\ \A i \in 1 .. Len(chan[w]) : chan1[w][i] = chan[w][i] /\ chan[w][i] \in Nat
      /\ chan1[w][Len(chan[w]) + 1] = f + 1
  BY <1>1, Sent
<1>3. \A u \in Worker : u # w => chan1[u] = chan[u] BY <1>1
<1>. HIDE DEF chan1
<1>4. Belong(f, own, hand, chan, past) BY DEF Delivered
<1>5. Belong(f + 1, own1, hand, chan1, past)
  <2>1. ASSUME NEW u \in Worker, hand[u] # 0 PROVE hand[u] \in 1 .. f + 1 /\ own1[hand[u]] = u
    <3>1. hand[u] \in 1 .. f /\ own[hand[u]] = u BY <1>4, <2>1 DEF Belong
    <3>. QED BY <1>1, <3>1
  <2>2. ASSUME NEW u \in Worker, NEW i \in DOMAIN chan1[u]
        PROVE  chan1[u][i] \in 1 .. f + 1 /\ own1[chan1[u][i]] = u
    <3>1. CASE u = w /\ i = Len(chan[w]) + 1 BY <1>1, <1>2, <3>1
    <3>2. CASE ~(u = w /\ i = Len(chan[w]) + 1)
      <4>1. i \in DOMAIN chan[u] /\ chan1[u][i] = chan[u][i] BY <1>2, <1>3, <2>2, <3>2
      <4>2. chan[u][i] \in 1 .. f /\ own[chan[u][i]] = u BY <1>4, <4>1 DEF Belong
      <4>. QED BY <1>1, <4>1, <4>2
    <3>. QED BY <3>1, <3>2
  <2>3. \A j \in DOMAIN past : past[j] \in 1 .. f + 1 BY <1>1, <1>4 DEF Belong
  <2>. QED BY <2>1, <2>2, <2>3 DEF Belong
<1>6. ASSUME NEW n \in 1 .. f + 1 PROVE ~Nowhere(n, own1, hand, chan1, past)
  <2>1. CASE n = f + 1
    <3>1. Len(chan[w]) + 1 \in DOMAIN chan1[w] BY <1>2
    <3>. QED BY <1>2, <2>1, <3>1 DEF Nowhere
  <2>2. CASE n \in 1 .. f
    <3>1. ~Nowhere(n, own, hand, chan, past) /\ own1[n] = own[n] /\ own[n] \in Worker BY <2>2 DEF Delivered, Data
    <3>2. \A i \in DOMAIN chan[own[n]] : i \in DOMAIN chan1[own[n]] /\ chan1[own[n]][i] = chan[own[n]][i]
      BY <1>2, <1>3, <3>1
    <3>. QED BY <3>1, <3>2 DEF Nowhere
  <2>. QED BY <1>1, <2>1, <2>2
<1>7. Queued(hand, chan1)
  <2>1. ASSUME NEW u \in Worker, NEW i \in DOMAIN chan1[u], NEW k \in DOMAIN chan1[u], i < k
        PROVE  chan1[u][i] < chan1[u][k]
    <3>1. CASE u = w
      <4>1. i \in 1 .. Len(chan[w]) /\ chan1[w][i] = chan[w][i] BY <1>2, <2>1, <3>1
      <4>2. chan[w][i] \in 1 .. f BY <1>2, <1>4, <4>1 DEF Belong
      <4>3. CASE k = Len(chan[w]) + 1 BY <1>1, <1>2, <3>1, <4>1, <4>2, <4>3
      <4>4. CASE k \in 1 .. Len(chan[w]) BY <1>2, <2>1, <3>1, <4>1, <4>4 DEF Delivered, Queued
      <4>. QED BY <1>2, <3>1, <4>3, <4>4
    <3>2. CASE u # w BY <1>3, <2>1, <3>2 DEF Delivered, Queued
    <3>. QED BY <3>1, <3>2
  <2>2. ASSUME NEW u \in Worker, NEW i \in DOMAIN chan1[u]
        PROVE  hand[u] < chan1[u][i]
    <3>1. CASE u = w /\ i = Len(chan[w]) + 1
      <4>1. hand[u] <= f BY <1>1, <1>4 DEF Belong
      <4>. QED BY <1>1, <1>2, <3>1, <4>1
    <3>2. CASE ~(u = w /\ i = Len(chan[w]) + 1)
      <4>1. i \in DOMAIN chan[u] /\ chan1[u][i] = chan[u][i] BY <1>2, <1>3, <2>2, <3>2
      <4>. QED BY <4>1 DEF Delivered, Queued
    <3>. QED BY <3>1, <3>2
  <2>. QED BY <2>1, <2>2 DEF Queued
<1>8. PastFirst(own1, hand, chan1, past)
  <2>1. \A j \in DOMAIN past : past[j] \in 1 .. f /\ own1[past[j]] = own[past[j]] /\ own[past[j]] \in Worker
    BY <1>4 DEF Belong, Data
  <2>2. ASSUME NEW j \in DOMAIN past, NEW i \in DOMAIN chan1[own1[past[j]]]
        PROVE  past[j] < chan1[own1[past[j]]][i]
    <3> DEFINE u == own[past[j]]
    <3>1. u \in Worker /\ i \in DOMAIN chan1[u] /\ own1[past[j]] = u BY <2>1, <2>2
    <3>2. CASE u = w /\ i = Len(chan[w]) + 1 BY <1>1, <1>2, <2>1, <3>1, <3>2
    <3>3. CASE ~(u = w /\ i = Len(chan[w]) + 1)
      <4>. HIDE DEF u
      <4>1. i \in DOMAIN chan[u] /\ chan1[u][i] = chan[u][i] BY <1>2, <1>3, <3>1, <3>3
      <4>. USE DEF u
      <4>. QED BY <3>1, <4>1 DEF Delivered, PastFirst
    <3>. QED BY <3>2, <3>3
  <2>3. \A j \in DOMAIN past : hand[own1[past[j]]] # 0 => past[j] < hand[own1[past[j]]]
    BY <2>1 DEF Delivered, PastFirst
  <2>4. \A j, k \in DOMAIN past : j < k /\ own1[past[j]] = own1[past[k]] => past[j] < past[k]
    BY <2>1 DEF Delivered, PastFirst
  <2>. QED BY <2>2, <2>3, <2>4 DEF PastFirst
<1>9. Delivered(f + 1, own1, hand, chan1, past) BY <1>5, <1>6, <1>7, <1>8 DEF Delivered
<1>. QED BY <1>9 DEF chan1

(* A worker takes the first tick of its channel. *)
LEMMA DeliveredTake ==
  ASSUME NEW f, NEW own, NEW hand, NEW chan, NEW past, Data(f, own, hand, chan, past),
         Delivered(f, own, hand, chan, past), NEW w \in Worker, hand[w] = 0, chan[w] # <<>>
  PROVE  Delivered(f, own, [hand EXCEPT ![w] = Head(chan[w])], [chan EXCEPT ![w] = Tail(@)], past)
<1> DEFINE hand1 == [hand EXCEPT ![w] = Head(chan[w])]
           chan1 == [chan EXCEPT ![w] = Tail(@)]
<1>1. f \in Nat /\ hand \in [Worker -> Nat] /\ chan \in [Worker -> Seq(Nat)] /\ past \in Seq(Nat)
  BY DEF Data
<1>2. /\ Len(chan[w]) \in Nat \ {0} /\ DOMAIN chan[w] = 1 .. Len(chan[w]) /\ hand1[w] = chan[w][1]
      /\ DOMAIN chan1[w] = 1 .. Len(chan[w]) - 1
      /\ \A i \in 1 .. Len(chan[w]) - 1 : chan1[w][i] = chan[w][i + 1]
  BY <1>1, Taken
<1>3. \A u \in Worker : u # w => chan1[u] = chan[u] /\ hand1[u] = hand[u] BY <1>1
<1>. HIDE DEF chan1, hand1
<1>4. Belong(f, own, hand, chan, past) /\ Queued(hand, chan) /\ PastFirst(own, hand, chan, past) BY DEF Delivered
<1>5. ASSUME NEW u \in Worker, NEW i \in DOMAIN chan1[u]
      PROVE  \E k \in DOMAIN chan[u] : chan1[u][i] = chan[u][k] /\ (u = w => k = i + 1) /\ (u # w => k = i)
  <2>1. CASE u = w
    <3>1. i + 1 \in DOMAIN chan[w] /\ chan1[w][i] = chan[w][i + 1] BY <1>2, <1>5, <2>1
    <3>. QED BY <2>1, <3>1
  <2>2. CASE u # w BY <1>3, <1>5, <2>2
  <2>. QED BY <2>1, <2>2
<1>6. Belong(f, own, hand1, chan1, past)
  <2>1. \A u \in Worker : hand1[u] # 0 => hand1[u] \in 1 .. f /\ own[hand1[u]] = u
    BY <1>2, <1>3, <1>4 DEF Belong
  <2>2. \A u \in Worker : \A i \in DOMAIN chan1[u] : chan1[u][i] \in 1 .. f /\ own[chan1[u][i]] = u
    BY <1>4, <1>5 DEF Belong
  <2>. QED BY <1>4, <2>1, <2>2 DEF Belong
<1>7. ASSUME NEW n \in 1 .. f PROVE ~Nowhere(n, own, hand1, chan1, past)
  <2>1. ~Nowhere(n, own, hand, chan, past) /\ own[n] \in Worker BY DEF Delivered, Data
  <2>2. CASE own[n] = w
    <3>1. ASSUME NEW i \in DOMAIN chan[w], chan[w][i] = n
          PROVE  hand1[w] = n \/ \E k \in DOMAIN chan1[w] : chan1[w][k] = n
      <4>1. CASE i = 1 BY <1>2, <3>1, <4>1
      <4>2. CASE i # 1
        <5>1. i - 1 \in DOMAIN chan1[w] /\ chan1[w][i - 1] = chan[w][i] BY <1>2, <4>2
        <5>. QED BY <3>1, <5>1
      <4>. QED BY <4>1, <4>2
    <3>. QED BY <2>1, <2>2, <3>1 DEF Nowhere
  <2>3. CASE own[n] # w BY <1>3, <2>1, <2>3 DEF Nowhere
  <2>. QED BY <2>2, <2>3
<1>8. Queued(hand1, chan1)
  <2>1. ASSUME NEW u \in Worker, NEW i \in DOMAIN chan1[u], NEW k \in DOMAIN chan1[u], i < k
        PROVE  chan1[u][i] < chan1[u][k]
    <3>1. CASE u = w
      <4>1. /\ i + 1 \in DOMAIN chan[w] /\ k + 1 \in DOMAIN chan[w] /\ i + 1 < k + 1
            /\ chan1[w][i] = chan[w][i + 1] /\ chan1[w][k] = chan[w][k + 1]
        <5>1. i \in 1 .. Len(chan[w]) - 1 /\ k \in 1 .. Len(chan[w]) - 1 BY <1>2, <2>1, <3>1
        <5>2. i + 1 \in 1 .. Len(chan[w]) /\ k + 1 \in 1 .. Len(chan[w]) /\ i + 1 < k + 1 BY <1>2, <2>1, <5>1
        <5>. QED BY <1>2, <5>1, <5>2
      <4>. QED BY <1>4, <3>1, <4>1 DEF Queued
    <3>2. CASE u # w BY <1>3, <1>4, <2>1, <3>2 DEF Queued
    <3>. QED BY <3>1, <3>2
  <2>2. ASSUME NEW u \in Worker, NEW i \in DOMAIN chan1[u]
        PROVE  hand1[u] < chan1[u][i]
    <3>1. CASE u = w
      <4>1. i + 1 \in DOMAIN chan[w] /\ 1 \in DOMAIN chan[w] /\ 1 < i + 1 /\ chan1[w][i] = chan[w][i + 1]
        BY <1>2, <2>2, <3>1
      <4>. QED BY <1>2, <1>4, <3>1, <4>1 DEF Queued
    <3>2. CASE u # w BY <1>3, <1>4, <2>2, <3>2 DEF Queued
    <3>. QED BY <3>1, <3>2
  <2>. QED BY <2>1, <2>2 DEF Queued
<1>9. PastFirst(own, hand1, chan1, past)
  <2>1. \A j \in DOMAIN past : own[past[j]] \in Worker BY <1>4 DEF Belong, Data
  <2>2. ASSUME NEW j \in DOMAIN past
        PROVE  /\ hand1[own[past[j]]] # 0 => past[j] < hand1[own[past[j]]]
               /\ \A i \in DOMAIN chan1[own[past[j]]] : past[j] < chan1[own[past[j]]][i]
    <3>1. \A i \in DOMAIN chan[own[past[j]]] : past[j] < chan[own[past[j]]][i] BY <1>4 DEF PastFirst
    <3>2. \A i \in DOMAIN chan1[own[past[j]]] : past[j] < chan1[own[past[j]]][i] BY <1>5, <2>1, <3>1
    <3>3. hand1[own[past[j]]] # 0 => past[j] < hand1[own[past[j]]]
      <4>1. CASE own[past[j]] = w
        <5>1. 1 \in DOMAIN chan[w] BY <1>2
        <5>. QED BY <1>2, <3>1, <4>1, <5>1
      <4>2. CASE own[past[j]] # w BY <1>3, <1>4, <2>1, <4>2 DEF PastFirst
      <4>. QED BY <4>1, <4>2
    <3>. QED BY <3>2, <3>3
  <2>. QED BY <1>4, <2>2 DEF PastFirst
<1>10. Delivered(f, own, hand1, chan1, past) BY <1>6, <1>7, <1>8, <1>9 DEF Delivered
<1>. QED BY <1>10 DEF hand1, chan1

(* A worker has processed its tick. *)
LEMMA DeliveredFinish ==
  ASSUME NEW f, NEW own, NEW hand, NEW chan, NEW past, Data(f, own, hand, chan, past),
         Delivered(f, own, hand, chan, past), NEW w \in Worker, hand[w] # 0
  PROVE  Delivered(f, own, [hand EXCEPT ![w] = 0], chan, Append(past, hand[w]))
<1> DEFINE hand1 == [hand EXCEPT ![w] = 0]
           past1 == Append(past, hand[w])
<1>1. f \in Nat /\ hand \in [Worker -> Nat] /\ chan \in [Worker -> Seq(Nat)] /\ past \in Seq(Nat)
  BY DEF Data
<1>2. /\ DOMAIN past1 = 1 .. Len(past) + 1 /\ DOMAIN past = 1 .. Len(past) /\ Len(past) \in Nat
      /\ \A j \in 1 .. Len(past) : past1[j] = past[j]
      /\ past1[Len(past) + 1] = hand[w]
  BY <1>1, Sent
<1>3. hand1[w] = 0 /\ \A u \in Worker : u # w => hand1[u] = hand[u] BY <1>1
<1>. HIDE DEF hand1, past1
<1>4. Belong(f, own, hand, chan, past) /\ Queued(hand, chan) /\ PastFirst(own, hand, chan, past) BY DEF Delivered
<1>5. hand[w] \in 1 .. f /\ own[hand[w]] = w BY <1>4 DEF Belong
<1>6. Belong(f, own, hand1, chan, past1)
  <2>1. \A u \in Worker : hand1[u] # 0 => hand1[u] \in 1 .. f /\ own[hand1[u]] = u
    BY <1>3, <1>4 DEF Belong
  <2>2. \A j \in DOMAIN past1 : past1[j] \in 1 .. f BY <1>2, <1>4, <1>5 DEF Belong
  <2>. QED BY <1>4, <2>1, <2>2 DEF Belong
<1>7. ASSUME NEW n \in 1 .. f PROVE ~Nowhere(n, own, hand1, chan, past1)
  <2>1. ~Nowhere(n, own, hand, chan, past) /\ own[n] \in Worker BY DEF Delivered, Data
  <2>2. \A j \in DOMAIN past : j \in DOMAIN past1 /\ past1[j] = past[j] BY <1>2
  <2>3. Len(past) + 1 \in DOMAIN past1 BY <1>2
  <2>4. CASE own[n] = w BY <1>2, <2>1, <2>2, <2>3, <2>4 DEF Nowhere
  <2>5. CASE own[n] # w BY <1>3, <2>1, <2>2, <2>5 DEF Nowhere
  <2>. QED BY <2>4, <2>5
<1>8. Queued(hand1, chan)
  <2>1. \A i \in DOMAIN chan[w] : hand1[w] < chan[w][i] BY <1>1, <1>3, <1>4 DEF Queued, Belong
  <2>. QED BY <1>3, <1>4, <2>1 DEF Queued
<1>9. PastFirst(own, hand1, chan, past1)
  <2>1. ASSUME NEW j \in DOMAIN past1
        PROVE  /\ hand1[own[past1[j]]] # 0 => past1[j] < hand1[own[past1[j]]]
               /\ \A i \in DOMAIN chan[own[past1[j]]] : past1[j] < chan[own[past1[j]]][i]
    <3>1. CASE j = Len(past) + 1
      <4>1. past1[j] = hand[w] /\ own[past1[j]] = w BY <1>2, <1>5, <3>1
      <4>. QED BY <1>3, <1>4, <4>1 DEF Queued
    <3>2. CASE j \in DOMAIN past
      <4>1. past1[j] = past[j] /\ own[past[j]] \in Worker BY <1>2, <1>4, <3>2 DEF Belong, Data
      <4>. QED BY <1>3, <1>4, <3>2, <4>1 DEF PastFirst
    <3>. QED BY <1>2, <3>1, <3>2
  <2>2. ASSUME NEW j \in DOMAIN past1, NEW k \in DOMAIN past1, j < k, own[past1[j]] = own[past1[k]]
        PROVE  past1[j] < past1[k]
    <3>1. j \in DOMAIN past /\ past1[j] = past[j] BY <1>2, <2>2
    <3>2. CASE k = Len(past) + 1
      <4>1. past1[k] = hand[w] /\ own[past[j]] = w BY <1>2, <1>5, <2>2, <3>1, <3>2
      <4>2. hand[w] # 0 => past[j] < hand[w] BY <1>4, <3>1, <4>1 DEF PastFirst
      <4>. QED BY <3>1, <4>1, <4>2
    <3>3. CASE k \in DOMAIN past
      <4>1. past1[k] = past[k] BY <1>2, <3>3
      <4>. QED BY <1>4, <2>2, <3>1, <3>3, <4>1 DEF PastFirst
    <3>. QED BY <1>2, <3>2, <3>3
  <2>. QED BY <2>1, <2>2 DEF PastFirst
<1>10. Delivered(f, own, hand1, chan, past1) BY <1>6, <1>7, <1>8, <1>9 DEF Delivered
<1>. QED BY <1>10 DEF hand1, past1

(* What TokenOrder asks of the processed ticks. *)
LEMMA DeliveredInOrder ==
  ASSUME NEW f, NEW own, NEW hand, NEW chan, NEW past, Data(f, own, hand, chan, past),
         Delivered(f, own, hand, chan, past), NEW j \in DOMAIN past, NEW n \in 1 .. past[j], own[n] = own[past[j]]
  PROVE  \E i \in 1 .. j : past[i] = n /\ (i < j <=> n < past[j])
<1>1. f \in Nat /\ hand \in [Worker -> Nat] /\ past \in Seq(Nat) /\ DOMAIN past = 1 .. Len(past) /\ Len(past) \in Nat
  BY DEF Data
<1>2. past[j] \in 1 .. f BY DEF Delivered, Belong
<1>3. n \in 1 .. f /\ n <= past[j] BY <1>1, <1>2
<1>4. /\ hand[own[past[j]]] # 0 => past[j] < hand[own[past[j]]]
      /\ \A i \in DOMAIN chan[own[past[j]]] : past[j] < chan[own[past[j]]][i]
  BY DEF Delivered, PastFirst
<1>5. hand[own[n]] # n
  BY <1>1, <1>2, <1>3, <1>4
<1>6. \A i \in DOMAIN chan[own[n]] : chan[own[n]][i] # n
  <2>1. ASSUME NEW i \in DOMAIN chan[own[n]], chan[own[n]][i] = n PROVE FALSE
    <3>1. past[j] < n BY <1>4, <2>1
    <3>. QED BY <1>2, <1>3, <3>1
  <2>. QED BY <2>1
<1>7. PICK i \in DOMAIN past : past[i] = n BY <1>3, <1>5, <1>6 DEF Delivered, Nowhere
<1>8. /\ i < j => past[i] < past[j]
      /\ j < i => past[j] < past[i]
  BY <1>7 DEF Delivered, PastFirst
<1>9. i \in 1 .. Len(past) /\ j \in 1 .. Len(past) BY <1>1
<1>. QED BY <1>2, <1>3, <1>7, <1>8, <1>9
-----------------------------------------------------------------------------
(* The same in the stream manager.  What the source has sent and the dispatcher has not yet
   handed over is, in order, the tick it holds and the contents of sourceChan; f falls behind
   only when a cancelled dispatcher drops its tick. *)
Owners == [n \in DOMAIN emitted |-> Owner(n)]
Hand == [w \in Worker |-> worker[w].tick]
Received == Len(emitted) - Len(sourceChan)
Held == IF dispatcher.tick = 0 THEN 0 ELSE 1

InSource ==
  /\ Len(sourceChan) <= Len(emitted)
  /\ \A i \in DOMAIN sourceChan : sourceChan[i] = Received + i
  /\ dispatcher.tick # 0 => dispatcher.tick = Received

Frontier(f) ==
  /\ f <= Received - Held
  /\ dispatcher.at # "done" \/ ~cancelled => f = Received - Held

Handed(f) == Frontier(f) /\ Delivered(f, [n \in 1 .. f |-> Owners[n]], Hand, workerChan, processed)
Ordered == InSource /\ \E f \in Nat : Handed(f)

LEMMA DataTypes ==
  ASSUME TypeOK, InSource, NEW f \in Nat, Frontier(f)
  PROVE  /\ Data(f, [n \in 1 .. f |-> Owners[n]], Hand, workerChan, processed)
         /\ Received \in Nat /\ Len(emitted) \in Nat /\ Len(sourceChan) \in Nat /\ f <= Len(emitted) /\ f <= Received
         /\ DOMAIN emitted = 1 .. Len(emitted) /\ DOMAIN sourceChan = 1 .. Len(sourceChan)
         /\ Owners \in [1 .. Len(emitted) -> Worker]
<1>1. /\ Len(emitted) \in Nat /\ DOMAIN emitted = 1 .. Len(emitted)
      /\ Len(sourceChan) \in Nat /\ DOMAIN sourceChan = 1 .. Len(sourceChan)
      /\ \A n \in 1 .. Len(emitted) : emitted[n] \in Nat
  <2>1. emitted \in Seq(Token) /\ sourceChan \in Seq(Tick) BY DEF TypeOK
  <2>2. \A n \in 1 .. Len(emitted) : emitted[n] \in Token BY <2>1, ElementOfSeq
  <2>3. /\ Len(emitted) \in Nat /\ DOMAIN emitted = 1 .. Len(emitted)
        /\ Len(sourceChan) \in Nat /\ DOMAIN sourceChan = 1 .. Len(sourceChan)
    BY <2>1
  <2>. QED BY <2>2, <2>3, Constants
<1>2. Received \in Nat BY <1>1 DEF Received, InSource
<1>3. f <= Received BY <1>2 DEF Frontier, Held
<1>4. f <= Len(emitted) BY <1>1, <1>2, <1>3 DEF Received
<1>5. \A n \in 1 .. Len(emitted) : Owner(n) \in Worker
  <2>1. ASSUME NEW n \in 1 .. Len(emitted) PROVE emitted[n] % Processors \in 0 .. Processors - 1
    <3>1. emitted[n] \in Nat /\ Processors \in Nat \ {0} BY <1>1, Constants
    <3>. QED BY <3>1
  <2>. QED BY <2>1 DEF Owner, Worker
<1>6. Owners \in [1 .. Len(emitted) -> Worker] BY <1>1, <1>5 DEF Owners
<1>7. [n \in 1 .. f |-> Owners[n]] \in [1 .. f -> Worker] BY <1>1, <1>4, <1>6
<1>8. Hand \in [Worker -> Nat] BY Constants DEF TypeOK, Hand, Tick
<1>9. workerChan \in [Worker -> Seq(Nat)] /\ processed \in Seq(Nat)
  <2>1. Tick \subseteq Nat BY Constants DEF Tick
  <2>2. \A s \in Seq(Tick) : s \in Seq(Nat) BY <2>1, SeqMonotonic
  <2>. QED BY <2>2 DEF TypeOK
<1>. QED BY <1>1, <1>2, <1>3, <1>4, <1>6, <1>7, <1>8, <1>9 DEF Data

(* The ticks handed over keep their workers while the source sends more. *)
LEMMA HandedFrame ==
  ASSUME NEW f \in Nat, Handed(f), \A n \in 1 .. f : Owners'[n] = Owners[n],
         UNCHANGED <<Hand, workerChan, processed>>, Frontier(f)'
  PROVE  Handed(f)'
<1>1. [n \in 1 .. f |-> Owners'[n]] = [n \in 1 .. f |-> Owners[n]] OBVIOUS
<1>2. Delivered(f, [n \in 1 .. f |-> Owners'[n]], Hand', workerChan', processed') BY <1>1 DEF Handed
<1>. QED BY <1>2 DEF Handed

LEMMA OrderedFrame ==
  ASSUME Ordered, UNCHANGED <<emitted, sourceChan, Hand, workerChan, processed>>, dispatcher'.tick = dispatcher.tick,
         dispatcher'.at = "done" <=> dispatcher.at = "done", cancelled => cancelled'
  PROVE  Ordered'
<1>1. PICK f \in Nat : Handed(f) BY DEF Ordered
<1>2. Owners' = Owners BY DEF Owners, Owner
<1>3. InSource' BY DEF Ordered, InSource, Received
<1>4. Frontier(f)' BY <1>1 DEF Handed, Frontier, Received, Held
<1>5. Handed(f)' BY <1>1, <1>2, <1>4, HandedFrame
<1>. QED BY <1>3, <1>5 DEF Ordered

LEMMA OrderedSend ==
  ASSUME TypeOK, Ordered, NEW t \in Token, Send(t)
  PROVE  Ordered'
<1>1. PICK f \in Nat : Handed(f) BY DEF Ordered
<1>2. /\ Received \in Nat /\ Len(emitted) \in Nat /\ Len(sourceChan) \in Nat /\ f <= Len(emitted)
      /\ DOMAIN emitted = 1 .. Len(emitted) /\ DOMAIN sourceChan = 1 .. Len(sourceChan)
  BY <1>1, DataTypes DEF Ordered, Handed
<1>3. /\ Len(emitted') = Len(emitted) + 1 /\ DOMAIN emitted' = 1 .. Len(emitted) + 1
      /\ \A n \in 1 .. Len(emitted) : emitted'[n] = emitted[n]
  BY Sent DEF Send, TypeOK
<1>4. Len(emitted') \in Tick BY <1>2, <1>3, Constants DEF Tick, Send
<1>5. /\ Len(sourceChan') = Len(sourceChan) + 1 /\ DOMAIN sourceChan' = 1 .. Len(sourceChan) + 1
      /\ \A i \in 1 .. Len(sourceChan) : sourceChan'[i] = sourceChan[i]
      /\ sourceChan'[Len(sourceChan) + 1] = Len(emitted) + 1
  <2>1. sourceChan \in Seq(Tick) /\ sourceChan' = Append(sourceChan, Len(emitted')) BY DEF Send, TypeOK
  <2>. QED BY <1>3, <1>4, <2>1, Sent
<1>6. UNCHANGED <<dispatcher, cancelled, worker, workerChan, processed>> BY DEF Send, control, workers
<1>7. Received' = Received BY <1>2, <1>3, <1>5 DEF Received
<1>8. InSource'
  <2>1. ASSUME NEW i \in DOMAIN sourceChan' PROVE sourceChan'[i] = Received + i
    <3>1. CASE i = Len(sourceChan) + 1
      <4>1. Len(emitted) + 1 = Received + (Len(sourceChan) + 1) BY <1>2 DEF Received
      <4>. QED BY <1>5, <3>1, <4>1
    <3>2. CASE i \in 1 .. Len(sourceChan) BY <1>2, <1>5, <3>2 DEF Ordered, InSource
    <3>. QED BY <1>2, <1>5, <2>1, <3>1, <3>2
  <2>2. Len(sourceChan') <= Len(emitted') BY <1>2, <1>3, <1>5 DEF Ordered, InSource
  <2>. QED BY <1>6, <1>7, <2>1, <2>2 DEF Ordered, InSource
<1>9. Frontier(f)' BY <1>1, <1>6, <1>7 DEF Handed, Frontier, Held
<1>10. \A n \in 1 .. f : Owners'[n] = Owners[n]
  <2>1. ASSUME NEW n \in 1 .. f PROVE Owners'[n] = Owners[n]
    <3>1. n \in DOMAIN emitted /\ n \in DOMAIN emitted' /\ emitted'[n] = emitted[n] BY <1>2, <1>3
    <3>. QED BY <3>1 DEF Owners, Owner
  <2>. QED BY <2>1
<1>11. Hand' = Hand BY <1>6 DEF Hand
<1>12. Handed(f)' BY <1>1, <1>6, <1>9, <1>10, <1>11, HandedFrame
<1>. QED BY <1>8, <1>12 DEF Ordered

LEMMA OrderedReceive ==
  ASSUME TypeOK, Ordered, Receive
  PROVE  Ordered'
<1>1. PICK f \in Nat : Handed(f) BY DEF Ordered
<1>2. Received \in Nat /\ Len(emitted) \in Nat /\ Len(sourceChan) \in Nat
  BY <1>1, DataTypes DEF Ordered, Handed
<1>3. /\ Len(sourceChan) \in Nat \ {0} /\ DOMAIN sourceChan = 1 .. Len(sourceChan)
      /\ Len(sourceChan') = Len(sourceChan) - 1 /\ DOMAIN sourceChan' = 1 .. Len(sourceChan) - 1
      /\ dispatcher'.tick = sourceChan[1] /\ dispatcher'.at = "on" /\ sourceChan[1] \in Tick
      /\ \A i \in 1 .. Len(sourceChan) - 1 : sourceChan'[i] = sourceChan[i + 1]
  BY Taken DEF Receive, TypeOK
<1>4. UNCHANGED <<emitted, cancelled, worker, workerChan, processed>> /\ dispatcher.tick = 0 /\ dispatcher.at = "on"
  BY DEF Receive, control, workers
<1>5. Received' = Received + 1 BY <1>2, <1>3, <1>4 DEF Received
<1>6. \A i \in 1 .. Len(sourceChan) : sourceChan[i] = Received + i BY <1>3 DEF Ordered, InSource
<1>7. InSource'
  <2>1. ASSUME NEW i \in DOMAIN sourceChan' PROVE sourceChan'[i] = Received' + i
    <3>1. i \in 1 .. Len(sourceChan) - 1 /\ i + 1 \in 1 .. Len(sourceChan) BY <1>2, <1>3
    <3>2. sourceChan'[i] = Received + (i + 1) BY <1>3, <1>6, <3>1
    <3>. QED BY <1>2, <1>5, <3>1, <3>2
  <2>2. dispatcher'.tick = Received' BY <1>3, <1>5, <1>6
  <2>3. Len(sourceChan') <= Len(emitted') BY <1>2, <1>3, <1>4 DEF Ordered, InSource
  <2>. QED BY <2>1, <2>2, <2>3 DEF InSource
<1>8. dispatcher'.tick # 0 BY <1>3, Constants DEF Tick
<1>9. Frontier(f)' BY <1>1, <1>2, <1>4, <1>5, <1>8 DEF Handed, Frontier, Held
<1>10. Owners' = Owners /\ Hand' = Hand BY <1>4 DEF Owners, Owner, Hand
<1>11. Handed(f)' BY <1>1, <1>4, <1>9, <1>10, HandedFrame
<1>. QED BY <1>7, <1>11 DEF Ordered

(* The dispatcher hands its tick over: the frontier moves on. *)
LEMMA OrderedRoute ==
  ASSUME TypeOK, Ordered, Route
  PROVE  Ordered'
<1>1. PICK f \in Nat : Handed(f) BY DEF Ordered
<1>2. /\ Data(f, [n \in 1 .. f |-> Owners[n]], Hand, workerChan, processed)
      /\ Received \in Nat /\ Len(emitted) \in Nat /\ Len(sourceChan) \in Nat
      /\ DOMAIN emitted = 1 .. Len(emitted) /\ Owners \in [1 .. Len(emitted) -> Worker]
  BY <1>1, DataTypes DEF Ordered, Handed
<1>3. /\ UNCHANGED <<emitted, sourceChan, cancelled, worker, processed>>
      /\ dispatcher.at = "on" /\ dispatcher.tick # 0 /\ dispatcher'.at = "on" /\ dispatcher'.tick = 0
      /\ workerChan' = [workerChan EXCEPT ![Owner(dispatcher.tick)] = Append(@, dispatcher.tick)]
  BY DEF Route, control, source
<1>4. dispatcher.tick = f + 1 /\ f + 1 = Received /\ Received <= Len(emitted)
  <2>1. f = Received - 1 BY <1>1, <1>3 DEF Handed, Frontier, Held
  <2>2. dispatcher.tick = Received BY <1>3 DEF Ordered, InSource
  <2>3. Received <= Len(emitted) BY <1>2 DEF Received
  <2>. QED BY <1>2, <2>1, <2>2, <2>3
<1>5. f + 1 \in 1 .. Len(emitted) BY <1>2, <1>4
<1>6. Owners[f + 1] = Owner(dispatcher.tick) /\ Owners[f + 1] \in Worker BY <1>2, <1>4, <1>5 DEF Owners
<1>7. [n \in 1 .. f + 1 |-> Owners[n]] \in [1 .. f + 1 -> Worker] BY <1>2, <1>4
<1>8. Delivered(f + 1, [n \in 1 .. f + 1 |-> Owners[n]], Hand, workerChan', processed)
  <2> DEFINE own == [n \in 1 .. f |-> Owners[n]]
             own1 == [n \in 1 .. f + 1 |-> Owners[n]]
             w == Owners[f + 1]
  <2>1. own1[f + 1] = w /\ \A n \in 1 .. f : own1[n] = own[n] OBVIOUS
  <2>2. workerChan' = [workerChan EXCEPT ![w] = Append(@, f + 1)] BY <1>3, <1>4, <1>6
  <2>3. Delivered(f, own, Hand, workerChan, processed) /\ Data(f, own, Hand, workerChan, processed)
    BY <1>1, <1>2 DEF Handed
  <2>4. w \in Worker /\ own1 \in [1 .. f + 1 -> Worker] BY <1>6, <1>7
  <2>. HIDE DEF own, own1, w
  <2>5. Delivered(f + 1, own1, Hand, [workerChan EXCEPT ![w] = Append(@, f + 1)], processed)
    BY <2>1, <2>3, <2>4, DeliveredRoute
  <2>. QED BY <2>2, <2>5 DEF own1
<1>9. InSource' BY <1>3 DEF Ordered, InSource, Received
<1>10. Owners' = Owners /\ Hand' = Hand /\ Received' = Received BY <1>3 DEF Owners, Owner, Hand, Received
<1>11. Frontier(f + 1)' BY <1>2, <1>3, <1>4, <1>10 DEF Frontier, Held
<1>12. Handed(f + 1)' BY <1>3, <1>8, <1>10, <1>11 DEF Handed
<1>13. f + 1 \in Nat OBVIOUS
<1>. QED BY <1>9, <1>12, <1>13 DEF Ordered

LEMMA OrderedEnd ==
  ASSUME TypeOK, Ordered, DispatcherEnds
  PROVE  Ordered'
<1>1. PICK f \in Nat : Handed(f) BY DEF Ordered
<1>2. Received \in Nat BY <1>1, DataTypes DEF Ordered, Handed
<1>3. /\ UNCHANGED <<emitted, sourceChan, cancelled, worker, workerChan, processed>>
      /\ dispatcher.at = "on" /\ dispatcher'.at = "done" /\ dispatcher'.tick = 0
      /\ cancelled \/ dispatcher.tick = 0
  BY DEF DispatcherEnds, EndOfStream, control, source
<1>4. InSource' BY <1>3 DEF Ordered, InSource, Received
<1>5. Owners' = Owners /\ Hand' = Hand /\ Received' = Received BY <1>3 DEF Owners, Owner, Hand, Received
<1>6. Frontier(f)' BY <1>1, <1>2, <1>3, <1>5 DEF Handed, Frontier, Held
<1>7. Handed(f)' BY <1>1, <1>3, <1>5, <1>6, HandedFrame
<1>. QED BY <1>4, <1>7 DEF Ordered

LEMMA OrderedWorker ==
  ASSUME TypeOK, Ordered, NEW w \in Worker, Take(w) \/ Finish(w)
  PROVE  Ordered'
<1>1. PICK f \in Nat : Handed(f) BY DEF Ordered
<1>2. Data(f, [n \in 1 .. f |-> Owners[n]], Hand, workerChan, processed)
  BY <1>1, DataTypes DEF Ordered, Handed
<1>3. UNCHANGED <<emitted, sourceChan, cancelled, dispatcher>>
  BY DEF Take, Finish, control, source
<1>4. InSource' /\ Frontier(f)' /\ Owners' = Owners
  BY <1>1, <1>3 DEF Ordered, Handed, InSource, Frontier, Received, Held, Owners, Owner
<1>5. Hand[w] = worker[w].tick BY DEF Hand
<1>6. Delivered(f, [n \in 1 .. f |-> Owners[n]], Hand, workerChan, processed) BY <1>1 DEF Handed
<1>7. Delivered(f, [n \in 1 .. f |-> Owners[n]], Hand', workerChan', processed')
  <2>1. CASE Take(w)
    <3>1. Hand[w] = 0 /\ workerChan[w] # <<>> BY <1>5, <2>1 DEF Take, Free
    <3>2. Hand' = [Hand EXCEPT ![w] = Head(workerChan[w])]
      <4>1. worker' = [worker EXCEPT ![w].tick = Head(workerChan[w])] BY <2>1 DEF Take
      <4>. QED BY <4>1 DEF Hand, TypeOK
    <3>3. workerChan' = [workerChan EXCEPT ![w] = Tail(@)] /\ processed' = processed BY <2>1 DEF Take
    <3>. QED BY <1>2, <1>6, <3>1, <3>2, <3>3, DeliveredTake
  <2>2. CASE Finish(w)
    <3>1. Hand[w] # 0 BY <1>5, <2>2 DEF Finish
    <3>2. Hand' = [Hand EXCEPT ![w] = 0]
      <4>1. worker' = [worker EXCEPT ![w].tick = 0] BY <2>2 DEF Finish
      <4>. QED BY <4>1 DEF Hand, TypeOK
    <3>3. processed' = Append(processed, Hand[w]) /\ workerChan' = workerChan BY <1>5, <2>2 DEF Finish
    <3>. QED BY <1>2, <1>6, <3>1, <3>2, <3>3, DeliveredFinish
  <2>. QED BY <2>1, <2>2
<1>8. Handed(f)' BY <1>4, <1>7 DEF Handed
<1>. QED BY <1>4, <1>8 DEF Ordered

LEMMA OrderedStep ==
  ASSUME Lifecycle, Ordered, [Next]_vars
  PROVE  Ordered'
<1>. USE DEF Lifecycle
<1>1. CASE StartWorkers
  <2>1. Hand' = Hand
    <3>1. \A w \in Worker : worker[w].tick = 0 BY <1>1 DEF StartWorkers, Phases
    <3>. QED BY <1>1, <3>1 DEF StartWorkers, Hand
  <2>. QED BY <1>1, <2>1, OrderedFrame DEF StartWorkers, source
<1>2. CASE StartDispatcher
  <2>1. dispatcher'.tick = dispatcher.tick /\ dispatcher'.at # "done" /\ dispatcher.at # "done"
    BY <1>2 DEF StartDispatcher, Phases, TypeOK
  <2>2. UNCHANGED <<emitted, sourceChan, workerChan, processed, worker, cancelled>> BY <1>2 DEF StartDispatcher, workers
  <2>3. Hand' = Hand BY <2>2 DEF Hand
  <2>. QED BY <2>1, <2>2, <2>3, OrderedFrame
<1>3. ASSUME NEW w \in Worker, Halt(w) \/ WorkerEnds(w) PROVE Ordered'
  <2>1. UNCHANGED <<emitted, sourceChan, dispatcher, workerChan, processed, cancelled>>
    BY <1>3 DEF Halt, WorkerEnds, source, control
  <2>2. PICK a \in {"drain", "done"} : worker' = [worker EXCEPT ![w].at = a] BY <1>3 DEF Halt, WorkerEnds
  <2>3. Hand' = Hand BY <2>2 DEF Hand, TypeOK
  <2>. QED BY <2>1, <2>3, OrderedFrame
<1>4. CASE UNCHANGED <<emitted, sourceChan, dispatcher, workers>> /\ (cancelled => cancelled')
  <2>1. Hand' = Hand BY <1>4 DEF Hand, workers
  <2>. QED BY <1>4, <2>1, OrderedFrame DEF workers
<1>5. ASSUME \/ Connect \/ SignalDone \/ Stop \/ StopReturns \/ LateTick \/ GiveUp \/ Query \/ ReadEnds
             \/ UNCHANGED vars
      PROVE  UNCHANGED <<emitted, sourceChan, dispatcher, workers>> /\ (cancelled => cancelled')
  BY <1>5 DEF Connect, SignalDone, Stop, StopReturns, LateTick, GiveUp, Query, ReadEnds, vars, control, stream, source
<1>6. ASSUME NEW t \in Token, Emit(t) \/ OnTick(t) PROVE Ordered'
  BY <1>6, OrderedSend DEF Emit, OnTick
<1>. HIDE DEF Lifecycle
<1>7. TypeOK BY DEF Lifecycle
<1>. QED
  BY <1>1, <1>2, <1>3, <1>4, <1>5, <1>6, <1>7, OrderedReceive, OrderedRoute, OrderedEnd, OrderedWorker
     DEF Next, StartStep, ReaderStep, DispatcherStep, WorkerStep

LEMMA InitOrdered == Init => Ordered
<1>. SUFFICES ASSUME Init PROVE Ordered OBVIOUS
<1>1. emitted = <<>> /\ sourceChan = <<>> /\ processed = <<>> /\ dispatcher.tick = 0 BY DEF Init
<1>2. \A w \in Worker : workerChan[w] = <<>> /\ Hand[w] = 0 BY DEF Init, Hand
<1>3. Received = 0 /\ Held = 0 BY <1>1 DEF Received, Held
<1>4. InSource BY <1>1, <1>3 DEF InSource
<1>5. Frontier(0) BY <1>3 DEF Frontier
<1>6. Delivered(0, [n \in 1 .. 0 |-> Owners[n]], Hand, workerChan, processed)
  BY <1>1, <1>2 DEF Delivered, Belong, Queued, PastFirst
<1>. QED BY <1>4, <1>5, <1>6 DEF Ordered, Handed

(* The ticks a source has sent lie, in their order and none of them twice, along its channel,
   the dispatcher's hand, the channels of the workers, their hands and what is processed. *)
THEOREM OrderedKept == Spec => []Ordered
<1>1. Lifecycle /\ Ordered /\ [Next]_vars => Ordered' BY OrderedStep
<1>. QED BY InitOrdered, <1>1, LifecycleKept, PTL DEF Spec

(* The ticks of a token are processed in the order they were sent in, each once and without a
   gap, however many workers there are and wherever Stop cuts the stream off. *)
THEOREM TokenOrderKept == Spec => []TokenOrder
<1>1. TypeOK /\ Ordered => TokenOrder
  <2>. SUFFICES ASSUME TypeOK, Ordered, NEW j \in DOMAIN processed, NEW n \in 1 .. processed[j],
                       emitted[n] = emitted[processed[j]]
                PROVE  \E i \in 1 .. j : processed[i] = n /\ (i < j <=> n < processed[j])
    BY DEF TokenOrder
  <2>1. PICK f \in Nat : Handed(f) BY DEF Ordered
  <2> DEFINE own == [m \in 1 .. f |-> Owners[m]]
  <2>2. /\ Data(f, own, Hand, workerChan, processed) /\ Delivered(f, own, Hand, workerChan, processed)
        /\ f <= Len(emitted) /\ DOMAIN emitted = 1 .. Len(emitted) /\ Len(emitted) \in Nat
    BY <2>1, DataTypes DEF Ordered, Handed
  <2>3. processed[j] \in 1 .. f BY <2>2 DEF Delivered, Belong
  <2>4. own[n] = own[processed[j]]
    <3>1. n \in 1 .. f /\ n \in DOMAIN emitted /\ processed[j] \in DOMAIN emitted BY <2>2, <2>3
    <3>. QED BY <2>3, <3>1 DEF Owners, Owner
  <2>. HIDE DEF own
  <2>. QED BY <2>2, <2>4, DeliveredInOrder
<1>. QED BY <1>1, TypeCorrect, OrderedKept, PTL

(* Nobody waits on a pool that waits on itself: when Stop waits or the source has ended, the
   dispatcher or a worker can go on, Start is about to launch the dispatcher, or all have
   returned, whatever is in the channels and however little room they have. *)
THEOREM PoolKept == Spec => []PoolGoesOn
<1>1. Lifecycle /\ Ordered => PoolGoesOn
  <2>. SUFFICES ASSUME Lifecycle, Ordered, stop = "waiting" \/ reader = "done", ~PoolEmpty, start # "workers"
                PROVE  DispatcherReady \/ \E w \in Worker : WorkerReady(w)
    BY DEF PoolGoesOn
  <2>1. start = "started" /\ dispatcher.at \in {"on", "done"}
    BY DEF Lifecycle, Phases, PoolEmpty, TypeOK
  <2>2. \A w \in Worker : worker[w].at # "off" BY <2>1 DEF Lifecycle, Phases
  <2>3. ASSUME NEW w \in Worker, worker[w].at # "done", workerChan[w] # <<>> \/ workersClosed
        PROVE  WorkerReady(w)
    <3>1. worker[w].at \in {"on", "drain"} BY <2>2, <2>3 DEF Lifecycle, TypeOK
    <3>. QED BY <2>3, <3>1 DEF WorkerReady, Free, Drained
  <2>4. CASE dispatcher.at = "done"
    <3>1. PICK w \in Worker : worker[w].at # "done" BY <2>2, <2>4 DEF PoolEmpty
    <3>2. workersClosed BY <2>4 DEF Lifecycle, Closings
    <3>. QED BY <2>3, <3>1, <3>2
  <2>5. CASE dispatcher.at = "on" /\ ~DispatcherReady
    <3>1. ~cancelled BY <2>5 DEF DispatcherReady
    <3>2. sourceClosed BY <3>1 DEF Lifecycle, Stops, Closings
    <3>3. dispatcher.tick # 0 BY <2>5, <3>2 DEF DispatcherReady, EndOfStream
    <3>. DEFINE w == Owner(dispatcher.tick)
    <3>4. ~Room(workerChan[w]) BY <2>5, <3>3 DEF DispatcherReady
    <3>5. w \in Worker /\ workerChan[w] # <<>>
      <4>1. PICK f \in Nat : Handed(f) BY DEF Ordered
      <4>2. /\ Received \in Nat /\ Received <= Len(emitted) /\ Owners \in [1 .. Len(emitted) -> Worker]
            /\ DOMAIN emitted = 1 .. Len(emitted)
        BY <4>1, DataTypes DEF Ordered, Handed, Lifecycle, Received
      <4>3. dispatcher.tick = Received /\ dispatcher.tick # 0 BY <3>3 DEF Ordered, InSource
      <4>4. dispatcher.tick \in 1 .. Len(emitted) BY <4>2, <4>3
      <4>5. w \in Worker BY <4>2, <4>4 DEF Owners
      <4>6. Len(workerChan[w]) # 0
        <5>1. Len(workerChan[w]) \in Nat BY <4>5 DEF Lifecycle, TypeOK
        <5>. HIDE DEF w
        <5>. QED BY <3>4, <5>1, Constants DEF Room
      <4>. HIDE DEF w
      <4>. QED BY <4>5, <4>6
    <3>6. worker[w].at # "done" BY <2>5, <3>5 DEF Lifecycle, Phases, Closings
    <3>. HIDE DEF w
    <3>. QED BY <2>3, <3>5, <3>6
  <2>. QED BY <2>1, <2>4, <2>5
<1>. QED BY <1>1, LifecycleKept, OrderedKept, PTL

(* The safety half of StreamEnds: when done is closed and nobody has stopped the stream, every
   tick the source has sent has been processed. *)
EverythingProcessed ==
  done /\ ~cancelled => \A n \in DOMAIN emitted : \E i \in DOMAIN processed : processed[i] = n

THEOREM DoneMeansAll == Spec => []EverythingProcessed
<1>1. Lifecycle /\ Ordered => EverythingProcessed
  <2>. SUFFICES ASSUME Lifecycle, Ordered, done, ~cancelled, NEW n \in DOMAIN emitted
                PROVE  \E i \in DOMAIN processed : processed[i] = n
    BY DEF EverythingProcessed
  <2>1. PICK f \in Nat : Handed(f) BY DEF Ordered
  <2> DEFINE own == [m \in 1 .. f |-> Owners[m]]
  <2>2. /\ Data(f, own, Hand, workerChan, processed) /\ Delivered(f, own, Hand, workerChan, processed)
        /\ Received \in Nat /\ Len(emitted) \in Nat /\ DOMAIN emitted = 1 .. Len(emitted)
    BY <2>1, DataTypes DEF Ordered, Handed, Lifecycle
  <2>3. start = "started" /\ dispatcher.at = "done" BY DEF Lifecycle, Stops, Phases, Ended, PoolEmpty
  <2>4. \A w \in Worker : workerChan[w] = <<>> /\ Hand[w] = 0
    BY <2>3 DEF Lifecycle, Stops, Phases, Ended, PoolEmpty, Hand
  <2>5. sourceChan = <<>> /\ dispatcher.tick = 0 BY <2>3 DEF Lifecycle, Closings, Phases
  <2>6. f = Len(emitted)
    <3>1. Received = Len(emitted) /\ Held = 0 BY <2>2, <2>5 DEF Received, Held
    <3>. QED BY <2>1, <2>2, <3>1 DEF Handed, Frontier
  <2>7. n \in 1 .. f /\ n # 0 BY <2>2, <2>6
  <2>8. ~Nowhere(n, own, Hand, workerChan, processed) /\ own[n] \in Worker
    <3>. HIDE DEF own
    <3>. QED BY <2>2, <2>7 DEF Delivered, Data
  <2>. HIDE DEF own
  <2>. QED BY <2>4, <2>7, <2>8 DEF Nowhere
<1>. QED BY <1>1, LifecycleKept, OrderedKept, PTL
-----------------------------------------------------------------------------
(* The stream manager delivers ticks as TickDelivery promises.  The tick a worker takes is
   the next one of its instrument: the earlier ones are processed. *)
LEMMA DeliveredFirst ==
  ASSUME NEW f, NEW own, NEW hand, NEW chan, NEW past, Data(f, own, hand, chan, past),
         Delivered(f, own, hand, chan, past), NEW w \in Worker, hand[w] = 0, chan[w] # <<>>
  PROVE  /\ Head(chan[w]) \in 1 .. f /\ own[Head(chan[w])] = w
         /\ \A u \in Worker : hand[u] # Head(chan[w])
         /\ \A j \in DOMAIN past : past[j] # Head(chan[w])
         /\ \A m \in 1 .. f : m < Head(chan[w]) /\ own[m] = w => \E j \in DOMAIN past : past[j] = m
<1>. DEFINE n == Head(chan[w])
<1>1. f \in Nat /\ hand \in [Worker -> Nat] /\ chan \in [Worker -> Seq(Nat)] BY DEF Data
<1>2. /\ n = chan[w][1] /\ 1 \in DOMAIN chan[w] /\ Len(chan[w]) \in Nat /\ DOMAIN chan[w] = 1 .. Len(chan[w])
  BY <1>1, Taken
<1>. HIDE DEF n
<1>3. n \in 1 .. f /\ own[n] = w BY <1>2 DEF Delivered, Belong
<1>4. ASSUME NEW u \in Worker, hand[u] = n PROVE FALSE
  <2>1. hand[u] # 0 BY <1>1, <1>3, <1>4
  <2>2. u = w BY <1>3, <1>4, <2>1 DEF Delivered, Belong
  <2>. QED BY <1>4, <2>1, <2>2
<1>5. ASSUME NEW j \in DOMAIN past, past[j] = n PROVE FALSE
  <2>1. past[j] < chan[w][1] BY <1>2, <1>3, <1>5 DEF Delivered, PastFirst
  <2>. QED BY <1>1, <1>2, <1>3, <1>5, <2>1
<1>6. ASSUME NEW m \in 1 .. f, m < n, own[m] = w
      PROVE  \E j \in DOMAIN past : past[j] = m
  <2>1. hand[own[m]] # m BY <1>1, <1>6
  <2>2. ASSUME NEW i \in DOMAIN chan[w], chan[w][i] = m PROVE FALSE
    <3>1. i # 1 BY <1>1, <1>2, <1>3, <1>6, <2>2
    <3>2. 1 < i BY <1>2, <3>1
    <3>3. n < m BY <1>2, <2>2, <3>2 DEF Delivered, Queued
    <3>. QED BY <1>1, <1>3, <1>6, <3>3
  <2>. QED BY <1>6, <2>1, <2>2 DEF Delivered, Nowhere
<1>. QED BY <1>3, <1>4, <1>5, <1>6 DEF n

LEMMA SameHands ==
  ASSUME \A w \in Worker : worker'[w].tick = worker[w].tick
  PROVE  InHands' = InHands
  BY DEF InHands

LEMMA TakeDelivers ==
  ASSUME Lifecycle, Ordered, NEW w \in Worker, Take(w)
  PROVE  Delivery!Next
<1>. DEFINE n == Head(workerChan[w])
<1>1. PICK f \in Nat : Handed(f) BY DEF Ordered
<1>. DEFINE own == [m \in 1 .. f |-> Owners[m]]
<1>2. /\ Data(f, own, Hand, workerChan, processed) /\ Delivered(f, own, Hand, workerChan, processed)
      /\ f <= Len(emitted) /\ DOMAIN emitted = 1 .. Len(emitted) /\ Len(emitted) \in Nat
  BY <1>1, DataTypes DEF Ordered, Handed, Lifecycle
<1>3. /\ Hand[w] = 0 /\ workerChan[w] # <<>> /\ worker' = [worker EXCEPT ![w].tick = n]
      /\ UNCHANGED <<emitted, processed, cancelled, done, stop>>
  BY DEF Hand, Take, Free, control, source
<1>4. /\ n \in 1 .. f /\ own[n] = w
      /\ \A u \in Worker : Hand[u] # n
      /\ \A j \in DOMAIN processed : processed[j] # n
      /\ \A m \in 1 .. f : m < n /\ own[m] = w => \E j \in DOMAIN processed : processed[j] = m
  <2>. HIDE DEF own
  <2>. QED BY <1>2, <1>3, DeliveredFirst
<1>. HIDE DEF n
<1>5. ASSUME NEW m \in DOMAIN emitted, m < n, emitted[m] = emitted[n]
      PROVE  \E j \in DOMAIN processed : processed[j] = m
  <2>1. n \in DOMAIN emitted /\ m \in 1 .. f BY <1>2, <1>4, <1>5
  <2>2. own[m] = own[n] BY <1>4, <1>5, <2>1 DEF Owners, Owner
  <2>. QED BY <1>4, <1>5, <2>1, <2>2
<1>6. ~done /\ stop # "returned"
  <2>1. ~Ended BY DEF Take, Free, Ended, PoolEmpty
  <2>2. ~Never BY <1>3 DEF Never, Lifecycle, Silence
  <2>. QED BY <2>1, <2>2 DEF Lifecycle, Stops
<1>7. n \in DOMAIN emitted /\ n # 0 BY <1>2, <1>4
<1>8. n \notin InHands BY <1>4 DEF InHands, Hand
<1>9. InHands' = InHands \cup {n}
  <2>1. worker[w].tick = 0 /\ worker'[w].tick = n /\ \A u \in Worker \ {w} : worker'[u].tick = worker[u].tick
    BY <1>3 DEF Hand, Lifecycle, TypeOK
  <2>. QED BY <1>7, <2>1 DEF InHands
<1>10. Delivery!Begin(n)
  <2>1. ~Delivery!Past(n) BY <1>4 DEF Delivery!Past
  <2>2. \A m \in DOMAIN emitted : m < n /\ emitted[m] = emitted[n] => Delivery!Past(m) BY <1>5 DEF Delivery!Past
  <2>. QED BY <1>3, <1>6, <1>8, <1>9, <2>1, <2>2 DEF Delivery!Begin
<1>. QED BY <1>7, <1>10 DEF Delivery!Next

(* No two workers hold the same tick. *)
LEMMA FinishDelivers ==
  ASSUME Lifecycle, Ordered, NEW w \in Worker, Finish(w)
  PROVE  Delivery!Next
<1>. DEFINE n == worker[w].tick
<1>1. PICK f \in Nat : Handed(f) BY DEF Ordered
<1>. DEFINE own == [m \in 1 .. f |-> Owners[m]]
<1>2. \A u \in Worker : Hand[u] # 0 => own[Hand[u]] = u
  BY <1>1 DEF Handed, Delivered, Belong
<1>. HIDE DEF own
<1>3. ASSUME NEW u \in Worker \ {w}, worker[u].tick = n PROVE FALSE
  <2>1. n # 0 /\ Hand[w] = n /\ Hand[u] = n BY <1>3 DEF Finish, Hand
  <2>2. own[n] = w /\ own[n] = u
    <3>. HIDE DEF n
    <3>. QED BY <1>2, <1>3, <2>1
  <2>. QED BY <1>3, <2>2
<1>4. /\ n # 0 /\ processed' = Append(processed, n) /\ UNCHANGED <<emitted, cancelled, done, stop>>
      /\ worker' = [worker EXCEPT ![w].tick = 0]
  BY DEF Finish, control, source
<1>5. n \in InHands BY <1>4 DEF InHands
<1>6. InHands' = InHands \ {n}
  <2>1. worker'[w].tick = 0 /\ \A u \in Worker \ {w} : worker'[u].tick = worker[u].tick
    BY <1>4 DEF Lifecycle, TypeOK
  <2>. QED BY <1>3, <2>1 DEF InHands
<1>7. Delivery!Finish(n)
  <2>. HIDE DEF n
  <2>. QED BY <1>4, <1>6 DEF Delivery!Finish
<1>. QED BY <1>5, <1>7 DEF Delivery!Next

LEMMA StepDelivers ==
  ASSUME Lifecycle, Ordered, [Next]_vars, EverythingProcessed'
  PROVE  [Delivery!Next]_(Delivery!vars)
<1>. DEFINE Outside == UNCHANGED <<emitted, processed, cancelled, done, stop>>
<1>1. Outside /\ InHands' = InHands => UNCHANGED Delivery!vars BY DEF Delivery!vars
<1>2. ASSUME NEW t \in Token, Emit(t) \/ OnTick(t) PROVE Delivery!Send(t)
  <2>1. /\ reader = "reading" /\ emitted' = Append(emitted, t)
        /\ UNCHANGED <<processed, cancelled, done, stop, worker>>
    BY <1>2 DEF Emit, OnTick, Send, control, workers
  <2>2. done => cancelled
    <3>1. ASSUME done, ~cancelled PROVE FALSE
      <4>1. dispatcher.at = "done" BY <3>1 DEF Lifecycle, Stops, Phases, Ended, PoolEmpty
      <4>. QED BY <2>1, <3>1, <4>1 DEF Lifecycle, Closings
    <3>. QED BY <3>1
  <2>3. InHands' = InHands BY <2>1, SameHands
  <2>. QED BY <2>1, <2>2, <2>3 DEF Delivery!Send
<1>3. PoolEmpty => InHands = {} BY DEF PoolEmpty, Lifecycle, Phases, InHands
<1>4. CASE Stop
  <2>1. cancelled' = TRUE /\ UNCHANGED <<emitted, processed, done, worker>> /\ stop = "no" /\ stop' = "waiting"
    BY <1>4 DEF Stop, stream, source, workers
  <2>2. InHands' = InHands BY <2>1, SameHands
  <2>. QED BY <2>1, <2>2 DEF Delivery!Next, Delivery!Cut
<1>5. CASE StopReturns
  <2>1. /\ stop = "waiting" /\ stop' = "returned" /\ UNCHANGED <<emitted, processed, cancelled, done, worker>>
        /\ cancelled /\ PoolEmpty
    BY <1>5 DEF StopReturns, stream, source, workers, Lifecycle, Stops
  <2>2. InHands' = InHands BY <2>1, SameHands
  <2>. QED BY <1>3, <2>1, <2>2 DEF Delivery!Next, Delivery!Rest
<1>6. CASE SignalDone
  <2>1. done' = TRUE /\ UNCHANGED <<emitted, processed, cancelled, stop, worker>> /\ PoolEmpty
    BY <1>6 DEF SignalDone, stream, source, workers
  <2>2. cancelled \/ \A n \in DOMAIN emitted : Delivery!Past(n)
    BY <2>1 DEF EverythingProcessed, Delivery!Past
  <2>3. InHands' = InHands BY <2>1, SameHands
  <2>. QED BY <1>3, <2>1, <2>2, <2>3 DEF Delivery!Next, Delivery!Complete
<1>7. ASSUME \/ UNCHANGED vars \/ StartStep \/ Query \/ GiveUp \/ ReadEnds \/ LateTick \/ DispatcherStep
             \/ \E w \in Worker : Halt(w) \/ WorkerEnds(w)
      PROVE  Outside
  BY <1>7 DEF vars, StartStep, Connect, StartWorkers, StartDispatcher, Query, GiveUp, ReadEnds, LateTick, DispatcherStep,
       Receive, Route, DispatcherEnds, Halt, WorkerEnds, control, stream, source, workers
<1>8. ASSUME UNCHANGED vars \/ Connect \/ StartDispatcher \/ Query \/ GiveUp \/ ReadEnds \/ LateTick \/ DispatcherStep
      PROVE  InHands' = InHands
  <2>1. worker' = worker
    BY <1>8 DEF vars, Connect, StartDispatcher, Query, GiveUp, ReadEnds, LateTick, DispatcherStep, Receive, Route,
         DispatcherEnds, stream, source, workers
  <2>. QED BY <2>1, SameHands
<1>9. CASE StartWorkers
  <2>1. \A w \in Worker : worker[w].tick = 0 BY <1>9 DEF StartWorkers, Lifecycle, Phases
  <2>2. \A w \in Worker : worker'[w].tick = 0 BY <1>9 DEF StartWorkers
  <2>. QED BY <1>1, <1>7, <1>9, <2>1, <2>2, SameHands DEF StartStep
<1>10. ASSUME NEW w \in Worker, Halt(w) \/ WorkerEnds(w) PROVE InHands' = InHands
  <2>1. PICK a \in {"drain", "done"} : worker' = [worker EXCEPT ![w].at = a] BY <1>10 DEF Halt, WorkerEnds
  <2>2. \A u \in Worker : worker'[u].tick = worker[u].tick BY <2>1 DEF Lifecycle, TypeOK
  <2>. QED BY <2>2, SameHands
<1>11. (\E t \in Token : Emit(t) \/ OnTick(t)) => Delivery!Next BY <1>2 DEF Delivery!Next
<1>12. (\E w \in Worker : Take(w) \/ Finish(w)) => Delivery!Next BY TakeDelivers, FinishDelivers
<1>. HIDE DEF Outside
<1>. QED
  BY <1>1, <1>4, <1>5, <1>6, <1>7, <1>8, <1>9, <1>10, <1>11, <1>12 DEF Next, StartStep, ReaderStep, WorkerStep

(* However channels, workers, cancellation and goroutines interleave, whoever starts, stops and
   awaits the stream sees the ticks of an instrument processed one at a time in their order, a
   completion that means everything and a rest that lasts: every step is a step of
   TickDelivery or none. *)
THEOREM ImplementsDelivery == Spec => DeliverySpec
<1>1. Init => Delivery!Init
  <2>1. Init => InHands = {} BY DEF Init, InHands
  <2>. QED BY <2>1 DEF Init, Delivery!Init
<1>2. Lifecycle /\ Ordered /\ [Next]_vars /\ EverythingProcessed' => [Delivery!Next]_(Delivery!vars)
  BY StepDelivers
<1>. QED BY <1>1, <1>2, LifecycleKept, OrderedKept, DoneMeansAll, PTL DEF Spec, DeliverySpec, Delivery!Spec
=============================================================================
