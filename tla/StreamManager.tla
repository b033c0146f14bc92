---------------------------- MODULE StreamManager ----------------------------
(***************************************************************************)
(* The stream manager, stream/manager.go: a reader takes ticks from the    *)
(* source into sourceChan, the dispatcher routes each one to the channel   *)
(* of the worker that owns its instrument token, the workers run the       *)
(* pipeline.  Start runs in a goroutine of its own in backtests            *)
(* (app/web.go) and Stop is called from another one, so Stop may come      *)
(* before, during or after Start.                                          *)
(*                                                                         *)
(* A tick is the number of its send: emitted[n] is the token of tick n.    *)
(* kind chooses the source.  A database backtest waits for room, ends by   *)
(* itself, and reads nothing under a cancelled context; the live source    *)
(* sends from a callback of the ticker, drops what finds no room and ends  *)
(* only when cancelled.  Its callbacks may also give up and close it, with *)
(* the mutex held that closing needs.                                      *)
(*                                                                         *)
(* Abstracted: contents of ticks, the replay's pacing and pauses (the      *)
(* reader may always wait), what Process does.  A select with several      *)
(* ready cases takes any of them.                                          *)
(***************************************************************************)
EXTENDS Naturals, Sequences

CONSTANTS Token,       (* instrument tokens                                *)
          Processors,  (* processorCount                                   *)
          Cap,         (* room in a channel, 10000 and 5000 in the code    *)
          MaxTicks     (* bound: ticks a source sends                      *)

ASSUME StreamAssumption ==
  Token \subseteq Nat /\ Processors \in Nat \ {0} /\ Cap \in Nat \ {0} /\ MaxTicks \in Nat

Worker == 0 .. Processors - 1

VARIABLES kind,        (* "backtest" or "live"                             *)
          emitted,     (* the ticks sent to sourceChan, by number          *)
          cancelled,   (* ctx is cancelled                                 *)
          start,       (* where Start is                                   *)
          stop,        (* where Stop is                                    *)
          reader,      (* where the reader goroutine is                    *)
          sourceChan, sourceClosed,
          dispatcher,  (* where it is and the tick it holds, 0 for none    *)
          workerChan, workersClosed,
          worker,      (* where each worker is and the tick it processes   *)
          processed,   (* the numbers of the processed ticks, in order     *)
          done,        (* the channel done is closed                       *)
          locked,      (* a callback holds the live source's mutex for ever *)
          panic        (* a send on a closed channel ended the process     *)

control == <<kind, cancelled, start, stop, done, locked, panic>>
source == <<emitted, reader, sourceChan, sourceClosed>>
workers == <<workerChan, workersClosed, worker, processed>>
stream == <<source, dispatcher, workers>>
vars == <<control, stream>>

Tick == 1 .. MaxTicks

TypeOK ==
  /\ kind \in {"backtest", "live"}
  /\ emitted \in Seq(Token) /\ Len(emitted) <= MaxTicks
  /\ cancelled \in BOOLEAN /\ sourceClosed \in BOOLEAN /\ workersClosed \in BOOLEAN
  /\ done \in BOOLEAN /\ panic \in BOOLEAN /\ locked \in BOOLEAN
  /\ start \in {"no", "connected", "workers", "started", "failed"}
  /\ stop \in {"no", "waiting", "returned"}
  /\ reader \in {"off", "query", "reading", "done"}
  /\ sourceChan \in Seq(Tick) /\ Len(sourceChan) <= Cap
  /\ dispatcher \in [at: {"off", "on", "done"}, tick: {0} \cup Tick]
  /\ workerChan \in [Worker -> Seq(Tick)] /\ \A w \in Worker : Len(workerChan[w]) <= Cap
  /\ worker \in [Worker -> [at: {"off", "on", "drain", "done"}, tick: {0} \cup Tick]]
  /\ processed \in Seq(Tick)

Init ==
  /\ kind \in {"backtest", "live"}
  /\ emitted = <<>> /\ cancelled = FALSE /\ start = "no" /\ stop = "no"
  /\ reader = "off" /\ sourceChan = <<>> /\ sourceClosed = FALSE
  /\ dispatcher = [at |-> "off", tick |-> 0]
  /\ workerChan = [w \in Worker |-> <<>>] /\ workersClosed = FALSE
  /\ worker = [w \in Worker |-> [at |-> "off", tick |-> 0]]
  /\ processed = <<>> /\ done = FALSE /\ locked = FALSE /\ panic = FALSE
-----------------------------------------------------------------------------
(* workerPool counts the workers and the dispatcher that run. *)
PoolEmpty ==
  /\ dispatcher.at \in {"off", "done"}
  /\ \A w \in Worker : worker[w].at \in {"off", "done"}

(* What Connect may come to: the database is asked, under the context; the live source
   only makes its ticker. *)
Outcome ==
  IF kind = "live" THEN {"connected"} ELSE IF cancelled THEN {"failed"} ELSE {"connected", "failed"}

(* Start connects the source. *)
Connect ==
  /\ ~panic /\ start = "no"
  /\ start' \in Outcome
  /\ UNCHANGED <<kind, cancelled, stop, done, locked, panic, stream>>

StartWorkers ==
  /\ ~panic /\ start = "connected"
  /\ start' = "workers"
  /\ worker' = [w \in Worker |-> [at |-> "on", tick |-> 0]]
  /\ UNCHANGED <<kind, cancelled, stop, done, locked, panic, source, dispatcher, workerChan, workersClosed, processed>>

(* Start's end: the dispatcher runs and has launched the reader. *)
StartDispatcher ==
  /\ ~panic /\ start = "workers"
  /\ start' = "started"
  /\ dispatcher' = [dispatcher EXCEPT !.at = "on"]
  /\ reader' = "query"
  /\ UNCHANGED <<kind, cancelled, stop, done, locked, panic, emitted, sourceChan, sourceClosed, workers>>

(* The goroutine that waits for the pool closes done. *)
SignalDone ==
  /\ ~panic /\ start = "started" /\ PoolEmpty /\ ~done
  /\ done' = TRUE
  /\ UNCHANGED <<kind, cancelled, start, stop, locked, panic, stream>>

(* Stop: cancel, then wait for the pool.  The live application stops only after
   App.Start has returned. *)
Stop ==
  /\ ~panic /\ stop = "no"
  /\ kind = "live" => start = "started"
  /\ stop' = "waiting" /\ cancelled' = TRUE
  /\ UNCHANGED <<kind, start, done, locked, panic, stream>>

(* Stop's last call closes the source, which waits for the mutex of the live one. *)
StopReturns ==
  /\ ~panic /\ stop = "waiting" /\ PoolEmpty /\ ~locked
  /\ stop' = "returned"
  /\ UNCHANGED <<kind, cancelled, start, done, locked, panic, stream>>
-----------------------------------------------------------------------------
(* Mutant of Room: one too many. *)
RoomForMore(ch) == Len(ch) <= Cap
Room(ch) == Len(ch) < Cap

(* ReadTicks begins: the database refuses a query under a cancelled context. *)
Query ==
  /\ ~panic /\ reader = "query"
  /\ IF kind = "backtest" /\ cancelled
     THEN reader' = "done" /\ sourceClosed' = TRUE
     ELSE reader' = "reading" /\ UNCHANGED sourceClosed
  /\ UNCHANGED <<control, emitted, sourceChan, dispatcher, workers>>

Send(t) ==
  /\ Len(emitted) < MaxTicks /\ Room(sourceChan)
  /\ emitted' = Append(emitted, t)
  /\ sourceChan' = Append(sourceChan, Len(emitted'))
  /\ UNCHANGED <<control, reader, sourceClosed, dispatcher, workers>>

(* The replay waits for room in sourceChan. *)
Emit(t) ==
  /\ ~panic /\ kind = "backtest" /\ reader = "reading"
  /\ Send(t)

(* onTick sends a tick when there is room; one that finds none is dropped, which changes
   nothing here. *)
OnTick(t) ==
  /\ ~panic /\ kind = "live" /\ reader = "reading" /\ ~locked
  /\ Send(t)

(* The live source is closed, by ReadTicks or by Stop. *)
Closed == reader = "done" \/ stop = "returned"

(* onNoReconnect, or onConnect when the subscription is refused, calls Close while it
   holds the mutex: unless the source is closed already, Close waits for that mutex with
   stopOnce taken, and every other call of Close waits for stopOnce. *)
GiveUp ==
  /\ ~panic /\ kind = "live" /\ reader = "reading" /\ ~Closed /\ ~locked
  /\ locked' = TRUE
  /\ UNCHANGED <<kind, cancelled, start, stop, done, panic, stream>>

(* onTick after ReadTicks has returned: the callback sends on the closed channel. *)
LateTick ==
  /\ ~panic /\ kind = "live" /\ sourceClosed
  /\ panic' = TRUE
  /\ UNCHANGED <<kind, cancelled, start, stop, done, locked, stream>>

MayEnd == cancelled \/ kind = "backtest"

(* ReadTicks returns, its data at an end or its context cancelled; the live one calls
   Close first. *)
ReadEnds ==
  /\ ~panic /\ reader = "reading" /\ ~locked
  /\ MayEnd
  /\ reader' = "done" /\ sourceClosed' = TRUE
  /\ UNCHANGED <<control, emitted, sourceChan, dispatcher, workers>>
-----------------------------------------------------------------------------
(* runDispatcher receives a tick. *)
Receive ==
  /\ ~panic /\ dispatcher = [at |-> "on", tick |-> 0] /\ sourceChan # <<>>
  /\ dispatcher' = [at |-> "on", tick |-> Head(sourceChan)]
  /\ sourceChan' = Tail(sourceChan)
  /\ UNCHANGED <<control, emitted, reader, sourceClosed, workers>>

(* Mutant of Owner: ticks are dealt out in turn. *)
InTurn(n) == n % Processors
(* The worker of a tick: its instrument token modulo the number of workers. *)
Owner(n) == emitted[n] % Processors

(* runDispatcher hands its tick to the worker's channel, when there is room. *)
Route ==
  LET w == Owner(dispatcher.tick) IN
  /\ ~panic /\ dispatcher.at = "on" /\ dispatcher.tick # 0
  /\ Room(workerChan[w])
  /\ workerChan' = [workerChan EXCEPT ![w] = Append(@, dispatcher.tick)]
  /\ dispatcher' = [at |-> "on", tick |-> 0]
  /\ UNCHANGED <<control, source, workersClosed, worker, processed>>

EndOfStream == dispatcher.tick = 0 /\ sourceChan = <<>> /\ sourceClosed

(* Mutant of CloseWorkers: the deferred call is missing. *)
LeaveWorkers == UNCHANGED workersClosed
(* The deferred call of runDispatcher. *)
CloseWorkers == workersClosed' = TRUE

(* runDispatcher returns, on the end of the stream or, dropping the tick it holds,
   on cancellation. *)
DispatcherEnds ==
  /\ ~panic /\ dispatcher.at = "on"
  /\ cancelled \/ EndOfStream
  /\ dispatcher' = [at |-> "done", tick |-> 0]
  /\ CloseWorkers
  /\ UNCHANGED <<control, source, workerChan, worker, processed>>
-----------------------------------------------------------------------------
Free(w) == worker[w].at \in {"on", "drain"} /\ worker[w].tick = 0

(* runProcessor takes a tick; it is in Process until Finish. *)
Take(w) ==
  /\ ~panic /\ Free(w) /\ workerChan[w] # <<>>
  /\ worker' = [worker EXCEPT ![w].tick = Head(workerChan[w])]
  /\ workerChan' = [workerChan EXCEPT ![w] = Tail(@)]
  /\ UNCHANGED <<control, source, dispatcher, workersClosed, processed>>

Finish(w) ==
  /\ ~panic /\ worker[w].tick # 0
  /\ processed' = Append(processed, worker[w].tick)
  /\ worker' = [worker EXCEPT ![w].tick = 0]
  /\ UNCHANGED <<control, source, dispatcher, workerChan, workersClosed>>

(* On cancellation runProcessor drains its channel. *)
Halt(w) ==
  /\ ~panic /\ worker[w] = [at |-> "on", tick |-> 0] /\ cancelled
  /\ worker' = [worker EXCEPT ![w].at = "drain"]
  /\ UNCHANGED <<control, source, dispatcher, workerChan, workersClosed, processed>>

(* Mutant of Drained: what is left in the closed channel does not count. *)
DrainedWhenClosed(w) == workersClosed
Drained(w) == workersClosed /\ workerChan[w] = <<>>

(* runProcessor returns: its channel is closed and empty. *)
WorkerEnds(w) ==
  /\ ~panic /\ Free(w) /\ Drained(w)
  /\ worker' = [worker EXCEPT ![w].at = "done"]
  /\ UNCHANGED <<control, source, dispatcher, workerChan, workersClosed, processed>>
-----------------------------------------------------------------------------
StartStep == Connect \/ StartWorkers \/ StartDispatcher
ReaderStep == Query \/ (\E t \in Token : Emit(t) \/ OnTick(t)) \/ GiveUp \/ ReadEnds
DispatcherStep == Receive \/ Route \/ DispatcherEnds
WorkerStep(w) == Take(w) \/ Finish(w) \/ Halt(w) \/ WorkerEnds(w)

Next ==
  \/ StartStep \/ SignalDone
  \/ Stop \/ StopReturns
  \/ ReaderStep \/ LateTick
  \/ DispatcherStep
  \/ \E w \in Worker : WorkerStep(w)

(* Every goroutine that can run does.  A backtest's reader may be paused for ever
   and the live one waits for ticks, so they are only sure to end when cancelled. *)
Fairness ==
  /\ WF_vars(StartStep) /\ WF_vars(SignalDone) /\ WF_vars(StopReturns)
  /\ WF_vars(Query \/ (cancelled /\ ReadEnds))
  /\ WF_vars(DispatcherStep)
  /\ \A w \in Worker : WF_vars(WorkerStep(w))

Spec == Init /\ [][Next]_vars /\ Fairness
-----------------------------------------------------------------------------
(* "Guarantees chronological sequence per stock": the ticks of a token are processed
   once, in the order in which they were sent, and without a gap, also while Stop
   cancels everything: what is lost then is always the end of a token's stream. *)
TokenOrder ==
  \A j \in DOMAIN processed : \A n \in 1 .. processed[j] :
    emitted[n] = emitted[processed[j]] =>
      \E i \in 1 .. j : processed[i] = n /\ (i < j <=> n < processed[j])

(* "No background goroutines are accessing the pipeline structures" once Stop has
   returned, which is why the handler may reset positions and pipeline then: no tick is
   in a worker's hands and none will be, even if Stop overtook Start. *)
QuietAfterStop ==
  [][stop = "returned" =>
       processed' = processed /\ \A w \in Worker : worker'[w].tick = 0]_vars

(* Nobody waits on a pool that waits on itself: while Stop waits for it, or the source has
   ended, a goroutine of the pool can go on or all of them have returned.  A dispatcher in
   front of a full channel meets a worker that can take from it, a worker in front of an
   empty one a dispatcher that will feed or close it. *)
DispatcherReady ==
  /\ dispatcher.at = "on"
  /\ \/ cancelled \/ EndOfStream
     \/ dispatcher.tick = 0 /\ sourceChan # <<>>
     \/ dispatcher.tick # 0 /\ Room(workerChan[Owner(dispatcher.tick)])
WorkerReady(w) ==
  \/ worker[w].tick # 0
  \/ Free(w) /\ (workerChan[w] # <<>> \/ Drained(w))
PoolGoesOn ==
  stop = "waiting" \/ reader = "done" =>
    PoolEmpty \/ start = "workers" \/ DispatcherReady \/ \E w \in Worker : WorkerReady(w)

(* "Done signals when the stream manager has completed": once the source has ended the
   pool comes to an end, and unless the stream was stopped every tick the source sent has
   then been processed, by whichever worker.  And Stop returns, with every goroutine
   ended wherever it was: sending, receiving, processing or about to start.  The
   exception: when a live source has given up with its mutex held, workers and
   dispatcher end but Stop never returns, nor does ReadTicks. *)
StreamEnds ==
  /\ [](done /\ ~cancelled => \A n \in DOMAIN emitted : \E i \in DOMAIN processed : processed[i] = n)
  /\ reader = "done" ~> done \/ panic
  /\ stop = "waiting" ~>
       \/ panic
       \/ /\ PoolEmpty /\ start \notin {"connected", "workers"}
          /\ locked \/ (stop = "returned" /\ reader \in {"off", "done"})

(* The promises of TickDelivery hold of this manager, step by step: what is hidden in
   channels is seen as sent and not yet begun. *)
InHands == {worker[w].tick : w \in Worker} \ {0}
Delivery == INSTANCE TickDelivery
              WITH sent <- emitted, busy <- InHands, cut <- cancelled, quiet <- (stop = "returned")
DeliverySpec == Delivery!Spec
=============================================================================
