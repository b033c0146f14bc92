--------------------------- MODULE BacktestLifecycle ---------------------------
(***************************************************************************)
(* Which stream manager runs: the handlers of /api/backtest/start, /stop   *)
(* and /status (app/web.go) and the goroutine of a multi-day run           *)
(* (app/app.go) over the field a.StreamManager and the mutex managerMu.    *)
(*                                                                         *)
(* A stream manager is what StreamManager promises of it: under a          *)
(* cancelled context nothing starts, a running one ends by itself or       *)
(* because it is cancelled, and Stop and Wait return when it has ended.    *)
(* Start on a manager that was started before makes a second dispatcher    *)
(* on the same channels: closing them twice, or sending on a closed one,   *)
(* ends the process.                                                       *)
(*                                                                         *)
(* Abstracted: the database and pipeline initialisation (any of it may     *)
(* fail), the contents of dates, sources and replies.                      *)
(***************************************************************************)
EXTENDS Naturals, FiniteSets

CONSTANTS MaxRequests, (* bound: requests to start, stop or run several days *)
          MaxDays      (* bound: days of a multi-day run                   *)

ASSUME LifecycleAssumption == MaxRequests \in Nat /\ MaxDays \in Nat \ {0}

Request == 1 .. MaxRequests
Manager == 1 .. MaxRequests * MaxDays

VARIABLES lock,        (* who holds managerMu; "stuck" after a panic       *)
          current,     (* a.StreamManager, 0 for nil                       *)
          created,     (* managers made so far                             *)
          manager,     (* the state of each                                *)
          cancelled,   (* the managers whose context is cancelled          *)
          requests,    (* requests so far                                  *)
          launch,      (* the goroutine that is to start a new manager     *)
          run,         (* the goroutine of one that runs several days      *)
          queue,       (* len(BacktestQueue)                               *)
          index,       (* CurrentQueueIndex                                *)
          crashed,     (* a panic ended the process                        *)
          mixed        (* a start and a run, or two runs, have overlapped  *)

streams == <<created, manager, cancelled>>
status == <<queue, index>>
vars == <<lock, current, streams, requests, launch, run, status, crashed, mixed>>

RunState == {"no", "accepted", "next", "stopping", "launch", "waiting", "reset", "exit", "over"}

TypeOK ==
  /\ lock \in {"free", "start", "stop", "day", "stuck"}
  /\ created \in {0} \cup Manager
  /\ current \in 0 .. created
  /\ manager \in [Manager -> {"none", "new", "running", "doubled", "ended"}]
  /\ \A m \in Manager : manager[m] = "none" <=> m > created
  /\ cancelled \in SUBSET (1 .. created)
  /\ requests \in 0 .. MaxRequests
  /\ launch \in [Manager -> [at : {"no", "spawned", "read", "done"}, m : 0 .. created]]
  /\ run \in [Request -> [at : RunState, days : 0 .. MaxDays, day : 0 .. MaxDays, m : 0 .. created]]
  /\ \A r \in Request : run[r].days > 0 => run[r].day < run[r].days
  /\ queue \in 0 .. MaxDays /\ index \in 0 .. MaxDays
  /\ crashed \in BOOLEAN /\ mixed \in BOOLEAN

Init ==
  /\ lock = "free" /\ current = 0 /\ created = 0
  /\ manager = [m \in Manager |-> "none"] /\ cancelled = {}
  /\ requests = 0
  /\ launch = [g \in Manager |-> [at |-> "no", m |-> 0]]
  /\ run = [r \in Request |-> [at |-> "no", days |-> 0, day |-> 0, m |-> 0]]
  /\ queue = 0 /\ index = 0 /\ crashed = FALSE /\ mixed = FALSE
-----------------------------------------------------------------------------
Live == ~crashed
Active(r) == run[r].at \notin {"no", "over"}
StartPending == lock = "start" \/ \E g \in Manager : launch[g].at \in {"spawned", "read"}
Move(r, at) == run' = [run EXCEPT ![r].at = at]

(* The stream manager m of the field, if there is one: Stop's cancel, and its wait. *)
Cancelling == IF current = 0 THEN {} ELSE {current}
(* Mutant of Cancel: Stop waits without having cancelled. *)
WaitOnly == UNCHANGED cancelled
Cancel == cancelled' = cancelled \cup Cancelling

Quiet(m) == manager[m] \notin {"running", "doubled"}
(* Mutant of Stopped: nobody waits for the stream that was running. *)
StoppedAtOnce == TRUE
Stopped == current # 0 => Quiet(current)

(* initStreamManager. *)
NewManager ==
  /\ created' = created + 1 /\ current' = created + 1
  /\ manager' = [manager EXCEPT ![created + 1] = "new"]

(* A running stream ends; one that was started twice takes the process with it. *)
StreamEnds(m) ==
  /\ Live
  /\ \/ /\ manager[m] = "running"
        /\ manager' = [manager EXCEPT ![m] = "ended"]
        /\ UNCHANGED crashed
     \/ /\ manager[m] = "doubled"
        /\ crashed' = TRUE
        /\ UNCHANGED manager
  /\ UNCHANGED <<lock, current, created, cancelled, requests, launch, run, status, mixed>>

(* Manager.Start: Connect refuses a cancelled context. *)
Started(m) ==
  /\ m \notin cancelled
  /\ manager' = [manager EXCEPT ![m] = IF @ = "new" THEN "running" ELSE "doubled"]
-----------------------------------------------------------------------------
(* handleBacktestStart takes the lock and stops what runs. *)
StartRequest ==
  /\ Live /\ lock = "free" /\ requests < MaxRequests
  /\ requests' = requests + 1 /\ lock' = "start"
  /\ Cancel
  /\ mixed' = (mixed \/ \E r \in Request : Active(r))
  /\ UNCHANGED <<current, created, manager, launch, run, status, crashed>>

(* The rest of the handler: the new manager and the goroutine that is to start it. *)
StartReplies ==
  /\ Live /\ lock = "start" /\ Stopped
  /\ NewManager
  /\ launch' = [launch EXCEPT ![created + 1].at = "spawned"]
  /\ lock' = "free"
  /\ UNCHANGED <<cancelled, requests, run, status, crashed, mixed>>

(* An error on the way: the field keeps the manager that was stopped. *)
StartFails ==
  /\ Live /\ lock = "start" /\ Stopped
  /\ lock' = "free"
  /\ UNCHANGED <<current, streams, requests, launch, run, status, crashed, mixed>>

(* The goroutine reads a.StreamManager without the lock; nil ends the process. *)
LaunchReads(g) ==
  /\ Live /\ launch[g].at = "spawned"
  /\ IF current = 0
     THEN crashed' = TRUE /\ UNCHANGED launch
     ELSE launch' = [launch EXCEPT ![g] = [at |-> "read", m |-> current]] /\ UNCHANGED crashed
  /\ UNCHANGED <<lock, current, streams, requests, run, status, mixed>>

LaunchStarts(g) ==
  /\ Live /\ launch[g].at = "read"
  /\ launch' = [launch EXCEPT ![g] = [at |-> "done", m |-> 0]]
  /\ Started(launch[g].m) \/ UNCHANGED manager
  /\ UNCHANGED <<lock, current, created, cancelled, requests, run, status, crashed, mixed>>

(* handleBacktestStop: without a manager it only replies. *)
StopRequest ==
  /\ Live /\ lock = "free" /\ requests < MaxRequests
  /\ requests' = requests + 1
  /\ IF current = 0 THEN UNCHANGED <<lock, cancelled>> ELSE lock' = "stop" /\ Cancel
  /\ UNCHANGED <<current, created, manager, launch, run, status, crashed, mixed>>

(* ClearPositions, Pipeline.Reset, and the field is detached. *)
StopReplies ==
  /\ Live /\ lock = "stop" /\ Stopped
  /\ current' = 0 /\ lock' = "free"
  /\ UNCHANGED <<streams, requests, launch, run, status, crashed, mixed>>

(* The status handler slices the queue from the index, with the lock: out of range is a
   panic that the server recovers, and the mutex stays locked. *)
StatusPanics ==
  /\ Live /\ lock = "free" /\ index > queue
  /\ lock' = "stuck"
  /\ UNCHANGED <<current, streams, requests, launch, run, status, crashed, mixed>>
-----------------------------------------------------------------------------
(* handleMultiDayBacktestStart: it replies at once, the run is a goroutine. *)
MultiRequest(days) ==
  /\ Live /\ requests < MaxRequests
  /\ requests' = requests + 1
  /\ run' = [run EXCEPT ![requests'].at = "accepted", ![requests'].days = days]
  /\ mixed' = (mixed \/ (\E q \in Request : Active(q)) \/ StartPending)
  /\ UNCHANGED <<lock, current, streams, launch, status, crashed>>

(* The queue is published. *)
RunBegins(r) ==
  /\ Live /\ lock = "free" /\ run[r].at = "accepted"
  /\ Move(r, "next")
  /\ queue' = run[r].days /\ index' = 0
  /\ UNCHANGED <<lock, current, streams, requests, launch, crashed, mixed>>

(* A day begins with the lock and the stop of what runs. *)
DayBegins(r) ==
  /\ Live /\ lock = "free" /\ run[r].at = "next"
  /\ Move(r, "stopping")
  /\ lock' = "day" /\ index' = run[r].day
  /\ Cancel
  /\ UNCHANGED <<current, created, manager, requests, launch, queue, crashed, mixed>>

DayPrepared(r) ==
  /\ Live /\ run[r].at = "stopping" /\ Stopped
  /\ NewManager
  /\ run' = [run EXCEPT ![r].at = "launch", ![r].m = created + 1]
  /\ lock' = "free"
  /\ UNCHANGED <<cancelled, requests, launch, status, crashed, mixed>>

DayFails(r) ==
  /\ Live /\ run[r].at = "stopping" /\ Stopped
  /\ Move(r, "exit")
  /\ lock' = "free"
  /\ UNCHANGED <<current, streams, requests, launch, status, crashed, mixed>>

(* mgr.Start, on the manager it has made; when it fails the run is over. *)
DayStarts(r) ==
  /\ Live /\ run[r].at = "launch"
  /\ \/ Started(run[r].m) /\ Move(r, "waiting")
     \/ UNCHANGED manager /\ Move(r, "exit")
  /\ UNCHANGED <<lock, current, created, cancelled, requests, launch, status, crashed, mixed>>

(* Mutant of MoreDays: one day too many. *)
MoreDaysAndOne(r) == run[r].day < run[r].days
MoreDays(r) == run[r].day + 1 < run[r].days

(* mgr.Wait returns, whatever ended the stream: a stop ends the day, not the run. *)
DayEnds(r) ==
  /\ Live /\ run[r].at = "waiting" /\ Quiet(run[r].m)
  /\ Move(r, IF MoreDays(r) THEN "reset" ELSE "exit")
  /\ UNCHANGED <<lock, current, streams, requests, launch, status, crashed, mixed>>

(* Between two days: ClearPositions, Pipeline.Reset, and the field is detached,
   whichever manager it holds. *)
DayResets(r) ==
  /\ Live /\ lock = "free" /\ run[r].at = "reset"
  /\ run' = [run EXCEPT ![r].at = "next", ![r].day = @ + 1]
  /\ current' = 0
  /\ UNCHANGED <<lock, streams, requests, launch, status, crashed, mixed>>

(* The deferred cleanup. *)
RunExits(r) ==
  /\ Live /\ lock = "free" /\ run[r].at = "exit"
  /\ run' = [run EXCEPT ![r] = [at |-> "over", days |-> 0, day |-> 0, m |-> 0]]
  /\ queue' = 0 /\ index' = 0
  /\ UNCHANGED <<lock, current, streams, requests, launch, crashed, mixed>>

RunStep(r) ==
  \/ RunBegins(r) \/ DayBegins(r) \/ DayPrepared(r) \/ DayFails(r)
  \/ DayStarts(r) \/ DayEnds(r) \/ DayResets(r) \/ RunExits(r)
HolderStep == StartReplies \/ StartFails \/ StopReplies \/ \E r \in Request : DayPrepared(r) \/ DayFails(r)

Next ==
  \/ StartRequest \/ StopRequest \/ StatusPanics
  \/ StartReplies \/ StartFails \/ StopReplies
  \/ \E g \in Manager : LaunchReads(g) \/ LaunchStarts(g)
  \/ \E r \in Request : RunStep(r)
  \/ \E days \in 1 .. MaxDays : MultiRequest(days)
  \/ \E m \in Manager : StreamEnds(m)

(* A handler that holds the lock goes on, and a cancelled stream ends; one that is not
   cancelled may be paused. *)
Fairness ==
  /\ WF_vars(HolderStep)
  /\ \A m \in Manager : WF_vars(m \in cancelled /\ StreamEnds(m))

Spec == Init /\ [][Next]_vars /\ Fairness
-----------------------------------------------------------------------------
(* One stream at a time, and a stop request finds it: whatever runs is the manager in
   the field, the only one that Stop would cancel.  It holds as long as no start of a
   day overlaps a multi-day run and no two runs overlap. *)
OneStream == crashed \/ mixed \/ \A m \in Manager : ~Quiet(m) => m = current

(* managerMu is held while Stop waits for a stream, so all requests depend on it: it is
   released again. *)
MutexReleased == lock # "free" ~> (lock = "free" \/ crashed \/ mixed)

(* "This guarantees NO background goroutines are accessing the pipeline structures" and
   "Safely clear the position matrix now that concurrent access is terminated"
   (app/web.go): no stream runs when the stop handler clears positions. *)
StopTerminatesAll == [][StopReplies => \A m \in Manager : manager[m] # "running"]_vars
=============================================================================
