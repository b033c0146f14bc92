-------------------------------- MODULE Replay --------------------------------
(***************************************************************************)
(* The replay of a recorded day, stream/db_backtest_source.go: two         *)
(* goroutines prefetch ticks and order book rows, ReadTicks joins each     *)
(* tick with the book of its instrument, sends it and waits as long as the *)
(* speed demands.  SetSpeedFactor changes the speed meanwhile and wakes a  *)
(* ReadTicks that waits.                                                   *)
(*                                                                         *)
(* A tick is its instrument and its time; a book is the sequence of the    *)
(* numbers of its rows, whichever their side.  Real time is counted from   *)
(* the moment the anchors were set.  The receiver always has room sooner   *)
(* or later (StreamManager).  errPrefetch is read without synchronisation: *)
(* unless a closed channel orders the two, ReadTicks may miss it.          *)
(***************************************************************************)
EXTENDS Integers, Sequences, FiniteSets, FiniteSetsExt, SequencesExt

CONSTANTS Token,      (* instruments                                       *)
          Day,        (* days that may be recorded                         *)
          Speed,      (* speeds; 0 pauses, -99 does not wait               *)
          Room,       (* room in a prefetch buffer                         *)
          MaxChanges, (* bound: changes of speed                           *)
          MaxFaults,  (* bound: prefetchers that fail or are cut off       *)
          Horizon     (* bound: real time counted, beyond every wait       *)

(* Rows come in order of time, and a book row is stored with a tick of its instrument. *)
InOrder(rows) == \A i, j \in DOMAIN rows : i < j => rows[i].time <= rows[j].time
Recorded == Seq([token : Token, time : Nat \ {0}])
ASSUME ReplayAssumption ==
  /\ \A d \in Day : /\ d.ticks \in Recorded /\ InOrder(d.ticks)
                    /\ d.depth \in Recorded /\ InOrder(d.depth) /\ ToSet(d.depth) \subseteq ToSet(d.ticks)
                    /\ \A i, j \in DOMAIN d.ticks : d.ticks[i].time - d.ticks[j].time <= Horizon
  /\ Speed \subseteq Int /\ Room \in Nat \ {0} /\ MaxChanges \in Nat /\ MaxFaults \in Nat /\ Horizon \in Nat

VARIABLES day,
          fetched,   (* rows each prefetcher has put into its buffer       *)
          prefetch,  (* whether it runs or has closed the buffer           *)
          failed,    (* the prefetchers that set errPrefetch               *)
          cut,       (* those whose rows ended early without an error      *)
          at,        (* where ReadTicks is                                 *)
          taken,     (* ticks and rows it has received                     *)
          depthOpen,
          book, lastDepthTime,
          sent,      (* the books of the ticks sent                        *)
          anchor,    (* anchorMarketTime, 0 at first                       *)
          elapsed,   (* real time since anchorRealTime                     *)
          current,   (* currentSpeed                                       *)
          active,    (* activeSpeedFactor                                  *)
          deadline,  (* when the timer fires                               *)
          speed, signal,
          setters,   (* SetSpeedFactor calls between store and signal      *)
          changes, cancelled,
          (* Observations, which no step reads: *)
          rushed,    (* ticks passed at full speed since the anchors       *)
          held       (* real time since the anchors spent in a pause       *)

prefetching == <<fetched, prefetch, failed, cut>>
joining == <<taken, depthOpen, book, lastDepthTime, sent>>
pacing == <<anchor, active, current, deadline, rushed, held>>
setting == <<speed, setters, changes>>
vars == <<day, prefetching, at, joining, pacing, elapsed, setting, signal, cancelled>>

Source == {"ticks", "depth"}
Returned == {"finished", "error", "cancelled"}

TypeOK ==
  /\ day \in Day
  /\ fetched \in [Source -> Nat] /\ taken \in [Source -> Nat]
  /\ \A s \in Source : taken[s] <= fetched[s] /\ fetched[s] <= Len(day[s]) /\ fetched[s] - taken[s] <= Room
  /\ prefetch \in [Source -> {"on", "closed"}] /\ failed \subseteq Source /\ cut \subseteq Source
  /\ at \in {"first", "next", "join", "pace", "decide", "paused", "timer", "end"}
         \cup Returned
  /\ depthOpen \in BOOLEAN
  /\ book \in [Token -> Seq(DOMAIN day.depth)] /\ sent \in Seq(Seq(DOMAIN day.depth))
  /\ lastDepthTime \in [Token -> Nat]
  /\ Len(sent) <= taken["ticks"]
  /\ anchor \in Nat /\ elapsed \in 0 .. Horizon /\ deadline \in 0 .. Horizon
  /\ active \in Speed \cup {0} /\ current \in Speed \cup {0} /\ speed \in Speed /\ signal \in BOOLEAN
  /\ setters \in 0 .. MaxChanges /\ changes \in 0 .. MaxChanges
  /\ cancelled \in BOOLEAN /\ rushed \in BOOLEAN /\ held \in 0 .. elapsed

Init ==
  /\ day \in Day /\ speed \in Speed
  /\ fetched = [s \in Source |-> 0] /\ prefetch = [s \in Source |-> "on"]
  /\ failed = {} /\ cut = {}
  /\ at = "first" /\ taken = [s \in Source |-> 0] /\ depthOpen = FALSE
  /\ book = [t \in Token |-> <<>>] /\ lastDepthTime = [t \in Token |-> 0] /\ sent = <<>>
  /\ anchor = 0 /\ elapsed = 0 /\ active = 0 /\ current = 0 /\ deadline = 0
  /\ rushed = FALSE /\ held = 0
  /\ signal = FALSE /\ setters = 0 /\ changes = 0 /\ cancelled = FALSE
-----------------------------------------------------------------------------
(* Mutant of RoomLeft: one too many. *)
RoomForMore(s) == fetched[s] - taken[s] <= Room
RoomLeft(s) == fetched[s] - taken[s] < Room

(* A prefetcher puts its next row into its buffer. *)
Fetch(s) ==
  /\ prefetch[s] = "on" /\ fetched[s] < Len(day[s]) /\ RoomLeft(s)
  /\ fetched' = [fetched EXCEPT ![s] = @ + 1]
  /\ UNCHANGED <<day, prefetch, failed, cut, at, joining, pacing, elapsed, setting, signal, cancelled>>

MayFail == Cardinality(failed) + Cardinality(cut) < MaxFaults

(* A prefetcher closes its buffer: at the end of its rows; when the query or a row cannot
   be read, which is an error; when the context is cancelled or the connection lost
   between two rows, which is none, for rows.Err is not asked. *)
FetchEnds(s) ==
  /\ prefetch[s] = "on"
  /\ prefetch' = [prefetch EXCEPT ![s] = "closed"]
  /\ \/ fetched[s] = Len(day[s]) /\ UNCHANGED <<failed, cut>>
     \/ /\ MayFail /\ (fetched[s] = 0 \/ fetched[s] < Len(day[s]))
        /\ failed' = failed \cup {s} /\ UNCHANGED cut
     \/ (MayFail \/ cancelled) /\ fetched[s] < Len(day[s]) /\ cut' = cut \cup {s} /\ UNCHANGED failed
  /\ UNCHANGED <<day, fetched, at, joining, pacing, elapsed, setting, signal, cancelled>>

Available(s) == taken[s] < fetched[s]
Exhausted(s) == taken[s] = fetched[s] /\ prefetch[s] = "closed"

(* nextDepth, depthOpen = <-depthBuffer *)
ReceiveDepth ==
  \/ /\ Available("depth")
     /\ taken' = [taken EXCEPT !["depth"] = @ + 1] /\ depthOpen' = TRUE
  \/ /\ Exhausted("depth")
     /\ depthOpen' = FALSE /\ UNCHANGED taken

FirstDepth ==
  /\ at = "first" /\ at' = "next"
  /\ ReceiveDepth
  /\ UNCHANGED <<day, prefetching, book, lastDepthTime, sent, pacing, elapsed, setting, signal, cancelled>>

(* Whether ReadTicks is sure to see the error: the closed buffer told it. *)
ErrorSeen == "depth" \in failed /\ ~depthOpen

NextTick ==
  /\ at = "next" /\ Available("ticks")
  /\ taken' = [taken EXCEPT !["ticks"] = @ + 1]
  /\ \/ failed # {} /\ at' = "error"
     \/ ~ErrorSeen /\ at' = "join"
  /\ UNCHANGED <<day, prefetching, depthOpen, book, lastDepthTime, sent, pacing, elapsed, setting, signal, cancelled>>

NoMoreTicks ==
  /\ at = "next" /\ Exhausted("ticks") /\ at' = "end"
  /\ UNCHANGED <<day, prefetching, joining, pacing, elapsed, setting, signal, cancelled>>

Tick == day.ticks[taken["ticks"]]
NextDepth == day.depth[taken["depth"]]

(* Mutant of Due: a row of the tick's own moment waits for the next tick. *)
DueBefore(row, tick) == row.time < tick.time
Due(row, tick) == row.time <= tick.time

(* The book after a row; a row of a newer snapshot clears it first. *)
WithRow(row) ==
  IF NextDepth.time > lastDepthTime[NextDepth.token] THEN <<row>> ELSE Append(book[NextDepth.token], row)

RowDue == depthOpen /\ Due(NextDepth, Tick)

JoinRow ==
  /\ at = "join" /\ RowDue
  /\ book' = [book EXCEPT ![NextDepth.token] = WithRow(taken["depth"])]
  /\ lastDepthTime' = [lastDepthTime EXCEPT ![NextDepth.token] = NextDepth.time]
  /\ ReceiveDepth
  /\ UNCHANGED <<day, prefetching, at, sent, pacing, elapsed, setting, signal, cancelled>>

(* The tick is sent with a copy of its book; at full speed the next one follows at once. *)
Send ==
  /\ at = "join" /\ ~RowDue
  /\ sent' = Append(sent, book[Tick.token])
  /\ IF speed = -99 THEN at' = "next" /\ rushed' = TRUE ELSE at' = "pace" /\ UNCHANGED rushed
  /\ UNCHANGED <<day, prefetching, taken, depthOpen, book, lastDepthTime, anchor, active, current, deadline, held,
                 elapsed, setting, signal, cancelled>>
-----------------------------------------------------------------------------
(* currentSpeed = d.GetSpeedFactor(); the speed may change before it is used. *)
ReadSpeed ==
  /\ at = "pace" /\ at' = "decide" /\ current' = speed
  /\ UNCHANGED <<day, prefetching, joining, anchor, active, deadline, rushed, held, elapsed,
                 setting, signal, cancelled>>

Pause ==
  /\ at = "decide" /\ current = 0 /\ at' = "paused"
  /\ UNCHANGED <<day, prefetching, joining, pacing, elapsed, setting, signal, cancelled>>

(* Whether the anchors are to be set: at first and when the speed has changed. *)
AnchorsDue == anchor = 0 \/ current # active

(* simulatedDuration, which is not positive at full speed. *)
Simulated(gap) == IF current < 0 THEN 0 ELSE gap \div current

(* One turn of the pace loop: what is left to wait is counted from the anchors. *)
Pace ==
  /\ at = "decide" /\ current # 0
  /\ anchor' = IF AnchorsDue THEN Tick.time ELSE anchor
  /\ active' = current
  /\ elapsed' = IF AnchorsDue THEN 0 ELSE elapsed
  /\ rushed' = (rushed /\ ~AnchorsDue)
  /\ held' = IF AnchorsDue THEN 0 ELSE held
  /\ LET target == Simulated(Tick.time - anchor') IN
     IF target <= elapsed' THEN at' = "next" /\ UNCHANGED deadline
     ELSE at' = "timer" /\ deadline' = target
  /\ UNCHANGED <<day, prefetching, joining, current, setting, signal, cancelled>>

TimerFires ==
  /\ at = "timer" /\ elapsed >= deadline /\ at' = "next"
  /\ UNCHANGED <<day, prefetching, joining, pacing, elapsed, setting, signal, cancelled>>

(* The pause or the wait is interrupted by speedUpdateChan. *)
Wake ==
  /\ at \in {"paused", "timer"} /\ signal
  /\ at' = "pace" /\ signal' = FALSE
  /\ UNCHANGED <<day, prefetching, joining, pacing, elapsed, setting, cancelled>>

(* Mutant of Interruptible: a pause is not. *)
InterruptibleUnpaused == at = "timer" \/ (at = "join" /\ ~RowDue)
Interruptible == at \in {"paused", "timer"} \/ (at = "join" /\ ~RowDue)
GiveUp ==
  /\ cancelled /\ Interruptible /\ at' = "cancelled"
  /\ UNCHANGED <<day, prefetching, joining, pacing, elapsed, setting, signal, cancelled>>

(* wg.Wait and the end of ReadTicks. *)
Finish ==
  /\ at = "end" /\ \A s \in Source : prefetch[s] = "closed"
  /\ at' = IF failed # {} THEN "error" ELSE "finished"
  /\ UNCHANGED <<day, prefetching, joining, pacing, elapsed, setting, signal, cancelled>>
-----------------------------------------------------------------------------
(* SetSpeedFactor stores the speed and then signals, unless a signal waits already. *)
SetSpeed(s) ==
  /\ changes < MaxChanges
  /\ speed' = s /\ changes' = changes + 1 /\ setters' = setters + 1
  /\ UNCHANGED <<day, prefetching, at, joining, pacing, elapsed, signal, cancelled>>

(* Mutant of Signalled: an unbuffered channel, which only a waiting ReadTicks hears. *)
SignalledWaiting == signal \/ at \in {"paused", "timer"}
Signalled == TRUE
Signal ==
  /\ setters > 0 /\ setters' = setters - 1
  /\ signal' = Signalled
  /\ UNCHANGED <<day, prefetching, at, joining, pacing, elapsed, speed, changes, cancelled>>

Elapse ==
  /\ anchor # 0 /\ elapsed < Horizon /\ elapsed' = elapsed + 1
  /\ held' = IF at = "paused" THEN held + 1 ELSE held
  /\ UNCHANGED <<day, prefetching, at, joining, anchor, active, current, deadline, rushed, setting, signal,
                 cancelled>>

(* Stop cancels the context of ReadTicks and its prefetchers. *)
Cancel ==
  /\ ~cancelled /\ cancelled' = TRUE
  /\ UNCHANGED <<day, prefetching, at, joining, pacing, elapsed, setting, signal>>

Prefetcher(s) == Fetch(s) \/ FetchEnds(s)
Reader ==
  \/ FirstDepth \/ NextTick \/ NoMoreTicks \/ JoinRow \/ Send
  \/ ReadSpeed \/ Pause \/ Pace \/ TimerFires \/ Wake \/ GiveUp \/ Finish

Next ==
  \/ \E s \in Source : Prefetcher(s)
  \/ Reader
  \/ \E s \in Speed \ {speed} : SetSpeed(s)
  \/ Signal \/ Elapse \/ Cancel

(* A goroutine that can go on does, and real time passes. *)
Fairness ==
  /\ WF_vars(Reader) /\ WF_vars(Signal) /\ WF_vars(Elapse)
  /\ \A s \in Source : WF_vars(Fetch(s) \/ (FetchEnds(s) /\ (fetched[s] = Len(day[s]) \/ cancelled)))

Spec == Init /\ [][Next]_vars /\ Fairness
-----------------------------------------------------------------------------
(* The rows of the newest snapshot of a tick's instrument among the first known rows, and
   whether a book holds them, each once and in order. *)
Newest(tick, known) ==
  LET rows == {k \in 1 .. known : day.depth[k].token = tick.token /\ day.depth[k].time <= tick.time}
  IN {k \in rows : \A l \in rows : day.depth[l].time <= day.depth[k].time}
Holds(rows, newest) ==
  /\ ToSet(rows) = newest
  /\ \A i, j \in DOMAIN rows : i < j => rows[i] < rows[j]

(* "Reconstruct order depth timeline": every tick is sent in order with the whole of the
   newest book of its instrument and nothing older, and a replay that ends without an
   error has sent the whole day.  Exceptions: rows that a lost connection cut off, which
   nobody reports, and one tick between the failure of the depth rows and the error. *)
SentAsRecorded ==
  /\ \A i \in DOMAIN sent :
       Holds(sent[i], Newest(day.ticks[i],
                             IF "depth" \in cut \/ ("depth" \in failed /\ i = Len(sent))
                             THEN fetched["depth"] ELSE Len(day.depth)))
  /\ at = "finished" /\ "ticks" \notin cut => Len(sent) = Len(day.ticks)
  /\ at = "error" => failed # {}

(* "Handles Pauses and recalculates waits": ReadTicks never sleeps on a speed that is no
   longer set without a signal under way.  A wait is never longer, by a whole unit of
   time, than the time between the tick and the one before it, at the speed set; what is
   rounded off a wait is made up for by the next.  And ReadTicks never goes on before the
   time that was played since the anchors has come up to the tick, again but for a unit.
   The anchors are those of the last change of speed ReadTicks worked with, which gives
   two exceptions.  A stretch at full speed that came and went between two looks at the
   speed leaves them, and the next wait is as long as all that was skipped (rushed).  So
   does a pause that ends at the speed it began with: the time it took counts as played,
   and ticks go out unpaced until it is caught up (held). *)
SpeedObeyed ==
  /\ (at = "paused" /\ speed # 0) \/ (at = "timer" /\ speed # active) => signal \/ setters > 0
  /\ at = "timer" /\ ~rushed =>
       (deadline - elapsed) * active < (Tick.time - day.ticks[taken["ticks"] - 1].time) + active
  /\ at = "next" /\ anchor # 0 /\ ~rushed /\ active > 0 =>
       \/ Tick.time - anchor < (elapsed - held + 1) * active
       \/ held > 0 /\ Tick.time - anchor < (elapsed + 1) * active

(* A cancelled replay ends with its prefetchers, wherever they wait; one that is not
   paused for ever ends by itself.  The exception: after ticks that failed or were cut off
   the prefetcher of the books may wait for room that nobody makes, and wg.Wait for it. *)
ReplayEnds ==
  /\ cancelled ~> at \in Returned /\ \A s \in Source : prefetch[s] = "closed"
  /\ <>[](speed # 0) => <>(at \in Returned \/ (at = "end" /\ "ticks" \in failed \cup cut))
=============================================================================
