------------------------------ MODULE EdgeProofs ------------------------------
(***************************************************************************)
(* The two edges of the service, each for itself.  Where the data comes    *)
(* in, the replay of a day, for any instruments, days, speeds and room in  *)
(* the buffers: its types, that every tick is sent with the book that was  *)
(* recorded for it, and that no wait outlives or exceeds the speed set.    *)
(* Where it goes out, the websocket hub, for any clients, topics, callers  *)
(* and size of the send buffers: its types, that no send channel is closed *)
(* twice, and that the reader of a connection ends only after the hub let  *)
(* the connection go.                                                      *)
(*                                                                         *)
(* The two share no state: a theorem speaks of the behaviours of Spec, the *)
(* replay's, or of HubSpec.                                                *)
(***************************************************************************)
EXTENDS Replay, WsHub, SequenceTheorems, TLAPS

Row == [token : Token, time : Nat \ {0}]

(* What the assumption says of the day that is replayed. *)
LEMMA Days ==
  ASSUME day \in Day
  PROVE  /\ day.ticks \in Seq(Row) /\ day.depth \in Seq(Row)
         /\ day["ticks"] = day.ticks /\ day["depth"] = day.depth
         /\ Len(day.ticks) \in Nat /\ DOMAIN day.ticks = 1 .. Len(day.ticks)
         /\ Len(day.depth) \in Nat /\ DOMAIN day.depth = 1 .. Len(day.depth)
         /\ \A i \in 1 .. Len(day.ticks) : day.ticks[i].token \in Token /\ day.ticks[i].time \in Nat \ {0}
         /\ \A i \in 1 .. Len(day.depth) : day.depth[i].token \in Token /\ day.depth[i].time \in Nat \ {0}
         /\ \A i, j \in 1 .. Len(day.ticks) : i < j => day.ticks[i].time <= day.ticks[j].time
         /\ \A i, j \in 1 .. Len(day.depth) : i < j => day.depth[i].time <= day.depth[j].time
         /\ \A i, j \in 1 .. Len(day.ticks) : day.ticks[i].time - day.ticks[j].time <= Horizon
<1>1. day.ticks \in Seq(Row) /\ day.depth \in Seq(Row) /\ InOrder(day.ticks) /\ InOrder(day.depth)
      /\ \A i, j \in DOMAIN day.ticks : day.ticks[i].time - day.ticks[j].time <= Horizon
  BY ReplayAssumption DEF Recorded, Row
<1>2. /\ Len(day.ticks) \in Nat /\ DOMAIN day.ticks = 1 .. Len(day.ticks)
      /\ Len(day.depth) \in Nat /\ DOMAIN day.depth = 1 .. Len(day.depth)
  BY <1>1
<1>3. /\ \A i \in 1 .. Len(day.ticks) : day.ticks[i] \in Row
      /\ \A i \in 1 .. Len(day.depth) : day.depth[i] \in Row
  BY <1>1, ElementOfSeq
<1>. QED BY <1>1, <1>2, <1>3 DEF Row, InOrder

LEMMA Constants ==
  Speed \subseteq Int /\ Room \in Nat \ {0} /\ MaxChanges \in Nat /\ MaxFaults \in Nat /\ Horizon \in Nat
  BY ReplayAssumption

(* A sequence with one more element. *)
LEMMA Longer ==
  ASSUME NEW S, NEW s \in Seq(S), NEW e \in S
  PROVE  /\ Append(s, e) \in Seq(S) /\ <<e>> \in Seq(S)
         /\ Len(s) \in Nat /\ DOMAIN s = 1 .. Len(s) /\ Len(Append(s, e)) = Len(s) + 1
         /\ DOMAIN Append(s, e) = 1 .. Len(s) + 1 /\ Append(s, e)[Len(s) + 1] = e
         /\ \A i \in 1 .. Len(s) : Append(s, e)[i] = s[i] /\ s[i] \in S
  OBVIOUS

(* What a division leaves over. *)
LEMMA Quotient ==
  ASSUME NEW gap \in Int, NEW s \in Nat \ {0}
  PROVE  /\ gap \div s \in Int /\ (gap \div s) * s \in Int
         /\ (gap \div s) * s <= gap /\ gap < (gap \div s) * s + s
         /\ gap <= 0 => gap \div s <= 0
         /\ gap >= 0 => gap \div s <= gap
  OBVIOUS

LEMMA Spread ==
  ASSUME NEW x \in Nat, NEW y \in Nat, NEW s \in Nat
  PROVE  (x - y) * s = x * s - y * s
  OBVIOUS

LEMMA Times ==
  ASSUME NEW x \in Int, NEW y \in Int, x <= y, NEW s \in Nat
  PROVE  x * s <= y * s
  OBVIOUS
-----------------------------------------------------------------------------
(* How far ReadTicks is: what it has received and sent where, and what a closed buffer and
   the anchors stand for. *)
Holding == {"join", "pace", "decide", "paused", "timer"}
Counted ==
  /\ at = "first" => taken["ticks"] = 0 /\ taken["depth"] = 0 /\ ~depthOpen
  /\ at \in Holding => taken["ticks"] >= 1
  /\ Len(sent) <= taken["ticks"]
  /\ at = "join" => Len(sent) = taken["ticks"] - 1
  /\ at \in {"first", "next", "pace", "decide", "paused", "timer", "end", "finished"} => Len(sent) = taken["ticks"]
  /\ setters <= changes
Closed ==
  /\ depthOpen => taken["depth"] >= 1
  /\ ~depthOpen /\ at # "first" => Exhausted("depth")
  /\ \A s \in Source : prefetch[s] = "closed" => fetched[s] = Len(day[s]) \/ s \in cut \/ s \in failed
  /\ at \in {"end", "finished"} => Exhausted("ticks")
  /\ at = "finished" => failed = {} /\ \A s \in Source : prefetch[s] = "closed"
  /\ at = "error" => failed # {}
Anchored ==
  /\ anchor # 0 => \E j \in 1 .. Len(day.ticks) : day.ticks[j].time = anchor
  /\ at = "timer" => /\ active > 0 /\ current = active
                     /\ deadline = (Tick.time - anchor) \div active /\ deadline > 0

Reached == TypeOK /\ Counted /\ Closed /\ Anchored

(* The tick and the book row at hand. *)
LEMMA AtHand ==
  ASSUME TypeOK
  PROVE  /\ \A s \in Source : taken[s] \in Nat /\ fetched[s] \in Nat /\ taken[s] <= fetched[s] /\ fetched[s] <= Len(day[s])
         /\ taken["ticks"] \in 0 .. Len(day.ticks) /\ taken["depth"] \in 0 .. Len(day.depth)
         /\ fetched["ticks"] \in Nat /\ fetched["depth"] \in 0 .. Len(day.depth)
         /\ taken["ticks"] >= 1 => Tick.token \in Token /\ Tick.time \in Nat \ {0}
         /\ taken["depth"] >= 1 => NextDepth.token \in Token /\ NextDepth.time \in Nat \ {0}
<1>1. \A s \in Source : taken[s] \in Nat /\ fetched[s] \in Nat /\ taken[s] <= fetched[s] /\ fetched[s] <= Len(day[s])
  BY DEF TypeOK
<1>2. "ticks" \in Source /\ "depth" \in Source BY DEF Source
<1>3. day \in Day BY DEF TypeOK
<1>4. /\ Len(day["ticks"]) = Len(day.ticks) /\ Len(day["depth"]) = Len(day.depth)
      /\ Len(day.ticks) \in Nat /\ Len(day.depth) \in Nat
  BY <1>3, Days
<1>5. /\ taken["ticks"] \in 0 .. Len(day.ticks) /\ taken["depth"] \in 0 .. Len(day.depth)
      /\ fetched["ticks"] \in Nat /\ fetched["depth"] \in 0 .. Len(day.depth)
  BY <1>1, <1>2, <1>4
<1>. QED BY <1>1, <1>3, <1>4, <1>5, Days DEF Tick, NextDepth

LEMMA InitTypes == Init => Reached
<1>. SUFFICES ASSUME Init PROVE Reached OBVIOUS
<1>1. day \in Day BY DEF Init
<1>2. /\ Len(day["ticks"]) \in Nat /\ Len(day["depth"]) \in Nat BY <1>1, Days
<1>3. /\ fetched \in [Source -> Nat] /\ taken \in [Source -> Nat]
      /\ \A s \in Source : fetched[s] = 0 /\ taken[s] = 0
  BY DEF Init
<1>4. \A s \in Source : taken[s] <= fetched[s] /\ fetched[s] <= Len(day[s]) /\ fetched[s] - taken[s] <= Room
  BY <1>2, <1>3, Constants DEF Source
<1>5. book \in [Token -> Seq(DOMAIN day.depth)] /\ sent \in Seq(Seq(DOMAIN day.depth)) /\ Len(sent) = 0
  BY DEF Init
<1>6. depthOpen \in BOOLEAN /\ signal \in BOOLEAN /\ cancelled \in BOOLEAN /\ rushed \in BOOLEAN
  BY Zenon DEF Init
<1>7. TypeOK
  <2>1. "ticks" \in Source BY DEF Source
  <2>2. lastDepthTime \in [Token -> Nat] /\ prefetch \in [Source -> {"on", "closed"}] BY DEF Init
  <2>. QED BY <2>1, <2>2, <1>1, <1>3, <1>4, <1>5, <1>6, Constants DEF Init, TypeOK
<1>8. Counted BY <1>3, <1>5 DEF Init, Counted, Holding, Source
<1>9. Closed /\ Anchored BY DEF Init, Closed, Anchored
<1>. QED BY <1>7, <1>8, <1>9 DEF Reached

(* The prefetchers. *)
LEMMA FetchReached ==
  ASSUME Reached, NEW s \in Source, Fetch(s) \/ FetchEnds(s)
  PROVE  Reached'
<1>. USE DEF Reached
<1>1. /\ UNCHANGED <<day, at, joining, pacing, elapsed, setting, signal, cancelled>>
      /\ prefetch[s] = "on" /\ prefetch \in [Source -> {"on", "closed"}] /\ fetched \in [Source -> Nat]
  BY DEF Fetch, FetchEnds, TypeOK
<1>2. UNCHANGED <<taken, depthOpen, book, lastDepthTime, sent, anchor, active, current, deadline, rushed, held, speed,
                  setters, changes>>
  BY <1>1 DEF joining, pacing, setting
<1>3. /\ fetched' \in [Source -> Nat] /\ prefetch' \in [Source -> {"on", "closed"}]
      /\ failed' \subseteq Source /\ cut' \subseteq Source
      /\ failed \subseteq failed' /\ cut \subseteq cut'
      /\ \A u \in Source \ {s} : fetched'[u] = fetched[u] /\ prefetch'[u] = prefetch[u]
  <2>1. failed \subseteq Source /\ cut \subseteq Source BY DEF TypeOK
  <2>2. CASE Fetch(s)
    <3>1. /\ fetched' = [fetched EXCEPT ![s] = fetched[s] + 1] /\ UNCHANGED <<prefetch, failed, cut>> BY <2>2 DEF Fetch
    <3>. QED BY <1>1, <2>1, <3>1
  <2>3. CASE FetchEnds(s)
    <3>1. fetched' = fetched /\ prefetch' = [prefetch EXCEPT ![s] = "closed"] BY <2>3 DEF FetchEnds
    <3>2. /\ failed' = failed \/ failed' = failed \cup {s}
          /\ cut' = cut \/ cut' = cut \cup {s}
      BY <2>3 DEF FetchEnds
    <3>. QED BY <1>1, <2>1, <3>1, <3>2
  <2>. QED BY <2>2, <2>3
<1>4. \A u \in Source : taken[u] <= fetched'[u] /\ fetched'[u] <= Len(day[u]) /\ fetched'[u] - taken[u] <= Room
  <2>1. ASSUME Fetch(s) PROVE taken[s] <= fetched'[s] /\ fetched'[s] <= Len(day[s]) /\ fetched'[s] - taken[s] <= Room
    <3>1. fetched[s] < Len(day[s]) /\ fetched[s] - taken[s] < Room /\ fetched'[s] = fetched[s] + 1
      BY <1>1, <2>1 DEF Fetch, RoomLeft
    <3>2. Len(day[s]) \in Nat BY Days DEF TypeOK, Source
    <3>3. fetched[s] \in Nat /\ taken[s] \in Nat /\ taken[s] <= fetched[s] BY DEF TypeOK
    <3>. QED BY <3>1, <3>2, <3>3, Constants
  <2>2. ASSUME FetchEnds(s) PROVE fetched' = fetched BY <2>2 DEF FetchEnds
  <2>. QED BY <1>3, <2>1, <2>2 DEF TypeOK
<1>5. TypeOK'
  BY <1>1, <1>2, <1>3, <1>4 DEF TypeOK
<1>6. \A u \in Source : prefetch'[u] = "closed" => fetched'[u] = Len(day[u]) \/ u \in cut' \/ u \in failed'
  <2>1. ASSUME FetchEnds(s) PROVE fetched'[s] = Len(day[s]) \/ s \in cut' \/ s \in failed'
    BY <2>1 DEF FetchEnds
  <2>2. Fetch(s) => prefetch' = prefetch BY DEF Fetch
  <2>. QED BY <1>1, <1>3, <2>1, <2>2 DEF Closed
<1>7. \A u \in Source : Exhausted(u) => Exhausted(u)'
  BY <1>1, <1>2, <1>3 DEF Exhausted
<1>8. at = "finished" => FALSE BY <1>1 DEF Closed
<1>9. Closed'
  <2>1. "depth" \in Source /\ "ticks" \in Source BY DEF Source
  <2>2. at = "error" => failed' # {} BY <1>3 DEF Closed
  <2>. QED BY <1>1, <1>2, <1>6, <1>7, <1>8, <2>1, <2>2 DEF Closed
<1>10. Counted' BY <1>1, <1>2 DEF Counted, Holding
<1>11. Anchored' BY <1>1, <1>2 DEF Anchored, Tick
<1>. QED BY <1>5, <1>9, <1>10, <1>11

(* Receiving the next row of the book, or the end of them. *)
LEMMA DepthReceived ==
  ASSUME Reached, ReceiveDepth, UNCHANGED <<day, fetched, prefetch>>
  PROVE  /\ taken' \in [Source -> Nat] /\ depthOpen' \in BOOLEAN /\ taken'["ticks"] = taken["ticks"]
         /\ \A s \in Source : taken'[s] <= fetched[s] /\ fetched[s] - taken'[s] <= Room
         /\ taken["depth"] <= taken'["depth"]
         /\ depthOpen' => taken'["depth"] >= 1 /\ taken'["depth"] = taken["depth"] + 1
         /\ ~depthOpen' => Exhausted("depth") /\ Exhausted("depth")' /\ taken' = taken
         /\ Exhausted("ticks") => Exhausted("ticks")'
<1>. USE DEF Reached
<1>1. "depth" \in Source /\ "ticks" \in Source BY DEF Source
<1>2. \A s \in Source : taken[s] \in Nat /\ fetched[s] \in Nat /\ taken[s] <= fetched[s] /\ fetched[s] - taken[s] <= Room
  BY DEF TypeOK
<1>3. CASE Available("depth") /\ taken' = [taken EXCEPT !["depth"] = @ + 1] /\ depthOpen' = TRUE
  <2>1. /\ taken' \in [Source -> Nat] /\ taken'["depth"] = taken["depth"] + 1
        /\ \A s \in Source \ {"depth"} : taken'[s] = taken[s]
    BY <1>1, <1>3 DEF TypeOK
  <2>2. taken["depth"] < fetched["depth"] BY <1>3 DEF Available
  <2>3. fetched["depth"] - taken'["depth"] <= Room /\ taken'["depth"] <= fetched["depth"]
    BY <1>1, <1>2, <2>1, <2>2, Constants
  <2>. QED BY <1>1, <1>2, <1>3, <2>1, <2>3 DEF Exhausted
<1>4. CASE Exhausted("depth") /\ depthOpen' = FALSE /\ UNCHANGED taken
  BY <1>1, <1>2, <1>4 DEF Exhausted, TypeOK
<1>. QED BY <1>3, <1>4 DEF ReceiveDepth

(* ReadTicks joins ticks with books. *)
LEMMA FirstReached ==
  ASSUME Reached, FirstDepth
  PROVE  Reached'
<1>. USE DEF Reached
<1>1. /\ at = "first" /\ at' = "next" /\ ReceiveDepth
      /\ UNCHANGED <<day, fetched, prefetch, failed, cut, book, lastDepthTime, sent, anchor, active, current, deadline,
                     rushed, held, elapsed, speed, setters, changes, signal, cancelled>>
  BY DEF FirstDepth, prefetching, pacing, setting
<1>2. /\ taken' \in [Source -> Nat] /\ depthOpen' \in BOOLEAN /\ taken'["ticks"] = taken["ticks"]
      /\ \A s \in Source : taken'[s] <= fetched[s] /\ fetched[s] - taken'[s] <= Room
      /\ depthOpen' => taken'["depth"] >= 1
      /\ ~depthOpen' => Exhausted("depth")'
  BY <1>1, DepthReceived
<1>3. TypeOK' BY <1>1, <1>2 DEF TypeOK
<1>4. Counted' BY <1>1, <1>2 DEF Counted, Holding
<1>5. Closed' BY <1>1, <1>2 DEF Closed
<1>6. Anchored' BY <1>1 DEF Anchored
<1>. QED BY <1>3, <1>4, <1>5, <1>6

LEMMA NextReached ==
  ASSUME Reached, NextTick
  PROVE  Reached'
<1>. USE DEF Reached
<1>1. /\ at = "next" /\ at' \in {"error", "join"} /\ (at' = "error" => failed # {})
      /\ Available("ticks") /\ taken' = [taken EXCEPT !["ticks"] = @ + 1]
      /\ UNCHANGED <<day, fetched, prefetch, failed, cut, depthOpen, book, lastDepthTime, sent, anchor, active, current,
                     deadline, rushed, held, elapsed, speed, setters, changes, signal, cancelled>>
  BY DEF NextTick, prefetching, pacing, setting
<1>2. "ticks" \in Source /\ "depth" \in Source BY DEF Source
<1>3. /\ taken' \in [Source -> Nat] /\ taken'["ticks"] = taken["ticks"] + 1 /\ taken'["depth"] = taken["depth"]
      /\ \A s \in Source \ {"ticks"} : taken'[s] = taken[s]
  BY <1>1, <1>2 DEF TypeOK
<1>4. /\ \A s \in Source : taken[s] \in Nat /\ fetched[s] \in Nat /\ taken[s] <= fetched[s] /\ fetched[s] - taken[s] <= Room
      /\ taken["ticks"] < fetched["ticks"]
  BY <1>1 DEF TypeOK, Available
<1>5. \A s \in Source : taken'[s] <= fetched[s] /\ fetched[s] - taken'[s] <= Room
  <2>1. taken'["ticks"] <= fetched["ticks"] /\ fetched["ticks"] - taken'["ticks"] <= Room
    BY <1>2, <1>3, <1>4, Constants
  <2>. QED BY <1>3, <1>4, <2>1
<1>6. sent \in Seq(Seq(DOMAIN day.depth)) /\ Len(sent) \in Nat /\ Len(sent) = taken["ticks"]
  BY <1>1 DEF TypeOK, Counted
<1>7. TypeOK'
  <2>1. Len(sent) <= taken'["ticks"] BY <1>3, <1>6
  <2>. QED BY <1>1, <1>3, <1>5, <2>1 DEF TypeOK, Returned
<1>8. Counted' BY <1>1, <1>2, <1>3, <1>4, <1>6 DEF Counted, Holding
<1>9. Closed' BY <1>1, <1>3 DEF Closed, Exhausted
<1>10. Anchored' BY <1>1 DEF Anchored
<1>. QED BY <1>7, <1>8, <1>9, <1>10

LEMMA JoinReached ==
  ASSUME Reached, JoinRow
  PROVE  Reached'
<1>. USE DEF Reached
<1>1. /\ at = "join" /\ ReceiveDepth /\ depthOpen
      /\ book' = [book EXCEPT ![NextDepth.token] = WithRow(taken["depth"])]
      /\ lastDepthTime' = [lastDepthTime EXCEPT ![NextDepth.token] = NextDepth.time]
      /\ UNCHANGED <<at, day, fetched, prefetch, failed, cut, sent, anchor, active, current,
                     deadline, rushed, held, elapsed, speed, setters, changes, signal, cancelled>>
  BY DEF JoinRow, RowDue, prefetching, pacing, setting
<1>2. /\ taken' \in [Source -> Nat] /\ depthOpen' \in BOOLEAN /\ taken'["ticks"] = taken["ticks"]
      /\ \A s \in Source : taken'[s] <= fetched[s] /\ fetched[s] - taken'[s] <= Room
      /\ depthOpen' => taken'["depth"] >= 1
      /\ ~depthOpen' => Exhausted("depth")'
  BY <1>1, DepthReceived
<1>3. taken["depth"] \in DOMAIN day.depth /\ NextDepth.token \in Token /\ NextDepth.time \in Nat
  <2>1. taken["depth"] >= 1 BY <1>1 DEF Closed
  <2>2. day \in Day BY DEF TypeOK
  <2>3. DOMAIN day.depth = 1 .. Len(day.depth) /\ Len(day.depth) \in Nat BY <2>2, Days
  <2>. QED BY <2>1, <2>3, AtHand
<1>4. WithRow(taken["depth"]) \in Seq(DOMAIN day.depth)
  <2>1. book[NextDepth.token] \in Seq(DOMAIN day.depth) BY <1>3 DEF TypeOK
  <2>2. /\ <<taken["depth"]>> \in Seq(DOMAIN day.depth)
        /\ Append(book[NextDepth.token], taken["depth"]) \in Seq(DOMAIN day.depth)
    BY <1>3, <2>1, Longer
  <2>. QED BY <2>2 DEF WithRow
<1>5. book' \in [Token -> Seq(DOMAIN day.depth)] /\ lastDepthTime' \in [Token -> Nat]
  BY <1>1, <1>3, <1>4 DEF TypeOK
<1>6. TypeOK' BY <1>1, <1>2, <1>5 DEF TypeOK
<1>7. Counted' BY <1>1, <1>2 DEF Counted, Holding
<1>8. Closed' BY <1>1, <1>2 DEF Closed
<1>9. Anchored' BY <1>1 DEF Anchored
<1>. QED BY <1>6, <1>7, <1>8, <1>9

LEMMA SendReached ==
  ASSUME Reached, Send
  PROVE  Reached'
<1>. USE DEF Reached
<1>1. /\ at = "join" /\ at' \in {"next", "pace"} /\ sent' = Append(sent, book[Tick.token]) /\ rushed' \in BOOLEAN
      /\ UNCHANGED <<day, fetched, prefetch, failed, cut, taken, depthOpen, book, lastDepthTime, anchor, active, current,
                     deadline, held, elapsed, speed, setters, changes, signal, cancelled>>
  BY DEF Send, prefetching, setting, TypeOK
<1>2. taken["ticks"] >= 1 /\ Len(sent) = taken["ticks"] - 1 /\ taken["ticks"] \in Nat
  BY <1>1, AtHand DEF Counted, Holding
<1>3. book[Tick.token] \in Seq(DOMAIN day.depth) BY <1>2, AtHand DEF TypeOK
<1>4. sent' \in Seq(Seq(DOMAIN day.depth)) /\ Len(sent') = taken["ticks"]
  <2>. DEFINE S == Seq(DOMAIN day.depth)
  <2>1. sent \in Seq(S) /\ book[Tick.token] \in S BY <1>3 DEF TypeOK
  <2>. HIDE DEF S
  <2>2. sent' \in Seq(S) /\ Len(sent') = Len(sent) + 1 BY <1>1, <2>1, Longer
  <2>. QED BY <1>2, <2>2 DEF S
<1>5. TypeOK'
  <2>1. (sent \in Seq(Seq(DOMAIN day.depth)))' BY <1>1, <1>4
  <2>2. (Len(sent) <= taken["ticks"])' BY <1>1, <1>2, <1>4
  <2>. QED BY <1>1, <2>1, <2>2 DEF TypeOK
<1>6. Counted' BY <1>1, <1>2, <1>4 DEF Counted, Holding
<1>7. Closed' BY <1>1 DEF Closed, Exhausted
<1>8. Anchored' BY <1>1 DEF Anchored
<1>. QED BY <1>5, <1>6, <1>7, <1>8

(* The pace loop. *)
LEMMA PaceReached ==
  ASSUME Reached, Pace
  PROVE  Reached'
<1>. USE DEF Reached
<1>1. /\ at = "decide" /\ current # 0 /\ active' = current /\ anchor' = (IF AnchorsDue THEN Tick.time ELSE anchor)
      /\ elapsed' = (IF AnchorsDue THEN 0 ELSE elapsed)
      /\ UNCHANGED <<day, fetched, prefetch, failed, cut, taken, depthOpen, book, lastDepthTime, sent, current,
                     speed, setters, changes, signal, cancelled>>
  BY DEF Pace, prefetching, joining, setting
<1>2. rushed' \in BOOLEAN /\ held' = (IF AnchorsDue THEN 0 ELSE held) BY DEF Pace, TypeOK
<1>3. /\ taken["ticks"] \in 1 .. Len(day.ticks) /\ Tick.time \in Nat \ {0} /\ Tick.time = day.ticks[taken["ticks"]].time
  <2>1. taken["ticks"] >= 1 BY <1>1 DEF Counted, Holding
  <2>. QED BY <2>1, AtHand DEF Tick
<1>4. \E j \in 1 .. Len(day.ticks) : day.ticks[j].time = anchor'
  BY <1>1, <1>3 DEF AnchorsDue, Anchored
<1>5. anchor' \in Nat \ {0} /\ Tick.time - anchor' <= Horizon
  <2>1. day \in Day BY DEF TypeOK
  <2>. QED BY <1>3, <1>4, <2>1, Days
<1>. DEFINE target == Simulated(Tick.time - anchor')
<1>6. current \in Int /\ elapsed' \in 0 .. Horizon /\ elapsed' \in Nat /\ active' \in Speed
  BY <1>1, Constants DEF TypeOK
<1>7. current > 0 => target = (Tick.time - anchor') \div current BY <1>6 DEF Simulated
<1>8. target > elapsed' => current > 0 /\ target > 0 /\ target \in 0 .. Horizon
  <2>1. ASSUME target > elapsed', current < 0 PROVE FALSE
    <3>1. target = 0 BY <2>1 DEF Simulated
    <3>. QED BY <1>6, <2>1, <3>1
  <2>2. ASSUME target > elapsed', current > 0 PROVE target > 0 /\ target \in 0 .. Horizon
    <3>. DEFINE gap == Tick.time - anchor'
    <3>1. gap \in Int /\ gap <= Horizon /\ current \in Nat \ {0} BY <1>3, <1>5, <1>6, <2>2
    <3>2. target = gap \div current BY <1>7, <2>2
    <3>. HIDE DEF gap, target
    <3>3. target \in Int /\ (gap <= 0 => target <= 0) /\ (gap >= 0 => target <= gap) BY <3>1, <3>2, Quotient
    <3>. QED BY <1>6, <2>2, <3>1, <3>3, Constants
  <2>. QED BY <1>1, <1>6, <2>1, <2>2
<1>9. \/ at' = "next" /\ deadline' = deadline
      \/ at' = "timer" /\ deadline' = target /\ ~(target <= elapsed')
  BY DEF Pace
<1>10. target \in Int
  <2>1. CASE current < 0 BY <2>1 DEF Simulated
  <2>2. CASE current > 0 
    <3>1. Tick.time - anchor' \in Int /\ current \in Nat \ {0} BY <1>3, <1>5, <1>6, <2>2
    <3>. QED BY <1>7, <2>2, <3>1, Quotient
  <2>. QED BY <1>1, <1>6, <2>1, <2>2
<1>. HIDE DEF target
<1>11. deadline' \in 0 .. Horizon BY <1>6, <1>8, <1>9, <1>10 DEF TypeOK
<1>16. held' \in 0 .. elapsed' BY <1>1, <1>2, <1>6 DEF TypeOK
<1>12. TypeOK' BY <1>1, <1>2, <1>5, <1>6, <1>9, <1>11, <1>16 DEF TypeOK
<1>13. Counted' BY <1>1, <1>9 DEF Counted, Holding
<1>14. Closed' BY <1>1, <1>9 DEF Closed, Exhausted
<1>15. Anchored'
  <2>1. ASSUME at' = "timer"
        PROVE  /\ active' > 0 /\ current' = active' /\ deadline' = (Tick'.time - anchor') \div active' /\ deadline' > 0
    <3>1. target > elapsed' BY <1>6, <1>9, <1>10, <2>1
    <3>2. Tick' = Tick BY <1>1 DEF Tick
    <3>. QED BY <1>1, <1>7, <1>8, <1>9, <2>1, <3>1, <3>2
  <2>. QED BY <1>1, <1>4, <2>1 DEF Anchored
<1>. QED BY <1>12, <1>13, <1>14, <1>15

(* The other steps: ReadTicks goes from one place to the next, the speed is set, time passes. *)
LEMMA TurnReached ==
  ASSUME Reached, NoMoreTicks \/ ReadSpeed \/ Pause \/ TimerFires \/ Wake \/ GiveUp \/ Finish
  PROVE  Reached'
<1>. USE DEF Reached
<1>1. UNCHANGED <<day, fetched, prefetch, failed, cut, taken, depthOpen, book, lastDepthTime, sent, anchor, active, deadline,
                  rushed, held, elapsed, speed, setters, changes, cancelled>>
  BY DEF NoMoreTicks, ReadSpeed, Pause, TimerFires, Wake, GiveUp, Finish, prefetching, joining, pacing, setting
<1>2. signal' \in BOOLEAN /\ current' \in Speed \cup {0}
  BY DEF NoMoreTicks, ReadSpeed, Pause, TimerFires, Wake, GiveUp, Finish, pacing, TypeOK
<1>3. at' \in {"decide", "end", "next", "pace", "paused"} \cup Returned
  BY DEF NoMoreTicks, ReadSpeed, Pause, TimerFires, Wake, GiveUp, Finish, Returned
<1>4. TypeOK' BY <1>1, <1>2, <1>3 DEF TypeOK
<1>5. Counted'
  <2>1. at' = "cancelled" \/ at' = "error" \/ Len(sent) = taken["ticks"]
    BY DEF NoMoreTicks, ReadSpeed, Pause, TimerFires, Wake, GiveUp, Finish, Counted
  <2>2. at' \in Holding => at \in Holding
    BY DEF NoMoreTicks, ReadSpeed, Pause, TimerFires, Wake, GiveUp, Finish, Holding
  <2>. QED BY <1>1, <1>3, <2>1, <2>2 DEF Counted, Returned
<1>6. Closed'
  <2>1. /\ at # "first" /\ (at' \in {"end", "finished"} => Exhausted("ticks"))
        /\ at' = "finished" => failed = {} /\ \A s \in Source : prefetch[s] = "closed"
        /\ at' = "error" => failed # {}
    BY DEF NoMoreTicks, ReadSpeed, Pause, TimerFires, Wake, GiveUp, Finish, Closed, Interruptible
  <2>. QED BY <1>1, <2>1 DEF Closed, Exhausted
<1>7. Anchored' BY <1>1, <1>3 DEF Anchored, Returned
<1>. QED BY <1>4, <1>5, <1>6, <1>7

LEMMA OutsideReached ==
  ASSUME Reached, Signal \/ Elapse \/ Cancel \/ UNCHANGED vars \/ \E s \in Speed : SetSpeed(s)
  PROVE  Reached'
<1>. USE DEF Reached
<1>1. UNCHANGED <<day, fetched, prefetch, failed, cut, at, taken, depthOpen, book, lastDepthTime, sent, anchor, active,
                  current, deadline, rushed>>
  BY DEF Signal, Elapse, Cancel, SetSpeed, vars, prefetching, joining, pacing, setting
<1>2. speed' \in Speed /\ signal' \in BOOLEAN /\ cancelled' \in BOOLEAN
  BY DEF Signal, Signalled, Elapse, Cancel, SetSpeed, vars, setting, TypeOK
<1>3. elapsed' \in 0 .. Horizon /\ held' \in 0 .. elapsed'
  BY Constants DEF Signal, Elapse, Cancel, SetSpeed, vars, pacing, TypeOK
<1>4. setters' \in 0 .. MaxChanges /\ changes' \in 0 .. MaxChanges /\ setters' <= changes'
  BY Constants DEF Signal, Elapse, Cancel, SetSpeed, vars, setting, TypeOK, Counted
<1>5. TypeOK' BY <1>1, <1>2, <1>3, <1>4 DEF TypeOK
<1>6. Counted' BY <1>1, <1>4 DEF Counted, Holding
<1>7. Closed' /\ Anchored' BY <1>1 DEF Closed, Exhausted, Anchored, Tick
<1>. QED BY <1>5, <1>6, <1>7

LEMMA StepReached == Reached /\ [Next]_vars => Reached'
  BY FetchReached, FirstReached, NextReached, JoinReached, SendReached, PaceReached, TurnReached, OutsideReached
     DEF Next, Prefetcher, Reader

(* ReadTicks receives no row twice and none that was not recorded, whatever is cut off; every
   variable keeps its range, and no buffer ever holds more than its room. *)
THEOREM ReachedKept == Spec => []Reached
  BY InitTypes, StepReached, PTL DEF Spec

(* Every variable keeps its range. *)
THEOREM TypeCorrect == Spec => []TypeOK
<1>1. Reached => TypeOK BY DEF Reached
<1>. QED BY <1>1, ReachedKept, PTL
-----------------------------------------------------------------------------
(* The books.  The first Joined rows have been joined, none of them newer than the tick at
   hand; the book of an instrument has those of its rows that have the newest time, which
   is remembered, in their order. *)
Joined == IF depthOpen THEN taken["depth"] - 1 ELSE taken["depth"]
Books ==
  /\ \A k \in 1 .. Joined : taken["ticks"] >= 1 /\ day.depth[k].time <= Tick.time
  /\ \A t \in Token :
       /\ \A k \in 1 .. Joined : day.depth[k].token = t => day.depth[k].time <= lastDepthTime[t]
       /\ ToSet(book[t]) = {k \in 1 .. Joined : day.depth[k].token = t /\ day.depth[k].time = lastDepthTime[t]}
       /\ \A i, j \in DOMAIN book[t] : i < j => book[t][i] < book[t][j]
       /\ lastDepthTime[t] # 0 => book[t] # <<>>

LEMMA JoinedCount ==
  ASSUME Reached
  PROVE  Joined \in 0 .. Len(day.depth) /\ Len(day.depth) \in Nat
<1>1. Len(day.depth) \in Nat BY Days DEF Reached, TypeOK
<1>2. TypeOK /\ (depthOpen => taken["depth"] >= 1) BY DEF Reached, Closed
<1>. QED BY <1>1, <1>2, AtHand DEF Joined

(* A book that is not empty has a row. *)
LEMMA Attained ==
  ASSUME Reached, Books, NEW t \in Token, lastDepthTime[t] # 0
  PROVE  \E k \in 1 .. Joined : day.depth[k].token = t /\ day.depth[k].time = lastDepthTime[t]
<1>1. book[t] \in Seq(DOMAIN day.depth) /\ book[t] # <<>> BY DEF Reached, TypeOK, Books
<1>2. 1 \in DOMAIN book[t] BY <1>1
<1>3. book[t][1] \in ToSet(book[t]) BY <1>2 DEF ToSet
<1>. QED BY <1>3 DEF Books

LEMMA JoinBooks ==
  ASSUME Reached, Books, JoinRow
  PROVE  Books'
<1>1. /\ ReceiveDepth /\ depthOpen /\ NextDepth.time <= Tick.time /\ at = "join"
      /\ book' = [book EXCEPT ![NextDepth.token] = WithRow(taken["depth"])]
      /\ lastDepthTime' = [lastDepthTime EXCEPT ![NextDepth.token] = NextDepth.time]
      /\ UNCHANGED <<day, fetched, prefetch>>
  BY DEF JoinRow, RowDue, Due, prefetching
<1>. DEFINE n == taken["depth"]
            u == NextDepth.token
<1>2. TypeOK /\ n >= 1 /\ taken["ticks"] >= 1 /\ day \in Day
  BY <1>1 DEF Reached, TypeOK, Closed, Counted, Holding
<1>3. /\ n \in 1 .. Len(day.depth) /\ Len(day.depth) \in Nat /\ u \in Token /\ NextDepth = day.depth[n]
      /\ NextDepth.time \in Nat \ {0} /\ Joined = n - 1
  BY <1>1, <1>2, AtHand, JoinedCount DEF NextDepth, Joined
<1>4. Joined' = n /\ taken'["ticks"] = taken["ticks"] /\ Tick' = Tick
  BY <1>1, <1>3, DepthReceived DEF Joined, Tick
<1>5. \A k \in 1 .. Joined : k < n /\ day.depth[k].time <= day.depth[n].time
  BY <1>2, <1>3, Days
<1>6. \A k \in 1 .. n : k \in 1 .. Joined \/ k = n BY <1>3
<1>7. \A k \in 1 .. n : day.depth[k].time <= Tick.time
  BY <1>1, <1>3, <1>6 DEF Books
<1>8. book \in [Token -> Seq(DOMAIN day.depth)] /\ lastDepthTime \in [Token -> Nat] BY <1>2 DEF TypeOK
<1>. HIDE DEF n, u
<1>9. /\ lastDepthTime'[u] = NextDepth.time /\ book'[u] = WithRow(n)
      /\ \A t \in Token \ {u} : book'[t] = book[t] /\ lastDepthTime'[t] = lastDepthTime[t]
  BY <1>1, <1>3, <1>8 DEF n, u
<1>10. ASSUME NEW t \in Token \ {u}
       PROVE  /\ \A k \in 1 .. n : day.depth[k].token = t => day.depth[k].time <= lastDepthTime'[t]
              /\ ToSet(book'[t]) = {k \in 1 .. n : day.depth[k].token = t /\ day.depth[k].time = lastDepthTime'[t]}
              /\ \A i, j \in DOMAIN book'[t] : i < j => book'[t][i] < book'[t][j]
              /\ lastDepthTime'[t] # 0 => book'[t] # <<>>
  <2>1. day.depth[n].token # t BY <1>3 DEF u
  <2>2. {k \in 1 .. n : day.depth[k].token = t /\ day.depth[k].time = lastDepthTime[t]}
          = {k \in 1 .. Joined : day.depth[k].token = t /\ day.depth[k].time = lastDepthTime[t]}
    BY <1>3, <1>6, <2>1
  <2>3. \A k \in 1 .. n : day.depth[k].token = t => day.depth[k].time <= lastDepthTime[t] BY <1>6, <2>1 DEF Books
  <2>. QED BY <1>9, <2>2, <2>3 DEF Books
<1>11. /\ \A k \in 1 .. n : day.depth[k].token = u => day.depth[k].time <= NextDepth.time
       /\ ToSet(WithRow(n)) = {k \in 1 .. n : day.depth[k].token = u /\ day.depth[k].time = NextDepth.time}
       /\ \A i, j \in DOMAIN WithRow(n) : i < j => WithRow(n)[i] < WithRow(n)[j]
       /\ WithRow(n) # <<>>
  <2>1. \A k \in 1 .. n : day.depth[k].token = u => day.depth[k].time <= NextDepth.time
    BY <1>2, <1>3, <1>5, <1>6
  <2>2. day.depth[n].token = u /\ lastDepthTime[u] \in Nat BY <1>3, <1>8 DEF u
  <2>3. CASE NextDepth.time > lastDepthTime[u]
    <3>1. WithRow(n) = <<n>> BY <2>3 DEF WithRow, u
    <3>2. \A k \in 1 .. Joined : ~(day.depth[k].token = u /\ day.depth[k].time = NextDepth.time)
      <4>1. ASSUME NEW k \in 1 .. Joined, day.depth[k].token = u, day.depth[k].time = NextDepth.time PROVE FALSE
        <5>1. day.depth[k].time <= lastDepthTime[u] BY <1>3, <4>1 DEF Books
        <5>. QED BY <1>3, <2>2, <2>3, <4>1, <5>1
      <4>. QED BY <4>1
    <3>3. {k \in 1 .. n : day.depth[k].token = u /\ day.depth[k].time = NextDepth.time} = {n}
      BY <1>3, <1>6, <2>2, <3>2
    <3>4. ToSet(<<n>>) = {n} BY DEF ToSet
    <3>. QED BY <2>1, <3>1, <3>3, <3>4
  <2>4. CASE ~(NextDepth.time > lastDepthTime[u])
    <3>. DEFINE b == book[u]
    <3>1. WithRow(n) = Append(b, n) BY <2>4 DEF WithRow, u
    <3>2. lastDepthTime[u] # 0 BY <1>3, <2>2, <2>4
    <3>3. PICK k \in 1 .. Joined : day.depth[k].token = u /\ day.depth[k].time = lastDepthTime[u]
      BY <1>3, <3>2, Attained
    <3>4. NextDepth.time = lastDepthTime[u] BY <1>3, <1>5, <2>2, <2>4, <3>3
    <3>5. b \in Seq(DOMAIN day.depth) /\ n \in DOMAIN day.depth BY <1>2, <1>3, <1>8, Days
    <3>6. /\ DOMAIN Append(b, n) = 1 .. Len(b) + 1 /\ DOMAIN b = 1 .. Len(b) /\ Len(b) \in Nat
          /\ Append(b, n)[Len(b) + 1] = n /\ \A i \in 1 .. Len(b) : Append(b, n)[i] = b[i]
      BY <3>5, Longer
    <3>7. ToSet(Append(b, n)) = ToSet(b) \cup {n}
      <4>1. \A i \in 1 .. Len(b) + 1 : i \in 1 .. Len(b) \/ i = Len(b) + 1 BY <3>6
      <4>2. \A i \in 1 .. Len(b) : i \in 1 .. Len(b) + 1 BY <3>6
      <4>3. Len(b) + 1 \in 1 .. Len(b) + 1 BY <3>6
      <4>. QED BY <3>6, <4>1, <4>2, <4>3 DEF ToSet
    <3>8. /\ ToSet(b) = {m \in 1 .. Joined : day.depth[m].token = u /\ day.depth[m].time = NextDepth.time}
          /\ \A i, j \in DOMAIN b : i < j => b[i] < b[j]
      BY <1>3, <3>4 DEF Books
    <3>9. {m \in 1 .. n : day.depth[m].token = u /\ day.depth[m].time = NextDepth.time} = ToSet(b) \cup {n}
      BY <1>3, <1>6, <2>2, <3>8
    <3>10. \A i \in DOMAIN b : b[i] < n
      <4>1. \A i \in DOMAIN b : b[i] \in ToSet(b) BY DEF ToSet
      <4>. QED BY <1>5, <3>8, <4>1
    <3>. HIDE DEF b
    <3>11. \A i, j \in 1 .. Len(b) + 1 : i < j => Append(b, n)[i] < Append(b, n)[j]
      <4>1. ASSUME NEW i \in 1 .. Len(b) + 1, NEW j \in 1 .. Len(b) + 1, i < j
            PROVE  Append(b, n)[i] < Append(b, n)[j]
        <5>1. i \in 1 .. Len(b) BY <3>6, <4>1
        <5>2. CASE j = Len(b) + 1 BY <3>6, <3>10, <5>1, <5>2
        <5>3. CASE j \in 1 .. Len(b) BY <3>6, <3>8, <4>1, <5>1, <5>3
        <5>. QED BY <3>6, <5>2, <5>3
      <4>. QED BY <4>1
    <3>12. Append(b, n) # <<>> BY <3>6
    <3>. QED BY <2>1, <3>1, <3>6, <3>7, <3>9, <3>11, <3>12
  <2>. QED BY <2>3, <2>4
<1>12. \A t \in Token :
         /\ \A k \in 1 .. n : day.depth[k].token = t => day.depth[k].time <= lastDepthTime'[t]
         /\ ToSet(book'[t]) = {k \in 1 .. n : day.depth[k].token = t /\ day.depth[k].time = lastDepthTime'[t]}
         /\ \A i, j \in DOMAIN book'[t] : i < j => book'[t][i] < book'[t][j]
         /\ lastDepthTime'[t] # 0 => book'[t] # <<>>
  <2>1. ASSUME NEW t \in Token, t = u
        PROVE  /\ \A k \in 1 .. n : day.depth[k].token = t => day.depth[k].time <= lastDepthTime'[t]
               /\ ToSet(book'[t]) = {k \in 1 .. n : day.depth[k].token = t /\ day.depth[k].time = lastDepthTime'[t]}
               /\ \A i, j \in DOMAIN book'[t] : i < j => book'[t][i] < book'[t][j]
               /\ lastDepthTime'[t] # 0 => book'[t] # <<>>
    BY <1>9, <1>11, <2>1
  <2>. QED BY <1>10, <2>1
<1>13. day' = day BY <1>1
<1>. QED BY <1>2, <1>4, <1>7, <1>12, <1>13 DEF Books

LEMMA BooksStep ==
  ASSUME Reached, Books, [Next]_vars
  PROVE  Books'
<1>1. CASE UNCHANGED <<day, taken, depthOpen, book, lastDepthTime>>
  BY <1>1 DEF Books, Joined, Tick
<1>2. CASE FirstDepth
  <2>1. at = "first" /\ ReceiveDepth /\ UNCHANGED <<day, fetched, prefetch, book, lastDepthTime>>
    BY <1>2 DEF FirstDepth, prefetching
  <2>2. taken["depth"] = 0 /\ taken["ticks"] = 0 /\ ~depthOpen BY <2>1 DEF Reached, Counted
  <2>3. Joined = 0 /\ Joined' = 0
    <3>1. depthOpen' => taken'["depth"] = 1 BY <2>1, <2>2, DepthReceived
    <3>2. ~depthOpen' => taken' = taken BY <2>1, DepthReceived
    <3>. QED BY <2>2, <3>1, <3>2 DEF Joined
  <2>4. 1 .. Joined = {} /\ 1 .. Joined' = {} BY <2>3
  <2>. QED BY <2>1, <2>3, <2>4 DEF Books
<1>3. CASE NextTick
  <2>1. /\ taken' = [taken EXCEPT !["ticks"] = @ + 1] /\ UNCHANGED <<day, depthOpen, book, lastDepthTime>>
        /\ Available("ticks") /\ TypeOK /\ day \in Day
    BY <1>3 DEF NextTick, Reached, TypeOK
  <2>2. "ticks" \in Source /\ "depth" \in Source BY DEF Source
  <2>3. taken'["ticks"] = taken["ticks"] + 1 /\ taken'["depth"] = taken["depth"] BY <2>1, <2>2 DEF TypeOK
  <2>4. taken["ticks"] \in Nat /\ taken'["ticks"] \in 1 .. Len(day.ticks) /\ Len(day.ticks) \in Nat
    <3>1. Len(day["ticks"]) = Len(day.ticks) /\ Len(day.ticks) \in Nat BY <2>1, Days
    <3>2. taken["ticks"] < fetched["ticks"] /\ fetched["ticks"] <= Len(day["ticks"]) /\ taken["ticks"] \in Nat
          /\ fetched["ticks"] \in Nat
      BY <2>1, <2>2 DEF Available, TypeOK
    <3>. QED BY <2>3, <3>1, <3>2
  <2>5. Joined' = Joined BY <2>1, <2>3 DEF Joined
  <2>6. ASSUME NEW k \in 1 .. Joined PROVE day.depth[k].time <= day.ticks[taken'["ticks"]].time
    <3>1. taken["ticks"] >= 1 /\ day.depth[k].time <= day.ticks[taken["ticks"]].time BY DEF Books, Tick
    <3>2. taken["ticks"] \in 1 .. Len(day.ticks) /\ taken["ticks"] < taken'["ticks"] BY <2>3, <2>4, <3>1
    <3>3. day.ticks[taken["ticks"]].time <= day.ticks[taken'["ticks"]].time
          /\ day.ticks[taken["ticks"]].time \in Nat /\ day.ticks[taken'["ticks"]].time \in Nat
      BY <2>1, <2>4, <3>2, Days
    <3>4. day.depth[k].time \in Nat
      <4>1. k \in 1 .. Len(day.depth) BY JoinedCount
      <4>. QED BY <2>1, <4>1, Days
    <3>. QED BY <3>1, <3>3, <3>4
  <2>. QED BY <2>1, <2>4, <2>5, <2>6 DEF Books, Tick
<1>4. CASE JoinRow BY <1>4, JoinBooks
<1>5. ASSUME ~FirstDepth, ~NextTick, ~JoinRow PROVE UNCHANGED <<day, taken, depthOpen, book, lastDepthTime>>
  BY <1>5 DEF Next, Prefetcher, Fetch, FetchEnds, Reader, NoMoreTicks, Send, ReadSpeed, Pause, Pace, TimerFires, Wake,
       GiveUp, Finish, SetSpeed, Signal, Elapse, Cancel, vars, joining
<1>. QED BY <1>1, <1>2, <1>3, <1>4, <1>5

LEMMA InitBooks == Init => Books
<1>. SUFFICES ASSUME Init PROVE Books OBVIOUS
<1>1. "depth" \in Source BY DEF Source
<1>2. Joined = 0 BY <1>1 DEF Init, Joined
<1>3. 1 .. Joined = {} BY <1>2
<1>4. \A t \in Token : book[t] = <<>> /\ lastDepthTime[t] = 0 BY DEF Init
<1>5. ToSet(<<>>) = {} BY DEF ToSet
<1>. QED BY <1>3, <1>4, <1>5 DEF Books

(* ReadTicks keeps for every instrument the whole of the newest book it has received. *)
THEOREM BooksKept == Spec => []Books
<1>1. Reached /\ Books /\ [Next]_vars => Books' BY BooksStep
<1>. QED BY InitBooks, <1>1, ReachedKept, PTL DEF Spec
-----------------------------------------------------------------------------
(* The ticks that were sent.  Each had the newest book of its instrument among the first p rows,
   and nothing that belongs to it came later: the next row received was already newer, or
   there were no more rows, as the buffer was closed after the last one, cut off or closed
   by an error, which then is seen before the next tick. *)
Complete(i, p) ==
  \/ p < taken["depth"] /\ day.depth[p + 1].time > day.ticks[i].time
  \/ /\ p = fetched["depth"] /\ prefetch["depth"] = "closed"
     /\ \/ fetched["depth"] = Len(day.depth) \/ "depth" \in cut
        \/ "depth" \in failed /\ i = Len(sent) /\ ~depthOpen /\ at \notin {"first", "join"}
Right(i) == \E p \in 0 .. Len(day.depth) : Holds(sent[i], Newest(day.ticks[i], p)) /\ Complete(i, p)
Sendings == \A i \in DOMAIN sent : Right(i)

(* Rows that are newer than a tick do not change its book. *)
LEMMA NewestStays ==
  ASSUME day \in Day, NEW i \in DOMAIN day.ticks, NEW p \in Nat, NEW known \in 0 .. Len(day.depth), p <= known,
         p < known => day.depth[p + 1].time > day.ticks[i].time
  PROVE  Newest(day.ticks[i], known) = Newest(day.ticks[i], p)
<1>1. Len(day.depth) \in Nat /\ i \in 1 .. Len(day.ticks) /\ day.ticks[i].time \in Nat BY Days
<1>2. ASSUME NEW k \in 1 .. known, day.depth[k].time <= day.ticks[i].time PROVE k \in 1 .. p
  <2>1. SUFFICES ASSUME ~(k <= p) PROVE FALSE BY <1>1
  <2>2. p + 1 \in 1 .. Len(day.depth) /\ k \in 1 .. Len(day.depth) /\ p < known /\ p + 1 <= k BY <1>1, <2>1
  <2>3. day.depth[p + 1].time <= day.depth[k].time
    <3>1. p + 1 < k \/ p + 1 = k BY <2>2
    <3>. QED BY <2>2, <3>1, Days
  <2>4. day.depth[p + 1].time \in Nat /\ day.depth[k].time \in Nat BY <2>2, Days
  <2>. QED BY <1>1, <1>2, <2>2, <2>3, <2>4
<1>3. \A k \in 1 .. p : k \in 1 .. known BY <1>1
<1>. DEFINE rows(n) == {k \in 1 .. n : day.depth[k].token = day.ticks[i].token /\ day.depth[k].time <= day.ticks[i].time}
<1>4. rows(known) = rows(p) BY <1>2, <1>3
<1>. HIDE DEF rows
<1>5. \A n : Newest(day.ticks[i], n) = {k \in rows(n) : \A l \in rows(n) : day.depth[l].time <= day.depth[k].time}
  BY DEF Newest, rows
<1>. QED BY <1>4, <1>5

(* The book that goes with a tick is the newest of its instrument. *)
LEMMA NewestJoined ==
  ASSUME Reached, Books, taken["ticks"] >= 1
  PROVE  Holds(book[Tick.token], Newest(Tick, Joined))
<1>. DEFINE t == Tick.token
            rows == {k \in 1 .. Joined : day.depth[k].token = t /\ day.depth[k].time <= Tick.time}
<1>1. TypeOK /\ day \in Day BY DEF Reached, TypeOK
<1>2. t \in Token BY <1>1, AtHand
<1>3. lastDepthTime[t] \in Nat BY <1>1, <1>2 DEF TypeOK
<1>4. \A k \in 1 .. Joined : day.depth[k].time \in Nat \ {0}
  <2>1. \A k \in 1 .. Joined : k \in 1 .. Len(day.depth) BY JoinedCount
  <2>. QED BY <1>1, <2>1, Days
<1>5. \A k \in 1 .. Joined : k \in rows <=> day.depth[k].token = t BY DEF Books
<1>6. \A k \in rows : k \in 1 .. Joined OBVIOUS
<1>. HIDE DEF t, rows
<1>7. \A k \in rows : day.depth[k].time <= lastDepthTime[t] BY <1>2, <1>5, <1>6 DEF Books
<1>8. {k \in rows : \A l \in rows : day.depth[l].time <= day.depth[k].time}
        = {k \in 1 .. Joined : day.depth[k].token = t /\ day.depth[k].time = lastDepthTime[t]}
  <2>1. ASSUME NEW k \in rows, \A l \in rows : day.depth[l].time <= day.depth[k].time
        PROVE  day.depth[k].time = lastDepthTime[t]
    <3>1. lastDepthTime[t] # 0 BY <1>3, <1>4, <1>6, <1>7
    <3>2. PICK l \in 1 .. Joined : day.depth[l].token = t /\ day.depth[l].time = lastDepthTime[t]
      BY <1>2, <3>1, Attained
    <3>3. l \in rows BY <1>5, <3>2
    <3>4. lastDepthTime[t] <= day.depth[k].time BY <2>1, <3>2, <3>3
    <3>. QED BY <1>3, <1>4, <1>6, <1>7, <3>4
  <2>2. ASSUME NEW k \in 1 .. Joined, day.depth[k].token = t, day.depth[k].time = lastDepthTime[t]
        PROVE  k \in rows /\ \A l \in rows : day.depth[l].time <= day.depth[k].time
    BY <1>5, <1>7, <2>2
  <2>. QED BY <1>5, <1>6, <2>1, <2>2
<1>9. Newest(Tick, Joined) = {k \in rows : \A l \in rows : day.depth[l].time <= day.depth[k].time}
  BY DEF Newest, rows, t
<1>. QED BY <1>2, <1>8, <1>9 DEF Holds, Books, t

(* What a step does to the prefetched rows, and after an error. *)
LEMMA Onward ==
  ASSUME Reached, [Next]_vars
  PROVE  /\ day' = day /\ taken["depth"] <= taken'["depth"] /\ cut \subseteq cut' /\ failed \subseteq failed'
         /\ prefetch["depth"] = "closed" => prefetch'["depth"] = "closed" /\ fetched'["depth"] = fetched["depth"]
         /\ "depth" \in failed /\ ~depthOpen /\ at \notin {"first", "join"}
              => ~depthOpen' /\ at' \notin {"first", "join"}
<1>1. TypeOK /\ taken["depth"] \in Nat BY AtHand DEF Reached
<1>2. day' = day /\ cut \subseteq cut' /\ failed \subseteq failed'
  BY DEF Next, Prefetcher, Fetch, FetchEnds, Reader, FirstDepth, NextTick, NoMoreTicks, JoinRow, Send, ReadSpeed, Pause,
       Pace, TimerFires, Wake, GiveUp, Finish, SetSpeed, Signal, Elapse, Cancel, vars, prefetching
<1>3. taken["depth"] <= taken'["depth"]
  <2>1. CASE FirstDepth \/ JoinRow
    <3>1. ReceiveDepth /\ UNCHANGED <<day, fetched, prefetch>> BY <2>1 DEF FirstDepth, JoinRow, prefetching
    <3>. QED BY <3>1, DepthReceived
  <2>2. CASE NextTick
    <3>1. taken' = [taken EXCEPT !["ticks"] = @ + 1] /\ taken \in [Source -> Nat] BY <1>1, <2>2 DEF NextTick, TypeOK
    <3>. QED BY <1>1, <3>1 DEF Source
  <2>3. ASSUME ~FirstDepth, ~JoinRow, ~NextTick PROVE taken' = taken
    BY <2>3 DEF Next, Prefetcher, Fetch, FetchEnds, Reader, NoMoreTicks, Send, ReadSpeed, Pause, Pace, TimerFires, Wake,
         GiveUp, Finish, SetSpeed, Signal, Elapse, Cancel, vars, joining
  <2>. QED BY <1>1, <2>1, <2>2, <2>3
<1>4. ASSUME prefetch["depth"] = "closed"
      PROVE  prefetch'["depth"] = "closed" /\ fetched'["depth"] = fetched["depth"]
  <2>1. ASSUME NEW s \in Source, Fetch(s)
        PROVE  prefetch' = prefetch /\ fetched'["depth"] = fetched["depth"]
    <3>1. s # "depth" /\ prefetch' = prefetch /\ fetched' = [fetched EXCEPT ![s] = @ + 1] BY <1>4, <2>1 DEF Fetch
    <3>. QED BY <1>1, <3>1 DEF TypeOK, Source
  <2>2. ASSUME NEW s \in Source, FetchEnds(s)
        PROVE  prefetch'["depth"] = "closed" /\ fetched' = fetched
    <3>1. prefetch' = [prefetch EXCEPT ![s] = "closed"] /\ fetched' = fetched BY <2>2 DEF FetchEnds
    <3>. QED BY <1>1, <1>4, <3>1 DEF TypeOK, Source
  <2>3. ASSUME \A s \in Source : ~Prefetcher(s) PROVE UNCHANGED <<prefetch, fetched>>
    BY <2>3 DEF Next, Reader, FirstDepth, NextTick, NoMoreTicks, JoinRow, Send, ReadSpeed, Pause, Pace, TimerFires, Wake,
         GiveUp, Finish, SetSpeed, Signal, Elapse, Cancel, vars, prefetching
  <2>. QED BY <1>4, <2>1, <2>2, <2>3 DEF Prefetcher
<1>5. ASSUME "depth" \in failed, ~depthOpen, at \notin {"first", "join"}
      PROVE  ~depthOpen' /\ at' \notin {"first", "join"}
  <2>1. ~FirstDepth /\ ~JoinRow /\ ~Send BY <1>5 DEF FirstDepth, JoinRow, Send
  <2>2. CASE NextTick BY <1>5, <2>2 DEF NextTick, ErrorSeen
  <2>3. CASE ~NextTick
    BY <1>5, <2>1, <2>3 DEF Next, Prefetcher, Fetch, FetchEnds, Reader, NoMoreTicks, ReadSpeed, Pause, Pace, TimerFires,
       Wake, GiveUp, Finish, SetSpeed, Signal, Elapse, Cancel, vars, joining
  <2>. QED BY <2>2, <2>3
<1>. QED BY <1>2, <1>3, <1>4, <1>5

(* A tick once sent stays right. *)
LEMMA RightStays ==
  ASSUME Reached, [Next]_vars, NEW i \in DOMAIN sent, i \in DOMAIN sent', sent'[i] = sent[i], Right(i),
         i = Len(sent) => Len(sent') = Len(sent) \/ at = "join"
  PROVE  Right(i)'
<1>1. PICK p \in 0 .. Len(day.depth) : Holds(sent[i], Newest(day.ticks[i], p)) /\ Complete(i, p) BY DEF Right
<1>2. /\ day' = day /\ taken["depth"] <= taken'["depth"] /\ cut \subseteq cut' /\ failed \subseteq failed'
      /\ prefetch["depth"] = "closed" => prefetch'["depth"] = "closed" /\ fetched'["depth"] = fetched["depth"]
      /\ "depth" \in failed /\ ~depthOpen /\ at \notin {"first", "join"}
           => ~depthOpen' /\ at' \notin {"first", "join"}
  BY Onward
<1>3. taken["depth"] \in Nat /\ taken'["depth"] \in Nat /\ Len(day.depth) \in Nat
  <2>1. Reached' BY StepReached
  <2>2. taken["depth"] \in Nat BY AtHand DEF Reached
  <2>3. taken' \in [Source -> Nat] BY <2>1 DEF Reached, TypeOK
  <2>. QED BY <2>2, <2>3, JoinedCount DEF Source
<1>4. Holds(sent[i], Newest(day.ticks[i], p))' BY <1>1, <1>2 DEF Holds, Newest
<1>5. Complete(i, p)'
  <2>1. CASE p < taken["depth"] /\ day.depth[p + 1].time > day.ticks[i].time
    BY <1>2, <1>3, <2>1 DEF Complete
  <2>2. CASE p = fetched["depth"] /\ prefetch["depth"] = "closed" /\ (fetched["depth"] = Len(day.depth) \/ "depth" \in cut)
    BY <1>2, <2>2 DEF Complete
  <2>3. CASE /\ p = fetched["depth"] /\ prefetch["depth"] = "closed"
             /\ "depth" \in failed /\ i = Len(sent) /\ ~depthOpen /\ at \notin {"first", "join"}
    BY <1>2, <2>3 DEF Complete
  <2>. QED BY <1>1, <2>1, <2>2, <2>3 DEF Complete
<1>. QED BY <1>2, <1>4, <1>5 DEF Right

LEMMA SendingsStep ==
  ASSUME Reached, Books, Sendings, [Next]_vars
  PROVE  Sendings'
<1>1. CASE Send
  <2>. DEFINE b == book[Tick.token]
  <2>1. /\ at = "join" /\ ~RowDue /\ sent' = Append(sent, b) /\ at' \in {"next", "pace"}
        /\ UNCHANGED <<day, taken, fetched, prefetch, cut, failed, depthOpen>>
    BY <1>1 DEF Send, prefetching
  <2>2. TypeOK /\ taken["ticks"] >= 1 /\ taken["ticks"] \in 1 .. Len(day.ticks) /\ Len(sent) = taken["ticks"] - 1
    BY <2>1, AtHand DEF Reached, Counted, Holding
  <2>3. /\ Len(sent) \in Nat /\ DOMAIN sent = 1 .. Len(sent) /\ DOMAIN sent' = 1 .. Len(sent) + 1
        /\ Len(sent') = Len(sent) + 1 /\ sent'[Len(sent) + 1] = b /\ \A i \in 1 .. Len(sent) : sent'[i] = sent[i]
    <3>. DEFINE S == Seq(DOMAIN day.depth)
    <3>1. Tick.token \in Token BY <2>2, AtHand
    <3>2. b \in S BY <2>2, <3>1 DEF TypeOK
    <3>3. sent \in Seq(S) BY <2>2 DEF TypeOK
    <3>. HIDE DEF S, b
    <3>. QED BY <2>1, <3>2, <3>3, Longer
  <2>4. ASSUME NEW i \in 1 .. Len(sent) PROVE Right(i)'
    <3>1. i \in DOMAIN sent /\ i \in DOMAIN sent' /\ sent'[i] = sent[i] /\ Right(i) BY <2>3 DEF Sendings
    <3>. QED BY <2>1, <3>1, RightStays
  <2>5. ASSUME NEW n, n = taken["ticks"] PROVE Right(n)'
    <3>1. n = Len(sent) + 1 /\ n = Len(sent') /\ day.ticks[n] = Tick BY <2>2, <2>3, <2>5 DEF Tick
    <3>2. Holds(b, Newest(Tick, Joined)) BY <2>2, NewestJoined
    <3>3. Joined \in 0 .. Len(day.depth) /\ Len(day.depth) \in Nat /\ day \in Day /\ taken["depth"] \in Nat
      BY <2>2, JoinedCount, AtHand DEF TypeOK
    <3>4. Holds(sent'[n], Newest(day.ticks[n], Joined)')
      <4>1. Newest(day.ticks[n], Joined)' = Newest(day.ticks[n], Joined)
        BY <2>1 DEF Newest, Joined
      <4>. QED BY <2>3, <3>1, <3>2, <4>1
    <3>5. Complete(n, Joined)'
      <4>1. CASE depthOpen
        <5>1. taken["depth"] >= 1 BY <4>1 DEF Reached, Closed
        <5>2. Joined = taken["depth"] - 1 /\ Joined + 1 = taken["depth"] BY <3>3, <4>1 DEF Joined
        <5>3. NextDepth.time > Tick.time
          <6>1. ~(NextDepth.time <= Tick.time) BY <2>1, <4>1 DEF RowDue, Due
          <6>2. NextDepth.time \in Nat /\ Tick.time \in Nat BY <2>2, <5>1, AtHand
          <6>. QED BY <6>1, <6>2
        <5>4. Joined < taken["depth"] /\ day.depth[Joined + 1].time > day.ticks[n].time
          BY <3>1, <3>3, <5>2, <5>3 DEF NextDepth
        <5>5. Joined' = Joined BY <2>1 DEF Joined
        <5>. QED BY <2>1, <5>4, <5>5 DEF Complete
      <4>2. CASE ~depthOpen
        <5>1. Exhausted("depth") BY <2>1, <4>2 DEF Reached, Closed
        <5>2. fetched["depth"] = Len(day.depth) \/ "depth" \in cut \/ "depth" \in failed
          <6>1. fetched["depth"] = Len(day["depth"]) \/ "depth" \in cut \/ "depth" \in failed
            BY <5>1 DEF Reached, Closed, Exhausted, Source
          <6>. QED BY <3>3, <6>1, Days
        <5>3. Joined' = fetched'["depth"] /\ prefetch'["depth"] = "closed"
          BY <2>1, <4>2, <5>1 DEF Joined, Exhausted
        <5>4. at' \notin {"first", "join"} BY <2>1
        <5>. QED BY <2>1, <3>1, <4>2, <5>2, <5>3, <5>4 DEF Complete
      <4>. QED BY <4>1, <4>2
    <3>6. Joined' \in 0 .. Len(day'.depth) BY <2>1, <3>3 DEF Joined
    <3>7. Holds(sent[n], Newest(day.ticks[n], Joined))'
      BY <2>1, <3>4 DEF Holds
    <3>. QED BY <2>1, <3>5, <3>6, <3>7 DEF Right
  <2>. SUFFICES ASSUME NEW i \in DOMAIN sent' PROVE Right(i)' BY DEF Sendings
  <2>6. i \in 1 .. Len(sent) \/ i = taken["ticks"] BY <2>2, <2>3
  <2>. QED BY <2>4, <2>5, <2>6
<1>2. ASSUME ~Send PROVE sent' = sent
  BY <1>2 DEF Next, Prefetcher, Fetch, FetchEnds, Reader, FirstDepth, NextTick, NoMoreTicks, JoinRow, ReadSpeed, Pause,
       Pace, TimerFires, Wake, GiveUp, Finish, SetSpeed, Signal, Elapse, Cancel, vars, joining
<1>3. CASE ~Send
  <2>1. sent' = sent BY <1>2, <1>3
  <2>. QED BY <2>1, RightStays DEF Sendings
<1>. QED BY <1>1, <1>3

LEMMA InitSendings == Init => Sendings
  BY DEF Init, Sendings

(* Every tick stays with the book it was sent with, and nothing that belonged in it comes later. *)
THEOREM SendingsKept == Spec => []Sendings
<1>1. Reached /\ Books /\ Sendings /\ [Next]_vars => Sendings' BY SendingsStep
<1>. QED BY InitSendings, <1>1, ReachedKept, BooksKept, PTL DEF Spec

(* "Reconstruct order depth timeline": every tick is sent in order with the whole of the newest
   book of its instrument and nothing older, and a replay that ends without an error has
   sent the whole day. *)
THEOREM SentWhole == Spec => []SentAsRecorded
<1>1. Reached /\ Sendings => SentAsRecorded
  <2>. SUFFICES ASSUME Reached, Sendings PROVE SentAsRecorded OBVIOUS
  <2>1. TypeOK /\ day \in Day /\ fetched["depth"] \in 0 .. Len(day.depth) /\ taken["depth"] \in 0 .. Len(day.depth)
        /\ taken["depth"] <= fetched["depth"] /\ Len(day.depth) \in Nat
    <3>1. TypeOK /\ day \in Day BY DEF Reached, TypeOK
    <3>2. "depth" \in Source BY DEF Source
    <3>. QED BY <3>1, <3>2, AtHand, Days
  <2>2. ASSUME NEW i \in DOMAIN sent,
               NEW known, known = IF "depth" \in cut \/ ("depth" \in failed /\ i = Len(sent))
                                  THEN fetched["depth"] ELSE Len(day.depth)
        PROVE  Holds(sent[i], Newest(day.ticks[i], known))
    <3>1. PICK p \in 0 .. Len(day.depth) : Holds(sent[i], Newest(day.ticks[i], p)) /\ Complete(i, p)
      BY DEF Sendings, Right
    <3>2. i \in DOMAIN day.ticks /\ day.ticks[i].time \in Nat
      <4>1. sent \in Seq(Seq(DOMAIN day.depth)) /\ Len(sent) <= taken["ticks"] BY <2>1 DEF TypeOK
      <4>2. i \in 1 .. Len(sent) /\ Len(sent) \in Nat BY <4>1
      <4>3. taken["ticks"] \in 0 .. Len(day.ticks) BY <2>1, AtHand
      <4>4. i \in 1 .. Len(day.ticks) BY <2>1, <4>1, <4>2, <4>3, Days
      <4>. QED BY <2>1, <4>4, Days
    <3>3. known \in 0 .. Len(day.depth) /\ p <= known /\ (p < known => day.depth[p + 1].time > day.ticks[i].time)
      <4>1. CASE p < taken["depth"] /\ day.depth[p + 1].time > day.ticks[i].time
        BY <2>1, <2>2, <4>1
      <4>2. CASE /\ p = fetched["depth"]
                 /\ \/ fetched["depth"] = Len(day.depth) \/ "depth" \in cut
                    \/ "depth" \in failed /\ i = Len(sent)
        BY <2>1, <2>2, <4>2
      <4>. QED BY <3>1, <4>1, <4>2 DEF Complete
    <3>4. Newest(day.ticks[i], known) = Newest(day.ticks[i], p) BY <2>1, <3>2, <3>3, NewestStays
    <3>. QED BY <3>1, <3>4
  <2>3. at = "finished" /\ "ticks" \notin cut => Len(sent) = Len(day.ticks)
    <3>. SUFFICES ASSUME at = "finished", "ticks" \notin cut PROVE Len(sent) = Len(day.ticks) OBVIOUS
    <3>1. "ticks" \in Source BY DEF Source
    <3>2. Exhausted("ticks") /\ failed = {} BY DEF Reached, Closed
    <3>3. fetched["ticks"] = Len(day["ticks"]) BY <3>1, <3>2 DEF Reached, Closed, Exhausted
    <3>4. Len(sent) = taken["ticks"] BY DEF Reached, Counted
    <3>. QED BY <2>1, <3>2, <3>3, <3>4, Days DEF Exhausted
  <2>4. at = "error" => failed # {} BY DEF Reached, Closed
  <2>. QED BY <2>2, <2>3, <2>4 DEF SentAsRecorded
<1>. QED BY <1>1, ReachedKept, SendingsKept, PTL
-----------------------------------------------------------------------------
(* The speed and the wait.  A speed that is not the one ReadTicks works with is being
   announced; and whenever the next tick is awaited or worked on, the time that has passed
   since the anchors was enough for the tick before it. *)
Heard ==
  /\ at \in {"decide", "paused", "timer"} /\ speed # current => signal \/ setters > 0
  /\ at = "paused" => current = 0

Previous == IF at = "next" THEN taken["ticks"] ELSE taken["ticks"] - 1
Paced ==
  /\ (at = "first" => anchor = 0) /\ (at = "timer" => anchor # 0)
  /\ at \in Holding \cup {"next"} /\ anchor # 0 /\ ~rushed /\ active > 0 =>
       Previous >= 1 /\ elapsed >= (day.ticks[Previous].time - anchor) \div active

LEMMA HeardStep ==
  ASSUME Reached, Heard, [Next]_vars
  PROVE  Heard'
<1>1. CASE Signal BY <1>1 DEF Signal, Signalled, Heard, pacing
<1>2. CASE \E s \in Speed : SetSpeed(s)
  <2>1. setters' > 0 /\ at' = at /\ current' = current BY <1>2 DEF SetSpeed, Reached, TypeOK, pacing
  <2>. QED BY <2>1 DEF Heard
<1>3. ASSUME ~Signal, ~\E s \in Speed : SetSpeed(s) PROVE UNCHANGED <<speed, setters>>
  BY <1>3 DEF Next, Prefetcher, Fetch, FetchEnds, Reader, FirstDepth, NextTick, NoMoreTicks, JoinRow, Send, ReadSpeed, Pause,
       Pace, TimerFires, Wake, GiveUp, Finish, Elapse, Cancel, vars, setting
<1>4. ASSUME UNCHANGED <<speed, setters>>, at' \in {"decide", "paused", "timer"}, ~ReadSpeed, ~Signal
      PROVE  at \in {"decide", "paused", "timer"} /\ current' = current /\ signal' = signal
  BY <1>4 DEF Next, Prefetcher, Fetch, FetchEnds, Reader, FirstDepth, NextTick, NoMoreTicks, JoinRow, Send, Pause,
       Pace, TimerFires, Wake, GiveUp, Finish, SetSpeed, Elapse, Cancel, vars, pacing, Returned
<1>5. CASE ReadSpeed BY <1>5 DEF ReadSpeed, Heard, setting
<1>6. at' = "paused" => at = "paused" \/ (Pause /\ current = 0)
  BY DEF Next, Prefetcher, Fetch, FetchEnds, Reader, FirstDepth, NextTick, NoMoreTicks, JoinRow, Send, ReadSpeed, Pause,
       Pace, TimerFires, Wake, GiveUp, Finish, SetSpeed, Signal, Elapse, Cancel, vars
<1>7. CASE ~Signal /\ ~ReadSpeed /\ ~\E s \in Speed : SetSpeed(s)
  BY <1>3, <1>4, <1>6, <1>7 DEF Heard
<1>. QED BY <1>1, <1>2, <1>5, <1>7

LEMMA PacedStep ==
  ASSUME Reached, Paced, [Next]_vars
  PROVE  Paced'
<1>1. /\ TypeOK /\ day \in Day /\ anchor \in Nat /\ elapsed \in Nat /\ taken["ticks"] \in Nat
      /\ active \in Int /\ current \in Int
  <2>1. TypeOK BY DEF Reached
  <2>2. taken["ticks"] \in Nat BY <2>1, AtHand
  <2>3. anchor \in Nat /\ elapsed \in Nat /\ active \in Int /\ current \in Int /\ day \in Day
    BY <2>1, Constants DEF TypeOK
  <2>. QED BY <2>1, <2>2, <2>3
<1>2. CASE Pace
  <2>1. /\ at = "decide" /\ current # 0 /\ active' = current /\ anchor' = (IF AnchorsDue THEN Tick.time ELSE anchor)
        /\ elapsed' = (IF AnchorsDue THEN 0 ELSE elapsed) /\ (~rushed' => ~rushed \/ AnchorsDue)
        /\ at' \in {"next", "timer"} /\ UNCHANGED <<day, taken>>
    BY <1>2 DEF Pace, joining
  <2>2. \/ (at' = "next" /\ Simulated(Tick.time - anchor') <= elapsed')
        \/ (at' = "timer" /\ ~(Simulated(Tick.time - anchor') <= elapsed'))
    BY <1>2 DEF Pace
  <2>3. taken["ticks"] >= 1 /\ Tick.time \in Nat \ {0} /\ Tick.time = day.ticks[taken["ticks"]].time
    <3>1. taken["ticks"] >= 1 BY <2>1 DEF Reached, Counted, Holding
    <3>. QED BY <1>1, <3>1, AtHand DEF Tick
  <2>7. anchor' # 0 BY <2>1, <2>3 DEF AnchorsDue
  <2>. SUFFICES ASSUME ~rushed', active' > 0
                PROVE  Previous' >= 1 /\ elapsed' >= (day'.ticks[Previous'].time - anchor') \div active'
    BY <2>1, <2>7 DEF Paced
  <2>4. Simulated(Tick.time - anchor') = (Tick.time - anchor') \div current BY <1>1, <2>1 DEF Simulated
  <2>5. CASE at' = "next"
    <3>1. Previous' = taken["ticks"] BY <2>1, <2>5 DEF Previous
    <3>. QED BY <2>1, <2>2, <2>3, <2>4, <2>5, <3>1
  <2>6. CASE at' = "timer"
    <3>1. ASSUME AnchorsDue PROVE FALSE
      <4>1. Tick.time - anchor' = 0 /\ elapsed' = 0 BY <2>1, <2>3, <3>1
      <4>2. 0 \div current <= 0 BY <1>1, <2>1, Quotient
      <4>. QED BY <2>2, <2>4, <2>6, <4>1, <4>2
    <3>2. Previous' = Previous BY <2>1, <2>6 DEF Previous
    <3>3. anchor # 0 /\ current = active /\ ~rushed /\ active > 0 BY <2>1, <3>1 DEF AnchorsDue
    <3>4. Previous >= 1 /\ elapsed >= (day.ticks[Previous].time - anchor) \div active
      BY <2>1, <3>3 DEF Paced, Holding
    <3>. QED BY <2>1, <3>1, <3>2, <3>3, <3>4
  <2>. QED BY <2>1, <2>5, <2>6
<1>3. CASE TimerFires
  <2>1. /\ at = "timer" /\ elapsed >= deadline /\ at' = "next" /\ UNCHANGED <<day, taken, anchor, active, rushed, elapsed>>
    BY <1>3 DEF TimerFires, joining, pacing
  <2>2. taken["ticks"] >= 1 BY <2>1 DEF Reached, Counted, Holding
  <2>3. deadline = (Tick.time - anchor) \div active BY <2>1 DEF Reached, Anchored
  <2>4. Previous' = taken["ticks"] BY <2>1 DEF Previous
  <2>. QED BY <2>1, <2>2, <2>3, <2>4 DEF Paced, Tick
<1>4. CASE Elapse
  <2>1. elapsed' = elapsed + 1 /\ anchor # 0 /\ UNCHANGED <<day, at, taken, anchor, active, rushed>>
    BY <1>4 DEF Elapse, joining, pacing
  <2>2. Previous' = Previous BY <2>1 DEF Previous
  <2>3. ASSUME at \in Holding \cup {"next"}, ~rushed, active > 0
        PROVE  Previous >= 1 /\ elapsed + 1 >= (day.ticks[Previous].time - anchor) \div active
    <3>1. Previous >= 1 /\ elapsed >= (day.ticks[Previous].time - anchor) \div active BY <2>1, <2>3 DEF Paced
    <3>2. Previous \in 1 .. Len(day.ticks)
      <4>1. taken["ticks"] \in 0 .. Len(day.ticks) BY <1>1, AtHand
      <4>. QED BY <1>1, <3>1, <4>1, Days DEF Previous
    <3>3. day.ticks[Previous].time - anchor \in Int /\ active \in Nat \ {0} BY <1>1, <2>3, <3>2, Days
    <3>4. (day.ticks[Previous].time - anchor) \div active \in Int BY <3>3, Quotient
    <3>. QED BY <1>1, <3>1, <3>4
  <2>. QED BY <2>1, <2>2, <2>3 DEF Paced
<1>5. CASE NextTick
  <2>1. /\ at = "next" /\ at' \in {"error", "join"} /\ UNCHANGED <<day, anchor, active, rushed, elapsed>>
        /\ taken' = [taken EXCEPT !["ticks"] = @ + 1]
    BY <1>5 DEF NextTick, pacing
  <2>2. taken'["ticks"] = taken["ticks"] + 1 BY <1>1, <2>1 DEF TypeOK, Source
  <2>3. at' = "join" => Previous' = Previous BY <1>1, <2>1, <2>2 DEF Previous
  <2>. QED BY <2>1, <2>3 DEF Paced, Holding
<1>6. CASE Send
  <2>1. /\ at = "join" /\ at' \in {"next", "pace"} /\ (at' = "next" => rushed') /\ (at' = "pace" => rushed' = rushed)
        /\ UNCHANGED <<day, taken, anchor, active, elapsed>>
    BY <1>6 DEF Send
  <2>2. at' = "pace" => Previous' = Previous BY <2>1 DEF Previous
  <2>. QED BY <2>1, <2>2 DEF Paced, Holding
<1>7. CASE FirstDepth BY <1>7 DEF FirstDepth, pacing, Paced
<1>8. CASE JoinRow
  <2>1. /\ at = "join" /\ ReceiveDepth /\ UNCHANGED <<at, day, fetched, prefetch, anchor, active, rushed, elapsed>>
    BY <1>8 DEF JoinRow, pacing, prefetching
  <2>2. taken'["ticks"] = taken["ticks"] BY <2>1, DepthReceived
  <2>3. Previous' = Previous BY <2>1, <2>2 DEF Previous
  <2>. QED BY <2>1, <2>3 DEF Paced
<1>9. ASSUME ~Pace, ~TimerFires, ~Elapse, ~NextTick, ~Send, ~FirstDepth, ~JoinRow
      PROVE  /\ UNCHANGED <<day, taken, anchor, active, rushed, elapsed>>
             /\ at' = at \/ (at' \in Holding \ {"timer"} /\ at \in Holding) \/ at' \notin Holding \cup {"first", "next"}
  BY <1>9 DEF Next, Prefetcher, Fetch, FetchEnds, Reader, NoMoreTicks, ReadSpeed, Pause, Wake, GiveUp, Finish, SetSpeed,
       Signal, Cancel, vars, joining, pacing, Holding, Returned
<1>10. CASE /\ UNCHANGED <<day, taken, anchor, active, rushed, elapsed>>
            /\ at' = at \/ (at' \in Holding \ {"timer"} /\ at \in Holding) \/ at' \notin Holding \cup {"first", "next"}
  <2>1. at' \in Holding \cup {"next"} => Previous' = Previous /\ at \in Holding \cup {"next"}
    BY <1>10 DEF Previous, Holding
  <2>. QED BY <1>10, <2>1 DEF Paced, Holding
<1>. QED BY <1>2, <1>3, <1>4, <1>5, <1>6, <1>7, <1>8, <1>9, <1>10

LEMMA InitPaced == Init => Heard /\ Paced
  BY DEF Init, Heard, Paced, Holding

(* "Handles Pauses and recalculates waits": ReadTicks never sleeps on a speed that is no longer
   set without a signal under way; but for a unit of time, no wait is longer than what lies
   between a tick and the one before it at the speed set, and ReadTicks never goes on before
   the time since the anchors has come up to the tick, with the exceptions SpeedObeyed names. *)
THEOREM WaitsBounded == Spec => []SpeedObeyed
<1>1. Reached /\ Heard /\ Paced /\ [Next]_vars => (Heard /\ Paced)' BY HeardStep, PacedStep
<1>2. Reached /\ Heard /\ Paced => SpeedObeyed
  <2>. SUFFICES ASSUME Reached, Heard, Paced PROVE SpeedObeyed OBVIOUS
  <2>1. (at = "paused" /\ speed # 0) \/ (at = "timer" /\ speed # active) => signal \/ setters > 0
    BY DEF Heard, Reached, Anchored
  <2>3. ASSUME at = "next", anchor # 0, ~rushed, active > 0
        PROVE  \/ Tick.time - anchor < (elapsed - held + 1) * active
               \/ held > 0 /\ Tick.time - anchor < (elapsed + 1) * active
    <3>. DEFINE y == Tick.time - anchor
    <3>1. TypeOK /\ elapsed \in Nat /\ held \in Nat /\ active \in Nat \ {0} /\ anchor \in Nat
      <4>1. TypeOK BY DEF Reached
      <4>2. active \in Int /\ elapsed \in Nat /\ held \in Nat /\ anchor \in Nat BY <4>1, Constants DEF TypeOK
      <4>. QED BY <2>3, <4>1, <4>2
    <3>2. taken["ticks"] >= 1 /\ elapsed >= y \div active
      BY <2>3 DEF Paced, Previous, Tick
    <3>3. y \in Int BY <3>1, <3>2, AtHand
    <3>. HIDE DEF y
    <3>4. y \div active \in Int /\ y < (y \div active) * active + active BY <3>1, <3>3, Quotient
    <3>5. (y \div active) * active <= elapsed * active BY <3>1, <3>2, <3>4, Times
    <3>6. (elapsed + 1) * active = elapsed * active + active BY <3>1
    <3>7. (y \div active) * active \in Int /\ elapsed * active \in Int /\ active \in Int BY <3>1, <3>4
    <3>8. y < (elapsed + 1) * active BY <3>3, <3>4, <3>5, <3>6, <3>7
    <3>9. held = 0 => elapsed - held + 1 = elapsed + 1 BY <3>1
    <3>. QED BY <3>1, <3>8, <3>9 DEF y
  <2>2. ASSUME at = "timer", ~rushed
        PROVE  (deadline - elapsed) * active < (Tick.time - day.ticks[taken["ticks"] - 1].time) + active
    <3>. DEFINE q == taken["ticks"] - 1
                x == Tick.time - anchor
                y == day.ticks[q].time - anchor
    <3>1. TypeOK /\ day \in Day /\ elapsed \in Nat /\ active \in Nat \ {0} /\ anchor \in Nat /\ deadline \in Nat
          /\ taken["ticks"] \in 0 .. Len(day.ticks) /\ deadline = x \div active
      <4>1. TypeOK BY DEF Reached
      <4>2. active > 0 /\ deadline = x \div active BY <2>2 DEF Reached, Anchored
      <4>3. active \in Int /\ elapsed \in Nat /\ deadline \in Nat /\ anchor \in Nat /\ day \in Day
        BY <4>1, Constants DEF TypeOK
      <4>. QED BY <4>1, <4>2, <4>3, AtHand
    <3>2. anchor # 0
      BY <2>2 DEF Paced
    <3>3. q >= 1 /\ elapsed >= y \div active
      BY <2>2, <3>1, <3>2 DEF Paced, Holding, Previous
    <3>4. q \in 1 .. Len(day.ticks) /\ taken["ticks"] \in 1 .. Len(day.ticks) BY <3>1, <3>3, Days
    <3>5. x \in Int /\ y \in Int /\ x - y = Tick.time - day.ticks[q].time
      <4>1. Tick.time \in Nat /\ day.ticks[q].time \in Nat BY <3>1, <3>4, Days DEF Tick
      <4>2. anchor \in Nat BY <3>1
      <4>. QED BY <4>1, <4>2
    <3>. HIDE DEF x, y, q
    <3>6. deadline * active <= x BY <3>1, <3>5, Quotient
    <3>7. y \div active \in Int /\ y < (y \div active) * active + active BY <3>1, <3>5, Quotient
    <3>8. (y \div active) * active <= elapsed * active BY <3>1, <3>3, <3>7, Times
    <3>9. (deadline - elapsed) * active = deadline * active - elapsed * active BY <3>1, Spread
    <3>10. deadline * active \in Int /\ elapsed * active \in Int /\ (y \div active) * active \in Int BY <3>1, <3>7
    <3>11. (deadline - elapsed) * active < (x - y) + active
      BY <3>1, <3>5, <3>6, <3>7, <3>8, <3>9, <3>10
    <3>. QED BY <3>5, <3>11 DEF q
  <2>. QED BY <2>1, <2>2, <2>3 DEF SpeedObeyed
<1>. QED BY InitPaced, <1>1, <1>2, ReachedKept, PTL DEF Spec
-----------------------------------------------------------------------------
(* The hub.  The strengthening says where a connection stands in it: before it is
   registered it is neither registered nor closed, afterwards it is one of the two.
   Without it a registration could meet a closed channel and an unregister could miss a
   client that is neither. *)

(* A connection is registered or closed exactly once ServeWs has registered it. *)
Standing ==
  \A c \in Client : reader[c] \in {"absent", "register"} <=> c \notin clients \cup closed

(* A reader that waits to subscribe names a topic. *)
Asking == \A c \in Client : reader[c] = "subscribe" => asked[c] \in Topic

HubHolds == HubTypeOK /\ ClosedOnce /\ Standing /\ Asking

(* No connection is known to the hub at first. *)
LEMMA InitHub == HubInit => HubHolds
  BY HubAssumption DEF HubInit, HubHolds, HubTypeOK, ClosedOnce, Standing, Asking, ReaderAt

(* A step of one connection that touches neither the hub nor what is closed, and
   keeps the reader on its side of the registration. *)
LEMMA PumpStep ==
  ASSUME HubHolds, NEW c \in Client, Running,
         \/ ServeWs(c) \/ PeerGone(c) \/ SendPong(c) \/ ReadFails(c)
         \/ Write(c) \/ WriterEnds(c)
         \/ ReadRequest(c, "pong", "none")
         \/ \E k \in Topic : ReadRequest(c, "subscribe", k) \/ ReadRequest(c, "unsubscribe", k)
  PROVE  HubHolds'
<1> USE HubAssumption DEF HubHolds, HubTypeOK, ClosedOnce, Standing, Asking, ReaderAt, hubState, Running
<1>1. CASE ServeWs(c) BY <1>1 DEF ServeWs
<1>2. CASE PeerGone(c) BY <1>2 DEF PeerGone
<1>3. CASE SendPong(c) BY <1>3 DEF SendPong, Full
<1>4. CASE ReadFails(c) BY <1>4 DEF ReadFails
<1>5. CASE Write(c) BY <1>5 DEF Write
<1>6. CASE WriterEnds(c) BY <1>6 DEF WriterEnds
<1>7. CASE ReadRequest(c, "pong", "none") BY <1>7 DEF ReadRequest
<1>8. CASE \E k \in Topic : ReadRequest(c, "subscribe", k) \/ ReadRequest(c, "unsubscribe", k)
  BY <1>8 DEF ReadRequest
<1>. QED BY <1>1, <1>2, <1>3, <1>4, <1>5, <1>6, <1>7, <1>8

(* removeClient closes the channel of a registered client, once, and leaves every
   client on its side of the registration. *)
LEMMA RemoveKeeps ==
  ASSUME HubHolds, Running, NEW c \in Client, RemoveClient(c)
  PROVE  /\ ClosedOnce' /\ c \notin clients'
         /\ clients' \cup closed' = clients \cup closed
         /\ clients' \in SUBSET Client /\ closed' \in SUBSET Client
         /\ subs' \in SUBSET (Topic \X Client) /\ panic' = "no"
  BY DEF HubHolds, HubTypeOK, ClosedOnce, Standing, RemoveClient, Running

(* The steps of Run and Stop. *)
LEMMA HubStep ==
  ASSUME HubHolds, NEW c \in Client, Running,
         Register(c) \/ Unregister(c) \/ Subscribe(c) \/ RemoveSlow(c)
  PROVE  HubHolds'
<1>1. CASE Register(c)
  BY <1>1 DEF HubHolds, HubTypeOK, ClosedOnce, Standing, Asking, ReaderAt, Register
<1>2. CASE Unregister(c)
  <2>1. RemoveClient(c) BY <1>2 DEF Unregister
  <2>. QED BY <1>2, <2>1, RemoveKeeps DEF HubHolds, HubTypeOK, Standing, Asking, ReaderAt, Unregister
<1>3. CASE Subscribe(c)
  <2>1. <<asked[c], c>> \in Topic \X Client BY <1>3 DEF HubHolds, Asking, Subscribe
  <2>. QED BY <1>3, <2>1 DEF HubHolds, HubTypeOK, ClosedOnce, Standing, Asking, ReaderAt, Subscribe
<1>4. CASE RemoveSlow(c)
  <2>1. RemoveClient(c) BY <1>4 DEF RemoveSlow
  <2>. QED BY <1>4, <2>1, RemoveKeeps DEF HubHolds, HubTypeOK, Standing, Asking, ReaderAt, RemoveSlow
<1>. QED BY <1>1, <1>2, <1>3, <1>4

(* A broadcast only queues messages and notes the slow; Stop closes what is registered. *)
LEMMA SharedStep ==
  ASSUME HubHolds, Running,
         Stop \/ \E b \in Caller : Broadcast(b) \/ \E k \in Topic : BroadcastJSON(b, k)
  PROVE  HubHolds'
<1> USE HubAssumption
<1>1. CASE Stop
  <2>1. clients' = {} /\ closed' = closed \cup clients /\ panic' = panic
    BY <1>1 DEF HubHolds, ClosedOnce, Stop
  <2>2. HubTypeOK' BY <1>1, <2>1 DEF HubHolds, HubTypeOK, Stop
  <2>3. ClosedOnce' BY <2>1 DEF HubHolds, ClosedOnce
  <2>4. Standing' /\ Asking' BY <1>1, <2>1 DEF HubHolds, Standing, Asking, Stop
  <2>. QED BY <2>2, <2>3, <2>4 DEF HubHolds
<1>2. CASE \E b \in Caller : \E k \in Topic : BroadcastJSON(b, k)
  BY <1>2 DEF HubHolds, HubTypeOK, ClosedOnce, Standing, Asking, ReaderAt, BroadcastJSON, hubState
<1>3. ASSUME NEW b \in Caller, Broadcast(b) PROVE HubHolds'
  <2>1. queue' \in [Client -> 0 .. Cap] /\ slow' \in SUBSET Client
    <3>1. CASE UNCHANGED <<queue, slow>> BY <3>1 DEF HubHolds, HubTypeOK
    <3>2. ASSUME NEW to, queue' = [c \in Client |-> IF c \in to /\ ~Full(c) THEN queue[c] + 1 ELSE queue[c]]
          PROVE  queue' \in [Client -> 0 .. Cap]
      <4>. SUFFICES ASSUME NEW c \in Client PROVE queue'[c] \in 0 .. Cap BY <3>2
      <4>1. queue[c] \in 0 .. Cap BY DEF HubHolds, HubTypeOK
      <4>2. CASE ~Full(c) BY <4>1, <4>2, <3>2 DEF Full
      <4>3. CASE Full(c) BY <4>1, <4>3, <3>2
      <4>. QED BY <4>2, <4>3
    <3>3. CASE ~UNCHANGED <<queue, slow>>
      <4>1. slow' \in SUBSET Client BY <1>3, <3>3 DEF Broadcast, Subscribers
      <4>. QED BY <1>3, <3>2, <3>3, <4>1 DEF Broadcast
    <3>. QED BY <3>1, <3>3
  <2>2. panic' \in {"no", "send"}
    BY <1>3 DEF Broadcast, Selecting, Running
  <2>3. call' \in [Caller -> Topic \cup {"none"}]
    BY <1>3 DEF HubHolds, HubTypeOK, Broadcast
  <2>. QED
    BY <1>3, <2>1, <2>2, <2>3 DEF HubHolds, HubTypeOK, ClosedOnce, Standing, Asking, ReaderAt, Broadcast
<1>. QED BY <1>1, <1>2, <1>3

LEMMA StepHub == HubHolds /\ [HubNext]_hubVars => HubHolds'
<1>. SUFFICES ASSUME HubHolds, [HubNext]_hubVars PROVE HubHolds' OBVIOUS
<1>1. CASE UNCHANGED hubVars
  BY <1>1 DEF HubHolds, HubTypeOK, ClosedOnce, Standing, Asking, ReaderAt, hubVars, hubState
<1>2. CASE HubNext
  <2>1. Running
    BY <1>2 DEF HubNext, ServeWs, PeerGone, ReadRequest, SendPong, ReadFails,
                Write, WriterEnds, Register, Unregister, Subscribe, RemoveSlow,
                Broadcast, BroadcastJSON, Stop, Selecting
  <2>. QED BY <1>2, <2>1, PumpStep, HubStep, SharedStep DEF HubNext
<1>. QED BY <1>1, <1>2

LEMMA HubInvariant == HubSpec => []HubHolds
<1>1. HubInit => HubHolds BY InitHub
<1>2. HubHolds /\ [HubNext]_hubVars => HubHolds' BY StepHub
<1>. QED BY <1>1, <1>2, PTL DEF HubSpec

(* The type invariant: queues stay within the buffer, and a step of the pumps, the
   hub or Stop leaves every variable in its range. *)
THEOREM HubTypes == HubSpec => []HubTypeOK
<1>1. HubHolds => HubTypeOK BY DEF HubHolds
<1>. QED BY <1>1, HubInvariant, PTL

(* "Check if already removed to avoid double-closing": no send channel is closed
   twice, in any interleaving of disconnects, slow removals and Stop. *)
THEOREM NoDoubleClose == HubSpec => []ClosedOnce
<1>1. HubHolds => ClosedOnce BY DEF HubHolds
<1>. QED BY <1>1, HubInvariant, PTL
-----------------------------------------------------------------------------
(* Only the step that takes the unregister ends a reader, and removeClient leaves its
   client closed; a client whose reader has ended is registered by nobody. *)
Ended(c) == reader[c] = "done" => c \notin clients /\ c \in closed

LEMMA EndedStep ==
  ASSUME HubHolds, [HubNext]_hubVars, NEW c \in Client, Ended(c)
  PROVE  Ended(c)'
<1>1. CASE reader[c] = "done"
  <2>1. c \notin clients /\ c \in closed BY <1>1 DEF Ended
  <2>2. closed \subseteq closed'
    BY DEF HubNext, hubVars, hubState, ServeWs, PeerGone, ReadRequest, SendPong, ReadFails,
           Write, WriterEnds,
           Register, Unregister, Subscribe, RemoveSlow, Broadcast, BroadcastJSON, Stop,
           RemoveClient
  <2>3. c \notin clients'
    BY <1>1, <2>1 DEF HubNext, hubVars, hubState, ServeWs, PeerGone, ReadRequest, SendPong,
           ReadFails, Write,
           WriterEnds, Register, Unregister, Subscribe, RemoveSlow, Broadcast,
           BroadcastJSON, Stop, RemoveClient
  <2>. QED BY <2>1, <2>2, <2>3 DEF Ended
<1>2. CASE reader[c] # "done" /\ reader'[c] = "done"
  <2>1. Unregister(c)
    BY <1>2 DEF HubHolds, HubTypeOK, HubNext, hubVars, hubState, ServeWs, PeerGone, ReadRequest,
           SendPong, ReadFails, Write,
           WriterEnds, Register, Unregister, Subscribe, RemoveSlow, Broadcast,
           BroadcastJSON, Stop
  <2>2. Running /\ RemoveClient(c) BY <2>1 DEF Unregister, Selecting
  <2>3. c \in clients \cup closed
    BY <2>1 DEF HubHolds, Standing, Unregister
  <2>. QED BY <2>2, <2>3, RemoveKeeps DEF Ended
<1>3. CASE reader'[c] # "done"
  BY <1>3 DEF Ended
<1>. QED BY <1>1, <1>2, <1>3

(* A connection whose reader has ended is not left behind in the hub. *)
THEOREM ReadersRelease == HubSpec => []ConnectionsReleased
<1>1. HubInit => ConnectionsReleased
  BY DEF HubInit, ConnectionsReleased
<1>2. HubHolds /\ ConnectionsReleased /\ [HubNext]_hubVars => ConnectionsReleased'
  <2>. SUFFICES ASSUME HubHolds, ConnectionsReleased, [HubNext]_hubVars, NEW c \in Client
                PROVE  Ended(c)'
    BY DEF ConnectionsReleased, Ended
  <2>1. Ended(c) BY DEF ConnectionsReleased, Ended
  <2>. QED BY <2>1, EndedStep
<1>. QED BY <1>1, <1>2, HubInvariant, PTL DEF HubSpec

(* Clients are let go of once and completely. *)
THEOREM ReleasedOnce == HubSpec => []ClientsReleased
  BY NoDoubleClose, ReadersRelease, PTL DEF ClientsReleased
=============================================================================
