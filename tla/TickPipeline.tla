------------------------------ MODULE TickPipeline ------------------------------
(***************************************************************************)
(* The tick pipeline, app/pipeline.go: every tick of an instrument goes,   *)
(* under the lock of its token, through the enrichment, the volume profile *)
(* and the bars.  Closed bars go to the strategy engine and to the         *)
(* database writer, every SaveEvery-th trade starts a goroutine that saves *)
(* the profile.  After a crash in a live session the profiles and the bars *)
(* of the day are read back (LoadExistingProfiles, WarmupEngineState).     *)
(*                                                                         *)
(* One tick is one step: all that it touches is the instrument's own and   *)
(* behind its lock.  market is the exchange: the volume traded so far;     *)
(* a tick may stand for several trades (the source drops ticks that find   *)
(* no room), its last traded quantity is 1.  The bar queue is the          *)
(* database writer's, seen from here: a batch is stored whole or, when one *)
(* of its keys exists, not at all.                                         *)
(***************************************************************************)
EXTENDS Enrichment, BarManager, VolumeProfile, Sequences

CONSTANTS Token,       (* instruments                                      *)
          Timeframe,   (* lengths of the bars in minutes                   *)
          Price,       (* prices a tick may carry                          *)
          Minute,      (* times a tick may carry                           *)
          Trades,      (* volume traded between two ticks                  *)
          MaxTicks,    (* bound: ticks                                     *)
          MaxRestarts  (* bound: crashes                                   *)

ASSUME PipelineAssumption ==
  /\ Timeframe \subseteq Nat \ {0} /\ Price \subseteq Nat \ {0} /\ Minute \subseteq Int
  /\ Trades \subseteq Nat /\ MaxTicks \in Nat /\ MaxRestarts \in Nat

VARIABLES now,       (* time of the last tick                              *)
          market,    (* volume traded at the exchange today, per token     *)
          mapped,    (* the tokens with DNA                                *)
          ctx,       (* enrichment contexts                                *)
          quoted,    (* the order manager's last price, 0 for none         *)
          profile,   (* volume profiles in memory                          *)
          saves,     (* saves under way: token and row                     *)
          saved,     (* gidh_volume_profiles                               *)
          candle, hist,
          ingested,  (* the bars the strategy engine got, in order         *)
          queue,     (* rows that wait in the database writer              *)
          table,     (* gidh_bars                                          *)
          ticks, restarts,
          (* Observations, which no step reads: *)
          base,      (* market before the first tick the stages ever got,  *)
                     (* Never until then                                   *)
          heard,     (* cumulative volume of the last tick this process    *)
                     (* got in the session, Never until then               *)
          lost,      (* volume traded since base that is not in the        *)
                     (* profile, less what is in it twice                  *)
          carried,   (* volume of the profile loaded by the last restart   *)
          orphaned,  (* and the part of it that came without buckets       *)
          warmed     (* how many bars the last restart read back           *)

stages == <<ctx, quoted, profile, candle, hist, ingested>>
stored == <<saves, saved, queue, table>>
seen == <<base, heard, lost, carried, orphaned, warmed>>
vars == <<now, market, mapped, stages, stored, ticks, restarts, seen>>

NoRow == [total |-> 0, poc |-> 0, vah |-> 0, val |-> 0, nodes |-> NoBuckets]
Zero == [t \in Token |-> 0]
Never == -1
PerBar(x) == [t \in Token |-> [f \in Timeframe |-> x]]

Bar == [start : Int, vol : Nat, close : Price]
BarRow == [token : Token, tf : Timeframe, start : Int, vol : Nat, close : Price]
IsBuckets(b) == DOMAIN b \subseteq Nat /\ \A x \in DOMAIN b : b[x] \in Nat

TypeOK ==
  /\ now \in Minute \cup {-OpenMinute} /\ market \in [Token -> Nat] /\ mapped \subseteq Token
  /\ ctx \in [Token -> [known : BOOLEAN, volume : Nat, price : Price \cup {0}]]
  /\ quoted \in [Token -> Price \cup {0}]
  /\ \A t \in Token :
       /\ IsBuckets(profile[t].buckets) /\ IsBuckets(profile[t].nodes) /\ IsBuckets(saved[t].nodes)
       /\ {profile[t].total, profile[t].ticks, saved[t].total} \subseteq Nat
  /\ candle \in [Token -> [Timeframe -> Bar \cup {NoCandle}]]
  /\ hist \in [Token -> [Timeframe -> [bars : Nat, anchored : BOOLEAN, held : Nat]]]
  /\ \A t \in Token, f \in Timeframe : ingested[t][f] \in Seq(Bar)
  /\ queue \subseteq BarRow /\ table \subseteq BarRow
  /\ ticks \in 0 .. MaxTicks /\ restarts \in 0 .. MaxRestarts

Init ==
  /\ now = -OpenMinute /\ market \in [Token -> {0, 1}] /\ mapped \in SUBSET Token
  /\ ctx = [t \in Token |-> IF t \in mapped THEN Mapped ELSE Unmapped]
  /\ quoted = Zero
  /\ profile = [t \in Token |-> EmptyProfile] /\ saves = {} /\ saved = [t \in Token |-> NoRow]
  /\ candle = PerBar(NoCandle) /\ hist = PerBar(NewHistory) /\ ingested = PerBar(<<>>)
  /\ queue = {} /\ table = {}
  /\ ticks = 0 /\ restarts = 0
  /\ base = [t \in Token |-> Never] /\ heard = [t \in Token |-> Never] /\ lost = Zero
  /\ carried = Zero /\ orphaned = Zero /\ warmed = PerBar(0)
-----------------------------------------------------------------------------
(* The row of a bar in gidh_bars, and what identifies it there. *)
RowOf(t, f, bar) == [token |-> t, tf |-> f, start |-> bar.start, vol |-> bar.vol, close |-> bar.close]
SameKey(r, s) == r.token = s.token /\ r.tf = s.tf /\ r.start = s.start

LastQuantity(cum) == IF cum = 0 THEN 0 ELSE 1

(* Process, before the market opens: the tick is archived and all stages drop it. *)
PreMarketTick(t, m, d) ==
  /\ m < 0
  /\ market' = [market EXCEPT ![t] = @ + d]
  /\ UNCHANGED <<stages, stored, seen>>

(* The volume profile stage, for a tick that carries volume. *)
ProfileStep(t, price, vol) ==
  IF vol = 0 THEN UNCHANGED <<profile, saves>>
  ELSE LET p == Traded(profile[t], price, vol) IN
       /\ profile' = [profile EXCEPT ![t] = p]
       /\ saves' = IF SaveDue(p) THEN saves \cup {[token |-> t, row |-> Row(p)]} ELSE saves

(* The bar manager, for each of the timeframes. *)
BarStep(t, m, price, vol) ==
  LET closed(f) == ClosedBy(candle[t][f], m, f, price) IN
  /\ candle' = [candle EXCEPT ![t] = [f \in Timeframe |-> Updated(@[f], m, f, price, vol)]]
  /\ hist' = [hist EXCEPT ![t] =
       [f \in Timeframe |-> IF closed(f) = <<>> THEN @[f] ELSE Analyzed(@[f], closed(f)[1])]]
  /\ ingested' = [ingested EXCEPT ![t] = [f \in Timeframe |-> @[f] \o closed(f)]]
  /\ queue' = queue \cup {RowOf(t, f, closed(f)[1]) : f \in {g \in Timeframe : closed(g) # <<>>}}

(* The volume a tick with cumulative volume cum stands for and the enrichment lets go of.
   Twice it counts only the last trade of a tick, whatever was traded before it:
     - after ticks that came before the first trade of the day (heard = 0), and
     - at the first tick after a restart, where it may even be a trade that the profile
       read back holds already, and the loss -1. *)
Uncounted(t, cum) ==
  IF heard[t] = 0 THEN cum - LastQuantity(cum)
  ELSE IF heard[t] = Never /\ base[t] # Never THEN cum - market[t] - LastQuantity(cum)
  ELSE 0

(* Process, in the session. *)
SessionTick(t, m, price, d) ==
  LET cum == market[t] + d
      prev == Context(ctx[t], price).volume
      vol == Delta(prev, cum, LastQuantity(cum)) IN
  /\ m >= 0
  /\ market' = [market EXCEPT ![t] = cum]
  /\ ctx' = [ctx EXCEPT ![t] = Enriched(ctx[t], price, cum)]
  /\ quoted' = IF Announces(ctx[t], price, vol) THEN [quoted EXCEPT ![t] = price] ELSE quoted
  /\ ProfileStep(t, price, vol)
  /\ BarStep(t, m, price, vol)
  /\ base' = IF base[t] = Never THEN [base EXCEPT ![t] = cum - LastQuantity(cum)] ELSE base
  /\ heard' = [heard EXCEPT ![t] = cum]
  /\ lost' = [lost EXCEPT ![t] = @ + Uncounted(t, cum)]
  /\ UNCHANGED <<saved, table, carried, orphaned, warmed>>

Tick(t, m, price, d) ==
  /\ ticks < MaxTicks /\ m >= now
  /\ ticks' = ticks + 1 /\ now' = m
  /\ PreMarketTick(t, m, d) \/ SessionTick(t, m, price, d)
  /\ UNCHANGED <<mapped, restarts>>

(* persistSingleProfileAsync: a save arrives, in whichever order, or fails. *)
SaveProfile(s) ==
  /\ saves' = saves \ {s}
  /\ saved' \in {saved, [saved EXCEPT ![s.token] = s.row]}
  /\ UNCHANGED <<now, market, mapped, stages, queue, table, ticks, restarts, seen>>

(* The writer's batch is copied into gidh_bars, unless a key of it is there already. *)
FlushBars ==
  /\ queue # {}
  /\ queue' = {}
  /\ table' = IF \E r \in queue, s \in table : SameKey(r, s) THEN table ELSE table \cup queue
  /\ UNCHANGED <<now, market, mapped, stages, saves, saved, ticks, restarts, seen>>
-----------------------------------------------------------------------------
(* FetchSessionBars: the stored bars of a timeframe in order of time. *)
SessionBars(t, f) ==
  LET rows == {r \in table : r.token = t /\ r.tf = f}
      starts == {r.start : r \in rows}
      nth(i) == CHOOSE s \in starts : Cardinality({u \in starts : u < s}) = i - 1
  IN [i \in 1 .. Cardinality(starts) |->
        LET r == CHOOSE r \in rows : r.start = nth(i) IN [start |-> r.start, vol |-> r.vol, close |-> r.close]]

(* RehydrateHistoricalBar, over all bars read back: the history. *)
Rehydrated(bars) ==
  LET h[i \in 0 .. Len(bars)] == IF i = 0 THEN NewHistory ELSE Analyzed(h[i - 1], bars[i])
  IN h[Len(bars)]

(* RehydrateHistoricalBar: the last bar read back becomes the working bar. *)
WorkingBar(bars) == IF bars = <<>> THEN NoCandle ELSE bars[Len(bars)]

(* The process dies and is started again: everything in memory is new, profiles and bars
   are read back before the first tick. *)
Restart ==
  /\ restarts < MaxRestarts /\ restarts' = restarts + 1
  /\ ctx' = [t \in Token |-> IF t \in mapped THEN Mapped ELSE Unmapped]
  /\ quoted' = Zero
  /\ profile' = [t \in Token |-> Loaded(saved[t])]
  /\ ingested' = [t \in Token |-> [f \in Timeframe |-> SessionBars(t, f)]]
  /\ candle' = [t \in Token |-> [f \in Timeframe |-> WorkingBar(SessionBars(t, f))]]
  /\ hist' = [t \in Token |-> [f \in Timeframe |-> Rehydrated(SessionBars(t, f))]]
  /\ saves' = {} /\ queue' = {}
  /\ heard' = [t \in Token |-> Never]
  /\ lost' = [t \in Token |-> lost[t] + profile[t].total - saved[t].total]
  /\ carried' = [t \in Token |-> saved[t].total]
  /\ orphaned' = [t \in Token |-> saved[t].total - Volume(saved[t].nodes)]
  /\ warmed' = [t \in Token |-> [f \in Timeframe |-> Len(SessionBars(t, f))]]
  /\ UNCHANGED <<now, market, mapped, saved, table, ticks, base>>

Next ==
  \/ \E t \in Token, m \in Minute, price \in Price, d \in Trades : Tick(t, m, price, d)
  \/ \E s \in saves : SaveProfile(s)
  \/ FlushBars
  \/ Restart

Spec == Init /\ [][Next]_vars
-----------------------------------------------------------------------------
(* The bars of the timeframe that were filled by this process: closed ones and the
   working one, without what the warm-up read back and the first tick closed again. *)
Filled(t, f) ==
  LET n == warmed[t][f]
      again == n > 0 /\ Len(ingested[t][f]) > n
  IN SumFunction([i \in 1 .. Len(ingested[t][f]) |->
                    IF i <= n \/ (again /\ i = n + 1) THEN 0 ELSE ingested[t][f][i].vol])
     + (IF n > 0 /\ ~again THEN 0 ELSE candle[t][f].vol)

(* Volumes are conserved between two ticks of a process, also when ticks were dropped on
   the way, and the stages agree: what the exchange traded since the stages first saw the
   token is in the profile, or was lost in one of three ways: a save was missing at a
   restart, trades fell into the gap before the first tick after it, or into the gap
   between ticks with cumulative volume 0 and the next one (Restart, Uncounted).  The bars
   of every timeframe hold together what the profile gained since the process started,
   whichever of them are closed. *)
VolumeConserved ==
  \A t \in Token :
    /\ base[t] # Never => profile[t].total + lost[t] = market[t] - base[t]
    /\ base[t] = Never => profile[t].total = 0 /\ lost[t] = 0
    /\ \A f \in Timeframe : Filled(t, f) = profile[t].total - carried[t]

(* The profile is what its definition says of the traded volume: the total is spread over
   the buckets, the point of control is the lowest of the fullest ones and the value area
   one that the reference accepts.  The exception is a profile read back from a row that
   was saved with fewer than three buckets: its volume came without them. *)
ProfileExact ==
  \A t \in Token :
    LET p == profile[t] IN
    /\ p.total = Volume(p.buckets) + orphaned[t]
    /\ DOMAIN saved[t].nodes # {} => saved[t].total = Volume(saved[t].nodes) + orphaned[t]
    /\ p.ticks > 0 /\ orphaned[t] = 0 =>
         /\ \A b \in DOMAIN p.buckets :
              p.buckets[b] <= p.buckets[p.poc] /\ (p.buckets[b] = p.buckets[p.poc] => p.poc <= b)
         /\ IsValueArea(p.buckets, p.total, p.poc, p.val, p.vah)

(* A timeframe whose windows are the same from 09:15 as from midnight: all but 10m. *)
Aligned(f) == OpenMinute % f = 0

(* The strategy engine gets every bar once, in order and, in an aligned timeframe, from
   windows that do not overlap.  The one exception is the last bar of a warm-up, which
   the next tick closes again; only the row of such a bar is ever refused.  And the
   anchored VWAP holds the volume of exactly the bars the engine got, from the first that
   closed far from its VWAP on, and keeps it over a restart. *)
BarsOnce ==
  \A t \in Token, f \in Timeframe :
    LET bars == ingested[t][f]
        far == {i \in DOMAIN bars : bars[i].close >= FarPrice} IN
    /\ \A i \in 1 .. Len(bars) - 1 :
         \/ bars[i].start + (IF Aligned(f) THEN f ELSE 1) <= bars[i + 1].start
         \/ i = warmed[t][f] /\ bars[i + 1] = bars[i]
    /\ \A r \in queue, s \in table :
         SameKey(r, s) /\ r.token = t /\ r.tf = f =>
           warmed[t][f] > 0 /\ r.start = bars[warmed[t][f]].start
    /\ hist[t][f].anchored <=> far # {}
    /\ hist[t][f].held =
         SumFunction([i \in DOMAIN bars |-> IF \E j \in far : j <= i THEN bars[i].vol ELSE 0])

(* The order manager fills and liquidates at the price of the last tick.  The exception
   is an instrument without DNA whose price has not moved since its first tick. *)
OrdersSeePrice ==
  \A t \in Token :
    ctx[t].price # 0 => quoted[t] = ctx[t].price \/ (t \notin mapped /\ quoted[t] = 0)
=============================================================================
