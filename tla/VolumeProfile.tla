----------------------------- MODULE VolumeProfile -----------------------------
(***************************************************************************)
(* The volume profile of one instrument, pipeline/volume_profile.go: the   *)
(* traded volume per price bucket, its point of control (POC) and the      *)
(* value area [VAL, VAH] around it that holds 70% of the volume.           *)
(*                                                                         *)
(* A profile is a record: buckets is a function from the bucket prices     *)
(* seen so far (SortedPrices) to volumes, nodes the buckets as they were   *)
(* when they were last copied for the database.  Extrema (HVNs, LVNs) are  *)
(* left out: they are computed from nodes for display only.                *)
(***************************************************************************)
EXTENDS Integers, FiniteSets, FiniteSetsExt, Functions

CONSTANTS BucketSize,  (* BucketSize of the instrument                     *)
          SaveEvery    (* threshold: a save every so many ticks, 20        *)

ASSUME ProfileAssumption == BucketSize \in Nat \ {0} /\ SaveEvery \in Nat \ {0}

NoBuckets == [b \in {} |-> 0]
Volume(buckets) == SumFunction(buckets)

EmptyProfile ==
  [buckets |-> NoBuckets, total |-> 0, poc |-> 0, vah |-> 0, val |-> 0, ticks |-> 0, nodes |-> NoBuckets]

(* The bucket of a price. *)
BucketPrice(price) == (price \div BucketSize) * BucketSize

(* SortedPrices and Buckets after a trade; a new bucket is inserted in its place. *)
Added(buckets, b, vol) ==
  [x \in DOMAIN buckets \cup {b} |->
     (IF x \in DOMAIN buckets THEN buckets[x] ELSE 0) + (IF x = b THEN vol ELSE 0)]

(* The loop over SortedPrices keeps the first, lowest, price of the largest volume. *)
PointOfControl(buckets) ==
  Min({b \in DOMAIN buckets : \A c \in DOMAIN buckets : buckets[c] <= buckets[b]})

(* Mutant of Short: the area is to hold half of the volume. *)
ShortOfHalf(held, total) == 10 * held < 5 * total
(* currentVolume < targetVolume *)
Short(held, total) == 10 * held < 7 * total

(* The buckets beyond the ends of a window, the volume of the next of them on each side,
   and the volume that the window holds. *)
Above(buckets, hi) == {b \in DOMAIN buckets : b > hi}
Below(buckets, lo) == {b \in DOMAIN buckets : b < lo}
VolumeUp(buckets, hi) == IF Above(buckets, hi) = {} THEN 0 ELSE buckets[Min(Above(buckets, hi))]
VolumeDown(buckets, lo) == IF Below(buckets, lo) = {} THEN 0 ELSE buckets[Max(Below(buckets, lo))]
VolumeWithin(buckets, lo, hi) ==
  Volume(Restrict(buckets, {b \in DOMAIN buckets : lo <= b /\ b <= hi}))

(* The loop that widens a window towards the larger neighbour, upwards on a tie, until it
   holds the target or has no neighbour left. *)
Grows(buckets, total, w) ==
  /\ Short(VolumeWithin(buckets, w[1], w[2]), total)
  /\ ~(VolumeUp(buckets, w[2]) = 0 /\ VolumeDown(buckets, w[1]) = 0)
Wider(buckets, w) ==
  IF VolumeUp(buckets, w[2]) >= VolumeDown(buckets, w[1]) THEN <<w[1], Min(Above(buckets, w[2]))>>
  ELSE <<Max(Below(buckets, w[1])), w[2]>>
ValueArea(buckets, total) ==
  LET poc == PointOfControl(buckets)
      grow[w \in (DOMAIN buckets) \X (DOMAIN buckets)] ==
        IF Grows(buckets, total, w) THEN grow[Wider(buckets, w)] ELSE w
  IN grow[<<poc, poc>>]

(* syncAllBucketsToNodes: with fewer than three buckets the nodes stay as they were. *)
SyncedNodes(p) == IF Cardinality(DOMAIN p.buckets) < 3 THEN p.nodes ELSE p.buckets

(* Whether this tick ends with a save. *)
SaveDue(p) == p.ticks % SaveEvery = 0

(* Process, on a tick that carries volume. *)
Traded(p, price, vol) ==
  LET buckets == Added(p.buckets, BucketPrice(price), vol)
      total == p.total + vol
      poc == PointOfControl(buckets)
      area == IF total > 0 /\ poc > 0 THEN ValueArea(buckets, total) ELSE <<p.val, p.vah>>
      q == [buckets |-> buckets, total |-> total, poc |-> poc, val |-> area[1], vah |-> area[2],
            ticks |-> p.ticks + 1, nodes |-> p.nodes]
  IN IF SaveDue(q) THEN [q EXCEPT !.nodes = SyncedNodes(q)] ELSE q

(* What a save writes into gidh_volume_profiles. *)
Row(p) == [total |-> p.total, poc |-> p.poc, vah |-> p.vah, val |-> p.val, nodes |-> p.nodes]

(* LoadExistingProfiles: the buckets are rebuilt from the nodes of the row. *)
Loaded(row) ==
  [buckets |-> row.nodes, total |-> row.total, poc |-> row.poc, vah |-> row.vah, val |-> row.val,
   ticks |-> 0, nodes |-> row.nodes]
-----------------------------------------------------------------------------
(* The reference for a value area: it is a range of buckets around the point of control,
   holds 70% of the volume, and is no wider than it must be: without its highest or
   without its lowest bucket it would hold less. *)
IsValueArea(buckets, total, poc, lo, hi) ==
  LET within(a, b) == VolumeWithin(buckets, a, b) IN
  /\ {lo, hi} \subseteq DOMAIN buckets /\ lo <= poc /\ poc <= hi
  /\ 10 * within(lo, hi) >= 7 * total
  /\ lo < hi => \/ 10 * within(lo + 1, hi) < 7 * total
                \/ 10 * within(lo, hi - 1) < 7 * total
=============================================================================
