----------------------- MODULE BacktestLifecycleProofs -----------------------
(***************************************************************************)
(* Theorems about BacktestLifecycle: type correctness, with the account of *)
(* the managers that requests may make, and that one stream runs at a      *)
(* time, as long as no start meets a run and no two runs meet.             *)
(***************************************************************************)
EXTENDS BacktestLifecycle, FiniteSetTheorems, TLAPS

(* Runs are numbered by their requests, a run under way has days to go, and one that is to
   be reset has a further day. *)
Numbered ==
  \A r \in Request :
    /\ r > requests => run[r].at = "no" /\ run[r].day = 0
    /\ Active(r) => run[r].days > 0
    /\ run[r].at = "reset" => MoreDays(r)

(* The days whose manager has been made, as pairs of a request and a day: a run has spent
   none from the day on that it is about to begin, and the start that holds the lock has
   spent none. *)
Spent(x, d) ==
  /\ x.at \in {"accepted", "next", "stopping"} => d < x.day
  /\ x.at \in {"launch", "waiting", "reset"} => d <= x.day

Paid(P) ==
  /\ P \subseteq (1 .. requests) \X (0 .. MaxDays - 1)
  /\ Cardinality(P) = created
  /\ \A r \in Request, d \in 0 .. MaxDays - 1 : <<r, d>> \in P => Spent(run[r], d)
  /\ lock = "start" =>
       \E r \in 1 .. requests : run[r].at = "no" /\ \A d \in 0 .. MaxDays - 1 : <<r, d>> \notin P

Budget == \E P \in SUBSET (Request \X (0 .. MaxDays - 1)) : Paid(P)

Types == TypeOK /\ Numbered /\ Budget

(* Who holds the lock has cancelled what the field holds, and only one run stops a stream. *)
Halted ==
  /\ lock \in {"start", "stop", "day"} => current \in {0} \cup cancelled
  /\ \A r \in Request : run[r].at = "stopping" =>
       lock = "day" /\ \A q \in Request : run[q].at = "stopping" => q = r

(* A run under way is alone. *)
Alone ==
  ~mixed => \A r \in Request : Active(r) => ~StartPending /\ \A q \in Request : Active(q) => q = r

(* What is about to be started is in the field, where a stop finds it, or was cancelled. *)
Known(m) == m # 0 /\ m \in {current} \cup cancelled

Aimed ==
  ~mixed =>
    /\ \A g \in Manager : launch[g].at = "read" => Known(launch[g].m)
    /\ \A r \in Request :
         /\ run[r].at = "launch" => Known(run[r].m)
         /\ run[r].at \in {"launch", "waiting", "reset"} => current \in {0, run[r].m}
         /\ run[r].at = "reset" => \A m \in Manager : Quiet(m)
    /\ \A m \in Manager : ~Quiet(m) => m = current

Single == Halted /\ Alone /\ Aimed
-----------------------------------------------------------------------------
(* Type correctness. *)

Launches == [at : {"no", "spawned", "read", "done"}, m : 0 .. created]
Runs == [at : RunState, days : 0 .. MaxDays, day : 0 .. MaxDays, m : 0 .. created]

LEMMA Interval ==
  ASSUME NEW a \in Int, NEW b \in Int, a <= b + 1
  PROVE  IsFiniteSet(a .. b) /\ Cardinality(a .. b) = b - a + 1
<1>1. IsFiniteSet(a .. b) /\ Cardinality(a .. b) = IF a > b THEN 0 ELSE b - a + 1
  BY FS_Interval, Zenon
<1>. QED BY <1>1

LEMMA FromOne == ASSUME NEW n \in Nat PROVE IsFiniteSet(1 .. n) /\ Cardinality(1 .. n) = n
<1>1. 1 \in Int /\ n \in Int /\ 1 <= n + 1 /\ n - 1 + 1 = n OBVIOUS
<1>. QED BY <1>1, Interval

LEMMA FromZero == ASSUME NEW n \in Nat PROVE IsFiniteSet(0 .. n - 1) /\ Cardinality(0 .. n - 1) = n
<1>1. 0 \in Int /\ n - 1 \in Int /\ 0 <= n - 1 + 1 /\ n - 1 - 0 + 1 = n OBVIOUS
<1>. QED BY <1>1, Interval

LEMMA Multiplied == ASSUME NEW a \in Nat, NEW b \in Nat, NEW c \in Nat, a <= b PROVE a * c <= b * c
OBVIOUS

(* A manager that is paid for by a pair of its own is one of Manager. *)
LEMMA Payable ==
  ASSUME TypeOK, NEW P, Paid(P), NEW r \in 1 .. requests, NEW d \in 0 .. MaxDays - 1, <<r, d>> \notin P
  PROVE  /\ created + 1 \in Manager
         /\ P \cup {<<r, d>>} \subseteq (1 .. requests) \X (0 .. MaxDays - 1)
         /\ Cardinality(P \cup {<<r, d>>}) = created + 1
<1>. DEFINE All == (1 .. requests) \X (0 .. MaxDays - 1)
<1>1. requests \in Nat /\ MaxDays \in Nat /\ MaxDays > 0 /\ MaxRequests \in Nat /\ requests <= MaxRequests
  BY LifecycleAssumption DEF TypeOK
<1>2. IsFiniteSet(1 .. requests) /\ Cardinality(1 .. requests) = requests
  BY <1>1, FromOne
<1>3. IsFiniteSet(0 .. MaxDays - 1) /\ Cardinality(0 .. MaxDays - 1) = MaxDays
  BY <1>1, FromZero
<1>4. IsFiniteSet(All) /\ Cardinality(All) = requests * MaxDays
  BY <1>2, <1>3, FS_Product
<1>5. P \cup {<<r, d>>} \subseteq All BY DEF Paid
<1>6. IsFiniteSet(P) /\ IsFiniteSet(P \cup {<<r, d>>}) BY <1>4, <1>5, FS_Subset
<1>7. Cardinality(P \cup {<<r, d>>}) = created + 1 BY <1>6, FS_AddElement DEF Paid
<1>8. created + 1 <= requests * MaxDays BY <1>4, <1>5, <1>7, FS_Subset
<1>9. requests * MaxDays <= MaxRequests * MaxDays BY <1>1, Multiplied
<1>10. created \in Nat BY <1>6, FS_CardinalityType DEF Paid
<1>11. requests * MaxDays \in Nat /\ MaxRequests * MaxDays \in Nat BY <1>1
<1>12. created + 1 <= MaxRequests * MaxDays BY <1>8, <1>9, <1>10, <1>11
<1>. QED BY <1>5, <1>7, <1>10, <1>11, <1>12 DEF Manager

(* A manager is made: one more in every variable that names managers. *)
LEMMA MakesTypes ==
  ASSUME TypeOK, created + 1 \in Manager, NewManager, UNCHANGED cancelled
  PROVE  /\ created' \in {0} \cup Manager /\ current' \in 0 .. created'
         /\ manager' \in [Manager -> {"none", "new", "running", "doubled", "ended"}]
         /\ \A m \in Manager : manager'[m] = "none" <=> m > created'
         /\ cancelled' \in SUBSET (1 .. created')
         /\ launch \in [Manager -> [at : {"no", "spawned", "read", "done"}, m : 0 .. created']]
         /\ run \in [Request -> [at : RunState, days : 0 .. MaxDays, day : 0 .. MaxDays, m : 0 .. created']]
<1>1. created \in Nat /\ created' = created + 1 BY DEF TypeOK, NewManager, Manager
<1>2. 0 .. created \subseteq 0 .. created' /\ 1 .. created \subseteq 1 .. created' BY <1>1
<1>3. launch \in [Manager -> [at : {"no", "spawned", "read", "done"}, m : 0 .. created']]
  BY <1>2 DEF TypeOK
<1>4. run \in [Request -> [at : RunState, days : 0 .. MaxDays, day : 0 .. MaxDays, m : 0 .. created']]
  BY <1>2 DEF TypeOK
<1>5. manager' \in [Manager -> {"none", "new", "running", "doubled", "ended"}] BY DEF TypeOK, NewManager
<1>6. \A m \in Manager : manager'[m] = "none" <=> m > created'
  BY <1>1 DEF TypeOK, NewManager, Manager
<1>7. created' \in {0} \cup Manager /\ current' \in 0 .. created' BY <1>1 DEF NewManager
<1>8. cancelled' \in SUBSET (1 .. created') BY <1>2 DEF TypeOK
<1>. QED BY <1>3, <1>4, <1>5, <1>6, <1>7, <1>8

LEMMA PaidKept ==
  ASSUME TypeOK, NEW P, Paid(P), requests' \in {requests, requests + 1}, created' = created,
         lock' = "start" => lock = "start",
         \A q \in Request :
           \/ run'[q] = run[q] \/ q > requests
           \/ run[q].at # "no" /\ \A d \in 0 .. MaxDays - 1 : Spent(run[q], d) => Spent(run'[q], d)
  PROVE  Paid(P)'
<1>1. requests \in Nat /\ 1 .. requests \subseteq Request /\ 1 .. requests \subseteq 1 .. requests'
  BY LifecycleAssumption DEF TypeOK, Request
<1>2. P \subseteq (1 .. requests') \X (0 .. MaxDays - 1)
  <2>1. P \subseteq (1 .. requests) \X (0 .. MaxDays - 1) BY DEF Paid
  <2>. QED BY <1>1, <2>1
<1>3. Cardinality(P) = created' BY DEF Paid
<1>4. ASSUME NEW r \in Request, NEW d \in 0 .. MaxDays - 1, <<r, d>> \in P PROVE Spent(run'[r], d)
  <2>1. r \in 1 .. requests BY <1>4 DEF Paid
  <2>2. Spent(run[r], d) BY <1>4 DEF Paid
  <2>. QED BY <1>1, <2>1, <2>2
<1>5. ASSUME lock' = "start"
      PROVE \E r \in 1 .. requests' : run'[r].at = "no" /\ \A d \in 0 .. MaxDays - 1 : <<r, d>> \notin P
  <2>1. PICK r \in 1 .. requests : run[r].at = "no" /\ \A d \in 0 .. MaxDays - 1 : <<r, d>> \notin P
    BY <1>5 DEF Paid
  <2>2. run'[r] = run[r] BY <1>1, <2>1
  <2>. QED BY <1>1, <2>1, <2>2
<1>. QED BY <1>2, <1>3, <1>4, <1>5 DEF Paid, Spent

(* Steps that neither make a manager nor begin a start keep the account. *)
LEMMA BudgetKept ==
  ASSUME TypeOK, Budget, requests' \in {requests, requests + 1}, created' = created,
         lock' = "start" => lock = "start",
         \A q \in Request :
           \/ run'[q] = run[q] \/ q > requests
           \/ run[q].at # "no" /\ \A d \in 0 .. MaxDays - 1 : Spent(run[q], d) => Spent(run'[q], d)
  PROVE  Budget'
<1>1. PICK P \in SUBSET (Request \X (0 .. MaxDays - 1)) : Paid(P) BY DEF Budget
<1>2. Paid(P)' BY <1>1, PaidKept
<1>. QED BY <1>2 DEF Budget

(* A manager is made for a day that was not spent before. *)
LEMMA BudgetSpent ==
  ASSUME TypeOK, NEW P, Paid(P), NEW r \in 1 .. requests, NEW d \in 0 .. MaxDays - 1, <<r, d>> \notin P,
         created' = created + 1, requests' = requests, lock' = "free",
         \A q \in Request \ {r} : run'[q] = run[q],
         \A e \in 0 .. MaxDays - 1 : e = d \/ Spent(run[r], e) => Spent(run'[r], e)
  PROVE  Budget'
<1>. DEFINE Q == P \cup {<<r, d>>}
<1>1. requests \in Nat /\ requests \in 0 .. MaxRequests /\ 1 .. requests \subseteq Request
  BY LifecycleAssumption DEF TypeOK, Request
<1>2. Q \subseteq (1 .. requests) \X (0 .. MaxDays - 1) /\ Cardinality(Q) = created + 1 BY Payable
<1>3. ASSUME NEW q \in Request, NEW e \in 0 .. MaxDays - 1, <<q, e>> \in Q PROVE Spent(run'[q], e)
  <2>1. (q = r /\ e = d) \/ <<q, e>> \in P BY <1>3
  <2>2. <<q, e>> \in P => Spent(run[q], e) BY DEF Paid
  <2>. QED BY <2>1, <2>2
<1>4. Q \in SUBSET (Request \X (0 .. MaxDays - 1)) BY <1>1, <1>2
<1>. HIDE DEF Q
<1>5. Paid(Q)' BY <1>2, <1>3 DEF Paid, Spent
<1>. QED BY <1>4, <1>5 DEF Budget

LEMMA Managers ==
  /\ Manager \subseteq Nat \ {0}
  /\ TypeOK => created \in Nat /\ 1 .. created \subseteq Manager
<1>1. MaxRequests * MaxDays \in Nat
  <2>1. MaxRequests \in Nat /\ MaxDays \in Nat BY LifecycleAssumption
  <2>. QED BY <2>1
<1>. DEFINE top == MaxRequests * MaxDays
<1>2. Manager = 1 .. top /\ top \in Nat BY <1>1 DEF Manager
<1>. HIDE DEF top
<1>. QED BY <1>2 DEF TypeOK

LEMMA InitTypes == Init => Types
<1>. SUFFICES ASSUME Init PROVE Types OBVIOUS
<1>1. TypeOK
  <2>1. \A m \in Manager : manager[m] = "none" <=> m > created BY Managers DEF Init
  <2>2. /\ launch \in [Manager -> [at : {"no", "spawned", "read", "done"}, m : 0 .. created]]
        /\ run \in [Request -> [at : RunState, days : 0 .. MaxDays, day : 0 .. MaxDays, m : 0 .. created]]
    BY LifecycleAssumption DEF Init, RunState
  <2>3. requests \in 0 .. MaxRequests /\ queue \in 0 .. MaxDays /\ index \in 0 .. MaxDays
    BY LifecycleAssumption DEF Init
  <2>4. /\ current \in 0 .. created /\ cancelled \in SUBSET (1 .. created)
        /\ \A r \in Request : run[r].days > 0 => run[r].day < run[r].days
    BY DEF Init
  <2>5. manager \in [Manager -> {"none", "new", "running", "doubled", "ended"}] BY DEF Init
  <2>. QED BY <2>1, <2>2, <2>3, <2>4, <2>5 DEF Init, TypeOK
<1>2. Numbered BY DEF Init, Numbered, Active
<1>3. Cardinality({}) = 0 BY FS_EmptySet
<1>4. Paid({}) BY <1>3 DEF Init, Paid
<1>. QED BY <1>1, <1>2, <1>4 DEF Types, Budget

(* Steps of the handlers of start and stop that make no manager. *)
LEMMA HandlerTypes ==
  ASSUME Types, StartRequest \/ StartFails \/ StopRequest \/ StopReplies \/ StatusPanics
  PROVE  Types'
<1>1. TypeOK'
  <2>1. requests' \in 0 .. MaxRequests
    BY LifecycleAssumption DEF Types, TypeOK, StartRequest, StartFails, StopRequest, StopReplies, StatusPanics
  <2>2. lock' \in {"free", "start", "stop", "day", "stuck"}
    BY DEF Types, TypeOK, StartRequest, StartFails, StopRequest, StopReplies, StatusPanics
  <2>3. current' \in 0 .. created /\ created \in Nat
    BY DEF Types, TypeOK, StartRequest, StartFails, StopRequest, StopReplies, StatusPanics, streams, Manager
  <2>4. cancelled' \in SUBSET (1 .. created)
    <3>1. created \in Nat /\ current \in 0 .. created BY Managers DEF Types, TypeOK
    <3>2. Cancelling \subseteq 1 .. created BY <3>1 DEF Cancelling
    <3>3. cancelled' \in {cancelled, cancelled \cup Cancelling}
      BY DEF StartRequest, StartFails, StopRequest, StopReplies, StatusPanics, streams, Cancel
    <3>. QED BY <3>2, <3>3 DEF Types, TypeOK
  <2>5. mixed' \in BOOLEAN
    <3>1. mixed \in BOOLEAN BY DEF Types, TypeOK
    <3>. QED BY <3>1, Zenon DEF StartRequest, StartFails, StopRequest, StopReplies, StatusPanics
  <2>6. UNCHANGED <<created, manager, launch, run, status, crashed>>
    BY DEF StartRequest, StartFails, StopRequest, StopReplies, StatusPanics, streams
  <2>. QED BY <2>1, <2>2, <2>3, <2>4, <2>5, <2>6 DEF Types, TypeOK, status
<1>2. Numbered'
  <2>1. run' = run /\ requests' \in {requests, requests + 1}
    BY DEF StartRequest, StartFails, StopRequest, StopReplies, StatusPanics
  <2>2. requests \in Nat BY LifecycleAssumption DEF Types, TypeOK
  <2>3. \A r \in Request : r > requests' => r > requests BY <2>1, <2>2 DEF Request
  <2>. QED BY <2>1, <2>3 DEF Types, Numbered, Active, MoreDays
<1>3. Budget'
  <2>1. CASE StartRequest
    <3>1. PICK P \in SUBSET (Request \X (0 .. MaxDays - 1)) : Paid(P) BY DEF Types, Budget
    <3>2. requests' = requests + 1 /\ requests \in Nat /\ requests' \in Request
      BY <2>1, LifecycleAssumption DEF Types, TypeOK, StartRequest, Request
    <3>3. run[requests'].at = "no" BY <3>2 DEF Types, Numbered
    <3>4. \A d \in 0 .. MaxDays - 1 : <<requests', d>> \notin P BY <3>1, <3>2 DEF Paid
    <3>5. P \subseteq (1 .. requests') \X (0 .. MaxDays - 1)
      <4>1. P \subseteq (1 .. requests) \X (0 .. MaxDays - 1) BY <3>1 DEF Paid
      <4>2. 1 .. requests \subseteq 1 .. requests' BY <3>2
      <4>. QED BY <4>1, <4>2
    <3>6. UNCHANGED <<created, run>> BY <2>1 DEF StartRequest
    <3>7. requests' \in 1 .. requests' BY <3>2
    <3>8. Cardinality(P) = created'
          /\ \A r \in Request, d \in 0 .. MaxDays - 1 : <<r, d>> \in P => Spent(run'[r], d)
      BY <3>1, <3>6 DEF Paid
    <3>9. run'[requests'].at = "no" BY <3>3, <3>6
    <3>. QED BY <3>4, <3>5, <3>7, <3>8, <3>9 DEF Budget, Paid, Spent
  <2>2. CASE StartFails \/ StopRequest \/ StopReplies \/ StatusPanics
    <3>1. /\ requests' \in {requests, requests + 1} /\ created' = created /\ run' = run
          /\ lock' = "start" => lock = "start"
      BY <2>2 DEF StartFails, StopRequest, StopReplies, StatusPanics, streams
    <3>. QED BY <3>1, BudgetKept DEF Types
  <2>. QED BY <2>1, <2>2
<1>. QED BY <1>1, <1>2, <1>3 DEF Types

LEMMA StartTypes == ASSUME Types, StartReplies PROVE Types'
<1>. USE DEF StartReplies
<1>1. PICK P \in SUBSET (Request \X (0 .. MaxDays - 1)) : Paid(P) BY DEF Types, Budget
<1>2. PICK r \in 1 .. requests : run[r].at = "no" /\ \A d \in 0 .. MaxDays - 1 : <<r, d>> \notin P
  BY <1>1 DEF Paid
<1>3. 0 \in 0 .. MaxDays - 1 BY LifecycleAssumption
<1>4. created + 1 \in Manager BY <1>1, <1>2, <1>3, Payable DEF Types
<1>5. TypeOK'
  <2>1. /\ created' \in {0} \cup Manager /\ current' \in 0 .. created'
        /\ manager' \in [Manager -> {"none", "new", "running", "doubled", "ended"}]
        /\ \A m \in Manager : manager'[m] = "none" <=> m > created'
        /\ cancelled' \in SUBSET (1 .. created')
        /\ launch \in [Manager -> [at : {"no", "spawned", "read", "done"}, m : 0 .. created']]
        /\ run \in [Request -> [at : RunState, days : 0 .. MaxDays, day : 0 .. MaxDays, m : 0 .. created']]
    BY <1>4, MakesTypes DEF Types
  <2>2. launch' \in [Manager -> [at : {"no", "spawned", "read", "done"}, m : 0 .. created']]
    BY <1>4, <2>1
  <2>. QED BY <2>1, <2>2 DEF Types, TypeOK, status
<1>6. Numbered' BY DEF Types, Numbered, Active, MoreDays
<1>7. Budget'
  <2>1. created' = created + 1 /\ lock' = "free" /\ requests' = requests /\ run' = run BY DEF NewManager
  <2>. QED BY <1>1, <1>2, <1>3, <2>1, BudgetSpent DEF Types, Spent
<1>. QED BY <1>5, <1>6, <1>7 DEF Types

LEMMA StartedTypes ==
  ASSUME Types, NEW m \in 1 .. created, Started(m)
  PROVE  /\ manager' \in [Manager -> {"none", "new", "running", "doubled", "ended"}]
         /\ \A n \in Manager : manager'[n] = "none" <=> n > created
<1>1. m \in Manager /\ ~(m > created) BY Managers DEF Types
<1>2. manager'[m] # "none" BY <1>1 DEF Types, TypeOK, Started
<1>. QED BY <1>1, <1>2 DEF Types, TypeOK, Started

(* Steps of the goroutine that starts a new manager, and ends of streams. *)
LEMMA LaunchTypes ==
  ASSUME Types, NEW g \in Manager, LaunchReads(g) \/ LaunchStarts(g) \/ StreamEnds(g)
  PROVE  Types'
<1>1. UNCHANGED <<lock, current, created, cancelled, requests, run, status, mixed>>
  BY DEF LaunchReads, LaunchStarts, StreamEnds, streams
<1>2. TypeOK'
  <2>1. launch' \in [Manager -> [at : {"no", "spawned", "read", "done"}, m : 0 .. created]]
    <3>1. \A x \in 0 .. created : /\ [at |-> "read", m |-> x] \in Launches
                                  /\ [at |-> "done", m |-> 0] \in Launches
      BY Managers DEF Launches, Types
    <3>2. launch \in [Manager -> Launches] /\ current \in 0 .. created BY DEF Types, TypeOK, Launches
    <3>3. launch' \in [Manager -> Launches] BY <3>1, <3>2 DEF LaunchReads, LaunchStarts, StreamEnds
    <3>. QED BY <3>3 DEF Launches
  <2>2. /\ manager' \in [Manager -> {"none", "new", "running", "doubled", "ended"}]
        /\ \A m \in Manager : manager'[m] = "none" <=> m > created
    <3>1. CASE LaunchReads(g) BY <3>1 DEF Types, TypeOK, LaunchReads, streams
    <3>2. CASE LaunchStarts(g)
      <4>1. launch[g].m \in 0 .. created BY DEF Types, TypeOK
      <4>2. ASSUME launch[g].m = 0 PROVE manager' = manager
        <5>1. 0 \notin Manager BY Managers
        <5>2. manager \in [Manager -> {"none", "new", "running", "doubled", "ended"}] BY DEF Types, TypeOK
        <5>3. manager' = manager \/ manager' = [manager EXCEPT ![0] = IF @ = "new" THEN "running" ELSE "doubled"]
          BY <3>2, <4>2 DEF LaunchStarts, Started
        <5>. QED BY <5>1, <5>2, <5>3
      <4>3. launch[g].m # 0 => launch[g].m \in 1 .. created BY <4>1, Managers DEF Types
      <4>. QED BY <3>2, <4>2, <4>3, StartedTypes DEF LaunchStarts, Types, TypeOK
    <3>3. CASE StreamEnds(g) BY <3>3 DEF Types, TypeOK, StreamEnds
    <3>. QED BY <3>1, <3>2, <3>3
  <2>3. crashed' \in BOOLEAN BY DEF LaunchReads, LaunchStarts, StreamEnds, Types, TypeOK
  <2>. QED BY <1>1, <2>1, <2>2, <2>3 DEF Types, TypeOK, status
<1>3. Numbered' BY <1>1 DEF Types, Numbered, Active, MoreDays
<1>4. Budget' BY <1>1, BudgetKept DEF Types
<1>. QED BY <1>2, <1>3, <1>4 DEF Types

LEMMA MultiTypes == ASSUME Types, NEW days \in 1 .. MaxDays, MultiRequest(days) PROVE Types'
<1>. USE DEF MultiRequest
<1>1. /\ requests \in Nat /\ requests' = requests + 1 /\ requests' \in 0 .. MaxRequests /\ requests' \in Request
      /\ created \in Nat
  BY LifecycleAssumption, Managers DEF Types, TypeOK, Request
<1>2. run[requests'].at = "no" /\ run[requests'].day = 0 BY <1>1 DEF Types, Numbered
<1>3. /\ run \in [Request -> Runs] /\ run' \in [Request -> Runs]
      /\ run'[requests'] = [run[requests'] EXCEPT !.at = "accepted", !.days = days]
      /\ \A r \in Request : r # requests' => run'[r] = run[r]
  <2>1. run \in [Request -> Runs] BY DEF Types, TypeOK, Runs
  <2>2. days \in 0 .. MaxDays /\ "accepted" \in RunState BY LifecycleAssumption DEF RunState
  <2>3. run' = [run EXCEPT ![requests'] = [@ EXCEPT !.at = "accepted", !.days = days]] OBVIOUS
  <2>4. [run[requests'] EXCEPT !.at = "accepted", !.days = days] \in Runs
    BY <1>1, <2>1, <2>2 DEF Runs
  <2>. QED BY <1>1, <2>1, <2>3, <2>4
<1>4. run'[requests'].at = "accepted" /\ run'[requests'].day = 0 /\ run'[requests'].days = days
  BY <1>1, <1>2, <1>3 DEF Runs
<1>5. TypeOK'
  <2>1. \A r \in Request : run'[r].days > 0 => run'[r].day < run'[r].days
    BY <1>3, <1>4 DEF Types, TypeOK
  <2>2. mixed' \in BOOLEAN
    <3>1. mixed \in BOOLEAN BY DEF Types, TypeOK
    <3>. QED BY <3>1, Zenon
  <2>3. run' \in [Request -> [at : RunState, days : 0 .. MaxDays, day : 0 .. MaxDays, m : 0 .. created']]
    BY <1>3 DEF Runs, streams
  <2>. QED BY <1>1, <2>1, <2>2, <2>3 DEF Types, TypeOK, status, streams
<1>6. Numbered'
  <2>1. \A r \in Request : r > requests' => r > requests /\ r # requests' BY <1>1 DEF Request
  <2>2. ASSUME NEW r \in Request, r # requests' PROVE run'[r] = run[r] BY <1>3, <2>2
  <2>. SUFFICES ASSUME NEW r \in Request
                PROVE  /\ r > requests' => run'[r].at = "no" /\ run'[r].day = 0
                       /\ run'[r].at \notin {"no", "over"} => run'[r].days > 0
                       /\ run'[r].at = "reset" => run'[r].day + 1 < run'[r].days
    BY DEF Numbered, Active, MoreDays
  <2>3. CASE r = requests'
    <3>1. days > 0 /\ ~(requests' > requests') BY <1>1
    <3>. QED BY <2>3, <1>4, <3>1
  <2>4. CASE r # requests'
    <3>1. run'[r] = run[r] /\ (r > requests' => r > requests) BY <2>1, <2>2, <2>4
    <3>. QED BY <3>1 DEF Types, Numbered, Active, MoreDays
  <2>. QED BY <2>3, <2>4
<1>7. Budget'
  <2>1. \A q \in Request : run'[q] = run[q] \/ q > requests BY <1>1, <1>3
  <2>. QED BY <1>1, <2>1, BudgetKept DEF Types, streams
<1>. QED BY <1>5, <1>6, <1>7 DEF Types

(* What a step of run r does to its record, when it makes no manager. *)
LEMMA RunTypes ==
  ASSUME Types, NEW r \in Request, NEW x \in Runs, run' = [run EXCEPT ![r] = x],
         UNCHANGED <<created, requests, launch, crashed, mixed>>, cancelled' \in {cancelled, cancelled \cup Cancelling},
         lock' \in {lock, "free", "day"}, current' \in {0, current},
         queue' \in 0 .. MaxDays, index' \in 0 .. MaxDays,
         x.days > 0 => x.day < x.days, x.at \notin {"no", "over"} => x.days > 0,
         x.at = "reset" => x.day + 1 < x.days, run[r].at # "no",
         \A d \in 0 .. MaxDays - 1 : Spent(run[r], d) => Spent(x, d),
         manager' \in [Manager -> {"none", "new", "running", "doubled", "ended"}],
         \A n \in Manager : manager'[n] = "none" <=> n > created
  PROVE  Types'
<1>1. run \in [Request -> Runs] BY DEF Types, TypeOK, Runs
<1>2. run' \in [Request -> Runs] /\ run'[r] = x /\ \A q \in Request : q # r => run'[q] = run[q] BY <1>1
<1>3. TypeOK'
  <2>1. \A q \in Request : run'[q].days > 0 => run'[q].day < run'[q].days
    BY <1>2 DEF Types, TypeOK
  <2>2. run' \in [Request -> [at : RunState, days : 0 .. MaxDays, day : 0 .. MaxDays, m : 0 .. created']]
    BY <1>2 DEF Runs
  <2>3. current' \in 0 .. created /\ current \in 0 .. created /\ created \in Nat
    BY Managers DEF Types, TypeOK
  <2>4. cancelled' \in SUBSET (1 .. created)
    <3>1. Cancelling \subseteq 1 .. created BY <2>3 DEF Cancelling
    <3>. QED BY <3>1 DEF Types, TypeOK
  <2>. QED BY <2>1, <2>2, <2>3, <2>4 DEF Types, TypeOK
<1>4. Numbered'
  <2>1. r <= requests
    <3>1. r \in Nat /\ requests \in Nat BY LifecycleAssumption DEF Types, TypeOK, Request
    <3>. QED BY <3>1 DEF Types, Numbered
  <2>2. ~(r > requests)
    <3>1. r \in Nat /\ requests \in Nat BY LifecycleAssumption DEF Types, TypeOK, Request
    <3>. QED BY <2>1, <3>1
  <2>. QED BY <1>2, <2>2 DEF Types, Numbered, Active, MoreDays
<1>5. Budget'
  <2>1. \A q \in Request :
          \/ run'[q] = run[q] \/ q > requests
          \/ run[q].at # "no" /\ \A d \in 0 .. MaxDays - 1 : Spent(run[q], d) => Spent(run'[q], d)
    BY <1>2
  <2>. QED BY <2>1, BudgetKept DEF Types
<1>. QED BY <1>3, <1>4, <1>5 DEF Types

(* Steps that only move a run on. *)
LEMMA MoveTypes ==
  ASSUME Types, NEW r \in Request, NEW at \in {"next", "stopping", "waiting", "reset", "exit"}, Move(r, at),
         UNCHANGED <<created, requests, launch, crashed, mixed>>, cancelled' \in {cancelled, cancelled \cup Cancelling},
         lock' \in {lock, "free", "day"}, current' = current,
         queue' \in 0 .. MaxDays, index' \in 0 .. MaxDays,
         <<run[r].at, at>> \in {<<"accepted", "next">>, <<"next", "stopping">>, <<"launch", "waiting">>, <<"waiting", "reset">>}
           \/ (at = "exit" /\ Active(r)),
         at = "reset" => MoreDays(r),
         manager' \in [Manager -> {"none", "new", "running", "doubled", "ended"}],
         \A n \in Manager : manager'[n] = "none" <=> n > created
  PROVE  Types'
<1>. DEFINE now == run[r]
            x == [now EXCEPT !.at = at]
<1>1. run \in [Request -> Runs] /\ created \in Nat /\ MaxDays \in Nat
  BY LifecycleAssumption, Managers DEF Types, TypeOK, Runs
<1>2. at \in RunState BY DEF RunState
<1>3. x \in Runs /\ x.at = at /\ x.days = now.days /\ x.day = now.day BY <1>1, <1>2 DEF Runs
<1>4. run' = [run EXCEPT ![r] = x] BY DEF Move
<1>5. Active(r) BY DEF Active
<1>6. x.days > 0 => x.day < x.days BY <1>3 DEF Types, TypeOK
<1>7. x.at \notin {"no", "over"} => x.days > 0 BY <1>3, <1>5 DEF Types, Numbered
<1>8. x.at = "reset" => x.day + 1 < x.days BY <1>3 DEF MoreDays
<1>9. ASSUME NEW d \in 0 .. MaxDays - 1, Spent(now, d) PROVE Spent(x, d) BY <1>3, <1>9 DEF Spent
<1>10. now.at # "no" BY <1>5 DEF Active
<1>. HIDE DEF x
<1>. QED BY <1>3, <1>4, <1>6, <1>7, <1>8, <1>9, <1>10, RunTypes

LEMMA RunStepTypes ==
  ASSUME Types, NEW r \in Request,
         RunBegins(r) \/ DayBegins(r) \/ DayFails(r) \/ DayStarts(r) \/ DayEnds(r) \/ DayResets(r) \/ RunExits(r)
  PROVE  Types'
<1>1. run[r] \in Runs /\ MaxDays \in Nat /\ created \in Nat
  BY LifecycleAssumption, Managers DEF Types, TypeOK, Runs
<1>2. /\ queue \in 0 .. MaxDays /\ index \in 0 .. MaxDays
      /\ run[r].days \in 0 .. MaxDays /\ run[r].day \in 0 .. MaxDays /\ 0 \in 0 .. MaxDays
      /\ manager \in [Manager -> {"none", "new", "running", "doubled", "ended"}]
      /\ \A n \in Manager : manager[n] = "none" <=> n > created
  BY <1>1 DEF Types, TypeOK, Runs
<1>3. CASE RunBegins(r)
  <2>1. /\ Move(r, "next") /\ run[r].at = "accepted"
        /\ UNCHANGED <<lock, current, created, manager, cancelled, requests, launch, crashed, mixed>>
        /\ queue' \in 0 .. MaxDays /\ index' \in 0 .. MaxDays
    BY <1>2, <1>3 DEF RunBegins, streams
  <2>. QED BY <1>2, <2>1, MoveTypes
<1>4. CASE DayBegins(r)
  <2>1. /\ Move(r, "stopping") /\ run[r].at = "next" /\ lock' = "day" /\ cancelled' = cancelled \cup Cancelling
        /\ UNCHANGED <<current, created, manager, requests, launch, crashed, mixed>>
        /\ queue' \in 0 .. MaxDays /\ index' \in 0 .. MaxDays
    BY <1>2, <1>4 DEF DayBegins, Cancel
  <2>. QED BY <1>2, <2>1, MoveTypes
<1>5. CASE DayFails(r)
  <2>1. /\ Move(r, "exit") /\ Active(r) /\ lock' = "free"
        /\ UNCHANGED <<current, created, manager, cancelled, requests, launch, crashed, mixed>>
        /\ queue' \in 0 .. MaxDays /\ index' \in 0 .. MaxDays
    BY <1>2, <1>5 DEF DayFails, streams, status, Active
  <2>. QED BY <1>2, <2>1, MoveTypes
<1>6. CASE DayStarts(r)
  <2>1. /\ run[r].at = "launch" /\ Active(r)
        /\ UNCHANGED <<lock, current, created, cancelled, requests, launch, crashed, mixed>>
        /\ queue' \in 0 .. MaxDays /\ index' \in 0 .. MaxDays
    BY <1>2, <1>6 DEF DayStarts, status, Active
  <2>2. CASE Started(run[r].m) /\ Move(r, "waiting")
    <3>1. run[r].m \in 0 .. created BY <1>1 DEF Runs
    <3>2. /\ manager' \in [Manager -> {"none", "new", "running", "doubled", "ended"}]
          /\ \A n \in Manager : manager'[n] = "none" <=> n > created
      <4>1. CASE run[r].m = 0
        <5>1. 0 \notin Manager BY Managers
        <5>2. manager' = manager BY <1>2, <2>2, <4>1, <5>1 DEF Started
        <5>. QED BY <1>2, <5>2
      <4>2. CASE run[r].m # 0
        <5>1. run[r].m \in 1 .. created BY <1>1, <3>1, <4>2
        <5>. QED BY <2>2, <5>1, StartedTypes
      <4>. QED BY <4>1, <4>2
    <3>. QED BY <2>1, <2>2, <3>2, MoveTypes
  <2>3. CASE UNCHANGED manager /\ Move(r, "exit") BY <1>2, <2>1, <2>3, MoveTypes
  <2>. QED BY <1>6, <2>2, <2>3 DEF DayStarts
<1>7. CASE DayEnds(r)
  <2>1. /\ run[r].at = "waiting" /\ Active(r)
        /\ UNCHANGED <<lock, current, created, manager, cancelled, requests, launch, crashed, mixed>>
        /\ queue' \in 0 .. MaxDays /\ index' \in 0 .. MaxDays
    BY <1>2, <1>7 DEF DayEnds, streams, status, Active
  <2>2. CASE MoreDays(r) /\ Move(r, "reset") BY <1>2, <2>1, <2>2, MoveTypes
  <2>3. CASE Move(r, "exit") BY <1>2, <2>1, <2>3, MoveTypes
  <2>. QED BY <1>7, <2>2, <2>3 DEF DayEnds
<1>8. CASE DayResets(r)
  <2>. DEFINE x == [run[r] EXCEPT !.at = "next", !.day = @ + 1]
  <2>1. /\ run[r].at = "reset" /\ run' = [run EXCEPT ![r] = x] /\ current' = 0
        /\ UNCHANGED <<lock, created, manager, cancelled, requests, launch, queue, index, crashed, mixed>>
    BY <1>8 DEF DayResets, streams, status
  <2>2. run[r].day + 1 < run[r].days BY <2>1 DEF Types, Numbered, MoreDays
  <2>3. run[r].day + 1 \in 0 .. MaxDays /\ "next" \in RunState BY <1>1, <1>2, <2>2 DEF RunState
  <2>4. x \in Runs /\ x.at = "next" /\ x.days = run[r].days /\ x.day = run[r].day + 1 BY <1>1, <2>3 DEF Runs
  <2>. HIDE DEF x
  <2>5. ASSUME NEW d \in 0 .. MaxDays - 1, Spent(run[r], d) PROVE Spent(x, d)
    <3>1. d <= run[r].day BY <2>1, <2>5 DEF Spent
    <3>2. d < x.day BY <1>2, <2>4, <3>1
    <3>. QED BY <2>4, <3>2 DEF Spent
  <2>6. x.days > 0 => x.day < x.days BY <2>2, <2>4
  <2>7. x.days > 0 BY <1>2, <2>2, <2>4
  <2>. QED BY <1>2, <2>1, <2>4, <2>5, <2>6, <2>7, RunTypes
<1>9. CASE RunExits(r)
  <2>. DEFINE x == [at |-> "over", days |-> 0, day |-> 0, m |-> 0]
  <2>1. /\ run[r].at = "exit" /\ run' = [run EXCEPT ![r] = x] /\ queue' = 0 /\ index' = 0
        /\ UNCHANGED <<lock, current, created, manager, cancelled, requests, launch, crashed, mixed>>
    BY <1>9 DEF RunExits, streams
  <2>2. "over" \in RunState BY DEF RunState
  <2>3. x \in Runs BY <1>1, <1>2, <2>2 DEF Runs
  <2>4. x.at = "over" /\ x.days = 0 OBVIOUS
  <2>. HIDE DEF x
  <2>5. ASSUME NEW d \in 0 .. MaxDays - 1, Spent(run[r], d) PROVE Spent(x, d) BY <2>4 DEF Spent
  <2>6. ~(x.days > 0) BY <2>4
  <2>. QED BY <1>2, <2>1, <2>3, <2>4, <2>5, <2>6, RunTypes
<1>. QED BY <1>3, <1>4, <1>5, <1>6, <1>7, <1>8, <1>9

LEMMA PreparedTypes == ASSUME Types, NEW r \in Request, DayPrepared(r) PROVE Types'
<1>. USE DEF DayPrepared
<1>. DEFINE x == [run[r] EXCEPT !.at = "launch", !.m = created + 1]
            d == run[r].day
<1>1. PICK P \in SUBSET (Request \X (0 .. MaxDays - 1)) : Paid(P) BY DEF Types, Budget
<1>2. /\ r \in Nat /\ r \in 1 .. MaxRequests /\ requests \in Nat /\ MaxDays \in Nat /\ created \in Nat
      /\ run \in [Request -> Runs]
  <2>1. requests \in Nat /\ MaxDays \in Nat BY LifecycleAssumption DEF Types, TypeOK
  <2>2. created \in Nat BY Managers DEF Types
  <2>3. r \in Nat /\ r \in 1 .. MaxRequests BY LifecycleAssumption DEF Request
  <2>4. run \in [Request -> Runs] BY DEF Types, TypeOK, Runs
  <2>. QED BY <2>1, <2>2, <2>3, <2>4
<1>3. run[r].at = "stopping" /\ Active(r) BY DEF Active
<1>4. r \in 1 .. requests
  <2>1. ~(r > requests) BY <1>3 DEF Types, Numbered
  <2>. QED BY <1>2, <2>1 DEF Request
<1>5. run[r].days > 0 /\ d < run[r].days /\ run[r].days \in 0 .. MaxDays /\ d \in 0 .. MaxDays
  BY <1>2, <1>3 DEF Types, TypeOK, Numbered, Runs
<1>6. d \in 0 .. MaxDays - 1 BY <1>2, <1>5
<1>7. <<r, d>> \notin P
  <2>1. <<r, d>> \in P => d < d BY <1>1, <1>3, <1>6 DEF Paid, Spent
  <2>. QED BY <1>5, <2>1
<1>8. created + 1 \in Manager BY <1>1, <1>4, <1>6, <1>7, Payable DEF Types
<1>. HIDE DEF d
<1>9. run' = [run EXCEPT ![r] = x] OBVIOUS
<1>10. /\ x.at = "launch" /\ x.days = run[r].days /\ x.day = d /\ x.m = created + 1
       /\ x \in [at : RunState, days : 0 .. MaxDays, day : 0 .. MaxDays, m : 0 .. created + 1]
  BY <1>2, <1>5 DEF Runs, RunState, d
<1>. HIDE DEF x
<1>11. /\ created' = created + 1
       /\ UNCHANGED <<cancelled, requests, launch, queue, index, crashed, mixed>> /\ lock' = "free"
  BY DEF NewManager, status
<1>12. run'[r] = x /\ \A q \in Request \ {r} : run'[q] = run[q] BY <1>2, <1>9
<1>13. TypeOK'
  <2>1. /\ created' \in {0} \cup Manager /\ current' \in 0 .. created'
        /\ manager' \in [Manager -> {"none", "new", "running", "doubled", "ended"}]
        /\ \A m \in Manager : manager'[m] = "none" <=> m > created'
        /\ cancelled' \in SUBSET (1 .. created')
        /\ launch \in [Manager -> [at : {"no", "spawned", "read", "done"}, m : 0 .. created']]
        /\ run \in [Request -> [at : RunState, days : 0 .. MaxDays, day : 0 .. MaxDays, m : 0 .. created']]
    BY <1>8, MakesTypes DEF Types
  <2>2. run' \in [Request -> [at : RunState, days : 0 .. MaxDays, day : 0 .. MaxDays, m : 0 .. created']]
    BY <1>9, <1>10, <1>11, <2>1
  <2>3. \A q \in Request : run'[q].days > 0 => run'[q].day < run'[q].days
    BY <1>5, <1>10, <1>12 DEF Types, TypeOK
  <2>. QED BY <1>11, <2>1, <2>2, <2>3 DEF Types, TypeOK
<1>14. Numbered'
  <2>1. ~(r > requests) BY <1>2, <1>4
  <2>. QED BY <1>5, <1>10, <1>11, <1>12, <2>1 DEF Types, Numbered, Active, MoreDays
<1>15. Budget'
  <2>1. ASSUME NEW e \in 0 .. MaxDays - 1, e = d \/ Spent(run[r], e) PROVE Spent(run'[r], e)
    <3>1. e <= d BY <1>2, <1>3, <1>5, <2>1 DEF Spent, d
    <3>. QED BY <1>10, <1>12, <3>1 DEF Spent
  <2>. QED BY <1>1, <1>4, <1>6, <1>7, <1>11, <1>12, <2>1, BudgetSpent DEF Types
<1>. QED BY <1>13, <1>14, <1>15 DEF Types

LEMMA StepTypes == Types /\ [Next]_vars => Types'
<1>. SUFFICES ASSUME Types, [Next]_vars PROVE Types' OBVIOUS
<1>1. CASE UNCHANGED vars
  <2>. USE DEF vars, streams, status
  <2>1. TypeOK' BY <1>1 DEF Types, TypeOK
  <2>2. Numbered' BY <1>1 DEF Types, Numbered, Active, MoreDays
  <2>3. Budget' BY <1>1, BudgetKept DEF Types
  <2>. QED BY <2>1, <2>2, <2>3 DEF Types
<1>2. ASSUME NEW g \in Manager, LaunchReads(g) \/ LaunchStarts(g) \/ StreamEnds(g) PROVE Types'
  BY <1>2, LaunchTypes
<1>3. ASSUME NEW r \in Request, RunStep(r) PROVE Types' BY <1>3, RunStepTypes, PreparedTypes DEF RunStep
<1>4. ASSUME NEW days \in 1 .. MaxDays, MultiRequest(days) PROVE Types' BY <1>4, MultiTypes
<1>. QED BY <1>1, <1>2, <1>3, <1>4, HandlerTypes, StartTypes DEF Next

LEMMA TypesKept == Spec => []Types
  BY InitTypes, StepTypes, PTL DEF Spec

(* However starts, stops, runs of several days and failures interleave, every variable keeps
   its range, and no more managers are made than the requests have days. *)
THEOREM TypeCorrect == Spec => []TypeOK
<1>1. Types => TypeOK BY DEF Types
<1>. QED BY <1>1, TypesKept, PTL
-----------------------------------------------------------------------------
(* One stream at a time. *)

LEMMA InitSingle == Init => Single
<1>. SUFFICES ASSUME Init PROVE Single OBVIOUS
<1>1. Halted BY DEF Init, Halted
<1>2. \A r \in Request : run[r].at = "no" BY DEF Init
<1>3. Alone BY <1>2 DEF Alone, Active
<1>4. \A g \in Manager : launch[g].at = "no" BY DEF Init
<1>5. \A m \in Manager : Quiet(m) BY DEF Init, Quiet
<1>6. Aimed BY <1>2, <1>4, <1>5 DEF Aimed
<1>. QED BY <1>1, <1>3, <1>6 DEF Single

LEMMA StepHalted == ASSUME Types, Halted, [Next]_vars PROVE Halted'
<1>. DEFINE Stopping(q) == run[q].at = "stopping"
<1>1. current \in {0} \cup cancelled \/ lock \notin {"start", "stop", "day"} BY DEF Halted
<1>2. \A q, p \in Request : Stopping(q) => lock = "day" /\ (Stopping(p) => p = q) BY DEF Halted
<1>3. run \in [Request -> Runs] BY DEF Types, TypeOK, Runs
<1>4. CASE StartRequest \/ StopRequest
  <2>1. run' = run /\ lock = "free" BY <1>4 DEF StartRequest, StopRequest
  <2>2. current' \in {0} \cup cancelled' \/ lock' \notin {"start", "stop", "day"}
    BY <1>4 DEF StartRequest, StopRequest, Cancel, Cancelling
  <2>. QED BY <1>2, <2>1, <2>2 DEF Halted
<1>5. CASE StatusPanics \/ StartReplies \/ StartFails \/ StopReplies
  <2>1. run' = run /\ lock' \in {"free", "stuck"} /\ lock # "day"
    BY <1>5 DEF StatusPanics, StartReplies, StartFails, StopReplies
  <2>. QED BY <1>2, <2>1 DEF Halted
<1>6. ASSUME NEW g \in Manager, LaunchReads(g) \/ LaunchStarts(g) \/ StreamEnds(g) PROVE Halted'
  <2>1. UNCHANGED <<run, lock, current, cancelled>> BY <1>6 DEF LaunchReads, LaunchStarts, StreamEnds, streams
  <2>. QED BY <2>1 DEF Halted
<1>7. ASSUME NEW days \in 1 .. MaxDays, MultiRequest(days) PROVE Halted'
  <2>1. UNCHANGED <<lock, current, cancelled>> BY <1>7 DEF MultiRequest, streams
  <2>2. \A q \in Request : run'[q].at = "stopping" => run[q].at = "stopping"
    BY <1>3, <1>7 DEF MultiRequest, Runs
  <2>. QED BY <1>1, <1>2, <2>1, <2>2 DEF Halted
<1>8. ASSUME NEW r \in Request, RunStep(r) PROVE Halted'
  <2>1. CASE DayBegins(r)
    <3>1. lock = "free" /\ lock' = "day" /\ current' \in {0} \cup cancelled'
      BY <2>1 DEF DayBegins, Cancel, Cancelling
    <3>2. \A q \in Request : run'[q].at = "stopping" => q = r
      BY <1>2, <1>3, <2>1, <3>1 DEF DayBegins, Move
    <3>. QED BY <3>1, <3>2 DEF Halted
  <2>2. CASE DayPrepared(r) \/ DayFails(r)
    <3>1. run[r].at = "stopping" /\ lock' = "free" BY <2>2 DEF DayPrepared, DayFails
    <3>2. \A q \in Request : run'[q].at = "stopping" => q # r /\ run[q].at = "stopping"
      BY <1>3, <2>2 DEF DayPrepared, DayFails, Move, Runs
    <3>. QED BY <1>2, <3>1, <3>2 DEF Halted
  <2>3. CASE RunBegins(r) \/ DayStarts(r) \/ DayEnds(r) \/ DayResets(r) \/ RunExits(r)
    <3>1. \A q \in Request : run'[q].at = "stopping" => run[q].at = "stopping"
      BY <1>3, <2>3 DEF RunBegins, DayStarts, DayEnds, DayResets, RunExits, Move, Runs
    <3>2. lock' = lock /\ cancelled' = cancelled /\ (current' = current \/ current' = 0)
      BY <2>3 DEF RunBegins, DayStarts, DayEnds, DayResets, RunExits, streams
    <3>. QED BY <1>1, <1>2, <3>1, <3>2 DEF Halted
  <2>. QED BY <1>8, <2>1, <2>2, <2>3 DEF RunStep
<1>9. CASE UNCHANGED vars BY <1>9 DEF vars, streams, Halted
<1>. QED BY <1>4, <1>5, <1>6, <1>7, <1>8, <1>9 DEF Next

(* A start and a run, or two runs, that meet are noted by the later of the two. *)
LEMMA StepAlone == ASSUME Types, Halted, Alone, [Next]_vars PROVE Alone'
<1>. DEFINE Pending(g) == launch[g].at \in {"spawned", "read"}
<1>1. run \in [Request -> Runs] /\ launch \in [Manager -> Launches] BY DEF Types, TypeOK, Runs, Launches
<1>. SUFFICES ASSUME ~mixed', NEW r \in Request, Active(r)'
              PROVE  ~StartPending' /\ \A q \in Request : Active(q)' => q = r
  BY DEF Alone
<1>2. ~mixed
  BY Zenon DEF Next, vars, StartRequest, StopRequest, StatusPanics, StartReplies, StartFails, StopReplies, LaunchReads,
     LaunchStarts, RunStep, RunBegins, DayBegins, DayPrepared, DayFails, DayStarts, DayEnds, DayResets, RunExits,
     MultiRequest, StreamEnds
<1>3. \A p \in Request : Active(p) => ~StartPending /\ \A q \in Request : Active(q) => q = p
  BY <1>2 DEF Alone
<1>4. CASE StartRequest
  <2>1. \A q \in Request : ~Active(q) BY <1>4, Zenon DEF StartRequest
  <2>2. run' = run BY <1>4 DEF StartRequest
  <2>. QED BY <2>1, <2>2 DEF Active
<1>5. CASE StopRequest \/ StatusPanics \/ StartReplies \/ StartFails \/ StopReplies
  <2>1. run' = run BY <1>5 DEF StopRequest, StatusPanics, StartReplies, StartFails, StopReplies
  <2>2. Active(r) BY <2>1 DEF Active
  <2>3. lock # "start" /\ \A g \in Manager : ~Pending(g) BY <1>3, <2>2 DEF StartPending
  <2>4. ~StartReplies /\ ~StartFails BY <2>3 DEF StartReplies, StartFails
  <2>5. lock' # "start" /\ launch' = launch BY <1>5, <2>3, <2>4 DEF StopRequest, StatusPanics, StopReplies
  <2>. QED BY <1>3, <2>1, <2>2, <2>3, <2>5 DEF Active, StartPending
<1>6. ASSUME NEW g \in Manager, LaunchReads(g) \/ LaunchStarts(g) \/ StreamEnds(g)
      PROVE  ~StartPending' /\ \A q \in Request : Active(q)' => q = r
  <2>1. run' = run /\ lock' = lock BY <1>6 DEF LaunchReads, LaunchStarts, StreamEnds
  <2>2. Active(r) BY <2>1 DEF Active
  <2>3. lock # "start" /\ \A h \in Manager : ~Pending(h) BY <1>3, <2>2 DEF StartPending
  <2>4. launch' = launch BY <1>6, <2>3 DEF LaunchReads, LaunchStarts, StreamEnds
  <2>. QED BY <1>3, <2>1, <2>2, <2>3, <2>4 DEF Active, StartPending
<1>7. ASSUME NEW days \in 1 .. MaxDays, MultiRequest(days)
      PROVE  ~StartPending' /\ \A q \in Request : Active(q)' => q = r
  <2>1. (\A q \in Request : ~Active(q)) /\ ~StartPending BY <1>7, Zenon DEF MultiRequest
  <2>2. lock' = lock /\ launch' = launch BY <1>7 DEF MultiRequest
  <2>3. \A q \in Request : q # requests' => run'[q] = run[q] BY <1>1, <1>7 DEF MultiRequest
  <2>4. \A q \in Request : Active(q)' => q = requests' BY <2>1, <2>3 DEF Active
  <2>. QED BY <2>1, <2>2, <2>4 DEF StartPending
<1>8. ASSUME NEW p \in Request, RunStep(p)
      PROVE  ~StartPending' /\ \A q \in Request : Active(q)' => q = r
  <2>1. Active(p) /\ launch' = launch /\ lock' \in {lock, "free", "day"}
    BY <1>8 DEF RunStep, RunBegins, DayBegins, DayPrepared, DayFails, DayStarts, DayEnds, DayResets, RunExits, Active
  <2>2. \A q \in Request : q # p => run'[q] = run[q]
    BY <1>1, <1>8 DEF RunStep, RunBegins, DayBegins, DayPrepared, DayFails, DayStarts, DayEnds, DayResets, RunExits, Move
  <2>3. \A q \in Request : Active(q)' => q = p
    <3>1. \A q \in Request : q # p => ~Active(q) BY <1>3, <2>1
    <3>. QED BY <2>2, <3>1 DEF Active
  <2>4. ~StartPending BY <1>3, <2>1
  <2>. QED BY <2>1, <2>3, <2>4 DEF StartPending
<1>9. CASE UNCHANGED vars
  <2>1. UNCHANGED <<run, lock, launch>> BY <1>9 DEF vars
  <2>2. Active(r) BY <2>1 DEF Active
  <2>. QED BY <1>3, <2>1, <2>2 DEF Active, StartPending
<1>. QED BY <1>4, <1>5, <1>6, <1>7, <1>8, <1>9 DEF Next

LEMMA Unmixed == [Next]_vars /\ ~mixed' => ~mixed
BY Zenon DEF Next, vars, StartRequest, StopRequest, StatusPanics, StartReplies, StartFails, StopReplies, LaunchReads,
   LaunchStarts, RunStep, RunBegins, DayBegins, DayPrepared, DayFails, DayStarts, DayEnds, DayResets, RunExits,
   MultiRequest, StreamEnds

(* Aimed, of a state in which starts and runs have not met. *)
Aim ==
  /\ \A g \in Manager : launch[g].at = "read" => Known(launch[g].m)
  /\ \A r \in Request :
       /\ run[r].at = "launch" => Known(run[r].m)
       /\ run[r].at \in {"launch", "waiting", "reset"} => current \in {0, run[r].m}
       /\ run[r].at = "reset" => \A m \in Manager : Quiet(m)
  /\ \A m \in Manager : ~Quiet(m) => m = current

(* What is known remains so when the field gets another value. *)
LEMMA KnownKept ==
  ASSUME cancelled \subseteq cancelled', current' = current \/ current \in {0} \cup cancelled', NEW m, Known(m)
  PROVE  Known(m)'
BY DEF Known

(* The requests that make no manager. *)
LEMMA HandlerAim ==
  ASSUME Types, Halted, Aim, StartRequest \/ StopRequest \/ StatusPanics \/ StartFails \/ StopReplies PROVE Aim'
<1>1. UNCHANGED <<run, launch, manager>> /\ cancelled \subseteq cancelled'
  BY DEF StartRequest, StopRequest, StatusPanics, StartFails, StopReplies, streams, Cancel
<1>2. current' = current \/ (current' = 0 /\ current \in {0} \cup cancelled' /\ (current # 0 => Quiet(current)))
  BY DEF StartRequest, StopRequest, StatusPanics, StartFails, StopReplies, streams, Halted, Stopped
<1>3. \A m : Known(m) => Known(m)' BY <1>1, <1>2, KnownKept
<1>4. \A m : Quiet(m)' <=> Quiet(m) BY <1>1 DEF Quiet
<1>5. ASSUME NEW m \in Manager, ~Quiet(m) PROVE m = current'
  <2>1. m = current BY <1>5 DEF Aim
  <2>2. m # 0 BY Managers
  <2>. QED BY <1>2, <1>5, <2>1, <2>2
<1>. QED BY <1>1, <1>2, <1>3, <1>4, <1>5 DEF Aim

(* A manager is made by whoever holds the lock, when the one in the field is quiet. *)
LEMMA MakesAim ==
  ASSUME Types, Aim, NewManager, UNCHANGED cancelled, Stopped, current \in {0} \cup cancelled
  PROVE  /\ \A m : Known(m) => Known(m)'
         /\ \A m \in Manager : Quiet(m)'
<1>1. \A m : Known(m) => Known(m)' BY KnownKept
<1>2. ASSUME NEW m \in Manager PROVE Quiet(m)'
  <2>1. m # 0 /\ manager \in [Manager -> {"none", "new", "running", "doubled", "ended"}]
    BY Managers DEF Types, TypeOK
  <2>2. Quiet(m) BY <2>1 DEF Aim, Stopped
  <2>. QED BY <2>1, <2>2 DEF Quiet, NewManager
<1>. QED BY <1>1, <1>2

LEMMA StartAim == ASSUME Types, Halted, Alone, ~mixed, Aim, StartReplies PROVE Aim'
<1>1. \A r \in Request : ~Active(r) BY DEF Alone, StartReplies, StartPending
<1>2. current \in {0} \cup cancelled BY DEF Halted, StartReplies
<1>3. /\ \A m : Known(m) => Known(m)'
      /\ \A m \in Manager : Quiet(m)'
  BY <1>2, MakesAim DEF StartReplies
<1>4. ASSUME NEW g \in Manager, launch'[g].at = "read" PROVE Known(launch[g].m)'
  <2>1. launch \in [Manager -> Launches] BY DEF Types, TypeOK, Launches
  <2>2. launch'[g] = launch[g] BY <1>4, <2>1 DEF StartReplies, Launches
  <2>3. Known(launch[g].m) BY <1>4, <2>2 DEF Aim
  <2>4. launch[g].m # 0 /\ launch[g].m \in {current'} \cup cancelled'
    <3>1. \A m : Known(m) => m # 0 /\ m \in {current'} \cup cancelled' BY <1>3 DEF Known
    <3>. QED BY <2>3, <3>1
  <2>. QED BY <2>2, <2>4 DEF Known
<1>5. run' = run BY DEF StartReplies
<1>6. \A r \in Request : run'[r].at \in {"no", "over"} BY <1>1, <1>5 DEF Active
<1>7. \A g \in Manager : launch'[g].at = "read" => Known(launch[g].m)' BY <1>4
<1>8. \A m \in Manager : Quiet(m)' BY <1>3
<1>. QED BY <1>6, <1>7, <1>8 DEF Aim

(* Starting a manager that is known starts the one in the field. *)
LEMMA StartedAim ==
  ASSUME Types, Aim, NEW n, Known(n), Started(n)
  PROVE  \A m \in Manager : manager'[m] \notin {"running", "doubled"} \/ m = current
<1>1. n = current BY DEF Known, Started
<1>2. manager \in [Manager -> {"none", "new", "running", "doubled", "ended"}] BY DEF Types, TypeOK
<1>. QED BY <1>1, <1>2 DEF Aim, Started, Quiet

LEMMA LaunchAim ==
  ASSUME Types, Alone, ~mixed, Aim, NEW g \in Manager, LaunchReads(g) \/ LaunchStarts(g) PROVE Aim'
<1>1. launch \in [Manager -> Launches] BY DEF Types, TypeOK, Launches
<1>2. \A r \in Request : ~Active(r)
  <2>1. launch[g].at \in {"spawned", "read"} BY DEF LaunchReads, LaunchStarts
  <2>. QED BY <2>1 DEF Alone, StartPending
<1>3. UNCHANGED <<run, current, cancelled>> BY DEF LaunchReads, LaunchStarts, streams
<1>4. \A m : Known(m)' <=> Known(m) BY <1>3 DEF Known
<1>5. ASSUME NEW h \in Manager, launch'[h].at = "read" PROVE Known(launch'[h].m)
  <2>1. launch'[h] = launch[h] \/ (launch'[h].m = current /\ current # 0)
    BY <1>1, <1>5 DEF LaunchReads, LaunchStarts
  <2>. QED BY <1>5, <2>1 DEF Aim, Known
<1>6. ASSUME NEW m \in Manager, ~Quiet(m)' PROVE m = current
  <2>1. CASE manager' = manager BY <1>6, <2>1 DEF Aim, Quiet
  <2>2. CASE LaunchStarts(g) /\ Started(launch[g].m)
    <3>1. Known(launch[g].m) BY <2>2 DEF Aim, LaunchStarts
    <3>. QED BY <1>6, <2>2, <3>1, StartedAim DEF Quiet
  <2>. QED BY <2>1, <2>2 DEF LaunchReads, LaunchStarts, streams
<1>7. \A m : Known(m)' <=> Known(m) BY <1>4
<1>. QED BY <1>2, <1>3, <1>5, <1>6, <1>7 DEF Aim, Active

(* Steps of a run, which is the only one under way. *)
LEMMA RunAim ==
  ASSUME Types, Halted, Alone, ~mixed, Aim, NEW r \in Request, RunStep(r) PROVE Aim'
<1>1. run \in [Request -> Runs] /\ created \in Nat BY Managers DEF Types, TypeOK, Runs
<1>2. Active(r) /\ launch' = launch
  BY DEF RunStep, RunBegins, DayBegins, DayPrepared, DayFails, DayStarts, DayEnds, DayResets, RunExits, Active
<1>3. /\ \A q \in Request : Active(q) => q = r
      /\ \A g \in Manager : launch'[g].at # "read"
  BY <1>2 DEF Alone, StartPending
<1>4. ASSUME NEW q \in Request, q # r PROVE ~Active(q)'
  <2>1. run'[q] = run[q]
    BY <1>1, <1>4 DEF RunStep, RunBegins, DayBegins, DayPrepared, DayFails, DayStarts, DayEnds, DayResets, RunExits, Move
  <2>. QED BY <1>3, <1>4, <2>1 DEF Active
<1>. SUFFICES /\ run'[r].at = "launch" => Known(run[r].m)'
              /\ run'[r].at \in {"launch", "waiting", "reset"} => current' \in {0, run'[r].m}
              /\ run'[r].at = "reset" => \A m \in Manager : Quiet(m)'
              /\ \A m \in Manager : ~Quiet(m)' => m = current'
  BY <1>3, <1>4 DEF Aim, Active, Known, Quiet
<1>5. CASE RunBegins(r) \/ DayBegins(r) \/ DayFails(r) \/ RunExits(r)
  <2>1. run'[r].at \in {"next", "stopping", "exit", "over"}
    BY <1>1, <1>5 DEF RunBegins, DayBegins, DayFails, RunExits, Move, Runs
  <2>2. UNCHANGED <<manager, current>> BY <1>5 DEF RunBegins, DayBegins, DayFails, RunExits, streams
  <2>. QED BY <2>1, <2>2 DEF Aim, Quiet
<1>6. CASE DayPrepared(r)
  <2>1. run'[r].m = created + 1 /\ run'[r].at = "launch" /\ current' = created + 1
    BY <1>1, <1>6 DEF DayPrepared, NewManager, Runs
  <2>2. current \in {0} \cup cancelled BY <1>6 DEF Halted, DayPrepared
  <2>3. \A m \in Manager : Quiet(m)' BY <1>6, <2>2, MakesAim DEF DayPrepared
  <2>4. created + 1 # 0 BY <1>1
  <2>. QED BY <2>1, <2>3, <2>4 DEF Known
<1>7. CASE DayStarts(r)
  <2>1. run[r].at = "launch" /\ UNCHANGED <<current, cancelled>> BY <1>7 DEF DayStarts
  <2>2. run'[r].at \in {"waiting", "exit"} /\ run'[r].m = run[r].m BY <1>1, <1>7 DEF DayStarts, Move, Runs
  <2>3. current \in {0, run[r].m} /\ Known(run[r].m) BY <2>1 DEF Aim
  <2>4. ASSUME NEW m \in Manager, ~Quiet(m)' PROVE m = current
    <3>1. CASE manager' = manager BY <2>4, <3>1 DEF Aim, Quiet
    <3>2. CASE Started(run[r].m) BY <2>3, <2>4, <3>2, StartedAim DEF Quiet
    <3>. QED BY <1>7, <3>1, <3>2 DEF DayStarts
  <2>. QED BY <2>1, <2>2, <2>3, <2>4
<1>8. CASE DayEnds(r)
  <2>1. run[r].at = "waiting" /\ Quiet(run[r].m) /\ UNCHANGED <<current, manager>> BY <1>8 DEF DayEnds, streams
  <2>2. run'[r].at \in {"reset", "exit"} /\ run'[r].m = run[r].m BY <1>1, <1>8 DEF DayEnds, Move, Runs
  <2>3. current \in {0, run[r].m} BY <2>1 DEF Aim
  <2>4. \A m \in Manager : ~Quiet(m)' => m = current' BY <2>1 DEF Aim, Quiet
  <2>5. \A m \in Manager : Quiet(m)'
    <3>1. \A m \in Manager : m # 0 BY Managers
    <3>. QED BY <2>1, <2>3, <3>1 DEF Aim, Quiet
  <2>. QED BY <2>1, <2>2, <2>3, <2>4, <2>5
<1>9. CASE DayResets(r)
  <2>1. run[r].at = "reset" /\ manager' = manager BY <1>9 DEF DayResets, streams
  <2>2. run'[r].at = "next" BY <1>1, <1>9 DEF DayResets, Runs
  <2>3. \A m \in Manager : Quiet(m)
    BY <2>1 DEF Aim
  <2>. QED BY <2>1, <2>2, <2>3 DEF Quiet
<1>. QED BY <1>5, <1>6, <1>7, <1>8, <1>9 DEF RunStep

LEMMA StepAim == ASSUME Types, Single, ~mixed, [Next]_vars PROVE Aim'
<1>1. Aim BY DEF Single, Aimed, Aim
<1>2. ASSUME NEW g \in Manager, StreamEnds(g) PROVE Aim'
  <2>1. UNCHANGED <<current, cancelled, launch, run>> BY <1>2 DEF StreamEnds
  <2>2. ASSUME NEW m \in Manager, Quiet(m) PROVE Quiet(m)'
    <3>1. manager \in [Manager -> {"none", "new", "running", "doubled", "ended"}] BY DEF Types, TypeOK
    <3>. QED BY <1>2, <2>2, <3>1 DEF StreamEnds, Quiet
  <2>. QED BY <1>1, <2>1, <2>2 DEF Aim, Known
<1>3. ASSUME NEW days \in 1 .. MaxDays, MultiRequest(days) PROVE Aim'
  <2>1. UNCHANGED <<current, cancelled, launch, manager>> BY <1>3 DEF MultiRequest, streams
  <2>2. run \in [Request -> Runs] BY DEF Types, TypeOK, Runs
  <2>3. \A q \in Request : run'[q] = run[q] \/ run'[q].at = "accepted" BY <1>3, <2>2 DEF MultiRequest, Runs
  <2>. QED BY <1>1, <2>1, <2>3 DEF Aim, Known, Quiet
<1>4. CASE UNCHANGED vars BY <1>1, <1>4 DEF vars, streams, Aim, Known, Quiet
<1>5. ASSUME NEW g \in Manager, LaunchReads(g) \/ LaunchStarts(g) PROVE Aim'
  BY <1>1, <1>5, LaunchAim DEF Single
<1>6. ASSUME NEW r \in Request, RunStep(r) PROVE Aim' BY <1>1, <1>6, RunAim DEF Single
<1>7. CASE StartReplies BY <1>1, <1>7, StartAim DEF Single
<1>8. CASE StartRequest \/ StopRequest \/ StatusPanics \/ StartFails \/ StopReplies
  BY <1>1, <1>8, HandlerAim DEF Single
<1>. QED BY <1>2, <1>3, <1>4, <1>5, <1>6, <1>7, <1>8 DEF Next

LEMMA StepSingle == Types /\ Single /\ [Next]_vars => Single'
<1>. SUFFICES ASSUME Types, Single, [Next]_vars PROVE Single' OBVIOUS
<1>1. Halted' BY StepHalted DEF Single
<1>2. Alone' BY StepAlone DEF Single
<1>3. Aimed'
  <2>. SUFFICES ASSUME ~mixed' PROVE Aim' BY DEF Aimed, Aim
  <2>. QED BY Unmixed, StepAim
<1>. QED BY <1>1, <1>2, <1>3 DEF Single

(* Until a start and a run, or two runs, meet: a goroutine that has read the field too early
   or a day that has been stopped meanwhile starts nothing, the day that is reset between
   two days of a run has ended, and every stream under way can be stopped. *)
THEOREM SingleKept == Spec => []Single
  BY InitTypes, StepTypes, InitSingle, StepSingle, PTL DEF Spec

(* One stream at a time, and it is the one in the field, where a stop finds it. *)
THEOREM OneStreamKept == Spec => []OneStream
<1>1. Single => OneStream BY DEF Single, Aimed, OneStream
<1>. QED BY <1>1, SingleKept, PTL
=============================================================================
