----------------------- MODULE AuditScheduler_proofs ------------------------
(***************************************************************************)
(* Proofs about AuditScheduler, for every number of jobs, every job graph, *)
(* every budget and every mix of resource needs.                           *)
(***************************************************************************)
EXTENDS AuditScheduler, FiniteSetTheorems, WellFoundedInduction, TLAPS

-----------------------------------------------------------------------------
(* What a set of jobs weighs together, without a recursive sum: partial    *)
(* sums s along the jobs, with what follows from them for any interval.    *)

PartialSums(s, R, w) ==
  /\ s[0] = 0
  /\ \A i \in Job : s[i] = s[i - 1] + (IF i \in R THEN w[i] ELSE 0)
  /\ \A i, k \in 0 .. N : i <= k => s[i] <= s[k]
  /\ \A i, k \in 0 .. N : i <= k /\ (\A j \in R : j <= i \/ k < j) => s[i] = s[k]

Tally(R, w, t) == \E s \in [0 .. N -> Nat] : PartialSums(s, R, w) /\ s[N] = t

\* A tally is a natural number; that of no job is zero.
LEMMA TallyType ==
  ASSUME NEW R, NEW w, NEW t, Tally(R, w, t)
  PROVE  t \in Nat
  BY ConstantsAssumption DEF Tally

LEMMA TallyOfNone ==
  ASSUME NEW w, NEW t, Tally({}, w, t)
  PROVE  t = 0
  BY ConstantsAssumption DEF Tally, PartialSums

LEMMA NoneTally ==
  ASSUME NEW w
  PROVE  Tally({}, w, 0)
  <1> DEFINE s == [i \in 0 .. N |-> 0]
  <1>1. s \in [0 .. N -> Nat] /\ s[N] = 0
    BY ConstantsAssumption
  <1>2. PartialSums(s, {}, w)
    BY ConstantsAssumption DEF PartialSums, Job
  <1> QED BY <1>1, <1>2 DEF Tally

\* A job that joins adds its weight.
LEMMA TallyAdd ==
  ASSUME NEW R \in SUBSET Job, NEW w \in [Job -> Nat], NEW t, Tally(R, w, t),
         NEW j \in Job, j \notin R
  PROVE  Tally(R \cup {j}, w, t + w[j])
  <1>1. PICK s \in [0 .. N -> Nat] : PartialSums(s, R, w) /\ s[N] = t
    BY DEF Tally
  <1> DEFINE q == [i \in 0 .. N |-> IF j <= i THEN s[i] + w[j] ELSE s[i]]
  <1>2. q \in [0 .. N -> Nat]
    BY ConstantsAssumption DEF Job
  <1>3. q[N] = t + w[j]
    BY <1>1, ConstantsAssumption DEF Job
  <1>4. q[0] = 0
    BY <1>1, ConstantsAssumption DEF Job, PartialSums
  <1>5. ASSUME NEW i \in Job
        PROVE  q[i] = q[i - 1] + (IF i \in R \cup {j} THEN w[i] ELSE 0)
    <2>1. i - 1 \in 0 .. N /\ i \in 0 .. N /\ w[i] \in Nat /\ w[j] \in Nat
      BY ConstantsAssumption DEF Job
    <2>2. s[i] = s[i - 1] + (IF i \in R THEN w[i] ELSE 0)
      BY <1>1 DEF PartialSums
    <2>3. q[i] = (IF j <= i THEN s[i] + w[j] ELSE s[i])
          /\ q[i - 1] = (IF j <= i - 1 THEN s[i - 1] + w[j] ELSE s[i - 1])
      BY <2>1
    <2>4. s[i] \in Nat /\ s[i - 1] \in Nat
      BY <2>1
    <2> HIDE DEF q
    <2> QED BY <2>1, <2>2, <2>3, <2>4 DEF Job
  <1>6. \A i, k \in 0 .. N : i <= k => q[i] <= q[k]
    BY <1>1, ConstantsAssumption DEF PartialSums, Job
  <1>7. ASSUME NEW i \in 0 .. N, NEW k \in 0 .. N, i <= k,
               \A l \in R \cup {j} : l <= i \/ k < l
        PROVE  q[i] = q[k]
    <2>1. s[i] = s[k]
      BY <1>1, <1>7 DEF PartialSums
    <2>2. j <= i \/ k < j
      BY <1>7
    <2> QED BY <1>7, <2>1, <2>2, ConstantsAssumption DEF Job
  <1> HIDE DEF q
  <1>8. PartialSums(q, R \cup {j}, w)
    BY <1>4, <1>5, <1>6, <1>7 DEF PartialSums
  <1> QED BY <1>2, <1>3, <1>8 DEF Tally

\* A job that leaves takes its weight with it.
LEMMA TallyRemove ==
  ASSUME NEW R \in SUBSET Job, NEW w \in [Job -> Nat], NEW t, Tally(R, w, t),
         NEW j \in R
  PROVE  Tally(R \ {j}, w, t - w[j])
  <1>1. PICK s \in [0 .. N -> Nat] : PartialSums(s, R, w) /\ s[N] = t
    BY DEF Tally
  <1> DEFINE q == [i \in 0 .. N |-> IF j <= i THEN s[i] - w[j] ELSE s[i]]
  <1>2. /\ j \in 1 .. N /\ j - 1 \in 0 .. N /\ N \in 0 .. N /\ 0 \in 0 .. N
        /\ w[j] \in Nat /\ s[j] = s[j - 1] + w[j]
    BY <1>1, ConstantsAssumption DEF Job, PartialSums
  <1>3. ASSUME NEW i \in 0 .. N
        PROVE  /\ s[i] \in Nat
               /\ j <= i => s[j] <= s[i]
               /\ i <= j - 1 => s[i] <= s[j - 1]
               /\ q[i] = IF j <= i THEN s[i] - w[j] ELSE s[i]
    <2>1. q[i] = IF j <= i THEN s[i] - w[j] ELSE s[i]
      OBVIOUS
    <2> HIDE DEF q
    <2>2. s[i] \in Nat /\ j \in 0 .. N
      BY <1>2
    <2>3. j <= i => s[j] <= s[i]
      BY <1>1, <2>2 DEF PartialSums
    <2>4. i <= j - 1 => s[i] <= s[j - 1]
      BY <1>1, <1>2 DEF PartialSums
    <2> QED BY <2>1, <2>2, <2>3, <2>4
  <1> HIDE DEF q
  <1>4. ASSUME NEW i \in 0 .. N PROVE q[i] \in Nat
    BY <1>2, <1>3
  <1>5. q \in [0 .. N -> Nat]
    BY <1>4 DEF q
  <1>6. q[N] = t - w[j] /\ q[0] = 0
    BY <1>1, <1>2, <1>3 DEF PartialSums
  <1>7. ASSUME NEW i \in Job
        PROVE  q[i] = q[i - 1] + (IF i \in R \ {j} THEN w[i] ELSE 0)
    <2>1. i - 1 \in 0 .. N /\ i \in 0 .. N /\ w[i] \in Nat
      BY ConstantsAssumption DEF Job
    <2>2. s[i] = s[i - 1] + (IF i \in R THEN w[i] ELSE 0)
      BY <1>1 DEF PartialSums
    <2> QED BY <1>2, <1>3, <2>1, <2>2 DEF Job
  <1>8. ASSUME NEW i \in 0 .. N, NEW k \in 0 .. N, i <= k
        PROVE  q[i] <= q[k]
    <2>1. s[i] <= s[k]
      BY <1>1, <1>8 DEF PartialSums
    <2>2. s[i] \in Nat /\ s[k] \in Nat /\ s[j - 1] \in Nat /\ s[j] \in Nat
      BY <1>2
    <2>3. CASE j <= i
      BY <1>2, <1>3, <1>8, <2>1, <2>2, <2>3
    <2>4. CASE i < j /\ j <= k
      <3>1. s[i] <= s[j - 1] /\ s[j] <= s[k] /\ q[i] = s[i] /\ q[k] = s[k] - w[j]
        BY <1>2, <1>3, <2>4
      <3> QED BY <1>2, <2>2, <3>1
    <2>5. CASE k < j
      BY <1>2, <1>3, <1>8, <2>1, <2>2, <2>5
    <2> QED BY <1>2, <2>3, <2>4, <2>5
  <1>9. ASSUME NEW i \in 0 .. N, NEW k \in 0 .. N, i <= k,
               \A l \in R \ {j} : l <= i \/ k < l
        PROVE  q[i] = q[k]
    <2>1. CASE j <= i \/ k < j
      <3>1. s[i] = s[k]
        BY <1>1, <1>9, <2>1 DEF PartialSums
      <3> QED BY <1>2, <1>3, <1>9, <2>1, <3>1
    <2>2. CASE i < j /\ j <= k
      <3>1. s[i] = s[j - 1]
        BY <1>1, <1>2, <1>9, <2>2 DEF PartialSums, Job
      <3>2. s[j] = s[k]
        BY <1>1, <1>2, <1>9, <2>2 DEF PartialSums, Job
      <3> QED BY <1>2, <1>3, <2>2, <3>1, <3>2
    <2> QED BY <1>2, <2>1, <2>2
  <1>10. PartialSums(q, R \ {j}, w)
    BY <1>6, <1>7, <1>8, <1>9 DEF PartialSums
  <1> QED BY <1>5, <1>6, <1>10 DEF Tally
-----------------------------------------------------------------------------
(* The inductive invariant. *)

RunningJobs == {j \in Job : status[j] = "running"}

CPUs == [j \in Job |-> need[j].cpu]
Mems == [j \in Job |-> need[j].mem]

\* The loop's counters are those of the jobs whose status is running.
CountInv ==
  /\ running = Cardinality(RunningJobs)
  /\ Tally(RunningJobs, CPUs, allocated.cpu)
  /\ Tally(RunningJobs, Mems, allocated.mem)

\* What validate established.
GraphInv ==
  /\ ~HasDependencyCycle(deps)
  /\ \A j \in Job : Fits(Normalized(Budget), Nothing, need[j])

\* A goroutine works or reports for a job that is running, and reports once.
ChannelInv ==
  /\ \A j \in Job : goroutine[j] \in Verdict \cup {"running"} => status[j] = "running"
  /\ \A i \in 1 .. Len(completed) :
       status[completed[i].job] = "running" /\ goroutine[completed[i].job] = "gone"
  /\ \A i, k \in 1 .. Len(completed) : completed[i].job = completed[k].job => i = k

\* No pending job waits for one that will never pass.
NoneBlocked ==
  \A j \in Pending : \A d \in deps[j] : status[d] \notin {"failed", "cancelled"}

\* What the loop has established when it is at pc.
RoundInv ==
  /\ seen => Pending = {} /\ pc # "start"
  /\ ~seen /\ pc \in {"start", "check", "receive"} => NoneBlocked
  /\ ~seen /\ pc = "start" => \A j \in Job : j < next => ~Startable(j)
  /\ ~seen /\ pc \in {"check", "receive"} => \A j \in Job : ~Startable(j)
  /\ pc = "returned" => RunningJobs = {}
  /\ pc # "error"

Inv == TypeOK /\ CountInv /\ GraphInv /\ ChannelInv /\ RoundInv /\ DependencyOrder

-----------------------------------------------------------------------------
(* Counting. *)

LEMMA JobsAreFinite == IsFiniteSet(Job) /\ Cardinality(Job) = N
  <1>1. IsFiniteSet(1 .. N) /\ Cardinality(1 .. N) = IF 1 > N THEN 0 ELSE N - 1 + 1
    BY FS_Interval, ConstantsAssumption
  <1> QED BY <1>1, ConstantsAssumption DEF Job

LEMMA RunningCount ==
  ASSUME NEW R \in SUBSET Job
  PROVE  IsFiniteSet(R) /\ Cardinality(R) \in 0 .. N /\ (Cardinality(R) = 0 => R = {})
  <1>1. IsFiniteSet(R) /\ Cardinality(R) <= N
    BY JobsAreFinite, FS_Subset
  <1>2. Cardinality(R) \in Nat
    BY <1>1, FS_CardinalityType
  <1>3. Cardinality(R) = 0 => R = {}
    BY <1>1, FS_EmptySet
  <1> QED BY <1>1, <1>2, <1>3, ConstantsAssumption

\* The counters of TypeOK follow from CountInv.
LEMMA CountersTyped ==
  ASSUME NEW n, NEW a \in [cpu : Int, mem : Int],
         NEW R \in SUBSET Job, NEW w, NEW v,
         n = Cardinality(R), Tally(R, w, a.cpu), Tally(R, v, a.mem)
  PROVE  n \in 0 .. N /\ a \in Resources
  <1>1. n \in 0 .. N
    BY RunningCount
  <1>2. a.cpu \in Nat /\ a.mem \in Nat
    BY TallyType
  <1> QED BY <1>1, <1>2 DEF Resources

LEMMA WeightsTyped ==
  ASSUME TypeOK
  PROVE  CPUs \in [Job -> Nat] /\ Mems \in [Job -> Nat] /\ RunningJobs \in SUBSET Job
  BY DEF TypeOK, CPUs, Mems, Resources, RunningJobs

\* CountInv does not look at anything else.
LEMMA CountUnchanged ==
  ASSUME CountInv, UNCHANGED <<need, allocated, running>>, RunningJobs' = RunningJobs
  PROVE  CountInv'
  <1>1. CPUs' = CPUs /\ Mems' = Mems
    BY DEF CPUs, Mems
  <1> QED BY <1>1 DEF CountInv

\* Nothing is allocated while nothing runs.
LEMMA NothingAllocated ==
  ASSUME CountInv, RunningJobs = {}
  PROVE  allocated.cpu = 0 /\ allocated.mem = 0
  BY TallyOfNone DEF CountInv

-----------------------------------------------------------------------------
(* The initial states. *)

LEMMA InitInv == Init => Inv
  <1> SUFFICES ASSUME Init PROVE Inv
    OBVIOUS
  <1>1. PICK req \in [Job -> Requests] :
          Validate(deps, req) /\ need = [j \in Job |-> Normalized(req[j])]
    BY DEF Init
  <1>2. \A j \in Job : req[j] \in Resources
    BY <1>1, ConstantsAssumption
  <1>3. need \in [Job -> Resources]
    BY <1>1, <1>2 DEF Normalized, Resources
  <1>4. RunningJobs = {}
    BY DEF Init, RunningJobs
  <1>5. CountInv
    <2>1. running = Cardinality(RunningJobs)
      BY <1>4, FS_EmptySet DEF Init
    <2>2. allocated.cpu = 0 /\ allocated.mem = 0
      BY DEF Init, Nothing
    <2> QED BY <1>4, <2>1, <2>2, NoneTally DEF CountInv
  <1>6. allocated \in [cpu : Int, mem : Int]
    BY DEF Init, Nothing
  <1>7. running \in 0 .. N /\ allocated \in Resources
    BY <1>4, <1>5, <1>6, CountersTyped DEF CountInv
  <1>8. TypeOK
    <2>1. deps \in [Job -> SUBSET Job] /\ cancelled \in BOOLEAN /\ seen \in BOOLEAN
      BY DEF Init
    <2>2. /\ status \in [Job -> Verdict \cup {"pending", "running"}]
          /\ goroutine \in [Job -> Verdict \cup {"none", "running", "gone"}]
          /\ completed \in Seq([job : Job, verdict : Verdict])
      BY DEF Init
    <2>3. next \in 1 .. N + 1 /\ pc = "head"
      BY ConstantsAssumption DEF Init
    <2> QED BY <1>3, <1>7, <2>1, <2>2, <2>3 DEF TypeOK
  <1>9. GraphInv
    BY <1>1 DEF Validate, GraphInv
  <1>10. ChannelInv
    BY DEF Init, ChannelInv, Verdict
  <1>11. RoundInv
    BY <1>8 DEF Init, RoundInv, TypeOK
  <1>12. DependencyOrder
    BY DEF Init, DependencyOrder
  <1> QED BY <1>5, <1>8, <1>9, <1>10, <1>11, <1>12 DEF Inv
-----------------------------------------------------------------------------
(* The steps of the loop. *)

LEMMA ElementTyped ==
  ASSUME NEW S, NEW q \in Seq(S), NEW i \in 1 .. Len(q)
  PROVE  q[i] \in S
  OBVIOUS

LEMMA EntryTyped ==
  ASSUME TypeOK, NEW i \in 1 .. Len(completed)
  PROVE  completed[i].job \in Job /\ completed[i].verdict \in Verdict
  <1>1. completed \in Seq([job : Job, verdict : Verdict])
    BY DEF TypeOK
  <1>2. completed[i] \in [job : Job, verdict : Verdict]
    BY <1>1, ElementTyped
  <1> QED BY <1>2

\* Jobs that are cancelled before they start disturb nothing but the round.
LEMMA CancelJobsStep ==
  ASSUME Inv, NEW S \in SUBSET Pending, CancelJobs(S),
         UNCHANGED <<deps, need, allocated, running, goroutine, completed>>
  PROVE  /\ status' \in [Job -> Verdict \cup {"pending", "running"}]
         /\ CountInv' /\ GraphInv' /\ ChannelInv' /\ DependencyOrder'
  <1>1. status' \in [Job -> Verdict \cup {"pending", "running"}]
    BY DEF Inv, TypeOK, CancelJobs, Verdict
  <1>2. \A j \in Job : status[j] # "pending" => status'[j] = status[j]
    BY DEF Inv, TypeOK, CancelJobs, Pending
  <1>3. \A j \in Job : status'[j] # "cancelled" => status'[j] = status[j]
    BY DEF Inv, TypeOK, CancelJobs
  <1>4. RunningJobs' = RunningJobs
    BY <1>2, <1>3 DEF RunningJobs
  <1>5. CountInv'
    BY <1>4, CountUnchanged DEF Inv
  <1>6. GraphInv'
    BY DEF Inv, GraphInv, HasDependencyCycle
  <1>7. ChannelInv'
    BY <1>2, EntryTyped DEF Inv, ChannelInv
  <1>8. DependencyOrder'
    BY <1>2 DEF Inv, TypeOK, DependencyOrder
  <1> QED BY <1>1, <1>5, <1>6, <1>7, <1>8

\* markBlockedJobsCancelled leaves no pending job that waits for a job that
\* failed or was cancelled: one that did would itself be in every closed set.
LEMMA BlockedIsClosed ==
  ASSUME Inv, CancelJobs(Blocked), UNCHANGED deps
  PROVE  NoneBlocked'
  <1> SUFFICES ASSUME NEW j \in Pending', NEW d \in deps[j],
                      status'[d] \in {"failed", "cancelled"}
               PROVE  FALSE
    BY DEF NoneBlocked
  <1>1. j \in Job /\ d \in Job /\ j \in Pending /\ j \notin Blocked
    BY DEF Inv, TypeOK, CancelJobs, Pending
  <1>2. status[d] \in {"failed", "cancelled"} \/ d \in Blocked
    BY <1>1 DEF Inv, TypeOK, CancelJobs
  <1>3. ASSUME NEW S \in SUBSET Pending, ClosedUnderBlocking(S) PROVE j \in S
    <2>1. status[d] \in {"failed", "cancelled"} \/ d \in S
      BY <1>2, <1>3 DEF Blocked
    <2> QED BY <1>1, <1>3, <2>1 DEF ClosedUnderBlocking
  <1> QED BY <1>1, <1>3 DEF Blocked

LEMMA RoundHeadStep == ASSUME Inv, RoundHead PROVE Inv'
  <1> USE DEF RoundHead
  <1>1. CASE seen \/ cancelled
    <2> DEFINE S == IF seen THEN {} ELSE Pending
    <2>1. /\ CancelJobs(S) /\ S \in SUBSET Pending
          /\ UNCHANGED <<deps, need, allocated, running, cancelled, goroutine, completed, next>>
          /\ seen' = TRUE /\ pc' = "check"
      BY <1>1
    <2> HIDE DEF S
    <2>2. /\ status' \in [Job -> Verdict \cup {"pending", "running"}]
          /\ CountInv' /\ GraphInv' /\ ChannelInv' /\ DependencyOrder'
      BY <2>1, CancelJobsStep
    <2>3. TypeOK'
      BY <2>1, <2>2 DEF Inv, TypeOK
    <2>4. Pending' = {}
      BY <2>1 DEF S, Inv, RoundInv, TypeOK, CancelJobs, Pending
    <2>5. RoundInv'
      BY <2>1, <2>4 DEF RoundInv
    <2> QED BY <2>2, <2>3, <2>5 DEF Inv
  <1>2. CASE ~(seen \/ cancelled)
    <2>1. /\ CancelJobs(Blocked) /\ Blocked \in SUBSET Pending
          /\ UNCHANGED <<deps, need, allocated, running, cancelled, goroutine, completed, seen>>
          /\ pc' = "start" /\ next' = 1
      BY <1>2 DEF Blocked
    <2>2. /\ status' \in [Job -> Verdict \cup {"pending", "running"}]
          /\ CountInv' /\ GraphInv' /\ ChannelInv' /\ DependencyOrder'
      BY <2>1, CancelJobsStep
    <2>3. TypeOK'
      BY <2>1, <2>2, ConstantsAssumption DEF Inv, TypeOK
    <2>4. NoneBlocked'
      BY <2>1, BlockedIsClosed
    <2>5. RoundInv'
      BY <1>2, <2>1, <2>4 DEF RoundInv, Job
    <2> QED BY <2>2, <2>3, <2>5 DEF Inv
  <1> QED BY <1>1, <1>2
\* Startable does not become true by starting another job.
LEMMA StillNotStartable ==
  ASSUME Inv, NEW i \in Job, status[i] = "pending",
         status' = [status EXCEPT ![i] = "running"],
         allocated' = [cpu |-> allocated.cpu + need[i].cpu,
                       mem |-> allocated.mem + need[i].mem],
         UNCHANGED <<deps, need>>,
         NEW j \in Job, ~Startable(j)
  PROVE  ~Startable(j)'
  <1> SUFFICES ASSUME Startable(j)' PROVE FALSE
    OBVIOUS
  <1>1. status[j] = "pending"
    BY DEF Startable, Inv, TypeOK
  <1>2. DependenciesPassed(j)
    BY DEF Startable, DependenciesPassed, Inv, TypeOK
  <1>3. Normalized(Budget).cpu \in Nat /\ Normalized(Budget).mem \in Nat
    BY ConstantsAssumption DEF Normalized, Resources
  <1>4. /\ allocated.cpu \in Nat /\ allocated.mem \in Nat
        /\ need[i].cpu \in Nat /\ need[i].mem \in Nat
        /\ need[j].cpu \in Nat /\ need[j].mem \in Nat
    BY DEF Inv, TypeOK, Resources
  <1>5. /\ need[j].cpu + (allocated.cpu + need[i].cpu) <= Normalized(Budget).cpu
        /\ need[j].mem + (allocated.mem + need[i].mem) <= Normalized(Budget).mem
    BY DEF Startable, Fits
  <1>6. Fits(Normalized(Budget), allocated, need[j])
    BY <1>3, <1>4, <1>5 DEF Fits
  <1> QED BY <1>1, <1>2, <1>6 DEF Startable

LEMMA StartJobStep == ASSUME Inv, StartJob PROVE Inv'
  <1> USE DEF StartJob
  <1>1. /\ pc = "start" /\ ~seen /\ next \in Job /\ next' = next + 1
        /\ UNCHANGED <<deps, need, cancelled, pc, seen, completed>>
    BY ConstantsAssumption DEF Inv, TypeOK, RoundInv, Job
  <1>2. next' \in 1 .. N + 1
    BY <1>1, ConstantsAssumption DEF Job
  <1>3. GraphInv'
    BY <1>1 DEF Inv, GraphInv, HasDependencyCycle
  <1>4. CASE ~Startable(next)
    <2>1. UNCHANGED <<status, allocated, running, goroutine>>
      BY <1>4
    <2>2. TypeOK'
      BY <1>1, <1>2, <2>1 DEF Inv, TypeOK
    <2>3. CountInv'
      BY <1>1, <2>1, CountUnchanged DEF Inv, RunningJobs
    <2>4. ChannelInv' /\ DependencyOrder'
      BY <1>1, <2>1 DEF Inv, ChannelInv, DependencyOrder
    <2>5. \A j \in Job : Startable(j)' <=> Startable(j)
      BY <1>1, <2>1 DEF Startable, DependenciesPassed
    <2>6. NoneBlocked'
      BY <1>1, <2>1 DEF Inv, RoundInv, NoneBlocked, Pending
    <2>7. \A j \in Job : j < next' => ~Startable(j)'
      BY <1>1, <1>4, <2>5 DEF Inv, RoundInv, Job
    <2>8. RoundInv'
      BY <1>1, <2>6, <2>7 DEF RoundInv
    <2> QED BY <1>3, <2>2, <2>3, <2>4, <2>8 DEF Inv
  <1>5. CASE Startable(next)
    <2>1. /\ status' = [status EXCEPT ![next] = "running"]
          /\ allocated' = [cpu |-> allocated.cpu + need[next].cpu,
                           mem |-> allocated.mem + need[next].mem]
          /\ running' = running + 1
          /\ goroutine' = [goroutine EXCEPT ![next] = "running"]
          /\ status[next] = "pending" /\ DependenciesPassed(next)
      BY <1>5 DEF Startable
    <2>2. RunningJobs' = RunningJobs \cup {next} /\ next \notin RunningJobs
      BY <1>1, <2>1 DEF RunningJobs, Inv, TypeOK
    <2>3. CountInv'
      <3>1. /\ CPUs' = CPUs /\ Mems' = Mems
            /\ allocated'.cpu = allocated.cpu + CPUs[next]
            /\ allocated'.mem = allocated.mem + Mems[next]
        BY <1>1, <2>1 DEF CPUs, Mems
      <3>2. /\ CPUs \in [Job -> Nat] /\ Mems \in [Job -> Nat]
            /\ RunningJobs \in SUBSET Job
        BY WeightsTyped DEF Inv
      <3>3. /\ Tally(RunningJobs \cup {next}, CPUs, allocated.cpu + CPUs[next])
            /\ Tally(RunningJobs \cup {next}, Mems, allocated.mem + Mems[next])
        BY <1>1, <2>2, <3>2, TallyAdd DEF Inv, CountInv
      <3>4. running' = Cardinality(RunningJobs \cup {next})
        BY <2>1, <2>2, <3>2, RunningCount, FS_AddElement DEF Inv, CountInv
      <3> QED BY <2>2, <3>1, <3>3, <3>4 DEF CountInv
    <2>4. allocated' \in [cpu : Int, mem : Int]
      BY <1>1, <2>1 DEF Inv, TypeOK, Resources
    <2>5. running' \in 0 .. N /\ allocated' \in Resources
      BY <2>2, <2>3, <2>4, <1>1, WeightsTyped, CountersTyped DEF Inv, CountInv
    <2>6. TypeOK'
      BY <1>1, <1>2, <2>1, <2>5 DEF Inv, TypeOK
    <2>7. ChannelInv'
      <3>1. \A i \in 1 .. Len(completed) : completed[i].job # next
        BY <2>1 DEF Inv, ChannelInv
      <3> QED BY <1>1, <2>1, <3>1, EntryTyped DEF Inv, TypeOK, ChannelInv
    <2>8. DependencyOrder'
      <3> SUFFICES ASSUME NEW j \in Job, goroutine'[j] # "none", NEW d \in deps[j]
                   PROVE  status'[d] = "passed"
        BY <1>1 DEF DependencyOrder
      <3>1. status[d] = "passed"
        BY <1>1, <2>1 DEF Inv, TypeOK, DependencyOrder, DependenciesPassed
      <3> QED BY <1>1, <2>1, <3>1 DEF Inv, TypeOK
    <2>9. NoneBlocked'
      BY <1>1, <2>1 DEF Inv, TypeOK, RoundInv, NoneBlocked, Pending
    <2>10. ASSUME NEW j \in Job, j < next' PROVE ~Startable(j)'
      <3>1. CASE j = next
        BY <1>1, <2>1, <3>1 DEF Startable, Inv, TypeOK
      <3>2. CASE j < next
        <4>1. ~Startable(j)
          BY <1>1, <3>2 DEF Inv, RoundInv
        <4> QED BY <1>1, <2>1, <4>1, StillNotStartable
      <3> QED BY <1>1, <2>10, <3>1, <3>2 DEF Job
    <2>11. RoundInv'
      BY <1>1, <2>9, <2>10 DEF RoundInv
    <2> QED BY <1>3, <2>3, <2>6, <2>7, <2>8, <2>11 DEF Inv
  <1> QED BY <1>4, <1>5

\* A step that leaves the jobs alone.
LEMMA JobsUnchanged ==
  ASSUME Inv,
         UNCHANGED <<deps, need, status, allocated, running, goroutine, completed>>
  PROVE  /\ CountInv' /\ GraphInv' /\ ChannelInv' /\ DependencyOrder'
         /\ RunningJobs' = RunningJobs /\ Pending' = Pending
         /\ (NoneBlocked' <=> NoneBlocked)
         /\ \A j \in Job : Startable(j)' <=> Startable(j)
  <1>1. RunningJobs' = RunningJobs /\ Pending' = Pending
    BY DEF RunningJobs, Pending
  <1>2. CountInv'
    BY <1>1, CountUnchanged DEF Inv
  <1>3. GraphInv'
    BY DEF Inv, GraphInv, HasDependencyCycle
  <1>4. ChannelInv' /\ DependencyOrder'
    BY DEF Inv, ChannelInv, DependencyOrder
  <1>5. NoneBlocked' <=> NoneBlocked
    BY <1>1 DEF NoneBlocked
  <1>6. \A j \in Job : Startable(j)' <=> Startable(j)
    BY DEF Startable, DependenciesPassed
  <1> QED BY <1>1, <1>2, <1>3, <1>4, <1>5, <1>6

LEMMA RoundStartedStep == ASSUME Inv, RoundStarted PROVE Inv'
  <1> USE DEF RoundStarted
  <1>1. /\ CountInv' /\ GraphInv' /\ ChannelInv' /\ DependencyOrder'
        /\ (NoneBlocked' <=> NoneBlocked) /\ Pending' = Pending
        /\ \A j \in Job : Startable(j)' <=> Startable(j)
    BY JobsUnchanged
  <1>2. TypeOK'
    BY DEF Inv, TypeOK
  <1>3. \A j \in Job : j < next
    BY ConstantsAssumption DEF Inv, TypeOK, Job
  <1>4. RoundInv'
    BY <1>1, <1>3 DEF Inv, RoundInv
  <1> QED BY <1>1, <1>2, <1>4 DEF Inv

\* Nothing runs and the context was not seen cancelled: every job has its result.
\* The pending jobs, were there any, would hold one that depends on none of them;
\* its dependencies have all passed and it fits the empty budget, so the round
\* would have started it.
LEMMA NothingPending ==
  ASSUME Inv, pc = "check", running = 0
  PROVE  \A j \in Job : status[j] \notin {"pending", "running"}
  <1>1. RunningJobs = {}
    BY RunningCount DEF Inv, CountInv, RunningJobs
  <1>2. CASE seen
    BY <1>1, <1>2 DEF Inv, RoundInv, RunningJobs, Pending
  <1>3. CASE ~seen
    <2>1. NoneBlocked /\ \A j \in Job : ~Startable(j)
      BY <1>3 DEF Inv, RoundInv
    <2>2. Pending = {}
      <3> SUFFICES ASSUME Pending # {} PROVE FALSE
        OBVIOUS
      <3>1. PICK j \in Pending : deps[j] \cap Pending = {}
        BY DEF Inv, GraphInv, HasDependencyCycle, Pending
      <3>2. j \in Job /\ status[j] = "pending" /\ deps[j] \subseteq Job
        BY DEF Pending, Inv, TypeOK
      <3>3. ASSUME NEW d \in deps[j] PROVE status[d] = "passed"
        <4>1. d \in Job /\ d \notin Pending /\ d \notin RunningJobs
          BY <1>1, <3>1, <3>2
        <4>2. status[d] \in {"passed", "failed", "cancelled", "pending", "running"}
          BY <4>1 DEF Inv, TypeOK, Verdict
        <4> QED BY <2>1, <4>1, <4>2 DEF NoneBlocked, Pending, RunningJobs
      <3>4. allocated.cpu = 0 /\ allocated.mem = 0
        BY <1>1, NothingAllocated DEF Inv
      <3>5. Fits(Normalized(Budget), allocated, need[j])
        BY <3>2, <3>4 DEF Inv, GraphInv, Fits, Nothing
      <3>6. Startable(j)
        BY <3>2, <3>3, <3>5 DEF Startable, DependenciesPassed
      <3> QED BY <2>1, <3>2, <3>6
    <2> QED BY <1>1, <2>2 DEF Pending, RunningJobs
  <1> QED BY <1>2, <1>3

LEMMA RoundCheckStep == ASSUME Inv, RoundCheck PROVE Inv'
  <1> USE DEF RoundCheck
  <1>1. /\ CountInv' /\ GraphInv' /\ ChannelInv' /\ DependencyOrder'
        /\ (NoneBlocked' <=> NoneBlocked) /\ Pending' = Pending
        /\ RunningJobs' = RunningJobs
        /\ \A j \in Job : Startable(j)' <=> Startable(j)
    BY JobsUnchanged
  <1>2. TypeOK'
    BY DEF Inv, TypeOK
  <1>3. running \in Nat
    BY DEF Inv, TypeOK
  <1>4. CASE running > 0
    <2>1. RoundInv'
      BY <1>1, <1>4 DEF Inv, RoundInv
    <2> QED BY <1>1, <1>2, <2>1 DEF Inv
  <1>5. CASE running = 0
    <2>1. \A j \in Job : status[j] \notin {"pending", "running"}
      BY <1>5, NothingPending
    <2>2. pc' = "returned" /\ seen' = seen
      BY <1>5, <2>1
    <2>3. RunningJobs = {}
      BY <2>1 DEF RunningJobs
    <2>4. RoundInv'
      BY <1>1, <2>2, <2>3 DEF Inv, RoundInv
    <2> QED BY <1>1, <1>2, <2>4 DEF Inv
  <1> QED BY <1>3, <1>4, <1>5

LEMMA ReceiveStep == ASSUME Inv, Receive PROVE Inv'
  <1> USE DEF Receive
  <1> DEFINE c == Head(completed)
  <1>1. /\ pc = "receive" /\ completed # <<>>
        /\ status' = [status EXCEPT ![c.job] = c.verdict]
        /\ allocated' = [cpu |-> allocated.cpu - need[c.job].cpu,
                         mem |-> allocated.mem - need[c.job].mem]
        /\ running' = running - 1
        /\ completed' = Tail(completed)
        /\ pc' = "head"
        /\ UNCHANGED <<deps, need, cancelled, next, seen, goroutine>>
    OBVIOUS
  <1>2. /\ Len(completed) > 0 /\ c = completed[1] /\ 1 \in 1 .. Len(completed)
        /\ Len(completed') = Len(completed) - 1
        /\ \A i \in 1 .. Len(completed') :
             i + 1 \in 1 .. Len(completed) /\ completed'[i] = completed[i + 1]
        /\ completed' \in Seq([job : Job, verdict : Verdict])
    BY <1>1 DEF Inv, TypeOK
  <1> HIDE DEF c
  <1>3. c.job \in Job /\ c.verdict \in Verdict /\ status[c.job] = "running"
    BY <1>2, EntryTyped DEF Inv, ChannelInv
  <1>4. /\ status' \in [Job -> Verdict \cup {"pending", "running"}]
        /\ status'[c.job] = c.verdict
        /\ \A j \in Job : j # c.job => status'[j] = status[j]
    BY <1>1, <1>3 DEF Inv, TypeOK
  <1>5. RunningJobs' = RunningJobs \ {c.job} /\ c.job \in RunningJobs
    BY <1>3, <1>4 DEF RunningJobs, Verdict
  <1>6. CountInv'
    <2>1. /\ CPUs' = CPUs /\ Mems' = Mems
          /\ allocated'.cpu = allocated.cpu - CPUs[c.job]
          /\ allocated'.mem = allocated.mem - Mems[c.job]
      BY <1>1, <1>3 DEF CPUs, Mems
    <2>2. /\ CPUs \in [Job -> Nat] /\ Mems \in [Job -> Nat]
          /\ RunningJobs \in SUBSET Job
      BY WeightsTyped DEF Inv
    <2>3. /\ Tally(RunningJobs \ {c.job}, CPUs, allocated.cpu - CPUs[c.job])
          /\ Tally(RunningJobs \ {c.job}, Mems, allocated.mem - Mems[c.job])
      BY <1>5, <2>2, TallyRemove DEF Inv, CountInv
    <2>4. running' = Cardinality(RunningJobs \ {c.job})
      BY <1>1, <1>5, <2>2, RunningCount, FS_RemoveElement DEF Inv, CountInv
    <2> QED BY <1>5, <2>1, <2>3, <2>4 DEF CountInv
  <1>7. allocated' \in [cpu : Int, mem : Int]
    <2>1. need[c.job] \in Resources /\ allocated \in Resources
      BY <1>3 DEF Inv, TypeOK
    <2>2. /\ need[c.job].cpu \in Nat /\ need[c.job].mem \in Nat
          /\ allocated.cpu \in Nat /\ allocated.mem \in Nat
      BY <2>1 DEF Resources
    <2> QED BY <1>1, <2>2
  <1>8. running' \in 0 .. N /\ allocated' \in Resources
    BY <1>5, <1>6, <1>7, WeightsTyped, CountersTyped DEF Inv, CountInv
  <1>9. TypeOK'
    BY <1>1, <1>2, <1>4, <1>8 DEF Inv, TypeOK
  <1>10. GraphInv'
    BY <1>1 DEF Inv, GraphInv, HasDependencyCycle
  <1>11. ChannelInv'
    <2>1. ASSUME NEW j \in Job, goroutine'[j] \in Verdict \cup {"running"}
          PROVE  status'[j] = "running"
      <3>1. status[j] = "running" /\ j # c.job
        BY <1>1, <1>2, <2>1 DEF Inv, ChannelInv, Verdict
      <3> QED BY <1>4, <3>1
    <2>2. ASSUME NEW i \in 1 .. Len(completed')
          PROVE  status'[completed'[i].job] = "running" /\ goroutine'[completed'[i].job] = "gone"
      <3>1. /\ i + 1 \in 1 .. Len(completed) /\ completed'[i] = completed[i + 1]
            /\ i + 1 # 1
        BY <1>2
      <3>2. completed[i + 1].job # c.job
        BY <1>2, <3>1 DEF Inv, ChannelInv
      <3>3. /\ completed[i + 1].job \in Job
            /\ status[completed[i + 1].job] = "running"
            /\ goroutine[completed[i + 1].job] = "gone"
        BY <3>1, EntryTyped DEF Inv, ChannelInv
      <3> QED BY <1>1, <1>4, <3>1, <3>2, <3>3
    <2>3. ASSUME NEW i \in 1 .. Len(completed'), NEW k \in 1 .. Len(completed'),
                 completed'[i].job = completed'[k].job
          PROVE  i = k
      <3>1. /\ i + 1 \in 1 .. Len(completed) /\ completed'[i] = completed[i + 1]
            /\ k + 1 \in 1 .. Len(completed) /\ completed'[k] = completed[k + 1]
        BY <1>2
      <3>2. i + 1 = k + 1
        BY <2>3, <3>1 DEF Inv, ChannelInv
      <3> QED BY <3>2
    <2> QED BY <2>1, <2>2, <2>3 DEF ChannelInv
  <1>12. DependencyOrder'
    <2>1. \A d \in Job : status[d] = "passed" => status'[d] = "passed"
      BY <1>3, <1>4
    <2> QED BY <1>1, <2>1 DEF Inv, TypeOK, DependencyOrder
  <1>13. RoundInv'
    <2>1. Pending' \subseteq Pending
      BY <1>3, <1>4 DEF Pending, Verdict
    <2> QED BY <1>1, <2>1 DEF Inv, RoundInv
  <1> QED BY <1>6, <1>9, <1>10, <1>11, <1>12, <1>13 DEF Inv

-----------------------------------------------------------------------------
(* The goroutines and the context. *)

\* The round does not look at the goroutines, the channel or the context.
LEMMA RoundUnchanged ==
  ASSUME Inv, UNCHANGED <<deps, need, status, allocated, running, loop>>
  PROVE  CountInv' /\ GraphInv' /\ RoundInv'
  <1>1. RunningJobs' = RunningJobs /\ Pending' = Pending
    BY DEF RunningJobs, Pending
  <1>2. CountInv'
    BY <1>1, CountUnchanged DEF Inv
  <1>3. GraphInv'
    BY DEF Inv, GraphInv, HasDependencyCycle
  <1>4. NoneBlocked' <=> NoneBlocked
    BY <1>1 DEF NoneBlocked
  <1>5. \A j \in Job : Startable(j)' <=> Startable(j)
    BY DEF Startable, DependenciesPassed
  <1>6. RoundInv'
    BY <1>1, <1>4, <1>5 DEF Inv, RoundInv, loop
  <1> QED BY <1>2, <1>3, <1>6

LEMMA JobReturnsStep == ASSUME Inv, NEW j \in Job, JobReturns(j) PROVE Inv'
  <1>1. PICK v \in Verdict : goroutine' = [goroutine EXCEPT ![j] = v]
    BY DEF JobReturns, Verdict
  <1>2. /\ goroutine[j] = "running"
        /\ UNCHANGED <<deps, need, status, allocated, running, cancelled, loop, completed>>
    BY DEF JobReturns
  <1>3. CountInv' /\ GraphInv' /\ RoundInv'
    BY <1>2, RoundUnchanged
  <1>4. TypeOK'
    BY <1>1, <1>2 DEF Inv, TypeOK, loop
  <1>5. ChannelInv'
    <2>1. \A i \in 1 .. Len(completed) : completed[i].job # j
      BY <1>2 DEF Inv, ChannelInv
    <2> QED BY <1>1, <1>2, <2>1, EntryTyped DEF Inv, TypeOK, ChannelInv
  <1>6. DependencyOrder'
    BY <1>1, <1>2 DEF Inv, TypeOK, DependencyOrder
  <1> QED BY <1>3, <1>4, <1>5, <1>6 DEF Inv

LEMMA JobSendsStep == ASSUME Inv, NEW j \in Job, JobSends(j) PROVE Inv'
  <1> DEFINE e == [job |-> j, verdict |-> goroutine[j]]
  <1>1. /\ goroutine[j] \in Verdict
        /\ completed' = Append(completed, e)
        /\ goroutine' = [goroutine EXCEPT ![j] = "gone"]
        /\ UNCHANGED <<deps, need, status, allocated, running, cancelled, loop>>
    BY DEF JobSends
  <1>2. e \in [job : Job, verdict : Verdict] /\ e.job = j
    BY <1>1
  <1> HIDE DEF e
  <1>3. CountInv' /\ GraphInv' /\ RoundInv'
    BY <1>1, RoundUnchanged
  <1>4. /\ completed' \in Seq([job : Job, verdict : Verdict])
        /\ Len(completed) \in Nat /\ Len(completed') = Len(completed) + 1
        /\ completed'[Len(completed) + 1] = e
        /\ \A i \in 1 .. Len(completed) : completed'[i] = completed[i]
    BY <1>1, <1>2 DEF Inv, TypeOK
  <1>5. TypeOK'
    BY <1>1, <1>4 DEF Inv, TypeOK, loop
  <1>6. \A i \in 1 .. Len(completed) : completed[i].job # j
    BY <1>1 DEF Inv, ChannelInv, Verdict
  <1>7. ChannelInv'
    <2>1. ASSUME NEW i \in Job, goroutine'[i] \in Verdict \cup {"running"}
          PROVE  status'[i] = "running"
      BY <1>1, <2>1 DEF Inv, TypeOK, ChannelInv, Verdict
    <2>2. ASSUME NEW i \in 1 .. Len(completed')
          PROVE  status'[completed'[i].job] = "running" /\ goroutine'[completed'[i].job] = "gone"
      <3>1. CASE i \in 1 .. Len(completed)
        BY <1>1, <1>4, <1>6, <3>1, EntryTyped DEF Inv, TypeOK, ChannelInv
      <3>2. CASE i = Len(completed) + 1
        BY <1>1, <1>2, <1>4, <3>2 DEF Inv, TypeOK, ChannelInv
      <3> QED BY <1>4, <3>1, <3>2
    <2>3. ASSUME NEW i \in 1 .. Len(completed'), NEW k \in 1 .. Len(completed'),
                 completed'[i].job = completed'[k].job
          PROVE  i = k
      <3>1. \/ i \in 1 .. Len(completed) /\ k \in 1 .. Len(completed)
            \/ i = Len(completed) + 1 /\ k \in 1 .. Len(completed)
            \/ i \in 1 .. Len(completed) /\ k = Len(completed) + 1
            \/ i = Len(completed) + 1 /\ k = Len(completed) + 1
        BY <1>4
      <3> QED BY <1>2, <1>4, <1>6, <2>3, <3>1 DEF Inv, ChannelInv
    <2> QED BY <2>1, <2>2, <2>3 DEF ChannelInv
  <1>8. DependencyOrder'
    BY <1>1 DEF Inv, TypeOK, DependencyOrder, Verdict
  <1> QED BY <1>3, <1>5, <1>7, <1>8 DEF Inv

LEMMA CancelContextStep == ASSUME Inv, CancelContext PROVE Inv'
  <1> USE DEF CancelContext
  <1>1. CountInv' /\ GraphInv' /\ RoundInv'
    BY RoundUnchanged
  <1>2. ChannelInv' /\ DependencyOrder'
    BY DEF Inv, ChannelInv, DependencyOrder
  <1>3. cancelled' \in BOOLEAN
    OBVIOUS
  <1>4. TypeOK'
    BY <1>3 DEF Inv, TypeOK, loop
  <1> QED BY <1>1, <1>2, <1>4 DEF Inv

LEMMA Stutter == ASSUME Inv, UNCHANGED vars PROVE Inv'
  <1> USE DEF vars, loop
  <1>1. CountInv' /\ GraphInv' /\ RoundInv'
    BY RoundUnchanged
  <1>2. ChannelInv' /\ DependencyOrder'
    BY DEF Inv, ChannelInv, DependencyOrder
  <1>3. TypeOK'
    BY DEF Inv, TypeOK
  <1> QED BY <1>1, <1>2, <1>3 DEF Inv

LEMMA NextInv == Inv /\ [Next]_vars => Inv'
  <1> SUFFICES ASSUME Inv, [Next]_vars PROVE Inv'
    OBVIOUS
  <1>1. CASE Loop
    BY <1>1, RoundHeadStep, StartJobStep, RoundStartedStep, RoundCheckStep, ReceiveStep
       DEF Loop
  <1>2. CASE \E j \in Job : Goroutine(j)
    BY <1>2, JobReturnsStep, JobSendsStep DEF Goroutine
  <1>3. CASE CancelContext
    BY <1>3, CancelContextStep
  <1>4. CASE Returned \/ UNCHANGED vars
    BY <1>4, Stutter DEF Returned
  <1> QED BY <1>1, <1>2, <1>3, <1>4 DEF Next

LEMMA Invariance == Spec => []Inv
  BY InitInv, NextInv, PTL DEF Spec

-----------------------------------------------------------------------------
(* The theorems. *)

\* Every variable keeps its type: the loop's counters never go below zero and
\* never count more jobs than there are, however completions and starts
\* interleave.
THEOREM SchedulerTyped == Spec => []TypeOK
  <1>1. Inv => TypeOK
    BY DEF Inv
  <1> QED BY <1>1, Invariance, PTL

\* Run never executes a job before everything it depends on has passed, and no
\* result it was started on changes any more.
THEOREM OrderIsKept == Spec => []DependencyOrder
  <1>1. Inv => DependencyOrder
    BY DEF Inv
  <1> QED BY <1>1, Invariance, PTL

\* The error return of Run is dead code: for every graph validate accepts, when
\* nothing runs every job has its result.
THEOREM RunNeverGivesUp == Spec => []NeverStuck
  <1>1. Inv => NeverStuck
    BY DEF Inv, RoundInv, NeverStuck
  <1> QED BY <1>1, Invariance, PTL

\* When Run returns, no goroutine it started is still at work and no completion
\* is left in the channel.
THEOREM ReturnsClean == Spec => []NothingLeftBehind
  <1>1. Inv => NothingLeftBehind
    <2> SUFFICES ASSUME Inv, pc = "returned", NEW j \in Job
                 PROVE  goroutine[j] \in {"none", "gone"} /\ completed = <<>>
      BY DEF NothingLeftBehind
    <2>1. \A i \in Job : status[i] # "running"
      BY DEF Inv, RoundInv, RunningJobs
    <2>2. goroutine[j] \in {"none", "gone"}
      BY <2>1 DEF Inv, TypeOK, ChannelInv, Verdict
    <2>3. Len(completed) = 0
      <3> SUFFICES ASSUME Len(completed) # 0 PROVE FALSE
        OBVIOUS
      <3>1. 1 \in 1 .. Len(completed)
        BY DEF Inv, TypeOK
      <3> QED BY <2>1, <3>1, EntryTyped DEF Inv, ChannelInv
    <2> QED BY <2>2, <2>3 DEF Inv, TypeOK
  <1> QED BY <1>1, Invariance, PTL

\* While the loop waits for a completion, every job that could run does.
THEOREM NoCapacityWasted == Spec => []WorkConserving
  <1>1. Inv => WorkConserving
    BY DEF Inv, RoundInv, WorkConserving
  <1> QED BY <1>1, Invariance, PTL

-----------------------------------------------------------------------------
(* The fold of WithinBudget is the tally of the jobs it is taken over.      *)

\* Of the sets of jobs in a non-empty collection, one has no proper subset in it.
LEMMA SmallestSet ==
  ASSUME NEW C \in SUBSET SUBSET Job, C # {}
  PROVE  \E S \in C : \A T \in C : ~(T \subseteq S /\ T # S)
  <1>1. IsWellFoundedOn(StrictSubsetOrdering(Job), SUBSET Job)
    BY JobsAreFinite, FS_StrictSubsetOrderingWellFounded, FS_FiniteSubsetsOfFinite
  <1>2. PICK S \in C : \A T \in C : ~(<<T, S>> \in StrictSubsetOrdering(Job))
    BY <1>1, WFMin
  <1>3. ASSUME NEW T \in C, T \subseteq S, T # S
        PROVE  FALSE
    <2>1. <<T, S>> \in (SUBSET Job) \X (SUBSET Job)
      OBVIOUS
    <2> QED BY <1>2, <1>3, <2>1 DEF StrictSubsetOrdering
  <1> QED BY <1>3

\* Every set of jobs has a tally.
LEMMA TallyExists ==
  ASSUME NEW R \in SUBSET Job, NEW w \in [Job -> Nat]
  PROVE  \E t : Tally(R, w, t)
  <1> DEFINE C == {S \in SUBSET Job : ~\E t : Tally(S, w, t)}
  <1>1. SUFFICES ASSUME C # {} PROVE FALSE
    OBVIOUS
  <1>2. PICK S \in C : \A T \in C : ~(T \subseteq S /\ T # S)
    <2>1. C \in SUBSET SUBSET Job /\ C # {}
      BY <1>1
    <2> HIDE DEF C
    <2> QED BY <2>1, SmallestSet
  <1>3. CASE S = {}
    BY <1>3, NoneTally
  <1>4. CASE S # {}
    <2>1. PICK j \in S : TRUE
      BY <1>4
    <2>2. S \ {j} \notin C /\ S \ {j} \in SUBSET Job /\ j \in Job /\ (S \ {j}) \cup {j} = S
      BY <1>2, <2>1
    <2>3. PICK t : Tally(S \ {j}, w, t)
      BY <2>2
    <2>4. Tally((S \ {j}) \cup {j}, w, t + w[j])
      BY <2>2, <2>3, TallyAdd
    <2> QED BY <2>2, <2>4
  <1> QED BY <1>3, <1>4

\* No set of jobs has two.
LEMMA TallyUnique ==
  ASSUME NEW R \in SUBSET Job, NEW w \in [Job -> Nat], NEW t, NEW u,
         Tally(R, w, t), Tally(R, w, u)
  PROVE  t = u
  <1> DEFINE C == {S \in SUBSET Job :
                     \E a, b \in Nat : a # b /\ Tally(S, w, a) /\ Tally(S, w, b)}
  <1>1. SUFFICES ASSUME C # {} PROVE FALSE
    BY TallyType
  <1>2. PICK S \in C : \A T \in C : ~(T \subseteq S /\ T # S)
    <2>1. C \in SUBSET SUBSET Job /\ C # {}
      BY <1>1
    <2> HIDE DEF C
    <2> QED BY <2>1, SmallestSet
  <1>3. PICK a \in Nat, b \in Nat : a # b /\ Tally(S, w, a) /\ Tally(S, w, b)
    BY <1>2
  <1>4. CASE S = {}
    BY <1>3, <1>4, TallyOfNone
  <1>5. CASE S # {}
    <2>1. PICK j \in S : TRUE
      BY <1>5
    <2>2. S \in SUBSET Job /\ w[j] \in Nat
      BY <2>1
    <2>3. Tally(S \ {j}, w, a - w[j]) /\ Tally(S \ {j}, w, b - w[j])
      BY <1>3, <2>1, <2>2, TallyRemove
    <2>4. a - w[j] \in Nat /\ b - w[j] \in Nat
      BY <2>3, TallyType
    <2>5. S \ {j} \in C
      BY <1>3, <2>2, <2>3, <2>4
    <2> QED BY <1>2, <2>1, <2>5
  <1> QED BY <1>4, <1>5

\* Some of the jobs weigh no more than all of them.
LEMMA TallyOfFewer ==
  ASSUME NEW R \in SUBSET Job, NEW Q \in SUBSET R, NEW w \in [Job -> Nat],
         NEW t, NEW u, Tally(R, w, t), Tally(Q, w, u)
  PROVE  u <= t
  <1> DEFINE C == {D \in SUBSET Job :
                     D \subseteq R /\ \E a \in Nat : Tally(R \ D, w, a) /\ ~(a <= t)}
  <1>1. SUFFICES ASSUME ~(u <= t) PROVE FALSE
    OBVIOUS
  <1>2. R \ Q \in C
    <2>1. R \ (R \ Q) = Q /\ u \in Nat
      BY TallyType
    <2> QED BY <1>1, <2>1
  <1>3. PICK D \in C : \A T \in C : ~(T \subseteq D /\ T # D)
    <2>1. C \in SUBSET SUBSET Job /\ C # {}
      BY <1>2
    <2> HIDE DEF C
    <2> QED BY <2>1, SmallestSet
  <1>4. PICK a \in Nat : Tally(R \ D, w, a) /\ ~(a <= t)
    BY <1>3
  <1>5. CASE D = {}
    <2>1. R \ D = R /\ t \in Nat
      BY <1>5, TallyType
    <2>2. a = t
      BY <1>4, <2>1, TallyUnique
    <2> QED BY <1>4, <2>1, <2>2
  <1>6. CASE D # {}
    <2>1. PICK j \in D : TRUE
      BY <1>6
    <2>2. /\ j \in Job /\ R \ D \in SUBSET Job /\ j \notin R \ D /\ w[j] \in Nat
          /\ (R \ D) \cup {j} = R \ (D \ {j})
      BY <1>3, <2>1
    <2>3. Tally(R \ (D \ {j}), w, a + w[j])
      BY <1>4, <2>2, TallyAdd
    <2>4. t \in Nat
      BY TallyType
    <2>5. D \ {j} \in C
      BY <1>3, <1>4, <2>2, <2>3, <2>4
    <2> QED BY <1>3, <2>1, <2>5
  <1> QED BY <1>5, <1>6

\* The function f sums w along the elements CHOOSE picks.
Sums(f, R, w) ==
  f = [s \in SUBSET R |->
         IF s = {} THEN 0
         ELSE w[CHOOSE x \in s : TRUE] + f[s \ {CHOOSE x \in s : TRUE}]]

\* There is such a function: the tallies.
LEMMA SumsExist ==
  ASSUME NEW R \in SUBSET Job, NEW w \in [Job -> Nat]
  PROVE  \E f : Sums(f, R, w)
  <1> DEFINE f == [s \in SUBSET R |-> CHOOSE t : Tally(s, w, t)]
  <1>1. ASSUME NEW s \in SUBSET R
        PROVE  Tally(s, w, f[s])
    BY TallyExists
  <1>2. ASSUME NEW s \in SUBSET R
        PROVE  f[s] = IF s = {} THEN 0
                      ELSE w[CHOOSE x \in s : TRUE] + f[s \ {CHOOSE x \in s : TRUE}]
    <2>1. CASE s = {}
      BY <1>1, <2>1, TallyOfNone
    <2>2. CASE s # {}
      <3> DEFINE x == CHOOSE x \in s : TRUE
      <3>1. x \in s
        BY <2>2
      <3> HIDE DEF x
      <3>2. s \ {x} \in SUBSET R /\ s \in SUBSET Job /\ w[x] \in Nat
        BY <3>1
      <3>3. Tally(s, w, f[s]) /\ Tally(s \ {x}, w, f[s \ {x}])
        BY <1>1, <3>2
      <3> HIDE DEF f
      <3>4. Tally(s \ {x}, w, f[s] - w[x])
        BY <3>1, <3>2, <3>3, TallyRemove
      <3>5. f[s] \in Nat /\ f[s \ {x}] \in Nat /\ f[s \ {x}] = f[s] - w[x]
        BY <3>2, <3>3, <3>4, TallyType, TallyUnique
      <3>6. f[s] = w[x] + f[s \ {x}]
        BY <3>2, <3>5
      <3> QED BY <2>2, <3>6 DEF x
    <2> QED BY <2>1, <2>2
  <1>3. f = [s \in SUBSET R |-> f[s]]
    OBVIOUS
  <1> HIDE DEF f
  <1>4. Sums(f, R, w)
    BY <1>2, <1>3 DEF Sums
  <1> QED BY <1>4

\* Whatever function that is, it computes the tally.
LEMMA SumIsTally ==
  ASSUME NEW R \in SUBSET Job, NEW w \in [Job -> Nat], NEW f, Sums(f, R, w)
  PROVE  Tally(R, w, f[R])
  <1> DEFINE C == {S \in SUBSET Job : S \subseteq R /\ ~Tally(S, w, f[S])}
  <1>1. SUFFICES ASSUME C # {} PROVE FALSE
    OBVIOUS
  <1>2. PICK S \in C : \A T \in C : ~(T \subseteq S /\ T # S)
    <2>1. C \in SUBSET SUBSET Job /\ C # {}
      BY <1>1
    <2> HIDE DEF C
    <2> QED BY <2>1, SmallestSet
  <1>3. CASE S = {}
    <2>1. f[S] = 0
      BY <1>3 DEF Sums
    <2> QED BY <1>2, <1>3, <2>1, NoneTally
  <1>4. CASE S # {}
    <2> DEFINE x == CHOOSE x \in S : TRUE
    <2>1. x \in S
      BY <1>4
    <2>2. f[S] = w[x] + f[S \ {x}]
      BY <1>2, <1>4 DEF Sums
    <2> HIDE DEF x
    <2>3. x \in Job /\ S \ {x} \in SUBSET Job /\ (S \ {x}) \cup {x} = S /\ w[x] \in Nat
      BY <1>2, <2>1
    <2>4. Tally(S \ {x}, w, f[S \ {x}])
      BY <1>2, <2>1, <2>3
    <2>5. Tally((S \ {x}) \cup {x}, w, f[S \ {x}] + w[x])
      BY <2>3, <2>4, TallyAdd
    <2>6. f[S] = f[S \ {x}] + w[x]
      BY <2>2, <2>3, <2>4, TallyType
    <2> QED BY <1>2, <2>3, <2>5, <2>6
  <1> QED BY <1>3, <1>4

\* So the folds of WithinBudget are tallies.
LEMMA FoldIsTally ==
  ASSUME TypeOK, NEW R \in SUBSET Job
  PROVE  /\ Tally(R, CPUs, MapThenSumSet(CPU, R))
         /\ Tally(R, Mems, MapThenSumSet(Mem, R))
  <1>1. CPUs \in [Job -> Nat] /\ Mems \in [Job -> Nat]
    BY WeightsTyped
  <1> DEFINE Pick(s) == CHOOSE x \in s : TRUE
  <1>2. \A s \in SUBSET R : s # {} => Pick(s) \in Job
    OBVIOUS
  <1>3. Tally(R, CPUs, MapThenSumSet(CPU, R))
    <2> DEFINE Iterates(f) ==
                 f = [s \in SUBSET R |->
                        IF s = {} THEN 0 ELSE need[Pick(s)].cpu + f[s \ {Pick(s)}]]
               f == CHOOSE f : Iterates(f)
    <2>1. MapThenSumSet(CPU, R) = f[R]
      BY DEF MapThenSumSet, MapThenFoldSet, CPU
    <2>2. ASSUME NEW h PROVE Iterates(h) <=> Sums(h, R, CPUs)
      <3>1. \A s \in SUBSET R : s # {} => need[Pick(s)].cpu = CPUs[Pick(s)]
        BY <1>2 DEF CPUs
      <3> QED BY <3>1 DEF Sums
    <2>3. Iterates(f)
      <3> HIDE DEF Iterates
      <3>1. \E h : Iterates(h)
        BY <1>1, <2>2, SumsExist
      <3> QED BY <3>1
    <2>4. Sums(f, R, CPUs)
      <3> HIDE DEF f, Iterates
      <3> QED BY <2>2, <2>3
    <2> HIDE DEF f
    <2> QED BY <1>1, <2>1, <2>4, SumIsTally
  <1>4. Tally(R, Mems, MapThenSumSet(Mem, R))
    <2> DEFINE Iterates(f) ==
                 f = [s \in SUBSET R |->
                        IF s = {} THEN 0 ELSE need[Pick(s)].mem + f[s \ {Pick(s)}]]
               f == CHOOSE f : Iterates(f)
    <2>1. MapThenSumSet(Mem, R) = f[R]
      BY DEF MapThenSumSet, MapThenFoldSet, Mem
    <2>2. ASSUME NEW h PROVE Iterates(h) <=> Sums(h, R, Mems)
      <3>1. \A s \in SUBSET R : s # {} => need[Pick(s)].mem = Mems[Pick(s)]
        BY <1>2 DEF Mems
      <3> QED BY <3>1 DEF Sums
    <2>3. Iterates(f)
      <3> HIDE DEF Iterates
      <3>1. \E h : Iterates(h)
        BY <1>1, <2>2, SumsExist
      <3> QED BY <3>1
    <2>4. Sums(f, R, Mems)
      <3> HIDE DEF f, Iterates
      <3> QED BY <2>2, <2>3
    <2> HIDE DEF f
    <2> QED BY <1>1, <2>1, <2>4, SumIsTally
  <1> QED BY <1>3, <1>4

-----------------------------------------------------------------------------
(* The budget. *)

\* The loop never counts more as taken than there is.
Affordable ==
  allocated.cpu <= Normalized(Budget).cpu /\ allocated.mem <= Normalized(Budget).mem

LEMMA BudgetTyped == Normalized(Budget).cpu \in Nat /\ Normalized(Budget).mem \in Nat
  BY ConstantsAssumption DEF Normalized, Resources

LEMMA AffordableStep == Inv /\ Affordable /\ [Next]_vars => Affordable'
  <1> SUFFICES ASSUME Inv, Affordable, [Next]_vars PROVE Affordable'
    OBVIOUS
  <1>1. /\ allocated.cpu \in Nat /\ allocated.mem \in Nat
        /\ \A j \in Job : need[j].cpu \in Nat /\ need[j].mem \in Nat
    BY DEF Inv, TypeOK, Resources
  <1>2. CASE StartJob
    <2>1. next \in Job
      BY <1>2, ConstantsAssumption DEF StartJob, Inv, TypeOK, Job
    <2>2. CASE Startable(next)
      <3>1. /\ need[next].cpu + allocated.cpu <= Normalized(Budget).cpu
            /\ need[next].mem + allocated.mem <= Normalized(Budget).mem
        BY <2>2 DEF Startable, Fits
      <3>2. /\ allocated'.cpu = allocated.cpu + need[next].cpu
            /\ allocated'.mem = allocated.mem + need[next].mem
        BY <1>2, <2>2 DEF StartJob
      <3> QED BY <1>1, <2>1, <3>1, <3>2 DEF Affordable
    <2>3. CASE ~Startable(next)
      BY <1>2, <2>3 DEF StartJob, Affordable
    <2> QED BY <2>2, <2>3
  <1>3. CASE Receive
    <2>1. 1 \in 1 .. Len(completed) /\ Head(completed) = completed[1]
      BY <1>3 DEF Receive, Inv, TypeOK
    <2>2. Head(completed).job \in Job
      BY <2>1, EntryTyped DEF Inv
    <2>3. /\ allocated'.cpu = allocated.cpu - need[Head(completed).job].cpu
          /\ allocated'.mem = allocated.mem - need[Head(completed).job].mem
      BY <1>3 DEF Receive
    <2> QED BY <1>1, <2>2, <2>3, BudgetTyped DEF Affordable
  <1>4. CASE UNCHANGED allocated
    BY <1>4 DEF Affordable
  <1> QED BY <1>2, <1>3, <1>4
          DEF Next, Loop, Goroutine, RoundHead, RoundStarted, RoundCheck,
              JobReturns, JobSends, CancelContext, Returned, vars

\* The jobs that execute never need more than the budget: the loop counts every
\* one of them until its completion is received, gives back exactly what it took,
\* and never takes more than there is.
THEOREM BudgetIsKept == Spec => []WithinBudget
  <1>1. Init => Affordable
    BY BudgetTyped DEF Init, Nothing, Affordable
  <1>2. Inv /\ Affordable => WithinBudget
    <2> SUFFICES ASSUME Inv, Affordable PROVE WithinBudget
      OBVIOUS
    <2>1. Busy \subseteq RunningJobs /\ Busy \in SUBSET Job /\ RunningJobs \in SUBSET Job
      BY DEF Inv, ChannelInv, Busy, RunningJobs
    <2>2. CPUs \in [Job -> Nat] /\ Mems \in [Job -> Nat]
      BY WeightsTyped DEF Inv
    <2>3. /\ Tally(Busy, CPUs, MapThenSumSet(CPU, Busy))
          /\ Tally(Busy, Mems, MapThenSumSet(Mem, Busy))
      BY <2>1, FoldIsTally DEF Inv
    <2>4. /\ MapThenSumSet(CPU, Busy) <= allocated.cpu
          /\ MapThenSumSet(Mem, Busy) <= allocated.mem
      BY <2>1, <2>2, <2>3, TallyOfFewer DEF Inv, CountInv
    <2>5. /\ MapThenSumSet(CPU, Busy) \in Nat /\ allocated.cpu \in Nat
          /\ MapThenSumSet(Mem, Busy) \in Nat /\ allocated.mem \in Nat
      BY <2>3, TallyType DEF Inv, TypeOK, Resources
    <2> QED BY <2>4, <2>5, BudgetTyped DEF Affordable, WithinBudget
  <1> QED BY <1>1, <1>2, AffordableStep, Invariance, PTL DEF Spec
=============================================================================
