--------------------------- MODULE AuditScheduler ---------------------------
(***************************************************************************)
(* The scheduler of `govard audit`: one loop that starts jobs as their     *)
(* dependencies pass and the budget allows, one goroutine per job, and a   *)
(* channel on which they report.  The context may be cancelled at any      *)
(* moment; a goroutine looks at it after its job returned, the loop at the *)
(* head of every round.                                                    *)
(***************************************************************************)
EXTENDS Integers, Sequences, FiniteSets, FiniteSetsExt

CONSTANTS
  N,         \* the number of jobs
  Budget,    \* the resources the scheduler was created with
  Requests   \* the resources a job may declare

Job == 1 .. N

Resources == [cpu : Nat, mem : Nat]

ASSUME ConstantsAssumption ==
  /\ N \in Nat
  /\ Budget \in Resources
  /\ Requests \subseteq Resources

VARIABLES
  deps,       \* DependsOn of each job
  need,       \* the normalised resources of each job
  status,     \* results[j].Status
  allocated,  \* the resources the loop counts as taken
  running,    \* the number of jobs the loop counts as running
  cancelled,  \* is the context cancelled?
  seen,       \* contextCancelled: has the loop noticed?
  pc,         \* where the loop is
  next,       \* the index of its inner loop
  goroutine,  \* the state of each job's goroutine
  completed   \* the channel: completions in the order they were sent

loop == <<pc, next, seen>>
vars == <<deps, need, status, allocated, running, cancelled, loop, goroutine, completed>>

Verdict == {"passed", "failed", "cancelled"}

-----------------------------------------------------------------------------
(* Resources and the job graph. *)

\* normalizedResources: a job that declares nothing takes one of each.
Normalized(r) == [cpu |-> IF r.cpu = 0 THEN 1 ELSE r.cpu,
                  mem |-> IF r.mem = 0 THEN 1 ELSE r.mem]

Fits(total, taken, r) == r.cpu + taken.cpu <= total.cpu /\ r.mem + taken.mem <= total.mem

Nothing == [cpu |-> 0, mem |-> 0]

\* hasDependencyCycle, by what it answers: some jobs each depend on one of them.
HasDependencyCycle(d) ==
  \E S \in SUBSET Job : S # {} /\ \A j \in S : d[j] \cap S # {}

\* Mutant: a graph with a cycle is let through.
ValidateNoCycle(d, req) ==
  \A j \in Job : Fits(Normalized(Budget), Nothing, Normalized(req[j]))

\* validate
Validate(d, req) ==
  /\ \A j \in Job : Fits(Normalized(Budget), Nothing, Normalized(req[j]))
  /\ ~HasDependencyCycle(d)

-----------------------------------------------------------------------------
(* The loop of Run. *)

Pending == {j \in Job : status[j] = "pending"}

\* markBlockedJobsCancelled, which repeats until nothing changes: the least set
\* of pending jobs that holds every one with a dependency that failed, was
\* cancelled, or is in the set.
ClosedUnderBlocking(S) ==
  \A j \in Pending :
    (\E d \in deps[j] : status[d] \in {"failed", "cancelled"} \/ d \in S) => j \in S

Blocked == {j \in Pending : \A S \in SUBSET Pending : ClosedUnderBlocking(S) => j \in S}

CancelJobs(S) == status' = [j \in Job |-> IF j \in S THEN "cancelled" ELSE status[j]]

\* The head of a round: a cancelled context cancels what is pending, once.
\* Otherwise what can never run any more is cancelled.
RoundHead ==
  /\ pc = "head"
  /\ IF seen \/ cancelled
       THEN /\ CancelJobs(IF seen THEN {} ELSE Pending)
            /\ seen' = TRUE
            /\ pc' = "check"
            /\ UNCHANGED next
       ELSE /\ CancelJobs(Blocked)
            /\ pc' = "start"
            /\ next' = 1
            /\ UNCHANGED seen
  /\ UNCHANGED <<deps, need, allocated, running, cancelled, goroutine, completed>>

DependenciesPassed(j) == \A d \in deps[j] : status[d] = "passed"

\* Mutant: only the CPU is looked at.
StartableByCPU(j) ==
  /\ status[j] = "pending"
  /\ DependenciesPassed(j)
  /\ need[j].cpu + allocated.cpu <= Normalized(Budget).cpu

Startable(j) ==
  /\ status[j] = "pending"
  /\ DependenciesPassed(j)
  /\ Fits(Normalized(Budget), allocated, need[j])

\* Mutant: the round ends at the first job that does not fit.
StartJobInOrder ==
  /\ pc = "start" /\ next <= N
  /\ IF Startable(next)
       THEN /\ status' = [status EXCEPT ![next] = "running"]
            /\ allocated' = [cpu |-> allocated.cpu + need[next].cpu,
                             mem |-> allocated.mem + need[next].mem]
            /\ running' = running + 1
            /\ goroutine' = [goroutine EXCEPT ![next] = "running"]
            /\ next' = next + 1
       ELSE /\ next' = IF status[next] = "pending" /\ DependenciesPassed(next)
                          THEN N + 1 ELSE next + 1
            /\ UNCHANGED <<status, allocated, running, goroutine>>
  /\ UNCHANGED <<deps, need, cancelled, pc, seen, completed>>

\* One iteration of the inner loop; start is called for a job that may run.
StartJob ==
  /\ pc = "start" /\ next <= N
  /\ IF Startable(next)
       THEN /\ status' = [status EXCEPT ![next] = "running"]
            /\ allocated' = [cpu |-> allocated.cpu + need[next].cpu,
                             mem |-> allocated.mem + need[next].mem]
            /\ running' = running + 1
            /\ goroutine' = [goroutine EXCEPT ![next] = "running"]
       ELSE UNCHANGED <<status, allocated, running, goroutine>>
  /\ next' = next + 1
  /\ UNCHANGED <<deps, need, cancelled, pc, seen, completed>>

RoundStarted ==
  /\ pc = "start" /\ next > N
  /\ pc' = "check"
  /\ UNCHANGED <<deps, need, status, allocated, running, cancelled, next, seen,
                 goroutine, completed>>

\* Mutant: the loop is left as soon as the context is cancelled.
RoundCheckEager ==
  /\ pc = "check"
  /\ pc' = IF running = 0 \/ seen THEN "returned" ELSE "receive"
  /\ UNCHANGED <<deps, need, status, allocated, running, cancelled, next, seen,
                 goroutine, completed>>

\* Nothing runs: every job has its result, or the scheduler gives up.
RoundCheck ==
  /\ pc = "check"
  /\ pc' = IF running > 0 THEN "receive"
           ELSE IF \A j \in Job : status[j] \notin {"pending", "running"}
           THEN "returned" ELSE "error"
  /\ UNCHANGED <<deps, need, status, allocated, running, cancelled, next, seen,
                 goroutine, completed>>

\* Mutant: a cancelled context ends the wait as well.
ReceiveUnlessCancelled ==
  /\ pc = "receive" /\ (completed # <<>> \/ cancelled)
  /\ pc' = "head"
  /\ IF cancelled THEN UNCHANGED <<status, allocated, running, completed>>
     ELSE LET c == Head(completed) IN
          /\ status' = [status EXCEPT ![c.job] = c.verdict]
          /\ allocated' = [cpu |-> allocated.cpu - need[c.job].cpu,
                           mem |-> allocated.mem - need[c.job].mem]
          /\ running' = running - 1
          /\ completed' = Tail(completed)
  /\ UNCHANGED <<deps, need, cancelled, next, seen, goroutine>>

\* A completion is received: the resources are given back and the job has its
\* result.
Receive ==
  /\ pc = "receive" /\ completed # <<>>
  /\ LET c == Head(completed) IN
       /\ status' = [status EXCEPT ![c.job] = c.verdict]
       /\ allocated' = [cpu |-> allocated.cpu - need[c.job].cpu,
                        mem |-> allocated.mem - need[c.job].mem]
  /\ running' = running - 1
  /\ completed' = Tail(completed)
  /\ pc' = "head"
  /\ UNCHANGED <<deps, need, cancelled, next, seen, goroutine>>

-----------------------------------------------------------------------------
(* The goroutines and the context. *)

\* job.Run returns, with or without an error; the completion says cancelled
\* when the context is by then.
JobReturns(j) ==
  /\ goroutine[j] = "running"
  /\ \E v \in IF cancelled THEN {"cancelled"} ELSE {"passed", "failed"} :
       goroutine' = [goroutine EXCEPT ![j] = v]
  /\ UNCHANGED <<deps, need, status, allocated, running, cancelled, loop, completed>>

\* The channel has room for every job, so a send never blocks.
JobSends(j) ==
  /\ goroutine[j] \in Verdict
  /\ completed' = Append(completed, [job |-> j, verdict |-> goroutine[j]])
  /\ goroutine' = [goroutine EXCEPT ![j] = "gone"]
  /\ UNCHANGED <<deps, need, status, allocated, running, cancelled, loop>>

CancelContext ==
  /\ ~cancelled
  /\ cancelled' = TRUE
  /\ UNCHANGED <<deps, need, status, allocated, running, loop, goroutine, completed>>

\* Run has returned.
Returned ==
  /\ pc \in {"returned", "error"}
  /\ UNCHANGED vars

-----------------------------------------------------------------------------
Init ==
  /\ deps \in [Job -> SUBSET Job]
  /\ \E req \in [Job -> Requests] :
       /\ Validate(deps, req)
       /\ need = [j \in Job |-> Normalized(req[j])]
  /\ status = [j \in Job |-> "pending"]
  /\ allocated = Nothing
  /\ running = 0
  /\ cancelled = FALSE
  /\ seen = FALSE
  /\ pc = "head"
  /\ next = 1
  /\ goroutine = [j \in Job |-> "none"]
  /\ completed = <<>>

Loop == RoundHead \/ StartJob \/ RoundStarted \/ RoundCheck \/ Receive

Goroutine(j) == JobReturns(j) \/ JobSends(j)

Next == Loop \/ (\E j \in Job : Goroutine(j)) \/ CancelContext \/ Returned

Spec == Init /\ [][Next]_vars

\* The Go scheduler runs every goroutine, and every job returns: the audit has a
\* timeout unless it is given --timeout 0, and an analyser returns once its context
\* is done, after a clean-up that is bounded.
Fairness == WF_vars(Loop) /\ \A j \in Job : WF_vars(Goroutine(j))

FairSpec == Spec /\ Fairness

-----------------------------------------------------------------------------
\* Every variable keeps its type; above all the counters never go below zero.
TypeOK ==
  /\ deps \in [Job -> SUBSET Job]
  /\ need \in [Job -> Resources]
  /\ status \in [Job -> Verdict \cup {"pending", "running"}]
  /\ allocated \in Resources
  /\ running \in 0 .. N
  /\ cancelled \in BOOLEAN
  /\ seen \in BOOLEAN
  /\ pc \in {"head", "start", "check", "receive", "returned", "error"}
  /\ next \in 1 .. N + 1
  /\ goroutine \in [Job -> Verdict \cup {"none", "running", "gone"}]
  /\ completed \in Seq([job : Job, verdict : Verdict])

\* The jobs that execute at this moment.
Busy == {j \in Job : goroutine[j] = "running"}

CPU(j) == need[j].cpu
Mem(j) == need[j].mem

\* canAllocateResources: the jobs that really execute at one moment never need
\* more than the budget, whatever the loop's counters say.
WithinBudget ==
  /\ MapThenSumSet(CPU, Busy) <= Normalized(Budget).cpu
  /\ MapThenSumSet(Mem, Busy) <= Normalized(Budget).mem

\* dependenciesPassed: no job was ever executed before everything it depends on
\* had passed, and none stays passed on a dependency that did not.
DependencyOrder ==
  \A j \in Job : goroutine[j] # "none" => \A d \in deps[j] : status[d] = "passed"

\* The error return of Run ("could not run remaining jobs within resource
\* budget") cannot happen for a graph validate accepts.
NeverStuck == pc # "error"

\* When Run returns, every goroutine it started is gone and its completion was
\* received: no analyser outlives the audit it belongs to.
NothingLeftBehind ==
  pc = "returned" => \A j \in Job : goroutine[j] \in {"none", "gone"} /\ completed = <<>>

\* While the loop waits, no job that could run is kept from running.
WorkConserving == pc = "receive" /\ ~seen => \A j \in Job : ~Startable(j)

\* Run returns, with a result for every job.
Terminates == <>(pc = "returned")
=============================================================================
