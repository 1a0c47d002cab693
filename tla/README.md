# govard: a TLA+ verification project

This directory holds TLA+ models of the parts of govard whose correctness
depends on order, concurrency and failure, the TLC configurations that check
them on small instances, and TLAPS proofs that hold for every value of the
constants.  `PROJECT.json` is the machine-readable index: components, runs,
the map from every definition to the source lines it models, mutants, findings,
hazards and theorems.

Contents

1. The system: inventory of its components
2. Modules and how they correspond to the code
3. What the runs check, with their bounds
4. Findings and further configurations: where the code and its own words disagree
5. What is proved, and how
6. Fairness
7. Abstractions and what is not modelled
8. Plan
9. How to run

## 1. The system

govard is a Go program (a CLI and a desktop application over the same packages)
that runs local development environments in containers and deploys projects to
remote hosts.  Most of it renders configuration or drives external tools one
after the other on one machine.  The parts that keep state which several actors
change, or which has to survive a failure, are these.

### Deploy (`internal/deploy`, `internal/cmd/deploy*.go`)

*State.*  All of it is files on the target: the lock directory with
`owner.json` in it, `releases/<n>` with a record `.dep/release.json` in each,
and the `current` symlink or, for an in-place target, the docroot itself; then
the maintenance flag in the served tree and the database.  A command keeps an
in-memory copy of the record, the set of steps it carries over, and whether it
holds the lock (`lockHeld`).

*Operations.*  `govard deploy` executes a plan; `deploy --resume` continues the
newest unfinished release, `--from` starts at a task; `deploy rollback` activates
an older release, with `--with-db` its database too; `deploy unlock` removes a lock
that was left behind; `status`, `releases` and `plan` only read.

*Interaction.*  Commands are independent processes, on an operator's laptop and
in CI, that share nothing but these files, over SSH.  There is no server.  The
lock is one atomic `mkdir`; recovery commands remove a lock they do not own.

*What is hard.*  Anything may happen between two remote commands, since each is
a round trip; a connection may drop after a command's effect and before its
result; a process may be killed anywhere; every write of the record is best
effort; checks are made before the lock is taken and used after; the maintenance
window is opened, moved, shortened and dropped by four different mechanisms.

*What makes it correct.*  Two runs never work on the target at the same time, and no one
removes the lock of a run that relies on it.  What the site serves exists and was built, and
is one release.  It is down while it changes, and serves when a deploy says ok.  No
migration is passed over.  A rollback chooses a release that was really finished. Release
numbers are never reused, and a deploy never goes backwards.  A resume repeats nothing that
succeeded and loses nothing, and finishes in the end. Directories of another tool are left
alone.

The *plan* (`plan.go`) is a list of steps composed from the recipe's tasks, the
hooks at their anchors, the build mode and the publish strategy.  It must keep the
canonical order, the order of the hooks, and the ends of the maintenance window.

### Deploy sandbox (`internal/deploy/sandbox*.go`)

*State.*  A container, a database volume that outlives it, a marker file that says
a seed has begun.  *Operations.*  `sandbox up` with its flags, `down`, `down
--purge`, `reset`.  *What is hard.*  The three are created, kept and removed
independently, and a command dies anywhere between two of them.  *What makes it
correct.*  No server opens another series' data, no `up` costs the served
application, no half-seeded or mis-addressed sandbox is reported as ready.

### Audit (`internal/audit`, `internal/cmd/audit*.go`)

*State.*  The scheduler keeps a result per job, the resources it counts as
taken, a counter of running jobs, and a channel.  Audits of one project, each a
process, share the audit lock file, the lease files of the store, and the web
server's configuration, into which the profiler puts a file for the time of a capture.
The store also keeps sessions, runs and results.

*Operations.*  `Scheduler.Run` validates a job graph and then alternates between
starting what may run and waiting for a completion; each job is a goroutine;
the context may be cancelled at any time.  `AcquireAuditLock` queues for the lock and
takes over a stale one; `AcquireLease` and `ReleaseLease` guard the profiler, which
activates, captures, collects and restores.

*What is hard.*  Completions arrive in any order; cancellation falls between any
two steps; a failure has to cascade through the graph; the loop ends only when
every goroutine has reported.  A lock file is judged stale and then removed by its
path; a restore fails in part; a process dies with a web server that profiles.

*What makes it correct.*  The budget is never exceeded and never wasted; order
follows the dependencies; `Run` always returns, with a result for every job and
nothing left running.  One audit at a time; a web server that may still profile is
never profiled again, and an audit that passed has left nothing.

### Desktop (`internal/desktop`)

*State.*  The operation registry (running operations with their cancel
functions, in memory), the operation history (`operation-history.jsonl`, capped)
and the in-flight file (`operation-inflight.json`); preview tokens for
destructive deploy actions; a generation number per tool run and the tool history;
the audit banner with its set of cancelled runs.

*Operations.*  Register, cancel, finish, recover at startup; preview and apply a
rollback, a `sandbox up` and a `sandbox down`; admit a tool run and finish it; run and
cancel an audit.

*What is hard.*  A cancel races a finish; the process dies between two file
writes; a superseded watcher finishes its successor; a token is looked at and
spent in two steps, while the target moves; two cancellers clean up after each other.

*What makes it correct.*  One terminal record per operation, none lost in a crash
that the in-flight file covers, at most one attempt per token, what runs is what was
shown, the deploy lock is given back by an apply that is stopped, and a cancel that
was acknowledged is honoured.

### The rest

The engine (configuration, compose rendering, project registry, snapshots),
frameworks and blueprints, gateway, proxy, tunnels, verify, try, the updater, the
environment commands, the desktop user interface, images and packaging are
listed in `PROJECT.json` with the reason each is left out: data transformation
without a protocol, sequential drivers of external tools, or generated tables.

## 2. Modules and how they correspond to the code

| module | what it is |
| --- | --- |
| `Deploy` | the deploy protocol on one symlink target: commands of several machines that race |
| `DeployMutex` | what the deploy lock promises; `Deploy` is shown to implement it |
| `MCDeploy` | pipelines and symmetry for TLC |
| `Deploy_proofs` | proofs about `Deploy` |
| `DeployPlan` | the composition of a plan, as functions |
| `PublishWindow` | what one command at a time does to the served site, over the plans of `DeployPlan` |
| `MCPublishWindow` | recipes, hooks and projects for TLC |
| `PublishWindow_proofs` | proofs about `PublishWindow` |
| `Sandbox` | the deploy sandbox: container, volume, marker |
| `MCSandbox` | command lines for TLC |
| `Sandbox_proofs` | proofs about `Sandbox` |
| `AuditScheduler` | the audit scheduler: loop, goroutines, channel, context |
| `MCAuditScheduler` | a budget and a set of resource requests for TLC |
| `AuditScheduler_proofs` | proofs about `AuditScheduler` |
| `AuditLocks` | audit lock, diagnostics lease and profiler of several audit processes |
| `AuditLocks_proofs` | proofs about `AuditLocks` |
| `Operations` | the desktop's operation registry, history, in-flight file and tool runs |
| `OperationTrail` | what those promise together; `Operations` is shown to implement it |
| `MCOperations` | kinds of calls for TLC |
| `Operations_proofs` | proofs about `Operations`, the refinement included |
| `AuditCancel` | the desktop's audits and those who cancel them |
| `AuditCancel_proofs` | proofs about `AuditCancel` |
| `DeployPreviews` | the desktop's previews, tokens and applies |
| `MCDeployPreviews` | panels and symmetry for TLC |
| `DeployPreviews_proofs` | proofs about `DeployPreviews` |

Where one module leaves something to another: `Deploy` has the interleavings of
several commands and one kind of target; `PublishWindow` has one command at a time
and everything that happens to the site; `DeployPreviews` has the desktop's applies
around the same deploy lock; `Operations` has the crashes of the desktop.

### Deploy

Every variable but `run`, `inside` and `faults` is a file on the target: `lock`
and `owner` (the lock directory and the age its `owner.json` shows), `dirs`,
`rec` (the record in each release directory), `stray` (a record beside the
releases), `live` (`current`), and `content`, which is what the steps *really*
left in a directory, as opposed to what the record says.  `run[r]` is a
command's memory and program counter.  `inside` is a ghost: the runs that took
the lock and have not given it up, by unlocking, by leaving it behind after a
failure or a kill.

A task of the pipeline, each write of the record, and each look a command takes
before it has the lock is an action of its own, since each is a remote command
of its own:

| actions | code |
| --- | --- |
| `StartDeploy` | `runDeploy` |
| `StartResume`, `ResumeCheckLock`, `ResumeCheckLive`, `ResumeUnlock` | `prepareResume`, `lockIsHeld` |
| `ResumeRun`, `CarryOver`, `SkipLockStep`, `PlainStep` | the head and the loop of `Executor.Run` |
| `LockMkdir`, `LockOwner` | `CoreLock`: the `mkdir`, then `owner.json` |
| `ReleaseStep`, `ActivateStep`, `VerifyStep`, `CleanupStep`, `UnlockStep` | `CoreRelease`, `CoreActivate`, `CoreVerify`, `CoreCleanup`, `CoreUnlock` |
| `RecordStep`, `RecordFailure`, `ReleaseLockAfterFailure`, `FinishRun` | `record`, the failure path and the tail of `Executor.Run` |
| `StepRefused`, `StepFails` | a step whose own check fails; a step that fails, possibly after its effect (`HalfDone`) |
| `RollbackSelect`, `RollbackActivate`, `RollbackUnlock` | `runDeployRollback` |
| `UnlockCheck`, `UnlockRemove` | `unlockDeploy` |
| `Crash`, `LockAges` | the process is killed; `lock_stale_after` passes |

`Discipline` states what operators are assumed to do, since the code leaves that
to them.  `none`: anybody issues anything at any time.  `look_first`: a recovery
command (`--resume`, `unlock`) is issued only while no other command runs, and
nothing is issued while it is at the point of removing the lock; this is what the
recovery hints ask an operator to check.  `exclusive`: one command at a time.
The properties that need a discipline say which one by the run that checks them,
and section 4 lists what happens without it.

### DeployPlan and PublishWindow

`DeployPlan` has no state.  `BuildPlan` puts the declared tasks in canonical order
(`Selected`) and inserts each hook at its anchor, which is a task, a stage or another hook
(`InsertHooks`: a `Pass` over the hooks without a place, until every hook whose anchor is
itself a hook has found it; both are recursive functions); `ForBuildMode` marks what an
artifact replaces and moves `artifact` before the build; `ForPublishStrategy` moves, keeps,
gates or drops the ends of the maintenance window.  `Buildable` is the validation of the
hooks, an assumption on the setups.

`PublishWindow` interprets the plan of a project (`setup`, which names a recipe, hooks,
build mode, strategy, and whether it has a migration probe).  `Shaped` has each project's
plans, for a deploy (`deployPlanFor`) and for a rollback, and the tails that an in-place
rollback runs (`TailsOf`).  `served` says which
release each part of the served tree comes from, `flags` which trees carry a
maintenance flag: under a symlink each release has its own flag, in place there is
one.  `db` is the database against the newest release's code.  `cmd` is the one
command that runs.

| actions | code |
| --- | --- |
| `StartDeploy`, `StartResume`, `ReadRecord` | `runDeploy`, `prepareResume`; the head of `Executor.Run` with the sticky verdict, `--from` and `--resume` |
| `TakeLockUpFront` | the lock that `--from` would have passed by |
| `CarryOver`, `Skip`, `Probe`, `ProbeFails` | the branches of the loop, the probe and what its answer drops |
| `RunStep`, `RecordStep`, `FailStep`, `Finish` | a step with its bound and its effect on the site, the record, the failure path, the end |
| `StartRollback`, `StartTail`, `QueuedStep`, `EndRollback` | `runDeployRollback` and the desktop's rollback: the in-place tail, `restoreReleaseDatabase`, the window |
| `Killed`, `Unlock`, `DatabaseMoves`, `OtherTakesTheLock`, `OtherReleasesTheLock` | what happens around it |

Of a recipe it is supposed that it declares known tasks, the lock and the activation among
them, and never gates the lock (`IsRecipe`: `DefaultRecipe` in `deploy/recipe.go`, from
which every framework's recipe starts); of hooks, that their names are distinct and their
anchors known and can be found (`AreHooks`, `Buildable`: what `insertHooks` rejects
otherwise).  Those are the assumptions of `PublishWindow`.  Hypotheses of single theorems
are `HasWindow`, a recipe with a window around its migration that is gated as a whole or not
at all (`magento2/deploy_recipe.go:294-301` gates the ends of the window, the workers, the
configuration and the migration together, and no other recipe gates anything), and
`NoneCutsIn`, which section 5 explains.

What follows of a plan is stated in `DeployPlan` too, and proved (`PlansAreLocked`,
`WindowsAreWhole`): each step once, `deploy:lock` before the window, the migration and the
activation, and `deploy:unlock` after them (`LockedPlan`); the tail of a rollback without the two
(`TailPlan`); the window around the migration (`WindowPlan`); the in-place tail that begins with the
activation (`ActivatesFirst`).  The proofs about commands use no more of a plan than that.
TLC evaluates all of them on the composed plans of each configuration as well.

### Sandbox

`container` holds what is lost with the container: the database series it serves,
whether it runs, what its docroot holds, and whether a seed was begun and not ended in
it.  `volume` is the series and the state of the data; `marker` the seed marker.
`UpStep` follows `SandboxUp` from the choice between reuse and new to "ready":
`Begin`, `Recreate`/`BuildNew`/`Reuse`, `CheckVolume`, `EnsureVolume`, `RunContainer`,
`StartContainer`, `ShapeDocRoot`, then the seed (`MarkSeedPending`, `ImportBegins`,
`ImportEnds`, `RewriteDatabase`, `SeedFiles`, `ClearSeedPending`) or `SkipSeed`.
`RemoveContainer`, `PurgeWithoutContainer`, `RemoveVolume`, `RemoveStateDir` and
`DownFails` are `SandboxDown` step by step.  `UpFails` is both an error and a kill.

### AuditScheduler

`deps` and `need` are chosen once, among everything `validate` accepts.  The loop
of `Run` has the program counter `pc` and takes one action per part of a round:
`RoundHead` (the look at the context, `markPendingCancelled` or
`markBlockedJobsCancelled`), `StartJob` (one iteration of the inner loop),
`RoundStarted`, `RoundCheck` (the `running == 0` test and both returns),
`Receive`.  A goroutine takes two: `JobReturns`, where it looks at the context,
and `JobSends`.  `CancelContext` may happen between any two of them.
`markBlockedJobsCancelled`, a loop to a fixed point, is the least closed set
(`Blocked`), and `hasDependencyCycle`, a depth-first search, is what it answers
(`HasDependencyCycle`): a set of jobs each of which depends on one of the set.

### AuditLocks

Each audit is a process.  `lock` is the lock file with whether it names a process
yet and whether it is older than ten minutes; `lease` the lease file with whether its
content was written; `confs` the profiler's files in the project, `loaded` those the
web server works with, `csv` whose activation the profile in the container comes from.

| actions | code |
| --- | --- |
| `TryLock`, `NameLock`, `LookAtLock` with `IsStaleLock`, `RemoveStaleLock`, `GiveUp`, `ReleaseLock` | `acquireAuditLock`: the exclusive creation, the process identifier, the look, the removal by path, the 30 seconds, the release |
| `AcquireLease`, `WriteLease`, `ReleaseLease` | the same of the store, and the deferred release of `profilerJob` |
| `ClearProfile`, `WriteConfig`, `ReloadOn` | `Activate` |
| `Capture`, `Collect` | the same |
| `RemoveConfig`, `ReloadOff`, `RemoveProfile` | `Restore`, all three whatever the others do |
| `Crash`, `LockAges`, `Visit`, `WebServerRestarts`, `OperatorRecovers` | what happens around it |

`worn` is a ghost: whether a lock was ever left behind or grew old.

### Operations

`running` is the registry, `history` and `sidecar` the two files, `orphans` what the
startup scan has read and not yet marked.  `lock` says what the holder of the
registry's mutex has left to do: an insertion with its sidecar write is one step, a
removal takes the record, the cancel function or the sidecar write in steps of their
own, between which the process may die (`Crash`).  `CallStep` has the calls:
`Register`, `NextToolRunGeneration`, `StartTool`, `WorkEnds`, `FinishToolRun`,
`FinishOp`; `CancelOp` is the user's; `ServiceStartup`, `MarkInterrupted` and
`RecoveryDone` are the scan of a new process.  Identifiers recycle, because their
numbers start again in a new process; start times do not.

`OperationTrail` is the abstract specification: operations open, and close at most
once with a record that never changes.  The refinement maps the registrations to
`opened` and the history file to `closed`.

### AuditCancel

`RunIntegrityAudit` and `CancelAudit` as sequences of critical sections under two
mutexes that are never held together: `registered` (registry), `mark` (the
cancelled-set) and `banner` (what was promoted), with any number of cancellers.

### DeployPreviews

`tokens` is the token table with expiry, eviction and use; `running` the registry;
`apply[c]` an apply, with what its token showed when it spent it.  `Click`, `Register`,
`Spend`, `Resolve`, `TakeLock`, `OpenWindow`, `Swap`, `Settle`, `Unlock` and `Finish`
are `ApplyRollback`; `Recheck` and `RunSandbox` are `SandboxUp` and `SandboxDown`;
`Expires`, `CancelOp` and `Others` are time, the stop button and other machines.
A stop fires the context of the operation, and every later command of the apply fails
(`Fails`), except the unlock, which has a context of its own.

## 3. What the runs check

Each property has a mutant in the module, a plausible mistake in the code it is
about, under which the same run reports it violated.  The type invariant of each
module is proved (section 5) rather than listed in a run.

**look_first** (two machines, releases 1..2, all four commands, with and without
locking and `--force`, slow runs, two faults, discipline `look_first`).
`HolderKeepsLock`: the lock directory of a run that relies on it is its own (from
which it follows that two runs never work on the target at once);
`LockIsAMutex`: the files refine `DeployMutex`, in which a held lock ends only
by its holder's hand and an abandoned one only by a recovery command;
`HighestKept`: the highest directory is never removed, so no number is handed out
twice.  Two machines are enough for any pair of commands to meet, and two faults for
a run to be killed and its recovery to fail.

**recovery** (one command at a time, the whole pipeline, releases up to 4 next to a
foreign one, three faults).  `UsableIsBuilt`: whatever a rollback may choose was
built and put live; `ForeignUntouched`: what another tool created is neither pruned
nor filled nor recorded; `OkNeverLost`: a success in a record
survives every later failure and resume; `NeverRepeated`: no step a record
calls done is executed again for that release; `NeverBackwards`: a deploy never
puts an older release in front of a newer one.  Three faults allow a failure, a
failed resume and a lost write in one history; with keep_releases 1 and four
numbers every prune has something to remove.

**liveness** (one command at a time, three faults).  `LiveIsBuilt`: what the site
serves exists and was built; `ResumeFinishes`: an operator who keeps resuming,
and unlocks when a refusal says so, finishes every unfinished release unless a
newer one goes live.  The faults are bounded, so that they stop at some point.

**publish_window** (ten projects, two releases).  A short recipe with a gated window under
both strategies and two faults in one behaviour; a longer one with one fault that may be a
lost write of the record, and with one fault among deploys that start at any of three tasks;
recipes with eight hooks, built on the server and from an artifact, for their plans alone.
Rollbacks run with and without `--with-db`, the database may move, another machine may hold
the lock.  `OpenSiteIsWhole`: in place the site is open on one release only;
`ChangesUnderTheLock`: `--from` and `--resume` take the lock all the same, and leave another
machine's alone; `DownWhileChanged`: a docroot is not rewritten, and a schema in use not
changed, on an open site; `NoMigrationMissed`: code goes live over a database that is behind
it only if its migration was recorded; `OkMeansServing`: a deploy that ends ok serves its
whole release, open; `OpenWindowIsReported`: a failure that leaves the site down is one the
operator is told about; `DowntimeIsBounded`: no publish step runs without the window's bound
while the window it recorded is open; `PlanKeepsItsOrder`: shaping keeps every task and
hook, once, and the order of the tasks and of the hooks after one task or hook.  Two
releases give each release a predecessor to come from and to go back to.

**sandbox** (ten command lines of `up` that differ from the plain one in the one respect
or the two that matter, two database series, one `up` at a time, any number of failures).
`SeriesMatches`: no server opens a volume another series wrote; `UpCostsNoApplication`:
only the flags that ask for it take the served application away;
`KeptContainerIsFinished`: while its container lives, an interrupted seed is finished
before an `up` that may seed says ready; `FreshContainerIsRepointed`: a container
created on a kept database is not ready on its predecessor's URL.  A second series
is enough to differ from the first.

**audit_scheduler** (every acyclic graph of three jobs, every assignment of four kinds
of resource needs, of which one never fits and is refused, a cancellation at any
moment).  `WithinBudget`: the jobs
that really execute fit the budget; `NeverStuck`: the error
return of `Run` is unreachable; `NothingLeftBehind`: when `Run` returns, every
goroutine has gone and its completion was read; `WorkConserving`: while the loop
waits, nothing that could run is pending; `Terminates`.  Three jobs give chains,
forks, joins, and a budget that two jobs share and a third exceeds.

**audit_locks** (three audits, two of which profile, three faults, locks that may
grow old).  `LeaseGuardsTaint`: a profiler configuration in the project or in the web
server belongs to the audit that has the lease, whatever failed or died and even when
the lock let two audits in; `PassedIsClean`: an audit that passed left nothing, and
reports a profile made under its own configuration, whoever else opened the page;
`SerialUntilWorn`: until a lock is left behind or grows old, one audit at a time.
Three audits are needed for a take-over to hit a third one's lock; three faults for a
step, its restore and another audit's to fail.

**operations** (two transfers, two tool runs, one crash, a cancel at any moment).
`OneTerminalRecord`: at most one terminal record per operation; `NothingLost`: what was
mirrored is in the history or will be found by the next scan; `InterruptedIsTrue`: the
scan never marks interrupted what a cancel had ended; `OneTransfer`: two transfers work
together only after one was ended from outside; `EveryOperationIsRecorded`: every
mirrored operation is recorded in the end; `OperationsAreATrail`: the refinement.  Two
calls of a kind race for an admission and recycle an identifier across the crash.

**audit_cancel** (two audits, two cancellers).  `CancelIsHonoured`: a run whose
acknowledged cancel has returned is never promoted to the banner.  Two cancellers are
enough for one's cleanup to meet the other's mark.

**previews** (two applies, two previews, tables of one and of two tokens, releases up to
3, one fault, both strategies; panels that use rollbacks, or the sandbox).
`OneAttemptPerToken`: a token authorises one attempt, and only an attempt uses it up;
`AppliesWhatWasPreviewed`: the swap is the one that was shown, under the lock;
`LockIsGivenBack`: an apply that ends has given the lock back, stopped or not.  A cap of
one is below the number of previews, so that eviction happens.

Deadlock is not checked in the runs of the desktop, the audit locks and
`PublishWindow`, whose users may be done; in the others somebody may always start a
command.

## 4. Findings and further configurations

Two runs of the index end in a violation on purpose; each is a short counterexample
against a sentence of the repository, quoted in `PROJECT.json`.

- **resume_race** (`cmd/deploy.go:267`): the lock protects only a record that says
  `running`; a release that is being resumed still says `failed`, so a second
  `--resume` removes the first one's lock and both execute steps in one
  directory.
- **half_restored** (`cmd/deploy_rollback.go:267`): a restore that fails half way is
  followed by `maintenance:disable`, and the half-restored database is served, which
  the comment at :238 calls worse than a short outage.

The configurations below are kept beside the runs for a reader who wants to see the
counterexample: TLC violates the property of each.  They are not in the index, either
because they show the same thing from another side, or because no sentence promises
the opposite.

| configuration | what happens |
| --- | --- |
| `DeployResumePrunesLive` | cleanup spares the run's own release, not the live one (`deploy/tasks_verify.go:369`): after `rollback --to` an older release, the resume of a newer one that had already activated prunes what `current` points at.  One command at a time is enough |
| `DeployRollbackRace` | the rollback's target is chosen before the lock is taken (`cmd/deploy_rollback.go:71`); a deploy in between prunes it |
| `DeployStrayRecord` | a run that fails before it has a number writes its record beside the releases (`deploy/execute.go:561`) |
| `DeployUnlockRace` | between `mkdir` and `owner.json` a lock has no age, and `unlock` without `--force` then removes it (`cmd/deploy_unlock.go:62`) |
| `DeployResumeBackwards` | the comparison with the live release is made before the lock is taken and not repeated after (`cmd/deploy.go:296`) |
| `DeployLostRecord` | writes of the record are best effort, and the comparison with the live release (`cmd/deploy.go:296`) is left out when that release has no record (`deploy/query.go:98-101`): a release whose every write after its number was lost goes live, the run dies, and `--resume` activates an older, unfinished one over it.  One command at a time and four faults are enough, on a plan of few tasks; `recovery` does not meet it because the whole pipeline has more writes to lose |
| `DeployLateFinish` | the final `ok` is written after the lock was released (`deploy/execute.go:580`); a release pruned meanwhile comes back as an empty directory that a rollback offers |
| `PublishWindowFrom` | a `--from` past the tasks that serve a release leaves them unmarked and later steps done; a resume after it carries them over and ends ok over a site that is down, the case `deploy/execute.go:258-268` exempts a resume from the fast path for |
| `PublishWindowDesktop` | the desktop closes the window after an in-place tail that failed, over a docroot of two releases; `docs/workflows/deployment.md:1236` says that the window stays open |
| `PublishWindowDrift` | the first in-place deploy has no site to take down; when its activation fails under a skip verdict and the database moves, the resume carries `enable` over and migrates under an open site (`docs/workflows/deployment.md:704-708`) |
| `PublishWindowMeanwhile` | a rollback in place between a failed deploy and its resume closes the window; the resume carries `enable` over and rewrites the open docroot (`docs/workflows/deployment.md:531-534`, `539-541`: the window opens always) |
| `SandboxSeed` | an import dies and the next `up` recreates the container: the marker is read for a reused container only (`deploy/sandbox_lifecycle.go:520-523`), the database is not empty, and a partial one is reported as ready |
| `SandboxEmpty` | an `up` that fails before its seed has begun leaves a container that the next `up` reuses and reports as ready, empty (`docs/workflows/deployment.md:1435`: "a silent empty sandbox helps nobody") |
| `SandboxTwoUps` | no lock surrounds a sandbox: two `up` at once start a server on the other's volume |
| `OperationsToolHistory` | the generations of tool runs start at one again in a new process, so the first run after a crash writes its outcome over the entry of the run that died (`desktop/tool_history.go:268`), which `desktop/tool_runner.go:290-292` says reads unknown |
| `OperationsToolRerun` | a tool run's watcher compares the generation, unlocks and then finishes the operation (`desktop/tool_runner.go:232`): a run admitted in between is taken from the registry, and a third runs beside it |
| `AuditCancelRace` | two cancellers at once: one's clean-up may take the mark the other is about to rely on, and a run that a cancel has taken from the registry is promoted before that cancel returns |
| `AuditLocksRace` | an audit that lasts longer than ten minutes loses its lock to a waiter; `docs/reference/cli-commands.md:255` says that invocations serialize |
| `DeployPreviewsStop` | an apply that was stopped registers under the same identifier as its successor, and its deferred finish removes the successor's entry: the stop button no longer reaches it |
| `DeployPreviewsStale` | a deploy lands between the comparison with the preview (`desktop/deploy_service.go:1204`) and the lock: the swap runs on a target the preview would show differently (`docs/workflows/desktop-app.md:606-608`: refused as stale) |
| `DeployPreviewsTruth` | the swap's connection drops after its effect and the apply is stopped before it ends: it reports that no release was activated (`docs/workflows/desktop-app.md:613-618`) |

Two more properties are violated by the constants of a configuration above.
`RollbackKeepsTheRecord`, with those of `PublishWindowDrift`: the copy of the record that a
failed in-place rollback writes back is a shallow one (`cmd/deploy_rollback.go:346`) and
shares the entries of the steps with the record the tail rewrote, so the status is
restored and the failed step stays failed, while the message at :358 says that the record
is as it was.  `NothingShownNothingRemoved`, with those of `DeployPreviewsStale`: a container
that appears between the second look and the removal is removed, though the preview saw
none (`desktop/deploy_service.go:1697`: "A preview that saw nothing removes nothing").

`resume_race` and `DeployUnlockRace` need a recovery command issued without
looking first.  `DeployRollbackRace`, `DeployResumeBackwards` and `DeployLateFinish`
need two commands at once and no carelessness: an
ordinary deploy next to a rollback, a resume or another deploy.  That is why the
passing runs that look at the releases run one command at a time, and `liveness`,
which checks `LiveIsBuilt`, leaves rollbacks out.  Likewise `publish_window` rolls back
only while no release is unfinished (`RollbackWhen`), with the CLI's rollback
(`Rollers`), and gives `--from` one fault.

## 5. What is proved

Every theorem holds for every value of the constants that satisfies the named
assumptions of its module; bounds on faults and on numbers are constants, too.

### Deploy_proofs

For every set of machines, every pipeline in which `deploy:unlock` comes last:

- `TypeCorrect`: `Spec => []TypeOK`.  The invariant `TypeInv` adds `PcFits`, which says
  which indices and numbers go with a program counter; without it the index into the
  pipeline and the release number of a step are not known to be in range.
- `LockIsKept`: `HolderKeepsLock`, from `RecoveryDisciplined`: the discipline is
  `look_first` or `exclusive`, or no recovery command is ever issued.  The invariant
  `LockInv` says of every command what its program counter implies about the lock
  (`LockFits`): who is between `mkdir` and `owner.json`, who holds it, who has given it up,
  and that a recovery command about to remove the lock is alone.  `HolderKeepsLock` by
  itself is not inductive, since nothing in it says that the run between `mkdir` and
  `owner.json` already owns the directory.
- `LockExcludes`: `MutualExclusion`, two runs are never inside at once, from the same
  invariant.
- `NumbersAreNotReused`: `HighestKept`, an action property, with no assumption on operators:
  every action that shrinks `dirs` prunes a set in which each member has at least one
  recorded release above it.
- `ForeignIsSafe`: `ForeignUntouched`, with no assumption on operators.  The invariant
  `ForeignInv` adds that no run has a foreign number.
- `LockImplementsMutex`: `LockIsAMutex`, the refinement of `DeployMutex`, from `LockInv`,
  step by step: `mkdir` acquires, the removals by the holder release, the removals by a
  recovery command break an abandoned lock, and everything else stutters.

The results about releases and their records hold one command at a time (`Exclusive`);
section 4 shows what two commands do to each of them.  They ask of the pipeline what the
canonical order of `recipe.go` gives every recipe: each task at most once
(`OncePerTask`), `publish:activate` among them (`Activates`), `deploy:release` and all that
fills the release before it, the cleanup after it (`PlanInOrder`).

- `RollbackTargetsAreBuilt` (`UsableIsBuilt`), `SuccessIsKept` (`OkNeverLost`) and
  `NothingRunsTwice` (`NeverRepeated`) share `RecordInv`.  `RecordFits`: a record says no
  more than the directory holds, and a record that says ok names every task of the plan.
  `CommandFits`: what a run carries, has in memory and is about to write is at least what
  the record says.  A lost write leaves the record behind the memory, never the
  other way round, and a resume reads the record only; that is why a lost write can
  make a resumed run repeat a step but never leave one out.
- `SiteIsBuilt` (`LiveIsBuilt`), with `PlanInOrder`, for operators who do not roll back
  (after a rollback the property is false: `DeployResumePrunesLive`).  `LiveInv` adds
  that an unfinished release whose record says it was activated is not newer than the
  live one, so that a resume that carries the activation over has nothing newer to
  prune it for (`LiveFits`, `NotPassed`).
- `NeverResumedBackwards` (`NeverBackwards`), rollbacks included, from `[]LiveIsRecorded`:
  whenever the live release is there, it has a record.  The hypothesis is what the
  property needs and the code does not ensure: `DeployLostRecord` is a
  behaviour without it.  The proof has one case nobody would test: a resumed deploy
  prunes the live release a rollback went back to, dies half way, and the check
  finds no live release to compare with.  `DanglingFits` says why nothing older is
  resumed then: the run that pruned is the newest unfinished release, it is above what was
  live, and its cleanup, repeated first, removes everything older.

Where a prune is interrupted the proofs take a least number of the set
being pruned (`WFMin`, from the well-foundedness of `<`), in place of an induction.

### AuditScheduler_proofs

For every number of jobs, every graph `validate` accepts, every budget and every
mix of needs: `SchedulerTyped` (`TypeOK`), `OrderIsKept` (no job is executed before all
it depends on has passed), `RunNeverGivesUp`
(`NeverStuck`), `ReturnsClean` (`NothingLeftBehind`), `NoCapacityWasted`
(`WorkConserving`), and `BudgetIsKept` (`WithinBudget`).

They share one inductive invariant, `Inv`.  `CountInv`: the counters are those of the
jobs whose status is running.  `GraphInv`: what `validate` established.
`ChannelInv`: a goroutine works or reports for a running job, and no job is in the
channel twice, without which a completion could give resources back twice.
`RoundInv`: what the loop knows at each point of a round.

That the counters never go below zero needs sums over sets of jobs.  `Tally` states
such a sum without recursion, by the existence of partial sums that are monotone
and constant over intervals without a member; adding and removing a job are then
proved by exhibiting the new partial sums (`TallyAdd`, `TallyRemove`), and an
empty set weighs nothing (`TallyOfNone`), with no induction.  `WithinBudget` itself sums
with a fold over the set of executing jobs; `BudgetIsKept` shows that the fold
agrees with `Tally`.  The prover has no induction over finite sets, so that proof takes a
smallest set on which the two would differ, by well-foundedness of the subset
relation (`WFMin`), removes one element, and finds that they differ on the rest.

`RunNeverGivesUp` is the one with an argument: if nothing runs and something is
pending, acyclicity gives a pending job that depends on no pending one; its
dependencies are not running, and not failed or cancelled because `Blocked` is
closed, so they passed; nothing is allocated, so it fits; hence the round that just
ended would have started it.

### AuditLocks_proofs

For any number of audits and faults.  `AuditsSerialize` (`SerialUntilWorn`) rests on
`LockInv`: until something is worn, whoever is at work owns the lock file, nobody is about
to remove it, and its owner is at work, so that no look can find it stale, the moment
between its creation and the process identifier included.  `TaintIsGuarded`
(`LeaseGuardsTaint`) and `SuccessIsClean` (`PassedIsClean`) do not use the lock at all:
`LeaseInv` says that whoever is between the lease and its return has it, and that a
configuration belongs to its owner; `ProfileInv` says what an audit on its way to
success knows of its own files, of the web server and of the profile.

### Operations_proofs

For any calls of any kinds and any number of crashes: `RecordedOnce`, `NoOperationLost`,
`CancelledIsNotInterrupted`, `TransfersExclude`, and `TrailIsImplemented`, the refinement
`Spec => OperationsAreATrail`, step by step: a registration opens, the three places that
write a record close, everything else stutters.  The inductive invariant `IInv` adds to
the properties that keys are distinct and of the past (`CallsArePast`,
`KeysAreDistinct`), that every entry and every line of the files is some call's
(`EntriesAreOfCalls`, `FilesAreOfCalls`), that what is in the registry or about to be
marked has no record yet (`OpenHasNoRecord`), what each phase of a process's life implies
(`Phases`), that a cancel has its record before it fires (`CancelsAreRecorded`), and that a
transfer at work is in the registry or was ended (`TransfersAreEntries`).

### AuditCancel_proofs

For any number of audits and cancellers: `Honoured` (`CancelIsHonoured`).  The invariant
`MarkOrCanceller` says that a run which may still record and was taken by a cancel carries
a won mark, or that the canceller has yet to settle and will leave one.

### Sandbox_proofs

For any set of series and command lines and any failures: `SeriesKept`,
`ApplicationKept`, `SeedIsFinished`, `UrlIsFresh`, from `OneAtATime`: the commands of a
project are issued one after the other.  The code has no lock that guarantees it, and
`SandboxTwoUps` shows that it is needed.  `IInv` says what an `up` knows of the container,
of the volume and of the seed at each of its steps, and that a container with an
unfinished seed has its marker (`TornIsMarked`).

### DeployPreviews_proofs

For any number of applies, previews, releases and faults: `TokensAuthoriseOnce`,
`LocksAreGivenBack`, `PreviewIsApplied`.  The inductive invariant says what a token and an
apply carry by their action, that an apply under way carries what was shown
(`CarriesWhatWasShown`), who holds the lock (`HoldsTheLock`), and that a token that was
spent is used (`SpentIsUsed`).

### PublishWindow_proofs

For any projects with recipes and hooks as in section 2, any number of releases, faults,
rollbacks and moves of the database.

The first half is about the composition of a plan:

- `PlansAreLocked`: `LockedPlan` and `TailPlan`, for all recipes and hooks, modes and strategies.
- `WindowsAreWhole`: with `HasWindow` also `WindowPlan`, and in place `ActivatesFirst`.
- `TasksKeepTheirOrder`: every declared task and hook once, the tasks in canonical order, but
  for the two that shaping moves (`PlanIsInOrder`).
- `PlanIsKept` (`PlanKeepsItsOrder`), which adds the order of hooks, from `NoneCutsIn`.

The tasks of a recipe are a filtered sequence, and `NthIs`, `RankIs` and `SelectedIs` say
that it keeps what it selects, in order.  A plan under composition is `Composed`: its steps
are tasks of the recipe or hooks, each once, the tasks in order, each step in the stage of
its anchor. `PutComposed` keeps that through one insertion; `Rows` (what stands between a
task or hook and one placed after it is hooks of no greater order, which is why the next one
finds its place) and `Siblings` (two hooks after one anchor are in order) are kept by
`PutKeepsRows` and `PutKeepsSiblings`.  Between two insertions the plan is `Partial`: these
three hold of it. `Came` says that the hooks on tasks get their places in the order of their
declaration, on which the order of those with one number rests, and `Waiting` which hooks
are still without a place.  `PassIs` and `InsertHooksIs` unfold the two recursive functions,
and `CountingUp` carries an invariant along them: the induction theorems of the library
cannot be instantiated here, so it takes the least number at which the invariant would fail,
from the well-foundedness of the naturals.  The rewrites of the two shapings mark steps
(`MarkKeeps`) or move one (`MoveKeeps`).

`NoneCutsIn` is needed.  A hook "after" an anchor goes past the hooks that follow with no
greater an order, and stops at the first with a greater one; a hook "before" ignores its
order.  A hook with a great order that is placed before another hook, or before a stage, may
thus land in the row of the hooks after a task, and the next of these stops in front of it,
ahead of siblings with a smaller order than its own.

The second half is about commands.  The plan is looked up by position, so its lemmas
rest on what such a look-up finds (`IndexOfIs`, `BeforeIsOfThePlan`) and on that the steps of a
command are those of its plan or of its tail.  `TypeCorrect` (`TypeOK`) adds which index
goes with which point of a command, for queues of a rollback too.

- `TargetChangesUnderTheLock` (`ChangesUnderTheLock`), whatever `--from` passes and whatever
  is lost.  `HeldFits`: a deploy past `deploy:lock` remembers that it holds the lock, and
  holds it until its unlock; the lock is never carried over.
- `MigrationIsNotMissed` (`NoMigrationMissed`), from `MigratesFirst`: the recipe migrates,
  and no `--from` passes the migration.  `MigrationFits`: while a deploy works the database
  moves by its own migration only, so what the probe saw stays true.
- `WindowIsRecorded`, `ChangesWhileDown` (`DownWhileChanged`), `OkServes`
  (`OkMeansServing`), `OpenWindowIsRecorded` (`OpenWindowIsReported`) and `BoundedDowntime`
  (`DowntimeIsBounded`), from `Steady`.
- `OpenSiteServesOne` (`OpenSiteIsWhole`), from `Steady` and `Rollers \subseteq {"cli"}`.

The five of `Steady` share `WindowInv`.  None of the properties is inductive: a resume skips
what the record says is done, so what the record says must be true of the site, for every
release that a resume may yet take up and not only for the one at work. `RecordFits` states
it for one record: the start of the window is recorded after all before it in its stage, its
end after its start; an activation that is recorded ok is what is served; a window recorded
closed is closed; in place a window whose start is recorded is open unless the docroot holds
nothing but that release; under a symlink a window whose start is recorded and whose
migration is not is open.  `RecordsFit` says it of the record in memory, or of each
unfinished release not older than the served one (a resume of an older one is refused).
`RunFits` and `ProgressFits` say what a run knows: its record is the stored one, what is
carried is recorded ok, each step behind it is recorded ok, unimplemented, or excused by a
probe that found the database current.  `SiteFits` says where flags and parts can come from,
and `RollbackFits` that a rollback's tail begins with the site down.  `WholeFits` adds, in
place, that the docroot holds one release or carries the flag, and what a rollback that
reopens it has completed.

`Steady` is not there for convenience: without any one of its restrictions TLC finds a
behaviour that violates one of these properties.  Records that are lost strand a flag or
end a resume over a site that is down (section 7); a `--from` past the window is
`PublishWindowFrom`; a rollback over an unfinished release (`RollbackWhen = "any"`) is
`PublishWindowMeanwhile`; and a desktop rollback whose tail fails leaves an open docroot
of two releases (`PublishWindowDesktop`), which is why the last theorem is about the
command line's.  `Steady` also asks for a recipe with a window (`HasWindow`); about one without,
only `TypeCorrect` and the first two of these theorems say something.
`WindowInv` and `WholeFits` were model-checked on the setups of the runs before they were
proved.

### Only model-checked

Every safety property that a passing run checks is stated by a theorem.
`HalfRestoredIsNotServed` and `OneDeployPerRelease` are violated by the code (section 4).
`ResumeFinishes`, `Terminates` and `EveryOperationIsRecorded` are liveness
under fairness, which the installed version does not
prove.

## 6. Fairness

`Deploy`: a command that was issued goes on until it ends (weak fairness of its
steps: a process that is not killed executes its next line), and time passes (weak
fairness of `LockAges`).  Nothing makes a command be issued, fail, or be killed.
`ResumeFinishes` adds, as its own hypothesis, that the operator resumes again and
again and removes a lock whose owner cannot be read.  Strong fairness is what "again
and again" means there: between two attempts a refusal disables the command.

`AuditScheduler`: the Go runtime schedules every goroutine, and a job's `Run`
returns: `govard audit` puts a deadline on the context unless it is given
`--timeout 0`, and an analyser waits for its container and for the context at once
(`lint_external.go`), with a clean-up that is bounded.  With `--timeout 0` an
analyser that hangs keeps `Run` waiting, and `Terminates` does not apply.
Cancellation itself is not fair: it may never come.

`Operations`: a call that has begun ends, the holder of the registry's mutex
finishes what it has to do, and the startup scan of a process that has started ends.
Nobody has to call, cancel, crash or restart: `EveryOperationIsRecorded` promises a
record in a process that is up.

The other modules check safety only and assume no fairness.

## 7. Abstractions and what is not modelled

*Deploy.*  Tasks that fill a release directory are one action each, which leaves the
task's name in `content`; what they compute does not matter to the protocol.
A command that is refused before it touches anything, and a deploy the fast path
answers "already deployed", are stuttering steps.  Two consecutive writes of the
failure path, of which the second contains the first, are one.  Ages are `fresh` or
`stale`.  Bounds: `MaxRelease` on the numbers (a deploy that could not get a number
is not issued), `MaxFaults` on failed steps, lost writes and kills together.
`--from`, hooks, the migration probe, the window, the in-place layout and
`rollback --with-db` are in `PublishWindow`; optional steps are in neither.

*DeployPlan and PublishWindow.*  Titles, commands, output and the wording of errors are left
out; hooks change nothing of the site; a backup is a step without effect on it. One command
runs at a time.  With a lost write of the record and a second fault in one behaviour more
can happen than the run's bounds allow: an in-place rollback that fails while the
restoration of its record is lost too may be followed by a `--resume` that ends ok over a
site that is down; a lost verdict, a kill and a database that is healed by hand strand a
maintenance flag; a lost record of the migration, a kill after `maintenance:disable` and a
database that moves again migrate an open site.  Some sentences of the documentation differ
from the code in ways that no property states: the tail of an in-place rollback probes
(`docs/workflows/deployment.md:731`) and runs under the command time-out, having no window
of its own (:1251); hooks that share an anchor and a position are not always sorted by order
and then by declaration (`deploy/plan.go:563-564`): "before" hooks ignore their order and
may cut the row of others in two (section 5), hooks after a stage go after its last step,
which may be another such hook, and of two with one order after a hook the one declared
before its anchor comes a pass later; the Symfony `down`/`up` hooks
(`docs/workflows/deployment.md:364-369`) leave their flag in the release a symlink deploy
replaces; and `--resume --from maintenance:disable` opens whatever the docroot holds.

*Sandbox.*  Images, keys, the git mirror, the remote in the configuration and the gateway's
registry, which is loaded, changed and saved without a lock, are left out; the framework is taken to
rewrite database URLs.  A container that is stopped and started again on another port is
not re-pointed, and `reset` removes a seeded environment file that no plain `up`
restores; no property claims otherwise.

*AuditScheduler.*  The input checks of `validate` that only reject malformed
jobs (an empty or duplicate id, a negative number, an unknown dependency) are in the
types of `deps` and `Requests`.  Times and evidence are left out.  The context is
looked at once per round, as in the code.

*AuditLocks.*  Which worker of the web server serves a page, before, during and after a
reload, is a choice; so is whether a page leaves a profile.  A process identifier is
never reused, and a waiter who may not signal the holder (another user's process, which
the code takes for a dead one) is left out.  The preflight and the writing of the artifact change
nothing the model has.  The lock is left behind by a failed removal as by a kill.  The documentation
suggests `govard audit cleanup` for a stuck lock (`docs/reference/cli-commands.md:260`,
`docs/workflows/audit.md:138`), but that command removes stored sessions only, never the lock or
a lease; a lease has no age at all.  Sessions, runs and results are not modelled; a
process that dies between the directory of a run and its manifest makes every later rerun
of that session fail.

*Operations.*  The insertion and the sidecar write are one step, under one mutex.  A
history write that is lost, the cap of the history and the quarantine of a corrupt
sidecar are left out.  `RegisterDBTransferOp` does not mirror its operation, although
`docs/workflows/desktop-app.md:130-131` says it of every operation; the properties leave transfers
out where it matters.  Failed runs read "completed", as every caller uses `FinishOp`.
The output stream of a tool run and its publish gate are not modelled.

*AuditCancel.*  The purge of old marks, the file of the banner index and the views are left
out.  A mark may outlive its run (`MarksDoNotOutliveTheirRun` in the module is
violated), which the purge later repairs.

*DeployPreviews.*  One project and one remote, whose releases are all usable; the strategy
is constant in a behaviour.  A flush and the verification after it are one step, an in-place
tail with its two clean-ups is one, `owner.json` belongs to the `mkdir`; what these do to
the site is in `PublishWindow`.  A cancel's claim and its firing are one step.  The death of
the desktop is in `Operations`.  Read paths, renamed projects and targets without locking
are left out. That a profile was named is lost between the preview and the apply of a
`sandbox up`, which treats every profile as named.

*Everything else* is listed under "components" with its reason: the engine, the
environment commands, frameworks, gateway, tunnels, verify, try, the updater and the user
interfaces are data transformation, generated tables, or sequential drivers of
external tools.  They make up most of the repository's lines, so the map covers a small
part of the whole and most of the parts with a protocol.  Every known hazard of a modelled part is
under "hazards", those without a property with a note.

## 8. Plan

1. Optional steps and the run's own time-out in `Deploy`.
2. The audit store's sessions and runs: creation, rerun, results and clean-up, with
   processes that die in between.
3. The project registry and the gateway registry, two files that several govard processes
   load, change and save.

## 9. How to run

```
tlc -workers 2 -config DeployRecovery.cfg MCDeploy
tlc -workers 2 -config PublishWindow.cfg MCPublishWindow
tlc -workers 2 -config Sandbox.cfg MCSandbox
tlc -workers 2 -config AuditScheduler.cfg MCAuditScheduler
tlc -workers 2 -config AuditLocks.cfg AuditLocks
tlc -workers 2 -config Operations.cfg MCOperations
tlc -workers 2 -config AuditCancel.cfg AuditCancel
tlc -workers 2 -config DeployPreviews.cfg MCDeployPreviews
tlapm Deploy_proofs.tla
```

and likewise for the other configurations, by the prefix of their names, and the other
proof modules.  The largest instances, `DeployRecovery` and `DeployPreviews`, have about two million
distinct states and take about a minute; `PublishWindow` has half a million and takes less.
From nothing `PublishWindow_proofs` takes about ten minutes.
