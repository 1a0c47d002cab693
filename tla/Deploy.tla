------------------------------- MODULE Deploy -------------------------------
(***************************************************************************)
(* The deploy protocol of govard on one symlink target: any number of      *)
(* `govard deploy`, `deploy --resume`, `deploy rollback` and               *)
(* `deploy unlock` commands, each a process of its own on some machine,    *)
(* share one target over SSH.  They coordinate only through files on that  *)
(* target: the lock directory, the release directories with the record in  *)
(* each of them, and the `current` symlink.                                *)
(*                                                                         *)
(* A task of the pipeline, a write of the record and each check a command  *)
(* makes before it takes the lock are actions of their own: processes      *)
(* interleave between any two of them, and a process may be killed between *)
(* any two of them as well.                                                *)
(***************************************************************************)
EXTENDS Naturals, Sequences, FiniteSets

CONSTANTS
  Run,          \* the operator machines and CI jobs that issue commands
  NoRun,        \* nobody: the lock directory does not exist
  MaxRelease,   \* bound on the release numbers
  Keep,         \* deploy.keep_releases
  Foreign,      \* release directories another tool created
  Pipeline,     \* the plan: a sequence of task ids
  Commands,     \* the commands that are issued
  Discipline,   \* what operators do before they issue one, see MayIssue
  SlowRuns,     \* may a run last longer than lock_stale_after?
  SkipLock,     \* the values of "locking is disabled" commands are given
  UnlockForce,  \* the values of --force `deploy unlock` is given
  MaxFaults     \* bound on failed steps, lost writes and killed processes

Number == 1 .. MaxRelease

Task == {"check", "lock", "release", "code", "shared", "build", "migrate",
         "activate", "record", "verify", "cleanup", "unlock"}

PrepareTasks == {"check", "lock", "release", "code", "shared"}
BuildTasks   == {"build"}

\* The tasks that leave their result inside the release directory.
InRelease == {"code", "shared", "build"}

ASSUME ConstantsAssumption ==
  /\ NoRun \notin Run
  /\ MaxRelease \in Nat
  /\ Keep \in Nat \ {0}
  /\ Foreign \subseteq Number
  /\ Commands \subseteq {"deploy", "resume", "rollback", "unlock"}
  /\ Discipline \in {"none", "look_first", "exclusive"}
  /\ SlowRuns \in BOOLEAN
  /\ SkipLock \subseteq BOOLEAN
  /\ UnlockForce \subseteq BOOLEAN
  /\ MaxFaults \in Nat

\* wireCoreTasks puts deploy:unlock at the end of every pipeline.
ASSUME PipelineAssumption ==
  /\ Pipeline \in Seq(Task)
  /\ Len(Pipeline) > 0
  /\ \A i \in 1 .. Len(Pipeline) : Pipeline[i] = "unlock" => i = Len(Pipeline)

VARIABLES
  lock,     \* the run whose mkdir created the lock directory, or NoRun
  owner,    \* owner.json: "none", "fresh", or "stale" (past lock_stale_after)
  dirs,     \* the release directories that exist
  rec,      \* .dep/release.json of each release; status "none": no record
  stray,    \* releases/.dep/release.json: a record beside the releases
  live,     \* the release `current` points at, 0 when there is none
  content,  \* what the steps really left in each release directory
  run,      \* the state of each command
  inside,   \* the runs that took the lock and have not given it up
  faults    \* how many faults happened so far

target == <<lock, owner, dirs, rec, stray, live, content>>
vars   == <<target, run, inside, faults>>

-----------------------------------------------------------------------------
(* State of the target and of a command. *)

Record   == [status : {"none", "running", "failed", "ok"}, done : SUBSET Task]
NoRecord == [status |-> "none", done |-> {}]

Pc == {"idle", "resumeLock", "resumeLive", "resumeUnlock", "resumeRun",
       "step", "mkdir", "owner", "write", "failed", "release",
       "activate", "deferred", "unlock"}

\* num, status and done are the in-memory release record; num is 0 until
\* deploy:release fixes it.  held is Executor.lockHeld.
RunState == [pc : Pc, cmd : {"none", "deploy", "rollback", "unlock"},
             idx : Nat, num : 0 .. MaxRelease,
             status : {"none", "running", "failed", "ok"},
             done : SUBSET Task, carried : SUBSET Task,
             held : BOOLEAN, nolock : BOOLEAN]

Idle == [pc |-> "idle", cmd |-> "none", idx |-> 0, num |-> 0,
         status |-> "none", done |-> {}, carried |-> {},
         held |-> FALSE, nolock |-> FALSE]

Recorded == {n \in dirs : rec[n].status # "none"}

\* NextReleaseNumber: one past the highest directory, foreign ones included.
NextReleaseNumber ==
  CHOOSE n \in 1 .. MaxRelease + 1 :
    /\ \A d \in dirs : d < n
    /\ n = 1 \/ n - 1 \in dirs

\* IncompleteRelease: the newest recorded release that is not ok, if there is one.
Incomplete == {n \in Recorded : rec[n].status # "ok"}
IncompleteRelease == {n \in Incomplete : \A m \in Incomplete : m <= n}

\* Mutant: the window is one too small.
PruneWindowOffByOne(S, keep) == {n \in S : Cardinality({m \in S : m > n}) >= keep - 1}

\* pruneWindow: what is left of S without its `keep` newest members.
PruneWindow(S, keep) == {n \in S : Cardinality({m \in S : m > n}) >= keep}

\* Mutant: directories without a record are pruned too.
PrunedForeign(own) == PruneWindow(dirs \ {own}, Keep)

\* CoreCleanup's victims: every recorded release but the run's own competes
\* for the window.
Pruned(own) == PruneWindow(Recorded \ {own}, Keep)

\* resumeAlwaysReruns
ResumeAlwaysReruns == {"check", "lock", "unlock", "shared"}

LockKeptOnFailure(t) == t \notin PrepareTasks \cup BuildTasks

\* WriteRelease creates the parent directories and renames the record into
\* place, so it brings back a release directory that was removed meanwhile.
\* Without a number it writes into the directory that holds the releases.
WriteRelease(rs) ==
  IF rs.num = 0
    THEN stray' = TRUE /\ UNCHANGED <<rec, dirs>>
    ELSE /\ rec' = [rec EXCEPT ![rs.num] = [status |-> rs.status, done |-> rs.done]]
         /\ dirs' = dirs \cup {rs.num}
         /\ UNCHANGED stray

Fault == faults < MaxFaults /\ faults' = faults + 1

\* Every write of the record is best effort: a lost one ends nothing.
BestEffortWrite(rs) ==
  \/ WriteRelease(rs) /\ UNCHANGED faults
  \/ Fault /\ UNCHANGED <<rec, dirs, stray>>

\* record and carryOver write once the release has a number.
StoreRecord(rs) ==
  IF rs.num = 0
    THEN UNCHANGED <<rec, dirs, stray, faults>>
    ELSE BestEffortWrite(rs)

RemoveLock == lock' = NoRun /\ owner' = "none"

Set(r, rs) == run' = [run EXCEPT ![r] = rs]

Goto(r, l) == Set(r, [run[r] EXCEPT !.pc = l])

-----------------------------------------------------------------------------
(* Issuing a command. *)

\* The recovery commands remove a lock without owning it.  "none": anybody
\* issues anything at any time.  "look_first": operators check the target, as
\* the recovery hints ask, and issue a recovery command only when no other
\* command runs, and no command before it has removed the lock.
\* "exclusive": one command at a time.
MayIssue(c) ==
  CASE Discipline = "none" -> TRUE
    [] Discipline = "look_first" ->
         /\ c \in {"resume", "unlock"} => \A s \in Run : run[s].pc = "idle"
         /\ \A s \in Run : run[s].pc \notin
              {"resumeLock", "resumeLive", "resumeUnlock", "unlock"}
    [] Discipline = "exclusive" -> \A s \in Run : run[s].pc = "idle"

Issue(r, c) == c \in Commands /\ run[r].pc = "idle" /\ MayIssue(c)

\* The bound MaxRelease: no deploy starts that could not get a number.
NumberLeft ==
  NextReleaseNumber
    + Cardinality({s \in Run : run[s].cmd = "deploy" /\ run[s].num = 0})
    <= MaxRelease

\* runDeploy without --resume.  A deploy the no-op fast path answers "already
\* deployed" changes nothing and is a stuttering step.
StartDeploy(r, skip) ==
  /\ Issue(r, "deploy")
  /\ NumberLeft
  /\ Set(r, [Idle EXCEPT !.pc = "step", !.cmd = "deploy", !.idx = 1,
                         !.status = "running", !.nolock = skip])
  /\ UNCHANGED <<target, inside, faults>>

\* runDeploy --resume, prepareResume: the newest unfinished record is copied
\* whole.  Without one the command is a plain deploy.
StartResume(r, skip) ==
  /\ Issue(r, "resume")
  /\ \E n \in IncompleteRelease :
       Set(r, [Idle EXCEPT !.pc = "resumeLock", !.cmd = "deploy", !.num = n,
                           !.status = rec[n].status, !.done = rec[n].done,
                           !.nolock = skip])
  /\ UNCHANGED <<target, inside, faults>>

\* Only a record that says running is protected by the lock: it must be gone
\* or old enough.  owner.json missing means its age cannot be told.
ResumeCheckLock(r) ==
  /\ run[r].pc = "resumeLock"
  /\ IF run[r].status = "running" /\ lock # NoRun /\ owner # "stale"
       THEN Set(r, Idle)
       ELSE Goto(r, "resumeLive")
  /\ UNCHANGED <<target, inside, faults>>

\* Mutant: nothing is refused.
ResumeCheckLiveNever(r) ==
  /\ run[r].pc = "resumeLive"
  /\ Goto(r, "resumeUnlock")
  /\ UNCHANGED <<target, inside, faults>>

\* Mutant: the live release itself counts as newer.
ResumeCheckLiveOffByOne(r) ==
  /\ run[r].pc = "resumeLive"
  /\ IF live \in Recorded /\ run[r].num <= live
       THEN Set(r, Idle)
       ELSE Goto(r, "resumeUnlock")
  /\ UNCHANGED <<target, inside, faults>>

\* Never resume backwards: refused when the live release has a record and is
\* newer.
ResumeCheckLive(r) ==
  /\ run[r].pc = "resumeLive"
  /\ IF live \in Recorded /\ run[r].num < live
       THEN Set(r, Idle)
       ELSE Goto(r, "resumeUnlock")
  /\ UNCHANGED <<target, inside, faults>>

\* prepareResume clears whatever is at the lock path.
ResumeUnlock(r) ==
  /\ run[r].pc = "resumeUnlock"
  /\ RemoveLock
  /\ Goto(r, "resumeRun")
  /\ UNCHANGED <<dirs, rec, stray, live, content, inside, faults>>

\* Mutant: every task is run again.
ResumeRunRepeats(r) ==
  /\ run[r].pc = "resumeRun"
  /\ Set(r, [run[r] EXCEPT !.pc = "step", !.idx = 1])
  /\ UNCHANGED <<target, inside, faults>>

\* The head of Executor.Run: the record is read again to decide which tasks an
\* earlier run already did.  An unreadable record means none.
ResumeRun(r) ==
  /\ run[r].pc = "resumeRun"
  /\ Set(r, [run[r] EXCEPT !.pc = "step", !.idx = 1,
                           !.carried = rec[run[r].num].done \ ResumeAlwaysReruns])
  /\ UNCHANGED <<target, inside, faults>>

-----------------------------------------------------------------------------
(* The loop of Executor.Run. *)

AtStep(r, t) ==
  /\ run[r].pc = "step"
  /\ run[r].idx <= Len(Pipeline)
  /\ Pipeline[run[r].idx] = t

\* Mutant: the carried step is recorded as skipped.
CarryOverAsSkipped(r) ==
  /\ \E t \in Task :
       /\ AtStep(r, t) /\ t \in run[r].carried
       /\ LET rs == [run[r] EXCEPT !.idx = @ + 1, !.done = @ \ {t}]
          IN  Set(r, rs) /\ StoreRecord(rs)
  /\ UNCHANGED <<lock, owner, live, content, inside>>

\* carryOver: the stored `ok` is kept and the record is stored.
CarryOver(r) ==
  /\ \E t \in Task : AtStep(r, t) /\ t \in run[r].carried
  /\ Set(r, [run[r] EXCEPT !.idx = @ + 1])
  /\ StoreRecord(run[r])
  /\ UNCHANGED <<lock, owner, live, content, inside>>

\* Locking disabled, or an unlock without a lock of one's own: skipped, and
\* recorded as such.
SkipLockStep(r) ==
  /\ \E t \in {"lock", "unlock"} :
       /\ AtStep(r, t)
       /\ run[r].nolock \/ (t = "unlock" /\ ~run[r].held)
       /\ LET rs == [run[r] EXCEPT !.idx = @ + 1, !.done = @ \ {t}]
          IN  Set(r, rs) /\ StoreRecord(rs)
  /\ UNCHANGED <<lock, owner, live, content, inside>>

\* The step is one this run executes.
Due(r, t) ==
  /\ AtStep(r, t)
  /\ t \notin run[r].carried
  /\ ~(t \in {"lock", "unlock"} /\ run[r].nolock)
  /\ ~(t = "unlock" /\ ~run[r].held)

\* A step that changes no state other commands see, or only the content of
\* the release directory.
PlainStep(r) ==
  /\ \E t \in {"check", "migrate", "record"} \cup InRelease :
       /\ Due(r, t)
       /\ t \in InRelease => run[r].num \in dirs
       /\ content' = IF t \in InRelease
                       THEN [content EXCEPT ![run[r].num] = @ \cup {t}]
                       ELSE content
  /\ Goto(r, "write")
  /\ UNCHANGED <<lock, owner, dirs, rec, stray, live, inside, faults>>

\* CoreLock, first command: one atomic mkdir, refused when the directory is
\* there.  A refused rollback just ends.
LockRefused(r) ==
  Set(r, IF run[r].cmd = "rollback" THEN Idle ELSE [run[r] EXCEPT !.pc = "failed"])

\* Mutant: mkdir -p, which succeeds when the directory is there.
LockMkdirParents(r) ==
  /\ run[r].pc = "mkdir" \/ Due(r, "lock")
  /\ lock' = r
  /\ owner' = "none"
  /\ Goto(r, "owner")
  /\ UNCHANGED <<dirs, rec, stray, live, content, inside, faults>>

LockMkdir(r) ==
  /\ run[r].pc = "mkdir" \/ Due(r, "lock")
  /\ \/ /\ lock = NoRun
        /\ lock' = r
        /\ owner' = "none"
        /\ Goto(r, "owner")
     \/ /\ lock # NoRun
        /\ LockRefused(r)
        /\ UNCHANGED <<lock, owner>>
  /\ UNCHANGED <<dirs, rec, stray, live, content, inside, faults>>

\* CoreLock, second command: owner.json.  It fails when the directory is gone.
\* After a failed write the lock directory is removed, if that works.
LockOwner(r) ==
  /\ run[r].pc = "owner"
  /\ \/ /\ lock # NoRun
        /\ owner' = "fresh"
        /\ inside' = inside \cup {r}
        /\ Goto(r, IF run[r].cmd = "rollback" THEN "activate" ELSE "write")
        /\ UNCHANGED <<lock, faults>>
     \/ /\ \/ lock = NoRun /\ RemoveLock /\ UNCHANGED faults
           \/ lock # NoRun /\ Fault /\ (RemoveLock \/ UNCHANGED <<lock, owner>>)
        /\ LockRefused(r)
        /\ UNCHANGED inside
  /\ UNCHANGED <<dirs, rec, stray, live, content>>

\* CoreRelease: the number the record already has, or the next one; an
\* existing directory is reused only when it carries govard's record.  NumberLeft
\* sees to it that the number is one of Number.
ReleaseNumber(r) == IF run[r].num = 0 THEN NextReleaseNumber ELSE run[r].num

ReleaseStep(r) ==
  /\ Due(r, "release")
  /\ ReleaseNumber(r) \in Number
  /\ ReleaseNumber(r) \in dirs => ReleaseNumber(r) \in Recorded
  /\ dirs' = dirs \cup {ReleaseNumber(r)}
  /\ Set(r, [run[r] EXCEPT !.pc = "write", !.num = ReleaseNumber(r)])
  /\ UNCHANGED <<lock, owner, rec, stray, live, content, inside, faults>>

\* CoreActivate, activateSymlink: the rename swaps the link atomically.
ActivateStep(r) ==
  /\ Due(r, "activate")
  /\ live' = run[r].num
  /\ Goto(r, "write")
  /\ UNCHANGED <<lock, owner, dirs, rec, stray, content, inside, faults>>

\* CoreVerify: `current` must resolve to the release.
VerifyStep(r) ==
  /\ Due(r, "verify")
  /\ live = run[r].num
  /\ Goto(r, "write")
  /\ UNCHANGED <<target, inside, faults>>

RemoveReleases(S) ==
  /\ dirs' = dirs \ S
  /\ rec' = [n \in Number |-> IF n \in S THEN NoRecord ELSE rec[n]]
  /\ content' = [n \in Number |-> IF n \in S THEN {} ELSE content[n]]

\* CoreCleanup
CleanupStep(r) ==
  /\ Due(r, "cleanup")
  /\ RemoveReleases(Pruned(run[r].num))
  /\ Goto(r, "write")
  /\ UNCHANGED <<lock, owner, stray, live, inside, faults>>

\* CoreUnlock removes whatever is at the lock path; lockHeld stays set.
UnlockStep(r) ==
  /\ Due(r, "unlock")
  /\ RemoveLock
  /\ inside' = inside \ {r}
  /\ Goto(r, "write")
  /\ UNCHANGED <<dirs, rec, stray, live, content, faults>>

\* A step that cannot succeed: its own check fails.
StepRefused(r) ==
  /\ \/ Due(r, "release") /\ ReleaseNumber(r) \in dirs \ Recorded
     \/ Due(r, "verify") /\ live # run[r].num
     \/ \E t \in InRelease : Due(r, t) /\ run[r].num \notin dirs
  /\ Goto(r, "failed")
  /\ UNCHANGED <<target, inside, faults>>

\* What a step that failed may have done before it failed, or before the
\* connection dropped that would have told its result.
HalfDone(r, t) ==
  \/ UNCHANGED <<target, inside>>
  \/ /\ t = "lock" /\ lock = NoRun
     /\ lock' = r
     /\ owner' = "none"
     /\ UNCHANGED <<dirs, rec, stray, live, content, inside>>
  \/ /\ t = "release" /\ run[r].num = 0 /\ NextReleaseNumber \in Number
     /\ dirs' = dirs \cup {NextReleaseNumber}
     /\ UNCHANGED <<lock, owner, rec, stray, live, content, inside>>
  \/ /\ t = "activate"
     /\ live' = run[r].num
     /\ UNCHANGED <<lock, owner, dirs, rec, stray, content, inside>>
  \/ /\ t = "cleanup"
     /\ \E k \in Pruned(run[r].num) :
          RemoveReleases({n \in Pruned(run[r].num) : n >= k})
     /\ UNCHANGED <<lock, owner, stray, live, inside>>
  \/ /\ t = "unlock"
     /\ RemoveLock
     /\ inside' = inside \ {r}
     /\ UNCHANGED <<dirs, rec, stray, live, content>>

\* A step that fails: a command exits non-zero, times out, or the connection
\* drops.
StepFails(r) ==
  /\ Fault
  /\ \E t \in Task : Due(r, t) /\ HalfDone(r, t)
  /\ Goto(r, "failed")

\* record(..., StepOK): the record is stored after every step; then the run
\* notes that it holds the lock.
RecordStep(r) ==
  /\ run[r].pc = "write"
  /\ LET t  == Pipeline[run[r].idx]
         rs == [run[r] EXCEPT !.pc = "step", !.idx = @ + 1,
                              !.done = @ \cup {t},
                              !.held = @ \/ t = "lock"]
     IN  Set(r, rs) /\ StoreRecord(rs)
  /\ UNCHANGED <<lock, owner, live, content, inside>>

\* Mutant: a run that does not hold the lock releases it as well.
RecordFailureNotHeld(r) ==
  /\ run[r].pc = "failed"
  /\ LET t     == Pipeline[run[r].idx]
         rs    == [run[r] EXCEPT !.pc = "release", !.status = "failed", !.done = @ \ {t}]
         stays == LockKeptOnFailure(t)
     IN  /\ Set(r, IF stays THEN Idle ELSE rs)
         /\ inside' = IF stays THEN inside \ {r} ELSE inside
         /\ BestEffortWrite(rs)
  /\ UNCHANGED <<lock, owner, live, content>>

\* Mutant: the failed step is recorded as ok.
RecordFailureAsOk(r) ==
  /\ run[r].pc = "failed"
  /\ LET t     == Pipeline[run[r].idx]
         rs    == [run[r] EXCEPT !.pc = "release", !.status = "failed", !.done = @ \cup {t}]
         stays == LockKeptOnFailure(t) \/ ~run[r].held
     IN  /\ Set(r, IF stays THEN Idle ELSE rs)
         /\ inside' = IF stays THEN inside \ {r} ELSE inside
         /\ BestEffortWrite(rs)
  /\ UNCHANGED <<lock, owner, live, content>>

\* The failure path of Run: the failed step and Status = failed are stored (two
\* writes, the second of which contains the first and has no guard on the
\* number), then the stage decides whether the lock is released.
RecordFailure(r) ==
  /\ run[r].pc = "failed"
  /\ LET t     == Pipeline[run[r].idx]
         rs    == [run[r] EXCEPT !.pc = "release", !.status = "failed", !.done = @ \ {t}]
         stays == LockKeptOnFailure(t) \/ ~run[r].held
     IN  /\ Set(r, IF stays THEN Idle ELSE rs)
         /\ inside' = IF stays THEN inside \ {r} ELSE inside
         /\ BestEffortWrite(rs)
  /\ UNCHANGED <<lock, owner, live, content>>

\* releaseLockAfterFailure; a removal that fails is only reported.
ReleaseLockAfterFailure(r) ==
  /\ run[r].pc = "release"
  /\ \/ RemoveLock /\ UNCHANGED faults
     \/ Fault /\ UNCHANGED <<lock, owner>>
  /\ inside' = inside \ {r}
  /\ Set(r, Idle)
  /\ UNCHANGED <<dirs, rec, stray, live, content>>

\* The tail of Run, after deploy:unlock: Status = ok is stored.
FinishRun(r) ==
  /\ run[r].pc = "step"
  /\ run[r].idx > Len(Pipeline)
  /\ BestEffortWrite([run[r] EXCEPT !.status = "ok"])
  /\ Set(r, Idle)
  /\ inside' = inside \ {r}
  /\ UNCHANGED <<lock, owner, live, content>>

-----------------------------------------------------------------------------
(* rollback, unlock, and the environment. *)

\* Mutant: every recorded release, whatever its status.
UsableRecorded == Recorded

\* SelectRollbackTarget: any recorded release whose status is ok (--to); the
\* default, the newest one older than the live release, is among them.  The
\* target is chosen before the lock is taken.
Usable == {n \in Recorded : rec[n].status = "ok"}

RollbackSelect(r, skip) ==
  /\ Issue(r, "rollback")
  /\ \E n \in Usable :
       Set(r, [Idle EXCEPT !.pc = IF skip THEN "activate" ELSE "mkdir",
                           !.cmd = "rollback", !.num = n, !.nolock = skip])
  /\ UNCHANGED <<target, inside, faults>>

\* RunStep(publish:activate); a failure goes straight to the deferred unlock.
\* The flush and the verification that follow change nothing modelled here.
RollbackActivate(r) ==
  /\ run[r].pc = "activate"
  /\ \/ live' = run[r].num /\ UNCHANGED faults
     \/ Fault /\ UNCHANGED live
  /\ IF run[r].nolock THEN Set(r, Idle) ELSE Goto(r, "deferred")
  /\ UNCHANGED <<lock, owner, dirs, rec, stray, content, inside>>

\* The deferred CoreUnlock.
RollbackUnlock(r) ==
  /\ run[r].pc = "deferred"
  /\ \/ RemoveLock /\ UNCHANGED faults
     \/ Fault /\ UNCHANGED <<lock, owner>>
  /\ inside' = inside \ {r}
  /\ Set(r, Idle)
  /\ UNCHANGED <<dirs, rec, stray, live, content>>

\* unlockDeploy: refused for a lock whose age is known and below
\* lock_stale_after, unless --force is given.
UnlockCheck(r, force) ==
  /\ Issue(r, "unlock")
  /\ lock # NoRun
  /\ force \/ owner # "fresh"
  /\ Set(r, [Idle EXCEPT !.pc = "unlock", !.cmd = "unlock"])
  /\ UNCHANGED <<target, inside, faults>>

UnlockRemove(r) ==
  /\ run[r].pc = "unlock"
  /\ RemoveLock
  /\ Set(r, Idle)
  /\ UNCHANGED <<dirs, rec, stray, live, content, inside, faults>>

\* The process is killed: nothing is cleaned up.
Crash(r) ==
  /\ run[r].pc # "idle"
  /\ Fault
  /\ Set(r, Idle)
  /\ inside' = inside \ {r}
  /\ UNCHANGED target

\* Time passes lock_stale_after.  Unless there are slow runs, the lock is then
\* one that a run left behind.
LockAges ==
  /\ owner = "fresh"
  /\ SlowRuns \/ inside = {}
  /\ owner' = "stale"
  /\ UNCHANGED <<lock, dirs, rec, stray, live, content, run, inside, faults>>

\* Nobody issues a command any more.
Quiet ==
  /\ \A r \in Run : run[r].pc = "idle"
  /\ UNCHANGED vars

-----------------------------------------------------------------------------
Init ==
  /\ lock = NoRun
  /\ owner = "none"
  /\ dirs = Foreign
  /\ rec = [n \in Number |-> NoRecord]
  /\ stray = FALSE
  /\ live \in Foreign \cup {0}
  /\ content = [n \in Number |-> {}]
  /\ run = [r \in Run |-> Idle]
  /\ inside = {}
  /\ faults = 0

\* What a command does by itself once it is issued.
Step(r) ==
  \/ ResumeCheckLock(r) \/ ResumeCheckLive(r) \/ ResumeUnlock(r) \/ ResumeRun(r)
  \/ CarryOver(r) \/ SkipLockStep(r) \/ PlainStep(r)
  \/ LockMkdir(r) \/ LockOwner(r) \/ ReleaseStep(r) \/ ActivateStep(r)
  \/ VerifyStep(r) \/ CleanupStep(r) \/ UnlockStep(r)
  \/ StepRefused(r) \/ RecordStep(r) \/ RecordFailure(r)
  \/ ReleaseLockAfterFailure(r) \/ FinishRun(r)
  \/ RollbackActivate(r) \/ RollbackUnlock(r) \/ UnlockRemove(r)

Next ==
  \/ \E r \in Run :
       \/ \E skip \in SkipLock :
            StartDeploy(r, skip) \/ StartResume(r, skip) \/ RollbackSelect(r, skip)
       \/ \E force \in UnlockForce : UnlockCheck(r, force)
       \/ Step(r)
       \/ StepFails(r)
       \/ Crash(r)
  \/ LockAges
  \/ Quiet

Spec == Init /\ [][Next]_vars

\* A command that was issued keeps running until it ends, and time passes.
Fairness == WF_vars(LockAges) /\ \A r \in Run : WF_vars(Step(r))

FairSpec == Spec /\ Fairness

-----------------------------------------------------------------------------
\* Every variable keeps its type; above all NextReleaseNumber stays within the
\* numbers and a record's step list within the tasks.
TypeOK ==
  /\ lock \in Run \cup {NoRun}
  /\ owner \in {"none", "fresh", "stale"}
  /\ dirs \subseteq Number
  /\ rec \in [Number -> Record]
  /\ stray \in BOOLEAN
  /\ live \in 0 .. MaxRelease
  /\ content \in [Number -> SUBSET InRelease]
  /\ run \in [Run -> RunState]
  /\ inside \subseteq Run
  /\ faults \in 0 .. MaxFaults

\* The lock (CoreLock, CoreUnlock): two runs never work on the target at the
\* same time.
MutualExclusion == \A r, s \in inside : r = s

\* Nobody removes or replaces the lock of a run that still relies on it: not the
\* failure path of a refused run, not a run with locking disabled, not a
\* deferred unlock.
HolderKeepsLock == \A r \in inside : lock = r

\* What prepareResume promises: no two deploys execute steps on one release
\* directory.
OneDeployPerRelease ==
  \A r, s \in inside :
    /\ run[r].pc \in {"step", "write"} /\ run[s].pc \in {"step", "write"}
    /\ run[r].num = run[s].num /\ run[r].num # 0
    => r = s

\* The run the lock directory belongs to, if that run still relies on it.
Holder ==
  IF lock # NoRun /\ (lock \in inside \/ run[lock].pc = "owner") THEN lock ELSE NoRun

\* The abstract lock, seen through the lock directory.
Mutex == INSTANCE DeployMutex
           WITH holder <- Holder, abandoned <- (lock # NoRun /\ Holder = NoRun)

\* The files on the target implement the mutex: a held lock only ends by its
\* holder's hand, and an abandoned one only by a recovery command.
LockIsAMutex == Mutex!Spec

\* record: nothing is written before deploy:release has fixed the number, so no
\* record ever lies beside the releases.
NoStrayRecord == ~stray

\* CoreCleanup and CoreRelease leave alone what another tool created.
ForeignUntouched == \A n \in Foreign : n \in dirs /\ rec[n] = NoRecord /\ content[n] = {}

\* NextReleaseNumber never hands out a number twice: the highest directory is
\* never removed, whoever prunes whenever.
HighestKept == [][\A n \in dirs : (\A m \in dirs : m <= n) => n \in dirs']_vars

\* What a complete release directory holds.
Planned == {Pipeline[i] : i \in 1 .. Len(Pipeline)} \cap InRelease

\* What the site serves is there and was built (activateSymlink checks neither).
LiveIsBuilt == live \notin Foreign \cup {0} => live \in dirs /\ Planned \subseteq content[live]

\* What a rollback may choose is a release that was built and put live.
UsableIsBuilt ==
  \A n \in Usable : Planned \subseteq content[n] /\ "activate" \in rec[n].done

\* carryOver: a success in a release's record is never lost again, however
\* often its runs fail and are resumed.
OkNeverLost ==
  [][\A n \in Recorded : n \in Recorded' =>
       rec[n].done \ ResumeAlwaysReruns \subseteq rec'[n].done]_vars

\* A task a release's record says succeeded is not run again for it.
NeverRepeated ==
  [][\A r \in Run :
       run[r].pc = "step" /\ run'[r].pc = "write" /\ run[r].num # 0 =>
         Pipeline[run[r].idx] \notin rec[run[r].num].done \ ResumeAlwaysReruns]_vars

\* prepareResume, "Never resume backwards": a deploy never puts an older release
\* in front of a newer one.
NeverBackwards ==
  [][\A r \in Run : run[r].cmd = "deploy" /\ run'[r] # run[r] => live' >= live]_vars

\* The operator resumes, and removes a lock whose owner cannot be read, as often
\* as the refusals say so.
OperatorKeepsTrying ==
  \A r \in Run : SF_vars(StartResume(r, FALSE)) /\ SF_vars(UnlockCheck(r, FALSE))

\* "A resume can be repeated as often as it takes": an unfinished release is
\* finished, or a newer release goes live.
ResumeFinishes ==
  OperatorKeepsTrying =>
    \A n \in Number : n \in Incomplete ~> (n \notin Incomplete \/ live > n)
=============================================================================
