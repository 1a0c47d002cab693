---------------------------- MODULE PublishWindow ----------------------------
(***************************************************************************)
(* What a deploy does to the site that is being served: the maintenance    *)
(* window, the migration and its probe, the activation under both publish  *)
(* strategies, `--resume`, `--from`, and `deploy rollback --with-db`.      *)
(* One govard command runs at a time; steps fail, writes of the record are *)
(* lost and processes are killed.  Another machine competes for the lock;  *)
(* what it does with it, and commands that race, are module Deploy.        *)
(***************************************************************************)
EXTENDS DeployPlan

CONSTANTS
  Setups,            \* a sequence of projects: [recipe, hooks, mode, strategy, probe],
                     \* what may befall their commands, [faults, lossy],
                     \* and the values of --from, "" when it is not given
  MaxRelease,        \* bound on the release numbers
  SyncPaths,         \* what an in-place activation copies after the reset
  Rollers,           \* who rolls back: "cli", "desktop"
  WithDB,            \* the values of --with-db
  RollbackWhen       \* "complete": not while a release is unfinished; "any"

ASSUME PublishWindowAssumption ==
  /\ MaxRelease \in Nat \ {0}
  /\ Rollers \subseteq {"cli", "desktop"}
  /\ WithDB \subseteq BOOLEAN
  /\ RollbackWhen \in {"complete", "any"}
  /\ \A s \in DOMAIN Setups :
       Buildable(Setups[s].recipe, Setups[s].hooks) /\ Setups[s].faults \in Nat

VARIABLES
  setup,    \* the project: an index of Setups
  served,   \* the release each part of the served tree comes from
  flags,    \* the served trees with a maintenance flag in them
  db,       \* "current", "behind" the newest release's code, or "half"
  rec,      \* the release records
  lock,     \* "free", "ours", "other"
  cmd,      \* the command that runs
  faults    \* how many faults happened so far

vars == <<setup, served, flags, db, rec, lock, cmd, faults>>

ASSUME RecipesAssumption ==
  \A i \in DOMAIN Setups : IsRecipe(Setups[i].recipe) /\ AreHooks(Setups[i].hooks)

\* In place a rollback runs the tail of its plan as a run of its own, without the
\* verification if a restore is still to come.
TailsOf(back) ==
  [restore \in BOOLEAN |->
     Excluding(From(back, "activate"),
               {"unlock", "cleanup"} \cup IF restore THEN {"verify"} ELSE {})]

\* deployPlanFor shapes the plan of a deploy, for the mode and the strategy; a
\* rollback builds nothing and its plan is shaped for the strategy only.
ShapedFor(project, plan) ==
  [deploy   |-> ForPublishStrategy(ForBuildMode(plan, project.mode), project.strategy),
   rollback |-> ForPublishStrategy(plan, project.strategy),
   tail     |-> TailsOf(ForPublishStrategy(plan, project.strategy))]

Shaped ==
  [i \in DOMAIN Setups |->
     ShapedFor(Setups[i], BuildPlan(Setups[i].recipe, Setups[i].hooks))]

Project == Setups[setup]

Plan == Shaped[setup].deploy

Number == 1 .. MaxRelease

Parts == {"code"} \cup SyncPaths

AllOf(n) == [p \in Parts |-> n]

\* The tree requests land in: the release `current` points at, or the docroot.
\* A target that serves no release yet has nothing to protect.
Docroot == 0
Symlink == Project.strategy = "symlink"
Serving == \A p \in Parts : served[p] # 0
Site    == IF Symlink THEN served["code"] ELSE Docroot
Down    == Site \in flags

-----------------------------------------------------------------------------
(* Records and commands. *)

\* task: what the record says of each step; verdict: MigrationRecord.
NewRecord == [status |-> "none", task |-> [id \in Ids(Plan) |-> "none"],
              verdict |-> "none"]

Incomplete == {n \in Number : rec[n].status \in {"running", "failed"}}
IncompleteRelease == {n \in Incomplete : \A m \in Incomplete : m <= n}

Usable == {n \in Number : rec[n].status = "ok"}

Created == {n \in Number : rec[n].status # "none"}
NextNumber == IF Created = {} THEN 1 ELSE 1 + CHOOSE n \in Created : \A m \in Created : m <= n

\* Mutant: an enable that failed does not count.
MaintenanceMayBeOnIfOk(record) ==
  /\ "enable" \in DOMAIN record.task /\ record.task["enable"] = "ok"
  /\ "disable" \in DOMAIN record.task => record.task["disable"] # "ok"

\* Release.MaintenanceMayBeOn
MaintenanceMayBeOn(record) ==
  /\ "enable" \in DOMAIN record.task /\ record.task["enable"] \in {"ok", "failed"}
  /\ "disable" \in DOMAIN record.task => record.task["disable"] # "ok"

ResumeAlwaysReruns == {"check", "lock", "unlock", "shared"}

Idle == [pc |-> "idle"]

\* A run of the executor over Steps: passed are the steps --from put behind
\* it, carried those an earlier run of the release succeeded at.
Running(n, mem) ==
  [pc |-> "run", num |-> n, idx |-> 1, mem |-> mem,
   carried |-> {}, passed |-> {}, probed |-> FALSE, required |-> TRUE,
   window |-> TRUE, held |-> FALSE, good |-> TRUE,
   rollback |-> FALSE, by |-> "cli", original |-> mem, queue |-> <<>>]

Steps == IF cmd.rollback THEN Shaped[setup].tail[Contains(cmd.queue, "restore")]
                         ELSE Plan

Step == Steps[cmd.idx]

AtStep == cmd.pc = "run" /\ cmd.idx <= Len(Steps)

\* Bound: a step that fails, a write or a read that is lost, a killed process.
Faulty(count) == faults' = faults + count /\ faults' <= Project.faults

Fault == Faulty(1)

Losses == IF Project.lossy THEN {0, 1} ELSE {0}

\* A write of the record, after `cost` other faults in the same step.  Writes
\* start with the number, and a lost one ends nothing.
StoreAfter(n, record, cost) ==
  \E lost \in IF n = 0 THEN {0} ELSE Losses :
    /\ Faulty(cost + lost)
    /\ rec' = IF n = 0 \/ lost = 1 THEN rec ELSE [rec EXCEPT ![n] = record]

Store(n, record) == StoreAfter(n, record, 0)

-----------------------------------------------------------------------------
(* Issuing a deploy. *)

\* validateFromNeedsResume: a run without a release starts at deploy:release
\* or before it.  With --resume it is not asked, also when nothing is unfinished.
FromIsAllowed(from) ==
  \/ from = ""
  \/ IndexOf(Plan, from) \in 1 .. IndexOf(Plan, "release")
  \/ from \in Ids(Plan) /\ Incomplete = {}

Before(from) ==
  IF from = "" THEN {} ELSE Ids(SubSeq(Plan, 1, IndexOf(Plan, from) - 1))

\* runDeploy, for a revision that may bring migrations of its own.
StartDeploy(from) ==
  /\ cmd = Idle
  /\ NextNumber \in Number
  /\ FromIsAllowed(from)
  /\ db' \in {db, "behind"}
  /\ cmd' = [Running(0, [NewRecord EXCEPT !.status = "running"])
               EXCEPT !.pc = "head", !.passed = Before(from)]
  /\ UNCHANGED <<setup, served, flags, rec, lock, faults>>

\* prepareResume.  A record that says running is protected by its lock until
\* the lock is stale, which it is in the end: nobody else holds it here.
StartResume(from) ==
  /\ cmd = Idle
  /\ from = "" \/ from \in Ids(Plan)
  /\ lock # "other"
  /\ \E n \in IncompleteRelease :
       /\ ~(served["code"] \in Created /\ n < served["code"])
       /\ cmd' = [Running(n, rec[n])
                    EXCEPT !.pc = "resume", !.passed = Before(from)]
  /\ lock' = "free"
  /\ UNCHANGED <<setup, served, flags, db, rec, faults>>

\* Mutant: a step that was tried counts as one that succeeded.
SucceededOrTried ==
  {t \in Ids(Plan) : rec[cmd.num].task[t] # "none"} \ ResumeAlwaysReruns

\* What the record says succeeded; steps that are always run again do not count.
Succeeded == {t \in Ids(Plan) : rec[cmd.num].task[t] = "ok"} \ ResumeAlwaysReruns

Again(from) == IF from = {} THEN {} ELSE Ids(Plan) \ from

\* Mutant: a recorded skip is adopted too.
AdoptAnyVerdict ==
  /\ cmd.pc = "resume"
  /\ cmd' = [cmd EXCEPT !.pc = "head", !.carried = Succeeded \ Again(cmd.passed),
                        !.probed = rec[cmd.num].verdict # "none",
                        !.required = rec[cmd.num].verdict # "skip"]
  /\ UNCHANGED <<setup, served, flags, db, rec, lock, faults>>

\* Executor.Run reads the record again: what succeeded is carried over, unless
\* --from asks for it again, and a verdict to migrate is adopted.  A record that
\* cannot be read carries nothing over.
ReadRecord ==
  /\ cmd.pc = "resume"
  /\ \/ /\ cmd' = [cmd EXCEPT !.pc = "head", !.carried = Succeeded \ Again(cmd.passed),
                              !.probed = rec[cmd.num].verdict = "migrate"]
        /\ UNCHANGED faults
     \/ Project.lossy /\ Fault /\ cmd' = [cmd EXCEPT !.pc = "head"]
  /\ UNCHANGED <<setup, served, flags, db, rec, lock>>

\* Mutant: the step that takes the lock is passed over like any other.
PassTheLock ==
  /\ cmd.pc = "head"
  /\ cmd' = [cmd EXCEPT !.pc = "run"]
  /\ UNCHANGED <<setup, served, flags, db, rec, lock, faults>>

\* A run that passes deploy:lock takes the lock before its first step.
TakeLockUpFront ==
  /\ cmd.pc = "head"
  /\ IF "lock" \notin cmd.passed
       THEN cmd' = [cmd EXCEPT !.pc = "run"] /\ UNCHANGED lock
       ELSE IF lock = "free"
       THEN cmd' = [cmd EXCEPT !.pc = "run", !.held = TRUE] /\ lock' = "ours"
       ELSE cmd' = Idle /\ UNCHANGED lock
  /\ UNCHANGED <<setup, served, flags, db, rec, faults>>

-----------------------------------------------------------------------------
(* The loop of Executor.Run, one step of the plan. *)

Behind == Step.id \in cmd.passed \cup cmd.carried

NotRun == Step.skipped \/ ~Step.implemented

Gated == Step.gated /\ ~Behind /\ ~NotRun

Record(status) == [cmd.mem EXCEPT !.task[Step.id] = status]

Advance(mem) == cmd' = [cmd EXCEPT !.pc = "run", !.idx = @ + 1, !.mem = mem]

\* carryOver keeps the stored `ok`.
CarryOver ==
  /\ AtStep
  /\ Step.id \in cmd.carried
  /\ Advance(Record("ok"))
  /\ Store(cmd.num, cmd'.mem)
  /\ UNCHANGED <<setup, served, flags, db, lock>>

ProbeIsDue == Gated /\ ~cmd.probed /\ Project.probe

\* Passed by --from, shaped away by the plan, excused by the probe, or an
\* unlock without a lock.
Skip ==
  /\ AtStep
  /\ Step.id \notin cmd.carried
  /\ ~ProbeIsDue
  /\ \/ Step.id \in cmd.passed
     \/ NotRun
     \/ Step.gated /\ ~cmd.required
     \/ Step.id = "unlock" /\ ~cmd.held
  /\ Advance(Record("skipped"))
  /\ Store(cmd.num, cmd'.mem)
  /\ UNCHANGED <<setup, served, flags, db, lock>>

\* Mutant: whenever nothing is to be migrated the window's bound goes.
WindowGone(required) == ~required

\* windowIsGated: in place the bound stays, the window opens all the same.
WindowDropped(required) ==
  ~required /\ \E i \in DOMAIN Steps : Steps[i].id = "enable" /\ Steps[i].gated

\* checkMigrationRequired, at the first gated step that would run; the verdict
\* is written before that step starts.
Probe ==
  /\ AtStep
  /\ ProbeIsDue
  /\ LET required == db # "current"
         mem == [cmd.mem EXCEPT !.verdict = IF required THEN "migrate" ELSE "skip"]
     IN  /\ cmd' = [cmd EXCEPT !.probed = TRUE, !.required = required, !.mem = mem,
                               !.window = @ /\ ~WindowDropped(required)]
         /\ Store(cmd.num, mem)
  /\ UNCHANGED <<setup, served, flags, db, lock>>

Due ==
  /\ AtStep
  /\ ~Behind /\ ~NotRun /\ ~ProbeIsDue
  /\ Step.gated => cmd.required
  /\ Step.id = "unlock" => cmd.held

\* Past prepare a step needs the release number.
NeedsNumber == cmd.num = 0 /\ Step.stage # "prepare"

\* The flag of the served application, if one is served: magentoServedAppGuard.
\* An enable or disable that fails may have done it.
FlagAfter(id, good) ==
  LET on  == IF served["code"] = 0 THEN flags ELSE flags \cup {Site}
      off == flags \ {Site}
  IN  CASE id = "enable"  -> IF good THEN {on} ELSE {flags, on}
        [] id = "disable" -> IF good THEN {off} ELSE {flags, off}
        [] OTHER -> {flags}

\* Mutant: a swap that is not atomic.
ServedAfterTorn(n, good) ==
  IF good THEN {AllOf(n)}
  ELSE {[p \in Parts |-> IF p \in done THEN n ELSE served[p]] :
          done \in {S \in SUBSET Parts : S = {} \/ "code" \in S}}

\* CoreActivate.  A symlink is swapped by a rename; in place the docroot is
\* reset and then copied into, and a failure leaves what was done so far.
ServedAfter(n, good) ==
  CASE good             -> {AllOf(n)}
    [] ~good /\ Symlink -> {served}
    [] OTHER -> {[p \in Parts |-> IF p \in done THEN n ELSE served[p]] :
                   done \in {S \in SUBSET Parts : S = {} \/ "code" \in S}}

DBAfter(id, good) ==
  CASE id = "migrate" -> IF good THEN {"current"} ELSE {db}
    [] id = "restore" -> IF good THEN {"current", "behind"} ELSE {db, "half"}
    [] OTHER -> {db}

\* What a step does to the target, and whether it can succeed at all.
Effect(id, n, good) ==
  /\ flags' \in FlagAfter(id, good)
  /\ served' \in IF id = "activate" THEN ServedAfter(n, good) ELSE {served}
  /\ db' \in DBAfter(id, good)

Possible(id, n) ==
  /\ id = "lock" => lock = "free"
  /\ id = "verify" => served = AllOf(n)

Attempt(id, n, good) ==
  /\ IF good THEN Possible(id, n) /\ UNCHANGED faults
     ELSE IF Possible(id, n) THEN Fault ELSE UNCHANGED faults
  /\ Effect(id, n, good)

NumberAfter == IF Step.id = "release" /\ cmd.num = 0 THEN NextNumber ELSE cmd.num

RunStep ==
  /\ Due
  /\ ~NeedsNumber
  /\ \E good \in BOOLEAN :
       /\ Attempt(Step.id, cmd.num, good)
       /\ lock' = CASE Step.id = "lock" /\ good -> "ours"
                    [] Step.id = "unlock" /\ good -> "free"
                    [] OTHER -> lock
       /\ cmd' = [cmd EXCEPT !.pc = "write", !.good = good,
                             !.num = IF good THEN NumberAfter ELSE @]
  /\ UNCHANGED <<setup, rec>>

RecordStep ==
  /\ cmd.pc = "write"
  /\ cmd.good
  /\ cmd' = [cmd EXCEPT !.pc = "run", !.idx = @ + 1, !.mem = Record("ok"),
                        !.held = @ \/ Step.id = "lock"]
  /\ Store(cmd.num, cmd'.mem)
  /\ UNCHANGED <<setup, served, flags, db, lock>>

-----------------------------------------------------------------------------
(* How a run of the executor ends. *)

LockKeptOnFailure == Step.stage \notin {"prepare", "build"}

\* runInPlaceRollbackTail writes the record it copied before the run; the copy
\* shares its list of tasks with the record the run updated.
Restored(mem) ==
  [cmd.original EXCEPT !.task =
     [t \in DOMAIN @ |-> IF @[t] = "none" THEN "none" ELSE mem.task[t]]]

\* A rollback whose tail failed: `deploy rollback` leaves the window open, the
\* desktop's ApplyRollback closes it.
TailFailed ==
  [cmd EXCEPT !.pc = "queue", !.queue = IF cmd.by = "desktop" THEN <<"disable">>
                                                              ELSE <<>>]

\* The failed run of a deploy ends; that of a rollback's tail ends the rollback.
EndFailed(mem, cost) ==
  IF cmd.rollback
    THEN /\ \E lost \in Losses :
              /\ Faulty(cost + lost)
              /\ rec' = [rec EXCEPT ![cmd.num] = IF lost = 1 THEN mem ELSE Restored(mem)]
         /\ cmd' = TailFailed
         /\ UNCHANGED lock
    ELSE /\ StoreAfter(cmd.num, mem, cost)
         /\ lock' = IF cmd.held /\ ~LockKeptOnFailure THEN "free" ELSE lock
         /\ cmd' = Idle

\* A step failed, or had no release number.
FailStep ==
  /\ \/ cmd.pc = "write" /\ ~cmd.good
     \/ Due /\ NeedsNumber
  /\ EndFailed([Record("failed") EXCEPT !.status = "failed"], 0)
  /\ UNCHANGED <<setup, served, flags, db>>

\* The probe gave no answer: the run stops rather than guess.
ProbeFails ==
  /\ AtStep
  /\ ProbeIsDue
  /\ EndFailed([cmd.mem EXCEPT !.status = "failed"], 1)
  /\ UNCHANGED <<setup, served, flags, db>>

\* The last write is not best effort: without it the run fails.
Finish ==
  /\ cmd.pc = "run"
  /\ cmd.idx > Len(Steps)
  /\ LET mem == [cmd.mem EXCEPT !.status = "ok"]
     IN  \/ /\ rec' = [rec EXCEPT ![cmd.num] = mem]
            /\ cmd' = IF cmd.rollback THEN [cmd EXCEPT !.pc = "queue"] ELSE Idle
            /\ UNCHANGED faults
         \/ /\ Fault
            /\ rec' = IF cmd.rollback THEN [rec EXCEPT ![cmd.num] = Restored(mem)]
                                      ELSE rec
            /\ cmd' = IF cmd.rollback THEN TailFailed ELSE Idle
  /\ UNCHANGED <<setup, served, flags, db, lock>>

Killed ==
  /\ cmd # Idle
  /\ Fault
  /\ cmd' = Idle
  /\ UNCHANGED <<setup, served, flags, db, rec, lock>>

-----------------------------------------------------------------------------
(* deploy rollback.  Its own steps run outside the executor, past the probe's *)
(* gate and without a record; in place the tail of the plan is a run.         *)

RollbackQueue(by, withDB) ==
  (IF Symlink THEN <<"activate">> ELSE <<"enable", "tail">>)
    \o (IF withDB THEN <<"enable", "restore", "disable">> ELSE <<>>)
    \o (IF Symlink \/ withDB THEN <<"flush">> ELSE <<>>)
    \o (IF Symlink \/ by = "cli" THEN <<"verify">> ELSE <<>>)

\* Mutant: a rollback that does not take the lock.
RollbackUnlocked(n, by, withDB) ==
  /\ cmd = Idle
  /\ n \in Usable
  /\ withDB => by = "cli" /\ \E m \in Created : m > n
  /\ RollbackWhen = "complete" => Incomplete = {}
  /\ cmd' = [Running(n, rec[n]) EXCEPT !.pc = "queue", !.rollback = TRUE, !.by = by,
                                 !.queue = RollbackQueue(by, withDB)]
  /\ UNCHANGED <<setup, served, flags, db, rec, lock, faults>>

\* The target of the rollback ran ok; a dump comes from the release after it,
\* and the desktop restores none.
StartRollback(n, by, withDB) ==
  /\ cmd = Idle
  /\ n \in Usable
  /\ withDB => by = "cli" /\ \E m \in Created : m > n
  /\ RollbackWhen = "complete" => Incomplete = {}
  /\ lock = "free"
  /\ lock' = "ours"
  /\ cmd' = [Running(n, rec[n]) EXCEPT !.pc = "queue", !.rollback = TRUE, !.by = by,
                                 !.queue = RollbackQueue(by, withDB)]
  /\ UNCHANGED <<setup, served, flags, db, rec, faults>>

AtQueued == cmd.pc = "queue" /\ cmd.queue # <<>>

StartTail ==
  /\ AtQueued
  /\ Head(cmd.queue) = "tail"
  /\ cmd' = [cmd EXCEPT !.pc = "run", !.queue = Tail(@)]
  /\ UNCHANGED <<setup, served, flags, db, rec, lock, faults>>

\* A step the plan does not have or has marked skipped does nothing.
Does(id) == id = "restore" \/ Runs(Shaped[setup].rollback, id)

\* A failed restore still ends its window; any other failure ends the rollback.
QueueAfterFailure(id) == IF id = "restore" THEN <<"disable">> ELSE <<>>

QueuedStep ==
  /\ AtQueued
  /\ LET id == Head(cmd.queue)
     IN  /\ id # "tail"
         /\ \/ /\ ~Does(id)
               /\ cmd' = [cmd EXCEPT !.queue = Tail(@)]
               /\ UNCHANGED <<served, flags, db, faults>>
            \/ /\ Does(id)
               /\ \E good \in BOOLEAN :
                    /\ Attempt(id, cmd.num, good)
                    /\ cmd' = [cmd EXCEPT !.queue = IF good THEN Tail(@)
                                                    ELSE QueueAfterFailure(id)]
  /\ UNCHANGED <<setup, rec, lock>>

\* The deferred CoreUnlock.
EndRollback ==
  /\ cmd.pc = "queue"
  /\ cmd.queue = <<>>
  /\ lock' = "free"
  /\ cmd' = Idle
  /\ UNCHANGED <<setup, served, flags, db, rec, faults>>

-----------------------------------------------------------------------------
(* Between and beside the commands. *)

\* deploy unlock, on the lock a failed or killed command left.
Unlock ==
  /\ cmd = Idle
  /\ lock = "ours"
  /\ lock' = "free"
  /\ UNCHANGED <<setup, served, flags, db, rec, cmd, faults>>

\* The schema is upgraded, or falls behind, outside any deploy.
DatabaseMoves ==
  /\ cmd = Idle
  /\ db # "half"
  /\ db' = IF db = "current" THEN "behind" ELSE "current"
  /\ UNCHANGED <<setup, served, flags, rec, lock, cmd, faults>>

OtherTakesTheLock ==
  /\ lock = "free"
  /\ lock' = "other"
  /\ UNCHANGED <<setup, served, flags, db, rec, cmd, faults>>

OtherReleasesTheLock ==
  /\ lock = "other"
  /\ lock' = "free"
  /\ UNCHANGED <<setup, served, flags, db, rec, cmd, faults>>

\* The target serves an earlier release, or nothing yet.
Init ==
  /\ setup \in DOMAIN Setups
  /\ \E first \in {0, 1} :
       /\ served = AllOf(first)
       /\ rec = [n \in Number |->
                   IF n > first THEN NewRecord
                   ELSE [NewRecord EXCEPT !.status = "ok",
                           !.task = [t \in DOMAIN @ |-> "ok"]]]
  /\ flags = {}
  /\ db = "current"
  /\ lock = "free"
  /\ cmd = Idle
  /\ faults = 0

Commands ==
  \/ \E from \in Project.froms : StartDeploy(from) \/ StartResume(from)
  \/ \E n \in Number, by \in Rollers, withDB \in WithDB : StartRollback(n, by, withDB)

RunSteps ==
  \/ ReadRecord \/ TakeLockUpFront
  \/ CarryOver \/ Skip \/ Probe \/ RunStep \/ RecordStep
  \/ FailStep \/ ProbeFails \/ Finish \/ Killed

RollbackSteps == StartTail \/ QueuedStep \/ EndRollback

Environment ==
  Unlock \/ DatabaseMoves \/ OtherTakesTheLock \/ OtherReleasesTheLock

Next == Commands \/ RunSteps \/ RollbackSteps \/ Environment

Spec == Init /\ [][Next]_vars

-----------------------------------------------------------------------------
(* Properties. *)

Verdict == {"none", "skip", "migrate"}
Outcome == {"none", "ok", "failed", "skipped"}

RecordType == [status : {"none", "running", "failed", "ok"},
               task : [Ids(Plan) -> Outcome], verdict : Verdict]

\* The type of the state.  A rollback holds the lock until it ends.
TypeOK ==
  /\ served \in [Parts -> 0 .. MaxRelease]
  /\ flags \subseteq 0 .. MaxRelease
  /\ db \in {"current", "behind", "half"}
  /\ rec \in [Number -> RecordType]
  /\ lock \in {"free", "ours", "other"}
  /\ faults \in 0 .. Project.faults
  /\ cmd # Idle =>
       /\ cmd.pc \in {"resume", "head", "run", "write", "queue"}
       /\ cmd.num \in 0 .. MaxRelease
       /\ cmd.mem \in RecordType
       /\ cmd.idx \in 1 .. Len(Steps) + 1
       /\ cmd.carried \cup cmd.passed \subseteq Ids(Plan)
       /\ cmd.rollback => lock = "ours"

\* --from past deploy:lock and a resume take the lock all the same: a command
\* changes the served tree, its flag or the database only under the lock, and
\* the lock another machine holds is removed by that machine only.
ChangesUnderTheLock ==
  [][/\ cmd # Idle /\ <<served, flags, db>>' # <<served, flags, db>> => lock = "ours"
     /\ lock = "other" /\ lock' # "other" => OtherReleasesTheLock]_vars

\* The docroot is never rewritten, and the schema the served code depends on
\* never changed, by a deploy that leaves the site open meanwhile.
DownWhileChanged ==
  [][/\ cmd # Idle /\ Serving
     /\ \/ ~Symlink /\ served' # served
        \/ Symlink /\ RunStep /\ db' # db
     => Down]_vars

\* The schema under the served code is migrated with the site down.
MigratesInTheWindow ==
  [][RunStep /\ ~cmd.rollback /\ Serving /\ db' # db => Down]_vars

\* In place the site is open only on a docroot of one release, whatever failed
\* or was killed on the way.
OpenSiteIsWhole == Serving /\ ~Down => \A p, q \in Parts : served[p] = served[q]

\* Code is published over a database that is behind it only when the release's
\* own migration was recorded ok by an earlier run.
NoMigrationMissed ==
  [][cmd # Idle /\ ~cmd.rollback /\ served'["code"] # served["code"]
       => db # "behind" \/ "migrate" \in cmd.carried]_vars

Finishes == cmd # Idle /\ cmd'= Idle /\ ~cmd.rollback /\ cmd.num # 0 /\ rec'[cmd.num].status = "ok"

\* A deploy that ends ok serves its release, whole, with no flag in it.
OkMeansServing ==
  [][Finishes => served = AllOf(cmd.num) /\ ~Down]_vars

\* A failure that leaves the site down after the run tried to take it down is
\* one MaintenanceMayBeOn reports from the record that was stored.
OpenWindowIsReported ==
  [][/\ FailStep /\ ~cmd.rollback /\ cmd.passed = {} /\ Down
     /\ Record("failed").task["enable"] \in {"ok", "failed"}
     => MaintenanceMayBeOn(Record("failed"))]_vars

\* A dump is loaded with the site down, because a half-restored database served
\* to traffic is worse than a short outage.
HalfRestoredIsNotServed == db = "half" => Down

\* A rollback that fails leaves the release and its record as they were.
RollbackKeepsTheRecord ==
  [][FailStep /\ cmd.rollback /\ ~Project.lossy => rec'[cmd.num] = cmd.original]_vars

\* A publish step that runs with the site down, in a window its record knows
\* of, runs with the window's bound.
DowntimeIsBounded ==
  [][/\ RunStep /\ ~cmd.rollback /\ Step.stage = "publish"
     /\ Down /\ cmd.mem.task["enable"] = "ok"
     => cmd.window /\ cmd.idx \in MaintenanceWindow(Steps)]_vars

MovedByShaping(project) ==
  (IF project.mode = "artifact" THEN {"artifact"} ELSE {})
    \cup (IF project.strategy = "symlink" THEN {"disable"} ELSE {})

PlanIsInOrder ==
  [i \in DOMAIN Setups |->
     LET s       == Setups[i]
         plan    == Shaped[i].deploy
         Kept(k) == ~plan[k].hook /\ plan[k].id \notin MovedByShaping(s)
         At(id)  == SelectInSeq(TaskOrder, LAMBDA t : t = id)
     IN  /\ Ids(plan) = s.recipe.declared \cup {s.hooks[k].name : k \in DOMAIN s.hooks}
         /\ Len(plan) = Cardinality(Ids(plan))
         /\ \A k, l \in DOMAIN plan :
              k < l /\ Kept(k) /\ Kept(l) => At(plan[k].id) < At(plan[l].id)]

HooksAreInOrder ==
  [s \in DOMAIN Setups |->
     \A i, j \in DOMAIN Setups[s].hooks :
       LET a == Setups[s].hooks[i]
           b == Setups[s].hooks[j]
       IN  /\ a.on = b.on /\ a.kind = b.kind /\ a.kind # "stage"
           /\ a.position = "after" /\ b.position = "after"
           /\ (a.order < b.order \/ (a.order = b.order /\ i < j /\ a.kind = "task"))
           => IndexOf(Shaped[s].deploy, a.name) < IndexOf(Shaped[s].deploy, b.name)]

\* Shaping moves the artifact and the end of the window and nothing else: every
\* declared task and hook is in the plan once, the tasks in canonical order.
\* The hooks after one task or hook run in the order of their numbers, those
\* after one task with one number in the order of their declaration.
PlanKeepsItsOrder == PlanIsInOrder[setup] /\ HooksAreInOrder[setup]

-----------------------------------------------------------------------------
(* What theorems ask of the projects.                                        *)

\* The recipe migrates, and no --from passes the migration.
MigratesFirst ==
  \A i \in DOMAIN Setups :
    LET s    == Setups[i]
        plan == Shaped[i].deploy
    IN  /\ "migrate" \in s.recipe.declared \cap s.recipe.implemented
        /\ \A from \in s.froms : from = "" \/ IndexOf(plan, from) <= IndexOf(plan, "migrate")

\* A project whose recipe has a window, whose writes of the record are not lost
\* and that is deployed whole: no --from, no rollback of an unfinished release.
Steady ==
  /\ HasWindow(Project.recipe)
  /\ ~Project.lossy /\ Project.froms \subseteq {""} /\ RollbackWhen = "complete"
=============================================================================
