----------------------------- MODULE AuditLocks -----------------------------
(***************************************************************************)
(* Audits of one project that start at once, in processes of their own.    *)
(* They queue for the audit lock, a file whose holder may die or grow old, *)
(* in which case a waiter removes it.  An audit that profiles then takes   *)
(* the diagnostics lease, a second file that never goes stale, puts its    *)
(* configuration into the web server, captures one page, and restores the  *)
(* server before it gives the lease back.                                  *)
(* Any step may fail, a cancelled or expired context being one way to, and *)
(* any process may be killed.                                              *)
(***************************************************************************)
EXTENDS Naturals

CONSTANTS
    Runs,          \* the audits, each a process with a run identifier of its own
    Nobody,        \* no lock, no lease, no profile
    Profiling,     \* those that ask for the profiler
    MayAge,        \* whether an audit may last longer than ten minutes
    MaxFaults      \* bound on the failed steps and killed processes

ASSUME AuditLocksAssumption ==
    /\ Nobody \notin Runs
    /\ Profiling \subseteq Runs
    /\ MayAge \in BOOLEAN
    /\ MaxFaults \in Nat

VARIABLES
    run,       \* every audit: where it is and what it knows
    lock,      \* the lock file
    lease,     \* the lease file
    confs,     \* the audits with a configuration file in the project
    loaded,    \* the configurations the web server works with
    csv,       \* whose activation the profile in the container comes from
    worn,      \* whether a lock was ever left behind or grew old
    faults

vars == <<run, lock, lease, confs, loaded, csv, worn, faults>>

Waiting == {"try", "look", "steal"}

Profilers == {"lease", "leasing", "clear", "configure", "reload", "capture",
              "collect"}

Restoring == {"restore", "reloadBack", "clearBack", "release"}

\* Where an audit holds the audit lock, or believes it does.
AtWork == {"naming"} \cup Profilers \cup Restoring \cup {"unlock"}

Ended == {"passed", "failed", "refused", "dead"}

NoLock == [by |-> Nobody, named |-> FALSE, old |-> FALSE]
NoLease == [by |-> Nobody, written |-> FALSE]

Init ==
    /\ run = [r \in Runs |-> [pc |-> "try", err |-> FALSE, torn |-> FALSE,
                              profile |-> Nobody]]
    /\ lock = NoLock
    /\ lease = NoLease
    /\ confs = {}
    /\ loaded = {}
    /\ csv = Nobody
    /\ worn = FALSE
    /\ faults = 0

-----------------------------------------------------------------------------
(* The ways a step ends.  One that fails may have had its effect.         *)

At(r, pc) == run[r].pc = pc

Goto(r, pc) == run' = [run EXCEPT ![r].pc = pc]

Fail(r, pc) == run' = [run EXCEPT ![r].pc = pc, ![r].err = TRUE]

Tear(r, pc) == run' = [run EXCEPT ![r].pc = pc, ![r].torn = TRUE]

Fault == faults < MaxFaults /\ faults' = faults + 1

-----------------------------------------------------------------------------
(* acquireAuditLock and the release it returns. *)

TryLock(r) ==
    /\ At(r, "try")
    /\ \/ /\ lock = NoLock
          /\ lock' = [by |-> r, named |-> FALSE, old |-> FALSE]
          /\ Goto(r, "naming")
       \/ /\ lock # NoLock
          /\ Goto(r, "look")
          /\ UNCHANGED lock
    /\ UNCHANGED <<lease, confs, loaded, csv, worn, faults>>

\* The process identifier goes into the file that was created, wherever the
\* path leads by then; an error is ignored.
NameLock(r) ==
    /\ At(r, "naming")
    /\ \/ /\ lock' = IF lock.by = r THEN [lock EXCEPT !.named = TRUE] ELSE lock
          /\ UNCHANGED <<worn, faults>>
       \/ Fault /\ worn' = TRUE /\ UNCHANGED lock
    /\ Goto(r, IF r \in Profiling THEN "lease" ELSE "unlock")
    /\ UNCHANGED <<lease, confs, loaded, csv>>

\* EmptyIsStale is the look that takes a lock without a process for abandoned.
EmptyIsStale ==
    lock # NoLock /\ (lock.old \/ ~lock.named \/ run[lock.by].pc \in Ended)

\* A file that names no process is not stale until it is old.
IsStaleLock ==
    lock # NoLock /\ (lock.old \/ (lock.named /\ run[lock.by].pc \in Ended))

LookAtLock(r) ==
    /\ At(r, "look")
    /\ Goto(r, IF IsStaleLock THEN "steal" ELSE "try")
    /\ UNCHANGED <<lock, lease, confs, loaded, csv, worn, faults>>

\* Removed by its path, whichever file that is now.
RemoveStaleLock(r) ==
    /\ At(r, "steal")
    /\ Goto(r, "try")
    /\ lock' = NoLock
    /\ UNCHANGED <<lease, confs, loaded, csv, worn, faults>>

GiveUp(r) ==
    /\ At(r, "look")
    /\ Goto(r, "refused")
    /\ UNCHANGED <<lock, lease, confs, loaded, csv, worn, faults>>

Outcome(r) == IF run[r].err THEN "failed" ELSE "passed"

\* As with the take-over, the file is removed by its path, and an error is
\* ignored.
ReleaseLock(r) ==
    /\ At(r, "unlock")
    /\ \/ lock' = NoLock /\ UNCHANGED <<worn, faults>>
       \/ Fault /\ worn' = TRUE /\ UNCHANGED lock
    /\ Goto(r, Outcome(r))
    /\ UNCHANGED <<lease, confs, loaded, csv>>

Crash(r) ==
    /\ run[r].pc \in AtWork
    /\ Fault
    /\ Goto(r, "dead")
    /\ worn' = TRUE
    /\ UNCHANGED <<lock, lease, confs, loaded, csv>>

LockAges ==
    /\ MayAge
    /\ lock # NoLock /\ ~lock.old
    /\ lock' = [lock EXCEPT !.old = TRUE]
    /\ worn' = TRUE
    /\ UNCHANGED <<run, lease, confs, loaded, csv, faults>>

-----------------------------------------------------------------------------
(* AcquireLease and the profiler's work.  The preflight changes nothing.   *)

AcquireLease(r) ==
    /\ At(r, "lease")
    /\ \/ /\ lease = NoLease
          /\ lease' = [by |-> r, written |-> FALSE]
          /\ Goto(r, "leasing")
          /\ UNCHANGED faults
       \/ lease # NoLease /\ Fail(r, "unlock") /\ UNCHANGED <<lease, faults>>
       \/ Fault /\ Fail(r, "unlock") /\ UNCHANGED lease
    /\ UNCHANGED <<lock, confs, loaded, csv, worn>>

\* Nothing is deferred yet: a lease that cannot be written stays.
WriteLease(r) ==
    /\ At(r, "leasing")
    /\ \/ /\ lease' = [lease EXCEPT !.written = TRUE]
          /\ Goto(r, "clear")
          /\ UNCHANGED faults
       \/ Fault /\ Fail(r, "unlock") /\ UNCHANGED lease
    /\ UNCHANGED <<lock, confs, loaded, csv, worn>>

ClearProfile(r) ==
    /\ At(r, "clear")
    /\ \/ csv' = Nobody /\ Goto(r, "configure") /\ UNCHANGED faults
       \/ Fault /\ csv' \in {csv, Nobody} /\ Fail(r, "restore")
    /\ UNCHANGED <<lock, lease, confs, loaded, worn>>

\* A rename, so that there is a whole file or none.
WriteConfig(r) ==
    /\ At(r, "configure")
    /\ \/ confs' = confs \cup {r} /\ Goto(r, "reload") /\ UNCHANGED faults
       \/ Fault /\ Fail(r, "restore") /\ UNCHANGED confs
    /\ UNCHANGED <<lock, lease, loaded, csv, worn>>

ReloadOn(r) ==
    /\ At(r, "reload")
    /\ \/ loaded' = confs /\ Goto(r, "capture") /\ UNCHANGED faults
       \/ Fault /\ loaded' \in {loaded, confs} /\ Fail(r, "restore")
    /\ UNCHANGED <<lock, lease, confs, csv, worn>>

\* A page that is served while a configuration is loaded may leave a profile,
\* whoever asked for the page; an old worker or a cache serves it without one.
Profiled == \E c \in loaded : csv' = c

Capture(r) ==
    /\ At(r, "capture")
    /\ Profiled \/ UNCHANGED csv
    /\ \/ Goto(r, "collect") /\ UNCHANGED faults
       \/ Fault /\ Fail(r, "restore")
    /\ UNCHANGED <<lock, lease, confs, loaded, worn>>

Collect(r) ==
    /\ At(r, "collect")
    /\ \/ /\ csv # Nobody
          /\ run' = [run EXCEPT ![r].pc = "restore", ![r].profile = csv]
          /\ UNCHANGED faults
       \/ csv = Nobody /\ Fail(r, "restore") /\ UNCHANGED faults
       \/ Fault /\ Fail(r, "restore")
    /\ UNCHANGED <<lock, lease, confs, loaded, csv, worn>>

-----------------------------------------------------------------------------
(* The deferred Restore: all three parts are tried, whatever the others do. *)

RemoveConfig(r) ==
    /\ At(r, "restore")
    /\ \/ confs' = confs \ {r} /\ Goto(r, "reloadBack") /\ UNCHANGED faults
       \/ Fault /\ Tear(r, "reloadBack") /\ UNCHANGED confs
    /\ UNCHANGED <<lock, lease, loaded, csv, worn>>

ReloadOff(r) ==
    /\ At(r, "reloadBack")
    /\ \/ loaded' = confs /\ Goto(r, "clearBack") /\ UNCHANGED faults
       \/ Fault /\ loaded' \in {loaded, confs} /\ Tear(r, "clearBack")
    /\ UNCHANGED <<lock, lease, confs, csv, worn>>

RemoveProfile(r) ==
    /\ At(r, "clearBack")
    /\ \/ csv' = Nobody /\ Goto(r, "release") /\ UNCHANGED faults
       \/ Fault /\ csv' \in {csv, Nobody} /\ Tear(r, "release")
    /\ UNCHANGED <<lock, lease, confs, loaded, worn>>

\* HandedBackTorn gives the lease back whatever became of the restore.
HandedBackTorn(r) ==
    /\ At(r, "release")
    /\ lease' = NoLease
    /\ IF run[r].torn THEN Fail(r, "unlock") ELSE Goto(r, "unlock")
    /\ UNCHANGED <<lock, confs, loaded, csv, worn, faults>>

\* CleanupIsSilent loses the errors of the clean-up.
CleanupIsSilent(r) ==
    /\ At(r, "release")
    /\ lease' = IF run[r].torn THEN lease ELSE NoLease
    /\ Goto(r, "unlock")
    /\ UNCHANGED <<lock, confs, loaded, csv, worn, faults>>

\* A failed restore keeps the lease, and the run fails for it.
ReleaseLease(r) ==
    /\ At(r, "release")
    /\ LET given == ~run[r].torn /\ lease = [by |-> r, written |-> TRUE] IN
       \/ given /\ lease' = NoLease /\ Goto(r, "unlock") /\ UNCHANGED faults
       \/ ~given /\ Fail(r, "unlock") /\ UNCHANGED <<lease, faults>>
       \/ Fault /\ ~run[r].torn /\ Fail(r, "unlock") /\ UNCHANGED lease
    /\ UNCHANGED <<lock, confs, loaded, csv, worn>>

-----------------------------------------------------------------------------
(* What happens around the audits. *)

\* Somebody opens a page of the site.
Visit ==
    /\ Profiled
    /\ UNCHANGED <<run, lock, lease, confs, loaded, worn, faults>>

WebServerRestarts ==
    /\ loaded' = confs
    /\ UNCHANGED <<run, lock, lease, confs, csv, worn, faults>>

\* The operator of a run that left its lease behind cleans up by hand.
OperatorRecovers ==
    /\ lease # NoLease
    /\ run[lease.by].pc \in Ended
    /\ lease' = NoLease
    /\ confs' = {}
    /\ loaded' = {}
    /\ csv' = Nobody
    /\ UNCHANGED <<run, lock, worn, faults>>

Next ==
    \/ \E r \in Runs :
         \/ TryLock(r) \/ NameLock(r) \/ LookAtLock(r) \/ RemoveStaleLock(r)
         \/ GiveUp(r) \/ ReleaseLock(r) \/ Crash(r)
         \/ AcquireLease(r) \/ WriteLease(r)
         \/ ClearProfile(r) \/ WriteConfig(r) \/ ReloadOn(r)
         \/ Capture(r) \/ Collect(r)
         \/ RemoveConfig(r) \/ ReloadOff(r) \/ RemoveProfile(r)
         \/ ReleaseLease(r)
    \/ LockAges
    \/ Visit \/ WebServerRestarts \/ OperatorRecovers

Spec == Init /\ [][Next]_vars

-----------------------------------------------------------------------------
(* Types: states of the lock, the lease, the audits and the web server.    *)
TypeOK ==
    /\ run \in [Runs -> [pc : Waiting \cup AtWork \cup Ended, err : BOOLEAN,
                         torn : BOOLEAN, profile : Runs \cup {Nobody}]]
    /\ lock \in [by : Runs \cup {Nobody}, named : BOOLEAN, old : BOOLEAN]
    /\ lease \in [by : Runs \cup {Nobody}, written : BOOLEAN]
    /\ confs \subseteq Runs
    /\ loaded \subseteq Runs
    /\ csv \in Runs \cup {Nobody}
    /\ worn \in BOOLEAN
    /\ faults \in 0..MaxFaults

(***************************************************************************)
(* "A failed restore leaves the lease in place to prevent reuse of a       *)
(* tainted diagnostic state": as long as a configuration of the profiler   *)
(* is in the project or in the web server, its run has the lease, whatever *)
(* failed or died, and even when the audit lock let two audits in.         *)
(***************************************************************************)
LeaseGuardsTaint == \A c \in confs \cup loaded : lease.by = c

(***************************************************************************)
(* An audit that reports success left nothing of its own in the project,   *)
(* the web server or the leases, and the profile it reports was made under *)
(* its own configuration.                                                  *)
(***************************************************************************)
PassedIsClean ==
    \A r \in Profiling :
      At(r, "passed") => /\ r \notin confs \cup loaded
                         /\ lease.by # r
                         /\ run[r].profile = r

(***************************************************************************)
(* As long as no lock grew old and none was left behind, no two audits of  *)
(* a project are at work at once: an audit that creates the lock is never  *)
(* taken for one that died.                                                *)
(***************************************************************************)
SerialUntilWorn ==
    ~worn => \A q, r \in Runs :
               run[q].pc \in AtWork /\ run[r].pc \in AtWork => q = r

(***************************************************************************)
(* "Concurrent `govard audit run` invocations for the same project         *)
(* serialize": whatever became of the lock.                                *)
(***************************************************************************)
RunsSerialize ==
    \A q, r \in Runs : run[q].pc \in AtWork /\ run[r].pc \in AtWork => q = r
=============================================================================
