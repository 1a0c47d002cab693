-------------------------- MODULE AuditLocks_proofs -------------------------
(***************************************************************************)
(* For any number of audits and of faults: the audit lock serializes until *)
(* one is left behind or grows old, and the diagnostics lease guards the   *)
(* web server whatever becomes of the lock.                                *)
(***************************************************************************)
EXTENDS AuditLocks, TLAPS

\* The steps of one audit.
RunStep(r) ==
    \/ TryLock(r) \/ NameLock(r) \/ LookAtLock(r) \/ RemoveStaleLock(r)
    \/ GiveUp(r) \/ ReleaseLock(r) \/ Crash(r)
    \/ AcquireLease(r) \/ WriteLease(r)
    \/ ClearProfile(r) \/ WriteConfig(r) \/ ReloadOn(r)
    \/ Capture(r) \/ Collect(r)
    \/ RemoveConfig(r) \/ ReloadOff(r) \/ RemoveProfile(r)
    \/ ReleaseLease(r)

Surroundings == LockAges \/ Visit \/ WebServerRestarts \/ OperatorRecovers

\* Next is what an audit does or what happens around the audits.
LEMMA NextSplits == Next <=> (\E r \in Runs : RunStep(r)) \/ Surroundings
  BY DEF Next, RunStep, Surroundings

-----------------------------------------------------------------------------
(* Types.                                                                  *)

\* What a step of an audit does to its record keeps the record's type.
LEMMA RecordsKeepType ==
    ASSUME TypeOK, NEW r \in Runs,
           NEW pc \in Waiting \cup AtWork \cup Ended
    PROVE  /\ Goto(r, pc) => run' \in [Runs -> [pc : Waiting \cup AtWork \cup Ended,
                  err : BOOLEAN, torn : BOOLEAN, profile : Runs \cup {Nobody}]]
           /\ Fail(r, pc) => run' \in [Runs -> [pc : Waiting \cup AtWork \cup Ended,
                  err : BOOLEAN, torn : BOOLEAN, profile : Runs \cup {Nobody}]]
           /\ Tear(r, pc) => run' \in [Runs -> [pc : Waiting \cup AtWork \cup Ended,
                  err : BOOLEAN, torn : BOOLEAN, profile : Runs \cup {Nobody}]]
  BY DEF TypeOK, Goto, Fail, Tear

\* A fault stays within the bound.
LEMMA FaultsKeepType ==
    ASSUME TypeOK, Fault PROVE faults' \in 0..MaxFaults
  BY AuditLocksAssumption DEF TypeOK, Fault

\* The names of the places an audit can be at.
LEMMA Places ==
    {"try", "look", "steal", "naming", "lease", "leasing", "clear", "configure",
     "reload", "capture", "collect", "restore", "reloadBack", "clearBack",
     "release", "unlock", "passed", "failed", "refused", "dead"}
      = Waiting \cup AtWork \cup Ended
  BY DEF Waiting, AtWork, Ended, Profilers, Restoring

\* An audit ends as passed or as failed.
LEMMA OutcomeKinds ==
    ASSUME NEW r \in Runs PROVE Outcome(r) \in {"passed", "failed"}
  BY DEF Outcome

\* What the files hold.
LEMMA Files ==
    /\ NoLock \in [by : Runs \cup {Nobody}, named : BOOLEAN, old : BOOLEAN]
    /\ NoLease \in [by : Runs \cup {Nobody}, written : BOOLEAN]
    /\ \A r \in Runs :
         /\ [by |-> r, named |-> FALSE, old |-> FALSE]
              \in [by : Runs \cup {Nobody}, named : BOOLEAN, old : BOOLEAN]
         /\ [by |-> r, written |-> FALSE]
              \in [by : Runs \cup {Nobody}, written : BOOLEAN]
  BY DEF NoLock, NoLease

\* Every step of an audit keeps the types.
LEMMA RunStepTyped ==
    ASSUME TypeOK, NEW r \in Runs, RunStep(r) PROVE TypeOK'
<1> USE Places, RecordsKeepType, FaultsKeepType, Files
<1>1. CASE TryLock(r)
  <2>1. run' \in [Runs -> [pc : Waiting \cup AtWork \cup Ended, err : BOOLEAN,
                           torn : BOOLEAN, profile : Runs \cup {Nobody}]]
    BY <1>1 DEF TryLock
  <2>2. lock' \in [by : Runs \cup {Nobody}, named : BOOLEAN, old : BOOLEAN]
    BY <1>1 DEF TryLock, TypeOK
  <2>3. UNCHANGED <<lease, confs, loaded, csv, worn, faults>>
    BY <1>1 DEF TryLock
  <2> QED
    BY <2>1, <2>2, <2>3 DEF TypeOK
<1>2. CASE NameLock(r)
  <2>1. (IF r \in Profiling THEN "lease" ELSE "unlock") \in {"lease", "unlock"}
    OBVIOUS
  <2>2. run' \in [Runs -> [pc : Waiting \cup AtWork \cup Ended, err : BOOLEAN,
                           torn : BOOLEAN, profile : Runs \cup {Nobody}]]
    BY <1>2, <2>1 DEF NameLock
  <2>3. /\ lock' \in {lock, [lock EXCEPT !.named = TRUE]}
        /\ worn' \in {worn, TRUE} /\ faults' \in 0..MaxFaults
        /\ UNCHANGED <<lease, confs, loaded, csv>>
    BY <1>2 DEF NameLock, TypeOK
  <2> QED
    BY <2>2, <2>3 DEF TypeOK
<1>3. CASE LookAtLock(r)
  BY <1>3 DEF LookAtLock, TypeOK
<1>4. CASE RemoveStaleLock(r) \/ GiveUp(r)
  BY <1>4 DEF RemoveStaleLock, GiveUp, TypeOK
<1>5. CASE ReleaseLock(r)
  BY <1>5, OutcomeKinds DEF ReleaseLock, TypeOK
<1>6. CASE Crash(r)
  BY <1>6 DEF Crash, TypeOK
<1>7. CASE AcquireLease(r)
  BY <1>7 DEF AcquireLease, TypeOK
<1>8. CASE WriteLease(r)
  BY <1>8 DEF WriteLease, TypeOK
<1>9. CASE ClearProfile(r) \/ WriteConfig(r) \/ ReloadOn(r)
  BY <1>9 DEF ClearProfile, WriteConfig, ReloadOn, TypeOK
<1>10. CASE Capture(r)
  BY <1>10 DEF Capture, Profiled, TypeOK
<1>11. CASE Collect(r)
  BY <1>11 DEF Collect, TypeOK
<1>12. CASE RemoveConfig(r) \/ ReloadOff(r) \/ RemoveProfile(r)
  BY <1>12 DEF RemoveConfig, ReloadOff, RemoveProfile, TypeOK
<1>13. CASE ReleaseLease(r)
  BY <1>13 DEF ReleaseLease, TypeOK
<1> QED
  BY <1>1, <1>2, <1>3, <1>4, <1>5, <1>6, <1>7, <1>8, <1>9, <1>10, <1>11,
     <1>12, <1>13 DEF RunStep

\* What happens around the audits keeps the types.
LEMMA SurroundingsTyped == TypeOK /\ Surroundings => TypeOK'
<1> SUFFICES ASSUME TypeOK, Surroundings PROVE TypeOK'
  OBVIOUS
<1>1. CASE LockAges
  BY <1>1 DEF LockAges, TypeOK
<1>2. CASE Visit \/ WebServerRestarts \/ OperatorRecovers
  BY <1>2, Files DEF Visit, Profiled, WebServerRestarts, OperatorRecovers, TypeOK
<1> QED
  BY <1>1, <1>2 DEF Surroundings

\* Every step keeps the types, a stuttering one too.
LEMMA StepTyped == TypeOK /\ [Next]_vars => TypeOK'
<1> SUFFICES ASSUME TypeOK, [Next]_vars PROVE TypeOK'
  OBVIOUS
<1>1. CASE UNCHANGED vars
  BY <1>1 DEF vars, TypeOK
<1> QED
  BY <1>1, NextSplits, RunStepTyped, SurroundingsTyped

\* The initial state has the types.
LEMMA InitTyped == Init => TypeOK
<1> SUFFICES ASSUME Init PROVE TypeOK
  OBVIOUS
<1>1. run \in [Runs -> [pc : Waiting \cup AtWork \cup Ended, err : BOOLEAN,
                        torn : BOOLEAN, profile : Runs \cup {Nobody}]]
  BY DEF Init, Waiting
<1>2. faults \in 0..MaxFaults
  BY AuditLocksAssumption DEF Init
<1> QED
  BY <1>1, <1>2, Files DEF Init, TypeOK

(***************************************************************************)
(* The lock, the lease, the audits and the web server keep their types.    *)
(***************************************************************************)
THEOREM TypeCorrect == Spec => []TypeOK
  BY InitTyped, StepTyped, PTL DEF Spec

-----------------------------------------------------------------------------
(* The audit lock.  Until one is left behind or grows old, the lock names  *)
(* the audit at work, and nobody is about to remove it: what a waiter sees *)
(* belongs to an audit that has not ended.                                 *)

LockInv ==
    ~worn => /\ \A r \in Runs : run[r].pc \in AtWork => lock.by = r
             /\ \A r \in Runs : ~At(r, "steal")
             /\ lock # NoLock => /\ lock.by \in Runs
                                /\ run[lock.by].pc \in AtWork
                                /\ ~lock.old

\* An audit at work has not ended, and does not wait.
LEMMA PlacesAreApart ==
    /\ AtWork \cap Ended = {} /\ AtWork \cap Waiting = {}
    /\ Restoring \cap Ended = {} /\ Profilers \cap Ended = {}
    /\ Profilers \subseteq AtWork /\ Restoring \subseteq AtWork
    /\ Profilers \cap Restoring = {}
  BY DEF Waiting, AtWork, Ended, Profilers, Restoring

\* A step inside the work of an audit that leaves the lock alone keeps the
\* lock invariant.
LEMMA WorkKeepsLock ==
    ASSUME TypeOK, LockInv, NEW r \in Runs,
           run[r].pc \in AtWork, run'[r].pc \in AtWork,
           \A q \in Runs \ {r} : run'[q] = run[q],
           UNCHANGED <<lock, worn>>
    PROVE  LockInv'
  BY PlacesAreApart DEF LockInv, TypeOK, At, Waiting

\* Every step of an audit keeps the lock invariant.
LEMMA RunStepLock ==
    ASSUME TypeOK, TypeOK', LockInv, NEW r \in Runs, RunStep(r) PROVE LockInv'
<1> USE PlacesAreApart, AuditLocksAssumption
<1>1. CASE TryLock(r)
  <2>1. CASE lock = NoLock
    <3>1. /\ lock' = [by |-> r, named |-> FALSE, old |-> FALSE]
          /\ run' = [run EXCEPT ![r].pc = "naming"]
          /\ UNCHANGED worn
      BY <1>1, <2>1 DEF TryLock, Goto
    <3>2. ~worn => \A q \in Runs : run[q].pc \notin AtWork
      BY <2>1 DEF LockInv, NoLock
    <3> QED
      BY <3>1, <3>2 DEF LockInv, TypeOK, At, AtWork
  <2>2. CASE lock # NoLock
    <3>1. run' = [run EXCEPT ![r].pc = "look"] /\ UNCHANGED <<lock, worn>>
      BY <1>1, <2>2 DEF TryLock, Goto
    <3>2. run[r].pc = "try" /\ "try" \notin AtWork /\ "look" \notin AtWork
      BY <1>1 DEF TryLock, At, AtWork, Profilers, Restoring
    <3> QED
      BY <3>1, <3>2 DEF LockInv, TypeOK, At
  <2> QED
    BY <2>1, <2>2
<1>2. CASE NameLock(r)
  <2>1. run'[r].pc \in AtWork /\ run[r].pc \in AtWork
    BY <1>2 DEF NameLock, Goto, At, TypeOK, AtWork, Profilers
  <2>2. \A q \in Runs \ {r} : run'[q] = run[q]
    BY <1>2 DEF NameLock, Goto, TypeOK
  <2>3. CASE worn'
    BY <2>3 DEF LockInv
  <2>4. CASE ~worn'
    <3>1. /\ UNCHANGED worn
          /\ lock' = IF lock.by = r THEN [lock EXCEPT !.named = TRUE] ELSE lock
      BY <1>2, <2>4 DEF NameLock
    <3>2. lock'.by = lock.by /\ lock'.old = lock.old
      BY <3>1 DEF TypeOK
    <3>3. lock # NoLock
      BY <2>1, <2>4, <3>1 DEF LockInv, NoLock
    <3> QED
      BY <2>1, <2>2, <2>4, <3>1, <3>2, <3>3 DEF LockInv, At, TypeOK, Waiting
  <2> QED
    BY <2>3, <2>4
<1>3. CASE LookAtLock(r)
  <2>1. ~worn => ~IsStaleLock
    BY DEF LockInv, IsStaleLock
  <2>2. /\ run' = [run EXCEPT ![r].pc = IF IsStaleLock THEN "steal" ELSE "try"]
        /\ run[r].pc = "look"
        /\ UNCHANGED <<lock, worn>>
    BY <1>3 DEF LookAtLock, Goto, At
  <2>3. "look" \notin AtWork /\ "try" \notin AtWork
    BY DEF AtWork, Profilers, Restoring
  <2> QED
    BY <2>1, <2>2, <2>3 DEF LockInv, TypeOK, At
<1>4. CASE RemoveStaleLock(r)
  BY <1>4 DEF RemoveStaleLock, LockInv
<1>5. CASE GiveUp(r)
  <2>1. "look" \notin AtWork /\ "refused" \notin AtWork
    BY DEF AtWork, Profilers, Restoring
  <2> QED
    BY <1>5, <2>1 DEF GiveUp, Goto, At, LockInv, TypeOK
<1>6. CASE ReleaseLock(r)
  <2>1. CASE worn'
    BY <2>1 DEF LockInv
  <2>2. CASE ~worn'
    <3>1. lock' = NoLock /\ UNCHANGED worn
      BY <1>6, <2>2 DEF ReleaseLock
    <3>2. /\ run' = [run EXCEPT ![r].pc = Outcome(r)]
          /\ run[r].pc = "unlock"
      BY <1>6 DEF ReleaseLock, Goto, At
    <3>3. Outcome(r) \notin AtWork /\ Outcome(r) # "steal" /\ "unlock" \in AtWork
      BY OutcomeKinds DEF AtWork, Profilers, Restoring
    <3>4. \A q \in Runs \ {r} : run[q].pc \notin AtWork
      BY <2>2, <3>1, <3>2, <3>3 DEF LockInv
    <3> QED
      BY <3>1, <3>2, <3>3, <3>4 DEF LockInv, TypeOK, At
  <2> QED
    BY <2>1, <2>2
<1>7. CASE Crash(r)
  BY <1>7 DEF Crash, LockInv
<1>8. CASE AcquireLease(r) \/ WriteLease(r) \/ ClearProfile(r) \/ WriteConfig(r)
           \/ ReloadOn(r) \/ Capture(r) \/ Collect(r)
  <2>1. /\ run[r].pc \in AtWork /\ run'[r].pc \in AtWork
        /\ \A q \in Runs \ {r} : run'[q] = run[q]
        /\ UNCHANGED <<lock, worn>>
    BY <1>8 DEF AcquireLease, WriteLease, ClearProfile, WriteConfig, ReloadOn,
                Capture, Collect, At, Goto, Fail, TypeOK, AtWork, Profilers,
                Restoring
  <2> QED
    BY <2>1, WorkKeepsLock
<1>9. CASE RemoveConfig(r) \/ ReloadOff(r) \/ RemoveProfile(r) \/ ReleaseLease(r)
  <2>1. /\ run[r].pc \in AtWork /\ run'[r].pc \in AtWork
        /\ \A q \in Runs \ {r} : run'[q] = run[q]
        /\ UNCHANGED <<lock, worn>>
    BY <1>9 DEF RemoveConfig, ReloadOff, RemoveProfile, ReleaseLease, At, Goto,
                Fail, Tear, TypeOK, AtWork, Profilers, Restoring
  <2> QED
    BY <2>1, WorkKeepsLock
<1> QED
  BY <1>1, <1>2, <1>3, <1>4, <1>5, <1>6, <1>7, <1>8, <1>9 DEF RunStep

\* Every step keeps the lock invariant.
LEMMA StepLock ==
    TypeOK /\ TypeOK' /\ LockInv /\ [Next]_vars => LockInv'
<1> SUFFICES ASSUME TypeOK, TypeOK', LockInv, [Next]_vars PROVE LockInv'
  OBVIOUS
<1>1. CASE Surroundings
  BY <1>1 DEF Surroundings, LockAges, Visit, WebServerRestarts,
              OperatorRecovers, LockInv, At
<1>2. CASE UNCHANGED vars
  BY <1>2 DEF vars, LockInv, At
<1> QED
  BY <1>1, <1>2, NextSplits, RunStepLock

(***************************************************************************)
(* Until a lock is left behind or grows old, the audits of a project run   *)
(* one at a time, however many wait.                                       *)
(***************************************************************************)
THEOREM AuditsSerialize == Spec => []SerialUntilWorn
<1>1. Init => LockInv
  BY PlacesAreApart DEF Init, LockInv, At, NoLock, Waiting
<1>2. LockInv => SerialUntilWorn
  BY DEF LockInv, SerialUntilWorn
<1> QED
  BY <1>1, <1>2, InitTyped, StepTyped, StepLock, PTL DEF Spec

-----------------------------------------------------------------------------
(* The lease.  It belongs to the audit that works under it and to whoever  *)
(* left a configuration behind, so they are one.                           *)

Leased == {"leasing", "clear", "configure", "reload", "capture", "collect"}
            \cup Restoring

LeaseInv ==
    /\ \A r \in Runs : run[r].pc \in Leased => lease.by = r
    /\ \A r \in Runs : run[r].pc \in Leased \cup {"lease"} => r \in Profiling
    /\ LeaseGuardsTaint

(***************************************************************************)
(* What an audit that still may succeed has reached: the profile comes     *)
(* from its own activation, and every part of its restore that is behind   *)
(* it and did not fail stays done.                                         *)
(***************************************************************************)
Window == {"configure", "reload", "capture", "collect"}

Clean(r) == r \notin confs \cup loaded /\ lease.by # r /\ run[r].profile = r

OnItsWay(r) ==
    /\ run[r].pc \in Window => csv \in {Nobody, r}
    /\ run[r].pc \in Restoring /\ ~run[r].err => run[r].profile = r
    /\ run[r].pc \in {"reloadBack", "clearBack", "release"} /\ ~run[r].torn
         => r \notin confs
    /\ run[r].pc \in {"clearBack", "release"} /\ ~run[r].torn => r \notin loaded
    /\ run[r].pc = "passed" => ~run[r].err
    /\ run[r].pc \in {"unlock", "passed"} /\ ~run[r].err => Clean(r)

ProfileInv == \A r \in Profiling : OnItsWay(r)

\* As long as the lease is free, no configuration is anywhere.
LEMMA FreeMeansClean ==
    ASSUME TypeOK, LeaseInv, lease = NoLease PROVE confs = {} /\ loaded = {}
  BY AuditLocksAssumption DEF TypeOK, LeaseInv, LeaseGuardsTaint, NoLease

\* While an audit works under the lease, only it has a configuration.
LEMMA OnlyTheHolder ==
    ASSUME TypeOK, LeaseInv, NEW r \in Runs, run[r].pc \in Leased
    PROVE  confs \cup loaded \subseteq {r}
  BY DEF TypeOK, LeaseInv, LeaseGuardsTaint

\* A step that gives no audit the lease, and adds no configuration, keeps the
\* lease invariant.
LEMMA LeaseUndisturbed ==
    ASSUME TypeOK, LeaseInv, lease'.by = lease.by,
           confs' \cup loaded' \subseteq confs \cup loaded,
           \A q \in Runs : /\ run'[q].pc \in Leased => run[q].pc \in Leased
                           /\ run'[q].pc = "lease" => q \in Profiling
    PROVE  LeaseInv'
  BY DEF LeaseInv, LeaseGuardsTaint, TypeOK

\* Before the lease and after the end of it, nothing of it changes.
LEMMA QueueKeepsLease ==
    ASSUME TypeOK, LeaseInv, NEW r \in Runs,
           \/ TryLock(r) \/ NameLock(r) \/ LookAtLock(r) \/ RemoveStaleLock(r)
           \/ GiveUp(r) \/ ReleaseLock(r) \/ Crash(r)
    PROVE  LeaseInv'
<1>1. UNCHANGED <<lease, confs, loaded>>
  BY DEF TryLock, NameLock, LookAtLock, RemoveStaleLock, GiveUp, ReleaseLock,
         Crash
<1>2. \E pc \in {"naming", "look", "steal", "try", "refused", "passed", "failed",
                 "dead", IF r \in Profiling THEN "lease" ELSE "unlock"} :
        Goto(r, pc)
  BY OutcomeKinds DEF TryLock, NameLock, LookAtLock, RemoveStaleLock, GiveUp,
                      ReleaseLock, Crash
<1>3. \A q \in Runs : /\ run'[q].pc \in Leased => run[q].pc \in Leased
                      /\ run'[q].pc = "lease" => q \in Profiling
  BY <1>2 DEF Goto, TypeOK, Leased, Restoring, LeaseInv
<1> QED
  BY <1>1, <1>3, LeaseUndisturbed

\* The lease goes to an audit only when nobody has it.
LEMMA AcquireKeepsLease ==
    ASSUME TypeOK, LeaseInv, NEW r \in Runs, AcquireLease(r)
    PROVE  LeaseInv'
<1>1. run[r].pc = "lease" /\ r \in Profiling /\ UNCHANGED <<confs, loaded>>
  BY DEF AcquireLease, At, LeaseInv
<1>2. CASE lease = NoLease /\ lease' = [by |-> r, written |-> FALSE]
           /\ Goto(r, "leasing")
  <2>1. confs' = {} /\ loaded' = {}
    BY <1>1, <1>2, FreeMeansClean
  <2>2. \A q \in Runs : run[q].pc \notin Leased
    BY <1>2, AuditLocksAssumption DEF LeaseInv, NoLease
  <2> QED
    BY <1>1, <1>2, <2>1, <2>2 DEF LeaseInv, LeaseGuardsTaint, Goto, TypeOK
<1>3. CASE Fail(r, "unlock") /\ UNCHANGED lease
  <2>1. \A q \in Runs : /\ run'[q].pc \in Leased => run[q].pc \in Leased
                        /\ run'[q].pc = "lease" => q \in Profiling
    BY <1>1, <1>3 DEF Fail, TypeOK, Leased, Restoring, LeaseInv
  <2> QED
    BY <1>1, <1>3, <2>1, LeaseUndisturbed
<1> QED
  BY <1>2, <1>3 DEF AcquireLease

\* An audit under the lease gives it back clean, or not at all; its own
\* configuration is the only one that comes.
LEMMA WorkKeepsLease ==
    ASSUME TypeOK, LeaseInv, ProfileInv, NEW r \in Runs, run[r].pc \in Leased,
           \A q \in Runs \ {r} : run'[q] = run[q],
           run'[r].pc \in Leased \cup {"unlock"},
           confs' \subseteq confs \cup {r}, loaded' \subseteq loaded \cup confs,
           lease'.by = lease.by
    PROVE  LeaseInv'
<1>1. lease.by = r /\ r \in Profiling
  BY DEF LeaseInv
<1>2. \A c \in confs' \cup loaded' : c = r
  BY OnlyTheHolder DEF TypeOK
<1>3. \A q \in Runs \ {r} : run'[q].pc \notin Leased
  BY <1>1 DEF LeaseInv
<1>4. "unlock" # "lease" /\ "lease" \notin Leased
  BY DEF Leased, Restoring
<1> QED
  BY <1>1, <1>2, <1>3, <1>4 DEF LeaseInv, LeaseGuardsTaint

\* Every step of an audit keeps the lease invariant.
LEMMA RunStepLease ==
    ASSUME TypeOK, LeaseInv, ProfileInv, NEW r \in Runs, RunStep(r)
    PROVE  LeaseInv'
<1>1. CASE \/ TryLock(r) \/ NameLock(r) \/ LookAtLock(r) \/ RemoveStaleLock(r)
           \/ GiveUp(r) \/ ReleaseLock(r) \/ Crash(r)
  BY <1>1, QueueKeepsLease
<1>2. CASE AcquireLease(r)
  BY <1>2, AcquireKeepsLease
<1>3. CASE WriteLease(r) \/ ClearProfile(r) \/ WriteConfig(r) \/ ReloadOn(r)
           \/ Capture(r) \/ Collect(r)
  <2>1. /\ run[r].pc \in Leased /\ run'[r].pc \in Leased \cup {"unlock"}
        /\ \A q \in Runs \ {r} : run'[q] = run[q]
    BY <1>3 DEF WriteLease, ClearProfile, WriteConfig, ReloadOn, Capture,
                Collect, At, Goto, Fail, TypeOK, Leased, Restoring
  <2>2. /\ confs' \subseteq confs \cup {r} /\ loaded' \subseteq loaded \cup confs
        /\ lease'.by = lease.by
    BY <1>3 DEF WriteLease, ClearProfile, WriteConfig, ReloadOn, Capture,
                Collect, TypeOK
  <2> QED
    BY <2>1, <2>2, WorkKeepsLease
<1>4. CASE RemoveConfig(r) \/ ReloadOff(r) \/ RemoveProfile(r)
  <2>1. /\ run[r].pc \in Leased /\ run'[r].pc \in Leased \cup {"unlock"}
        /\ \A q \in Runs \ {r} : run'[q] = run[q]
    BY <1>4 DEF RemoveConfig, ReloadOff, RemoveProfile, At, Goto, Tear, TypeOK,
                Leased, Restoring
  <2>2. /\ confs' \subseteq confs \cup {r} /\ loaded' \subseteq loaded \cup confs
        /\ lease'.by = lease.by
    BY <1>4 DEF RemoveConfig, ReloadOff, RemoveProfile, TypeOK
  <2> QED
    BY <2>1, <2>2, WorkKeepsLease
<1>5. CASE ReleaseLease(r)
  <2>1. /\ run[r].pc = "release" /\ run'[r].pc = "unlock"
        /\ \A q \in Runs \ {r} : run'[q] = run[q]
        /\ UNCHANGED <<confs, loaded>>
    BY <1>5 DEF ReleaseLease, At, Goto, Fail, TypeOK
  <2>2. run[r].pc \in Leased /\ lease.by = r /\ r \in Profiling
    BY <2>1 DEF Leased, Restoring, LeaseInv
  <2>3. CASE UNCHANGED lease
    BY <2>1, <2>2, <2>3, WorkKeepsLease
  <2>4. CASE ~run[r].torn /\ lease' = NoLease
    <3>1. confs' = {} /\ loaded' = {}
      BY <2>1, <2>2, <2>4, OnlyTheHolder DEF ProfileInv, OnItsWay
    <3>2. \A q \in Runs : run'[q].pc \notin Leased \cup {"lease"} \/ q \in Profiling
      BY <2>1 DEF LeaseInv, Leased, Restoring
    <3>3. \A q \in Runs : run'[q].pc \notin Leased
      BY <2>1, <2>2 DEF LeaseInv, Leased, Restoring
    <3> QED
      BY <3>1, <3>2, <3>3 DEF LeaseInv, LeaseGuardsTaint
  <2> QED
    BY <1>5, <2>3, <2>4 DEF ReleaseLease
<1> QED
  BY <1>1, <1>2, <1>3, <1>4, <1>5 DEF RunStep

\* What happens around the audits keeps the lease invariant: an operator
\* recovers only from an audit that has ended.
LEMMA SurroundingsLease ==
    ASSUME TypeOK, LeaseInv, Surroundings PROVE LeaseInv'
<1>1. CASE LockAges \/ Visit \/ WebServerRestarts
  BY <1>1, LeaseUndisturbed DEF LockAges, Visit, WebServerRestarts, LeaseInv
<1>2. CASE OperatorRecovers
  <2>1. \A q \in Runs : run[q].pc \notin Leased
    BY <1>2 DEF OperatorRecovers, LeaseInv, Leased, Restoring, Ended
  <2> QED
    BY <1>2, <2>1 DEF OperatorRecovers, LeaseInv, LeaseGuardsTaint
<1> QED
  BY <1>1, <1>2 DEF Surroundings

\* What another audit does leaves an audit on its way: either it works under
\* the lease, which this one then has not, or it touches nothing but the lease.
LEMMA OthersKeepOnTheWay ==
    ASSUME TypeOK, LeaseInv, NEW p \in Profiling, NEW r \in Runs, p # r,
           OnItsWay(p), run'[p] = run[p],
           run[r].pc \in Leased \/ UNCHANGED <<confs, loaded, csv>>,
           confs' \subseteq confs \cup {r}, loaded' \subseteq loaded \cup confs,
           lease'.by \in {lease.by, r, Nobody}
    PROVE  OnItsWay(p)'
<1>1. p \in Runs /\ p # Nobody
  BY AuditLocksAssumption
<1>2. CASE run[r].pc \in Leased
  <2>1. run[p].pc \notin Leased
    BY <1>1, <1>2 DEF LeaseInv
  <2>2. p \notin confs' \cup loaded'
    BY <1>2, OnlyTheHolder
  <2>3. Clean(p) => Clean(p)'
    BY <1>1, <2>2 DEF Clean
  <2> QED
    BY <2>1, <2>3 DEF OnItsWay, Leased, Window, Restoring
<1>3. CASE UNCHANGED <<confs, loaded, csv>>
  <2>1. Clean(p) => Clean(p)'
    BY <1>1, <1>3 DEF Clean
  <2> QED
    BY <1>3, <2>1 DEF OnItsWay
<1> QED
  BY <1>2, <1>3

\* Outside the lease a step touches neither the web server nor the profile.
LEMMA StepsAreLocal ==
    ASSUME TypeOK, LeaseInv, NEW r \in Runs, RunStep(r)
    PROVE  /\ \A p \in Runs \ {r} : run'[p] = run[p]
           /\ run[r].pc \in Leased \/ UNCHANGED <<confs, loaded, csv>>
           /\ confs' \subseteq confs \cup {r}
           /\ loaded' \subseteq loaded \cup confs
           /\ lease'.by \in {lease.by, r, Nobody}
<1>1. CASE \/ TryLock(r) \/ NameLock(r) \/ LookAtLock(r) \/ RemoveStaleLock(r)
           \/ GiveUp(r) \/ ReleaseLock(r) \/ Crash(r)
  BY <1>1 DEF TryLock, NameLock, LookAtLock, RemoveStaleLock, GiveUp,
              ReleaseLock, Crash, Goto, TypeOK
<1>2. CASE AcquireLease(r)
  BY <1>2 DEF AcquireLease, Goto, Fail, TypeOK
<1>3. CASE WriteLease(r) \/ ClearProfile(r) \/ WriteConfig(r) \/ ReloadOn(r)
           \/ Capture(r) \/ Collect(r)
  BY <1>3 DEF WriteLease, ClearProfile, WriteConfig, ReloadOn, Capture, Collect,
              At, Goto, Fail, TypeOK, Leased, Restoring
<1>4. CASE RemoveConfig(r) \/ ReloadOff(r) \/ RemoveProfile(r)
  BY <1>4 DEF RemoveConfig, ReloadOff, RemoveProfile, At, Goto, Tear, TypeOK,
              Leased, Restoring
<1>5. CASE ReleaseLease(r)
  BY <1>5 DEF ReleaseLease, At, Goto, Fail, TypeOK, NoLease, Leased, Restoring
<1> QED
  BY <1>1, <1>2, <1>3, <1>4, <1>5 DEF RunStep

\* An audit stays on its way by every step of its own.
LEMMA OwnStepsKeepOnTheWay ==
    ASSUME TypeOK, LeaseInv, NEW r \in Profiling, OnItsWay(r), RunStep(r)
    PROVE  OnItsWay(r)'
<1> USE DEF OnItsWay, Window, Restoring
<1>0. r \in Runs /\ r # Nobody
  BY AuditLocksAssumption
<1>1. CASE TryLock(r) \/ LookAtLock(r) \/ RemoveStaleLock(r) \/ GiveUp(r)
           \/ Crash(r)
  BY <1>0, <1>1 DEF TryLock, LookAtLock, RemoveStaleLock, GiveUp, Crash, Goto,
                    TypeOK
<1>2. CASE NameLock(r)
  BY <1>0, <1>2 DEF NameLock, Goto, TypeOK
<1>3. CASE ReleaseLock(r)
  BY <1>0, <1>3 DEF ReleaseLock, Outcome, At, Goto, TypeOK, Clean
<1>4. CASE AcquireLease(r) \/ WriteLease(r)
  BY <1>0, <1>4 DEF AcquireLease, WriteLease, At, Goto, Fail, TypeOK
<1>5. CASE ClearProfile(r)
  BY <1>0, <1>5 DEF ClearProfile, At, Goto, Fail, TypeOK
<1>6. CASE WriteConfig(r) \/ ReloadOn(r)
  BY <1>0, <1>6 DEF WriteConfig, ReloadOn, At, Goto, Fail, TypeOK
<1>7. CASE Capture(r)
  <2>1. run[r].pc = "capture" /\ run[r].pc \in Leased
    BY <1>7 DEF Capture, At, Leased
  <2>2. csv' \in {Nobody, r}
    BY <1>0, <1>7, <2>1, OnlyTheHolder DEF Capture, Profiled
  <2> QED
    BY <1>0, <1>7, <2>2 DEF Capture, Goto, Fail, TypeOK
<1>8. CASE Collect(r)
  BY <1>0, <1>8 DEF Collect, At, Fail, TypeOK
<1>9. CASE RemoveConfig(r)
  BY <1>0, <1>9 DEF RemoveConfig, At, Goto, Tear, TypeOK
<1>10. CASE ReloadOff(r)
  BY <1>0, <1>10 DEF ReloadOff, At, Goto, Tear, TypeOK
<1>11. CASE RemoveProfile(r)
  BY <1>0, <1>11 DEF RemoveProfile, At, Goto, Tear, TypeOK
<1>12. CASE ReleaseLease(r)
  <2>1. CASE Fail(r, "unlock")
    BY <1>0, <2>1 DEF Fail, TypeOK
  <2>2. CASE ~run[r].torn /\ lease' = NoLease /\ Goto(r, "unlock")
    BY <1>0, <1>12, <2>2 DEF ReleaseLease, At, Goto, TypeOK, Clean, NoLease
  <2> QED
    BY <1>12, <2>1, <2>2 DEF ReleaseLease
<1> QED
  BY <1>1, <1>2, <1>3, <1>4, <1>5, <1>6, <1>7, <1>8, <1>9, <1>10, <1>11, <1>12
     DEF RunStep

\* What happens around the audits keeps them on their way: a visitor's profile
\* comes from the configuration that is loaded, which is the holder's.
LEMMA SurroundingsOnTheWay ==
    ASSUME TypeOK, LeaseInv, NEW p \in Profiling, OnItsWay(p), Surroundings
    PROVE  OnItsWay(p)'
<1>0. p \in Runs /\ p # Nobody
  BY AuditLocksAssumption
<1>1. CASE LockAges
  BY <1>1 DEF LockAges, OnItsWay, Clean
<1>2. CASE Visit
  <2>1. run[p].pc \in Window => csv' \in {Nobody, p}
    BY <1>0, <1>2, OnlyTheHolder DEF Visit, Profiled, Window, Leased
  <2> QED
    BY <1>2, <2>1 DEF Visit, OnItsWay, Clean
<1>3. CASE WebServerRestarts
  BY <1>3 DEF WebServerRestarts, OnItsWay, Clean
<1>4. CASE OperatorRecovers
  <2>1. run[p].pc \notin Leased
    BY <1>0, <1>4 DEF OperatorRecovers, LeaseInv, Leased, Restoring, Ended
  <2> QED
    BY <1>0, <1>4, <2>1 DEF OperatorRecovers, OnItsWay, Clean, Window, Leased,
                            Restoring, NoLease
<1> QED
  BY <1>1, <1>2, <1>3, <1>4 DEF Surroundings

IInv == TypeOK /\ LeaseInv /\ ProfileInv

\* Every step keeps the inductive invariant.
LEMMA StepIInv == IInv /\ [Next]_vars => IInv'
<1> SUFFICES ASSUME IInv, [Next]_vars PROVE IInv'
  OBVIOUS
<1>1. TypeOK'
  BY StepTyped DEF IInv
<1>2. ASSUME NEW r \in Runs, RunStep(r) PROVE LeaseInv' /\ ProfileInv'
  <2>1. LeaseInv'
    BY <1>2, RunStepLease DEF IInv
  <2>2. ASSUME NEW p \in Profiling PROVE OnItsWay(p)'
    <3>1. p \in Runs
      BY AuditLocksAssumption
    <3>2. CASE p = r
      BY <1>2, <3>2, OwnStepsKeepOnTheWay DEF IInv, ProfileInv
    <3>3. CASE p # r
      BY <1>2, <3>1, <3>3, StepsAreLocal, OthersKeepOnTheWay DEF IInv, ProfileInv
    <3> QED
      BY <3>2, <3>3
  <2> QED
    BY <2>1, <2>2 DEF ProfileInv
<1>3. CASE Surroundings
  BY <1>1, <1>3, SurroundingsLease, SurroundingsOnTheWay DEF IInv, ProfileInv
<1>4. CASE UNCHANGED vars
  BY <1>1, <1>4 DEF vars, IInv, LeaseInv, LeaseGuardsTaint, ProfileInv, OnItsWay,
                    Clean
<1> QED
  BY <1>1, <1>2, <1>3, <1>4, NextSplits DEF IInv

\* The initial state satisfies the inductive invariant.
LEMMA InitIInv == Init => IInv
  BY InitTyped, AuditLocksAssumption
     DEF Init, IInv, LeaseInv, LeaseGuardsTaint, ProfileInv, OnItsWay, Leased,
         Window, Restoring

(***************************************************************************)
(* A configuration of the profiler is never in the project or in the web   *)
(* server without the lease of the run it belongs to: whatever failed,     *)
(* died, or slipped through the audit lock, no other run can profile.      *)
(***************************************************************************)
THEOREM TaintIsGuarded == Spec => []LeaseGuardsTaint
<1>1. IInv => LeaseGuardsTaint
  BY DEF IInv, LeaseInv
<1> QED
  BY <1>1, InitIInv, StepIInv, PTL DEF Spec

(***************************************************************************)
(* An audit that reports success restored everything it had changed, gave  *)
(* the lease back, and reports a profile of its own.                       *)
(***************************************************************************)
THEOREM SuccessIsClean == Spec => []PassedIsClean
<1>1. IInv => PassedIsClean
  BY DEF IInv, ProfileInv, OnItsWay, At, Clean, PassedIsClean
<1> QED
  BY <1>1, InitIInv, StepIInv, PTL DEF Spec
=============================================================================
