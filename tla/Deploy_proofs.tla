--------------------------- MODULE Deploy_proofs ----------------------------
(***************************************************************************)
(* Proofs about Deploy, for every set of runs, every pipeline and every    *)
(* bound.                                                                  *)
(***************************************************************************)
EXTENDS Deploy, FiniteSetTheorems, WellFoundedInduction, TLAPS

-----------------------------------------------------------------------------
(* Type correctness. *)

TargetType ==
  /\ lock \in Run \cup {NoRun}
  /\ owner \in {"none", "fresh", "stale"}
  /\ dirs \subseteq Number
  /\ rec \in [Number -> Record]
  /\ stray \in BOOLEAN
  /\ live \in 0 .. MaxRelease
  /\ content \in [Number -> SUBSET InRelease]

\* Where a command is in the pipeline, as far as its program counter tells.
PcFits(rs) ==
  /\ rs.pc = "mkdir" => rs.cmd = "rollback"
  /\ rs.pc = "step" => rs.idx >= 1
  /\ rs.pc \in {"write", "failed"} => rs.idx \in 1 .. Len(Pipeline)
  /\ rs.pc = "owner" /\ rs.cmd # "rollback" => rs.idx \in 1 .. Len(Pipeline)
  /\ rs.pc \in {"resumeLock", "resumeLive", "resumeUnlock", "resumeRun"}
       => rs.num \in Number

TypeInv == TypeOK /\ \A r \in Run : PcFits(run[r])

LEMMA TaskAtIndex == ASSUME NEW i \in 1 .. Len(Pipeline) PROVE Pipeline[i] \in Task
  BY PipelineAssumption

LEMMA IdleType == Idle \in RunState /\ PcFits(Idle)
  BY ConstantsAssumption DEF Idle, RunState, Pc, PcFits

LEMMA RunType ==
  ASSUME TypeInv, NEW r \in Run
  PROVE  run[r] \in RunState /\ PcFits(run[r])
  BY DEF TypeInv, TypeOK

LEMMA TargetIsTyped == ASSUME TypeInv PROVE TargetType
  BY DEF TypeInv, TypeOK, TargetType

LEMMA TargetUnchanged ==
  ASSUME TypeInv, UNCHANGED target
  PROVE  TargetType'
  BY DEF TypeInv, TypeOK, TargetType, target

\* One command changes its own state and leaves a well-typed target.
LEMMA Update ==
  ASSUME TypeInv, NEW r \in Run, NEW rs \in RunState, PcFits(rs), Set(r, rs),
         TargetType', inside' \subseteq Run, faults' \in 0 .. MaxFaults
  PROVE  TypeInv'
  <1>1. run' \in [Run -> RunState]
    BY DEF TypeInv, TypeOK, Set
  <1>2. \A s \in Run : PcFits(run'[s])
    BY DEF TypeInv, TypeOK, Set
  <1> QED
    BY <1>1, <1>2 DEF TypeInv, TypeOK, TargetType, PcFits

\* One command changes its own state and nothing else.
LEMMA LocalUpdate ==
  ASSUME TypeInv, NEW r \in Run, NEW rs \in RunState, PcFits(rs), Set(r, rs),
         UNCHANGED <<target, inside, faults>>
  PROVE  TypeInv'
  <1>1. TargetType' /\ inside' \subseteq Run /\ faults' \in 0 .. MaxFaults
    BY TargetUnchanged DEF TypeInv, TypeOK
  <1> QED
    BY <1>1, Update

LEMMA FaultType == ASSUME TypeInv, Fault PROVE faults' \in 0 .. MaxFaults
  BY ConstantsAssumption DEF Fault, TypeInv, TypeOK

LEMMA RemoveLockType ==
  RemoveLock => lock' \in Run \cup {NoRun} /\ owner' \in {"none", "fresh", "stale"}
  BY DEF RemoveLock

\* Storing the record of a command.
LEMMA WriteType ==
  ASSUME TypeInv, NEW rs \in RunState, WriteRelease(rs)
  PROVE  dirs' \subseteq Number /\ rec' \in [Number -> Record] /\ stray' \in BOOLEAN
  <1>1. rs.num \in 0 .. MaxRelease /\ [status |-> rs.status, done |-> rs.done] \in Record
    BY DEF RunState, Record
  <1>2. CASE rs.num = 0
    BY <1>2 DEF WriteRelease, TypeInv, TypeOK
  <1>3. CASE rs.num # 0
    <2>1. rs.num \in Number
      BY <1>1, <1>3, ConstantsAssumption DEF Number
    <2>2. dirs' \subseteq Number /\ rec' \in [Number -> Record]
      BY <1>1, <1>3, <2>1 DEF WriteRelease, TypeInv, TypeOK
    <2>3. stray' \in BOOLEAN
      BY <1>3 DEF WriteRelease, TypeInv, TypeOK
    <2> QED
      BY <2>2, <2>3
  <1> QED
    BY <1>2, <1>3

LEMMA BestEffortType ==
  ASSUME TypeInv, NEW rs \in RunState, BestEffortWrite(rs)
  PROVE  /\ dirs' \subseteq Number /\ rec' \in [Number -> Record] /\ stray' \in BOOLEAN
         /\ faults' \in 0 .. MaxFaults
  <1>1. CASE WriteRelease(rs) /\ UNCHANGED faults
    BY <1>1, WriteType DEF TypeInv, TypeOK
  <1>2. CASE Fault /\ UNCHANGED <<rec, dirs, stray>>
    BY <1>2, FaultType DEF TypeInv, TypeOK
  <1> QED
    BY <1>1, <1>2 DEF BestEffortWrite

LEMMA StoreType ==
  ASSUME TypeInv, NEW rs \in RunState, StoreRecord(rs)
  PROVE  /\ dirs' \subseteq Number /\ rec' \in [Number -> Record] /\ stray' \in BOOLEAN
         /\ faults' \in 0 .. MaxFaults
  <1>1. CASE rs.num = 0
    BY <1>1 DEF StoreRecord, TypeInv, TypeOK
  <1>2. CASE rs.num # 0
    BY <1>2, BestEffortType DEF StoreRecord
  <1> QED
    BY <1>1, <1>2

LEMMA RemoveReleasesType ==
  ASSUME TypeInv, NEW S, RemoveReleases(S)
  PROVE  /\ dirs' \subseteq Number
         /\ rec' \in [Number -> Record]
         /\ content' \in [Number -> SUBSET InRelease]
  BY DEF RemoveReleases, TypeInv, TypeOK, Record, NoRecord

LEMMA TypeInit == Init => TypeInv
  <1> SUFFICES ASSUME Init PROVE TypeInv
    OBVIOUS
  <1>1. run \in [Run -> RunState] /\ \A r \in Run : PcFits(run[r])
    BY IdleType DEF Init
  <1>2. rec \in [Number -> Record] /\ content \in [Number -> SUBSET InRelease]
    BY DEF Init, Record, NoRecord
  <1>3. dirs \subseteq Number /\ live \in 0 .. MaxRelease
    BY ConstantsAssumption DEF Init, Number
  <1>4. stray \in BOOLEAN
    BY DEF Init
  <1>5. faults \in 0 .. MaxFaults
    BY ConstantsAssumption DEF Init
  <1>6. lock \in Run \cup {NoRun} /\ owner \in {"none", "fresh", "stale"} /\ inside \subseteq Run
    BY DEF Init
  <1> QED
    BY <1>1, <1>2, <1>3, <1>4, <1>5, <1>6 DEF TypeInv, TypeOK

\* Issuing a command.
LEMMA TypeIssue ==
  ASSUME TypeInv, NEW r \in Run, NEW b \in BOOLEAN,
         \/ StartDeploy(r, b) \/ StartResume(r, b)
         \/ RollbackSelect(r, b) \/ UnlockCheck(r, b)
  PROVE  TypeInv'
  <1>1. CASE StartDeploy(r, b)
    <2> DEFINE rs == [Idle EXCEPT !.pc = "step", !.cmd = "deploy", !.idx = 1,
                                  !.status = "running", !.nolock = b]
    <2>1. rs \in RunState
      BY IdleType DEF RunState, Pc
    <2>2. PcFits(rs)
      BY DEF Idle, PcFits
    <2>3. Set(r, rs) /\ UNCHANGED <<target, inside, faults>>
      BY <1>1 DEF StartDeploy
    <2> QED
      BY <2>1, <2>2, <2>3, LocalUpdate
  <1>2. CASE StartResume(r, b)
    <2>1. PICK n \in IncompleteRelease :
            Set(r, [Idle EXCEPT !.pc = "resumeLock", !.cmd = "deploy", !.num = n,
                                !.status = rec[n].status, !.done = rec[n].done,
                                !.nolock = b])
      BY <1>2 DEF StartResume
    <2> DEFINE rs == [Idle EXCEPT !.pc = "resumeLock", !.cmd = "deploy", !.num = n,
                                  !.status = rec[n].status, !.done = rec[n].done,
                                  !.nolock = b]
    <2>2. n \in Number /\ n \in 0 .. MaxRelease /\ rec[n] \in Record
      BY DEF IncompleteRelease, Incomplete, Recorded, TypeInv, TypeOK, Number
    <2>3. rs \in RunState /\ PcFits(rs)
      BY <2>2, IdleType DEF Idle, RunState, Pc, Record, PcFits
    <2>4. Set(r, rs) /\ UNCHANGED <<target, inside, faults>>
      BY <1>2, <2>1 DEF StartResume
    <2> QED
      BY <2>3, <2>4, LocalUpdate
  <1>3. CASE RollbackSelect(r, b)
    <2>1. PICK n \in Usable :
            Set(r, [Idle EXCEPT !.pc = IF b THEN "activate" ELSE "mkdir",
                                !.cmd = "rollback", !.num = n, !.nolock = b])
      BY <1>3 DEF RollbackSelect
    <2> DEFINE rs == [Idle EXCEPT !.pc = IF b THEN "activate" ELSE "mkdir",
                                  !.cmd = "rollback", !.num = n, !.nolock = b]
    <2>2. n \in 0 .. MaxRelease
      BY DEF Usable, Recorded, TypeInv, TypeOK, Number
    <2>3. rs \in RunState /\ PcFits(rs)
      BY <2>2, IdleType DEF Idle, RunState, Pc, PcFits
    <2>4. Set(r, rs) /\ UNCHANGED <<target, inside, faults>>
      BY <1>3, <2>1 DEF RollbackSelect
    <2> QED
      BY <2>3, <2>4, LocalUpdate
  <1>4. CASE UnlockCheck(r, b)
    <2> DEFINE rs == [Idle EXCEPT !.pc = "unlock", !.cmd = "unlock"]
    <2>1. rs \in RunState /\ PcFits(rs)
      BY IdleType DEF Idle, RunState, Pc, PcFits
    <2>2. Set(r, rs) /\ UNCHANGED <<target, inside, faults>>
      BY <1>4 DEF UnlockCheck
    <2> QED
      BY <2>1, <2>2, LocalUpdate
  <1> QED
    BY <1>1, <1>2, <1>3, <1>4

\* The recovery steps of a resume, rollback and unlock, and a killed process.
LEMMA TypeRecovery ==
  ASSUME TypeInv, NEW r \in Run,
         \/ ResumeCheckLock(r) \/ ResumeCheckLive(r) \/ ResumeUnlock(r) \/ ResumeRun(r)
         \/ RollbackActivate(r) \/ RollbackUnlock(r) \/ UnlockRemove(r)
         \/ ReleaseLockAfterFailure(r) \/ Crash(r)
  PROVE  TypeInv'
  <1> DEFINE At(l) == [run[r] EXCEPT !.pc = l]
  <1>0. run[r] \in RunState /\ PcFits(run[r]) /\ TargetType
    BY RunType, TargetIsTyped
  <1>1. CASE ResumeCheckLock(r) \/ ResumeCheckLive(r)
    <2>1. At("resumeLive") \in RunState /\ At("resumeUnlock") \in RunState
      BY <1>0 DEF RunState, Pc
    <2>2. PcFits(At("resumeLive")) /\ PcFits(At("resumeUnlock"))
      BY <1>0, <1>1 DEF RunState, PcFits, ResumeCheckLock, ResumeCheckLive
    <2>3. \E rs \in {Idle, At("resumeLive"), At("resumeUnlock")} : Set(r, rs)
      BY <1>1 DEF ResumeCheckLock, ResumeCheckLive, Goto
    <2>4. UNCHANGED <<target, inside, faults>>
      BY <1>1 DEF ResumeCheckLock, ResumeCheckLive
    <2> HIDE DEF At
    <2> QED
      BY <2>1, <2>2, <2>3, <2>4, IdleType, LocalUpdate
  <1>2. CASE ResumeUnlock(r)
    <2>1. At("resumeRun") \in RunState /\ PcFits(At("resumeRun"))
      BY <1>0, <1>2 DEF RunState, Pc, PcFits, ResumeUnlock
    <2>2. TargetType'
      BY <1>0, <1>2, RemoveLockType DEF ResumeUnlock, TargetType
    <2>3. Set(r, At("resumeRun")) /\ inside' \subseteq Run /\ faults' \in 0 .. MaxFaults
      BY <1>2 DEF ResumeUnlock, Goto, TypeInv, TypeOK
    <2> HIDE DEF At
    <2> QED
      BY <2>1, <2>2, <2>3, Update
  <1>3. CASE ResumeRun(r)
    <2> DEFINE rs == [run[r] EXCEPT !.pc = "step", !.idx = 1,
                        !.carried = rec[run[r].num].done \ ResumeAlwaysReruns]
    <2>1. rec[run[r].num].done \subseteq Task
      BY <1>0, <1>3 DEF ResumeRun, PcFits, TargetType, Record
    <2>2. rs \in RunState
      BY <1>0, <2>1 DEF RunState, Pc
    <2>3. PcFits(rs)
      BY <1>0 DEF RunState, PcFits
    <2>4. Set(r, rs) /\ UNCHANGED <<target, inside, faults>>
      BY <1>3 DEF ResumeRun
    <2> QED
      BY <2>2, <2>3, <2>4, LocalUpdate
  <1>4. CASE RollbackActivate(r)
    <2>1. At("deferred") \in RunState /\ PcFits(At("deferred"))
      BY <1>0 DEF RunState, Pc, PcFits
    <2>2. live' \in 0 .. MaxRelease /\ faults' \in 0 .. MaxFaults
      BY <1>0, <1>4, FaultType DEF RollbackActivate, RunState, TypeInv, TypeOK
    <2>3. TargetType' /\ inside' \subseteq Run
      BY <1>0, <1>4, <2>2 DEF RollbackActivate, TargetType, TypeInv, TypeOK
    <2>4. \E rs \in {Idle, At("deferred")} : Set(r, rs)
      BY <1>4 DEF RollbackActivate, Goto
    <2> HIDE DEF At
    <2> QED
      BY <2>1, <2>2, <2>3, <2>4, IdleType, Update
  <1>5. CASE RollbackUnlock(r) \/ ReleaseLockAfterFailure(r) \/ UnlockRemove(r)
    <2>1. lock' \in Run \cup {NoRun} /\ owner' \in {"none", "fresh", "stale"}
      BY <1>0, <1>5, RemoveLockType
      DEF RollbackUnlock, ReleaseLockAfterFailure, UnlockRemove, TargetType
    <2>2. faults' \in 0 .. MaxFaults
      BY <1>5, FaultType
      DEF RollbackUnlock, ReleaseLockAfterFailure, UnlockRemove, TypeInv, TypeOK
    <2>3. TargetType' /\ inside' \subseteq Run
      BY <1>0, <1>5, <2>1
      DEF RollbackUnlock, ReleaseLockAfterFailure, UnlockRemove, TargetType, TypeInv, TypeOK
    <2>4. Set(r, Idle)
      BY <1>5 DEF RollbackUnlock, ReleaseLockAfterFailure, UnlockRemove
    <2> QED
      BY <2>2, <2>3, <2>4, IdleType, Update
  <1>6. CASE Crash(r)
    BY <1>6, IdleType, FaultType, TargetUnchanged, Update DEF Crash, TypeInv, TypeOK
  <1> QED
    BY <1>1, <1>2, <1>3, <1>4, <1>5, <1>6

\* A command at one of its steps may go on to store the result or to fail.
LEMMA StepGoto ==
  ASSUME TypeInv, NEW r \in Run, NEW t, AtStep(r, t), NEW l \in {"write", "failed", "owner"}
  PROVE  /\ run[r].idx \in 1 .. Len(Pipeline)
         /\ [run[r] EXCEPT !.pc = l] \in RunState
         /\ PcFits([run[r] EXCEPT !.pc = l])
  <1>1. run[r] \in RunState /\ PcFits(run[r])
    BY RunType
  <1>2. run[r].idx \in 1 .. Len(Pipeline)
    BY <1>1, PipelineAssumption DEF AtStep, RunState, PcFits
  <1>3. [run[r] EXCEPT !.pc = l] \in RunState
    BY <1>1 DEF RunState, Pc
  <1>4. PcFits([run[r] EXCEPT !.pc = l])
    BY <1>1, <1>2 DEF RunState, PcFits
  <1> QED
    BY <1>2, <1>3, <1>4

\* The steps of the loop that end in Goto.
LEMMA TypeStep ==
  ASSUME TypeInv, NEW r \in Run,
         \/ PlainStep(r) \/ ActivateStep(r) \/ VerifyStep(r) \/ CleanupStep(r)
         \/ UnlockStep(r) \/ StepRefused(r) \/ StepFails(r)
  PROVE  TypeInv'
  <1> DEFINE At(l) == [run[r] EXCEPT !.pc = l]
  <1>1. run[r] \in RunState /\ TargetType /\ inside \subseteq Run /\ faults \in 0 .. MaxFaults
    BY RunType, TargetIsTyped DEF TypeInv, TypeOK
  <1>2. \E t \in Task : Due(r, t)
    BY DEF PlainStep, ActivateStep, VerifyStep, CleanupStep, UnlockStep, StepRefused,
           StepFails, InRelease, Task
  <1>3. \A l \in {"write", "failed"} : At(l) \in RunState /\ PcFits(At(l))
    BY <1>2, StepGoto DEF Due
  <1>4. \E l \in {"write", "failed"} : Set(r, At(l))
    BY DEF PlainStep, ActivateStep, VerifyStep, CleanupStep, UnlockStep, StepRefused,
           StepFails, Goto
  <1> HIDE DEF At
  <1>5. SUFFICES TargetType' /\ inside' \subseteq Run /\ faults' \in 0 .. MaxFaults
    BY <1>3, <1>4, Update
  <1>6. CASE PlainStep(r)
    <2>1. content' \in [Number -> SUBSET InRelease]
      BY <1>1, <1>6 DEF PlainStep, TargetType, InRelease
    <2> QED
      BY <1>1, <1>6, <2>1 DEF PlainStep, TargetType
  <1>7. CASE ActivateStep(r)
    BY <1>1, <1>7 DEF ActivateStep, TargetType, RunState
  <1>8. CASE VerifyStep(r) \/ StepRefused(r)
    BY <1>1, <1>8, TargetUnchanged DEF VerifyStep, StepRefused
  <1>9. CASE CleanupStep(r)
    BY <1>1, <1>9, RemoveReleasesType DEF CleanupStep, TargetType
  <1>10. CASE UnlockStep(r)
    BY <1>1, <1>10, RemoveLockType DEF UnlockStep, TargetType
  <1>11. CASE StepFails(r)
    <2>1. faults' \in 0 .. MaxFaults
      BY <1>11, FaultType DEF StepFails
    <2>2. PICK t \in Task : HalfDone(r, t)
      BY <1>11 DEF StepFails
    <2>3. CASE UNCHANGED <<target, inside>>
      BY <1>1, <2>1, <2>3, TargetUnchanged
    <2>4. CASE t = "cleanup" /\ ~ UNCHANGED <<target, inside>>
      BY <1>1, <2>1, <2>2, <2>4, RemoveReleasesType DEF HalfDone, TargetType
    <2>5. CASE t # "cleanup" /\ ~ UNCHANGED <<target, inside>>
      BY <1>1, <2>1, <2>2, <2>5, RemoveLockType DEF HalfDone, TargetType, RunState
    <2> QED
      BY <2>3, <2>4, <2>5
  <1> QED
    BY <1>6, <1>7, <1>8, <1>9, <1>10, <1>11

\* deploy:lock and deploy:release.
LEMMA TypeLock ==
  ASSUME TypeInv, NEW r \in Run, LockMkdir(r) \/ LockOwner(r) \/ ReleaseStep(r)
  PROVE  TypeInv'
  <1> DEFINE At(l) == [run[r] EXCEPT !.pc = l]
  <1>1. /\ run[r] \in RunState /\ PcFits(run[r])
        /\ TargetType /\ inside \subseteq Run /\ faults \in 0 .. MaxFaults
    BY RunType, TargetIsTyped DEF TypeInv, TypeOK
  <1>2. CASE LockMkdir(r)
    <2>1. At("owner") \in RunState /\ At("failed") \in RunState
      BY <1>1 DEF RunState, Pc
    <2>2. run[r].cmd = "rollback" \/ run[r].idx \in 1 .. Len(Pipeline)
      BY <1>1, <1>2, StepGoto DEF LockMkdir, PcFits, Due
    <2>3. PcFits(At("owner"))
      BY <1>1, <2>2 DEF RunState, PcFits
    <2>4. run[r].cmd # "rollback" => PcFits(At("failed"))
      BY <1>1, <2>2 DEF RunState, PcFits
    <2>5. \/ Set(r, At("owner")) \/ Set(r, Idle)
          \/ run[r].cmd # "rollback" /\ Set(r, At("failed"))
      BY <1>2 DEF LockMkdir, LockRefused, Goto
    <2>6. TargetType' /\ inside' \subseteq Run /\ faults' \in 0 .. MaxFaults
      BY <1>1, <1>2 DEF LockMkdir, TargetType
    <2> HIDE DEF At
    <2> QED
      BY <2>1, <2>3, <2>4, <2>5, <2>6, IdleType, Update
  <1>3. CASE LockOwner(r)
    <2>1. \A l \in {"activate", "write", "failed"} : At(l) \in RunState
      BY <1>1 DEF RunState, Pc
    <2>2. PcFits(At("activate"))
      BY <1>1 DEF RunState, PcFits
    <2>3. run[r].cmd # "rollback" => PcFits(At("write")) /\ PcFits(At("failed"))
      BY <1>1, <1>3 DEF LockOwner, RunState, PcFits
    <2>4. \/ Set(r, At("activate")) \/ Set(r, Idle)
          \/ run[r].cmd # "rollback" /\ (Set(r, At("write")) \/ Set(r, At("failed")))
      BY <1>3 DEF LockOwner, LockRefused, Goto
    <2>5. faults' \in 0 .. MaxFaults
      BY <1>1, <1>3, FaultType DEF LockOwner
    <2>6. TargetType' /\ inside' \subseteq Run
      BY <1>1, <1>3, RemoveLockType DEF LockOwner, TargetType
    <2> HIDE DEF At
    <2> QED
      BY <2>1, <2>2, <2>3, <2>4, <2>5, <2>6, IdleType, Update
  <1>4. CASE ReleaseStep(r)
    <2> DEFINE n  == ReleaseNumber(r)
               rs == [run[r] EXCEPT !.pc = "write", !.num = n]
    <2>1. n \in Number /\ dirs' = dirs \cup {n} /\ Set(r, rs) /\ AtStep(r, "release")
      BY <1>4 DEF ReleaseStep, Due
    <2> HIDE DEF n
    <2>2. n \in 0 .. MaxRelease
      BY <2>1 DEF Number
    <2>3. rs \in RunState
      BY <1>1, <2>2 DEF RunState, Pc
    <2>4. PcFits(rs)
      BY <1>1, <2>1, StepGoto DEF RunState, PcFits
    <2>5. TargetType' /\ inside' \subseteq Run /\ faults' \in 0 .. MaxFaults
      BY <1>1, <1>4, <2>1 DEF ReleaseStep, TargetType
    <2> HIDE DEF rs
    <2> QED
      BY <2>1, <2>3, <2>4, <2>5, Update
  <1> QED
    BY <1>2, <1>3, <1>4

\* A step that stores a record and changes nothing else on the target.
LEMMA StoringUpdate ==
  ASSUME TypeInv, NEW r \in Run, NEW stored \in RunState, NEW rs \in RunState,
         StoreRecord(stored) \/ BestEffortWrite(stored), PcFits(rs), Set(r, rs),
         UNCHANGED <<lock, owner, live, content>>, inside' \subseteq Run
  PROVE  TypeInv'
  <1>1. /\ dirs' \subseteq Number /\ rec' \in [Number -> Record] /\ stray' \in BOOLEAN
        /\ faults' \in 0 .. MaxFaults
    BY StoreType, BestEffortType
  <1>2. TargetType'
    BY <1>1, TargetIsTyped DEF TargetType
  <1> QED
    BY <1>1, <1>2, Update

\* The steps of the loop that store the record.
LEMMA TypeRecord ==
  ASSUME TypeInv, NEW r \in Run,
         \/ CarryOver(r) \/ SkipLockStep(r) \/ RecordStep(r) \/ RecordFailure(r) \/ FinishRun(r)
  PROVE  TypeInv'
  <1>1. run[r] \in RunState /\ PcFits(run[r]) /\ inside \subseteq Run
    BY RunType DEF TypeInv, TypeOK
  <1>2. UNCHANGED <<lock, owner, live, content>> /\ inside' \subseteq Run
    BY <1>1 DEF CarryOver, SkipLockStep, RecordStep, RecordFailure, FinishRun
  <1>3. CASE CarryOver(r)
    <2> DEFINE rs == [run[r] EXCEPT !.idx = @ + 1]
    <2>1. rs \in RunState
      BY <1>1 DEF RunState
    <2>2. PcFits(rs)
      BY <1>1, <1>3 DEF CarryOver, AtStep, RunState, PcFits
    <2>3. Set(r, rs) /\ StoreRecord(run[r])
      BY <1>3 DEF CarryOver
    <2> HIDE DEF rs
    <2> QED
      BY <1>1, <1>2, <2>1, <2>2, <2>3, StoringUpdate
  <1>4. CASE SkipLockStep(r)
    <2> DEFINE rs(t) == [run[r] EXCEPT !.idx = @ + 1, !.done = @ \ {t}]
    <2>1. PICK t \in {"lock", "unlock"} : AtStep(r, t) /\ Set(r, rs(t)) /\ StoreRecord(rs(t))
      BY <1>4 DEF SkipLockStep
    <2>2. rs(t) \in RunState
      <3>1. run[r].idx + 1 \in Nat /\ run[r].done \ {t} \subseteq Task
        BY <1>1 DEF RunState
      <3> QED
        BY <1>1, <3>1 DEF RunState
    <2>3. PcFits(rs(t))
      BY <1>1, <2>1 DEF AtStep, RunState, PcFits
    <2> HIDE DEF rs
    <2> QED
      BY <1>2, <2>1, <2>2, <2>3, StoringUpdate
  <1>5. CASE RecordStep(r)
    <2> DEFINE t  == Pipeline[run[r].idx]
               rs == [run[r] EXCEPT !.pc = "step", !.idx = @ + 1, !.done = @ \cup {t},
                                    !.held = @ \/ t = "lock"]
    <2>1. t \in Task
      BY <1>1, <1>5, TaskAtIndex DEF RecordStep, PcFits
    <2>2. Set(r, rs) /\ StoreRecord(rs)
      BY <1>5 DEF RecordStep
    <2> HIDE DEF t
    <2>3. rs \in RunState
      <3>1. run[r].idx + 1 \in Nat /\ run[r].done \cup {t} \subseteq Task
        BY <1>1, <2>1 DEF RunState
      <3>2. (run[r].held \/ t = "lock") \in BOOLEAN
        OBVIOUS
      <3> QED
        BY <1>1, <3>1, <3>2 DEF RunState, Pc
    <2>4. PcFits(rs)
      BY <1>1 DEF RunState, PcFits
    <2> HIDE DEF rs
    <2> QED
      BY <1>2, <2>2, <2>3, <2>4, StoringUpdate
  <1>6. CASE RecordFailure(r)
    <2> DEFINE t  == Pipeline[run[r].idx]
               rs == [run[r] EXCEPT !.pc = "release", !.status = "failed", !.done = @ \ {t}]
    <2>1. (Set(r, rs) \/ Set(r, Idle)) /\ BestEffortWrite(rs)
      BY <1>6 DEF RecordFailure
    <2> HIDE DEF t
    <2>2. rs \in RunState
      BY <1>1 DEF RunState, Pc
    <2>3. PcFits(rs)
      BY <1>1 DEF RunState, PcFits
    <2> HIDE DEF rs
    <2> QED
      BY <1>2, <2>1, <2>2, <2>3, IdleType, StoringUpdate
  <1>7. CASE FinishRun(r)
    <2> DEFINE rs == [run[r] EXCEPT !.status = "ok"]
    <2>1. rs \in RunState
      BY <1>1 DEF RunState
    <2>2. BestEffortWrite(rs) /\ Set(r, Idle)
      BY <1>7 DEF FinishRun
    <2> HIDE DEF rs
    <2> QED
      BY <1>2, <2>1, <2>2, IdleType, StoringUpdate
  <1> QED
    BY <1>3, <1>4, <1>5, <1>6, <1>7

LEMMA TypeNext == TypeInv /\ [Next]_vars => TypeInv'
  <1> SUFFICES ASSUME TypeInv, [Next]_vars PROVE TypeInv'
    OBVIOUS
  <1>1. ASSUME NEW r \in Run, NEW skip \in SkipLock,
               StartDeploy(r, skip) \/ StartResume(r, skip) \/ RollbackSelect(r, skip)
        PROVE  TypeInv'
    <2>1. skip \in BOOLEAN
      BY ConstantsAssumption
    <2> QED
      BY <1>1, <2>1, TypeIssue
  <1>2. ASSUME NEW r \in Run, NEW force \in UnlockForce, UnlockCheck(r, force)
        PROVE  TypeInv'
    <2>1. force \in BOOLEAN
      BY ConstantsAssumption
    <2> QED
      BY <1>2, <2>1, TypeIssue
  <1>3. ASSUME NEW r \in Run, Step(r)
        PROVE  TypeInv'
    BY <1>3, TypeRecovery, TypeStep, TypeLock, TypeRecord DEF Step
  <1>4. ASSUME NEW r \in Run, StepFails(r) \/ Crash(r)
        PROVE  TypeInv'
    BY <1>4, TypeStep, TypeRecovery
  <1>5. CASE LockAges
    BY <1>5 DEF LockAges, TypeInv, TypeOK, PcFits
  <1>6. CASE UNCHANGED vars
    BY <1>6 DEF vars, target, TypeInv, TypeOK, PcFits
  <1> QED
    BY <1>1, <1>2, <1>3, <1>4, <1>5, <1>6 DEF Next, Quiet

\* Type correctness: every variable of the protocol keeps its type, whoever
\* issues which command when.
THEOREM TypeCorrect == Spec => []TypeOK
  <1>1. Spec => []TypeInv
    BY TypeInit, TypeNext, PTL DEF Spec
  <1> QED
    BY <1>1, PTL DEF TypeInv

-----------------------------------------------------------------------------
(* The lock. *)

\* The recovery commands are the ones that remove a lock they do not own.  They
\* are not issued at all, or only by operators who look first.
RecoveryDisciplined == Discipline = "none" => Commands \cap {"resume", "unlock"} = {}

Recovering(rs) == rs.pc \in {"resumeLock", "resumeLive", "resumeUnlock", "unlock"}

\* The command counts on holding the lock: what it does next may remove it.
Relies(rs) ==
  \/ rs.pc \in {"release", "deferred"}
  \/ rs.pc = "activate" /\ ~rs.nolock
  \/ rs.pc = "write" /\ Pipeline[rs.idx] = "lock"
  \/ rs.held /\ rs.pc = "step" /\ rs.idx <= Len(Pipeline)
  \/ rs.held /\ rs.pc \in {"write", "failed"} /\ Pipeline[rs.idx] # "unlock"

\* The state of one command against the lock: in, whether the command took it,
\* and mine, whether the directory is the one it made.
LockFits(rs, in, mine) ==
  /\ in => mine
  /\ Relies(rs) => in
  /\ rs.pc = "owner" => mine
  /\ rs.pc \in {"idle", "mkdir", "owner", "resumeRun"} \/ Recovering(rs) => ~in /\ ~rs.held
  /\ rs.pc \in {"mkdir", "owner"} => ~rs.nolock
  /\ rs.nolock => ~in
  /\ rs.cmd = "rollback" => rs.pc \in {"mkdir", "owner", "activate", "deferred"}

LockInv ==
  \A r \in Run :
    /\ LockFits(run[r], r \in inside, lock = r)
    /\ Recovering(run[r]) =>
         /\ Discipline # "none"
         /\ \A s \in Run \ {r} : run[s].pc = "idle"

\* Nobody but r counts on the lock.
Alone(r) == \A s \in Run \ {r} : s \notin inside /\ run[s].pc # "owner"

LEMMA LockUpdate ==
  ASSUME TypeInv, LockInv, NEW r \in Run, NEW rs, Set(r, rs),
         inside' \subseteq inside \cup {r}, inside \subseteq inside' \cup {r},
         lock' = lock \/ Alone(r),
         LockFits(rs, r \in inside', lock' = r),
         run[r].pc # "idle" \/ \A s \in Run : ~Recovering(run[s]),
         Recovering(rs) =>
           Recovering(run[r]) \/ (Discipline # "none" /\ \A s \in Run : run[s].pc = "idle")
  PROVE  LockInv'
  <1>1. run'[r] = rs /\ \A s \in Run \ {r} : run'[s] = run[s]
    BY DEF Set, TypeInv, TypeOK
  <1>2. LockFits(run'[r], r \in inside', lock' = r)
    BY <1>1
  <1>3. ASSUME NEW s \in Run \ {r}
        PROVE  LockFits(run'[s], s \in inside', lock' = s)
    <2>1. LockFits(run[s], s \in inside, lock = s) /\ run'[s] = run[s]
      BY <1>1 DEF LockInv
    <2>2. s \in inside' <=> s \in inside
      OBVIOUS
    <2>3. CASE lock' = lock
      BY <2>1, <2>2, <2>3 DEF LockFits
    <2>4. CASE Alone(r)
      BY <2>1, <2>2, <2>4 DEF LockFits, Alone
    <2> QED
      BY <2>3, <2>4
  <1>4. ASSUME NEW s \in Run, Recovering(run'[s])
        PROVE  Discipline # "none" /\ \A u \in Run \ {s} : run'[u].pc = "idle"
    <2>1. CASE s = r
      BY <1>1, <1>4, <2>1 DEF LockInv
    <2>2. CASE s # r
      BY <1>1, <1>4, <2>2 DEF LockInv
    <2> QED
      BY <2>1, <2>2
  <1> QED
    BY <1>2, <1>3, <1>4 DEF LockInv, LockFits, Relies, Recovering

\* What a command that holds the lock, or that finds nobody holding it, may do to
\* it concerns nobody else.
LEMMA HolderAlone ==
  ASSUME TypeInv, LockInv, NEW r \in Run, lock = r \/ lock = NoRun
  PROVE  Alone(r)
  BY ConstantsAssumption DEF LockInv, LockFits, Alone

LEMMA RecoveringAlone ==
  ASSUME TypeInv, LockInv, NEW r \in Run, Recovering(run[r])
  PROVE  Alone(r)
  BY DEF LockInv, LockFits, Alone

LEMMA LockInit == Init => LockInv
  <1> SUFFICES ASSUME Init, NEW r \in Run
               PROVE  LockFits(run[r], r \in inside, lock = r) /\ ~Recovering(run[r])
    BY DEF LockInv
  <1>1. run[r] = Idle /\ r \notin inside
    BY DEF Init
  <1> QED
    BY <1>1 DEF LockFits, Relies, Recovering, Idle

\* Issuing a command.
LEMMA LockIssue ==
  ASSUME TypeInv, LockInv, RecoveryDisciplined, NEW r \in Run, NEW b \in BOOLEAN,
         \/ StartDeploy(r, b) \/ StartResume(r, b)
         \/ RollbackSelect(r, b) \/ UnlockCheck(r, b)
  PROVE  LockInv'
  <1>1. run[r].pc = "idle" /\ r \notin inside
    BY DEF StartDeploy, StartResume, RollbackSelect, UnlockCheck, Issue, LockInv, LockFits
  <1>2. UNCHANGED <<lock, inside>>
    BY DEF StartDeploy, StartResume, RollbackSelect, UnlockCheck, target
  <1>3. \A s \in Run : ~Recovering(run[s])
    <2>1. \E c \in {"deploy", "resume", "rollback", "unlock"} : MayIssue(c)
      BY DEF StartDeploy, StartResume, RollbackSelect, UnlockCheck, Issue
    <2>2. CASE Discipline = "none"
      BY <2>2 DEF LockInv
    <2>3. CASE Discipline # "none"
      BY <2>1, <2>3, ConstantsAssumption DEF MayIssue, Recovering
    <2> QED
      BY <2>2, <2>3
  <1>4. CASE StartDeploy(r, b)
    <2> DEFINE rs == [Idle EXCEPT !.pc = "step", !.cmd = "deploy", !.idx = 1,
                                  !.status = "running", !.nolock = b]
    <2>1. LockFits(rs, r \in inside', lock' = r) /\ ~Recovering(rs)
      BY <1>1, <1>2 DEF Idle, LockFits, Relies, Recovering
    <2>2. Set(r, rs)
      BY <1>4 DEF StartDeploy
    <2> HIDE DEF rs
    <2> QED
      BY <1>1, <1>2, <1>3, <2>1, <2>2, LockUpdate
  <1>5. CASE RollbackSelect(r, b)
    <2>1. PICK n \in Usable :
            Set(r, [Idle EXCEPT !.pc = IF b THEN "activate" ELSE "mkdir",
                                !.cmd = "rollback", !.num = n, !.nolock = b])
      BY <1>5 DEF RollbackSelect
    <2> DEFINE rs == [Idle EXCEPT !.pc = IF b THEN "activate" ELSE "mkdir",
                                  !.cmd = "rollback", !.num = n, !.nolock = b]
    <2>2. LockFits(rs, r \in inside', lock' = r) /\ ~Recovering(rs)
      BY <1>1, <1>2 DEF Idle, LockFits, Relies, Recovering
    <2>3. Set(r, rs)
      BY <2>1
    <2> HIDE DEF rs
    <2> QED
      BY <1>1, <1>2, <1>3, <2>2, <2>3, LockUpdate
  <1>6. CASE StartResume(r, b) \/ UnlockCheck(r, b)
    <2>1. Discipline # "none" /\ \A s \in Run : run[s].pc = "idle"
      BY <1>6, ConstantsAssumption
      DEF StartResume, UnlockCheck, Issue, MayIssue, RecoveryDisciplined
    <2>2. PICK rs : Set(r, rs) /\ LockFits(rs, r \in inside', lock' = r)
      <3>1. CASE StartResume(r, b)
        <4>1. PICK n \in IncompleteRelease :
                Set(r, [Idle EXCEPT !.pc = "resumeLock", !.cmd = "deploy", !.num = n,
                                    !.status = rec[n].status, !.done = rec[n].done,
                                    !.nolock = b])
          BY <3>1 DEF StartResume
        <4>2. LockFits([Idle EXCEPT !.pc = "resumeLock", !.cmd = "deploy", !.num = n,
                                    !.status = rec[n].status, !.done = rec[n].done,
                                    !.nolock = b], r \in inside', lock' = r)
          BY <1>1, <1>2 DEF Idle, LockFits, Relies, Recovering
        <4> QED
          BY <4>1, <4>2
      <3>2. CASE UnlockCheck(r, b)
        <4>1. LockFits([Idle EXCEPT !.pc = "unlock", !.cmd = "unlock"], r \in inside', lock' = r)
          BY <1>1, <1>2 DEF Idle, LockFits, Relies, Recovering
        <4> QED
          BY <3>2, <4>1 DEF UnlockCheck
      <3> QED
        BY <1>6, <3>1, <3>2
    <2> QED
      BY <1>1, <1>2, <1>3, <2>1, <2>2, LockUpdate
  <1> QED
    BY <1>4, <1>5, <1>6

\* A command that is under way changes its own state; the lock stays what it
\* was, or it is one that concerns nobody else.
LEMMA LockMove ==
  ASSUME TypeInv, LockInv, NEW r \in Run, run[r].pc # "idle", NEW rs, Set(r, rs),
         inside' \in {inside, inside \ {r}, inside \cup {r}},
         lock' = lock \/ Alone(r),
         LockFits(rs, r \in inside', lock' = r),
         Recovering(rs) => Recovering(run[r])
  PROVE  LockInv'
  BY LockUpdate

\* The recovery steps of a resume, rollback and unlock, and a killed process.
LEMMA LockRecovery ==
  ASSUME TypeInv, LockInv, NEW r \in Run,
         \/ ResumeCheckLock(r) \/ ResumeCheckLive(r) \/ ResumeUnlock(r) \/ ResumeRun(r)
         \/ RollbackActivate(r) \/ RollbackUnlock(r) \/ UnlockRemove(r)
         \/ ReleaseLockAfterFailure(r) \/ Crash(r)
  PROVE  LockInv'
  <1> DEFINE At(l) == [run[r] EXCEPT !.pc = l]
  <1>1. run[r] \in RunState /\ LockFits(run[r], r \in inside, lock = r)
    BY RunType DEF LockInv
  <1>2. run[r].pc # "idle"
    BY DEF ResumeCheckLock, ResumeCheckLive, ResumeUnlock, ResumeRun, RollbackActivate,
           RollbackUnlock, UnlockRemove, ReleaseLockAfterFailure, Crash
  <1>3. CASE ResumeCheckLock(r) \/ ResumeCheckLive(r)
    <2>1. UNCHANGED <<lock, inside>> /\ Recovering(run[r])
      BY <1>3 DEF ResumeCheckLock, ResumeCheckLive, target, Recovering
    <2>2. PICK rs \in {Idle, At("resumeLive"), At("resumeUnlock")} : Set(r, rs)
      BY <1>3 DEF ResumeCheckLock, ResumeCheckLive, Goto
    <2>3. LockFits(rs, r \in inside', lock' = r)
      BY <1>1, <2>1 DEF LockFits, Relies, Recovering, Idle, RunState
    <2> QED
      BY <1>2, <2>1, <2>2, <2>3, LockMove
  <1>4. CASE ResumeUnlock(r)
    <2>1. Alone(r) /\ r \notin inside /\ inside' = inside
      BY <1>1, <1>4, RecoveringAlone DEF ResumeUnlock, Recovering, LockFits
    <2>2. LockFits(At("resumeRun"), r \in inside', lock' = r)
      BY <1>1, <1>4, <2>1 DEF ResumeUnlock, LockFits, Relies, Recovering, RunState
    <2>3. Set(r, At("resumeRun")) /\ ~Recovering(At("resumeRun"))
      BY <1>1, <1>4 DEF ResumeUnlock, Goto, Recovering, RunState
    <2> HIDE DEF At
    <2> QED
      BY <1>2, <2>1, <2>2, <2>3, LockMove
  <1>5. CASE ResumeRun(r)
    <2> DEFINE rs == [run[r] EXCEPT !.pc = "step", !.idx = 1,
                        !.carried = rec[run[r].num].done \ ResumeAlwaysReruns]
    <2>1. UNCHANGED <<lock, inside>> /\ r \notin inside /\ Set(r, rs)
      BY <1>1, <1>5 DEF ResumeRun, target, LockFits
    <2>2. LockFits(rs, r \in inside', lock' = r) /\ ~Recovering(rs)
      BY <1>1, <1>5, <2>1 DEF ResumeRun, LockFits, Relies, Recovering, RunState
    <2> HIDE DEF rs
    <2> QED
      BY <1>2, <2>1, <2>2, LockMove
  <1>6. CASE RollbackActivate(r)
    <2>1. UNCHANGED <<lock, inside>>
      BY <1>6 DEF RollbackActivate
    <2>2. CASE run[r].nolock
      <3>1. Set(r, Idle) /\ r \notin inside
        BY <1>1, <1>6, <2>2 DEF RollbackActivate, LockFits
      <3>2. LockFits(Idle, r \in inside', lock' = r) /\ ~Recovering(Idle)
        BY <2>1, <3>1 DEF LockFits, Relies, Recovering, Idle
      <3> QED
        BY <1>2, <2>1, <3>1, <3>2, LockMove
    <2>3. CASE ~run[r].nolock
      <3>1. Set(r, At("deferred")) /\ r \in inside
        BY <1>1, <1>6, <2>3 DEF RollbackActivate, LockFits, Relies, Goto
      <3>2. LockFits(At("deferred"), r \in inside', lock' = r) /\ ~Recovering(At("deferred"))
        BY <1>1, <2>1, <2>3, <3>1 DEF LockFits, Relies, Recovering, RunState
      <3> HIDE DEF At
      <3> QED
        BY <1>2, <2>1, <3>1, <3>2, LockMove
    <2> QED
      BY <2>2, <2>3
  <1>7. CASE RollbackUnlock(r) \/ ReleaseLockAfterFailure(r) \/ UnlockRemove(r) \/ Crash(r)
    <2>1. Set(r, Idle) /\ inside' \in {inside, inside \ {r}} /\ r \notin inside'
      BY <1>1, <1>7
      DEF RollbackUnlock, ReleaseLockAfterFailure, UnlockRemove, Crash, LockFits, Recovering
    <2>2. lock' = lock \/ Alone(r)
      BY <1>1, <1>7, HolderAlone, RecoveringAlone
      DEF RollbackUnlock, ReleaseLockAfterFailure, UnlockRemove, Crash, target,
          LockFits, Relies, Recovering
    <2>3. LockFits(Idle, r \in inside', lock' = r) /\ ~Recovering(Idle)
      BY <2>1 DEF LockFits, Relies, Recovering, Idle
    <2> QED
      BY <1>2, <2>1, <2>2, <2>3, LockMove
  <1> QED
    BY <1>3, <1>4, <1>5, <1>6, <1>7

\* The steps of the loop that end in Goto and leave the lock alone.
LEMMA LockStep ==
  ASSUME TypeInv, LockInv, NEW r \in Run,
         \/ PlainStep(r) \/ ActivateStep(r) \/ VerifyStep(r) \/ CleanupStep(r)
         \/ StepRefused(r) \/ ReleaseStep(r)
  PROVE  LockInv'
  <1>1. run[r] \in RunState /\ LockFits(run[r], r \in inside, lock = r)
    BY RunType DEF LockInv
  <1>2. \E t \in Task \ {"lock", "unlock"} : AtStep(r, t)
    BY DEF PlainStep, ActivateStep, VerifyStep, CleanupStep, StepRefused, ReleaseStep, Due,
           InRelease, Task
  <1>3. run[r].pc = "step" /\ run[r].idx <= Len(Pipeline) /\ Pipeline[run[r].idx] # "lock"
    BY <1>2 DEF AtStep
  <1>4. UNCHANGED <<lock, inside>>
    BY DEF PlainStep, ActivateStep, VerifyStep, CleanupStep, StepRefused, ReleaseStep, target
  <1>5. CASE ReleaseStep(r)
    <2> DEFINE rs == [run[r] EXCEPT !.pc = "write", !.num = ReleaseNumber(r)]
    <2>1. Set(r, rs)
      BY <1>5 DEF ReleaseStep
    <2>2. LockFits(rs, r \in inside', lock' = r) /\ ~Recovering(rs)
      BY <1>1, <1>3, <1>4 DEF LockFits, Relies, Recovering, RunState
    <2> HIDE DEF rs
    <2> QED
      BY <1>3, <1>4, <2>1, <2>2, LockMove
  <1>6. CASE ~ReleaseStep(r)
    <2>1. PICK l \in {"write", "failed"} : Set(r, [run[r] EXCEPT !.pc = l])
      BY <1>6 DEF PlainStep, ActivateStep, VerifyStep, CleanupStep, StepRefused, Goto
    <2> DEFINE rs == [run[r] EXCEPT !.pc = l]
    <2>2. LockFits(rs, r \in inside', lock' = r) /\ ~Recovering(rs)
      BY <1>1, <1>3, <1>4 DEF LockFits, Relies, Recovering, RunState
    <2>3. Set(r, rs)
      BY <2>1
    <2> HIDE DEF rs
    <2> QED
      BY <1>3, <1>4, <2>2, <2>3, LockMove
  <1> QED
    BY <1>5, <1>6

\* A step that fails, and deploy:unlock.
LEMMA LockFails ==
  ASSUME TypeInv, LockInv, NEW r \in Run, StepFails(r) \/ UnlockStep(r)
  PROVE  LockInv'
  <1>1. run[r] \in RunState /\ LockFits(run[r], r \in inside, lock = r)
    BY RunType DEF LockInv
  <1>2. PICK t \in Task : Due(r, t) /\ (HalfDone(r, t) \/ (t = "unlock" /\ UnlockStep(r)))
    BY DEF StepFails, UnlockStep, Task
  <1>3. /\ run[r].pc = "step" /\ run[r].idx <= Len(Pipeline) /\ Pipeline[run[r].idx] = t
        /\ t = "unlock" => run[r].held
    BY <1>2 DEF Due, AtStep
  <1>4. PICK l \in {"write", "failed"} : /\ Set(r, [run[r] EXCEPT !.pc = l])
                                         /\ l = "write" => t = "unlock"
    BY <1>2, <1>3 DEF StepFails, UnlockStep, Goto, Due, AtStep
  <1> DEFINE rs == [run[r] EXCEPT !.pc = l]
  <1>5. Set(r, rs)
    BY <1>4
  <1>6. CASE UNCHANGED <<lock, inside>>
    <2>1. LockFits(rs, r \in inside', lock' = r) /\ ~Recovering(rs)
      BY <1>1, <1>3, <1>4, <1>6 DEF LockFits, Relies, Recovering, RunState
    <2> HIDE DEF rs
    <2> QED
      BY <1>3, <1>5, <1>6, <2>1, LockMove
  <1>7. CASE t = "lock" /\ lock = NoRun /\ UNCHANGED inside
    <2>1. r \notin inside /\ ~run[r].held /\ Alone(r)
      BY <1>1, <1>3, <1>7, HolderAlone, ConstantsAssumption DEF LockFits, Relies
    <2>2. LockFits(rs, r \in inside', lock' = r) /\ ~Recovering(rs)
      BY <1>1, <1>3, <1>4, <1>7, <2>1 DEF LockFits, Relies, Recovering, RunState
    <2> HIDE DEF rs
    <2> QED
      BY <1>3, <1>5, <1>7, <2>1, <2>2, LockMove
  <1>8. CASE t = "unlock" /\ inside' = inside \ {r}
    <2>1. lock = r /\ Alone(r)
      BY <1>1, <1>3, <1>8, HolderAlone DEF LockFits, Relies
    <2>2. LockFits(rs, r \in inside', lock' = r) /\ ~Recovering(rs)
      BY <1>1, <1>3, <1>4, <1>8 DEF LockFits, Relies, Recovering, RunState
    <2> HIDE DEF rs
    <2> QED
      BY <1>3, <1>5, <1>8, <2>1, <2>2, LockMove
  <1> QED
    BY <1>2, <1>6, <1>7, <1>8 DEF HalfDone, UnlockStep, target

\* deploy:lock.
LEMMA LockTaken ==
  ASSUME TypeInv, LockInv, NEW r \in Run, LockMkdir(r) \/ LockOwner(r)
  PROVE  LockInv'
  <1> DEFINE At(l) == [run[r] EXCEPT !.pc = l]
  <1>1. /\ run[r] \in RunState /\ PcFits(run[r])
        /\ LockFits(run[r], r \in inside, lock = r)
    BY RunType DEF LockInv
  <1>2. run[r].pc # "idle"
    BY DEF LockMkdir, LockOwner, Due, AtStep
  <1>3. CASE LockMkdir(r) /\ lock = NoRun
    <2>1. r \notin inside /\ Alone(r) /\ ~run[r].nolock /\ ~run[r].held
      BY <1>1, <1>3, HolderAlone, ConstantsAssumption
      DEF LockMkdir, Due, AtStep, LockFits, Relies
    <2>2. lock' = r /\ inside' = inside /\ Set(r, At("owner"))
      BY <1>3 DEF LockMkdir, Goto
    <2>3. LockFits(At("owner"), r \in inside', lock' = r) /\ ~Recovering(At("owner"))
      BY <1>1, <1>3, <2>1, <2>2 DEF LockMkdir, Due, AtStep, LockFits, Relies, Recovering, RunState
    <2> HIDE DEF At
    <2> QED
      BY <1>2, <2>1, <2>2, <2>3, LockMove
  <1>4. CASE LockMkdir(r) /\ lock # NoRun
    <2>1. UNCHANGED <<lock, inside>> /\ LockRefused(r)
      BY <1>4 DEF LockMkdir
    <2>2. CASE run[r].cmd = "rollback"
      <3>1. Set(r, Idle) /\ r \notin inside
        BY <1>1, <1>4, <2>1, <2>2 DEF LockRefused, LockMkdir, Due, AtStep, LockFits
      <3>2. LockFits(Idle, r \in inside', lock' = r) /\ ~Recovering(Idle)
        BY <2>1, <3>1 DEF LockFits, Relies, Recovering, Idle
      <3> QED
        BY <1>2, <2>1, <3>1, <3>2, LockMove
    <2>3. CASE run[r].cmd # "rollback"
      <3>1. Set(r, At("failed")) /\ Due(r, "lock")
        BY <1>1, <1>4, <2>1, <2>3 DEF LockRefused, LockMkdir, PcFits
      <3>2. LockFits(At("failed"), r \in inside', lock' = r) /\ ~Recovering(At("failed"))
        BY <1>1, <2>1, <2>3, <3>1 DEF Due, AtStep, LockFits, Relies, Recovering, RunState
      <3> HIDE DEF At
      <3> QED
        BY <1>2, <2>1, <3>1, <3>2, LockMove
    <2> QED
      BY <2>2, <2>3
  <1>5. CASE LockOwner(r)
    <2>1. run[r].pc = "owner" /\ lock = r /\ r \notin inside /\ ~run[r].held /\ ~run[r].nolock
      BY <1>1, <1>5 DEF LockOwner, LockFits
    <2>2. Alone(r) /\ lock # NoRun
      BY <2>1, HolderAlone, ConstantsAssumption
    <2>3. CASE inside' = inside \cup {r} /\ UNCHANGED lock
      <3>1. PICK l \in {"activate", "write"} :
              Set(r, At(l)) /\ (l = "write" => run[r].cmd # "rollback")
        BY <1>5, <2>1, <2>3 DEF LockOwner, Goto
      <3>2. LockFits(At(l), r \in inside', lock' = r) /\ ~Recovering(At(l))
        BY <1>1, <2>1, <2>3, <3>1 DEF LockFits, Relies, Recovering, RunState
      <3> HIDE DEF At
      <3> QED
        BY <1>2, <2>2, <2>3, <3>1, <3>2, LockMove
    <2>4. CASE UNCHANGED inside /\ LockRefused(r)
      <3>1. CASE run[r].cmd = "rollback"
        <4>1. LockFits(Idle, r \in inside', lock' = r) /\ ~Recovering(Idle)
          BY <2>1, <2>4 DEF LockFits, Relies, Recovering, Idle
        <4> QED
          BY <1>2, <2>2, <2>4, <3>1, <4>1, LockMove DEF LockRefused
      <3>2. CASE run[r].cmd # "rollback"
        <4>1. LockFits(At("failed"), r \in inside', lock' = r) /\ ~Recovering(At("failed"))
          BY <1>1, <2>1, <2>4, <3>2 DEF LockFits, Relies, Recovering, RunState
        <4>2. Set(r, At("failed"))
          BY <2>4, <3>2 DEF LockRefused
        <4> HIDE DEF At
        <4> QED
          BY <1>2, <2>2, <2>4, <4>1, <4>2, LockMove
      <3> QED
        BY <3>1, <3>2
    <2> QED
      BY <1>5, <2>2, <2>3, <2>4 DEF LockOwner
  <1> QED
    BY <1>3, <1>4, <1>5

\* The steps of the loop that store the record.
LEMMA LockRecord ==
  ASSUME TypeInv, LockInv, NEW r \in Run,
         \/ CarryOver(r) \/ SkipLockStep(r) \/ RecordStep(r) \/ RecordFailure(r) \/ FinishRun(r)
  PROVE  LockInv'
  <1>1. /\ run[r] \in RunState /\ PcFits(run[r])
        /\ LockFits(run[r], r \in inside, lock = r)
    BY RunType DEF LockInv
  <1>2. UNCHANGED lock /\ run[r].pc # "idle"
    BY DEF CarryOver, SkipLockStep, RecordStep, RecordFailure, FinishRun, AtStep
  <1>3. CASE CarryOver(r)
    <2> DEFINE rs == [run[r] EXCEPT !.idx = @ + 1]
    <2>1. Set(r, rs) /\ UNCHANGED inside /\ run[r].pc = "step"
      BY <1>3 DEF CarryOver, AtStep
    <2>2. Relies(rs) => Relies(run[r])
      BY <1>1, <2>1, PipelineAssumption DEF Relies, RunState
    <2>3. LockFits(rs, r \in inside', lock' = r) /\ ~Recovering(rs)
      BY <1>1, <1>2, <2>1, <2>2 DEF LockFits, Recovering, RunState
    <2> HIDE DEF rs
    <2> QED
      BY <1>2, <2>1, <2>3, LockMove
  <1>4. CASE SkipLockStep(r)
    <2> DEFINE rs(t) == [run[r] EXCEPT !.idx = @ + 1, !.done = @ \ {t}]
    <2>1. PICK t \in {"lock", "unlock"} : Set(r, rs(t))
      BY <1>4 DEF SkipLockStep
    <2>2. UNCHANGED inside /\ run[r].pc = "step"
      BY <1>4 DEF SkipLockStep, AtStep
    <2>3. Relies(rs(t)) => Relies(run[r])
      BY <1>1, <2>2, PipelineAssumption DEF Relies, RunState
    <2>4. LockFits(rs(t), r \in inside', lock' = r) /\ ~Recovering(rs(t))
      BY <1>1, <1>2, <2>2, <2>3 DEF LockFits, Recovering, RunState
    <2> HIDE DEF rs
    <2> QED
      BY <1>2, <2>1, <2>2, <2>4, LockMove
  <1>5. CASE RecordStep(r)
    <2> DEFINE t  == Pipeline[run[r].idx]
               rs == [run[r] EXCEPT !.pc = "step", !.idx = @ + 1, !.done = @ \cup {t},
                                    !.held = @ \/ t = "lock"]
    <2>1. Set(r, rs) /\ UNCHANGED inside /\ run[r].pc = "write"
      BY <1>5 DEF RecordStep
    <2>2. run[r].idx \in 1 .. Len(Pipeline)
      BY <1>1, <2>1 DEF PcFits
    <2>3. t = "unlock" => ~(run[r].idx + 1 <= Len(Pipeline))
      BY <2>2, PipelineAssumption
    <2>4. /\ rs.pc = "step" /\ rs.idx = run[r].idx + 1 /\ rs.cmd = run[r].cmd
          /\ rs.nolock = run[r].nolock
          /\ rs.held => run[r].held \/ t = "lock"
      BY <1>1 DEF RunState
    <2>5. Relies(rs) => Relies(run[r])
      <3> HIDE DEF rs
      <3> QED
        BY <2>1, <2>3, <2>4 DEF Relies
    <2> HIDE DEF rs
    <2>6. LockFits(rs, r \in inside', lock' = r) /\ ~Recovering(rs)
      BY <1>1, <1>2, <2>1, <2>4, <2>5 DEF LockFits, Recovering
    <2> QED
      BY <1>2, <2>1, <2>6, LockMove
  <1>6. CASE RecordFailure(r)
    <2> DEFINE t     == Pipeline[run[r].idx]
               rs    == [run[r] EXCEPT !.pc = "release", !.status = "failed", !.done = @ \ {t}]
               stays == LockKeptOnFailure(t) \/ ~run[r].held
    <2>1. CASE stays
      <3>1. Set(r, Idle) /\ inside' = inside \ {r}
        BY <1>6, <2>1 DEF RecordFailure
      <3>2. LockFits(Idle, r \in inside', lock' = r) /\ ~Recovering(Idle)
        BY <3>1 DEF LockFits, Relies, Recovering, Idle
      <3> QED
        BY <1>2, <3>1, <3>2, LockMove
    <2>2. CASE ~stays
      <3>1. Set(r, rs) /\ inside' = inside
        BY <1>6, <2>2 DEF RecordFailure
      <3>2. r \in inside
        BY <1>1, <1>6, <2>2
        DEF RecordFailure, LockKeptOnFailure, PrepareTasks, BuildTasks, LockFits, Relies
      <3> HIDE DEF t
      <3>3. LockFits(rs, r \in inside', lock' = r) /\ ~Recovering(rs)
        BY <1>1, <1>2, <1>6, <3>1, <3>2 DEF RecordFailure, LockFits, Relies, Recovering, RunState
      <3> HIDE DEF rs
      <3> QED
        BY <1>2, <3>1, <3>3, LockMove
    <2> QED
      BY <2>1, <2>2
  <1>7. CASE FinishRun(r)
    <2>1. Set(r, Idle) /\ inside' = inside \ {r}
      BY <1>7 DEF FinishRun
    <2>2. LockFits(Idle, r \in inside', lock' = r) /\ ~Recovering(Idle)
      BY <2>1 DEF LockFits, Relies, Recovering, Idle
    <2> QED
      BY <1>2, <2>1, <2>2, LockMove
  <1> QED
    BY <1>3, <1>4, <1>5, <1>6, <1>7

LEMMA LockNext == TypeInv /\ LockInv /\ RecoveryDisciplined /\ [Next]_vars => LockInv'
  <1> SUFFICES ASSUME TypeInv, LockInv, RecoveryDisciplined, [Next]_vars PROVE LockInv'
    OBVIOUS
  <1>1. ASSUME NEW r \in Run, NEW skip \in SkipLock,
               StartDeploy(r, skip) \/ StartResume(r, skip) \/ RollbackSelect(r, skip)
        PROVE  LockInv'
    <2>1. skip \in BOOLEAN
      BY ConstantsAssumption
    <2> QED
      BY <1>1, <2>1, LockIssue
  <1>2. ASSUME NEW r \in Run, NEW force \in UnlockForce, UnlockCheck(r, force)
        PROVE  LockInv'
    <2>1. force \in BOOLEAN
      BY ConstantsAssumption
    <2> QED
      BY <1>2, <2>1, LockIssue
  <1>3. ASSUME NEW r \in Run, Step(r)
        PROVE  LockInv'
    BY <1>3, LockRecovery, LockStep, LockFails, LockTaken, LockRecord DEF Step
  <1>4. ASSUME NEW r \in Run, StepFails(r) \/ Crash(r)
        PROVE  LockInv'
    BY <1>4, LockFails, LockRecovery
  <1>5. CASE UNCHANGED <<lock, run, inside>>
    BY <1>5 DEF LockInv, LockFits, Relies, Recovering
  <1> QED
    BY <1>1, <1>2, <1>3, <1>4, <1>5 DEF Next, Quiet, LockAges, vars, target

\* The lock is a lock (CoreLock, CoreUnlock, releaseLockAfterFailure, the deferred
\* unlock of a rollback): as long as recovery commands are not issued blindly,
\* nobody removes or replaces the lock of a run that still relies on it.
THEOREM LockIsKept == Spec /\ RecoveryDisciplined => []HolderKeepsLock
  <1>1. Init /\ RecoveryDisciplined => TypeInv /\ LockInv /\ RecoveryDisciplined
    BY TypeInit, LockInit
  <1>2. /\ TypeInv /\ LockInv /\ RecoveryDisciplined
        /\ [Next]_vars
        => (TypeInv /\ LockInv /\ RecoveryDisciplined)'
    BY TypeNext, LockNext DEF RecoveryDisciplined
  <1>3. TypeInv /\ LockInv => HolderKeepsLock
    BY DEF TypeInv, TypeOK, LockInv, LockFits, HolderKeepsLock
  <1> QED
    BY <1>1, <1>2, <1>3, PTL DEF Spec

\* So two runs never work on the target at the same time.
THEOREM LockExcludes == Spec /\ RecoveryDisciplined => []MutualExclusion
  <1>1. HolderKeepsLock => MutualExclusion
    BY DEF HolderKeepsLock, MutualExclusion
  <1> QED
    BY <1>1, LockIsKept, PTL

-----------------------------------------------------------------------------
(* The lock directory implements the mutex. *)

\* r's command is one the lock directory may belong to.
Counts(r) == r \in inside \/ run[r].pc = "owner"

\* Nobody else moves, and the lock is left alone, removed by somebody who may,
\* or taken while it is free.  Nobody comes to count on a lock that is there.
LockMoves(r) ==
  /\ \A s \in Run \ {r} : Counts(s)' <=> Counts(s)
  /\ \/ lock' = lock /\ (lock = r /\ Counts(r)' => Counts(r))
     \/ lock' = NoRun /\ (lock \in {r, NoRun} \/ Alone(r))
     \/ lock = NoRun /\ lock' = r

LEMMA MutexStep ==
  ASSUME TypeInv, NEW r \in Run, LockMoves(r)
  PROVE  [Mutex!Next]_(Mutex!vars)
  <1> DEFINE ab == (lock # NoRun /\ Holder = NoRun)
  <1>1. NoRun \notin Run /\ lock \in Run \cup {NoRun}
    BY ConstantsAssumption DEF TypeInv, TypeOK
  <1>2. Holder = IF lock # NoRun /\ Counts(lock) THEN lock ELSE NoRun
    BY DEF Holder, Counts
  <1>3. Holder' = IF lock' # NoRun /\ (Counts(lock))' THEN lock' ELSE NoRun
    BY DEF Holder, Counts
  <1>5. CASE lock' = lock
    <2>1. CASE lock # r \/ ((Counts(r))' <=> Counts(r))
      <3>1. Holder' = Holder /\ ab' = ab
        <4>1. CASE lock = NoRun
          BY <1>2, <1>3, <1>5, <4>1
        <4>2. CASE lock # NoRun
          <5>1. lock \in Run /\ ((Counts(lock))' <=> Counts(lock))
            BY <1>1, <1>5, <2>1, <4>2 DEF LockMoves, Counts
          <5> QED BY <1>2, <1>3, <1>5, <5>1
        <4> QED BY <1>5, <4>1, <4>2
      <3>2. UNCHANGED Mutex!vars
        BY <3>1 DEF Mutex!vars
      <3> QED BY <3>2
    <2>2. CASE lock = r /\ Counts(r) /\ ~(Counts(r))'
      <3>1. Holder = r /\ Holder' = NoRun /\ ~ab /\ ab'
        BY <1>1, <1>2, <1>3, <1>5, <2>2 DEF Counts
      <3> QED BY <3>1 DEF Mutex!Next, Mutex!Abandon
    <2> QED BY <1>1, <1>5, <2>1, <2>2 DEF LockMoves
  <1>6. CASE lock' = NoRun /\ lock # NoRun /\ (lock = r \/ Alone(r))
    <2>1. Holder' = NoRun /\ ~ab'
      BY <1>3, <1>6
    <2>2. CASE Holder = NoRun
      <3>1. ab
        BY <1>6, <2>2
      <3> QED BY <2>1, <2>2, <3>1 DEF Mutex!Next, Mutex!Break
    <2>3. CASE Holder # NoRun
      <3>1. Holder = r
        BY <1>1, <1>2, <1>6, <2>3 DEF Alone, Counts
      <3>2. ~ab
        BY <2>3
      <3> QED BY <2>1, <3>1, <3>2 DEF Mutex!Next, Mutex!Release
    <2> QED BY <2>2, <2>3
  <1>7. CASE lock = NoRun /\ lock' = r
    <2>1. Holder = NoRun /\ ~ab /\ r # NoRun
      BY <1>1, <1>2, <1>7
    <2>2. CASE Holder' = r
      <3>1. ~ab'
        BY <2>1, <2>2
      <3> QED BY <2>1, <2>2, <3>1 DEF Mutex!Next, Mutex!Acquire
    <2>3. CASE Holder' = NoRun
      <3>1. ab'
        BY <1>7, <2>1, <2>3
      <3> QED BY <2>1, <2>3, <3>1 DEF Mutex!Next, Mutex!AcquireUnnoticed
    <2> QED BY <1>3, <1>7, <2>2, <2>3
  <1> QED BY <1>1, <1>5, <1>6, <1>7 DEF LockMoves

\* The command r changes its own state only.
Moves(r) ==
  /\ \A s \in Run \ {r} : run'[s] = run[s]
  /\ inside' \in {inside, inside \ {r}, inside \cup {r}}

LEMMA OthersStay ==
  ASSUME NEW r \in Run, Moves(r)
  PROVE  \A s \in Run \ {r} : Counts(s)' <=> Counts(s)
  <1>1. \A s \in Run \ {r} : s \in inside' <=> s \in inside
    BY DEF Moves
  <1> QED BY <1>1 DEF Counts, Moves

LEMMA SetMoves ==
  ASSUME TypeInv, NEW r \in Run, NEW rs, Set(r, rs),
         inside' \in {inside, inside \ {r}, inside \cup {r}}
  PROVE  Moves(r) /\ run'[r] = rs
  BY DEF Set, TypeInv, TypeOK, Moves

\* A command that leaves the lock alone and does not come to count on it.
LEMMA KeepsLock ==
  ASSUME NEW r \in Run, Moves(r), run'[r].pc # "owner",
         inside' \in {inside, inside \ {r}}, lock' = lock
  PROVE  LockMoves(r)
  BY OthersStay DEF LockMoves, Counts

\* A command that removes the lock, and may.
LEMMA DropsLock ==
  ASSUME NEW r \in Run, Moves(r), lock' = NoRun, lock \in {r, NoRun} \/ Alone(r)
  PROVE  LockMoves(r)
  BY OthersStay DEF LockMoves

\* The steps of the loop, and the checks of the recovery commands.
LEMMA LoopMoves ==
  ASSUME TypeInv, NEW r \in Run,
         \/ ResumeCheckLock(r) \/ ResumeCheckLive(r) \/ ResumeRun(r)
         \/ CarryOver(r) \/ SkipLockStep(r) \/ PlainStep(r) \/ ReleaseStep(r)
         \/ ActivateStep(r) \/ VerifyStep(r) \/ CleanupStep(r) \/ StepRefused(r)
         \/ RecordStep(r) \/ RecordFailure(r) \/ FinishRun(r)
         \/ RollbackActivate(r) \/ Crash(r)
  PROVE  LockMoves(r)
  <1>1. run[r] \in RunState
    BY RunType
  <1>2. lock' = lock /\ inside' \in {inside, inside \ {r}}
    BY DEF ResumeCheckLock, ResumeCheckLive, ResumeRun, CarryOver, SkipLockStep, PlainStep,
           ReleaseStep, ActivateStep, VerifyStep, CleanupStep, StepRefused, RecordStep,
           RecordFailure, FinishRun, RollbackActivate, Crash, target
  <1>3. ASSUME NEW rs, Set(r, rs), rs.pc # "owner"
        PROVE  LockMoves(r)
    BY <1>2, <1>3, SetMoves, KeepsLock
  <1>4. ASSUME NEW l, l # "owner", Goto(r, l)
        PROVE  LockMoves(r)
    <2>1. [run[r] EXCEPT !.pc = l].pc # "owner"
      BY <1>1, <1>4 DEF RunState
    <2> QED BY <1>3, <1>4, <2>1 DEF Goto
  <1>5. CASE Set(r, Idle)
    BY <1>3, <1>5 DEF Idle
  <1>6. CASE ResumeRun(r)
    <2> DEFINE rs == [run[r] EXCEPT !.pc = "step", !.idx = 1,
                        !.carried = rec[run[r].num].done \ ResumeAlwaysReruns]
    <2>1. Set(r, rs) /\ rs.pc # "owner"
      BY <1>1, <1>6 DEF ResumeRun, RunState
    <2> HIDE DEF rs
    <2> QED BY <1>3, <2>1
  <1>7. CASE CarryOver(r)
    <2> DEFINE rs == [run[r] EXCEPT !.idx = @ + 1]
    <2>1. Set(r, rs) /\ rs.pc # "owner"
      BY <1>1, <1>7 DEF CarryOver, AtStep, RunState
    <2> HIDE DEF rs
    <2> QED BY <1>3, <2>1
  <1>8. CASE SkipLockStep(r)
    <2>1. PICK t \in {"lock", "unlock"} :
            Set(r, [run[r] EXCEPT !.idx = @ + 1, !.done = @ \ {t}]) /\ AtStep(r, t)
      BY <1>8 DEF SkipLockStep
    <2> DEFINE rs == [run[r] EXCEPT !.idx = @ + 1, !.done = @ \ {t}]
    <2>2. Set(r, rs) /\ rs.pc # "owner"
      BY <1>1, <2>1 DEF AtStep, RunState
    <2> HIDE DEF rs
    <2> QED BY <1>3, <2>2
  <1>9. CASE ReleaseStep(r)
    <2> DEFINE rs == [run[r] EXCEPT !.pc = "write", !.num = ReleaseNumber(r)]
    <2>1. Set(r, rs) /\ rs.pc # "owner"
      BY <1>1, <1>9 DEF ReleaseStep, RunState
    <2> HIDE DEF rs
    <2> QED BY <1>3, <2>1
  <1>10. CASE RecordStep(r)
    <2> DEFINE t  == Pipeline[run[r].idx]
               rs == [run[r] EXCEPT !.pc = "step", !.idx = @ + 1, !.done = @ \cup {t},
                                    !.held = @ \/ t = "lock"]
    <2>1. Set(r, rs)
      BY <1>10 DEF RecordStep
    <2>2. rs.pc # "owner"
      BY <1>1 DEF RunState
    <2> HIDE DEF rs
    <2> QED BY <1>3, <2>1, <2>2
  <1>11. CASE RecordFailure(r) /\ ~Set(r, Idle)
    <2> DEFINE t  == Pipeline[run[r].idx]
               rs == [run[r] EXCEPT !.pc = "release", !.status = "failed", !.done = @ \ {t}]
    <2>1. Set(r, rs)
      BY <1>11 DEF RecordFailure
    <2>2. rs.pc # "owner"
      BY <1>1 DEF RunState
    <2> HIDE DEF rs
    <2> QED BY <1>3, <2>1, <2>2
  <1> QED
    BY <1>4, <1>5, <1>6, <1>7, <1>8, <1>9, <1>10, <1>11
    DEF ResumeCheckLock, ResumeCheckLive, PlainStep, ActivateStep, VerifyStep, CleanupStep,
        StepRefused, FinishRun, RollbackActivate, Crash

\* The steps that take the lock, or give it up.
LEMMA TakeMoves ==
  ASSUME TypeInv, LockInv, NEW r \in Run,
         \/ ResumeUnlock(r) \/ LockMkdir(r) \/ LockOwner(r) \/ UnlockStep(r)
         \/ ReleaseLockAfterFailure(r) \/ RollbackUnlock(r) \/ UnlockRemove(r)
         \/ StepFails(r)
  PROVE  LockMoves(r)
  <1>1. run[r] \in RunState /\ LockFits(run[r], r \in inside, lock = r)
    BY RunType DEF LockInv
  <1>2. ASSUME NEW l, Goto(r, l), inside' \in {inside, inside \ {r}, inside \cup {r}}
        PROVE  Moves(r) /\ run'[r].pc = l
    BY <1>1, <1>2, SetMoves DEF Goto, RunState
  <1>3. ASSUME Set(r, Idle), inside' \in {inside, inside \ {r}, inside \cup {r}}
        PROVE  Moves(r) /\ run'[r].pc = "idle"
    BY <1>3, SetMoves DEF Idle
  <1>4. ASSUME LockRefused(r), inside' = inside
        PROVE  Moves(r) /\ run'[r].pc \in {"idle", "failed"}
    <2>1. CASE run[r].cmd = "rollback"
      BY <1>3, <1>4, <2>1 DEF LockRefused
    <2>2. CASE run[r].cmd # "rollback"
      BY <1>2, <1>4, <2>2 DEF LockRefused, Goto
    <2> QED BY <2>1, <2>2
  <1>5. CASE ResumeUnlock(r) \/ UnlockRemove(r)
    <2>1. Alone(r) /\ lock' = NoRun /\ inside' = inside
      BY <1>5, RecoveringAlone DEF ResumeUnlock, UnlockRemove, Recovering, RemoveLock
    <2>2. Moves(r)
      BY <1>2, <1>3, <1>5, <2>1 DEF ResumeUnlock, UnlockRemove
    <2> QED BY <2>1, <2>2, DropsLock
  <1>6. CASE LockMkdir(r)
    <2>1. CASE lock = NoRun
      <3>1. lock' = r /\ Moves(r)
        BY <1>2, <1>6, <2>1 DEF LockMkdir
      <3> QED BY <2>1, <3>1, OthersStay DEF LockMoves
    <2>2. CASE lock # NoRun
      <3>1. lock' = lock /\ inside' = inside /\ LockRefused(r)
        BY <1>6, <2>2 DEF LockMkdir
      <3> QED BY <1>4, <3>1, KeepsLock
    <2> QED BY <2>1, <2>2
  <1>7. CASE LockOwner(r)
    <2>1. run[r].pc = "owner" /\ lock = r
      BY <1>1, <1>7 DEF LockOwner, LockFits
    <2>2. lock' \in {lock, NoRun}
      BY <1>7 DEF LockOwner, RemoveLock
    <2>3. Moves(r)
      BY <1>2, <1>4, <1>7 DEF LockOwner
    <2> QED BY <2>1, <2>2, <2>3, OthersStay DEF LockMoves, Counts
  <1>8. CASE UnlockStep(r) \/ ReleaseLockAfterFailure(r) \/ RollbackUnlock(r)
    <2>1. lock = r
      BY <1>1, <1>8 DEF UnlockStep, ReleaseLockAfterFailure, RollbackUnlock, Due, AtStep,
                        LockFits, Relies
    <2>2. inside' = inside \ {r} /\ Moves(r) /\ run'[r].pc # "owner"
      BY <1>2, <1>3, <1>8 DEF UnlockStep, ReleaseLockAfterFailure, RollbackUnlock
    <2>3. lock' \in {lock, NoRun}
      BY <1>8 DEF UnlockStep, ReleaseLockAfterFailure, RollbackUnlock, RemoveLock
    <2> QED BY <2>1, <2>2, <2>3, KeepsLock, DropsLock
  <1>9. CASE StepFails(r)
    <2>1. PICK t \in Task : Due(r, t) /\ HalfDone(r, t)
      BY <1>9 DEF StepFails
    <2>2. inside' \in {inside, inside \ {r}}
      BY <2>1 DEF HalfDone
    <2>3. Moves(r) /\ run'[r].pc = "failed"
      BY <1>2, <1>9, <2>2 DEF StepFails
    <2>4. CASE lock' = lock
      BY <2>2, <2>3, <2>4, KeepsLock
    <2>5. CASE lock = NoRun /\ lock' = r
      BY <2>3, <2>5, OthersStay DEF LockMoves
    <2>6. CASE t = "unlock" /\ lock' = NoRun
      <3>1. lock = r
        BY <1>1, <2>1, <2>6 DEF Due, AtStep, LockFits, Relies
      <3> QED BY <2>3, <2>6, <3>1, DropsLock
    <2> QED BY <2>1, <2>4, <2>5, <2>6 DEF HalfDone, RemoveLock, target
  <1> QED BY <1>5, <1>6, <1>7, <1>8, <1>9

\* Issuing a command.
LEMMA IssueMoves ==
  ASSUME TypeInv, NEW r \in Run, NEW b,
         StartDeploy(r, b) \/ StartResume(r, b) \/ RollbackSelect(r, b) \/ UnlockCheck(r, b)
  PROVE  LockMoves(r)
  <1>1. lock' = lock /\ inside' = inside
    BY DEF StartDeploy, StartResume, RollbackSelect, UnlockCheck, target
  <1>2. ASSUME NEW rs, Set(r, rs), rs.pc # "owner"
        PROVE  LockMoves(r)
    BY <1>1, <1>2, SetMoves, KeepsLock
  <1>3. CASE StartDeploy(r, b)
    <2> DEFINE rs == [Idle EXCEPT !.pc = "step", !.cmd = "deploy", !.idx = 1,
                                  !.status = "running", !.nolock = b]
    <2>1. Set(r, rs) /\ rs.pc # "owner"
      BY <1>3 DEF StartDeploy, Idle
    <2> HIDE DEF rs
    <2> QED BY <1>2, <2>1
  <1>4. CASE UnlockCheck(r, b)
    <2> DEFINE rs == [Idle EXCEPT !.pc = "unlock", !.cmd = "unlock"]
    <2>1. Set(r, rs) /\ rs.pc # "owner"
      BY <1>4 DEF UnlockCheck, Idle
    <2> HIDE DEF rs
    <2> QED BY <1>2, <2>1
  <1>5. CASE StartResume(r, b)
    <2>1. PICK n : Set(r, [Idle EXCEPT !.pc = "resumeLock", !.cmd = "deploy", !.num = n,
                                !.status = rec[n].status, !.done = rec[n].done,
                                !.nolock = b])
      BY <1>5 DEF StartResume
    <2> DEFINE rs == [Idle EXCEPT !.pc = "resumeLock", !.cmd = "deploy", !.num = n,
                                !.status = rec[n].status, !.done = rec[n].done,
                                !.nolock = b]
    <2>2. Set(r, rs) /\ rs.pc # "owner"
      BY <2>1 DEF Idle
    <2> HIDE DEF rs
    <2> QED BY <1>2, <2>2
  <1>6. CASE RollbackSelect(r, b)
    <2>1. PICK n : Set(r, [Idle EXCEPT !.pc = IF b THEN "activate" ELSE "mkdir",
                                !.cmd = "rollback", !.num = n, !.nolock = b])
      BY <1>6 DEF RollbackSelect
    <2> DEFINE rs == [Idle EXCEPT !.pc = IF b THEN "activate" ELSE "mkdir",
                                !.cmd = "rollback", !.num = n, !.nolock = b]
    <2>2. Set(r, rs) /\ rs.pc # "owner"
      BY <2>1 DEF Idle
    <2> HIDE DEF rs
    <2> QED BY <1>2, <2>2
  <1> QED BY <1>3, <1>4, <1>5, <1>6

LEMMA MutexNext == TypeInv /\ LockInv /\ [Next]_vars => [Mutex!Next]_(Mutex!vars)
  <1> SUFFICES ASSUME TypeInv, LockInv, [Next]_vars PROVE [Mutex!Next]_(Mutex!vars)
    OBVIOUS
  <1>1. ASSUME NEW r \in Run, Step(r) \/ StepFails(r) \/ Crash(r)
        PROVE  [Mutex!Next]_(Mutex!vars)
    BY <1>1, LoopMoves, TakeMoves, MutexStep DEF Step
  <1>2. ASSUME NEW r \in Run, NEW b,
               StartDeploy(r, b) \/ StartResume(r, b) \/ RollbackSelect(r, b) \/ UnlockCheck(r, b)
        PROVE  [Mutex!Next]_(Mutex!vars)
    BY <1>2, IssueMoves, MutexStep
  <1>3. CASE UNCHANGED <<lock, run, inside>>
    BY <1>3 DEF Mutex!vars, Holder
  <1> QED BY <1>1, <1>2, <1>3 DEF Next, Quiet, LockAges, vars, target

\* mkdir and rmdir over the lock directory implement a mutex with abandonment: as
\* long as recovery commands are not issued blindly, a held lock ends by its
\* holder's hand only, and one its holder left is removed by a recovery command.
THEOREM LockImplementsMutex == Spec /\ RecoveryDisciplined => LockIsAMutex
  <1>1. Init /\ RecoveryDisciplined => TypeInv /\ LockInv /\ RecoveryDisciplined
    BY TypeInit, LockInit
  <1>2. /\ TypeInv /\ LockInv /\ RecoveryDisciplined
        /\ [Next]_vars
        => (TypeInv /\ LockInv /\ RecoveryDisciplined)'
    BY TypeNext, LockNext DEF RecoveryDisciplined
  <1>3. Init => Mutex!Init
    BY DEF Init, Mutex!Init, Holder
  <1> QED
    BY <1>1, <1>2, <1>3, MutexNext, PTL DEF Spec, LockIsAMutex, Mutex!Spec

-----------------------------------------------------------------------------
(* Release numbers and foreign releases. *)

\* The newest directory is never among the victims of a cleanup.
LEMMA HighestNotPruned ==
  ASSUME TypeInv, NEW own, NEW n \in dirs, \A m \in dirs : m <= n
  PROVE  n \notin Pruned(own)
  <1>1. {m \in Recorded \ {own} : m > n} = {}
    <2>1. dirs \subseteq Int /\ Recorded \subseteq dirs
      BY ConstantsAssumption DEF TypeInv, TypeOK, Recorded, Number
    <2>2. \A m \in Recorded : ~(m > n)
      BY <2>1
    <2> QED
      BY <2>2
  <1>2. Cardinality({m \in Recorded \ {own} : m > n}) = 0
    BY <1>1, FS_EmptySet
  <1> QED
    BY <1>2, ConstantsAssumption DEF Pruned, PruneWindow

\* What becomes of the release directories in one step.
LEMMA DirsStep ==
  ASSUME TypeInv, [Next]_vars
  PROVE  \E own : dirs \ Pruned(own) \subseteq dirs'
  <1>1. ASSUME NEW r \in Run, CleanupStep(r)
        PROVE  \E own : dirs \ Pruned(own) \subseteq dirs'
    BY <1>1 DEF CleanupStep, RemoveReleases
  <1>2. ASSUME NEW r \in Run, StepFails(r)
        PROVE  \E own : dirs \ Pruned(own) \subseteq dirs'
    BY <1>2 DEF StepFails, HalfDone, RemoveReleases, target
  <1>3. ASSUME NEW r \in Run, Step(r), ~CleanupStep(r)
        PROVE  dirs \subseteq dirs'
    <2> USE DEF StoreRecord, BestEffortWrite, WriteRelease
    <2>1. CASE CarryOver(r) \/ SkipLockStep(r)
      BY <2>1 DEF CarryOver, SkipLockStep
    <2>2. CASE RecordStep(r) \/ RecordFailure(r) \/ FinishRun(r)
      BY <2>2 DEF RecordStep, RecordFailure, FinishRun
    <2>3. CASE ReleaseStep(r)
      BY <2>3 DEF ReleaseStep
    <2>4. CASE \/ ResumeCheckLock(r) \/ ResumeCheckLive(r) \/ ResumeUnlock(r) \/ ResumeRun(r)
               \/ PlainStep(r) \/ LockMkdir(r) \/ LockOwner(r) \/ ActivateStep(r) \/ VerifyStep(r)
               \/ UnlockStep(r) \/ StepRefused(r) \/ ReleaseLockAfterFailure(r)
               \/ RollbackActivate(r) \/ RollbackUnlock(r) \/ UnlockRemove(r)
      BY <2>4 DEF ResumeCheckLock, ResumeCheckLive, ResumeUnlock, ResumeRun, PlainStep,
                  LockMkdir, LockOwner, ActivateStep, VerifyStep, UnlockStep, StepRefused,
                  ReleaseLockAfterFailure, RollbackActivate, RollbackUnlock, UnlockRemove, target
    <2> QED
      BY <1>3, <2>1, <2>2, <2>3, <2>4 DEF Step
  <1>4. CASE UNCHANGED dirs
    BY <1>4
  <1> QED
    BY <1>1, <1>2, <1>3, <1>4
    DEF Next, StartDeploy, StartResume, RollbackSelect, UnlockCheck, Crash, LockAges, Quiet,
        vars, target

\* NextReleaseNumber never hands out a number twice: the highest release
\* directory survives every step, whatever the operators do.
THEOREM NumbersAreNotReused == Spec => HighestKept
  <1>1. Spec => []TypeInv
    BY TypeInit, TypeNext, PTL DEF Spec
  <1>2. TypeInv /\ [Next]_vars
        => [\A n \in dirs : (\A m \in dirs : m <= n) => n \in dirs']_vars
    BY DirsStep, HighestNotPruned
  <1> QED
    BY <1>1, <1>2, PTL DEF Spec, HighestKept

\* No command works on a release directory another tool created.
ForeignInv == ForeignUntouched /\ \A r \in Run : run[r].num \notin Foreign

LEMMA ForeignInit == Init => ForeignInv
  BY ConstantsAssumption DEF Init, ForeignInv, ForeignUntouched, Idle, Number, NoRecord

\* A step that works on the releases in S only.
LEMMA ForeignStep ==
  ASSUME TypeInv, ForeignInv, NEW r \in Run, NEW rs, Set(r, rs), rs.num \notin Foreign,
         NEW S, S \cap Foreign = {},
         dirs \ S \subseteq dirs',
         \A n \in Number \ S : rec'[n] = rec[n] /\ content'[n] = content[n]
  PROVE  ForeignInv'
  <1>1. ForeignUntouched'
    BY ConstantsAssumption DEF ForeignInv, ForeignUntouched
  <1>2. \A s \in Run : run'[s].num \notin Foreign
    BY DEF ForeignInv, Set, TypeInv, TypeOK
  <1> QED
    BY <1>1, <1>2 DEF ForeignInv

\* A step that touches no release, or only makes a directory.
LEMMA ForeignLocal ==
  ASSUME TypeInv, ForeignInv, NEW r \in Run, NEW rs, Set(r, rs), rs.num \notin Foreign,
         dirs \subseteq dirs', UNCHANGED <<rec, content>>
  PROVE  ForeignInv'
  <1> DEFINE S == {}
  <1>1. S \cap Foreign = {} /\ dirs \ S \subseteq dirs'
    OBVIOUS
  <1>2. \A n \in Number \ S : rec'[n] = rec[n] /\ content'[n] = content[n]
    OBVIOUS
  <1> HIDE DEF S
  <1> QED
    BY <1>1, <1>2, ForeignStep

\* Storing the record of a release that is not foreign.
LEMMA StoreForeign ==
  ASSUME TypeInv, NEW rs, StoreRecord(rs) \/ BestEffortWrite(rs)
  PROVE  dirs \subseteq dirs' /\ \A n \in Number \ {rs.num} : rec'[n] = rec[n]
  BY DEF StoreRecord, BestEffortWrite, WriteRelease, TypeInv, TypeOK

\* What a command does by itself.
LEMMA ForeignCommand ==
  ASSUME TypeInv, ForeignInv, NEW r \in Run, Step(r) \/ StepFails(r) \/ Crash(r)
  PROVE  ForeignInv'
  <1> DEFINE At(l) == [run[r] EXCEPT !.pc = l]
             n     == run[r].num
  <1>1. run[r] \in RunState /\ n \notin Foreign
    BY RunType DEF ForeignInv
  <1>2. Idle.num \notin Foreign
    BY ConstantsAssumption DEF Idle, Number
  <1>3. \A l : At(l).num = n
    BY <1>1 DEF RunState
  <1>4. \A own : Pruned(own) \cap Foreign = {}
    BY DEF Pruned, PruneWindow, Recorded, ForeignInv, ForeignUntouched, NoRecord
  <1>5. CASE \/ ResumeCheckLock(r) \/ ResumeCheckLive(r) \/ ResumeUnlock(r)
             \/ LockMkdir(r) \/ LockOwner(r) \/ ActivateStep(r) \/ VerifyStep(r)
             \/ UnlockStep(r) \/ StepRefused(r) \/ ReleaseLockAfterFailure(r)
             \/ RollbackActivate(r) \/ RollbackUnlock(r) \/ UnlockRemove(r) \/ Crash(r)
    <2>1. UNCHANGED <<dirs, rec, content>>
      BY <1>5 DEF ResumeCheckLock, ResumeCheckLive, ResumeUnlock,
                  LockMkdir, LockOwner, ActivateStep, VerifyStep, UnlockStep, StepRefused,
                  ReleaseLockAfterFailure, RollbackActivate, RollbackUnlock, UnlockRemove, Crash,
                  target
    <2>2. Set(r, Idle) \/ \E l \in Pc : Set(r, At(l))
      BY <1>5 DEF ResumeCheckLock, ResumeCheckLive, ResumeUnlock, Pc,
                  LockMkdir, LockOwner, ActivateStep, VerifyStep, UnlockStep, StepRefused,
                  ReleaseLockAfterFailure, RollbackActivate, RollbackUnlock, UnlockRemove, Crash,
                  LockRefused, Goto
    <2> HIDE DEF At
    <2> QED
      BY <1>1, <1>2, <1>3, <2>1, <2>2, ForeignLocal
  <1>6. CASE ResumeRun(r)
    <2> DEFINE rs == [run[r] EXCEPT !.pc = "step", !.idx = 1,
                        !.carried = rec[run[r].num].done \ ResumeAlwaysReruns]
    <2>1. Set(r, rs) /\ UNCHANGED <<dirs, rec, content>>
      BY <1>6 DEF ResumeRun, target
    <2>2. rs.num = n
      BY <1>1 DEF RunState
    <2> HIDE DEF rs
    <2> QED
      BY <1>1, <2>1, <2>2, ForeignLocal
  <1>7. CASE PlainStep(r)
    <2>1. /\ Set(r, At("write")) /\ UNCHANGED <<dirs, rec>>
          /\ \A m \in Number \ {n} : content'[m] = content[m]
      BY <1>7 DEF PlainStep, Goto, TypeInv, TypeOK
    <2> HIDE DEF At
    <2> QED
      BY <1>1, <1>3, <2>1, ForeignStep
  <1>8. CASE ReleaseStep(r)
    <2> DEFINE k  == ReleaseNumber(r)
               rs == [run[r] EXCEPT !.pc = "write", !.num = k]
    <2>1. Set(r, rs) /\ dirs \subseteq dirs' /\ UNCHANGED <<rec, content>>
      BY <1>8 DEF ReleaseStep
    <2>2. k \notin Foreign
      BY <1>8 DEF ReleaseStep, Recorded, ForeignInv, ForeignUntouched, NoRecord
    <2> HIDE DEF k
    <2>3. rs.num = k
      BY <1>1 DEF RunState
    <2> HIDE DEF rs
    <2> QED
      BY <2>1, <2>2, <2>3, ForeignLocal
  <1>9. CASE CleanupStep(r)
    <2>1. Set(r, At("write")) /\ RemoveReleases(Pruned(n))
      BY <1>9 DEF CleanupStep, Goto
    <2>2. /\ dirs \ Pruned(n) \subseteq dirs'
          /\ \A m \in Number \ Pruned(n) : rec'[m] = rec[m] /\ content'[m] = content[m]
      BY <2>1 DEF RemoveReleases
    <2> HIDE DEF At, n
    <2> QED
      BY <1>1, <1>3, <1>4, <2>1, <2>2, ForeignStep
  <1>10. CASE StepFails(r)
    <2>1. PICK t \in Task : HalfDone(r, t)
      BY <1>10 DEF StepFails
    <2>2. Set(r, At("failed"))
      BY <1>10 DEF StepFails, Goto
    <2>3. \/ dirs \subseteq dirs' /\ UNCHANGED <<rec, content>>
          \/ \E k \in Pruned(n) : RemoveReleases({m \in Pruned(n) : m >= k})
      BY <2>1 DEF HalfDone, target
    <2>4. /\ dirs \ Pruned(n) \subseteq dirs'
          /\ \A m \in Number \ Pruned(n) : rec'[m] = rec[m] /\ content'[m] = content[m]
      BY <2>3 DEF RemoveReleases
    <2> HIDE DEF At, n
    <2> QED
      BY <1>1, <1>3, <1>4, <2>2, <2>4, ForeignStep
  <1>11. CASE \/ CarryOver(r) \/ SkipLockStep(r) \/ RecordStep(r) \/ RecordFailure(r)
              \/ FinishRun(r)
    <2>1. UNCHANGED content
      BY <1>11 DEF CarryOver, SkipLockStep, RecordStep, RecordFailure, FinishRun
    <2>2. \E stored, rs : /\ StoreRecord(stored) \/ BestEffortWrite(stored)
                          /\ Set(r, rs)
                          /\ stored.num = n
                          /\ rs.num \in {n, Idle.num}
      <3>1. CASE CarryOver(r)
        BY <1>1, <3>1 DEF CarryOver, RunState
      <3>2. CASE SkipLockStep(r)
        <4>1. PICK t \in {"lock", "unlock"} :
                LET rs == [run[r] EXCEPT !.idx = @ + 1, !.done = @ \ {t}]
                IN  Set(r, rs) /\ StoreRecord(rs)
          BY <3>2 DEF SkipLockStep
        <4>2. [run[r] EXCEPT !.idx = @ + 1, !.done = @ \ {t}].num = n
          BY <1>1 DEF RunState
        <4> QED
          BY <4>1, <4>2
      <3>3. CASE RecordStep(r)
        <4> DEFINE t  == Pipeline[run[r].idx]
                   rs == [run[r] EXCEPT !.pc = "step", !.idx = @ + 1, !.done = @ \cup {t},
                                        !.held = @ \/ t = "lock"]
        <4>1. Set(r, rs) /\ StoreRecord(rs)
          BY <3>3 DEF RecordStep
        <4>2. rs.num = n
          BY <1>1 DEF RunState
        <4> HIDE DEF rs
        <4> QED
          BY <4>1, <4>2
      <3>4. CASE RecordFailure(r)
        <4> DEFINE t  == Pipeline[run[r].idx]
                   rs == [run[r] EXCEPT !.pc = "release", !.status = "failed", !.done = @ \ {t}]
        <4>1. (Set(r, rs) \/ Set(r, Idle)) /\ BestEffortWrite(rs)
          BY <3>4 DEF RecordFailure
        <4>2. rs.num = n
          BY <1>1 DEF RunState
        <4> HIDE DEF rs
        <4> QED
          BY <4>1, <4>2
      <3>5. CASE FinishRun(r)
        BY <1>1, <3>5 DEF FinishRun, RunState
      <3> QED
        BY <1>11, <3>1, <3>2, <3>3, <3>4, <3>5
    <2>3. dirs \subseteq dirs' /\ \A m \in Number \ {n} : rec'[m] = rec[m]
      BY <2>2, StoreForeign
    <2> HIDE DEF n
    <2> QED
      BY <1>1, <1>2, <2>1, <2>2, <2>3, ForeignStep
  <1> QED
    BY <1>5, <1>6, <1>7, <1>8, <1>9, <1>10, <1>11 DEF Step

LEMMA ForeignNext == TypeInv /\ ForeignInv /\ [Next]_vars => ForeignInv'
  <1> SUFFICES ASSUME TypeInv, ForeignInv, [Next]_vars PROVE ForeignInv'
    OBVIOUS
  <1>0. Idle.num \notin Foreign
    BY ConstantsAssumption DEF Idle, Number
  <1>1. ASSUME NEW r \in Run, NEW skip, StartDeploy(r, skip)
        PROVE  ForeignInv'
    <2> DEFINE rs == [Idle EXCEPT !.pc = "step", !.cmd = "deploy", !.idx = 1,
                                  !.status = "running", !.nolock = skip]
    <2>1. Set(r, rs) /\ UNCHANGED <<dirs, rec, content>>
      BY <1>1 DEF StartDeploy, target
    <2>2. rs.num \notin Foreign
      BY <1>0 DEF Idle
    <2> HIDE DEF rs
    <2> QED
      BY <2>1, <2>2, ForeignLocal
  <1>2. ASSUME NEW r \in Run, NEW skip, StartResume(r, skip)
        PROVE  ForeignInv'
    <2>1. PICK n \in IncompleteRelease :
            Set(r, [Idle EXCEPT !.pc = "resumeLock", !.cmd = "deploy", !.num = n,
                                !.status = rec[n].status, !.done = rec[n].done,
                                !.nolock = skip])
      BY <1>2 DEF StartResume
    <2> DEFINE rs == [Idle EXCEPT !.pc = "resumeLock", !.cmd = "deploy", !.num = n,
                                  !.status = rec[n].status, !.done = rec[n].done,
                                  !.nolock = skip]
    <2>2. n \notin Foreign
      BY DEF IncompleteRelease, Incomplete, Recorded, ForeignInv, ForeignUntouched, NoRecord
    <2>3. rs.num = n
      BY DEF Idle
    <2>4. Set(r, rs) /\ UNCHANGED <<dirs, rec, content>>
      BY <1>2, <2>1 DEF StartResume, target
    <2> HIDE DEF rs
    <2> QED
      BY <2>2, <2>3, <2>4, ForeignLocal
  <1>3. ASSUME NEW r \in Run, NEW skip, RollbackSelect(r, skip)
        PROVE  ForeignInv'
    <2>1. PICK n \in Usable :
            Set(r, [Idle EXCEPT !.pc = IF skip THEN "activate" ELSE "mkdir",
                                !.cmd = "rollback", !.num = n, !.nolock = skip])
      BY <1>3 DEF RollbackSelect
    <2> DEFINE rs == [Idle EXCEPT !.pc = IF skip THEN "activate" ELSE "mkdir",
                                  !.cmd = "rollback", !.num = n, !.nolock = skip]
    <2>2. n \notin Foreign
      BY DEF Usable, Recorded, ForeignInv, ForeignUntouched, NoRecord
    <2>3. rs.num = n
      BY DEF Idle
    <2>4. Set(r, rs) /\ UNCHANGED <<dirs, rec, content>>
      BY <1>3, <2>1 DEF RollbackSelect, target
    <2> HIDE DEF rs
    <2> QED
      BY <2>2, <2>3, <2>4, ForeignLocal
  <1>4. ASSUME NEW r \in Run, NEW force, UnlockCheck(r, force)
        PROVE  ForeignInv'
    <2> DEFINE rs == [Idle EXCEPT !.pc = "unlock", !.cmd = "unlock"]
    <2>1. Set(r, rs) /\ UNCHANGED <<dirs, rec, content>>
      BY <1>4 DEF UnlockCheck, target
    <2>2. rs.num \notin Foreign
      BY <1>0 DEF Idle
    <2> HIDE DEF rs
    <2> QED
      BY <2>1, <2>2, ForeignLocal
  <1>5. ASSUME NEW r \in Run, Step(r) \/ StepFails(r) \/ Crash(r)
        PROVE  ForeignInv'
    BY <1>5, ForeignCommand
  <1>6. CASE UNCHANGED <<dirs, rec, content, run>>
    BY <1>6 DEF ForeignInv, ForeignUntouched
  <1> QED
    BY <1>1, <1>2, <1>3, <1>4, <1>5, <1>6 DEF Next, LockAges, Quiet, vars, target

\* CoreCleanup and CoreRelease leave alone what another tool created, whatever the
\* operators do.
THEOREM ForeignIsSafe == Spec => []ForeignUntouched
  <1>1. Spec => [](TypeInv /\ ForeignInv)
    BY TypeInit, TypeNext, ForeignInit, ForeignNext, PTL DEF Spec
  <1>2. ForeignInv => ForeignUntouched
    BY DEF ForeignInv
  <1> QED
    BY <1>1, <1>2, PTL

-----------------------------------------------------------------------------
(* What a record says, when one command runs at a time. *)

\* Hypothesis: operators issue one command at a time.
Exclusive == Discipline = "exclusive"

\* Hypothesis: the plan names each task once, as the recipe's task order does.
OncePerTask ==
  \A i, j \in 1 .. Len(Pipeline) : Pipeline[i] = Pipeline[j] => i = j

\* Whoever reaches u has passed t.
Before(t, u) ==
  \A j \in 1 .. Len(Pipeline) :
    Pipeline[j] = u => \E i \in 1 .. Len(Pipeline) : i < j /\ Pipeline[i] = t

\* The tasks a finished run cannot have left out.
Required == {Pipeline[i] : i \in 1 .. Len(Pipeline)} \ {"lock", "unlock"}

\* Hypothesis: the plan puts the release live.
Activates == "activate" \in Required

\* What a record says that a resumed run takes over.
Lasting(done) == done \ ResumeAlwaysReruns

OneAtATime ==
  \A r, s \in Run : run[r].pc # "idle" /\ run[s].pc # "idle" => r = s

\* A record has a directory, and says no more than that directory holds.
RecordFits(n) ==
  /\ n \notin dirs => rec[n] = NoRecord
  /\ rec[n].done \cap InRelease \subseteq content[n]
  /\ rec[n].status = "ok" => Required \subseteq rec[n].done

\* A resumed command holds a copy of the record until it runs.
CopyFits(rs) ==
  rs.pc \in {"resumeLock", "resumeLive", "resumeUnlock", "resumeRun"} =>
    /\ rs.cmd = "deploy" /\ rs.carried = {}
    /\ rs.num \in Incomplete
    /\ rs.status = rec[rs.num].status /\ rs.done = rec[rs.num].done

Executes(rs) ==
  rs.pc \in {"step", "write", "failed"} \/ (rs.pc = "owner" /\ rs.cmd # "rollback")

\* What a command that executes the plan has done so far.
ProgressFits(rs) ==
  Executes(rs) =>
    /\ rs.cmd = "deploy" /\ rs.status \in {"running", "failed"}
    /\ rs.carried \subseteq Lasting(rs.done)
    /\ \A i \in 1 .. Len(Pipeline) :
         i < rs.idx => Pipeline[i] \in rs.done \cup {"lock", "unlock"}
    /\ rs.pc # "step" => Pipeline[rs.idx] \notin rs.carried
    /\ rs.pc = "owner" => Pipeline[rs.idx] = "lock"
    /\ OncePerTask =>
         \A i \in 1 .. Len(Pipeline) :
           i >= rs.idx => Pipeline[i] \notin Lasting(rs.done) \ rs.carried

\* The tasks it has done, with the one it is about to write down.
SoFar(rs) == IF rs.pc = "write" THEN rs.done \cup {Pipeline[rs.idx]} ELSE rs.done

\* What it has done lies in its release directory.
ResultFits(rs) ==
  Executes(rs) =>
    IF rs.num = 0
      THEN SoFar(rs) \cap InRelease = {}
      ELSE /\ rs.num \in dirs
           /\ Lasting(rec[rs.num].done) \subseteq rs.done
           /\ SoFar(rs) \cap InRelease \subseteq content[rs.num]

CommandFits(rs) == CopyFits(rs) /\ ProgressFits(rs) /\ ResultFits(rs)

RecordInv ==
  /\ OneAtATime
  /\ \A n \in Number : RecordFits(n)
  /\ \A r \in Run : CommandFits(run[r])

LEMMA OthersIdle ==
  ASSUME RecordInv, NEW r \in Run, run[r].pc # "idle"
  PROVE  \A s \in Run \ {r} : run[s].pc = "idle"
  BY DEF RecordInv, OneAtATime

LEMMA Commit ==
  ASSUME TypeInv, NEW r \in Run, NEW rs, Set(r, rs),
         \A s \in Run \ {r} : run[s].pc = "idle",
         \A n \in Number : RecordFits(n)', CommandFits(run[r])'
  PROVE  RecordInv'
  <1>1. \A s \in Run \ {r} : run'[s] = run[s]
    BY DEF Set, TypeInv, TypeOK
  <1>2. OneAtATime'
    BY <1>1 DEF OneAtATime
  <1>3. ASSUME NEW s \in Run \ {r}
        PROVE  CommandFits(run[s])'
    BY <1>1, <1>3 DEF CommandFits, CopyFits, ProgressFits, ResultFits, SoFar, Executes
  <1> QED
    BY <1>2, <1>3 DEF RecordInv

\* What happens outside the release directories does not disturb a record.
LEMMA RecordsKept ==
  ASSUME RecordInv, UNCHANGED <<dirs, rec, content>>
  PROVE  \A n \in Number : RecordFits(n)'
  BY DEF RecordInv, RecordFits

LEMMA RunIs ==
  ASSUME TypeInv, NEW r \in Run, NEW rs, Set(r, rs)
  PROVE  run'[r] = rs
  BY DEF Set, TypeInv, TypeOK

\* A command that does not execute the plan and holds no copy of a record.
LEMMA Bystander ==
  ASSUME TypeInv, RecordInv, NEW r \in Run, NEW rs, Set(r, rs),
         run[r].pc # "idle" \/ \A s \in Run : run[s].pc = "idle",
         rs.pc \in {"idle", "mkdir", "release", "activate", "deferred", "unlock"}
           \/ (rs.pc = "owner" /\ rs.cmd = "rollback"),
         \A n \in Number : RecordFits(n)'
  PROVE  RecordInv'
  <1>1. run'[r] = rs
    BY RunIs
  <1>2. CommandFits(run[r])'
    BY <1>1 DEF CommandFits, CopyFits, ProgressFits, ResultFits, SoFar, Executes
  <1> QED
    BY <1>2, OthersIdle, Commit

LEMMA DirsAreNumbers == TypeInv => \A n \in dirs : n \in Number /\ n # 0
  BY ConstantsAssumption DEF TypeInv, TypeOK, Number

\* Commands that are issued, and recovery commands until they run.
LEMMA RecordIssue ==
  ASSUME TypeInv, RecordInv, Exclusive, NEW r \in Run,
         \/ \E skip \in SkipLock :
              StartDeploy(r, skip) \/ StartResume(r, skip) \/ RollbackSelect(r, skip)
         \/ \E force \in UnlockForce : UnlockCheck(r, force)
  PROVE  RecordInv'
  <1>1. (\A s \in Run : run[s].pc = "idle") /\ UNCHANGED target
    BY DEF Exclusive, StartDeploy, StartResume, RollbackSelect, UnlockCheck, Issue, MayIssue
  <1>2. \A n \in Number : RecordFits(n)'
    BY <1>1, RecordsKept DEF target
  <1>3. ASSUME NEW rs, Set(r, rs), CommandFits(run[r])'
        PROVE  RecordInv'
    BY <1>1, <1>2, <1>3, Commit
  <1>4. ASSUME NEW skip \in SkipLock, StartDeploy(r, skip)
        PROVE  RecordInv'
    <2> DEFINE rs == [Idle EXCEPT !.pc = "step", !.cmd = "deploy", !.idx = 1,
                                  !.status = "running", !.nolock = skip]
    <2>1. Set(r, rs)
      BY <1>4 DEF StartDeploy
    <2>2. run'[r] = rs
      BY <2>1, RunIs
    <2>3. CommandFits(run[r])'
      BY <2>2 DEF Idle, CommandFits, CopyFits, ProgressFits, ResultFits, SoFar, Executes, Lasting
    <2> HIDE DEF rs
    <2> QED BY <1>3, <2>1, <2>3
  <1>5. ASSUME NEW skip \in SkipLock, StartResume(r, skip)
        PROVE  RecordInv'
    <2>1. PICK n \in IncompleteRelease :
            Set(r, [Idle EXCEPT !.pc = "resumeLock", !.cmd = "deploy", !.num = n,
                                !.status = rec[n].status, !.done = rec[n].done,
                                !.nolock = skip])
      BY <1>5 DEF StartResume
    <2> DEFINE rs == [Idle EXCEPT !.pc = "resumeLock", !.cmd = "deploy", !.num = n,
                                  !.status = rec[n].status, !.done = rec[n].done,
                                  !.nolock = skip]
    <2>2. run'[r] = rs
      BY <2>1, RunIs
    <2>3. n \in Incomplete' /\ rec' = rec
      BY <1>1, <2>1 DEF target, IncompleteRelease, Incomplete, Recorded
    <2>4. CommandFits(run[r])'
      BY <2>2, <2>3 DEF Idle, CommandFits, CopyFits, ProgressFits, ResultFits, SoFar, Executes
    <2> HIDE DEF rs
    <2> QED BY <1>3, <2>1, <2>4 DEF rs
  <1>6. ASSUME NEW skip \in SkipLock, RollbackSelect(r, skip)
        PROVE  RecordInv'
    <2>1. PICK n \in Usable :
            Set(r, [Idle EXCEPT !.pc = IF skip THEN "activate" ELSE "mkdir",
                                !.cmd = "rollback", !.num = n, !.nolock = skip])
      BY <1>6 DEF RollbackSelect
    <2> DEFINE rs == [Idle EXCEPT !.pc = IF skip THEN "activate" ELSE "mkdir",
                                  !.cmd = "rollback", !.num = n, !.nolock = skip]
    <2>2. Set(r, rs) /\ rs.pc \in {"activate", "mkdir"}
      BY <2>1 DEF Idle
    <2> HIDE DEF rs
    <2> QED BY <1>1, <1>2, <2>2, Bystander
  <1>7. ASSUME NEW force \in UnlockForce, UnlockCheck(r, force)
        PROVE  RecordInv'
    <2> DEFINE rs == [Idle EXCEPT !.pc = "unlock", !.cmd = "unlock"]
    <2>1. Set(r, rs) /\ rs.pc = "unlock"
      BY <1>7 DEF UnlockCheck, Idle
    <2> HIDE DEF rs
    <2> QED BY <1>1, <1>2, <2>1, Bystander
  <1> QED BY <1>4, <1>5, <1>6, <1>7

LEMMA RecordRecovery ==
  ASSUME TypeInv, RecordInv, NEW r \in Run,
         ResumeCheckLock(r) \/ ResumeCheckLive(r) \/ ResumeUnlock(r) \/ ResumeRun(r)
  PROVE  RecordInv'
  <1>1. run[r] \in RunState /\ run[r].pc # "idle" /\ CommandFits(run[r])
    BY RunType DEF ResumeCheckLock, ResumeCheckLive, ResumeUnlock, ResumeRun, RecordInv
  <1>2. UNCHANGED <<dirs, rec, content>>
    BY DEF ResumeCheckLock, ResumeCheckLive, ResumeUnlock, ResumeRun, target
  <1>3. \A n \in Number : RecordFits(n)'
    BY <1>2, RecordsKept
  <1>4. /\ run[r].cmd = "deploy" /\ run[r].carried = {}
        /\ run[r].num \in Incomplete
        /\ run[r].status = rec[run[r].num].status /\ run[r].done = rec[run[r].num].done
    BY <1>1 DEF CommandFits, CopyFits, ResumeCheckLock, ResumeCheckLive, ResumeUnlock, ResumeRun
  <1>5. Incomplete' = Incomplete
    BY <1>2 DEF Incomplete, Recorded
  <1>6. ASSUME NEW rs, Set(r, rs), CommandFits(run[r])'
        PROVE  RecordInv'
    BY <1>1, <1>3, <1>6, OthersIdle, Commit
  <1>7. CASE Set(r, Idle)
    BY <1>1, <1>3, <1>7, Bystander DEF Idle
  <1>8. ASSUME NEW l \in {"resumeLive", "resumeUnlock", "resumeRun"}, Goto(r, l)
        PROVE  RecordInv'
    <2> DEFINE rs == [run[r] EXCEPT !.pc = l]
    <2>1. Set(r, rs) /\ run'[r] = rs
      BY <1>8, RunIs DEF Goto
    <2>2. /\ run'[r].pc = l /\ run'[r].cmd = "deploy" /\ run'[r].carried = {}
          /\ run'[r].num = run[r].num /\ run'[r].status = run[r].status
          /\ run'[r].done = run[r].done
      BY <1>1, <1>4, <2>1 DEF RunState
    <2>3. CommandFits(run[r])'
      BY <1>2, <1>4, <1>5, <2>2 DEF CommandFits, CopyFits, ProgressFits, ResultFits, SoFar, Executes
    <2> HIDE DEF rs
    <2> QED BY <1>6, <2>1, <2>3
  <1>9. CASE ResumeRun(r)
    <2> DEFINE kept == rec[run[r].num].done \ ResumeAlwaysReruns
               rs == [run[r] EXCEPT !.pc = "step", !.idx = 1, !.carried = kept]
    <2>1. Set(r, rs) /\ run'[r] = rs
      BY <1>9, RunIs DEF ResumeRun
    <2>2. /\ run'[r].pc = "step" /\ run'[r].cmd = "deploy" /\ run'[r].carried = kept
          /\ run'[r].num = run[r].num /\ run'[r].status = run[r].status
          /\ run'[r].done = run[r].done /\ run'[r].idx = 1
      BY <1>1, <1>4, <2>1 DEF RunState
    <2>3. run[r].num \in dirs /\ run[r].num \in Number /\ run[r].num # 0
      BY <1>4, DirsAreNumbers DEF Incomplete, Recorded
    <2>4. run[r].status \in {"running", "failed"}
      BY <1>1, <1>4, <2>3 DEF Incomplete, Recorded, RunState
    <2>5. run[r].done \cap InRelease \subseteq content[run[r].num]
      BY <1>4, <2>3 DEF RecordInv, RecordFits
    <2>6. ProgressFits(run[r])'
      BY <1>4, <2>2, <2>4 DEF ProgressFits, Lasting
    <2>7. ResultFits(run[r])'
      BY <1>2, <1>4, <2>2, <2>3, <2>5 DEF ResultFits, SoFar, Lasting
    <2>8. CopyFits(run[r])'
      BY <2>2 DEF CopyFits
    <2> HIDE DEF rs
    <2> QED BY <1>6, <2>1, <2>6, <2>7, <2>8 DEF CommandFits
  <1> QED
    BY <1>7, <1>8, <1>9 DEF ResumeCheckLock, ResumeCheckLive, ResumeUnlock

\* The commands that take and give up the lock, and the ones that only look.
LEMMA RecordBystander ==
  ASSUME TypeInv, RecordInv, NEW r \in Run,
         \/ ReleaseLockAfterFailure(r) \/ RollbackActivate(r) \/ RollbackUnlock(r)
         \/ UnlockRemove(r) \/ Crash(r)
  PROVE  RecordInv'
  <1>1. run[r] \in RunState /\ run[r].pc # "idle"
    BY RunType DEF ReleaseLockAfterFailure, RollbackActivate, RollbackUnlock, UnlockRemove, Crash
  <1>2. \A n \in Number : RecordFits(n)'
    BY RecordsKept
    DEF ReleaseLockAfterFailure, RollbackActivate, RollbackUnlock, UnlockRemove, Crash, target
  <1>3. CASE Set(r, Idle)
    BY <1>1, <1>2, <1>3, Bystander DEF Idle
  <1>4. CASE Goto(r, "deferred")
    <2> DEFINE rs == [run[r] EXCEPT !.pc = "deferred"]
    <2>1. Set(r, rs) /\ rs.pc = "deferred"
      BY <1>1, <1>4 DEF Goto, RunState
    <2> HIDE DEF rs
    <2> QED BY <1>1, <1>2, <2>1, Bystander
  <1> QED
    BY <1>3, <1>4
    DEF ReleaseLockAfterFailure, RollbackActivate, RollbackUnlock, UnlockRemove, Crash

\* Where a command stands that is about to execute a step.
LEMMA AtStepFits ==
  ASSUME TypeInv, RecordInv, NEW r \in Run, run[r].pc = "step"
  PROVE  /\ run[r] \in RunState /\ run[r].idx >= 1 /\ run[r].cmd = "deploy"
         /\ run[r].status \in {"running", "failed"} /\ run[r].carried \subseteq Lasting(run[r].done)
         /\ ProgressFits(run[r]) /\ ResultFits(run[r])
  BY RunType DEF PcFits, RecordInv, CommandFits, ProgressFits, Executes

\* A step of the plan starts, succeeds or fails: what it did before stays.
LEMMA StepEnds ==
  ASSUME TypeInv, RecordInv, NEW r \in Run, NEW t, AtStep(r, t), t \notin run[r].carried,
         NEW l \in {"write", "failed", "owner"}, NEW rs, Set(r, rs),
         rs \in RunState, rs.pc = l, rs.cmd = run[r].cmd, rs.idx = run[r].idx,
         rs.status = run[r].status, rs.done = run[r].done, rs.carried = run[r].carried,
         l = "owner" => t = "lock",
         \A n \in Number : RecordFits(n)', ResultFits(run[r])'
  PROVE  RecordInv'
  <1>1. run'[r] = rs
    BY RunIs
  <1>2. run[r].pc = "step"
    BY DEF AtStep
  <1>3. ProgressFits(run[r])'
    BY <1>1, <1>2, AtStepFits DEF ProgressFits, AtStep, Executes
  <1>4. CopyFits(run[r])'
    BY <1>1 DEF CopyFits
  <1> QED
    BY <1>2, <1>3, <1>4, OthersIdle, Commit DEF CommandFits

\* A step that leaves releases, records and content alone, and whose result is
\* not in the release directory.
LEMMA StepOutside ==
  ASSUME TypeInv, RecordInv, NEW r \in Run, NEW t, AtStep(r, t), t \notin run[r].carried,
         NEW l \in {"write", "failed", "owner"}, Goto(r, l),
         UNCHANGED <<dirs, rec, content>>, l = "write" => t \notin InRelease,
         l = "owner" => t = "lock"
  PROVE  RecordInv'
  <1> DEFINE rs == [run[r] EXCEPT !.pc = l]
  <1>1. run[r].pc = "step" /\ Pipeline[run[r].idx] = t
    BY DEF AtStep
  <1>2. Set(r, rs) /\ run'[r] = rs
    BY RunIs DEF Goto
  <1>3. /\ rs \in RunState /\ rs.pc = l /\ rs.cmd = run[r].cmd /\ rs.idx = run[r].idx
        /\ rs.status = run[r].status /\ rs.done = run[r].done
        /\ rs.carried = run[r].carried /\ rs.num = run[r].num
    BY RunType DEF RunState, Pc
  <1>4. ResultFits(run[r])'
    BY <1>1, <1>2, <1>3, AtStepFits DEF ResultFits, SoFar, Executes
  <1>5. \A n \in Number : RecordFits(n)'
    BY RecordsKept
  <1> HIDE DEF rs
  <1> QED
    BY <1>2, <1>3, <1>4, <1>5, StepEnds

LEMMA RecordOutside ==
  ASSUME TypeInv, RecordInv, NEW r \in Run,
         ActivateStep(r) \/ VerifyStep(r) \/ UnlockStep(r) \/ StepRefused(r)
  PROVE  RecordInv'
  <1>1. UNCHANGED <<dirs, rec, content>>
    BY DEF ActivateStep, VerifyStep, UnlockStep, StepRefused, target
  <1>2. CASE ActivateStep(r) \/ VerifyStep(r) \/ UnlockStep(r)
    <2>1. PICK t \in {"activate", "verify", "unlock"} :
            AtStep(r, t) /\ t \notin run[r].carried /\ Goto(r, "write")
      BY <1>2 DEF ActivateStep, VerifyStep, UnlockStep, Due
    <2> QED BY <1>1, <2>1, StepOutside DEF InRelease
  <1>3. CASE StepRefused(r)
    <2>1. PICK t \in Task : AtStep(r, t) /\ t \notin run[r].carried /\ Goto(r, "failed")
      BY <1>3 DEF StepRefused, Due, InRelease, Task
    <2> QED BY <1>1, <2>1, StepOutside
  <1> QED BY <1>2, <1>3

LEMMA RecordTaken ==
  ASSUME TypeInv, RecordInv, NEW r \in Run, LockMkdir(r) \/ LockOwner(r)
  PROVE  RecordInv'
  <1>1. /\ run[r] \in RunState /\ PcFits(run[r]) /\ CommandFits(run[r])
        /\ UNCHANGED <<dirs, rec, content>>
    BY RunType DEF LockMkdir, LockOwner, RecordInv
  <1>2. \A n \in Number : RecordFits(n)'
    BY <1>1, RecordsKept
  <1>3. CASE LockMkdir(r) /\ run[r].pc = "mkdir"
    <2> DEFINE rs == [run[r] EXCEPT !.pc = "owner"]
    <2>1. run[r].cmd = "rollback"
      BY <1>1, <1>3 DEF PcFits
    <2>2. CASE Set(r, Idle)
      BY <1>2, <1>3, <2>2, Bystander DEF Idle
    <2>3. CASE Goto(r, "owner")
      <3>1. Set(r, rs) /\ rs.pc = "owner" /\ rs.cmd = "rollback"
        BY <1>1, <2>1, <2>3 DEF Goto, RunState
      <3> HIDE DEF rs
      <3> QED BY <1>2, <1>3, <3>1, Bystander
    <2> QED BY <1>3, <2>1, <2>2, <2>3 DEF LockMkdir, LockRefused
  <1>4. CASE LockMkdir(r) /\ Due(r, "lock")
    <2>1. AtStep(r, "lock") /\ "lock" \notin run[r].carried /\ run[r].cmd = "deploy"
      BY <1>4, AtStepFits DEF Due, AtStep
    <2>2. Goto(r, "owner") \/ Goto(r, "failed")
      BY <1>4, <2>1 DEF LockMkdir, LockRefused, Goto
    <2> QED BY <1>1, <2>1, <2>2, StepOutside
  <1>5. CASE LockOwner(r) /\ run[r].cmd = "rollback"
    <2>1. CASE Set(r, Idle)
      BY <1>2, <1>5, <2>1, Bystander DEF Idle, LockOwner
    <2>2. CASE Goto(r, "activate")
      <3> DEFINE rs == [run[r] EXCEPT !.pc = "activate"]
      <3>1. Set(r, rs) /\ rs.pc = "activate"
        BY <1>1, <2>2 DEF Goto, RunState
      <3> HIDE DEF rs
      <3> QED BY <1>2, <1>5, <3>1, Bystander DEF LockOwner
    <2> QED BY <1>5, <2>1, <2>2 DEF LockOwner, LockRefused
  <1>6. CASE LockOwner(r) /\ run[r].cmd # "rollback"
    <2>1. run[r].pc = "owner" /\ Executes(run[r]) /\ (Goto(r, "write") \/ Goto(r, "failed"))
      BY <1>6 DEF LockOwner, LockRefused, Goto, Executes
    <2>2. PICK l \in {"write", "failed"} : Goto(r, l)
      BY <2>1
    <2> DEFINE rs == [run[r] EXCEPT !.pc = l]
    <2>3. Set(r, rs) /\ run'[r] = rs
      BY <2>2, RunIs DEF Goto
    <2>4. /\ rs.pc = l /\ rs.cmd = run[r].cmd /\ rs.idx = run[r].idx
          /\ rs.status = run[r].status /\ rs.done = run[r].done
          /\ rs.carried = run[r].carried /\ rs.num = run[r].num
      BY <1>1 DEF RunState
    <2> HIDE DEF rs
    <2>5. ProgressFits(run[r]) /\ ResultFits(run[r]) /\ Pipeline[run[r].idx] = "lock"
      BY <1>1, <2>1 DEF CommandFits, ProgressFits
    <2>6. ProgressFits(run[r])'
      BY <2>1, <2>3, <2>4, <2>5 DEF ProgressFits, Executes
    <2>7. ResultFits(run[r])'
      BY <1>1, <2>1, <2>3, <2>4, <2>5 DEF ResultFits, SoFar, Executes, InRelease
    <2>8. CopyFits(run[r])'
      BY <2>3, <2>4 DEF CopyFits
    <2> QED BY <1>2, <2>1, <2>3, <2>6, <2>7, <2>8, OthersIdle, Commit DEF CommandFits
  <1> QED BY <1>3, <1>4, <1>5, <1>6 DEF LockMkdir

\* NextReleaseNumber is past every directory.
LEMMA NextNumber ==
  ASSUME TypeInv
  PROVE  /\ NextReleaseNumber \in 1 .. MaxRelease + 1
         /\ \A d \in dirs : d < NextReleaseNumber
  <1> DEFINE U == {n \in Nat : \A d \in dirs : d < n}
  <1>1. MaxRelease \in Nat /\ \A d \in dirs : d \in 1 .. MaxRelease
    BY ConstantsAssumption DEF TypeInv, TypeOK, Number
  <1>2. MaxRelease + 1 \in U
    BY <1>1
  <1>3. U \in SUBSET Nat /\ U # {}
    BY <1>2
  <1> HIDE DEF U
  <1>4. PICK n \in U : \A m \in U : ~(<<m, n>> \in OpToRel(<, Nat))
    BY <1>3, NatLessThanWellFounded, WFMin
  <1>5. \A m \in U : ~(m < n)
    BY <1>3, <1>4, Zenon DEF OpToRel
  <1>6. n \in Nat /\ \A d \in dirs : d < n
    BY DEF U
  <1>7. CASE n = 0
    <2>1. dirs = {}
      BY <1>1, <1>6, <1>7
    <2> QED BY <1>1, <2>1 DEF NextReleaseNumber
  <1>8. CASE n # 0
    <2>1. n - 1 \in Nat /\ n - 1 \notin U
      BY <1>5, <1>6, <1>8
    <2>2. PICK d \in dirs : ~(d < n - 1)
      BY <2>1 DEF U
    <2>3. d = n - 1
      BY <1>1, <1>6, <2>2
    <2>4. n \in 1 .. MaxRelease + 1 /\ n - 1 \in dirs
      BY <1>1, <1>6, <2>3
    <2> QED BY <1>6, <2>4 DEF NextReleaseNumber
  <1> QED BY <1>7, <1>8

LEMMA RecordContent ==
  ASSUME TypeInv, RecordInv, NEW r \in Run, PlainStep(r)
  PROVE  RecordInv'
  <1>1. PICK t \in {"check", "migrate", "record"} \cup InRelease :
          /\ AtStep(r, t) /\ t \notin run[r].carried
          /\ t \in InRelease => run[r].num \in dirs
          /\ content' = IF t \in InRelease
                          THEN [content EXCEPT ![run[r].num] = @ \cup {t}]
                          ELSE content
    BY DEF PlainStep, Due
  <1>2. Goto(r, "write") /\ UNCHANGED <<dirs, rec>>
    BY DEF PlainStep
  <1>3. CASE t \notin InRelease
    BY <1>1, <1>2, <1>3, StepOutside
  <1>4. CASE t \in InRelease
    <2> DEFINE rs == [run[r] EXCEPT !.pc = "write"]
    <2>1. run[r].pc = "step" /\ Pipeline[run[r].idx] = t
      BY <1>1 DEF AtStep
    <2>2. Set(r, rs) /\ run'[r] = rs
      BY <1>2, RunIs DEF Goto
    <2>3. /\ rs \in RunState /\ rs.pc = "write" /\ rs.cmd = run[r].cmd /\ rs.idx = run[r].idx
          /\ rs.status = run[r].status /\ rs.done = run[r].done
          /\ rs.carried = run[r].carried /\ rs.num = run[r].num
      BY RunType DEF RunState, Pc
    <2>4. run[r].num \in Number /\ run[r].num # 0
      BY <1>1, <1>4, DirsAreNumbers
    <2>5. /\ \A n \in Number : content[n] \subseteq content'[n]
          /\ t \in content'[run[r].num]
      BY <1>1, <1>4, <2>4 DEF TypeInv, TypeOK
    <2>6. \A n \in Number : RecordFits(n)'
      BY <1>2, <2>5 DEF RecordInv, RecordFits
    <2>7. ResultFits(run[r])'
      BY <1>1, <1>2, <1>4, <2>1, <2>2, <2>3, <2>4, <2>5, AtStepFits DEF ResultFits, SoFar, Executes
    <2> HIDE DEF rs
    <2> QED BY <1>1, <2>2, <2>3, <2>6, <2>7, StepEnds
  <1> QED BY <1>3, <1>4

LEMMA RecordRelease ==
  ASSUME TypeInv, RecordInv, NEW r \in Run, ReleaseStep(r)
  PROVE  RecordInv'
  <1> DEFINE N  == ReleaseNumber(r)
             rs == [run[r] EXCEPT !.pc = "write", !.num = N]
  <1>1. /\ AtStep(r, "release") /\ "release" \notin run[r].carried
        /\ N \in Number /\ dirs' = dirs \cup {N} /\ UNCHANGED <<rec, content>> /\ Set(r, rs)
    BY DEF ReleaseStep, Due
  <1>2. run[r].pc = "step" /\ Pipeline[run[r].idx] = "release" /\ N # 0
    BY <1>1, ConstantsAssumption DEF AtStep, Number
  <1>3. run'[r] = rs
    BY <1>1, RunIs
  <1>4. /\ rs.pc = "write" /\ rs.cmd = run[r].cmd /\ rs.idx = run[r].idx
        /\ rs.status = run[r].status /\ rs.done = run[r].done
        /\ rs.carried = run[r].carried /\ rs.num = N
    BY RunType DEF RunState, Pc
  <1>5. rs \in RunState
    <2>1. N \in 0 .. MaxRelease
      BY <1>1, ConstantsAssumption DEF Number
    <2> QED BY <2>1, RunType DEF RunState, Pc
  <1>6. \A n \in Number : RecordFits(n)'
    BY <1>1 DEF RecordInv, RecordFits
  <1>7. Lasting(rec[N].done) \subseteq run[r].done /\ run[r].done \cap InRelease \subseteq content[N]
    <2>1. CASE run[r].num = 0
      <3>1. N = NextReleaseNumber
        BY <2>1 DEF ReleaseNumber
      <3>2. N \notin dirs
        BY <1>1, <3>1, NextNumber, ConstantsAssumption DEF Number
      <3>3. rec[N] = NoRecord
        BY <1>1, <3>2 DEF RecordInv, RecordFits
      <3>4. run[r].done \cap InRelease = {}
        BY <1>2, <2>1, AtStepFits DEF ResultFits, SoFar, Executes
      <3> HIDE DEF N
      <3> QED BY <3>3, <3>4 DEF NoRecord, Lasting
    <2>2. CASE run[r].num # 0
      <3>1. N = run[r].num
        BY <2>2 DEF ReleaseNumber
      <3> HIDE DEF N
      <3> QED BY <1>2, <2>2, <3>1, AtStepFits DEF ResultFits, SoFar, Executes
    <2> QED BY <2>1, <2>2
  <1> HIDE DEF N
  <1>8. ResultFits(run[r])'
    BY <1>1, <1>2, <1>3, <1>4, <1>7 DEF ResultFits, SoFar, Executes, InRelease
  <1> HIDE DEF rs
  <1> QED BY <1>1, <1>4, <1>5, <1>6, <1>8, StepEnds

\* Pruning removes a release with its record, and never the command's own.
LEMMA RecordPruned ==
  ASSUME TypeInv, RecordInv, NEW r \in Run, NEW t, AtStep(r, t), t \notin run[r].carried,
         t \notin InRelease, t # "lock",
         NEW l \in {"write", "failed"}, Goto(r, l),
         NEW S, S \subseteq Pruned(run[r].num), RemoveReleases(S)
  PROVE  RecordInv'
  <1> DEFINE rs == [run[r] EXCEPT !.pc = l]
  <1>1. run[r].pc = "step" /\ Pipeline[run[r].idx] = t
    BY DEF AtStep
  <1>2. Set(r, rs) /\ run'[r] = rs
    BY RunIs DEF Goto
  <1>3. /\ rs \in RunState /\ rs.pc = l /\ rs.cmd = run[r].cmd /\ rs.idx = run[r].idx
        /\ rs.status = run[r].status /\ rs.done = run[r].done
        /\ rs.carried = run[r].carried /\ rs.num = run[r].num
    BY RunType DEF RunState, Pc
  <1>4. run[r].num \notin S
    BY DEF Pruned, PruneWindow
  <1>5. \A n \in Number : RecordFits(n)'
    BY DEF RecordInv, RecordFits, RemoveReleases, NoRecord
  <1>6. \A n \in Number \ S : rec'[n] = rec[n] /\ content'[n] = content[n]
    BY DEF RemoveReleases
  <1>7. ResultFits(run[r]) /\ ProgressFits(run[r])
    BY <1>1, AtStepFits
  <1>8. ResultFits(run[r])'
    <2>1. CASE run[r].num = 0
      BY <1>1, <1>2, <1>3, <1>7, <2>1 DEF ResultFits, SoFar, Executes
    <2>2. CASE run[r].num # 0
      <3>1. run[r].num \in dirs
        BY <1>1, <1>7, <2>2 DEF ResultFits, SoFar, Executes
      <3>2. run[r].num \in dirs' /\ run[r].num \in Number
        BY <1>4, <3>1, DirsAreNumbers DEF RemoveReleases
      <3> QED BY <1>1, <1>2, <1>3, <1>4, <1>6, <1>7, <2>2, <3>2 DEF ResultFits, SoFar, Executes
    <2> QED BY <2>1, <2>2
  <1> HIDE DEF rs
  <1> QED BY <1>2, <1>3, <1>5, <1>8, StepEnds

LEMMA RecordCleanup ==
  ASSUME TypeInv, RecordInv, NEW r \in Run, CleanupStep(r)
  PROVE  RecordInv'
  BY RecordPruned DEF CleanupStep, Due, InRelease

LEMMA RecordFails ==
  ASSUME TypeInv, RecordInv, NEW r \in Run, StepFails(r)
  PROVE  RecordInv'
  <1>1. PICK t \in Task : AtStep(r, t) /\ t \notin run[r].carried /\ HalfDone(r, t)
    BY DEF StepFails, Due
  <1>2. Goto(r, "failed")
    BY DEF StepFails
  <1>3. CASE UNCHANGED <<dirs, rec, content>>
    BY <1>1, <1>2, <1>3, StepOutside
  <1>4. CASE t = "cleanup" /\ \E k \in Pruned(run[r].num) :
               RemoveReleases({n \in Pruned(run[r].num) : n >= k})
    <2>1. PICK k \in Pruned(run[r].num) : RemoveReleases({n \in Pruned(run[r].num) : n >= k})
      BY <1>4
    <2> QED BY <1>1, <1>2, <1>4, <2>1, RecordPruned DEF InRelease
  <1>5. CASE /\ run[r].num = 0 /\ dirs' = dirs \cup {NextReleaseNumber}
             /\ UNCHANGED <<rec, content>>
    <2> DEFINE rs == [run[r] EXCEPT !.pc = "failed"]
    <2>1. Set(r, rs) /\ run'[r] = rs
      BY <1>2, RunIs DEF Goto
    <2>2. /\ rs \in RunState /\ rs.pc = "failed" /\ rs.cmd = run[r].cmd
          /\ rs.idx = run[r].idx /\ rs.status = run[r].status /\ rs.done = run[r].done
          /\ rs.carried = run[r].carried /\ rs.num = run[r].num
      BY RunType DEF RunState, Pc
    <2>3. \A n \in Number : RecordFits(n)'
      BY <1>5 DEF RecordInv, RecordFits
    <2>4. ResultFits(run[r])'
      BY <1>1, <1>5, <2>1, <2>2, AtStepFits DEF ResultFits, SoFar, Executes, AtStep
    <2> HIDE DEF rs
    <2> QED BY <1>1, <2>1, <2>2, <2>3, <2>4, StepEnds
  <1> QED
    BY <1>1, <1>3, <1>4, <1>5 DEF HalfDone, target

\* A record that is stored, or lost on the way.
LEMMA Stored ==
  ASSUME TypeInv, RecordInv, NEW stored \in RunState,
         StoreRecord(stored) \/ BestEffortWrite(stored), UNCHANGED content,
         stored.num # 0 =>
           /\ stored.num \in dirs
           /\ stored.done \cap InRelease \subseteq content[stored.num]
           /\ stored.status = "ok" => Required \subseteq stored.done
  PROVE  /\ \A n \in Number : RecordFits(n)'
         /\ dirs' = dirs
         /\ \A n \in Number :
              \/ rec'[n] = rec[n]
              \/ n = stored.num /\ rec'[n] = [status |-> stored.status, done |-> stored.done]
  <1>1. CASE UNCHANGED <<rec, dirs>>
    BY <1>1, RecordsKept
  <1>2. CASE /\ stored.num # 0 /\ dirs' = dirs \cup {stored.num}
             /\ rec' = [rec EXCEPT ![stored.num] = [status |-> stored.status,
                                                    done |-> stored.done]]
    <2>1. dirs' = dirs
      BY <1>2
    <2>2. \A n \in Number : rec'[n] = IF n = stored.num
                                        THEN [status |-> stored.status, done |-> stored.done]
                                        ELSE rec[n]
      BY <1>2 DEF TypeInv, TypeOK
    <2>3. \A n \in Number : RecordFits(n)'
      BY <1>2, <2>1, <2>2 DEF RecordInv, RecordFits
    <2> QED BY <2>1, <2>2, <2>3
  <1> QED
    BY <1>1, <1>2 DEF StoreRecord, BestEffortWrite, WriteRelease

\* The loop passes a step: its outcome is noted and stored.
LEMMA StepPasses ==
  ASSUME TypeInv, RecordInv, NEW r \in Run, run[r].pc \in {"step", "write"},
         run[r].idx \in 1 .. Len(Pipeline),
         NEW rs \in RunState, Set(r, rs), StoreRecord(rs), UNCHANGED content,
         rs.pc = "step", rs.cmd = run[r].cmd, rs.idx = run[r].idx + 1, rs.num = run[r].num,
         rs.status = run[r].status, rs.carried = run[r].carried,
         rs.carried \subseteq Lasting(rs.done), Lasting(run[r].done) \subseteq rs.done,
         run[r].done \ {"lock", "unlock"} \subseteq rs.done,
         Pipeline[run[r].idx] \in rs.done \cup {"lock", "unlock"},
         rs.done \subseteq run[r].done \cup {Pipeline[run[r].idx]},
         run[r].pc = "step" => rs.done \subseteq run[r].done
  PROVE  RecordInv'
  <1>1. /\ run[r] \in RunState /\ Executes(run[r])
        /\ ProgressFits(run[r]) /\ ResultFits(run[r])
    BY RunType DEF RecordInv, CommandFits, Executes
  <1>2. run'[r] = rs
    BY RunIs
  <1>3. rs.num # 0 => rs.num \in dirs /\ rs.done \cap InRelease \subseteq content[rs.num]
    BY <1>1 DEF ResultFits, SoFar
  <1>4. rs.status # "ok"
    BY <1>1 DEF ProgressFits
  <1>5. /\ \A n \in Number : RecordFits(n)'
        /\ dirs' = dirs
        /\ \A n \in Number :
             \/ rec'[n] = rec[n]
             \/ n = rs.num /\ rec'[n] = [status |-> rs.status, done |-> rs.done]
    BY <1>3, <1>4, Stored
  <1>6. ProgressFits(run[r])'
    <2>1. \A i \in 1 .. Len(Pipeline) : i < rs.idx => i < run[r].idx \/ i = run[r].idx
      BY <1>1 DEF RunState
    <2>2. \A i \in 1 .. Len(Pipeline) : i < rs.idx => Pipeline[i] \in rs.done \cup {"lock", "unlock"}
      BY <1>1, <2>1 DEF ProgressFits
    <2>3. OncePerTask =>
            \A i \in 1 .. Len(Pipeline) :
              i >= rs.idx => Pipeline[i] \notin Lasting(rs.done) \ rs.carried
      <3>1. ASSUME OncePerTask, NEW i \in 1 .. Len(Pipeline), i >= rs.idx
            PROVE  Pipeline[i] \notin Lasting(rs.done) \ rs.carried
        <4>1. i >= run[r].idx /\ i # run[r].idx
          BY <1>1, <3>1 DEF RunState
        <4>2. Pipeline[i] # Pipeline[run[r].idx]
          BY <3>1, <4>1 DEF OncePerTask
        <4> QED BY <1>1, <3>1, <4>1, <4>2 DEF ProgressFits, Lasting
      <3> QED BY <3>1
    <2> QED BY <1>1, <1>2, <2>2, <2>3 DEF ProgressFits, Executes
  <1>7. ResultFits(run[r])'
    <2>1. CASE rs.num = 0
      BY <1>1, <1>2, <2>1 DEF ResultFits, SoFar, Executes
    <2>2. CASE rs.num # 0
      <3>1. Lasting(rec[rs.num].done) \subseteq Lasting(run[r].done) /\ rs.num \in Number
        BY <1>1, <1>3, <2>2, DirsAreNumbers DEF ResultFits, SoFar, Lasting
      <3>2. Lasting(rec'[rs.num].done) \subseteq rs.done
        BY <1>5, <3>1 DEF Lasting
      <3> QED BY <1>2, <1>3, <1>5, <2>2, <3>2 DEF ResultFits, SoFar, Executes
    <2> QED BY <2>1, <2>2
  <1>8. CopyFits(run[r])'
    BY <1>2 DEF CopyFits
  <1> QED
    BY <1>2, <1>5, <1>6, <1>7, <1>8, OthersIdle, Commit DEF CommandFits

LEMMA RecordStored ==
  ASSUME TypeInv, RecordInv, NEW r \in Run,
         CarryOver(r) \/ SkipLockStep(r) \/ RecordStep(r) \/ RecordFailure(r) \/ FinishRun(r)
  PROVE  RecordInv'
  <1>1. /\ run[r] \in RunState /\ PcFits(run[r]) /\ Executes(run[r]) /\ UNCHANGED content
        /\ ProgressFits(run[r]) /\ ResultFits(run[r])
    BY RunType DEF CarryOver, SkipLockStep, RecordStep, RecordFailure, FinishRun, AtStep,
                   RecordInv, CommandFits, Executes
  <1>2. run[r].carried \subseteq Lasting(run[r].done)
    BY <1>1 DEF ProgressFits
  <1>3. CASE CarryOver(r)
    <2> DEFINE rs == [run[r] EXCEPT !.idx = @ + 1]
    <2>1. /\ run[r].pc = "step" /\ run[r].idx \in 1 .. Len(Pipeline)
          /\ Pipeline[run[r].idx] \in run[r].carried
      BY <1>1, <1>3, PipelineAssumption DEF CarryOver, AtStep, RunState, PcFits
    <2>2. Set(r, rs) /\ StoreRecord(run[r])
      BY <1>3 DEF CarryOver
    <2>3. /\ rs \in RunState
          /\ rs.pc = "step" /\ rs.cmd = run[r].cmd /\ rs.idx = run[r].idx + 1
          /\ rs.num = run[r].num /\ rs.status = run[r].status /\ rs.carried = run[r].carried
          /\ rs.done = run[r].done
      BY <1>1, <2>1 DEF RunState
    <2> HIDE DEF rs
    <2>4. StoreRecord(rs)
      BY <2>2, <2>3 DEF StoreRecord, BestEffortWrite, WriteRelease
    <2> QED BY <1>1, <1>2, <2>1, <2>2, <2>3, <2>4, StepPasses DEF Lasting
  <1>4. CASE SkipLockStep(r)
    <2>1. PICK t \in {"lock", "unlock"} :
            /\ AtStep(r, t)
            /\ Set(r, [run[r] EXCEPT !.idx = @ + 1, !.done = @ \ {t}])
            /\ StoreRecord([run[r] EXCEPT !.idx = @ + 1, !.done = @ \ {t}])
      BY <1>4 DEF SkipLockStep
    <2> DEFINE rs == [run[r] EXCEPT !.idx = @ + 1, !.done = @ \ {t}]
    <2>2. /\ run[r].pc = "step" /\ run[r].idx \in 1 .. Len(Pipeline)
          /\ Pipeline[run[r].idx] = t
      BY <1>1, <2>1, PipelineAssumption DEF AtStep, RunState, PcFits
    <2>3. Set(r, rs) /\ StoreRecord(rs)
      BY <2>1
    <2>4. /\ rs \in RunState
          /\ rs.pc = "step" /\ rs.cmd = run[r].cmd /\ rs.idx = run[r].idx + 1
          /\ rs.num = run[r].num /\ rs.status = run[r].status /\ rs.carried = run[r].carried
          /\ rs.done = run[r].done \ {t}
      <3>1. run[r].idx + 1 \in Nat /\ run[r].done \ {t} \subseteq Task
        BY <1>1 DEF RunState
      <3> QED BY <1>1, <2>2, <3>1 DEF RunState
    <2> HIDE DEF rs
    <2>5. /\ Lasting(rs.done) = Lasting(run[r].done) /\ Lasting(run[r].done) \subseteq rs.done
          /\ run[r].done \ {"lock", "unlock"} \subseteq rs.done
      BY <2>4 DEF Lasting, ResumeAlwaysReruns
    <2> QED BY <1>1, <1>2, <2>2, <2>3, <2>4, <2>5, StepPasses
  <1>5. CASE RecordStep(r)
    <2> DEFINE t  == Pipeline[run[r].idx]
               rs == [run[r] EXCEPT !.pc = "step", !.idx = @ + 1, !.done = @ \cup {t},
                                    !.held = @ \/ t = "lock"]
    <2>1. run[r].pc = "write" /\ run[r].idx \in 1 .. Len(Pipeline)
      BY <1>1, <1>5 DEF RecordStep, PcFits
    <2>2. t \in Task
      BY <2>1, TaskAtIndex
    <2>3. Set(r, rs) /\ StoreRecord(rs)
      BY <1>5 DEF RecordStep
    <2> HIDE DEF t
    <2>4. /\ rs \in RunState
          /\ rs.pc = "step" /\ rs.cmd = run[r].cmd /\ rs.idx = run[r].idx + 1
          /\ rs.num = run[r].num /\ rs.status = run[r].status /\ rs.carried = run[r].carried
          /\ rs.done = run[r].done \cup {t}
      <3>1. run[r].idx + 1 \in Nat /\ run[r].done \cup {t} \subseteq Task
        BY <1>1, <2>2 DEF RunState
      <3>2. (run[r].held \/ t = "lock") \in BOOLEAN
        OBVIOUS
      <3> QED BY <1>1, <3>1, <3>2 DEF RunState, Pc
    <2> HIDE DEF rs
    <2>5. rs.carried \subseteq Lasting(rs.done) /\ Lasting(run[r].done) \subseteq rs.done
      BY <1>2, <2>4 DEF Lasting
    <2>6. t \in rs.done /\ rs.done \subseteq run[r].done \cup {t}
      BY <2>4
    <2> QED BY <1>1, <2>1, <2>3, <2>4, <2>5, <2>6, StepPasses DEF t
  <1>6. CASE RecordFailure(r)
    <2> DEFINE t  == Pipeline[run[r].idx]
               rs == [run[r] EXCEPT !.pc = "release", !.status = "failed", !.done = @ \ {t}]
    <2>1. (Set(r, rs) \/ Set(r, Idle)) /\ BestEffortWrite(rs) /\ run[r].pc = "failed"
      BY <1>6 DEF RecordFailure
    <2> HIDE DEF t
    <2>2. /\ rs \in RunState /\ rs.pc = "release" /\ rs.num = run[r].num
          /\ rs.status = "failed" /\ rs.done = run[r].done \ {t}
      BY <1>1 DEF RunState, Pc
    <2> HIDE DEF rs
    <2>3. rs.num # 0 => rs.num \in dirs /\ rs.done \cap InRelease \subseteq content[rs.num]
      BY <1>1, <2>1, <2>2 DEF ResultFits, SoFar
    <2>4. \A n \in Number : RecordFits(n)'
      BY <1>1, <2>1, <2>2, <2>3, Stored
    <2> QED BY <2>1, <2>2, <2>4, Bystander DEF Idle
  <1>7. CASE FinishRun(r)
    <2> DEFINE rs == [run[r] EXCEPT !.status = "ok"]
    <2>1. BestEffortWrite(rs) /\ Set(r, Idle) /\ run[r].pc = "step" /\ run[r].idx > Len(Pipeline)
      BY <1>7 DEF FinishRun
    <2>2. rs \in RunState /\ rs.num = run[r].num /\ rs.status = "ok" /\ rs.done = run[r].done
      BY <1>1 DEF RunState
    <2> HIDE DEF rs
    <2>3. \A i \in 1 .. Len(Pipeline) : i < run[r].idx
      BY <1>1, <2>1, PipelineAssumption DEF RunState
    <2>4. Required \subseteq rs.done
      BY <1>1, <2>2, <2>3 DEF ProgressFits, Required
    <2>5. rs.num # 0 => rs.num \in dirs /\ rs.done \cap InRelease \subseteq content[rs.num]
      BY <1>1, <2>1, <2>2 DEF ResultFits, SoFar
    <2>6. \A n \in Number : RecordFits(n)'
      BY <1>1, <2>1, <2>2, <2>4, <2>5, Stored
    <2> QED BY <2>1, <2>6, Bystander DEF Idle
  <1> QED
    BY <1>3, <1>4, <1>5, <1>6, <1>7

LEMMA RecordInit == Init => RecordInv
  <1> SUFFICES ASSUME Init PROVE RecordInv
    OBVIOUS
  <1>1. \A r \in Run : run[r] = Idle
    BY DEF Init
  <1>2. \A r \in Run : CommandFits(run[r])
    BY <1>1 DEF Idle, CommandFits, CopyFits, ProgressFits, ResultFits, SoFar, Executes
  <1>3. \A n \in Number : RecordFits(n)
    BY DEF Init, RecordFits, NoRecord
  <1> QED BY <1>1, <1>2, <1>3 DEF RecordInv, OneAtATime, Idle

LEMMA RecordNext == TypeInv /\ RecordInv /\ Exclusive /\ [Next]_vars => RecordInv'
  <1> SUFFICES ASSUME TypeInv, RecordInv, Exclusive, [Next]_vars PROVE RecordInv'
    OBVIOUS
  <1>1. ASSUME NEW r \in Run,
               \/ \E skip \in SkipLock :
                    StartDeploy(r, skip) \/ StartResume(r, skip) \/ RollbackSelect(r, skip)
               \/ \E force \in UnlockForce : UnlockCheck(r, force)
        PROVE  RecordInv'
    BY <1>1, RecordIssue
  <1>2. ASSUME NEW r \in Run, Step(r)
        PROVE  RecordInv'
    BY <1>2, RecordRecovery, RecordBystander, RecordOutside, RecordTaken, RecordContent,
       RecordRelease, RecordCleanup, RecordStored DEF Step
  <1>3. ASSUME NEW r \in Run, StepFails(r) \/ Crash(r)
        PROVE  RecordInv'
    BY <1>3, RecordFails, RecordBystander
  <1>4. CASE UNCHANGED <<dirs, rec, content, run>>
    <2>1. \A n \in Number : RecordFits(n)'
      BY <1>4, RecordsKept
    <2>2. Incomplete' = Incomplete
      BY <1>4 DEF Incomplete, Recorded
    <2> QED
      BY <1>4, <2>1, <2>2
      DEF RecordInv, OneAtATime, CommandFits, CopyFits, ProgressFits, ResultFits, SoFar, Executes
  <1> QED
    BY <1>1, <1>2, <1>3, <1>4 DEF Next, Quiet, LockAges, vars, target

LEMMA RecordsAreSound == Spec /\ Exclusive => [](TypeInv /\ RecordInv)
  <1>1. Init /\ Exclusive => TypeInv /\ RecordInv /\ Exclusive
    BY TypeInit, RecordInit
  <1>2. TypeInv /\ RecordInv /\ Exclusive /\ [Next]_vars
        => (TypeInv /\ RecordInv /\ Exclusive)'
    BY TypeNext, RecordNext DEF Exclusive
  <1> QED
    BY <1>1, <1>2, PTL DEF Spec

\* The plan stays what it is.
LEMMA ActivatesStays == Activates => Activates'
  BY DEF Activates, Required

LEMMA OncePerTaskStays == OncePerTask => OncePerTask'
  BY DEF OncePerTask

\* SelectRollbackTarget offers what a record calls ok (FinishRun): every task of
\* the plan that builds a release left its result there, and it was put live,
\* however many runs, resumed ones and lost writes of the record it took.
THEOREM RollbackTargetsAreBuilt ==
  Spec /\ Exclusive /\ Activates => []UsableIsBuilt
  <1>1. ASSUME TypeInv, RecordInv, Activates
        PROVE  UsableIsBuilt
    <2> SUFFICES ASSUME NEW n \in Usable
                 PROVE  Planned \subseteq content[n] /\ "activate" \in rec[n].done
      BY DEF UsableIsBuilt
    <2>1. n \in Number /\ Required \subseteq rec[n].done
          /\ rec[n].done \cap InRelease \subseteq content[n]
      BY <1>1, DirsAreNumbers DEF Usable, Recorded, RecordInv, RecordFits
    <2>2. Planned \subseteq Required \cap InRelease
      BY DEF Planned, Required, InRelease
    <2> QED BY <1>1, <2>1, <2>2 DEF Activates
  <1> QED
    BY <1>1, ActivatesStays, RecordsAreSound, PTL

\* What a failed step had to do with the record: no success is taken back.
LEMMA NothingTakenBack ==
  ASSUME TypeInv, RecordInv, OncePerTask, [Next]_vars, NEW n \in Number
  PROVE  rec'[n].status = "none" \/ Lasting(rec[n].done) \subseteq rec'[n].done
  <1> DEFINE Kept == rec'[n].status = "none" \/ Lasting(rec[n].done) \subseteq rec'[n].done
  <1>1. ASSUME NEW stored \in RunState,
               StoreRecord(stored) \/ BestEffortWrite(stored),
               stored.num # 0 =>
                 stored.num \in dirs /\ Lasting(rec[stored.num].done) \subseteq stored.done
        PROVE  Kept
    <2>1. rec' = rec \/ /\ stored.num # 0
                        /\ rec' = [rec EXCEPT ![stored.num] = [status |-> stored.status,
                                                               done |-> stored.done]]
      BY <1>1 DEF StoreRecord, BestEffortWrite, WriteRelease
    <2>2. rec \in [Number -> Record]
      BY DEF TypeInv, TypeOK
    <2> QED BY <1>1, <2>1, <2>2 DEF Lasting
  <1>2. ASSUME UNCHANGED rec
        PROVE  Kept
    BY <1>2 DEF Lasting
  <1>3. ASSUME NEW S, RemoveReleases(S)
        PROVE  Kept
    BY <1>3 DEF RemoveReleases, NoRecord, Lasting
  <1>4. ASSUME NEW r \in Run, Step(r), ~UNCHANGED rec
        PROVE  Kept
    <2>1. CASE CleanupStep(r)
      BY <1>3, <2>1 DEF CleanupStep
    <2>2. CASE CarryOver(r) \/ SkipLockStep(r) \/ RecordStep(r) \/ RecordFailure(r)
               \/ FinishRun(r)
      <3>1. /\ run[r] \in RunState /\ PcFits(run[r]) /\ Executes(run[r])
            /\ ProgressFits(run[r]) /\ ResultFits(run[r])
        BY <2>2, RunType DEF CarryOver, SkipLockStep, RecordStep, RecordFailure, FinishRun,
                             AtStep, RecordInv, CommandFits, Executes
      <3>2. run[r].num # 0 =>
              run[r].num \in dirs /\ Lasting(rec[run[r].num].done) \subseteq run[r].done
        BY <3>1 DEF ResultFits, SoFar
      <3>3. CASE CarryOver(r)
        BY <1>1, <3>1, <3>2, <3>3 DEF CarryOver
      <3>4. CASE SkipLockStep(r)
        <4>1. PICK t \in {"lock", "unlock"} :
                StoreRecord([run[r] EXCEPT !.idx = @ + 1, !.done = @ \ {t}])
          BY <3>4 DEF SkipLockStep
        <4> DEFINE rs == [run[r] EXCEPT !.idx = @ + 1, !.done = @ \ {t}]
        <4>2. rs \in RunState /\ rs.num = run[r].num /\ rs.done = run[r].done \ {t}
          <5>1. run[r].idx + 1 \in Nat /\ run[r].done \ {t} \subseteq Task
            BY <3>1 DEF RunState
          <5> QED BY <3>1, <5>1 DEF RunState
        <4>3. StoreRecord(rs)
          BY <4>1
        <4> HIDE DEF rs
        <4> QED BY <1>1, <3>2, <4>2, <4>3 DEF Lasting, ResumeAlwaysReruns
      <3>5. CASE RecordStep(r)
        <4> DEFINE t  == Pipeline[run[r].idx]
                   rs == [run[r] EXCEPT !.pc = "step", !.idx = @ + 1, !.done = @ \cup {t},
                                        !.held = @ \/ t = "lock"]
        <4>1. t \in Task
          BY <3>1, <3>5, TaskAtIndex DEF RecordStep, PcFits
        <4>2. StoreRecord(rs)
          BY <3>5 DEF RecordStep
        <4> HIDE DEF t
        <4>3. rs \in RunState /\ rs.num = run[r].num /\ rs.done = run[r].done \cup {t}
          <5>1. run[r].idx + 1 \in Nat /\ run[r].done \cup {t} \subseteq Task
            BY <3>1, <4>1 DEF RunState
          <5>2. (run[r].held \/ t = "lock") \in BOOLEAN
            OBVIOUS
          <5> QED BY <3>1, <5>1, <5>2 DEF RunState, Pc
        <4> HIDE DEF rs
        <4> QED BY <1>1, <3>2, <4>2, <4>3
      <3>6. CASE RecordFailure(r)
        <4> DEFINE t  == Pipeline[run[r].idx]
                   rs == [run[r] EXCEPT !.pc = "release", !.status = "failed",
                                        !.done = @ \ {t}]
        <4>1. BestEffortWrite(rs) /\ run[r].pc = "failed"
          BY <3>6 DEF RecordFailure
        <4>2. run[r].idx \in 1 .. Len(Pipeline) /\ t \notin run[r].carried
          BY <3>1, <4>1 DEF PcFits, ProgressFits
        <4>3. t \notin Lasting(run[r].done)
          BY <3>1, <4>2 DEF ProgressFits
        <4> HIDE DEF t
        <4>4. rs \in RunState /\ rs.num = run[r].num /\ rs.done = run[r].done \ {t}
          BY <3>1 DEF RunState, Pc
        <4> HIDE DEF rs
        <4> QED BY <1>1, <3>2, <4>1, <4>3, <4>4 DEF Lasting
      <3>7. CASE FinishRun(r)
        <4> DEFINE rs == [run[r] EXCEPT !.status = "ok"]
        <4>1. BestEffortWrite(rs)
          BY <3>7 DEF FinishRun
        <4>2. rs \in RunState /\ rs.num = run[r].num /\ rs.done = run[r].done
          BY <3>1 DEF RunState
        <4> HIDE DEF rs
        <4> QED BY <1>1, <3>2, <4>1, <4>2
      <3> QED BY <2>2, <3>3, <3>4, <3>5, <3>6, <3>7
    <2> QED
      BY <1>4, <2>1, <2>2
      DEF Step, ResumeCheckLock, ResumeCheckLive, ResumeUnlock, ResumeRun, PlainStep, LockMkdir,
          LockOwner, ReleaseStep, ActivateStep, VerifyStep, UnlockStep, StepRefused,
          ReleaseLockAfterFailure, RollbackActivate, RollbackUnlock, UnlockRemove, target
  <1>5. ASSUME NEW r \in Run, StepFails(r)
        PROVE  Kept
    BY <1>2, <1>3, <1>5 DEF StepFails, HalfDone, target
  <1> HIDE DEF Kept
  <1>6. ASSUME NEW r \in Run,
               \/ \E skip \in SkipLock :
                    StartDeploy(r, skip) \/ StartResume(r, skip) \/ RollbackSelect(r, skip)
               \/ \E force \in UnlockForce : UnlockCheck(r, force)
               \/ Crash(r)
        PROVE  Kept
    <2>1. UNCHANGED rec
      BY <1>6 DEF StartDeploy, StartResume, RollbackSelect, UnlockCheck, Crash, target
    <2> QED BY <1>2, <2>1
  <1>7. ASSUME LockAges \/ Quiet \/ UNCHANGED vars
        PROVE  Kept
    BY <1>2, <1>7 DEF LockAges, Quiet, vars, target
  <1>8. Kept
    BY <1>2, <1>4, <1>5, <1>6, <1>7 DEF Next
  <1> QED BY <1>8 DEF Kept

\* A step is one command's.
LEMMA OthersKeep ==
  ASSUME TypeInv, NEW r \in Run,
         \/ Step(r) \/ StepFails(r) \/ Crash(r)
         \/ \E skip \in SkipLock :
              StartDeploy(r, skip) \/ StartResume(r, skip) \/ RollbackSelect(r, skip)
         \/ \E force \in UnlockForce : UnlockCheck(r, force)
  PROVE  \A s \in Run \ {r} : run'[s] = run[s]
  <1> USE DEF Set, Goto
  <1>1. \E x : run' = [run EXCEPT ![r] = x]
    <2>1. CASE \/ ResumeCheckLock(r) \/ ResumeCheckLive(r) \/ ResumeUnlock(r) \/ ResumeRun(r)
      BY <2>1 DEF ResumeCheckLock, ResumeCheckLive, ResumeUnlock, ResumeRun
    <2>2. CASE CarryOver(r) \/ SkipLockStep(r) \/ PlainStep(r)
      BY <2>2 DEF CarryOver, SkipLockStep, PlainStep
    <2>3. CASE LockMkdir(r) \/ LockOwner(r)
      BY <2>3 DEF LockMkdir, LockOwner, LockRefused
    <2>4. CASE ReleaseStep(r) \/ ActivateStep(r) \/ VerifyStep(r) \/ CleanupStep(r)
      BY <2>4 DEF ReleaseStep, ActivateStep, VerifyStep, CleanupStep
    <2>5. CASE UnlockStep(r) \/ StepRefused(r) \/ RecordStep(r)
      BY <2>5 DEF UnlockStep, StepRefused, RecordStep
    <2>6. CASE RecordFailure(r) \/ ReleaseLockAfterFailure(r) \/ FinishRun(r)
      BY <2>6 DEF RecordFailure, ReleaseLockAfterFailure, FinishRun
    <2>7. CASE RollbackActivate(r) \/ RollbackUnlock(r) \/ UnlockRemove(r)
      BY <2>7 DEF RollbackActivate, RollbackUnlock, UnlockRemove
    <2>8. CASE StepFails(r) \/ Crash(r)
      BY <2>8 DEF StepFails, Crash
    <2>9. CASE \/ \E skip \in SkipLock :
                    StartDeploy(r, skip) \/ StartResume(r, skip) \/ RollbackSelect(r, skip)
               \/ \E force \in UnlockForce : UnlockCheck(r, force)
      BY <2>9 DEF StartDeploy, StartResume, RollbackSelect, UnlockCheck
    <2> QED BY <2>1, <2>2, <2>3, <2>4, <2>5, <2>6, <2>7, <2>8, <2>9 DEF Step
  <1> QED BY <1>1 DEF TypeInv, TypeOK

\* A command writes after a step it executed.
LEMMA WritesWhatIsDue ==
  ASSUME TypeInv, [Next]_vars, NEW r \in Run, run[r].pc = "step", run'[r].pc = "write"
  PROVE  run[r].idx <= Len(Pipeline) /\ Pipeline[run[r].idx] \notin run[r].carried
  <1> DEFINE Goal == run[r].idx <= Len(Pipeline) /\ Pipeline[run[r].idx] \notin run[r].carried
  <1>1. ASSUME NEW t, Due(r, t)
        PROVE  Goal
    BY <1>1 DEF Due, AtStep
  <1>2. ASSUME NEW rs, Set(r, rs), rs.pc # "write"
        PROVE  FALSE
    BY <1>2, RunIs
  <1>3. run[r] \in RunState /\ ~Set(r, Idle)
    BY <1>2, RunType DEF Idle
  <1> HIDE DEF Goal
  <1>4. ASSUME Step(r)
        PROVE  Goal
    <2>1. CASE CarryOver(r)
      <3> DEFINE rs == [run[r] EXCEPT !.idx = @ + 1]
      <3>1. Set(r, rs) /\ rs.pc = "step"
        BY <1>3, <2>1 DEF CarryOver, RunState
      <3> HIDE DEF rs
      <3> QED BY <1>2, <3>1
    <2>2. CASE SkipLockStep(r)
      <3>1. PICK t \in {"lock", "unlock"} :
              Set(r, [run[r] EXCEPT !.idx = @ + 1, !.done = @ \ {t}])
        BY <2>2 DEF SkipLockStep
      <3> DEFINE rs == [run[r] EXCEPT !.idx = @ + 1, !.done = @ \ {t}]
      <3>2. Set(r, rs) /\ rs.pc = "step"
        BY <1>3, <3>1 DEF RunState
      <3> HIDE DEF rs
      <3> QED BY <1>2, <3>2
    <2>3. CASE \/ PlainStep(r) \/ LockMkdir(r) \/ ReleaseStep(r) \/ ActivateStep(r)
               \/ VerifyStep(r) \/ CleanupStep(r) \/ UnlockStep(r) \/ StepRefused(r)
      BY <1>1, <2>3 DEF PlainStep, LockMkdir, ReleaseStep, ActivateStep, VerifyStep,
                        CleanupStep, UnlockStep, StepRefused
    <2> QED
      BY <1>3, <1>4, <2>1, <2>2, <2>3
      DEF Step, ResumeCheckLock, ResumeCheckLive, ResumeUnlock, ResumeRun, LockOwner, RecordStep,
          RecordFailure, ReleaseLockAfterFailure, FinishRun, RollbackActivate, RollbackUnlock,
          UnlockRemove
  <1>5. ASSUME StepFails(r) \/ Crash(r)
        PROVE  Goal
    BY <1>1, <1>3, <1>5 DEF StepFails, Crash
  <1>6. ASSUME NEW s \in Run \ {r},
               \/ Step(s) \/ StepFails(s) \/ Crash(s)
               \/ \E skip \in SkipLock :
                    StartDeploy(s, skip) \/ StartResume(s, skip) \/ RollbackSelect(s, skip)
               \/ \E force \in UnlockForce : UnlockCheck(s, force)
        PROVE  FALSE
    BY <1>6, OthersKeep
  <1>7. ASSUME \/ \E skip \in SkipLock :
                    StartDeploy(r, skip) \/ StartResume(r, skip) \/ RollbackSelect(r, skip)
               \/ \E force \in UnlockForce : UnlockCheck(r, force)
        PROVE  FALSE
    BY <1>7 DEF StartDeploy, StartResume, RollbackSelect, UnlockCheck, Issue
  <1>8. run' # run
    OBVIOUS
  <1>9. PICK s \in Run :
          \/ Step(s) \/ StepFails(s) \/ Crash(s)
          \/ \E skip \in SkipLock :
               StartDeploy(s, skip) \/ StartResume(s, skip) \/ RollbackSelect(s, skip)
          \/ \E force \in UnlockForce : UnlockCheck(s, force)
    BY <1>8 DEF Next, LockAges, Quiet, vars, target
  <1>10. s = r
    BY <1>6, <1>9
  <1>11. Goal
    BY <1>4, <1>5, <1>7, <1>9, <1>10
  <1> QED BY <1>11 DEF Goal

\* carryOver: what a release's record says succeeded, it says for good, however
\* often its runs fail and are resumed, and whatever writes are lost.
THEOREM SuccessIsKept == Spec /\ Exclusive /\ OncePerTask => OkNeverLost
  <1>1. TypeInv /\ RecordInv /\ OncePerTask /\ [Next]_vars
        => [\A n \in Recorded : n \in Recorded' =>
              rec[n].done \ ResumeAlwaysReruns \subseteq rec'[n].done]_vars
    <2> SUFFICES ASSUME TypeInv, RecordInv, OncePerTask, [Next]_vars,
                        NEW n \in Recorded, n \in Recorded'
                 PROVE  rec[n].done \ ResumeAlwaysReruns \subseteq rec'[n].done
      OBVIOUS
    <2>1. n \in Number
      BY DirsAreNumbers DEF Recorded
    <2> QED BY <2>1, NothingTakenBack DEF Recorded, Lasting
  <1> QED
    BY <1>1, OncePerTaskStays, RecordsAreSound, PTL DEF Spec, OkNeverLost

\* ResumeRun, CarryOver: a resumed run does not execute again what the record
\* says succeeded, migrations above all.
THEOREM NothingRunsTwice == Spec /\ Exclusive /\ OncePerTask => NeverRepeated
  <1>1. TypeInv /\ RecordInv /\ OncePerTask /\ [Next]_vars
        => [\A r \in Run :
              run[r].pc = "step" /\ run'[r].pc = "write" /\ run[r].num # 0 =>
                Pipeline[run[r].idx] \notin rec[run[r].num].done \ ResumeAlwaysReruns]_vars
    <2> SUFFICES ASSUME TypeInv, RecordInv, OncePerTask, [Next]_vars, NEW r \in Run,
                        run[r].pc = "step", run'[r].pc = "write", run[r].num # 0
                 PROVE  Pipeline[run[r].idx] \notin Lasting(rec[run[r].num].done)
      BY DEF Lasting
    <2>1. /\ run[r].idx >= 1 /\ run[r].idx \in Nat
          /\ ProgressFits(run[r]) /\ ResultFits(run[r])
      BY AtStepFits DEF RunState
    <2>2. run[r].idx <= Len(Pipeline) /\ Pipeline[run[r].idx] \notin run[r].carried
      BY WritesWhatIsDue
    <2>3. run[r].idx \in 1 .. Len(Pipeline)
      BY <2>1, <2>2, PipelineAssumption
    <2>4. Lasting(rec[run[r].num].done) \subseteq Lasting(run[r].done)
      BY <2>1 DEF ResultFits, SoFar, Executes, Lasting
    <2> QED BY <2>1, <2>2, <2>3, <2>4 DEF ProgressFits, Executes
  <1> QED
    BY <1>1, OncePerTaskStays, RecordsAreSound, PTL DEF Spec, NeverRepeated

-----------------------------------------------------------------------------
(* What the site serves. *)

\* The plan builds a release before it puts it live, and prunes after that.
PlanInOrder ==
  /\ \A i, j \in 1 .. Len(Pipeline) :
       Pipeline[i] \in InRelease /\ Pipeline[j] = "activate" => i < j
  /\ Before("release", "activate")
  /\ Before("activate", "cleanup")

\* A rollback may leave a release live that a resumed deploy then prunes.
NoRollbacks == "rollback" \notin Commands

\* An unfinished release whose activation is recorded is not newer than live.
LiveFits ==
  /\ live \in dirs \cup {0}
  /\ LiveIsBuilt
  /\ \A n \in Incomplete : "activate" \in rec[n].done => n <= live

\* The live release is not a recorded one newer than n.
NotPassed(n) == live > n => live \notin Recorded

TurnFits(rs) ==
  /\ rs.cmd # "rollback" /\ rs.pc \notin {"mkdir", "activate"}
  /\ rs.pc \in {"resumeLock", "resumeLive", "resumeUnlock", "resumeRun"} =>
       \A n \in Incomplete : n <= rs.num
  /\ rs.pc \in {"resumeUnlock", "resumeRun"} => NotPassed(rs.num)
  /\ Executes(rs) =>
       IF rs.num = 0
         THEN SoFar(rs) \cap {"release", "activate"} = {}
         ELSE /\ \A n \in Incomplete : n <= rs.num
              /\ NotPassed(rs.num)
              /\ "activate" \in SoFar(rs) => rs.num <= live

LiveInv == LiveFits /\ \A r \in Run : TurnFits(run[r])

LEMMA LiveCommit ==
  ASSUME TypeInv, LiveInv, NEW r \in Run, NEW rs, Set(r, rs),
         \A s \in Run \ {r} : run[s].pc = "idle",
         LiveFits', TurnFits(run[r])'
  PROVE  LiveInv'
  <1>1. \A s \in Run \ {r} : run'[s] = run[s]
    BY DEF Set, TypeInv, TypeOK
  <1>2. ASSUME NEW s \in Run \ {r}
        PROVE  TurnFits(run[s])'
    BY <1>1, <1>2 DEF LiveInv, TurnFits, Executes
  <1> QED
    BY <1>2 DEF LiveInv

LEMMA LiveKept ==
  ASSUME LiveInv, UNCHANGED <<dirs, rec, live, content>>
  PROVE  LiveFits' /\ Incomplete' = Incomplete /\ Recorded' = Recorded
  BY DEF LiveInv, LiveFits, LiveIsBuilt, Incomplete, Recorded

\* A command that does not execute the plan and holds no copy of a record.
LEMMA LiveBystander ==
  ASSUME TypeInv, RecordInv, LiveInv, NEW r \in Run, NEW rs, Set(r, rs),
         run[r].pc # "idle" \/ \A s \in Run : run[s].pc = "idle",
         rs.pc \in {"idle", "release", "deferred", "unlock"}, rs.cmd # "rollback",
         LiveFits'
  PROVE  LiveInv'
  <1>1. run'[r] = rs
    BY RunIs
  <1>2. TurnFits(run[r])'
    BY <1>1 DEF TurnFits, Executes
  <1> QED
    BY <1>2, OthersIdle, LiveCommit

LEMMA LiveIssue ==
  ASSUME TypeInv, RecordInv, LiveInv, Exclusive, NoRollbacks, NEW r \in Run,
         \/ \E skip \in SkipLock :
              StartDeploy(r, skip) \/ StartResume(r, skip) \/ RollbackSelect(r, skip)
         \/ \E force \in UnlockForce : UnlockCheck(r, force)
  PROVE  LiveInv'
  <1>1. (\A s \in Run : run[s].pc = "idle") /\ UNCHANGED target
    BY DEF Exclusive, StartDeploy, StartResume, RollbackSelect, UnlockCheck, Issue, MayIssue
  <1>2. LiveFits' /\ Incomplete' = Incomplete /\ Recorded' = Recorded
    BY <1>1, LiveKept DEF target
  <1>3. ASSUME NEW skip \in SkipLock, StartDeploy(r, skip)
        PROVE  LiveInv'
    <2> DEFINE rs == [Idle EXCEPT !.pc = "step", !.cmd = "deploy", !.idx = 1,
                                  !.status = "running", !.nolock = skip]
    <2>1. Set(r, rs) /\ run'[r] = rs
      BY <1>3, RunIs DEF StartDeploy
    <2>2. TurnFits(run[r])'
      BY <2>1 DEF Idle, TurnFits, Executes, SoFar
    <2> HIDE DEF rs
    <2> QED BY <1>1, <1>2, <2>1, <2>2, LiveCommit
  <1>4. ASSUME NEW skip \in SkipLock, StartResume(r, skip)
        PROVE  LiveInv'
    <2>1. PICK n \in IncompleteRelease :
            Set(r, [Idle EXCEPT !.pc = "resumeLock", !.cmd = "deploy", !.num = n,
                                !.status = rec[n].status, !.done = rec[n].done,
                                !.nolock = skip])
      BY <1>4 DEF StartResume
    <2> DEFINE rs == [Idle EXCEPT !.pc = "resumeLock", !.cmd = "deploy", !.num = n,
                                  !.status = rec[n].status, !.done = rec[n].done,
                                  !.nolock = skip]
    <2>2. Set(r, rs) /\ run'[r] = rs
      BY <2>1, RunIs
    <2>3. rs.pc = "resumeLock" /\ rs.cmd = "deploy" /\ rs.num = n
      BY DEF Idle
    <2> HIDE DEF rs
    <2>4. TurnFits(run[r])'
      BY <1>2, <2>2, <2>3 DEF TurnFits, Executes, IncompleteRelease
    <2> QED BY <1>1, <1>2, <2>2, <2>4, LiveCommit
  <1>5. ASSUME NEW force \in UnlockForce, UnlockCheck(r, force)
        PROVE  LiveInv'
    <2> DEFINE rs == [Idle EXCEPT !.pc = "unlock", !.cmd = "unlock"]
    <2>1. Set(r, rs) /\ rs.pc = "unlock" /\ rs.cmd = "unlock"
      BY <1>5 DEF UnlockCheck, Idle
    <2> HIDE DEF rs
    <2> QED BY <1>1, <1>2, <2>1, LiveBystander
  <1> QED BY <1>3, <1>4, <1>5 DEF RollbackSelect, Issue, NoRollbacks

LEMMA LiveRecovery ==
  ASSUME TypeInv, RecordInv, LiveInv, NEW r \in Run,
         ResumeCheckLock(r) \/ ResumeCheckLive(r) \/ ResumeUnlock(r) \/ ResumeRun(r)
  PROVE  LiveInv'
  <1>1. /\ run[r] \in RunState /\ run[r].pc # "idle"
        /\ CommandFits(run[r]) /\ TurnFits(run[r])
    BY RunType DEF ResumeCheckLock, ResumeCheckLive, ResumeUnlock, ResumeRun, RecordInv, LiveInv
  <1>2. UNCHANGED <<dirs, rec, live, content>>
    BY DEF ResumeCheckLock, ResumeCheckLive, ResumeUnlock, ResumeRun, target
  <1>3. LiveFits' /\ Incomplete' = Incomplete /\ Recorded' = Recorded
    BY <1>2, LiveKept
  <1>4. /\ run[r].pc \in {"resumeLock", "resumeLive", "resumeUnlock", "resumeRun"}
        /\ run[r].cmd = "deploy" /\ run[r].num \in Incomplete
        /\ run[r].done = rec[run[r].num].done
        /\ \A n \in Incomplete : n <= run[r].num
    BY <1>1 DEF CommandFits, CopyFits, TurnFits,
                ResumeCheckLock, ResumeCheckLive, ResumeUnlock, ResumeRun
  <1>5. ASSUME NEW rs, Set(r, rs), TurnFits(run[r])'
        PROVE  LiveInv'
    BY <1>1, <1>3, <1>5, OthersIdle, LiveCommit
  <1>6. CASE Set(r, Idle)
    BY <1>1, <1>3, <1>6, LiveBystander DEF Idle
  <1>7. ASSUME NEW l \in {"resumeLive", "resumeUnlock", "resumeRun"}, Goto(r, l),
               l # "resumeLive" => NotPassed(run[r].num)
        PROVE  LiveInv'
    <2> DEFINE rs == [run[r] EXCEPT !.pc = l]
    <2>1. Set(r, rs) /\ run'[r] = rs
      BY <1>7, RunIs DEF Goto
    <2>2. run'[r].pc = l /\ run'[r].cmd = "deploy" /\ run'[r].num = run[r].num
      BY <1>1, <1>4, <2>1 DEF RunState
    <2>3. TurnFits(run[r])'
      BY <1>2, <1>3, <1>4, <1>7, <2>2 DEF TurnFits, Executes, NotPassed
    <2> HIDE DEF rs
    <2> QED BY <1>5, <2>1, <2>3
  <1>8. CASE ResumeCheckLive(r) /\ Goto(r, "resumeUnlock")
    <2>1. CASE live \in Recorded /\ run[r].num < live
      BY <1>6, <1>8, <2>1 DEF ResumeCheckLive
    <2>2. CASE ~(live \in Recorded /\ run[r].num < live)
      <3>1. NotPassed(run[r].num)
        BY <2>2 DEF NotPassed
      <3> QED BY <1>7, <1>8, <3>1
    <2> QED BY <2>1, <2>2
  <1>9. CASE ResumeUnlock(r)
    BY <1>1, <1>7, <1>9 DEF ResumeUnlock, TurnFits
  <1>10. CASE ResumeRun(r)
    <2> DEFINE kept == rec[run[r].num].done \ ResumeAlwaysReruns
               rs == [run[r] EXCEPT !.pc = "step", !.idx = 1, !.carried = kept]
    <2>1. Set(r, rs) /\ run'[r] = rs
      BY <1>10, RunIs DEF ResumeRun
    <2>2. /\ run'[r].pc = "step" /\ run'[r].cmd = "deploy"
          /\ run'[r].num = run[r].num /\ run'[r].done = run[r].done
      BY <1>1, <1>4, <2>1 DEF RunState
    <2>3. run[r].num # 0
      BY <1>4, DirsAreNumbers DEF Incomplete, Recorded
    <2>4. NotPassed(run[r].num)
      BY <1>1, <1>10 DEF TurnFits, ResumeRun
    <2>5. "activate" \in run[r].done => run[r].num <= live
      BY <1>4 DEF LiveInv, LiveFits
    <2>6. TurnFits(run[r])'
      BY <1>2, <1>3, <1>4, <2>2, <2>3, <2>4, <2>5 DEF TurnFits, Executes, SoFar, NotPassed
    <2> HIDE DEF rs
    <2> QED BY <1>5, <2>1, <2>6
  <1> QED
    BY <1>6, <1>7, <1>8, <1>9, <1>10 DEF ResumeCheckLock, ResumeCheckLive

LEMMA LiveBystanders ==
  ASSUME TypeInv, RecordInv, LiveInv, NEW r \in Run,
         \/ ReleaseLockAfterFailure(r) \/ RollbackActivate(r) \/ RollbackUnlock(r)
         \/ UnlockRemove(r) \/ Crash(r)
  PROVE  LiveInv'
  <1>1. run[r].pc # "idle" /\ TurnFits(run[r])
    BY DEF ReleaseLockAfterFailure, RollbackActivate, RollbackUnlock, UnlockRemove, Crash, LiveInv
  <1>2. ~RollbackActivate(r)
    BY <1>1 DEF TurnFits, RollbackActivate
  <1>3. Set(r, Idle) /\ UNCHANGED <<dirs, rec, live, content>>
    BY <1>2 DEF ReleaseLockAfterFailure, RollbackUnlock, UnlockRemove, Crash, target
  <1> QED
    BY <1>1, <1>3, LiveKept, LiveBystander DEF Idle

\* A step that neither numbers the release nor puts it live.
LEMMA LiveOutside ==
  ASSUME TypeInv, RecordInv, LiveInv, NEW r \in Run, run[r].pc \in {"step", "owner"},
         NEW l \in {"write", "failed", "owner"}, Goto(r, l),
         UNCHANGED <<dirs, rec, live>>, LiveFits',
         l = "write" => Pipeline[run[r].idx] \notin {"release", "activate"}
  PROVE  LiveInv'
  <1> DEFINE rs == [run[r] EXCEPT !.pc = l]
  <1>1. run[r] \in RunState /\ TurnFits(run[r]) /\ Executes(run[r])
    BY RunType DEF LiveInv, TurnFits, Executes
  <1>2. Set(r, rs) /\ run'[r] = rs
    BY RunIs DEF Goto
  <1>3. /\ rs.pc = l /\ rs.cmd = run[r].cmd /\ rs.idx = run[r].idx
        /\ rs.done = run[r].done /\ rs.num = run[r].num
    BY <1>1 DEF RunState
  <1>4. Incomplete' = Incomplete /\ Recorded' = Recorded
    BY DEF Incomplete, Recorded
  <1> HIDE DEF rs
  <1>5. TurnFits(run[r])'
    BY <1>1, <1>2, <1>3, <1>4 DEF TurnFits, Executes, SoFar, NotPassed
  <1> QED
    BY <1>2, <1>5, OthersIdle, LiveCommit

LEMMA LiveTaken ==
  ASSUME TypeInv, RecordInv, LiveInv, NEW r \in Run,
         LockMkdir(r) \/ LockOwner(r) \/ VerifyStep(r) \/ UnlockStep(r) \/ StepRefused(r)
  PROVE  LiveInv'
  <1>1. LiveFits' /\ UNCHANGED <<dirs, rec, live>>
    BY LiveKept DEF LockMkdir, LockOwner, VerifyStep, UnlockStep, StepRefused, target
  <1>2. run[r] \in RunState /\ TurnFits(run[r]) /\ CommandFits(run[r])
    BY RunType DEF LiveInv, RecordInv
  <1>3. run[r].pc \in {"step", "owner"}
    BY <1>2 DEF TurnFits, LockMkdir, LockOwner, VerifyStep, UnlockStep, StepRefused, Due, AtStep
  <1>4. run[r].cmd # "rollback"
    BY <1>2 DEF TurnFits
  <1>5. PICK l \in {"write", "failed", "owner"} : Goto(r, l)
    BY <1>4 DEF LockMkdir, LockOwner, VerifyStep, UnlockStep, StepRefused, LockRefused, Goto
  <1>6. run[r].pc = "owner" => Pipeline[run[r].idx] = "lock"
    BY <1>2, <1>4 DEF CommandFits, ProgressFits, Executes
  <1>7. CASE LockMkdir(r)
    <2>1. Goto(r, "owner") \/ Goto(r, "failed")
      BY <1>4, <1>7 DEF LockMkdir, LockRefused, Goto
    <2> QED BY <1>1, <1>3, <2>1, LiveOutside
  <1>8. CASE StepRefused(r)
    BY <1>1, <1>3, <1>8, LiveOutside DEF StepRefused
  <1>9. CASE LockOwner(r)
    BY <1>1, <1>3, <1>5, <1>6, <1>9, LiveOutside DEF LockOwner
  <1>10. CASE VerifyStep(r) \/ UnlockStep(r)
    BY <1>1, <1>3, <1>10, LiveOutside DEF VerifyStep, UnlockStep, Due, AtStep
  <1> QED BY <1>7, <1>8, <1>9, <1>10

LEMMA LiveContent ==
  ASSUME TypeInv, RecordInv, LiveInv, NEW r \in Run, PlainStep(r)
  PROVE  LiveInv'
  <1>1. PICK t \in {"check", "migrate", "record"} \cup InRelease :
          /\ AtStep(r, t)
          /\ t \in InRelease => run[r].num \in dirs
          /\ content' = IF t \in InRelease
                          THEN [content EXCEPT ![run[r].num] = @ \cup {t}]
                          ELSE content
    BY DEF PlainStep, Due
  <1>2. Goto(r, "write") /\ UNCHANGED <<dirs, rec, live>>
    BY DEF PlainStep
  <1>3. \A n \in Number : content[n] \subseteq content'[n]
    BY <1>1 DEF TypeInv, TypeOK
  <1>4. LiveFits'
    BY <1>2, <1>3, DirsAreNumbers DEF LiveInv, LiveFits, LiveIsBuilt, Incomplete, Recorded
  <1> QED
    BY <1>1, <1>2, <1>4, LiveOutside DEF AtStep, InRelease

\* What precedes the next step in the plan is done.
LEMMA DoneBefore ==
  ASSUME TypeInv, RecordInv, NEW r \in Run, NEW u, AtStep(r, u),
         NEW i \in 1 .. Len(Pipeline), Pipeline[i] \notin {"lock", "unlock"},
         NEW j \in Int, j = run[r].idx, i < j
  PROVE  Pipeline[i] \in run[r].done
  BY AtStepFits DEF AtStep, ProgressFits, Executes

\* The release that is put live was numbered and built.
LEMMA ReadyToActivate ==
  ASSUME TypeInv, RecordInv, LiveInv, PlanInOrder, NEW r \in Run, AtStep(r, "activate")
  PROVE  /\ run[r].num # 0 /\ run[r].num \in dirs
         /\ Planned \subseteq content[run[r].num]
  <1>1. /\ run[r].pc = "step" /\ run[r].idx \in 1 .. Len(Pipeline)
        /\ Pipeline[run[r].idx] = "activate"
    BY AtStepFits, PipelineAssumption DEF AtStep, RunState
  <1>2. "release" \in run[r].done
    <2>1. PICK i \in 1 .. Len(Pipeline) : i < run[r].idx /\ Pipeline[i] = "release"
      BY <1>1 DEF PlanInOrder, Before
    <2> QED BY <1>1, <2>1, DoneBefore
  <1>3. TurnFits(run[r]) /\ Executes(run[r]) /\ ResultFits(run[r])
    BY <1>1, AtStepFits DEF LiveInv, Executes
  <1>4. run[r].num # 0
    BY <1>1, <1>2, <1>3 DEF TurnFits, SoFar
  <1>5. Planned \subseteq run[r].done \cap InRelease
    <2> SUFFICES ASSUME NEW i \in 1 .. Len(Pipeline), Pipeline[i] \in InRelease
                 PROVE  Pipeline[i] \in run[r].done
      BY DEF Planned
    <2>1. i < run[r].idx
      BY <1>1 DEF PlanInOrder
    <2> QED BY <1>1, <2>1, DoneBefore DEF InRelease
  <1> QED
    BY <1>1, <1>3, <1>4, <1>5 DEF ResultFits, SoFar

LEMMA LiveActivates ==
  ASSUME TypeInv, RecordInv, LiveInv, PlanInOrder, NEW r \in Run, AtStep(r, "activate"),
         NEW l \in {"write", "failed"}, Goto(r, l), live' = run[r].num,
         UNCHANGED <<dirs, rec, content>>
  PROVE  LiveInv'
  <1> DEFINE rs == [run[r] EXCEPT !.pc = l]
  <1>1. /\ run[r] \in RunState /\ TurnFits(run[r]) /\ Executes(run[r])
        /\ run[r].pc = "step" /\ Pipeline[run[r].idx] = "activate"
    BY RunType DEF LiveInv, Executes, AtStep
  <1>2. Set(r, rs) /\ run'[r] = rs
    BY RunIs DEF Goto
  <1>3. /\ rs.pc = l /\ rs.cmd = run[r].cmd /\ rs.idx = run[r].idx
        /\ rs.done = run[r].done /\ rs.num = run[r].num
    BY <1>1 DEF RunState
  <1>4. Incomplete' = Incomplete /\ Recorded' = Recorded
    BY DEF Incomplete, Recorded
  <1>5. \A n \in Incomplete : n <= run[r].num
    BY <1>1, ReadyToActivate DEF TurnFits
  <1>6. LiveFits'
    BY <1>4, <1>5, ReadyToActivate DEF LiveFits, LiveIsBuilt
  <1>7. ~(run[r].num > run[r].num) /\ run[r].num <= run[r].num
    BY <1>1, ConstantsAssumption DEF RunState
  <1> HIDE DEF rs
  <1>8. TurnFits(run[r])'
    BY <1>1, <1>2, <1>3, <1>4, <1>5, <1>7, ReadyToActivate DEF TurnFits, Executes, NotPassed
  <1> QED
    BY <1>1, <1>2, <1>6, <1>8, OthersIdle, LiveCommit

LEMMA LiveRelease ==
  ASSUME TypeInv, RecordInv, LiveInv, NEW r \in Run, ReleaseStep(r)
  PROVE  LiveInv'
  <1> DEFINE N  == ReleaseNumber(r)
             rs == [run[r] EXCEPT !.pc = "write", !.num = N]
  <1>1. /\ AtStep(r, "release") /\ N \in Number /\ Set(r, rs)
        /\ N \in dirs => N \in Recorded
        /\ dirs' = dirs \cup {N} /\ UNCHANGED <<rec, content, live>>
    BY DEF ReleaseStep, Due
  <1>2. run[r].pc = "step" /\ Pipeline[run[r].idx] = "release" /\ N # 0
    BY <1>1, ConstantsAssumption DEF AtStep, Number
  <1>3. run'[r] = rs
    BY <1>1, RunIs
  <1>4. /\ rs.pc = "write" /\ rs.cmd = run[r].cmd /\ rs.idx = run[r].idx
        /\ rs.done = run[r].done /\ rs.num = N
    BY RunType DEF RunState, Pc
  <1>5. Recorded' = Recorded /\ Incomplete' = Incomplete
    <2>1. N \notin dirs => rec[N].status = "none"
      BY <1>1 DEF RecordInv, RecordFits, NoRecord
    <2> HIDE DEF N
    <2> QED BY <1>1, <2>1 DEF Recorded, Incomplete
  <1>6. LiveFits'
    BY <1>1, <1>5 DEF LiveInv, LiveFits, LiveIsBuilt
  <1>7. TurnFits(run[r]) /\ Executes(run[r]) /\ live \in dirs \cup {0} /\ dirs \subseteq Number
    BY <1>2 DEF LiveInv, LiveFits, Executes, TypeInv, TypeOK
  <1>8. /\ \A n \in Incomplete : n <= N
        /\ live > N => live \notin Recorded
        /\ "activate" \in run[r].done => N <= live
    <2>1. CASE run[r].num = 0
      <3>1. N = NextReleaseNumber
        BY <2>1 DEF ReleaseNumber
      <3>2. \A d \in dirs : d < N
        BY <3>1, NextNumber
      <3>3. \A d \in dirs : d \in Int
        BY <1>7, ConstantsAssumption DEF Number
      <3>4. N \in Int
        BY <1>1, ConstantsAssumption DEF Number
      <3>5. "activate" \notin run[r].done
        BY <1>2, <1>7, <2>1 DEF TurnFits, SoFar
      <3>6. Incomplete \subseteq dirs /\ Recorded \subseteq dirs
        BY DEF Incomplete, Recorded
      <3> HIDE DEF N
      <3> QED BY <3>2, <3>3, <3>4, <3>5, <3>6
    <2>2. CASE run[r].num # 0
      <3>1. N = run[r].num
        BY <2>2 DEF ReleaseNumber
      <3> HIDE DEF N
      <3> QED BY <1>2, <1>7, <2>2, <3>1 DEF TurnFits, SoFar, NotPassed
    <2> QED BY <2>1, <2>2
  <1> HIDE DEF N, rs
  <1>9. TurnFits(run[r])'
    BY <1>1, <1>2, <1>3, <1>4, <1>5, <1>7, <1>8 DEF TurnFits, Executes, SoFar, NotPassed
  <1> QED
    BY <1>1, <1>2, <1>6, <1>9, OthersIdle, LiveCommit

LEMMA LivePruned ==
  ASSUME TypeInv, RecordInv, LiveInv, PlanInOrder, NEW r \in Run, AtStep(r, "cleanup"),
         NEW l \in {"write", "failed"}, Goto(r, l),
         NEW S, S \subseteq Pruned(run[r].num), RemoveReleases(S), UNCHANGED live
  PROVE  LiveInv'
  <1> DEFINE rs == [run[r] EXCEPT !.pc = l]
  <1>1. /\ run[r] \in RunState /\ TurnFits(run[r]) /\ Executes(run[r])
        /\ run[r].pc = "step" /\ Pipeline[run[r].idx] = "cleanup"
        /\ run[r].idx \in 1 .. Len(Pipeline)
    BY RunType, AtStepFits, PipelineAssumption DEF LiveInv, Executes, AtStep, RunState
  <1>2. Set(r, rs) /\ run'[r] = rs
    BY RunIs DEF Goto
  <1>3. /\ rs.pc = l /\ rs.cmd = run[r].cmd /\ rs.idx = run[r].idx
        /\ rs.done = run[r].done /\ rs.num = run[r].num
    BY <1>1 DEF RunState
  <1>4. "activate" \in run[r].done
    <2>1. PICK i \in 1 .. Len(Pipeline) : i < run[r].idx /\ Pipeline[i] = "activate"
      BY <1>1 DEF PlanInOrder, Before
    <2> QED BY <1>1, <2>1, DoneBefore
  <1>5. run[r].num # 0 /\ run[r].num <= live /\ NotPassed(run[r].num)
    BY <1>1, <1>4 DEF TurnFits, SoFar
  <1>6. live \notin S
    <2>1. live \in Int /\ run[r].num \in Int
      BY <1>1, ConstantsAssumption DEF RunState, TypeInv, TypeOK
    <2>2. live = run[r].num \/ live \notin Recorded
      BY <1>5, <2>1 DEF NotPassed
    <2> QED BY <2>2 DEF Pruned, PruneWindow
  <1>7. Recorded' \subseteq Recorded /\ Incomplete' \subseteq Incomplete
    BY DirsAreNumbers DEF RemoveReleases, Recorded, Incomplete, NoRecord
  <1>8. LiveFits'
    <2>1. live \in dirs' \cup {0}
      BY <1>6 DEF LiveInv, LiveFits, RemoveReleases
    <2>2. LiveIsBuilt'
      <3> SUFFICES ASSUME live \notin Foreign \cup {0}
                   PROVE  live \in dirs' /\ Planned \subseteq content'[live]
        BY DEF LiveIsBuilt
      <3>1. live \in dirs /\ live \in Number /\ Planned \subseteq content[live]
        BY DirsAreNumbers DEF LiveInv, LiveFits, LiveIsBuilt
      <3> QED BY <1>6, <3>1 DEF RemoveReleases
    <2>3. \A n \in Incomplete' : "activate" \in rec'[n].done => n <= live
      BY <1>7, DirsAreNumbers DEF LiveInv, LiveFits, RemoveReleases, Incomplete, Recorded, NoRecord
    <2> QED BY <2>1, <2>2, <2>3 DEF LiveFits
  <1> HIDE DEF rs
  <1>9. TurnFits(run[r])'
    BY <1>1, <1>2, <1>3, <1>5, <1>7 DEF TurnFits, Executes, SoFar, NotPassed
  <1> QED
    BY <1>1, <1>2, <1>8, <1>9, OthersIdle, LiveCommit

LEMMA LiveFails ==
  ASSUME TypeInv, RecordInv, LiveInv, PlanInOrder, NEW r \in Run, StepFails(r)
  PROVE  LiveInv'
  <1>1. PICK t \in Task : AtStep(r, t) /\ HalfDone(r, t)
    BY DEF StepFails, Due
  <1>2. Goto(r, "failed") /\ run[r].pc = "step"
    BY <1>1 DEF StepFails, AtStep
  <1>3. CASE UNCHANGED <<dirs, rec, live, content>>
    BY <1>2, <1>3, LiveKept, LiveOutside
  <1>4. CASE t = "cleanup" /\ UNCHANGED live
               /\ \E k \in Pruned(run[r].num) : RemoveReleases({n \in Pruned(run[r].num) : n >= k})
    <2>1. PICK k \in Pruned(run[r].num) : RemoveReleases({n \in Pruned(run[r].num) : n >= k})
      BY <1>4
    <2> QED BY <1>1, <1>2, <1>4, <2>1, LivePruned
  <1>5. CASE t = "activate" /\ live' = run[r].num /\ UNCHANGED <<dirs, rec, content>>
    BY <1>1, <1>2, <1>5, LiveActivates
  <1>6. CASE /\ run[r].num = 0 /\ NextReleaseNumber \in Number
             /\ dirs' = dirs \cup {NextReleaseNumber} /\ UNCHANGED <<rec, content, live>>
    <2> DEFINE rs == [run[r] EXCEPT !.pc = "failed"]
    <2>1. Set(r, rs) /\ run'[r] = rs
      BY <1>2, RunIs DEF Goto
    <2>2. /\ rs.pc = "failed" /\ rs.cmd = run[r].cmd
          /\ rs.done = run[r].done /\ rs.num = run[r].num
      BY RunType DEF RunState
    <2>3. NextReleaseNumber \notin dirs
      BY <1>6, NextNumber, ConstantsAssumption DEF Number
    <2>4. Recorded' = Recorded /\ Incomplete' = Incomplete
      BY <1>6, <2>3 DEF RecordInv, RecordFits, NoRecord, Recorded, Incomplete
    <2>5. LiveFits'
      BY <1>6, <2>4 DEF LiveInv, LiveFits, LiveIsBuilt
    <2>6. TurnFits(run[r]) /\ Executes(run[r])
      BY <1>2 DEF LiveInv, Executes
    <2> HIDE DEF rs
    <2>7. TurnFits(run[r])'
      BY <1>2, <1>6, <2>1, <2>2, <2>6 DEF TurnFits, Executes, SoFar
    <2> QED BY <1>2, <2>1, <2>5, <2>7, OthersIdle, LiveCommit
  <1> QED
    BY <1>1, <1>3, <1>4, <1>5, <1>6 DEF HalfDone, target

\* Storing the record of the command, or losing it, does not disturb what is live.
LEMMA LiveStored ==
  ASSUME TypeInv, RecordInv, LiveInv, NEW r \in Run, Executes(run[r]),
         NEW stored \in RunState,
         StoreRecord(stored) \/ BestEffortWrite(stored), UNCHANGED <<live, content>>,
         stored.num = run[r].num,
         "activate" \in stored.done => "activate" \in SoFar(run[r]),
         stored.status # "none"
  PROVE  /\ LiveFits'
         /\ stored.num # 0 => \A n \in Incomplete' : n <= stored.num
         /\ stored.num # 0 /\ NotPassed(stored.num) => NotPassed(stored.num)'
  <1>1. TurnFits(run[r]) /\ ResultFits(run[r]) /\ LiveFits
    BY DEF LiveInv, RecordInv, CommandFits
  <1>2. CASE UNCHANGED <<rec, dirs>>
    BY <1>1, <1>2 DEF LiveFits, LiveIsBuilt, Incomplete, Recorded, TurnFits, NotPassed
  <1>3. CASE /\ stored.num # 0 /\ dirs' = dirs \cup {stored.num}
             /\ rec' = [rec EXCEPT ![stored.num] = [status |-> stored.status,
                                                    done |-> stored.done]]
    <2>1. dirs' = dirs /\ stored.num \in Number
      BY <1>1, <1>3, DirsAreNumbers DEF ResultFits
    <2>2. \A n \in Number : rec'[n] = IF n = stored.num
                                        THEN [status |-> stored.status, done |-> stored.done]
                                        ELSE rec[n]
      BY <1>3 DEF TypeInv, TypeOK
    <2>3. /\ Recorded' \subseteq Recorded \cup {stored.num}
          /\ Incomplete' \subseteq Incomplete \cup {stored.num}
      BY <2>1, <2>2, DirsAreNumbers DEF Recorded, Incomplete
    <2>4. stored.num \in Int /\ live \in Int /\ stored.num <= stored.num
          /\ ~(live > stored.num /\ live = stored.num)
      BY <2>1, ConstantsAssumption DEF Number, TypeInv, TypeOK
    <2>5. /\ \A n \in Incomplete : n <= stored.num
          /\ "activate" \in stored.done => stored.num <= live
      BY <1>1, <1>3 DEF TurnFits
    <2>6. \A n \in Incomplete' : "activate" \in rec'[n].done => n <= live
      <3> SUFFICES ASSUME NEW n \in Incomplete', "activate" \in rec'[n].done
                   PROVE  n <= live
        OBVIOUS
      <3>1. n \in Number
        BY <2>1, DirsAreNumbers DEF Incomplete, Recorded
      <3>2. CASE n = stored.num
        BY <2>1, <2>2, <2>5, <3>2
      <3>3. CASE n # stored.num
        BY <1>1, <2>2, <2>3, <3>1, <3>3 DEF LiveFits
      <3> QED BY <3>2, <3>3
    <2>7. LiveFits'
      BY <1>1, <2>1, <2>6 DEF LiveFits, LiveIsBuilt
    <2> QED BY <2>3, <2>4, <2>5, <2>7 DEF NotPassed
  <1> QED
    BY <1>2, <1>3 DEF StoreRecord, BestEffortWrite, WriteRelease

\* The loop passes a step.
LEMMA LivePasses ==
  ASSUME TypeInv, RecordInv, LiveInv, NEW r \in Run, run[r].pc \in {"step", "write"},
         NEW rs \in RunState, Set(r, rs), StoreRecord(rs), UNCHANGED <<live, content>>,
         rs.pc = "step", rs.cmd = run[r].cmd, rs.num = run[r].num, rs.status = run[r].status,
         rs.done \subseteq SoFar(run[r])
  PROVE  LiveInv'
  <1>1. Executes(run[r]) /\ TurnFits(run[r]) /\ ProgressFits(run[r])
    BY DEF LiveInv, RecordInv, CommandFits, Executes
  <1>2. rs.status # "none"
    BY <1>1 DEF ProgressFits
  <1>3. "activate" \in rs.done => "activate" \in SoFar(run[r])
    OBVIOUS
  <1>4. /\ LiveFits'
        /\ rs.num # 0 => \A n \in Incomplete' : n <= rs.num
        /\ rs.num # 0 /\ NotPassed(rs.num) => NotPassed(rs.num)'
    BY <1>1, <1>2, <1>3, LiveStored
  <1>5. run'[r] = rs
    BY RunIs
  <1>6. rs.num # 0 => NotPassed(rs.num)
    BY <1>1 DEF TurnFits
  <1>7. rs.num # 0 => NotPassed(run[r].num)'
    <2>1. NotPassed(rs.num)' <=> (live' > rs.num => live' \notin Recorded')
      BY DEF NotPassed
    <2> QED BY <1>4, <1>5, <1>6, <2>1 DEF NotPassed
  <1>8. TurnFits(run[r])'
    <2>1. CASE rs.num = 0
      BY <1>1, <1>5, <2>1 DEF TurnFits, SoFar
    <2>2. CASE rs.num # 0
      BY <1>1, <1>4, <1>5, <1>7, <2>2 DEF TurnFits, SoFar
    <2> QED BY <2>1, <2>2
  <1> QED
    BY <1>1, <1>4, <1>8, OthersIdle, LiveCommit DEF Executes

LEMMA LiveRecord ==
  ASSUME TypeInv, RecordInv, LiveInv, NEW r \in Run,
         CarryOver(r) \/ SkipLockStep(r) \/ RecordStep(r) \/ RecordFailure(r) \/ FinishRun(r)
  PROVE  LiveInv'
  <1>1. /\ run[r] \in RunState /\ PcFits(run[r]) /\ Executes(run[r]) /\ run[r].pc # "idle"
        /\ UNCHANGED <<live, content>> /\ TurnFits(run[r])
    BY RunType DEF CarryOver, SkipLockStep, RecordStep, RecordFailure, FinishRun, AtStep,
                   LiveInv, Executes
  <1>2. CASE CarryOver(r)
    <2> DEFINE rs == [run[r] EXCEPT !.idx = @ + 1]
    <2>1. Set(r, rs) /\ StoreRecord(run[r]) /\ run[r].pc = "step"
      BY <1>2 DEF CarryOver, AtStep
    <2>2. /\ rs \in RunState /\ rs.pc = "step" /\ rs.cmd = run[r].cmd
          /\ rs.num = run[r].num /\ rs.status = run[r].status /\ rs.done = run[r].done
      BY <1>1, <2>1 DEF RunState
    <2> HIDE DEF rs
    <2>3. StoreRecord(rs) /\ rs.done \subseteq SoFar(run[r])
      BY <2>1, <2>2 DEF StoreRecord, BestEffortWrite, WriteRelease, SoFar
    <2> QED BY <1>1, <2>1, <2>2, <2>3, LivePasses
  <1>3. CASE SkipLockStep(r)
    <2>1. PICK t \in {"lock", "unlock"} :
            /\ AtStep(r, t)
            /\ Set(r, [run[r] EXCEPT !.idx = @ + 1, !.done = @ \ {t}])
            /\ StoreRecord([run[r] EXCEPT !.idx = @ + 1, !.done = @ \ {t}])
      BY <1>3 DEF SkipLockStep
    <2> DEFINE rs == [run[r] EXCEPT !.idx = @ + 1, !.done = @ \ {t}]
    <2>2. Set(r, rs) /\ StoreRecord(rs) /\ run[r].pc = "step"
      BY <2>1 DEF AtStep
    <2>3. /\ rs \in RunState /\ rs.pc = "step" /\ rs.cmd = run[r].cmd
          /\ rs.num = run[r].num /\ rs.status = run[r].status /\ rs.done \subseteq run[r].done
      <3>1. run[r].idx + 1 \in Nat /\ run[r].done \ {t} \subseteq Task
        BY <1>1 DEF RunState
      <3> QED BY <1>1, <2>2, <3>1 DEF RunState
    <2> HIDE DEF rs
    <2>4. rs.done \subseteq SoFar(run[r])
      BY <2>3 DEF SoFar
    <2> QED BY <1>1, <2>2, <2>3, <2>4, LivePasses
  <1>4. CASE RecordStep(r)
    <2> DEFINE t  == Pipeline[run[r].idx]
               rs == [run[r] EXCEPT !.pc = "step", !.idx = @ + 1, !.done = @ \cup {t},
                                    !.held = @ \/ t = "lock"]
    <2>1. run[r].pc = "write" /\ run[r].idx \in 1 .. Len(Pipeline)
      BY <1>1, <1>4 DEF RecordStep, PcFits
    <2>2. t \in Task /\ SoFar(run[r]) = run[r].done \cup {t}
      BY <2>1, TaskAtIndex DEF SoFar
    <2>3. Set(r, rs) /\ StoreRecord(rs)
      BY <1>4 DEF RecordStep
    <2> HIDE DEF t
    <2>4. /\ rs \in RunState /\ rs.pc = "step" /\ rs.cmd = run[r].cmd
          /\ rs.num = run[r].num /\ rs.status = run[r].status
          /\ rs.done = run[r].done \cup {t}
      <3>1. run[r].idx + 1 \in Nat /\ run[r].done \cup {t} \subseteq Task
        BY <1>1, <2>2 DEF RunState
      <3>2. (run[r].held \/ t = "lock") \in BOOLEAN
        OBVIOUS
      <3> QED BY <1>1, <3>1, <3>2 DEF RunState, Pc
    <2> HIDE DEF rs
    <2> QED BY <1>1, <2>1, <2>2, <2>3, <2>4, LivePasses
  <1>5. CASE RecordFailure(r)
    <2> DEFINE t  == Pipeline[run[r].idx]
               rs == [run[r] EXCEPT !.pc = "release", !.status = "failed", !.done = @ \ {t}]
    <2>1. (Set(r, rs) \/ Set(r, Idle)) /\ BestEffortWrite(rs) /\ run[r].pc = "failed"
      BY <1>5 DEF RecordFailure
    <2> HIDE DEF t
    <2>2. /\ rs \in RunState /\ rs.pc = "release" /\ rs.num = run[r].num
          /\ rs.cmd = run[r].cmd /\ rs.status = "failed" /\ rs.done = run[r].done \ {t}
      BY <1>1 DEF RunState, Pc
    <2> HIDE DEF rs
    <2>3. LiveFits'
      BY <1>1, <2>1, <2>2, LiveStored DEF SoFar
    <2>4. rs.cmd # "rollback" /\ Idle.cmd # "rollback" /\ Idle.pc = "idle"
      BY <1>1, <2>2 DEF TurnFits, Idle
    <2> QED BY <1>1, <2>1, <2>2, <2>3, <2>4, LiveBystander
  <1>6. CASE FinishRun(r)
    <2> DEFINE rs == [run[r] EXCEPT !.status = "ok"]
    <2>1. BestEffortWrite(rs) /\ Set(r, Idle) /\ run[r].pc = "step"
      BY <1>6 DEF FinishRun
    <2>2. rs \in RunState /\ rs.num = run[r].num /\ rs.status = "ok" /\ rs.done = run[r].done
      BY <1>1 DEF RunState
    <2> HIDE DEF rs
    <2>3. LiveFits'
      BY <1>1, <2>1, <2>2, LiveStored DEF SoFar
    <2> QED BY <1>1, <2>1, <2>3, LiveBystander DEF Idle
  <1> QED
    BY <1>2, <1>3, <1>4, <1>5, <1>6

LEMMA LiveInit == Init => LiveInv
  <1> SUFFICES ASSUME Init PROVE LiveInv
    OBVIOUS
  <1>1. \A r \in Run : TurnFits(run[r])
    BY DEF Init, Idle, TurnFits, Executes
  <1>2. LiveFits
    BY ConstantsAssumption DEF Init, LiveFits, LiveIsBuilt, Incomplete, Recorded, NoRecord
  <1> QED BY <1>1, <1>2 DEF LiveInv

LEMMA LiveNext ==
  TypeInv /\ RecordInv /\ LiveInv /\ Exclusive /\ NoRollbacks /\ PlanInOrder /\ [Next]_vars
    => LiveInv'
  <1> SUFFICES ASSUME TypeInv, RecordInv, LiveInv, Exclusive, NoRollbacks, PlanInOrder,
                      [Next]_vars
               PROVE  LiveInv'
    OBVIOUS
  <1>1. ASSUME NEW r \in Run,
               \/ \E skip \in SkipLock :
                    StartDeploy(r, skip) \/ StartResume(r, skip) \/ RollbackSelect(r, skip)
               \/ \E force \in UnlockForce : UnlockCheck(r, force)
        PROVE  LiveInv'
    BY <1>1, LiveIssue
  <1>2. ASSUME NEW r \in Run, CleanupStep(r)
        PROVE  LiveInv'
    BY <1>2, LivePruned DEF CleanupStep, Due
  <1>3. ASSUME NEW r \in Run, ActivateStep(r)
        PROVE  LiveInv'
    BY <1>3, LiveActivates DEF ActivateStep, Due
  <1>4. ASSUME NEW r \in Run, Step(r)
        PROVE  LiveInv'
    BY <1>2, <1>3, <1>4, LiveRecovery, LiveBystanders, LiveTaken, LiveContent, LiveRelease,
       LiveRecord DEF Step
  <1>5. ASSUME NEW r \in Run, StepFails(r) \/ Crash(r)
        PROVE  LiveInv'
    BY <1>5, LiveFails, LiveBystanders
  <1>6. CASE UNCHANGED <<dirs, rec, live, content, run>>
    BY <1>6, LiveKept DEF LiveInv, TurnFits, Executes, SoFar, NotPassed
  <1> QED
    BY <1>1, <1>4, <1>5, <1>6 DEF Next, Quiet, LockAges, vars, target

\* What the site serves was built and is still there (activateSymlink checks
\* neither, and CoreCleanup does not look at `current`), through failed, killed
\* and resumed deploys and lost writes of the record.
THEOREM SiteIsBuilt ==
  Spec /\ Exclusive /\ NoRollbacks /\ PlanInOrder => []LiveIsBuilt
  <1>1. Init => LiveInv
    BY LiveInit
  <1>2. NoRollbacks /\ PlanInOrder => (NoRollbacks /\ PlanInOrder)'
    BY DEF NoRollbacks, PlanInOrder, Before
  <1>3. Exclusive => Exclusive'
    BY DEF Exclusive
  <1>4. LiveInv => LiveIsBuilt
    BY DEF LiveInv, LiveFits
  <1> QED
    BY <1>1, <1>2, <1>3, <1>4, RecordsAreSound, LiveNext, PTL DEF Spec

-----------------------------------------------------------------------------
(* Never backwards. *)

\* The release that is live has its record: not every write of it was lost
\* between the release directory and the activation.
LiveIsRecorded == live \in dirs \ Foreign => live \in Recorded

\* A resumed deploy pruned the release a rollback had made live.
Dangling == live \notin dirs \cup {0}

Behind == {n \in Incomplete : n < live}

\* Then no older unfinished release is ever resumed: the cleanup that failed
\* half-way is repeated first, and removes it.
DanglingFits ==
  Dangling /\ Behind # {} =>
    /\ "cleanup" \in Required
    /\ \A n \in Behind : Cardinality({m \in Recorded : m > n}) > Keep
    /\ \E own \in IncompleteRelease : own > live /\ "cleanup" \notin rec[own].done

BackFits ==
  /\ live = 0 \/ \E d \in dirs : live <= d
  /\ \A f \in Foreign, n \in Recorded : f < n
  /\ DanglingFits

\* A deploy works on the newest unfinished release, and none newer is live.
AheadFits(rs) ==
  /\ rs.pc = "activate" => rs.cmd = "rollback"
  /\ rs.pc \in {"mkdir", "activate"} \/ (rs.pc = "owner" /\ rs.cmd = "rollback") =>
       rs.num \in Recorded
  /\ rs.pc \in {"resumeLock", "resumeLive", "resumeUnlock", "resumeRun"} =>
       \A n \in Incomplete : n <= rs.num
  /\ rs.pc \in {"resumeUnlock", "resumeRun"} => live <= rs.num
  /\ Executes(rs) =>
       IF rs.num = 0
         THEN SoFar(rs) \cap {"release", "activate", "cleanup"} = {}
         ELSE /\ \A n \in Incomplete : n <= rs.num
              /\ live <= rs.num
              /\ \A f \in Foreign : f < rs.num
              /\ rec[rs.num].status # "ok"
              /\ "activate" \in SoFar(rs) => live = rs.num \/ rs.num \in Recorded
              /\ "cleanup" \in SoFar(rs) /\ Dangling => Behind = {}

BackInv == BackFits /\ \A r \in Run : AheadFits(run[r])

LEMMA BackCommit ==
  ASSUME TypeInv, BackInv, NEW r \in Run, NEW rs, Set(r, rs),
         \A s \in Run \ {r} : run[s].pc = "idle",
         BackFits', AheadFits(run[r])'
  PROVE  BackInv'
  <1>1. \A s \in Run \ {r} : run'[s] = run[s]
    BY DEF Set, TypeInv, TypeOK
  <1>2. ASSUME NEW s \in Run \ {r}
        PROVE  AheadFits(run[s])'
    BY <1>1, <1>2 DEF AheadFits, Executes
  <1> QED
    BY <1>2 DEF BackInv

LEMMA BackKept ==
  ASSUME BackInv, UNCHANGED <<dirs, rec, live>>
  PROVE  /\ BackFits' /\ Incomplete' = Incomplete /\ Recorded' = Recorded
         /\ Dangling' = Dangling /\ Behind' = Behind
  <1>1. Recorded' = Recorded
    BY DEF Recorded
  <1>2. Incomplete' = Incomplete
    BY <1>1 DEF Incomplete
  <1>3. IncompleteRelease' = IncompleteRelease /\ Behind' = Behind
    BY <1>2 DEF IncompleteRelease, Behind
  <1>4. Dangling' = Dangling
    BY DEF Dangling
  <1> QED
    BY <1>1, <1>2, <1>3, <1>4 DEF BackInv, BackFits, DanglingFits

\* A command that does not execute the plan and holds no copy of a record.
LEMMA BackBystander ==
  ASSUME TypeInv, RecordInv, BackInv, NEW r \in Run, NEW rs, Set(r, rs),
         run[r].pc # "idle" \/ \A s \in Run : run[s].pc = "idle",
         rs.pc \in {"idle", "release", "deferred", "unlock"}, BackFits'
  PROVE  BackInv'
  <1>1. run'[r] = rs
    BY RunIs
  <1>2. AheadFits(run[r])'
    BY <1>1 DEF AheadFits, Executes
  <1> QED
    BY <1>2, OthersIdle, BackCommit

\* A rollback on its way to the activation.
LEMMA BackRollback ==
  ASSUME TypeInv, RecordInv, BackInv, NEW r \in Run, NEW rs, Set(r, rs),
         run[r].pc # "idle" \/ \A s \in Run : run[s].pc = "idle",
         rs.pc \in {"mkdir", "owner", "activate"}, rs.cmd = "rollback", rs.num \in Recorded,
         UNCHANGED <<dirs, rec, live>>
  PROVE  BackInv'
  <1>1. run'[r] = rs
    BY RunIs
  <1>2. AheadFits(run[r])'
    BY <1>1, BackKept DEF AheadFits, Executes
  <1> QED
    BY <1>2, BackKept, OthersIdle, BackCommit

LEMMA BackIssue ==
  ASSUME TypeInv, RecordInv, BackInv, Exclusive, NEW r \in Run,
         \/ \E skip \in SkipLock :
              StartDeploy(r, skip) \/ StartResume(r, skip) \/ RollbackSelect(r, skip)
         \/ \E force \in UnlockForce : UnlockCheck(r, force)
  PROVE  BackInv'
  <1>1. (\A s \in Run : run[s].pc = "idle") /\ UNCHANGED target
    BY DEF Exclusive, StartDeploy, StartResume, RollbackSelect, UnlockCheck, Issue, MayIssue
  <1>2. BackFits' /\ Incomplete' = Incomplete /\ UNCHANGED <<dirs, rec, live>>
    BY <1>1, BackKept DEF target
  <1>3. ASSUME NEW skip \in SkipLock, StartDeploy(r, skip)
        PROVE  BackInv'
    <2> DEFINE rs == [Idle EXCEPT !.pc = "step", !.cmd = "deploy", !.idx = 1,
                                  !.status = "running", !.nolock = skip]
    <2>1. Set(r, rs) /\ run'[r] = rs
      BY <1>3, RunIs DEF StartDeploy
    <2>2. AheadFits(run[r])'
      BY <2>1 DEF Idle, AheadFits, Executes, SoFar
    <2> HIDE DEF rs
    <2> QED BY <1>1, <1>2, <2>1, <2>2, BackCommit
  <1>4. ASSUME NEW skip \in SkipLock, StartResume(r, skip)
        PROVE  BackInv'
    <2>1. PICK n \in IncompleteRelease :
            Set(r, [Idle EXCEPT !.pc = "resumeLock", !.cmd = "deploy", !.num = n,
                                !.status = rec[n].status, !.done = rec[n].done,
                                !.nolock = skip])
      BY <1>4 DEF StartResume
    <2> DEFINE rs == [Idle EXCEPT !.pc = "resumeLock", !.cmd = "deploy", !.num = n,
                                  !.status = rec[n].status, !.done = rec[n].done,
                                  !.nolock = skip]
    <2>2. Set(r, rs) /\ run'[r] = rs
      BY <2>1, RunIs
    <2>3. rs.pc = "resumeLock" /\ rs.cmd = "deploy" /\ rs.num = n
      BY DEF Idle
    <2> HIDE DEF rs
    <2>4. AheadFits(run[r])'
      BY <1>2, <2>2, <2>3 DEF AheadFits, Executes, IncompleteRelease
    <2> QED BY <1>1, <1>2, <2>2, <2>4, BackCommit
  <1>5. ASSUME NEW skip \in SkipLock, RollbackSelect(r, skip)
        PROVE  BackInv'
    <2>1. PICK n \in Usable :
            Set(r, [Idle EXCEPT !.pc = IF skip THEN "activate" ELSE "mkdir",
                                !.cmd = "rollback", !.num = n, !.nolock = skip])
      BY <1>5 DEF RollbackSelect
    <2> DEFINE rs == [Idle EXCEPT !.pc = IF skip THEN "activate" ELSE "mkdir",
                                  !.cmd = "rollback", !.num = n, !.nolock = skip]
    <2>2. Set(r, rs) /\ rs.pc \in {"activate", "mkdir"} /\ rs.cmd = "rollback" /\ rs.num = n
      BY <2>1 DEF Idle
    <2> HIDE DEF rs
    <2> QED BY <1>1, <1>2, <2>1, <2>2, BackRollback DEF Usable
  <1>6. ASSUME NEW force \in UnlockForce, UnlockCheck(r, force)
        PROVE  BackInv'
    <2> DEFINE rs == [Idle EXCEPT !.pc = "unlock", !.cmd = "unlock"]
    <2>1. Set(r, rs) /\ rs.pc = "unlock"
      BY <1>6 DEF UnlockCheck, Idle
    <2> HIDE DEF rs
    <2> QED BY <1>1, <1>2, <2>1, BackBystander
  <1> QED BY <1>3, <1>4, <1>5, <1>6

\* prepareResume lets a command pass only when no newer release is live.
LEMMA ResumePasses ==
  ASSUME TypeInv, BackInv, LiveIsRecorded, NEW n \in Incomplete,
         \A m \in Incomplete : m <= n, ~(live \in Recorded /\ n < live)
  PROVE  live <= n
  <1>1. live \in Nat /\ n \in Nat /\ n # 0 /\ n \in Recorded /\ n \in dirs
    BY DirsAreNumbers, ConstantsAssumption DEF TypeInv, TypeOK, Number, Incomplete, Recorded
  <1> SUFFICES ASSUME n < live PROVE FALSE
    BY <1>1
  <1>2. live \notin Foreign
    BY <1>1 DEF BackInv, BackFits
  <1>3. Dangling
    BY <1>1, <1>2 DEF Dangling, LiveIsRecorded
  <1>4. n \in Behind
    BY DEF Behind
  <1>5. PICK own \in IncompleteRelease : own > live
    BY <1>3, <1>4 DEF BackInv, BackFits, DanglingFits
  <1>6. own <= n /\ own \in Int
    BY DirsAreNumbers, ConstantsAssumption DEF IncompleteRelease, Incomplete, Recorded, Number
  <1> QED BY <1>1, <1>5, <1>6

LEMMA BackRecovery ==
  ASSUME TypeInv, RecordInv, BackInv, LiveIsRecorded, NEW r \in Run,
         ResumeCheckLock(r) \/ ResumeCheckLive(r) \/ ResumeUnlock(r) \/ ResumeRun(r)
  PROVE  BackInv'
  <1>1. /\ run[r] \in RunState /\ run[r].pc # "idle"
        /\ CommandFits(run[r]) /\ AheadFits(run[r])
    BY RunType DEF ResumeCheckLock, ResumeCheckLive, ResumeUnlock, ResumeRun, RecordInv, BackInv
  <1>2. UNCHANGED <<dirs, rec, live>>
    BY DEF ResumeCheckLock, ResumeCheckLive, ResumeUnlock, ResumeRun, target
  <1>3. /\ BackFits' /\ Incomplete' = Incomplete /\ Recorded' = Recorded
        /\ Dangling' = Dangling /\ Behind' = Behind
    BY <1>2, BackKept
  <1>4. /\ run[r].pc \in {"resumeLock", "resumeLive", "resumeUnlock", "resumeRun"}
        /\ run[r].cmd = "deploy" /\ run[r].num \in Incomplete
        /\ run[r].done = rec[run[r].num].done
        /\ \A n \in Incomplete : n <= run[r].num
    BY <1>1 DEF CommandFits, CopyFits, AheadFits,
                ResumeCheckLock, ResumeCheckLive, ResumeUnlock, ResumeRun
  <1>5. ASSUME NEW rs, Set(r, rs), AheadFits(run[r])'
        PROVE  BackInv'
    BY <1>1, <1>3, <1>5, OthersIdle, BackCommit
  <1>6. CASE Set(r, Idle)
    BY <1>1, <1>3, <1>6, BackBystander DEF Idle
  <1>7. ASSUME NEW l \in {"resumeLive", "resumeUnlock", "resumeRun"}, Goto(r, l),
               l # "resumeLive" => live <= run[r].num
        PROVE  BackInv'
    <2> DEFINE rs == [run[r] EXCEPT !.pc = l]
    <2>1. Set(r, rs) /\ run'[r] = rs
      BY <1>7, RunIs DEF Goto
    <2>2. run'[r].pc = l /\ run'[r].cmd = "deploy" /\ run'[r].num = run[r].num
      BY <1>1, <1>4, <2>1 DEF RunState
    <2>3. AheadFits(run[r])'
      BY <1>2, <1>3, <1>4, <1>7, <2>2 DEF AheadFits, Executes
    <2> HIDE DEF rs
    <2> QED BY <1>5, <2>1, <2>3
  <1>8. CASE ResumeCheckLive(r) /\ Goto(r, "resumeUnlock")
    <2>1. CASE live \in Recorded /\ run[r].num < live
      BY <1>6, <1>8, <2>1 DEF ResumeCheckLive
    <2>2. CASE ~(live \in Recorded /\ run[r].num < live)
      BY <1>4, <1>7, <1>8, <2>2, ResumePasses
    <2> QED BY <2>1, <2>2
  <1>9. CASE ResumeUnlock(r)
    BY <1>1, <1>7, <1>9 DEF ResumeUnlock, AheadFits
  <1>10. CASE ResumeRun(r)
    <2> DEFINE kept == rec[run[r].num].done \ ResumeAlwaysReruns
               rs == [run[r] EXCEPT !.pc = "step", !.idx = 1, !.carried = kept]
    <2>1. Set(r, rs) /\ run'[r] = rs
      BY <1>10, RunIs DEF ResumeRun
    <2>2. /\ run'[r].pc = "step" /\ run'[r].cmd = "deploy"
          /\ run'[r].num = run[r].num /\ run'[r].done = run[r].done
      BY <1>1, <1>4, <2>1 DEF RunState
    <2>3. run[r].num # 0 /\ run[r].num \in Recorded /\ rec[run[r].num].status # "ok"
      BY <1>4, DirsAreNumbers DEF Incomplete, Recorded
    <2>4. live <= run[r].num
      BY <1>1, <1>10 DEF AheadFits, ResumeRun
    <2>5. \A f \in Foreign : f < run[r].num
      BY <2>3 DEF BackInv, BackFits
    <2>6. "cleanup" \in run[r].done /\ Dangling => Behind = {}
      <3> SUFFICES ASSUME "cleanup" \in run[r].done, Dangling, Behind # {}
                   PROVE  FALSE
        OBVIOUS
      <3>1. PICK own \in IncompleteRelease : "cleanup" \notin rec[own].done
        BY DEF BackInv, BackFits, DanglingFits
      <3>2. own <= run[r].num /\ run[r].num <= own
        BY <1>4 DEF IncompleteRelease
      <3>3. own \in Int /\ run[r].num \in Int
        BY <1>4, DirsAreNumbers, ConstantsAssumption
        DEF IncompleteRelease, Incomplete, Recorded, Number
      <3>4. own = run[r].num
        BY <3>2, <3>3
      <3> QED BY <1>4, <3>1, <3>4
    <2>7. AheadFits(run[r])'
      BY <1>2, <1>3, <1>4, <2>2, <2>3, <2>4, <2>5, <2>6 DEF AheadFits, Executes, SoFar
    <2> HIDE DEF rs
    <2> QED BY <1>5, <2>1, <2>7
  <1> QED
    BY <1>6, <1>7, <1>8, <1>9, <1>10 DEF ResumeCheckLock, ResumeCheckLive

LEMMA BackBystanders ==
  ASSUME TypeInv, RecordInv, BackInv, NEW r \in Run,
         \/ ReleaseLockAfterFailure(r) \/ RollbackActivate(r) \/ RollbackUnlock(r)
         \/ UnlockRemove(r) \/ Crash(r)
  PROVE  BackInv'
  <1>1. run[r].pc # "idle" /\ run[r] \in RunState /\ AheadFits(run[r])
    BY RunType
    DEF ReleaseLockAfterFailure, RollbackActivate, RollbackUnlock, UnlockRemove, Crash, BackInv
  <1>2. CASE Set(r, Idle) /\ UNCHANGED <<dirs, rec, live>>
    BY <1>1, <1>2, BackKept, BackBystander DEF Idle
  <1>3. CASE RollbackActivate(r)
    <2>1. (live' = run[r].num \/ UNCHANGED live) /\ UNCHANGED <<dirs, rec>>
      BY <1>3 DEF RollbackActivate
    <2>2. run[r].num \in dirs /\ run[r].num \in Nat
      BY <1>1, <1>3, ConstantsAssumption DEF AheadFits, RollbackActivate, Recorded, RunState
    <2>3. BackFits'
      <3>1. CASE UNCHANGED live
        BY <2>1, <3>1, BackKept
      <3>2. CASE live' = run[r].num
        <4>1. Recorded' = Recorded /\ ~Dangling' /\ live' <= run[r].num
          BY <2>1, <2>2, <3>2 DEF Recorded, Dangling
        <4> QED BY <2>1, <2>2, <4>1 DEF BackInv, BackFits, DanglingFits
      <3> QED BY <2>1, <3>1, <3>2
    <2>4. CASE Set(r, Idle)
      BY <1>1, <2>3, <2>4, BackBystander DEF Idle
    <2>5. CASE Goto(r, "deferred")
      <3> DEFINE rs == [run[r] EXCEPT !.pc = "deferred"]
      <3>1. Set(r, rs) /\ rs.pc = "deferred"
        BY <1>1, <2>5 DEF Goto, RunState
      <3> HIDE DEF rs
      <3> QED BY <1>1, <2>3, <3>1, BackBystander
    <2> QED BY <1>3, <2>4, <2>5 DEF RollbackActivate
  <1> QED
    BY <1>2, <1>3 DEF ReleaseLockAfterFailure, RollbackUnlock, UnlockRemove, Crash, target

\* A step that neither numbers the release, nor puts it live, nor prunes.
LEMMA BackOutside ==
  ASSUME TypeInv, RecordInv, BackInv, NEW r \in Run, Executes(run[r]),
         run[r].pc \in {"step", "owner"},
         NEW l \in {"write", "failed", "owner"}, Goto(r, l), UNCHANGED <<dirs, rec, live>>,
         l = "write" => Pipeline[run[r].idx] \notin {"release", "activate", "cleanup"}
  PROVE  BackInv'
  <1> DEFINE rs == [run[r] EXCEPT !.pc = l]
  <1>1. run[r] \in RunState /\ AheadFits(run[r]) /\ run[r].cmd = "deploy"
    BY RunType DEF BackInv, RecordInv, CommandFits, ProgressFits
  <1>2. Set(r, rs) /\ run'[r] = rs
    BY RunIs DEF Goto
  <1>3. /\ rs.pc = l /\ rs.cmd = run[r].cmd /\ rs.idx = run[r].idx
        /\ rs.done = run[r].done /\ rs.num = run[r].num
    BY <1>1 DEF RunState
  <1>4. /\ BackFits' /\ Incomplete' = Incomplete /\ Recorded' = Recorded
        /\ Dangling' = Dangling /\ Behind' = Behind
    BY BackKept
  <1> HIDE DEF rs
  <1>5. "activate" \in SoFar(rs) => "activate" \in SoFar(run[r])
    BY <1>3 DEF SoFar
  <1>6. "cleanup" \in SoFar(rs) => "cleanup" \in SoFar(run[r])
    BY <1>3 DEF SoFar
  <1>7. "release" \in SoFar(rs) => "release" \in SoFar(run[r])
    BY <1>3 DEF SoFar
  <1>8. AheadFits(run[r])'
    BY <1>1, <1>2, <1>3, <1>4, <1>5, <1>6, <1>7 DEF AheadFits, Executes, SoFar
  <1> QED
    BY <1>2, <1>4, <1>8, OthersIdle, BackCommit

LEMMA BackTaken ==
  ASSUME TypeInv, RecordInv, BackInv, NEW r \in Run,
         \/ LockMkdir(r) \/ LockOwner(r) \/ PlainStep(r) \/ VerifyStep(r) \/ UnlockStep(r)
         \/ StepRefused(r)
  PROVE  BackInv'
  <1>1. UNCHANGED <<dirs, rec, live>>
    BY DEF LockMkdir, LockOwner, PlainStep, VerifyStep, UnlockStep, StepRefused, target
  <1>2. run[r] \in RunState /\ PcFits(run[r]) /\ AheadFits(run[r]) /\ CommandFits(run[r])
    BY RunType DEF BackInv, RecordInv
  <1>3. CASE run[r].pc = "mkdir" \/ (run[r].pc = "owner" /\ run[r].cmd = "rollback")
    <2>1. run[r].cmd = "rollback" /\ run[r].num \in Recorded
      BY <1>2, <1>3 DEF PcFits, AheadFits
    <2>2. LockMkdir(r) \/ LockOwner(r)
      BY <1>3 DEF PlainStep, VerifyStep, UnlockStep, StepRefused, Due, AtStep
    <2>3. Set(r, Idle) \/ \E l \in {"owner", "activate"} : Goto(r, l)
      BY <2>1, <2>2 DEF LockMkdir, LockOwner, LockRefused
    <2>4. CASE Set(r, Idle)
      BY <1>1, <1>3, <2>4, BackKept, BackBystander DEF Idle
    <2>5. ASSUME NEW l \in {"owner", "activate"}, Goto(r, l)
          PROVE  BackInv'
      <3> DEFINE rs == [run[r] EXCEPT !.pc = l]
      <3>1. Set(r, rs) /\ rs.pc = l /\ rs.cmd = "rollback" /\ rs.num = run[r].num
        BY <1>2, <2>1, <2>5 DEF Goto, RunState
      <3> HIDE DEF rs
      <3> QED BY <1>1, <1>3, <2>1, <3>1, BackRollback
    <2> QED BY <2>3, <2>4, <2>5
  <1>4. CASE ~(run[r].pc = "mkdir" \/ (run[r].pc = "owner" /\ run[r].cmd = "rollback"))
    <2>1. run[r].pc \in {"step", "owner"} /\ Executes(run[r])
      BY <1>4 DEF LockMkdir, LockOwner, PlainStep, VerifyStep, UnlockStep, StepRefused, Due,
                  AtStep, Executes
    <2>2. /\ run[r].cmd = "deploy"
          /\ run[r].pc = "owner" => Pipeline[run[r].idx] = "lock"
      BY <1>2, <2>1 DEF CommandFits, ProgressFits
    <2>3. CASE LockMkdir(r)
      <3>1. Goto(r, "owner") \/ Goto(r, "failed")
        BY <2>2, <2>3 DEF LockMkdir, LockRefused, Goto
      <3> QED BY <1>1, <2>1, <3>1, BackOutside
    <2>4. CASE LockOwner(r)
      <3>1. Goto(r, "write") \/ Goto(r, "failed")
        BY <2>2, <2>4 DEF LockOwner, LockRefused, Goto
      <3>2. Pipeline[run[r].idx] = "lock"
        BY <2>2, <2>4 DEF LockOwner
      <3> QED BY <1>1, <2>1, <3>1, <3>2, BackOutside
    <2>5. CASE PlainStep(r) \/ VerifyStep(r) \/ UnlockStep(r)
      <3>1. Pipeline[run[r].idx] \notin {"release", "activate", "cleanup"} /\ Goto(r, "write")
        BY <2>5 DEF PlainStep, VerifyStep, UnlockStep, Due, AtStep, InRelease
      <3> QED BY <1>1, <2>1, <3>1, BackOutside
    <2>6. CASE StepRefused(r)
      BY <1>1, <2>1, <2>6, BackOutside DEF StepRefused
    <2> QED BY <2>3, <2>4, <2>5, <2>6
  <1> QED BY <1>3, <1>4

\* A task that the plan puts before the next step is done.
LEMMA PassedBefore ==
  ASSUME TypeInv, RecordInv, NEW r \in Run, NEW u, AtStep(r, u),
         NEW t \in Task \ {"lock", "unlock"}, Before(t, u)
  PROVE  t \in run[r].done
  <1>1. run[r].idx \in 1 .. Len(Pipeline) /\ Pipeline[run[r].idx] = u
    BY AtStepFits, PipelineAssumption DEF AtStep, RunState
  <1>2. PICK i \in 1 .. Len(Pipeline) : i < run[r].idx /\ Pipeline[i] = t
    BY <1>1 DEF Before
  <1> QED BY <1>1, <1>2, DoneBefore

\* A deploy that is past deploy:release works on its release.
LEMMA BackNumbered ==
  ASSUME TypeInv, RecordInv, BackInv, PlanInOrder, NEW r \in Run,
         NEW u \in {"activate", "cleanup"}, AtStep(r, u)
  PROVE  /\ run[r].num # 0 /\ run[r].num \in dirs /\ run[r].num \in Nat
         /\ AheadFits(run[r]) /\ Executes(run[r]) /\ run[r].cmd = "deploy"
  <1>1. /\ run[r].pc = "step" /\ AheadFits(run[r]) /\ Executes(run[r]) /\ ResultFits(run[r])
        /\ run[r] \in RunState /\ run[r].cmd = "deploy"
    BY AtStepFits DEF AtStep, BackInv, Executes
  <1>2. \E t \in {"release", "activate"} : Before(t, u)
    BY DEF PlanInOrder
  <1>3. {"release", "activate"} \cap run[r].done # {}
    BY <1>2, PassedBefore DEF Task
  <1>4. run[r].num # 0
    BY <1>1, <1>3 DEF AheadFits, SoFar
  <1> QED
    BY <1>1, <1>4, ConstantsAssumption DEF ResultFits, RunState

LEMMA BackActivates ==
  ASSUME TypeInv, RecordInv, BackInv, PlanInOrder, NEW r \in Run, AtStep(r, "activate"),
         NEW l \in {"write", "failed"}, Goto(r, l), live' = run[r].num,
         UNCHANGED <<dirs, rec>>
  PROVE  BackInv' /\ live' >= live
  <1> DEFINE rs == [run[r] EXCEPT !.pc = l]
  <1>1. /\ run[r] \in RunState /\ run[r].pc = "step" /\ Pipeline[run[r].idx] = "activate"
        /\ live \in Nat
    BY RunType, ConstantsAssumption DEF AtStep, TypeInv, TypeOK
  <1>2. Set(r, rs) /\ run'[r] = rs
    BY RunIs DEF Goto
  <1>3. /\ rs.pc = l /\ rs.cmd = run[r].cmd /\ rs.idx = run[r].idx
        /\ rs.done = run[r].done /\ rs.num = run[r].num
    BY <1>1 DEF RunState
  <1>4. /\ run[r].num # 0 /\ run[r].num \in dirs /\ run[r].num \in Nat
        /\ AheadFits(run[r]) /\ Executes(run[r]) /\ run[r].cmd = "deploy"
    BY BackNumbered
  <1>5. Incomplete' = Incomplete /\ Recorded' = Recorded /\ ~Dangling'
    BY <1>4 DEF Incomplete, Recorded, Dangling
  <1>6. live' <= run[r].num
    BY <1>4
  <1>7. BackFits'
    BY <1>4, <1>5, <1>6 DEF BackInv, BackFits, DanglingFits
  <1> HIDE DEF rs
  <1>8. AheadFits(run[r])'
    BY <1>2, <1>3, <1>4, <1>5, <1>6 DEF AheadFits, Executes
  <1>9. live <= run[r].num
    BY <1>4 DEF AheadFits
  <1> QED
    BY <1>1, <1>2, <1>4, <1>7, <1>8, <1>9, OthersIdle, BackCommit

\* A new release is past everything that is there.
LEMMA BackNewNumber ==
  ASSUME TypeInv, RecordInv, BackInv, Foreign \subseteq dirs, NextReleaseNumber \in Number,
         dirs' = dirs \cup {NextReleaseNumber}, UNCHANGED <<rec, live>>
  PROVE  /\ BackFits' /\ Incomplete' = Incomplete /\ Recorded' = Recorded
         /\ \A n \in Incomplete : n <= NextReleaseNumber
         /\ live <= NextReleaseNumber
         /\ \A f \in Foreign : f < NextReleaseNumber
         /\ rec[NextReleaseNumber].status = "none"
  <1> DEFINE N == NextReleaseNumber
  <1>1. N \in Int /\ live \in Nat /\ \A d \in dirs : d \in Int /\ d < N
    BY NextNumber, DirsAreNumbers, ConstantsAssumption DEF Number, TypeInv, TypeOK
  <1>2. N >= 1
    BY NextNumber, ConstantsAssumption
  <1> HIDE DEF N
  <1>3. N \notin dirs
    BY <1>1
  <1>4. rec[N].status = "none"
    BY <1>3 DEF RecordInv, RecordFits, NoRecord, N
  <1>5. Recorded' = Recorded
    BY <1>3, <1>4 DEF Recorded, N
  <1>6. Incomplete' = Incomplete
    BY <1>5 DEF Incomplete
  <1>7. IncompleteRelease' = IncompleteRelease /\ Behind' = Behind
    BY <1>6 DEF IncompleteRelease, Behind
  <1>8. Dangling' => Dangling
    BY DEF Dangling
  <1>9. BackFits'
    BY <1>5, <1>7, <1>8 DEF BackInv, BackFits, DanglingFits
  <1>10. live <= N
    BY <1>1, <1>2 DEF BackInv, BackFits
  <1>11. \A n \in Incomplete : n <= N
    BY <1>1 DEF Incomplete, Recorded
  <1> QED
    BY <1>1, <1>4, <1>5, <1>6, <1>9, <1>10, <1>11 DEF N

LEMMA BackRelease ==
  ASSUME TypeInv, RecordInv, BackInv, Foreign \subseteq dirs, NEW r \in Run, ReleaseStep(r)
  PROVE  BackInv'
  <1> DEFINE N  == ReleaseNumber(r)
             rs == [run[r] EXCEPT !.pc = "write", !.num = N]
  <1>1. /\ AtStep(r, "release") /\ N \in Number /\ Set(r, rs)
        /\ dirs' = dirs \cup {N} /\ UNCHANGED <<rec, live>>
    BY DEF ReleaseStep, Due
  <1>2. run[r].pc = "step" /\ Pipeline[run[r].idx] = "release" /\ N # 0
    BY <1>1, ConstantsAssumption DEF AtStep, Number
  <1>3. run'[r] = rs
    BY <1>1, RunIs
  <1>4. /\ rs.pc = "write" /\ rs.cmd = run[r].cmd /\ rs.idx = run[r].idx
        /\ rs.done = run[r].done /\ rs.num = N
    BY RunType DEF RunState, Pc
  <1>5. /\ AheadFits(run[r]) /\ Executes(run[r]) /\ ResultFits(run[r])
        /\ run[r].cmd = "deploy"
    BY <1>2, AtStepFits DEF BackInv, Executes
  <1> HIDE DEF rs
  <1>6. SoFar(rs) = run[r].done \cup {"release"} /\ SoFar(run[r]) = run[r].done
    BY <1>2, <1>4 DEF SoFar
  <1>7. CASE run[r].num = 0
    <2>1. N = NextReleaseNumber
      BY <1>7 DEF ReleaseNumber
    <2>2. /\ BackFits' /\ Incomplete' = Incomplete /\ Recorded' = Recorded
          /\ \A n \in Incomplete : n <= N
          /\ live <= N
          /\ \A f \in Foreign : f < N
          /\ rec[N].status = "none"
      BY <1>1, <2>1, BackNewNumber
    <2>3. {"activate", "cleanup"} \cap SoFar(rs) = {}
      BY <1>5, <1>6, <1>7 DEF AheadFits
    <2> HIDE DEF N
    <2>4. AheadFits(run[r])'
      BY <1>1, <1>2, <1>3, <1>4, <1>5, <2>2, <2>3 DEF AheadFits, Executes
    <2> QED BY <1>1, <1>2, <2>2, <2>4, OthersIdle, BackCommit
  <1>8. CASE run[r].num # 0
    <2>1. N = run[r].num
      BY <1>8 DEF ReleaseNumber
    <2> HIDE DEF N
    <2>2. dirs' = dirs
      BY <1>1, <1>5, <1>8, <2>1 DEF ResultFits
    <2>3. /\ BackFits' /\ Incomplete' = Incomplete /\ Recorded' = Recorded
          /\ Dangling' = Dangling /\ Behind' = Behind
      BY <1>1, <2>2, BackKept
    <2>4. AheadFits(run[r])'
      BY <1>1, <1>2, <1>3, <1>4, <1>5, <1>6, <1>8, <2>1, <2>3 DEF AheadFits, Executes
    <2> QED BY <1>1, <1>2, <2>3, <2>4, OthersIdle, BackCommit
  <1> QED BY <1>7, <1>8

\* A set of release numbers has a greatest one.
LEMMA Greatest ==
  ASSUME NEW S \in SUBSET Number, S # {}
  PROVE  \E v \in S : \A m \in S : m <= v
  <1> DEFINE U == {u \in Nat : \A m \in S : m <= u}
  <1>1. MaxRelease \in Nat /\ \A m \in S : m \in Nat \ {0}
    BY ConstantsAssumption DEF Number
  <1>2. MaxRelease \in U
    BY ConstantsAssumption DEF Number
  <1>3. U \in SUBSET Nat /\ U # {}
    BY <1>2
  <1> HIDE DEF U
  <1>4. PICK u \in U : \A m \in U : ~(<<m, u>> \in OpToRel(<, Nat))
    BY <1>3, NatLessThanWellFounded, WFMin
  <1>5. \A m \in U : ~(m < u)
    BY <1>3, <1>4, Zenon DEF OpToRel
  <1>6. u \in Nat /\ \A m \in S : m <= u
    BY DEF U
  <1>7. u # 0
    BY <1>1, <1>6
  <1>8. u - 1 \in Nat /\ u - 1 \notin U
    BY <1>5, <1>6, <1>7
  <1>9. PICK m \in S : ~(m <= u - 1)
    BY <1>8 DEF U
  <1>10. m = u
    BY <1>1, <1>6, <1>9
  <1> QED BY <1>6, <1>10

LEMMA NumbersFinite ==
  ASSUME TypeInv
  PROVE  Recorded \subseteq Number /\ IsFiniteSet(Recorded)
         /\ \A S : S \subseteq Recorded => IsFiniteSet(S) /\ Cardinality(S) \in Nat
  <1>1. Recorded \subseteq Number
    BY DEF TypeInv, TypeOK, Recorded
  <1>2. IsFiniteSet(Number)
    BY ConstantsAssumption, FS_Interval DEF Number
  <1>3. IsFiniteSet(Recorded)
    BY <1>1, <1>2, FS_Subset
  <1> QED
    BY <1>1, <1>3, FS_Subset, FS_CardinalityType

\* Releases of which something newer was pruned, or more than `keep` are newer.
LEMMA BehindIsPruned ==
  ASSUME TypeInv, RecordInv, BackInv, NEW own \in Recorded \cap Incomplete,
         live <= own, NEW n \in Behind, Dangling \/ live \in Pruned(own)
  PROVE  n \in Pruned(own) /\ n < own
  <1>1. /\ n \in Recorded /\ n \in Int /\ live \in Int /\ own \in Int /\ n < live /\ Keep \in Nat
        /\ \A m \in Recorded : m \in Int
    BY DirsAreNumbers, ConstantsAssumption
    DEF Behind, Incomplete, Recorded, Number, TypeInv, TypeOK
  <1>2. n < own
    BY <1>1
  <1> DEFINE A == {m \in Recorded : m > n}
             B == {m \in Recorded \ {own} : m > n}
  <1>3. IsFiniteSet(A) /\ IsFiniteSet(B) /\ Cardinality(A) \in Nat /\ Cardinality(B) \in Nat
    BY NumbersFinite
  <1>4. CASE Dangling
    <2>1. Cardinality(A) > Keep
      BY <1>4 DEF BackInv, BackFits, DanglingFits
    <2>2. A = B \cup {own} /\ own \notin B
      BY <1>1, <1>2
    <2> HIDE DEF A, B
    <2>3. Cardinality(A) = Cardinality(B) + 1
      BY <1>3, <2>2, FS_AddElement
    <2>4. Cardinality(B) >= Keep
      BY <1>1, <1>3, <2>1, <2>3
    <2> QED BY <1>1, <1>2, <2>4 DEF Pruned, PruneWindow, B
  <1>5. CASE live \in Pruned(own)
    <2> DEFINE C == {m \in Recorded \ {own} : m > live}
    <2>1. Cardinality(C) >= Keep
      BY <1>5 DEF Pruned, PruneWindow
    <2>2. C \subseteq B
      <3> SUFFICES ASSUME NEW m \in Recorded, m # own, m > live
                   PROVE  m > n
        OBVIOUS
      <3>1. m \in Int
        BY <1>1
      <3> QED BY <1>1, <3>1
    <2>3. C \subseteq Recorded
      OBVIOUS
    <2> HIDE DEF B, C
    <2>4. Cardinality(C) \in Nat
      BY <2>3, NumbersFinite
    <2>5. Cardinality(C) <= Cardinality(B)
      BY <1>3, <2>2, FS_Subset
    <2>6. Cardinality(B) >= Keep
      BY <1>1, <1>3, <2>1, <2>4, <2>5
    <2> QED BY <1>1, <1>2, <2>6 DEF Pruned, PruneWindow, B
  <1> QED BY <1>4, <1>5

\* A cleanup that fails half-way removes the newest victims first, and what it
\* kept to spare them stays.
LEMMA PartlyPruned ==
  ASSUME TypeInv, NEW own \in Recorded, NEW n \in Pruned(own), n < own,
         NEW k \in Pruned(own), n < k
  PROVE  Cardinality({m \in Recorded \ {x \in Pruned(own) : x >= k} : m > n}) > Keep
  <1>1. /\ Pruned(own) \in SUBSET Number /\ Pruned(own) # {} /\ Keep \in Nat
        /\ \A m \in Recorded : m \in Int
    <2>1. Recorded \subseteq Number
      BY NumbersFinite
    <2>2. Pruned(own) \subseteq Recorded
      BY DEF Pruned, PruneWindow
    <2>3. Keep \in Nat /\ \A m \in Number : m \in Int
      BY ConstantsAssumption DEF Number
    <2>4. Pruned(own) # {} /\ Pruned(own) \in SUBSET Number
      BY <2>1, <2>2
    <2> QED BY <2>1, <2>3, <2>4
  <1>2. PICK v \in Pruned(own) : \A m \in Pruned(own) : m <= v
    BY <1>1, Greatest
  <1> DEFINE B == {m \in Recorded \ {own} : m > v}
             D == {m \in Recorded \ {x \in Pruned(own) : x >= k} : m > n}
  <1>3. Cardinality(B) >= Keep
    BY <1>2 DEF Pruned, PruneWindow
  <1>4. IsFiniteSet(D) /\ Cardinality(D) \in Nat /\ IsFiniteSet(B) /\ Cardinality(B) \in Nat
    BY NumbersFinite
  <1>5. n \in Int /\ k \in Int /\ v \in Int /\ own \in Int /\ n < v
    BY <1>1, <1>2 DEF Pruned, PruneWindow
  <1>6. B \cup {own} \subseteq D
    <2>1. own \in D
      BY DEF Pruned, PruneWindow
    <2>2. ASSUME NEW m \in B
          PROVE  m \in D
      <3>1. m \in Recorded /\ m > v /\ m \in Int
        BY <1>1
      <3>2. m \notin Pruned(own)
        BY <1>2, <1>5, <3>1
      <3> QED BY <1>5, <3>1, <3>2
    <2> QED BY <2>1, <2>2
  <1>7. own \notin B
    OBVIOUS
  <1> HIDE DEF B, D
  <1>8. IsFiniteSet(B \cup {own}) /\ Cardinality(B \cup {own}) = Cardinality(B) + 1
    BY <1>4, <1>7, FS_AddElement
  <1>9. Cardinality(B \cup {own}) <= Cardinality(D)
    BY <1>4, <1>6, <1>8, FS_Subset
  <1>10. Cardinality(D) > Keep
    BY <1>1, <1>3, <1>4, <1>8, <1>9
  <1> QED BY <1>10 DEF D

LEMMA BackPruned ==
  ASSUME TypeInv, RecordInv, BackInv, PlanInOrder, OncePerTask, NEW r \in Run,
         AtStep(r, "cleanup"), "cleanup" \notin run[r].carried,
         NEW l \in {"write", "failed"}, Goto(r, l),
         NEW S, RemoveReleases(S), UNCHANGED live,
         \/ l = "write" /\ S = Pruned(run[r].num)
         \/ l = "failed" /\ \E k \in Pruned(run[r].num) : S = {n \in Pruned(run[r].num) : n >= k}
  PROVE  BackInv'
  <1> DEFINE N  == run[r].num
             P  == Pruned(N)
             rs == [run[r] EXCEPT !.pc = l]
  <1>1. /\ run[r] \in RunState /\ run[r].pc = "step" /\ Pipeline[run[r].idx] = "cleanup"
        /\ run[r].idx \in 1 .. Len(Pipeline) /\ ProgressFits(run[r]) /\ ResultFits(run[r])
    BY AtStepFits, PipelineAssumption DEF AtStep, RunState
  <1>2. Set(r, rs) /\ run'[r] = rs
    BY RunIs DEF Goto
  <1>3. /\ rs.pc = l /\ rs.cmd = run[r].cmd /\ rs.idx = run[r].idx
        /\ rs.done = run[r].done /\ rs.num = run[r].num
    BY <1>1 DEF RunState
  <1> HIDE DEF rs
  <1>4. /\ N # 0 /\ N \in dirs /\ N \in Nat /\ N \in Number
        /\ AheadFits(run[r]) /\ Executes(run[r]) /\ run[r].cmd = "deploy"
    BY BackNumbered, DirsAreNumbers
  <1>5. S \subseteq P /\ N \notin S
    BY DEF Pruned, PruneWindow
  <1>6. /\ dirs' = dirs \ S /\ Recorded' = Recorded \ S /\ Incomplete' = Incomplete \ S
        /\ \A n \in Number \ S : rec'[n] = rec[n]
    BY DirsAreNumbers DEF RemoveReleases, Recorded, Incomplete, NoRecord
  <1>7. /\ \A n \in Incomplete : n <= N
        /\ live <= N
        /\ \A f \in Foreign : f < N
        /\ rec[N].status # "ok"
        /\ "activate" \in run[r].done => live = N \/ N \in Recorded
    BY <1>1, <1>4 DEF AheadFits, SoFar
  <1>8. "activate" \in run[r].done
    BY PassedBefore DEF PlanInOrder, Task
  <1>9. "cleanup" \notin run[r].done /\ "cleanup" \notin rec[N].done
    <2>1. "cleanup" \notin Lasting(run[r].done)
      BY <1>1, <1>4 DEF ProgressFits
    <2>2. Lasting(rec[N].done) \subseteq run[r].done
      BY <1>1, <1>4 DEF ResultFits
    <2> QED BY <2>1, <2>2 DEF Lasting, ResumeAlwaysReruns
  <1>10. ASSUME Dangling'
         PROVE  /\ N \in Recorded \cap Incomplete /\ live < N
                /\ Behind' \subseteq Behind /\ Behind' \cap S = {}
                /\ \A n \in Behind' : n \in P /\ n < N
    <2>1. live \notin dirs' /\ live # 0 /\ live \in Int
      BY <1>10, ConstantsAssumption DEF Dangling, TypeInv, TypeOK
    <2>2. live # N
      BY <1>4, <1>5, <1>6, <2>1
    <2>3. N \in Recorded \cap Incomplete /\ live < N
      BY <1>4, <1>7, <1>8, <2>1, <2>2 DEF Incomplete
    <2>4. Behind' \subseteq Behind /\ Behind' \cap S = {}
      BY <1>6 DEF Behind
    <2>5. Dangling \/ live \in P
      BY <1>5, <1>6, <2>1 DEF Dangling
    <2> HIDE DEF N, P
    <2>6. \A n \in Behind' : n \in P /\ n < N
      BY <1>7, <2>3, <2>4, <2>5, BehindIsPruned DEF P
    <2> QED BY <2>3, <2>4, <2>6
  <1>11. ASSUME Dangling', NEW n \in Behind'
         PROVE  l = "failed" /\ Cardinality({m \in Recorded' : m > n}) > Keep
    <2>1. n \in P /\ n < N /\ n \notin S /\ N \in Recorded
      BY <1>10, <1>11
    <2>2. l = "failed"
      BY <2>1
    <2>3. PICK k \in P : S = {x \in P : x >= k}
      BY <2>2
    <2>4. n \in Int /\ k \in Int
      BY <2>1, NumbersFinite, ConstantsAssumption DEF Pruned, PruneWindow, Number
    <2>5. n < k
      BY <2>1, <2>3, <2>4
    <2> HIDE DEF N
    <2>6. Cardinality({m \in Recorded \ {x \in P : x >= k} : m > n}) > Keep
      BY <2>1, <2>5, PartlyPruned
    <2> QED BY <1>6, <2>2, <2>3, <2>6
  <1>12. ASSUME Dangling', Behind' # {}
         PROVE  \E own \in IncompleteRelease' : own > live /\ "cleanup" \notin rec'[own].done
    <2>1. N \in Incomplete /\ live < N /\ live \in Int
      BY <1>10, <1>12, ConstantsAssumption DEF TypeInv, TypeOK
    <2>2. N \in IncompleteRelease'
      BY <1>5, <1>6, <1>7, <2>1 DEF IncompleteRelease
    <2>3. "cleanup" \notin rec'[N].done
      BY <1>4, <1>5, <1>6, <1>9
    <2> QED BY <1>4, <2>1, <2>2, <2>3
  <1>13. "cleanup" \in Required
    BY <1>1 DEF Required
  <1>14. DanglingFits'
    BY <1>11, <1>12, <1>13 DEF DanglingFits, Required
  <1>15. BackFits'
    BY <1>4, <1>5, <1>6, <1>7, <1>14 DEF BackInv, BackFits
  <1>16. "cleanup" \in SoFar(rs) /\ Dangling' => Behind' = {}
    <2>1. l = "failed" => "cleanup" \notin SoFar(rs)
      BY <1>3, <1>9 DEF SoFar
    <2> QED BY <1>11, <2>1
  <1>17. "activate" \in SoFar(rs) => live = N \/ N \in Recorded'
    BY <1>5, <1>6, <1>7, <1>8
  <1>18. \A n \in Incomplete' : n <= N
    BY <1>6, <1>7
  <1>19. rec'[N].status # "ok"
    BY <1>4, <1>5, <1>6, <1>7
  <1> HIDE DEF P
  <1>20. AheadFits(run[r])'
    BY <1>2, <1>3, <1>4, <1>7, <1>16, <1>17, <1>18, <1>19 DEF AheadFits, Executes
  <1> QED
    BY <1>1, <1>2, <1>15, <1>20, OthersIdle, BackCommit

LEMMA BackFails ==
  ASSUME TypeInv, RecordInv, BackInv, PlanInOrder, OncePerTask, Foreign \subseteq dirs,
         NEW r \in Run, StepFails(r)
  PROVE  BackInv'
  <1>1. PICK t \in Task : AtStep(r, t) /\ t \notin run[r].carried /\ HalfDone(r, t)
    BY DEF StepFails, Due
  <1>2. Goto(r, "failed") /\ run[r].pc = "step" /\ Executes(run[r])
    BY <1>1 DEF StepFails, AtStep, Executes
  <1>3. CASE UNCHANGED <<dirs, rec, live>>
    BY <1>2, <1>3, BackOutside
  <1>4. CASE t = "cleanup" /\ UNCHANGED live
               /\ \E k \in Pruned(run[r].num) : RemoveReleases({n \in Pruned(run[r].num) : n >= k})
    <2>1. PICK k \in Pruned(run[r].num) : RemoveReleases({n \in Pruned(run[r].num) : n >= k})
      BY <1>4
    <2> QED BY <1>1, <1>2, <1>4, <2>1, BackPruned
  <1>5. CASE t = "activate" /\ live' = run[r].num /\ UNCHANGED <<dirs, rec>>
    BY <1>1, <1>2, <1>5, BackActivates
  <1>6. CASE /\ run[r].num = 0 /\ NextReleaseNumber \in Number
             /\ dirs' = dirs \cup {NextReleaseNumber} /\ UNCHANGED <<rec, live>>
    <2> DEFINE rs == [run[r] EXCEPT !.pc = "failed"]
    <2>1. Set(r, rs) /\ run'[r] = rs
      BY <1>2, RunIs DEF Goto
    <2>2. /\ rs.pc = "failed" /\ rs.cmd = run[r].cmd
          /\ rs.done = run[r].done /\ rs.num = run[r].num
      BY RunType DEF RunState
    <2>3. BackFits'
      BY <1>6, BackNewNumber
    <2>4. AheadFits(run[r])
      BY DEF BackInv
    <2> HIDE DEF rs
    <2>5. AheadFits(run[r])'
      BY <1>2, <1>6, <2>1, <2>2, <2>4 DEF AheadFits, Executes, SoFar
    <2> QED BY <1>2, <2>1, <2>3, <2>5, OthersIdle, BackCommit
  <1> QED
    BY <1>1, <1>3, <1>4, <1>5, <1>6 DEF HalfDone, target

\* Storing the record of the command, or losing it.
LEMMA BackStored ==
  ASSUME TypeInv, RecordInv, BackInv, NEW r \in Run, Executes(run[r]),
         NEW stored \in RunState,
         StoreRecord(stored) \/ BestEffortWrite(stored), UNCHANGED live,
         stored.num = run[r].num, stored.done \subseteq SoFar(run[r]),
         stored.status # "none", stored.status = "ok" => Required \subseteq stored.done
  PROVE  /\ BackFits' /\ Recorded \subseteq Recorded'
         /\ Dangling' => Dangling /\ Behind' \subseteq Behind
         /\ stored.num # 0 => \A n \in Incomplete' : n <= stored.num
         /\ stored.num # 0 /\ stored.status # "ok" => rec'[stored.num].status # "ok"
  <1>1. AheadFits(run[r]) /\ ResultFits(run[r]) /\ BackFits
    BY DEF BackInv, RecordInv, CommandFits
  <1>2. CASE UNCHANGED <<rec, dirs>>
    <2>1. /\ BackFits' /\ Incomplete' = Incomplete /\ Recorded' = Recorded
          /\ Dangling' = Dangling /\ Behind' = Behind
      BY <1>2, BackKept
    <2> QED BY <1>1, <1>2, <2>1 DEF AheadFits
  <1>3. CASE /\ stored.num # 0 /\ dirs' = dirs \cup {stored.num}
             /\ rec' = [rec EXCEPT ![stored.num] = [status |-> stored.status,
                                                    done |-> stored.done]]
    <2> DEFINE N == stored.num
    <2>1. dirs' = dirs /\ N \in Number /\ N \in dirs
      BY <1>1, <1>3, DirsAreNumbers DEF ResultFits
    <2>2. \A n \in Number : rec'[n] = IF n = N
                                        THEN [status |-> stored.status, done |-> stored.done]
                                        ELSE rec[n]
      BY <1>3 DEF TypeInv, TypeOK
    <2>3. /\ Recorded' = Recorded \cup {N}
          /\ Incomplete' = IF stored.status = "ok" THEN Incomplete \ {N} ELSE Incomplete \cup {N}
      BY <2>1, <2>2, DirsAreNumbers DEF Recorded, Incomplete
    <2>4. N \in Int /\ live \in Int /\ N <= N
      BY <2>1, ConstantsAssumption DEF Number, TypeInv, TypeOK
    <2>5. /\ \A n \in Incomplete : n <= N
          /\ live <= N
          /\ \A f \in Foreign : f < N
          /\ "cleanup" \in stored.done /\ Dangling => Behind = {}
      BY <1>1, <1>3 DEF AheadFits
    <2> HIDE DEF N
    <2>6. Dangling' = Dangling /\ Behind' \subseteq Behind
      <3>1. ~(N < live)
        BY <2>4, <2>5
      <3> QED BY <2>1, <2>3, <3>1 DEF Dangling, Behind
    <2>7. ASSUME Dangling', Behind' # {}
          PROVE  /\ "cleanup" \in Required
                 /\ \A n \in Behind' : Cardinality({m \in Recorded' : m > n}) > Keep
                 /\ \E own \in IncompleteRelease' :
                      own > live /\ "cleanup" \notin rec'[own].done
      <3>1. "cleanup" \in Required /\ "cleanup" \notin stored.done /\ live # N
        BY <1>1, <2>1, <2>5, <2>6, <2>7 DEF BackFits, DanglingFits, Dangling
      <3>2. stored.status # "ok" /\ N \in IncompleteRelease'
        BY <2>3, <2>4, <2>5, <3>1 DEF IncompleteRelease
      <3>3. N > live /\ "cleanup" \notin rec'[N].done
        BY <2>1, <2>2, <2>4, <2>5, <3>1
      <3>4. ASSUME NEW n \in Behind'
            PROVE  Cardinality({m \in Recorded' : m > n}) > Keep
        <4> DEFINE A == {m \in Recorded : m > n}
                   B == {m \in Recorded' : m > n}
        <4>1. Cardinality(A) > Keep
          BY <1>1, <2>6, <2>7, <3>4 DEF BackFits, DanglingFits
        <4>2. B \subseteq Number /\ A \subseteq B /\ A \subseteq Recorded
          BY <2>1, <2>3, NumbersFinite
        <4> HIDE DEF A, B
        <4>3. IsFiniteSet(Number)
          BY ConstantsAssumption, FS_Interval DEF Number
        <4>4. IsFiniteSet(B) /\ Cardinality(A) \in Nat
          BY <4>2, <4>3, FS_Subset, NumbersFinite
        <4>5. Cardinality(B) \in Nat /\ Cardinality(A) <= Cardinality(B)
          BY <4>2, <4>4, FS_Subset, FS_CardinalityType
        <4>6. Cardinality(B) > Keep
          BY <4>1, <4>4, <4>5, ConstantsAssumption
        <4> QED BY <4>6 DEF B
      <3> QED BY <3>1, <3>2, <3>3, <3>4
    <2>8. DanglingFits'
      BY <2>7 DEF DanglingFits, Required
    <2>9. BackFits'
      BY <1>1, <2>1, <2>3, <2>5, <2>8 DEF BackFits
    <2>10. \A n \in Incomplete' : n <= N
      BY <2>3, <2>4, <2>5
    <2>11. stored.status # "ok" => rec'[N].status # "ok"
      BY <2>1, <2>2
    <2> QED BY <2>3, <2>6, <2>9, <2>10, <2>11 DEF N
  <1> QED
    BY <1>2, <1>3 DEF StoreRecord, BestEffortWrite, WriteRelease

\* The loop passes a step.
LEMMA BackPasses ==
  ASSUME TypeInv, RecordInv, BackInv, NEW r \in Run, run[r].pc \in {"step", "write"},
         NEW rs \in RunState, Set(r, rs), StoreRecord(rs), UNCHANGED live,
         rs.pc = "step", rs.cmd = run[r].cmd, rs.num = run[r].num, rs.status = run[r].status,
         rs.done \subseteq SoFar(run[r])
  PROVE  BackInv'
  <1>1. Executes(run[r]) /\ AheadFits(run[r]) /\ ProgressFits(run[r])
    BY DEF BackInv, RecordInv, CommandFits, Executes
  <1>2. rs.status # "none" /\ rs.status # "ok" /\ rs.cmd = "deploy"
    BY <1>1 DEF ProgressFits
  <1>3. /\ BackFits' /\ Recorded \subseteq Recorded'
        /\ Dangling' => Dangling /\ Behind' \subseteq Behind
        /\ rs.num # 0 => \A n \in Incomplete' : n <= rs.num
        /\ rs.num # 0 => rec'[rs.num].status # "ok"
    BY <1>1, <1>2, BackStored
  <1>4. run'[r] = rs
    BY RunIs
  <1>5. SoFar(rs) = rs.done
    BY DEF SoFar
  <1>6. AheadFits(run[r])'
    <2>1. CASE rs.num = 0
      BY <1>1, <1>2, <1>4, <1>5, <2>1 DEF AheadFits
    <2>2. CASE rs.num # 0
      BY <1>1, <1>2, <1>3, <1>4, <1>5, <2>2 DEF AheadFits
    <2> QED BY <2>1, <2>2
  <1> QED
    BY <1>1, <1>3, <1>6, OthersIdle, BackCommit DEF Executes

LEMMA BackRecord ==
  ASSUME TypeInv, RecordInv, BackInv, NEW r \in Run,
         CarryOver(r) \/ SkipLockStep(r) \/ RecordStep(r) \/ RecordFailure(r) \/ FinishRun(r)
  PROVE  BackInv'
  <1>1. /\ run[r] \in RunState /\ PcFits(run[r]) /\ Executes(run[r]) /\ run[r].pc # "idle"
        /\ UNCHANGED live /\ ProgressFits(run[r])
    BY RunType DEF CarryOver, SkipLockStep, RecordStep, RecordFailure, FinishRun, AtStep,
                   RecordInv, CommandFits, Executes
  <1>2. CASE CarryOver(r)
    <2> DEFINE rs == [run[r] EXCEPT !.idx = @ + 1]
    <2>1. Set(r, rs) /\ StoreRecord(run[r]) /\ run[r].pc = "step"
      BY <1>2 DEF CarryOver, AtStep
    <2>2. /\ rs \in RunState /\ rs.pc = "step" /\ rs.cmd = run[r].cmd
          /\ rs.num = run[r].num /\ rs.status = run[r].status /\ rs.done = run[r].done
      BY <1>1, <2>1 DEF RunState
    <2> HIDE DEF rs
    <2>3. StoreRecord(rs) /\ rs.done \subseteq SoFar(run[r])
      BY <2>1, <2>2 DEF StoreRecord, BestEffortWrite, WriteRelease, SoFar
    <2> QED BY <1>1, <2>1, <2>2, <2>3, BackPasses
  <1>3. CASE SkipLockStep(r)
    <2>1. PICK t \in {"lock", "unlock"} :
            /\ AtStep(r, t)
            /\ Set(r, [run[r] EXCEPT !.idx = @ + 1, !.done = @ \ {t}])
            /\ StoreRecord([run[r] EXCEPT !.idx = @ + 1, !.done = @ \ {t}])
      BY <1>3 DEF SkipLockStep
    <2> DEFINE rs == [run[r] EXCEPT !.idx = @ + 1, !.done = @ \ {t}]
    <2>2. Set(r, rs) /\ StoreRecord(rs) /\ run[r].pc = "step"
      BY <2>1 DEF AtStep
    <2>3. /\ rs \in RunState /\ rs.pc = "step" /\ rs.cmd = run[r].cmd
          /\ rs.num = run[r].num /\ rs.status = run[r].status /\ rs.done \subseteq run[r].done
      <3>1. run[r].idx + 1 \in Nat /\ run[r].done \ {t} \subseteq Task
        BY <1>1 DEF RunState
      <3> QED BY <1>1, <2>2, <3>1 DEF RunState
    <2> HIDE DEF rs
    <2>4. rs.done \subseteq SoFar(run[r])
      BY <2>3 DEF SoFar
    <2> QED BY <1>1, <2>2, <2>3, <2>4, BackPasses
  <1>4. CASE RecordStep(r)
    <2> DEFINE t  == Pipeline[run[r].idx]
               rs == [run[r] EXCEPT !.pc = "step", !.idx = @ + 1, !.done = @ \cup {t},
                                    !.held = @ \/ t = "lock"]
    <2>1. run[r].pc = "write" /\ run[r].idx \in 1 .. Len(Pipeline)
      BY <1>1, <1>4 DEF RecordStep, PcFits
    <2>2. t \in Task /\ SoFar(run[r]) = run[r].done \cup {t}
      BY <2>1, TaskAtIndex DEF SoFar
    <2>3. Set(r, rs) /\ StoreRecord(rs)
      BY <1>4 DEF RecordStep
    <2> HIDE DEF t
    <2>4. /\ rs \in RunState /\ rs.pc = "step" /\ rs.cmd = run[r].cmd
          /\ rs.num = run[r].num /\ rs.status = run[r].status
          /\ rs.done = run[r].done \cup {t}
      <3>1. run[r].idx + 1 \in Nat /\ run[r].done \cup {t} \subseteq Task
        BY <1>1, <2>2 DEF RunState
      <3>2. (run[r].held \/ t = "lock") \in BOOLEAN
        OBVIOUS
      <3> QED BY <1>1, <3>1, <3>2 DEF RunState, Pc
    <2> HIDE DEF rs
    <2> QED BY <1>1, <2>1, <2>2, <2>3, <2>4, BackPasses
  <1>5. CASE RecordFailure(r)
    <2> DEFINE t  == Pipeline[run[r].idx]
               rs == [run[r] EXCEPT !.pc = "release", !.status = "failed", !.done = @ \ {t}]
    <2>1. (Set(r, rs) \/ Set(r, Idle)) /\ BestEffortWrite(rs) /\ run[r].pc = "failed"
      BY <1>5 DEF RecordFailure
    <2> HIDE DEF t
    <2>2. /\ rs \in RunState /\ rs.pc = "release" /\ rs.num = run[r].num
          /\ rs.cmd = run[r].cmd /\ rs.status = "failed" /\ rs.done = run[r].done \ {t}
      BY <1>1 DEF RunState, Pc
    <2> HIDE DEF rs
    <2>3. rs.done \subseteq SoFar(run[r])
      BY <2>2 DEF SoFar
    <2>4. BackFits'
      BY <1>1, <2>1, <2>2, <2>3, BackStored
    <2> QED BY <1>1, <2>1, <2>2, <2>4, BackBystander DEF Idle
  <1>6. CASE FinishRun(r)
    <2> DEFINE rs == [run[r] EXCEPT !.status = "ok"]
    <2>1. BestEffortWrite(rs) /\ Set(r, Idle) /\ run[r].pc = "step" /\ run[r].idx > Len(Pipeline)
      BY <1>6 DEF FinishRun
    <2>2. rs \in RunState /\ rs.num = run[r].num /\ rs.status = "ok" /\ rs.done = run[r].done
      BY <1>1 DEF RunState
    <2> HIDE DEF rs
    <2>3. \A i \in 1 .. Len(Pipeline) : i < run[r].idx
      BY <1>1, <2>1, PipelineAssumption DEF RunState
    <2>4. Required \subseteq rs.done /\ rs.done \subseteq SoFar(run[r])
      BY <1>1, <2>2, <2>3 DEF ProgressFits, Required, SoFar
    <2>5. BackFits'
      BY <1>1, <2>1, <2>2, <2>4, BackStored
    <2> QED BY <1>1, <2>1, <2>5, BackBystander DEF Idle
  <1> QED
    BY <1>2, <1>3, <1>4, <1>5, <1>6

LEMMA BackInit == Init => BackInv
  <1> SUFFICES ASSUME Init PROVE BackInv
    OBVIOUS
  <1>1. \A r \in Run : AheadFits(run[r])
    BY DEF Init, Idle, AheadFits, Executes
  <1>2. Recorded = {} /\ ~Dangling
    BY ConstantsAssumption DEF Init, Recorded, NoRecord, Dangling, Number
  <1>3. live = 0 \/ \E d \in dirs : live <= d
    <2>1. live = 0 \/ live \in dirs
      BY DEF Init
    <2>2. \A d \in dirs : d \in Int
      BY ConstantsAssumption DEF Init, Number
    <2> QED BY <2>1, <2>2
  <1> QED BY <1>1, <1>2, <1>3 DEF BackInv, BackFits, DanglingFits

LEMMA BackNext ==
  ASSUME TypeInv, RecordInv, BackInv, Exclusive, OncePerTask, PlanInOrder, LiveIsRecorded,
         Foreign \subseteq dirs, [Next]_vars
  PROVE  BackInv'
  <1>1. ASSUME NEW r \in Run,
               \/ \E skip \in SkipLock :
                    StartDeploy(r, skip) \/ StartResume(r, skip) \/ RollbackSelect(r, skip)
               \/ \E force \in UnlockForce : UnlockCheck(r, force)
        PROVE  BackInv'
    BY <1>1, BackIssue
  <1>2. ASSUME NEW r \in Run, CleanupStep(r)
        PROVE  BackInv'
    BY <1>2, BackPruned DEF CleanupStep, Due
  <1>3. ASSUME NEW r \in Run, ActivateStep(r)
        PROVE  BackInv'
    BY <1>3, BackActivates DEF ActivateStep, Due
  <1>4. ASSUME NEW r \in Run, Step(r)
        PROVE  BackInv'
    BY <1>2, <1>3, <1>4, BackRecovery, BackBystanders, BackTaken, BackRelease, BackRecord DEF Step
  <1>5. ASSUME NEW r \in Run, StepFails(r) \/ Crash(r)
        PROVE  BackInv'
    BY <1>5, BackFails, BackBystanders
  <1>6. CASE UNCHANGED <<dirs, rec, live, run>>
    BY <1>6, BackKept DEF BackInv, AheadFits, Executes, SoFar
  <1> QED
    BY <1>1, <1>4, <1>5, <1>6 DEF Next, Quiet, LockAges, vars, target

\* Who may put a release live.
LEMMA LiveMoves ==
  ASSUME [Next]_vars, live' # live
  PROVE  \E s \in Run :
           \/ RollbackActivate(s)
           \/ /\ ActivateStep(s) \/ StepFails(s)
              /\ AtStep(s, "activate") /\ live' = run[s].num /\ UNCHANGED <<dirs, rec>>
  <1>1. PICK s \in Run :
          \/ Step(s) \/ StepFails(s) \/ Crash(s)
          \/ \E skip \in SkipLock :
               StartDeploy(s, skip) \/ StartResume(s, skip) \/ RollbackSelect(s, skip)
          \/ \E force \in UnlockForce : UnlockCheck(s, force)
    BY DEF Next, LockAges, Quiet, vars, target
  <1>2. CASE StepFails(s)
    <2>1. PICK t \in Task : AtStep(s, t) /\ HalfDone(s, t)
      BY <1>2 DEF StepFails, Due
    <2>2. AtStep(s, "activate") /\ live' = run[s].num /\ UNCHANGED <<dirs, rec>>
      BY <2>1 DEF HalfDone, target
    <2> QED BY <1>2, <2>2
  <1>3. CASE ActivateStep(s)
    BY <1>3 DEF ActivateStep, Due
  <1>4. RollbackActivate(s) \/ ActivateStep(s) \/ StepFails(s)
    BY <1>1
    DEF Step, ResumeCheckLock, ResumeCheckLive, ResumeUnlock, ResumeRun, CarryOver, SkipLockStep,
        PlainStep, LockMkdir, LockOwner, ReleaseStep, VerifyStep, CleanupStep, UnlockStep,
        StepRefused, RecordStep, RecordFailure, ReleaseLockAfterFailure, FinishRun, RollbackUnlock,
        UnlockRemove, Crash, StartDeploy, StartResume, RollbackSelect, UnlockCheck, target
  <1> QED BY <1>2, <1>3, <1>4

LEMMA DeployGoesForward ==
  ASSUME TypeInv, RecordInv, BackInv, PlanInOrder, [Next]_vars, NEW r \in Run,
         run[r].cmd = "deploy", run'[r] # run[r]
  PROVE  live' >= live
  <1> SUFFICES ASSUME live' # live PROVE live' >= live
    BY ConstantsAssumption DEF TypeInv, TypeOK
  <1>1. PICK s \in Run :
          \/ RollbackActivate(s)
          \/ /\ ActivateStep(s) \/ StepFails(s)
             /\ AtStep(s, "activate") /\ live' = run[s].num /\ UNCHANGED <<dirs, rec>>
    BY LiveMoves
  <1>2. CASE RollbackActivate(s)
    <2>1. run[s].cmd = "rollback"
      BY <1>2 DEF RollbackActivate, BackInv, AheadFits
    <2>2. s # r
      BY <2>1
    <2>3. run'[r] = run[r]
      BY <1>2, <2>2, OthersKeep DEF Step
    <2> QED BY <2>3
  <1>3. CASE /\ ActivateStep(s) \/ StepFails(s)
             /\ AtStep(s, "activate") /\ live' = run[s].num /\ UNCHANGED <<dirs, rec>>
    <2>1. Goto(s, "write") \/ Goto(s, "failed")
      BY <1>3 DEF ActivateStep, StepFails
    <2> QED BY <1>3, <2>1, BackActivates
  <1> QED BY <1>1, <1>2, <1>3

\* prepareResume, "Never resume backwards": no deploy, resumed or not, puts an
\* older release in front of a newer one, whatever rolled back, failed or was
\* pruned before.  Not without LiveIsRecorded: the check needs a record of what is
\* live.
THEOREM NeverResumedBackwards ==
  Spec /\ Exclusive /\ OncePerTask /\ PlanInOrder /\ []LiveIsRecorded => NeverBackwards
  <1> DEFINE Plan == Exclusive /\ OncePerTask /\ PlanInOrder
             Inv  == TypeInv /\ RecordInv /\ ForeignInv
  <1>1. Plan => Plan'
    BY DEF Exclusive, OncePerTask, PlanInOrder, Before
  <1>2. Spec /\ Exclusive => []Inv
    <2>1. Init => ForeignInv
      BY ForeignInit
    <2>2. TypeInv /\ ForeignInv /\ [Next]_vars => ForeignInv'
      BY ForeignNext
    <2> QED BY <2>1, <2>2, RecordsAreSound, PTL DEF Spec
  <1>3. Init => BackInv
    BY BackInit
  <1>4. Inv /\ Plan /\ LiveIsRecorded /\ BackInv /\ [Next]_vars => BackInv'
    BY BackNext DEF ForeignInv, ForeignUntouched
  <1>5. Inv /\ Plan /\ BackInv /\ [Next]_vars
        => [\A r \in Run : run[r].cmd = "deploy" /\ run'[r] # run[r] => live' >= live]_vars
    BY DeployGoesForward
  <1> HIDE DEF Inv
  <1>6. Spec /\ []Inv /\ []Plan /\ []LiveIsRecorded => []BackInv
    BY <1>3, <1>4, PTL DEF Spec
  <1> QED
    BY <1>1, <1>2, <1>5, <1>6, PTL DEF Spec, NeverBackwards
=============================================================================
