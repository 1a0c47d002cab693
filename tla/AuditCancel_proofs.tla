-------------------------- MODULE AuditCancel_proofs ------------------------
(***************************************************************************)
(* For any runs and any number of cancellers: the state keeps its type,    *)
(* and an acknowledged cancel is honoured.                                 *)
(***************************************************************************)
EXTENDS AuditCancel, TLAPS

(***************************************************************************)
(* The inductive invariant.  A run that may still record and that a cancel *)
(* has taken from the registry carries a won mark, or the canceller that   *)
(* took it has not settled yet and will leave one.                         *)
(***************************************************************************)
Recording(o) == audit[o] \in {"analysing", "discarding", "checked"}

RegisteredRuns == \A o \in registered : Recording(o) \/ At(o, "leaving")

AcknowledgedRuns == \A o \in acknowledged : ~At(o, "new")

ClaimedIsAcknowledged ==
    \A k \in Cancellers, o \in Audits : Settling(k, o) => o \in acknowledged

MarkOrCanceller ==
    \A o \in acknowledged :
        Recording(o) => mark[o] = "won" \/ \E k \in Cancellers : Settling(k, o)

IInv ==
    /\ TypeOK
    /\ RegisteredRuns
    /\ AcknowledgedRuns
    /\ ClaimedIsAcknowledged
    /\ MarkOrCanceller

\* The initial state satisfies the inductive invariant: no run has started
\* and no canceller is under way.
LEMMA InitIInv == Init => IInv
  BY DEF Init, IInv, TypeOK, AuditPcs, CancelStates, Idle, RegisteredRuns,
         AcknowledgedRuns, ClaimedIsAcknowledged, MarkOrCanceller, Recording,
         At, Settling

\* What a canceller is: one that is not idle has a run of the constants.
LEMMA CancellerKinds ==
    ASSUME TypeOK, NEW k \in Cancellers, cancel[k] # Idle
    PROVE  cancel[k] \in [pc : {"marked", "claimed", "fired", "refused"},
                          op : Audits, newly : BOOLEAN]
  BY DEF TypeOK, CancelStates

\* Every step of a run keeps the inductive invariant: a run that leaves the
\* steps before its record needs no mark any more.
LEMMA AuditStepIInv ==
    ASSUME IInv, NEW o \in Audits, AuditStep(o)
    PROVE  IInv'
<1> USE DEF IInv, TypeOK, RegisteredRuns, AcknowledgedRuns,
            ClaimedIsAcknowledged, MarkOrCanceller, Recording, At, Goto,
            ClearMark, Settling, AuditPcs
<1>1. CASE RegisterOp(o)
  BY <1>1 DEF RegisterOp
<1>2. CASE AnalysisReturns(o)
  BY <1>2 DEF AnalysisReturns
<1>3. CASE TakeAuditOpCancelled(o)
  BY <1>3 DEF TakeAuditOpCancelled
<1>4. CASE RecordUnlessCancelled(o)
  BY <1>4 DEF RecordUnlessCancelled
<1>5. CASE FinishOp(o)
  BY <1>5 DEF FinishOp
<1>6. CASE ForgetAuditOpCancelled(o)
  BY <1>6 DEF ForgetAuditOpCancelled
<1> QED
  BY <1>1, <1>2, <1>3, <1>4, <1>5, <1>6 DEF AuditStep

\* A new canceller marks a run: a won mark stays, and nobody settles yet.
LEMMA MarkIInv ==
    ASSUME IInv, NEW k \in Cancellers, NEW o \in Audits,
           MarkAuditOpCancelled(k, o)
    PROVE  IInv'
<1> DEFINE new == [pc |-> "marked", op |-> o, newly |-> mark[o] = "none"]
<1>1. (mark[o] = "none") \in BOOLEAN
  OBVIOUS
<1>2. new \in CancelStates
  BY <1>1 DEF CancelStates
<1>3. /\ cancel' = [cancel EXCEPT ![k] = new]
      /\ mark' = [mark EXCEPT ![o] = IF @ = "none" THEN "asked" ELSE @]
      /\ UNCHANGED <<audit, registered, dead, banner, acknowledged>>
      /\ cancel[k] = Idle
  BY DEF MarkAuditOpCancelled
<1>4. new.pc = "marked"
  OBVIOUS
<1> HIDE DEF new
<1>5. TypeOK'
  BY <1>2, <1>3 DEF IInv, TypeOK
<1>6. \A j \in Cancellers, p \in Audits : Settling(j, p)' <=> Settling(j, p)
  BY <1>3, <1>4 DEF IInv, TypeOK, Settling, Idle
<1>7. RegisteredRuns' /\ AcknowledgedRuns' /\ ClaimedIsAcknowledged'
  BY <1>3, <1>6 DEF IInv, RegisteredRuns, AcknowledgedRuns,
                    ClaimedIsAcknowledged, Recording, At
<1>8. MarkOrCanceller'
  BY <1>3, <1>6 DEF IInv, TypeOK, MarkOrCanceller, Recording
<1> QED
  BY <1>5, <1>7, <1>8 DEF IInv

\* CancelOp takes the run and becomes its canceller, or is refused.
LEMMA CancelOpIInv ==
    ASSUME IInv, NEW k \in Cancellers, CancelOp(k)
    PROVE  IInv'
<1> DEFINE o == cancel[k].op
           to == IF o \in registered THEN "claimed" ELSE "refused"
<1>1. /\ cancel[k].pc = "marked"
      /\ registered' = registered \ {o}
      /\ acknowledged' = IF o \in registered THEN acknowledged \cup {o}
                                             ELSE acknowledged
      /\ cancel' = [cancel EXCEPT ![k].pc = to]
      /\ UNCHANGED <<audit, dead, mark, banner>>
  BY DEF CancelOp
<1>2. cancel[k] \in [pc : {"marked", "claimed", "fired", "refused"},
                     op : Audits, newly : BOOLEAN]
  BY <1>1, CancellerKinds DEF IInv, Idle
<1>3. /\ cancel' \in [Cancellers -> CancelStates]
      /\ cancel'[k].pc = to /\ cancel'[k].op = o
      /\ \A j \in Cancellers \ {k} : cancel'[j] = cancel[j]
  BY <1>1, <1>2 DEF IInv, TypeOK, CancelStates
<1>4. TypeOK' /\ RegisteredRuns'
  BY <1>1, <1>2, <1>3 DEF IInv, TypeOK, RegisteredRuns, Recording, At
<1>5. AcknowledgedRuns'
  BY <1>1 DEF IInv, AcknowledgedRuns, RegisteredRuns, Recording, At
<1>6. \A j \in Cancellers, p \in Audits :
          Settling(j, p)' <=> \/ Settling(j, p)
                              \/ j = k /\ p = o /\ o \in registered
  BY <1>1, <1>2, <1>3 DEF Settling
<1>7. ClaimedIsAcknowledged'
  BY <1>1, <1>6 DEF IInv, ClaimedIsAcknowledged
<1>8. MarkOrCanceller'
  BY <1>1, <1>2, <1>6 DEF IInv, TypeOK, MarkOrCanceller, Recording
<1> QED
  BY <1>4, <1>5, <1>7, <1>8 DEF IInv

\* Firing the context keeps the canceller, whose run is acknowledged.
LEMMA FireIInv ==
    ASSUME IInv, NEW k \in Cancellers, FireContext(k)
    PROVE  IInv'
<1> DEFINE o == cancel[k].op
<1>1. /\ cancel[k].pc = "claimed"
      /\ dead' = dead \cup {o}
      /\ cancel' = [cancel EXCEPT ![k].pc = "fired"]
      /\ UNCHANGED <<audit, registered, mark, banner, acknowledged>>
  BY DEF FireContext
<1>2. cancel[k] \in [pc : {"marked", "claimed", "fired", "refused"},
                     op : Audits, newly : BOOLEAN]
  BY <1>1, CancellerKinds DEF IInv, Idle
<1>3. /\ cancel' \in [Cancellers -> CancelStates]
      /\ cancel'[k].pc = "fired" /\ cancel'[k].op = o
      /\ \A j \in Cancellers \ {k} : cancel'[j] = cancel[j]
  BY <1>1, <1>2 DEF IInv, TypeOK, CancelStates
<1>4. o \in acknowledged
  BY <1>1, <1>2 DEF IInv, ClaimedIsAcknowledged, Settling
<1>5. \A j \in Cancellers, p \in Audits : Settling(j, p)' <=> Settling(j, p)
  BY <1>1, <1>2, <1>3 DEF Settling
<1> QED
  BY <1>1, <1>3, <1>4, <1>5
     DEF IInv, TypeOK, RegisteredRuns, AcknowledgedRuns,
         ClaimedIsAcknowledged, MarkOrCanceller, Recording, At

\* Settling leaves a won mark, or takes back one that nobody has won.
LEMMA SettleIInv ==
    ASSUME IInv, NEW k \in Cancellers, SettleAuditOpCancelled(k)
    PROVE  IInv'
<1> DEFINE o == cancel[k].op
           m == SettledMark(cancel[k])
<1>1. /\ cancel[k].pc \in {"fired", "refused"}
      /\ mark' = [mark EXCEPT ![o] = m]
      /\ cancel' = [cancel EXCEPT ![k] = Idle]
      /\ UNCHANGED <<audit, registered, dead, banner, acknowledged>>
  BY DEF SettleAuditOpCancelled
<1>2. cancel[k] \in [pc : {"marked", "claimed", "fired", "refused"},
                     op : Audits, newly : BOOLEAN]
  BY <1>1, CancellerKinds DEF IInv, Idle
<1>3. /\ m \in {"none", "asked", "won"}
      /\ cancel[k].pc = "fired" => m = "won"
      /\ mark[o] = "won" => m = "won"
  BY <1>1, <1>2 DEF SettledMark, IInv, TypeOK
<1> HIDE DEF m
<1>4. TypeOK' /\ RegisteredRuns' /\ AcknowledgedRuns'
  BY <1>1, <1>2, <1>3 DEF IInv, TypeOK, CancelStates, RegisteredRuns,
                          AcknowledgedRuns, Recording, At
<1>5. \A j \in Cancellers, p \in Audits : Settling(j, p)' => Settling(j, p)
  BY <1>1 DEF Settling, IInv, TypeOK, Idle
<1>6. \A j \in Cancellers, p \in Audits :
          Settling(j, p) => Settling(j, p)' \/ (p = o /\ m = "won")
  BY <1>1, <1>2, <1>3 DEF Settling, IInv, TypeOK
<1>7. ClaimedIsAcknowledged'
  BY <1>1, <1>5 DEF IInv, ClaimedIsAcknowledged
<1>8. MarkOrCanceller'
  BY <1>1, <1>2, <1>3, <1>6 DEF IInv, TypeOK, MarkOrCanceller, Recording
<1> QED
  BY <1>4, <1>7, <1>8 DEF IInv

\* The strengthening is an invariant.
THEOREM Inductive == Spec => []IInv
<1>1. Init => IInv
  BY InitIInv
<1>2. IInv /\ [Next]_vars => IInv'
  <2> SUFFICES ASSUME IInv, [Next]_vars
               PROVE  IInv'
    OBVIOUS
  <2>1. CASE UNCHANGED vars
    BY <2>1 DEF vars, IInv, TypeOK, RegisteredRuns, AcknowledgedRuns,
                ClaimedIsAcknowledged, MarkOrCanceller, Recording, At, Settling
  <2>2. CASE \E o \in Audits : AuditStep(o)
    BY <2>2, AuditStepIInv
  <2>3. ASSUME NEW k \in Cancellers, CancelStep(k)
        PROVE  IInv'
    BY <2>3, CancelOpIInv, FireIInv, SettleIInv DEF CancelStep
  <2>4. CASE \E k \in Cancellers, o \in Audits : MarkAuditOpCancelled(k, o)
    BY <2>4, MarkIInv
  <2> QED
    BY <2>1, <2>2, <2>3, <2>4 DEF Next
<1> QED
  BY <1>1, <1>2, PTL DEF Spec

\* The state keeps its type, and a context is only fired for a run that a
\* cancel took from the registry.
THEOREM TypeCorrect == Spec => []TypeOK
  BY Inductive, PTL DEF IInv

\* However many callers cancel a run at once, a run whose acknowledged cancel
\* has returned is never promoted to the banner.
THEOREM Honoured == Spec => CancelIsHonoured
<1> DEFINE Kept == \A o \in banner' \ banner :
                      o \in acknowledged => \E k \in Cancellers : Settling(k, o)
<1>1. IInv /\ [Next]_vars => [Kept]_vars
  <2> SUFFICES ASSUME IInv, [Next]_vars, NEW o \in banner' \ banner,
                      o \in acknowledged
               PROVE  \E k \in Cancellers : Settling(k, o)
    OBVIOUS
  <2>1. PICK p \in Audits : RecordUnlessCancelled(p)
    BY DEF Next, vars, AuditStep, CancelStep, RegisterOp, AnalysisReturns,
           TakeAuditOpCancelled, FinishOp, ForgetAuditOpCancelled, CancelOp,
           FireContext, SettleAuditOpCancelled, MarkAuditOpCancelled
  <2>2. p = o /\ At(o, "checked") /\ mark[o] = "none"
    BY <2>1 DEF RecordUnlessCancelled
  <2> QED
    BY <2>2 DEF IInv, MarkOrCanceller, Recording, At
<1> QED
  BY <1>1, Inductive, PTL DEF Spec, CancelIsHonoured
=============================================================================
