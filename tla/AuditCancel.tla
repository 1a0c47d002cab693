----------------------------- MODULE AuditCancel ----------------------------
(***************************************************************************)
(* The desktop's integrity audits and the users who cancel them.  An audit *)
(* registers an operation, analyses, looks at its context, records its     *)
(* result in the banner index, and leaves.  A cancel marks the operation,  *)
(* takes it from the registry, fires its context, and settles the mark.    *)
(* The registry and the banner index have a mutex each, never held         *)
(* together, so each step below is one critical section.                   *)
(***************************************************************************)
CONSTANTS
    Audits,        \* one identifier per run: they are never reused
    Cancellers     \* calls of CancelAudit that may be under way at once

VARIABLES
    audit,         \* where each run is
    registered,    \* the operations the registry holds
    dead,          \* the runs whose context has been cancelled
    mark,          \* the cancelled-set of the banner index
    banner,        \* the runs whose result was promoted to the banner
    cancel,        \* where each canceller is, what it saw
    acknowledged   \* the runs a cancel took from the registry

vars == <<audit, registered, dead, mark, banner, cancel, acknowledged>>

AuditPcs == {"new", "analysing", "discarding", "checked", "leaving",
             "finished", "gone"}

(***************************************************************************)
(* RunIntegrityAudit.                                                      *)
(***************************************************************************)
At(o, pc) == audit[o] = pc

Goto(o, pc) == audit' = [audit EXCEPT ![o] = pc]

ClearMark(o) == mark' = [mark EXCEPT ![o] = "none"]

RegisterOp(o) ==
    /\ At(o, "new")
    /\ Goto(o, "analysing")
    /\ registered' = registered \cup {o}
    /\ UNCHANGED <<dead, mark, banner, cancel, acknowledged>>

\* a cancelled context is looked at first; then a run without a result leaves
AnalysisReturns(o) ==
    /\ At(o, "analysing")
    /\ IF o \in dead THEN Goto(o, "discarding")
       ELSE Goto(o, "checked") \/ Goto(o, "leaving")
    /\ UNCHANGED <<registered, dead, mark, banner, cancel, acknowledged>>

TakeAuditOpCancelled(o) ==
    /\ At(o, "discarding")
    /\ ClearMark(o)
    /\ Goto(o, "leaving")
    /\ UNCHANGED <<registered, dead, banner, cancel, acknowledged>>

\* recordLastAuditResultUnlessCancelled: a mark of either kind discards
RecordUnlessCancelled(o) ==
    /\ At(o, "checked")
    /\ banner' = IF mark[o] = "none" THEN banner \cup {o} ELSE banner
    /\ ClearMark(o)
    /\ Goto(o, "leaving")
    /\ UNCHANGED <<registered, dead, cancel, acknowledged>>

FinishOp(o) ==
    /\ At(o, "leaving")
    /\ registered' = registered \ {o}
    /\ Goto(o, "finished")
    /\ UNCHANGED <<dead, mark, banner, cancel, acknowledged>>

ForgetAuditOpCancelled(o) ==
    /\ At(o, "finished")
    /\ ClearMark(o)
    /\ Goto(o, "gone")
    /\ UNCHANGED <<registered, dead, banner, cancel, acknowledged>>

(***************************************************************************)
(* CancelAudit, for an operation that runs, has ended or is not known yet. *)
(***************************************************************************)
Idle == [pc |-> "idle"]

MarkAuditOpCancelled(k, o) ==
    /\ cancel[k] = Idle
    /\ cancel' = [cancel EXCEPT ![k] =
                    [pc |-> "marked", op |-> o, newly |-> mark[o] = "none"]]
    /\ mark' = [mark EXCEPT ![o] = IF @ = "none" THEN "asked" ELSE @]
    /\ UNCHANGED <<audit, registered, dead, banner, acknowledged>>

\* Mutant: the context is fired without looking at what the registry held.
CancelBlindly(k) ==
    /\ cancel[k].pc = "marked"
    /\ registered' = registered \ {cancel[k].op}
    /\ cancel' = [cancel EXCEPT ![k].pc = "claimed"]
    /\ UNCHANGED <<audit, dead, mark, banner, acknowledged>>

CancelOp(k) ==
    LET o == cancel[k].op
        ok == o \in registered
    IN /\ cancel[k].pc = "marked"
       /\ registered' = registered \ {o}
       /\ acknowledged' = IF ok THEN acknowledged \cup {o} ELSE acknowledged
       /\ cancel' = [cancel EXCEPT ![k].pc = IF ok THEN "claimed" ELSE "refused"]
       /\ UNCHANGED <<audit, dead, mark, banner>>

\* after the registry's mutex has been released
FireContext(k) ==
    /\ cancel[k].pc = "claimed"
    /\ dead' = dead \cup {cancel[k].op}
    /\ cancel' = [cancel EXCEPT ![k].pc = "fired"]
    /\ UNCHANGED <<audit, registered, mark, banner, acknowledged>>

\* Mutant: a refused cancel takes back its mark whatever became of it.
SettledMarkAlways(c) ==
    CASE c.pc = "fired" -> "won"
      [] OTHER -> "none"

SettledMark(c) ==
    CASE c.pc = "fired" -> "won"
      [] c.pc = "refused" /\ c.newly /\ mark[c.op] # "won" -> "none"
      [] OTHER -> mark[c.op]

SettleAuditOpCancelled(k) ==
    /\ cancel[k].pc \in {"fired", "refused"}
    /\ mark' = [mark EXCEPT ![cancel[k].op] = SettledMark(cancel[k])]
    /\ cancel' = [cancel EXCEPT ![k] = Idle]
    /\ UNCHANGED <<audit, registered, dead, banner, acknowledged>>

Init ==
    /\ audit = [o \in Audits |-> "new"]
    /\ registered = {}
    /\ dead = {}
    /\ mark = [o \in Audits |-> "none"]
    /\ banner = {}
    /\ cancel = [k \in Cancellers |-> Idle]
    /\ acknowledged = {}

AuditStep(o) ==
    \/ RegisterOp(o)
    \/ AnalysisReturns(o)
    \/ TakeAuditOpCancelled(o)
    \/ RecordUnlessCancelled(o)
    \/ FinishOp(o)
    \/ ForgetAuditOpCancelled(o)

CancelStep(k) ==
    \/ CancelOp(k)
    \/ FireContext(k)
    \/ SettleAuditOpCancelled(k)

Next ==
    \/ \E o \in Audits : AuditStep(o)
    \/ \E k \in Cancellers :
          CancelStep(k) \/ \E o \in Audits : MarkAuditOpCancelled(k, o)

Spec == Init /\ [][Next]_vars

(***************************************************************************)
(* Properties.                                                             *)
(***************************************************************************)
\* Canceller k is under way for run o; it has taken o from the registry.
Cancelling(k, o) == cancel[k] # Idle /\ cancel[k].op = o

Settling(k, o) == cancel[k].pc \in {"claimed", "fired"} /\ cancel[k].op = o

CancelStates ==
    {Idle} \cup [pc : {"marked", "claimed", "fired", "refused"},
                 op : Audits, newly : BOOLEAN]

\* The type of the state: a run and a canceller are at one of their steps,
\* and a mark is absent, asked for, or won.
TypeOK ==
    /\ audit \in [Audits -> AuditPcs]
    /\ registered \subseteq Audits
    /\ dead \subseteq acknowledged
    /\ mark \in [Audits -> {"none", "asked", "won"}]
    /\ banner \subseteq Audits
    /\ cancel \in [Cancellers -> CancelStates]
    /\ acknowledged \subseteq Audits

\* A cancel delivered before the record discards the result: no run that a
\* cancel has taken from the registry is promoted to the banner afterwards.
CancelledIsNotPromoted ==
    [][\A o \in banner' \ banner : o \notin acknowledged]_vars

\* Whoever cancels with it, an acknowledged cancel is honoured: once the
\* CancelAudit that took the operation has returned, the result of that run is
\* never promoted; another canceller's cleanup does not lose the mark.
CancelIsHonoured ==
    [][\A o \in banner' \ banner :
          o \in acknowledged => \E k \in Cancellers : Settling(k, o)]_vars

\* The cancelled-set does not keep the mark of a run that has gone, once no
\* canceller of it is left ("entries never outlive their op").
MarksDoNotOutliveTheirRun ==
    \A o \in Audits :
        At(o, "gone") /\ (\A k \in Cancellers : ~Cancelling(k, o))
            => mark[o] = "none"
=============================================================================
