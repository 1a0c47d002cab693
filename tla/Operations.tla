----------------------------- MODULE Operations -----------------------------
(***************************************************************************)
(* The long operations of the desktop application: the registry of running *)
(* operations in memory, the history file with one terminal record per     *)
(* operation, the sidecar file that mirrors the registry so that a restart *)
(* can tell what was in flight, and the calls that register, work, and     *)
(* finish while the user cancels them and the process dies.                *)
(*                                                                         *)
(* A call is of one of four kinds, by the identifier it registers under:   *)
(*   "counted"   audits, doctor runs, snapshots: a fresh number per call   *)
(*   "transfer"  database dumps and imports: a fresh number, one at a time *)
(*   "tool"      tool runs: one identifier per project, told apart by a    *)
(*               generation                                                *)
(*   "rollback"  rollbacks and sandbox changes: one identifier per target  *)
(* All calls are about one project.  The numbers start again in every      *)
(* process, so identifiers recycle; start times do not.                    *)
(***************************************************************************)
EXTENDS Naturals, FiniteSets

CONSTANTS
    Calls,        \* the calls the application receives, in all its processes,
                  \* numbered in the order in which those of a kind arrive
    KindOf,       \* [Calls -> Kinds]
    MaxCrashes    \* bound on the deaths of the process

Kinds == {"counted", "transfer", "tool", "rollback"}

ASSUME CallsAssumption == Calls \subseteq Nat /\ KindOf \in [Calls -> Kinds]
ASSUME CrashesAssumption == MaxCrashes \in Nat

VARIABLES
    process,      \* "up", "recovering" while the startup scan runs, "down"
    crashes,
    now,          \* the wall clock, as the registrations of a kind tell it
    running,      \* the registry: the entries of the running operations
    lock,         \* what the holder of the registry's mutex has left to do
    history,      \* the file of terminal records
    sidecar,      \* the file of the operations in flight
    orphans,      \* the startup scan: entries to mark interrupted
    number,       \* the last number handed out, per kind
    generation,   \* the last generation of a tool run
    call,         \* per call: where it is, and what it registered
    fired,        \* the calls whose cancel function has been called
    toolHistory   \* the file of tool runs

vars == <<process, crashes, now, running, lock, history, sidecar, orphans,
          number, generation, call, fired, toolHistory>>

registry == <<running, lock, history, sidecar>>

NoLock == [by |-> "nobody"]

(***************************************************************************)
(* Entries, records and their keys.                                        *)
(***************************************************************************)
OpId(c, n) == IF KindOf[c] \in {"tool", "rollback"} THEN <<KindOf[c], 0>>
              ELSE <<KindOf[c], n>>

Entry(c, n, t) == [id |-> OpId(c, n), start |-> t, call |-> c]

OpTerminalKey(e) == <<e.id, e.start>>

Inflight(entries) == {[id |-> e.id, start |-> e.start] : e \in entries}

ReadTerminalKeys == {OpTerminalKey(r) : r \in history}

\* the file is a sequence; what tells two lines of one operation apart is
\* that the later one was appended when there was one already
TerminalRecord(e, status) ==
    [id |-> e.id, start |-> e.start, status |-> status,
     again |-> OpTerminalKey(e) \in ReadTerminalKeys]

AppendHistoryRecord(e, status) ==
    history' = history \cup {TerminalRecord(e, status)}

PersistInflight(entries) == sidecar' = Inflight(entries)

(***************************************************************************)
(* Registration.  A transfer is refused while any transfer runs; any other *)
(* call is refused while its identifier runs.  Only RegisterOpWithArgs     *)
(* mirrors the registry to the sidecar.                                    *)
(***************************************************************************)
\* Mutant: a transfer is refused only for its own identifier.
RefusedById(c, id) == \E e \in running : e.id = id

Refused(c, id) == \E e \in running :
                     \/ e.id = id
                     \/ KindOf[c] = "transfer" /\ KindOf[e.call] = "transfer"

FirstStep(kind) == IF kind = "tool" THEN "admitted" ELSE "working"

Up == process = "up" /\ lock = NoLock

Arrived(c) ==
    \A d \in Calls : KindOf[d] = KindOf[c] /\ d < c => call[d].pc # "idle"

Register(c) ==
    LET kind == KindOf[c]
        n == number[kind] + 1
        entry == Entry(c, n, now[kind])
    IN /\ Up
       /\ call[c].pc = "idle"
       /\ Arrived(c)
       /\ number' = [number EXCEPT ![kind] = n]
       /\ IF Refused(c, OpId(c, n))
          THEN /\ call' = [call EXCEPT ![c].pc = "done"]
               /\ UNCHANGED <<now, running, sidecar>>
          ELSE /\ running' = running \cup {entry}
               /\ now' = [now EXCEPT ![kind] = @ + 1]
               /\ call' = [call EXCEPT ![c] =
                             [@ EXCEPT !.pc = FirstStep(kind), !.id = entry.id,
                                       !.start = now[kind]]]
               /\ IF kind = "transfer" THEN UNCHANGED sidecar
                  ELSE PersistInflight(running')
       /\ UNCHANGED <<process, crashes, lock, history, orphans, generation,
                      fired, toolHistory>>

(***************************************************************************)
(* A tool run: the generation, the start of the command, the entry of the  *)
(* tool history, and at the end its outcome.                               *)
(***************************************************************************)
NextToolRunGeneration(c) ==
    /\ process = "up"
    /\ call[c].pc = "admitted"
    /\ generation' = generation + 1
    /\ call' = [call EXCEPT ![c].pc = "starting", ![c].gen = generation + 1]
    /\ UNCHANGED <<process, crashes, now, registry, orphans, number, fired,
                   toolHistory>>

StartTool(c) ==
    /\ process = "up"
    /\ call[c].pc = "starting"
    /\ \/ /\ call' = [call EXCEPT ![c].pc = "working"]
          /\ toolHistory' = toolHistory \cup
                {[call |-> c, gen |-> call[c].gen, outcome |-> "unknown"]}
       \/ /\ call' = [call EXCEPT ![c].pc = "finishing"]
          /\ UNCHANGED toolHistory
    /\ UNCHANGED <<process, crashes, now, registry, orphans, number,
                   generation, fired>>

ToolOutcomes(c) == {"success", IF c \in fired THEN "cancelled" ELSE "failed"}

UpdateToolHistoryOutcome(gen, outcome) ==
    toolHistory' = {IF e.gen = gen THEN [e EXCEPT !.outcome = outcome] ELSE e :
                        e \in toolHistory}

WorkEnds(c) ==
    /\ process = "up"
    /\ call[c].pc = "working"
    /\ IF KindOf[c] = "tool"
       THEN /\ \E outcome \in ToolOutcomes(c) :
                  UpdateToolHistoryOutcome(call[c].gen, outcome)
            /\ call' = [call EXCEPT ![c].pc = "ended"]
       ELSE /\ call' = [call EXCEPT ![c].pc = "finishing"]
            /\ UNCHANGED toolHistory
    /\ UNCHANGED <<process, crashes, now, registry, orphans, number,
                   generation, fired>>

\* the generation is compared, and the operation finished in a later step
FinishToolRun(c) ==
    /\ process = "up"
    /\ call[c].pc = "ended"
    /\ call' = [call EXCEPT ![c].pc =
                   IF generation = call[c].gen THEN "finishing" ELSE "done"]
    /\ UNCHANGED <<process, crashes, now, registry, orphans, number,
                   generation, fired, toolHistory>>

(***************************************************************************)
(* The end of an operation.  Whoever removes the entry writes its record;  *)
(* the mutex is held until the sidecar has been written too.               *)
(***************************************************************************)
Claim(e, status) ==
    /\ running' = running \ {e}
    /\ AppendHistoryRecord(e, status)

\* Mutant: the entry goes, the record is forgotten.
FinishWithoutRecord(c) ==
    /\ Up
    /\ call[c].pc = "finishing"
    /\ call' = [call EXCEPT ![c].pc = "done"]
    /\ running' = {e \in running : e.id # call[c].id}
    /\ lock' = [by |-> "finish"]
    /\ UNCHANGED <<process, crashes, now, history, sidecar, orphans, number,
                   generation, fired, toolHistory>>

FinishOp(c) ==
    /\ Up
    /\ call[c].pc = "finishing"
    /\ call' = [call EXCEPT ![c].pc = "done"]
    /\ \/ \E e \in running : /\ e.id = call[c].id
                             /\ Claim(e, "completed")
                             /\ lock' = [by |-> "finish"]
       \/ /\ \A e \in running : e.id # call[c].id
          /\ UNCHANGED <<running, history, lock>>
    /\ UNCHANGED <<process, crashes, now, sidecar, orphans, number, generation,
                   fired, toolHistory>>

\* Mutant: the context is cancelled at once, the record is not written.
CancelFirst(e) ==
    /\ Up
    /\ running' = running \ {e}
    /\ lock' = [by |-> "finish"]
    /\ fired' = fired \cup {e.call}
    /\ UNCHANGED <<process, crashes, now, history, sidecar, orphans, number,
                   generation, call, toolHistory>>

\* Mutant: the entry of a cancelled operation stays.
CancelKeepsEntry(e) ==
    /\ Up
    /\ e.call \notin fired
    /\ AppendHistoryRecord(e, "cancelled")
    /\ lock' = [by |-> "cancel", call |-> e.call]
    /\ UNCHANGED <<process, crashes, now, running, sidecar, orphans, number,
                   generation, call, fired, toolHistory>>

CancelOp(e) ==
    /\ Up
    /\ Claim(e, "cancelled")
    /\ lock' = [by |-> "cancel", call |-> e.call]
    /\ UNCHANGED <<process, crashes, now, sidecar, orphans, number, generation,
                   call, fired, toolHistory>>

\* persistInflightLocked, the unlock, and after it the cancel function
PersistAndUnlock ==
    /\ process = "up"
    /\ lock # NoLock
    /\ PersistInflight(running)
    /\ fired' = IF lock.by = "cancel" THEN fired \cup {lock.call} ELSE fired
    /\ lock' = NoLock
    /\ UNCHANGED <<process, crashes, now, running, history, orphans, number,
                   generation, call, toolHistory>>

(***************************************************************************)
(* The process dies at any point and is started again: the startup scan    *)
(* marks what the sidecar holds and the history does not, and only then    *)
(* are calls accepted.                                                     *)
(***************************************************************************)
Crash ==
    /\ process # "down"
    /\ crashes < MaxCrashes
    /\ crashes' = crashes + 1
    /\ process' = "down"
    /\ running' = {}
    /\ lock' = NoLock
    /\ orphans' = {}
    /\ number' = [k \in Kinds |-> 0]
    /\ generation' = 0
    /\ call' = [c \in Calls |->
                  IF call[c].pc \in {"idle", "done"} THEN call[c]
                  ELSE [call[c] EXCEPT !.pc = "dead"]]
    /\ UNCHANGED <<now, history, sidecar, fired, toolHistory>>

\* Mutant: what has a record is marked again.
StartupMarksAll ==
    /\ process = "down"
    /\ process' = "recovering"
    /\ orphans' = sidecar
    /\ UNCHANGED <<crashes, now, registry, number, generation, call, fired,
                   toolHistory>>

\* Mutant: identifiers alone tell operations apart.
StartupDedupesById ==
    /\ process = "down"
    /\ process' = "recovering"
    /\ orphans' = {e \in sidecar : \A r \in history : r.id # e.id}
    /\ UNCHANGED <<crashes, now, registry, number, generation, call, fired,
                   toolHistory>>

ServiceStartup ==
    /\ process = "down"
    /\ process' = "recovering"
    /\ orphans' = {e \in sidecar : OpTerminalKey(e) \notin ReadTerminalKeys}
    /\ UNCHANGED <<crashes, now, registry, number, generation, call, fired,
                   toolHistory>>

MarkInterrupted(e) ==
    /\ process = "recovering"
    /\ AppendHistoryRecord(e, "interrupted")
    /\ orphans' = orphans \ {e}
    /\ UNCHANGED <<process, crashes, now, running, lock, sidecar, number,
                   generation, call, fired, toolHistory>>

RecoveryDone ==
    /\ process = "recovering"
    /\ orphans = {}
    /\ sidecar' = {}
    /\ process' = "up"
    /\ UNCHANGED <<crashes, now, running, lock, history, orphans, number,
                   generation, call, fired, toolHistory>>

Init ==
    /\ process = "up"
    /\ crashes = 0
    /\ now = [k \in Kinds |-> 1]
    /\ running = {}
    /\ lock = NoLock
    /\ history = {}
    /\ sidecar = {}
    /\ orphans = {}
    /\ number = [k \in Kinds |-> 0]
    /\ generation = 0
    /\ call = [c \in Calls |-> [pc |-> "idle", id |-> <<KindOf[c], 0>>,
                                start |-> 0, gen |-> 0]]
    /\ fired = {}
    /\ toolHistory = {}

CallStep(c) ==
    \/ Register(c)
    \/ NextToolRunGeneration(c)
    \/ StartTool(c)
    \/ WorkEnds(c)
    \/ FinishToolRun(c)
    \/ FinishOp(c)

Recovery ==
    \/ ServiceStartup
    \/ \E e \in orphans : MarkInterrupted(e)
    \/ RecoveryDone

Next ==
    \/ \E c \in Calls : CallStep(c)
    \/ \E e \in running : CancelOp(e)
    \/ PersistAndUnlock
    \/ Crash
    \/ Recovery

Spec == Init /\ [][Next]_vars

(***************************************************************************)
(* Calls come to an end (their contexts have deadlines), a Go mutex is     *)
(* handed on, and a startup scan runs to its end.  Nobody has to start the *)
(* application again, and nobody has to make a call.                       *)
(***************************************************************************)
Fairness ==
    /\ \A c \in Calls : WF_vars(CallStep(c) /\ call[c].pc # "idle")
    /\ WF_vars(PersistAndUnlock)
    /\ WF_vars((\E e \in orphans : MarkInterrupted(e)) \/ RecoveryDone)

FairSpec == Spec /\ Fairness

(***************************************************************************)
(* Properties.                                                             *)
(***************************************************************************)
Pcs == {"idle", "admitted", "starting", "working", "ended", "finishing", "done",
        "dead"}
Statuses == {"completed", "cancelled", "interrupted"}
Ids == Kinds \X Nat

\* The type of the state: the registry and both files hold what the code
\* writes to them, and a call is at one of its steps.
TypeOK ==
    /\ process \in {"up", "recovering", "down"}
    /\ crashes \in 0..MaxCrashes
    /\ now \in [Kinds -> Nat \ {0}]
    /\ running \subseteq [id : Ids, start : Nat, call : Calls]
    /\ lock \in {NoLock, [by |-> "finish"]}
                \cup [by : {"cancel"}, call : Calls]
    /\ history \subseteq
         [id : Ids, start : Nat, status : Statuses, again : BOOLEAN]
    /\ sidecar \subseteq [id : Ids, start : Nat]
    /\ orphans \subseteq sidecar
    /\ number \in [Kinds -> Nat]
    /\ generation \in Nat
    /\ call \in [Calls -> [pc : Pcs, id : Ids, start : Nat, gen : Nat]]
    /\ fired \subseteq Calls
    /\ toolHistory \subseteq
         [call : Calls, gen : Nat,
          outcome : {"unknown", "success", "failed", "cancelled"}]

Registered(c) == call[c].start # 0

KeyOf(c) == <<call[c].id, call[c].start>>

InHistory(c) == KeyOf(c) \in ReadTerminalKeys

\* An operation gets at most one terminal record, however a finish races a
\* cancel, wherever the process dies between the record and the sidecar, and
\* however often the startup scan is interrupted and runs again.
OneTerminalRecord ==
    \A r, s \in history : OpTerminalKey(r) = OpTerminalKey(s) => r = s

\* No mirrored operation disappears: one that was registered is in the
\* history, or runs and is in the sidecar, or was running when the process
\* died and is in the sidecar for the next startup scan.
NothingLost ==
    \A c \in Calls :
        Registered(c) /\ KindOf[c] # "transfer" =>
            \/ InHistory(c)
            \/ /\ \E s \in sidecar : OpTerminalKey(s) = KeyOf(c)
               /\ process = "up" => \E e \in running : e.call = c

\* A call whose record says interrupted was not cancelled and never came to
\* its own end: the startup scan tells no finished operation interrupted.
InterruptedIsTrue ==
    \A c \in Calls, r \in history :
        OpTerminalKey(r) = KeyOf(c) /\ r.status = "interrupted" => c \notin fired

\* Two transfers work on the database at once only when one was cancelled:
\* the scan and the insert of RegisterDBTransferOp are one critical section.
OneTransfer ==
    \A c, d \in Calls :
        /\ KindOf[c] = "transfer" /\ KindOf[d] = "transfer"
        /\ call[c].pc = "working" /\ call[d].pc = "working"
        => c = d \/ InHistory(c) \/ InHistory(d)

\* A mirrored operation that was registered reaches its terminal record,
\* unless the application dies and is not started again.
EveryOperationIsRecorded ==
    \A c \in Calls :
        Registered(c) /\ KindOf[c] # "transfer"
            ~> InHistory(c) \/ process = "down"

\* The registry, both files and the recovery implement the abstract trail of
\* operations: opened once, closed at most once, never rewritten.
Trail == INSTANCE OperationTrail
           WITH opened <- {KeyOf(c) : c \in {d \in Calls : Registered(d)}},
                closed <- history

OperationsAreATrail == Trail!Spec

\* The identifier of a tool run doubles as the lock of its project: two tool
\* runs of a project work at once only when one of them was cancelled.
OneToolAtATime ==
    \A c, d \in Calls :
        /\ KindOf[c] = "tool" /\ KindOf[d] = "tool"
        /\ call[c].pc = "working" /\ call[d].pc = "working"
        => \/ c = d
           \/ \E k \in {c, d} : \E r \in history :
                 OpTerminalKey(r) = KeyOf(k) /\ r.status = "cancelled"

\* The entry of a tool run the process died under is never changed again:
\* what never ended reads unknown for ever, and what failed reads failed.
DeadRunsKeepTheirOutcome ==
    [][\A e \in toolHistory : call[e.call].pc = "dead" => e \in toolHistory']_vars
=============================================================================
