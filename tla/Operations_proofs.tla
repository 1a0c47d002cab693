-------------------------- MODULE Operations_proofs -------------------------
(***************************************************************************)
(* For any calls, of any kinds and in any number, and any number of        *)
(* crashes: every operation has at most one terminal record, no mirrored   *)
(* operation is lost, nothing that was cancelled reads interrupted, one    *)
(* transfer runs at a time, and all of it implements the abstract trail.   *)
(***************************************************************************)
EXTENDS Operations, TLAPS

(***************************************************************************)
(* The inductive invariant.                                                *)
(***************************************************************************)
ToolPcs == {"admitted", "starting", "ended"}

\* a call keeps the key it registered under, of its own kind and of the past
CallsArePast ==
    \A c \in Calls : /\ call[c].id[1] = KindOf[c]
                     /\ call[c].start < now[KindOf[c]]
                     /\ call[c].pc = "idle" => ~Registered(c)
                     /\ call[c].pc \in ToolPcs => KindOf[c] = "tool"

KeysAreDistinct ==
    \A c, d \in Calls : Registered(c) /\ KeyOf(c) = KeyOf(d) => c = d

\* whatever the registry and the two files hold was registered by a call
OfCall(k) == \E c \in Calls : Registered(c) /\ KeyOf(c) = k

EntriesAreOfCalls ==
    \A e \in running : Registered(e.call) /\ KeyOf(e.call) = OpTerminalKey(e)

FilesAreOfCalls ==
    /\ \A r \in history : OfCall(OpTerminalKey(r))
    /\ \A s \in sidecar : OfCall(OpTerminalKey(s))

\* what runs, and what the startup scan has still to mark, has no record yet
OpenHasNoRecord ==
    /\ \A e \in running : OpTerminalKey(e) \notin ReadTerminalKeys
    /\ \A s \in orphans : OpTerminalKey(s) \notin ReadTerminalKeys

Phases ==
    /\ process # "up" => running = {}
    /\ process # "recovering" => orphans = {}
    /\ process = "recovering" =>
         \A s \in sidecar : OpTerminalKey(s) \in ReadTerminalKeys \/ s \in orphans

CancelRecorded(c) ==
    \E r \in history : OpTerminalKey(r) = KeyOf(c) /\ r.status = "cancelled"

CancelsAreRecorded ==
    /\ \A c \in fired : CancelRecorded(c)
    /\ lock.by = "cancel" => CancelRecorded(lock.call)

TransfersAreEntries ==
    /\ \A c \in Calls :
          KindOf[c] = "transfer" /\ call[c].pc = "working"
             => InHistory(c) \/ \E e \in running : e.call = c
    /\ \A e, f \in running :
          KindOf[e.call] = "transfer" /\ KindOf[f.call] = "transfer"
             => e.call = f.call

IInv ==
    /\ TypeOK
    /\ CallsArePast
    /\ KeysAreDistinct
    /\ EntriesAreOfCalls
    /\ FilesAreOfCalls
    /\ OpenHasNoRecord
    /\ Phases
    /\ OneTerminalRecord
    /\ NothingLost
    /\ CancelsAreRecorded
    /\ TransfersAreEntries

\* Nothing is registered and both files are empty in the initial state.
LEMMA InitIInv == Init => IInv
<1> SUFFICES ASSUME Init
             PROVE  IInv
  OBVIOUS
<1> USE CallsAssumption, CrashesAssumption
<1>1. TypeOK
  BY DEF Init, TypeOK, Kinds, Ids, Pcs
<1>2. \A c \in Calls : call[c] = [pc |-> "idle", id |-> <<KindOf[c], 0>>,
                                  start |-> 0, gen |-> 0]
  BY DEF Init
<1>3. CallsArePast
  BY <1>2 DEF Init, CallsArePast, Registered, ToolPcs, Kinds
<1>4. ASSUME NEW c \in Calls
      PROVE  ~Registered(c) /\ call[c].pc # "working"
  <2>1. call[c] = [pc |-> "idle", id |-> <<KindOf[c], 0>>, start |-> 0,
                   gen |-> 0]
    BY <1>2
  <2> QED
    BY <2>1 DEF Registered
<1>5. lock.by # "cancel"
  BY DEF Init, NoLock
<1>6. KeysAreDistinct /\ NothingLost /\ TransfersAreEntries
  BY <1>4 DEF Init, KeysAreDistinct, NothingLost, TransfersAreEntries
<1>7. EntriesAreOfCalls /\ FilesAreOfCalls /\ OpenHasNoRecord /\ OneTerminalRecord
  BY DEF Init, EntriesAreOfCalls, FilesAreOfCalls, OpenHasNoRecord,
         OneTerminalRecord
<1>8. Phases /\ CancelsAreRecorded
  BY <1>5 DEF Init, Phases, CancelsAreRecorded
<1> QED
  BY <1>1, <1>3, <1>6, <1>7, <1>8 DEF IInv

(***************************************************************************)
(* Steps of the work itself: the registry and the files are left alone.    *)
(***************************************************************************)
SameKeys == \A c \in Calls : /\ call'[c].id = call[c].id
                             /\ call'[c].start = call[c].start
                             /\ call'[c].pc = "idle" => call[c].pc = "idle"
                             /\ call'[c].pc = "working" /\ KindOf[c] = "transfer"
                                   => call[c].pc = "working"
                             /\ call'[c].pc \in ToolPcs => KindOf[c] = "tool"

\* A step that keeps the registry, the files and the keys keeps the invariant.
LEMMA QuietIInv ==
    ASSUME IInv, TypeOK', SameKeys,
           UNCHANGED <<process, now, running, lock, history, sidecar, orphans,
                       fired>>
    PROVE  IInv'
<1>1. \A c \in Calls : /\ Registered(c)' <=> Registered(c)
                       /\ KeyOf(c)' = KeyOf(c)
                       /\ InHistory(c)' <=> InHistory(c)
                       /\ CancelRecorded(c)' <=> CancelRecorded(c)
  BY DEF SameKeys, Registered, KeyOf, InHistory, CancelRecorded,
         ReadTerminalKeys
<1>2. CallsArePast' /\ KeysAreDistinct'
  BY <1>1 DEF IInv, CallsArePast, KeysAreDistinct, SameKeys
<1>3. EntriesAreOfCalls' /\ FilesAreOfCalls'
  BY <1>1 DEF IInv, TypeOK, EntriesAreOfCalls, FilesAreOfCalls, OfCall,
              OpTerminalKey
<1>4. OpenHasNoRecord' /\ Phases' /\ OneTerminalRecord'
  BY DEF IInv, OpenHasNoRecord, Phases, OneTerminalRecord, ReadTerminalKeys
<1>5. NothingLost'
  BY <1>1 DEF IInv, NothingLost
<1>6. CancelsAreRecorded'
  BY <1>1 DEF IInv, TypeOK, CancelsAreRecorded, NoLock
<1>7. TransfersAreEntries'
  BY <1>1 DEF IInv, TypeOK, TransfersAreEntries, SameKeys
<1> QED
  BY <1>2, <1>3, <1>4, <1>5, <1>6, <1>7 DEF IInv

\* The steps of a tool run, and the end of any work, are such steps.
LEMMA WorkIInv ==
    ASSUME IInv, NEW c \in Calls,
           \/ NextToolRunGeneration(c) \/ StartTool(c)
           \/ WorkEnds(c) \/ FinishToolRun(c)
    PROVE  IInv'
<1>1. /\ call[c] \in [pc : Pcs, id : Ids, start : Nat, gen : Nat]
      /\ call \in [Calls -> [pc : Pcs, id : Ids, start : Nat, gen : Nat]]
      /\ generation \in Nat
      /\ call[c].pc \in ToolPcs => KindOf[c] = "tool"
      /\ \A d \in Calls : call[d].pc \in ToolPcs => KindOf[d] = "tool"
  BY DEF IInv, TypeOK, CallsArePast
<1>2. UNCHANGED <<process, crashes, now, running, lock, history, sidecar,
                  orphans, number, fired>>
  BY DEF NextToolRunGeneration, StartTool, WorkEnds, FinishToolRun, registry
<1>3. SameKeys
  BY <1>1 DEF NextToolRunGeneration, StartTool, WorkEnds, FinishToolRun,
              SameKeys, Pcs, ToolPcs
<1>4. call' \in [Calls -> [pc : Pcs, id : Ids, start : Nat, gen : Nat]]
  BY <1>1 DEF NextToolRunGeneration, StartTool, WorkEnds, FinishToolRun, Pcs
<1>5. generation' \in Nat
  BY <1>1 DEF NextToolRunGeneration, StartTool, WorkEnds, FinishToolRun
<1> DEFINE Runs == [call : Calls, gen : Nat,
                    outcome : {"unknown", "success", "failed", "cancelled"}]
<1>6. toolHistory' \subseteq Runs
  <2>1. toolHistory \subseteq Runs
    BY DEF IInv, TypeOK
  <2>2. CASE StartTool(c)
    BY <1>1, <2>1, <2>2 DEF StartTool
  <2>3. ASSUME NEW g, NEW o \in {"success", "failed", "cancelled"},
               UpdateToolHistoryOutcome(g, o)
        PROVE  toolHistory' \subseteq Runs
    <3> SUFFICES ASSUME NEW e \in toolHistory
                 PROVE  [e EXCEPT !.outcome = o] \in Runs /\ e \in Runs
      BY <2>3 DEF UpdateToolHistoryOutcome
    <3> QED
      BY <2>1
  <2>4. CASE WorkEnds(c)
    BY <2>1, <2>3, <2>4 DEF WorkEnds, ToolOutcomes
  <2> QED
    BY <2>1, <2>2, <2>4 DEF NextToolRunGeneration, FinishToolRun
<1>7. TypeOK'
  BY <1>2, <1>4, <1>5, <1>6 DEF IInv, TypeOK
<1> QED
  BY <1>2, <1>3, <1>7, QuietIInv

(***************************************************************************)
(* Registration.                                                           *)
(***************************************************************************)
\* A registration takes a key that no call of its kind has had, and mirrors it
\* unless it is a transfer's.
LEMMA RegisterIInv ==
    ASSUME IInv, NEW c \in Calls, Register(c)
    PROVE  IInv'
<1> DEFINE kind == KindOf[c]
           n == number[kind] + 1
           id == OpId(c, n)
           t == now[kind]
           entry == Entry(c, n, t)
<1>1. /\ kind \in Kinds /\ n \in Nat /\ t \in Nat \ {0}
      /\ id \in Ids /\ id[1] = kind
      /\ entry = [id |-> id, start |-> t, call |-> c]
  BY CallsAssumption DEF IInv, TypeOK, OpId, Ids, Kinds, Entry
<1>2. /\ process = "up" /\ lock = NoLock
      /\ call[c].pc = "idle"
      /\ number' = [number EXCEPT ![kind] = n]
      /\ UNCHANGED <<process, crashes, lock, history, orphans, generation,
                     fired, toolHistory>>
  BY DEF Register, Up
<1>3. ~Registered(c)
  BY <1>2 DEF IInv, CallsArePast
<1>4. CASE Refused(c, id)
  <2>1. /\ call' = [call EXCEPT ![c].pc = "done"]
        /\ UNCHANGED <<now, running, sidecar>>
    BY <1>4 DEF Register
  <2>2. TypeOK'
    BY <1>1, <1>2, <2>1 DEF IInv, TypeOK, Pcs
  <2>3. SameKeys
    BY <2>1 DEF IInv, TypeOK, CallsArePast, SameKeys, ToolPcs
  <2> QED
    BY <1>2, <2>1, <2>2, <2>3, QuietIInv
<1>5. CASE ~Refused(c, id)
  <2>1. /\ running' = running \cup {entry}
        /\ now' = [now EXCEPT ![kind] = @ + 1]
        /\ call' = [call EXCEPT ![c] =
                      [@ EXCEPT !.pc = FirstStep(kind), !.id = entry.id,
                                !.start = t]]
        /\ IF kind = "transfer" THEN UNCHANGED sidecar
           ELSE PersistInflight(running')
    BY <1>5 DEF Register
  <2>2. /\ call' \in [Calls -> [pc : Pcs, id : Ids, start : Nat, gen : Nat]]
        /\ call'[c].pc = FirstStep(kind)
        /\ call'[c].id = id /\ call'[c].start = t
        /\ \A d \in Calls \ {c} : call'[d] = call[d]
    <3>1. call[c] \in [pc : Pcs, id : Ids, start : Nat, gen : Nat]
      BY DEF IInv, TypeOK
    <3>2. FirstStep(kind) \in Pcs
      BY DEF FirstStep, Pcs
    <3> DEFINE new == [call[c] EXCEPT !.pc = FirstStep(kind), !.id = id,
                                      !.start = t]
    <3>3. call' = [call EXCEPT ![c] = new]
      <4>1. entry.id = id
        BY <1>1
      <4> HIDE DEF entry, id, t
      <4> QED
        BY <2>1, <4>1
    <3>4. /\ new \in [pc : Pcs, id : Ids, start : Nat, gen : Nat]
          /\ new.pc = FirstStep(kind) /\ new.id = id /\ new.start = t
      BY <1>1, <3>1, <3>2
    <3> HIDE DEF new
    <3> QED
      BY <3>3, <3>4 DEF IInv, TypeOK
  <2>3. /\ now' \in [Kinds -> Nat \ {0}]
        /\ now'[kind] = t + 1
        /\ \A k \in Kinds : now'[k] >= now[k]
    BY <1>1, <2>1 DEF IInv, TypeOK
  <2>4. entry \in [id : Ids, start : Nat, call : Calls]
    BY <1>1
  <2> HIDE DEF entry, id, t, n
  <2>5. running' \subseteq [id : Ids, start : Nat, call : Calls]
    BY <2>1, <2>4 DEF IInv, TypeOK
  <2>6. sidecar' \subseteq [id : Ids, start : Nat] /\ orphans' = {}
    BY <1>2, <2>1, <2>5 DEF IInv, TypeOK, Phases, PersistInflight, Inflight
  <2>7. TypeOK'
    <3>1. number' \in [Kinds -> Nat]
      BY <1>1, <1>2 DEF IInv, TypeOK
    <3> QED
      BY <1>2, <2>2, <2>3, <2>5, <2>6, <3>1 DEF IInv, TypeOK
  <2>8. /\ Registered(c)' /\ KeyOf(c)' = <<id, t>>
        /\ \A d \in Calls \ {c} : /\ Registered(d)' <=> Registered(d)
                                  /\ KeyOf(d)' = KeyOf(d)
                                  /\ InHistory(d)' <=> InHistory(d)
    BY <1>1, <1>2, <2>2 DEF Registered, KeyOf, InHistory, ReadTerminalKeys, t
  <2>9. \A d \in Calls : KeyOf(d) # <<id, t>>
    BY <1>1 DEF IInv, TypeOK, CallsArePast, KeyOf, t
  <2>10. CallsArePast'
    <3>1. ASSUME NEW d \in Calls \ {c}
          PROVE  call'[d].start < now'[KindOf[d]]
      <4>1. /\ call[d].start < now[KindOf[d]] /\ KindOf[d] \in Kinds
            /\ call[d].start \in Nat /\ now[KindOf[d]] \in Nat
            /\ now'[KindOf[d]] \in Nat
        BY <2>3, CallsAssumption DEF IInv, TypeOK, CallsArePast
      <4> QED
        BY <2>2, <2>3, <4>1
    <3> QED
      BY <1>1, <2>2, <2>3, <2>8, <3>1
         DEF IInv, CallsArePast, FirstStep, ToolPcs
  <2>11. KeysAreDistinct'
    BY <2>8, <2>9 DEF IInv, KeysAreDistinct
  <2>12. \A k : OfCall(k) => OfCall(k)'
    BY <1>3, <2>8 DEF OfCall
  <2>13. OpTerminalKey(entry) = <<id, t>> /\ entry.call = c
    BY <1>1 DEF OpTerminalKey, entry
  <2>14. EntriesAreOfCalls'
    BY <1>3, <2>1, <2>8, <2>13 DEF IInv, TypeOK, EntriesAreOfCalls
  <2>15. FilesAreOfCalls'
    <3>1. ASSUME NEW s \in sidecar', kind # "transfer"
          PROVE  OfCall(OpTerminalKey(s))'
      <4>1. PICK e \in running' : s = [id |-> e.id, start |-> e.start]
        BY <2>1, <3>1 DEF PersistInflight, Inflight
      <4>2. OpTerminalKey(s) = OpTerminalKey(e)
        BY <4>1 DEF OpTerminalKey
      <4>3. e.call \in Calls
        BY <2>5
      <4> QED
        BY <2>14, <4>2, <4>3 DEF EntriesAreOfCalls, OfCall
    <3> QED
      BY <1>2, <2>1, <2>12, <3>1 DEF IInv, FilesAreOfCalls
  <2>16. <<id, t>> \notin ReadTerminalKeys
    BY <2>9 DEF IInv, FilesAreOfCalls, OfCall, ReadTerminalKeys
  <2>17. OpenHasNoRecord'
    BY <1>2, <2>1, <2>6, <2>13, <2>16
       DEF IInv, OpenHasNoRecord, ReadTerminalKeys
  <2>18. Phases' /\ OneTerminalRecord'
    BY <1>2, <2>6 DEF IInv, Phases, OneTerminalRecord
  <2>19. NothingLost'
    <3> SUFFICES ASSUME NEW d \in Calls, Registered(d)',
                        KindOf[d] # "transfer", ~InHistory(d)'
                 PROVE  /\ \E s \in sidecar' : OpTerminalKey(s) = KeyOf(d)'
                        /\ \E e \in running' : e.call = d
      BY DEF NothingLost
    <3>1. PICK e \in running' : e.call = d
      BY <1>2, <2>1, <2>8, <2>13 DEF IInv, NothingLost
    <3>2. KeyOf(d)' = OpTerminalKey(e)
      BY <2>14, <3>1 DEF EntriesAreOfCalls
    <3>3. CASE kind = "transfer"
      BY <2>1, <2>8, <3>1, <3>3 DEF IInv, NothingLost
    <3>4. CASE kind # "transfer"
      <4>1. [id |-> e.id, start |-> e.start] \in sidecar'
        BY <2>1, <3>4 DEF PersistInflight, Inflight
      <4> QED
        BY <3>1, <3>2, <4>1 DEF OpTerminalKey
    <3> QED
      BY <3>3, <3>4
  <2>20. CancelsAreRecorded'
    <3>1. \A d \in Calls : CancelRecorded(d) => d # c
      BY <1>3, <2>8 DEF IInv, FilesAreOfCalls, OfCall, CancelRecorded,
                        CallsArePast, KeyOf, Registered
    <3>2. \A d \in Calls : CancelRecorded(d) => CancelRecorded(d)'
      BY <1>2, <2>8, <3>1 DEF CancelRecorded
    <3>3. lock.by # "cancel"
      BY <1>2 DEF NoLock
    <3> QED
      BY <1>2, <3>2, <3>3 DEF IInv, TypeOK, CancelsAreRecorded
  <2>21. TransfersAreEntries'
    <3>1. \A e \in running : kind = "transfer" => KindOf[e.call] # "transfer"
      BY <1>5 DEF Refused
    <3>2. \A d \in Calls \ {c} :
             KindOf[d] = "transfer" /\ call'[d].pc = "working"
                => InHistory(d)' \/ \E e \in running' : e.call = d
      BY <2>1, <2>2, <2>8 DEF IInv, TransfersAreEntries
    <3>3. \E e \in running' : e.call = c
      BY <2>1, <2>13
    <3>4. \A e, f \in running' :
             KindOf[e.call] = "transfer" /\ KindOf[f.call] = "transfer"
                => e.call = f.call
      BY <2>1, <2>13, <3>1 DEF IInv, TransfersAreEntries
    <3> QED
      BY <3>2, <3>3, <3>4 DEF TransfersAreEntries
  <2> QED
    BY <2>7, <2>10, <2>11, <2>14, <2>15, <2>17, <2>18, <2>19, <2>20, <2>21
       DEF IInv
<1> QED
  BY <1>4, <1>5

(***************************************************************************)
(* Terminal records.                                                       *)
(***************************************************************************)
\* A record that is appended for a key without one is the only one for it.
LEMMA AppendOnce ==
    ASSUME IInv, NEW e, NEW status \in Statuses, e.id \in Ids, e.start \in Nat,
           AppendHistoryRecord(e, status), OpTerminalKey(e) \notin ReadTerminalKeys
    PROVE  /\ history' \subseteq
                [id : Ids, start : Nat, status : Statuses, again : BOOLEAN]
           /\ history \subseteq history'
           /\ \A r \in history' : \/ r \in history
                                 \/ OpTerminalKey(r) = OpTerminalKey(e)
           /\ \E r \in history' : OpTerminalKey(r) = OpTerminalKey(e)
                                 /\ r.status = status
           /\ ReadTerminalKeys' = ReadTerminalKeys \cup {OpTerminalKey(e)}
           /\ OneTerminalRecord'
<1> DEFINE new == TerminalRecord(e, status)
<1>1. history' = history \cup {new}
  BY DEF AppendHistoryRecord
<1>2. (OpTerminalKey(e) \in ReadTerminalKeys) \in BOOLEAN
  OBVIOUS
<1>3. /\ new \in [id : Ids, start : Nat, status : Statuses, again : BOOLEAN]
      /\ OpTerminalKey(new) = OpTerminalKey(e)
      /\ new.status = status
  BY <1>2 DEF TerminalRecord, OpTerminalKey
<1> HIDE DEF new
<1>4. \A r \in history : OpTerminalKey(r) # OpTerminalKey(new)
  BY <1>3 DEF ReadTerminalKeys
<1>5. OneTerminalRecord'
  BY <1>1, <1>4 DEF IInv, OneTerminalRecord
<1>6. ReadTerminalKeys' = ReadTerminalKeys \cup {OpTerminalKey(e)}
  BY <1>1, <1>3 DEF ReadTerminalKeys
<1> QED
  BY <1>1, <1>3, <1>5, <1>6 DEF IInv, TypeOK

\* Whoever takes an entry from the registry leaves its record behind.
LEMMA ClaimIInv ==
    ASSUME IInv, NEW e \in running, NEW status \in {"completed", "cancelled"},
           process = "up", Claim(e, status), SameKeys,
           call' \in [Calls -> [pc : Pcs, id : Ids, start : Nat, gen : Nat]],
           \/ lock' = [by |-> "finish"]
           \/ lock' = [by |-> "cancel", call |-> e.call] /\ status = "cancelled",
           UNCHANGED <<process, crashes, now, sidecar, orphans, number,
                       generation, fired, toolHistory>>
    PROVE  IInv'
<1>1. /\ e.id \in Ids /\ e.start \in Nat /\ e.call \in Calls
      /\ status \in Statuses
      /\ OpTerminalKey(e) \notin ReadTerminalKeys
      /\ AppendHistoryRecord(e, status)
      /\ running' = running \ {e}
  BY DEF IInv, TypeOK, Statuses, OpenHasNoRecord, Claim
<1>2. /\ history' \subseteq
            [id : Ids, start : Nat, status : Statuses, again : BOOLEAN]
      /\ history \subseteq history'
      /\ \A r \in history' : r \in history \/ OpTerminalKey(r) = OpTerminalKey(e)
      /\ \E r \in history' : OpTerminalKey(r) = OpTerminalKey(e)
                            /\ r.status = status
      /\ ReadTerminalKeys' = ReadTerminalKeys \cup {OpTerminalKey(e)}
      /\ OneTerminalRecord'
  BY <1>1, AppendOnce
<1>3. Registered(e.call) /\ KeyOf(e.call) = OpTerminalKey(e)
  BY DEF IInv, EntriesAreOfCalls
<1>4. \A c \in Calls : /\ Registered(c)' <=> Registered(c)
                       /\ KeyOf(c)' = KeyOf(c)
                       /\ InHistory(c) => InHistory(c)'
                       /\ CancelRecorded(c) => CancelRecorded(c)'
  BY <1>2 DEF SameKeys, Registered, KeyOf, InHistory, CancelRecorded
<1>5. TypeOK'
  <2>1. lock' \in {NoLock, [by |-> "finish"]} \cup [by : {"cancel"}, call : Calls]
    BY <1>1
  <2> QED
    BY <1>1, <1>2, <2>1 DEF IInv, TypeOK
<1>6. CallsArePast' /\ KeysAreDistinct'
  BY <1>4 DEF IInv, CallsArePast, KeysAreDistinct, SameKeys
<1>7. EntriesAreOfCalls'
  BY <1>1, <1>4 DEF IInv, TypeOK, EntriesAreOfCalls
<1>8. FilesAreOfCalls'
  BY <1>1, <1>2, <1>3, <1>4 DEF IInv, FilesAreOfCalls, OfCall
<1>9. OpenHasNoRecord'
  <2>1. ASSUME NEW f \in running', OpTerminalKey(f) = OpTerminalKey(e)
        PROVE  FALSE
    <3>1. f.call = e.call
      BY <1>1, <1>3, <2>1 DEF IInv, TypeOK, EntriesAreOfCalls, KeysAreDistinct
    <3>2. f.id = e.id /\ f.start = e.start
      BY <2>1 DEF OpTerminalKey
    <3>3. /\ f \in [id : Ids, start : Nat, call : Calls]
          /\ e \in [id : Ids, start : Nat, call : Calls]
      BY <1>1 DEF IInv, TypeOK
    <3>4. f = e
      BY <3>1, <3>2, <3>3
    <3> QED
      BY <1>1, <3>4
  <2>2. orphans' = {}
    BY DEF IInv, Phases
  <2> QED
    BY <1>1, <1>2, <2>1, <2>2 DEF IInv, OpenHasNoRecord
<1>10. Phases'
  BY DEF IInv, Phases
<1>11. ASSUME NEW c \in Calls, NEW f \in running, f.call = c
       PROVE  InHistory(c)' \/ f \in running'
  BY <1>1, <1>2, <1>3, <1>4, <1>11 DEF InHistory
<1>12. NothingLost'
  BY <1>4, <1>11 DEF IInv, NothingLost
<1>13. CancelsAreRecorded'
  <2>1. CASE lock' = [by |-> "finish"]
    BY <1>4, <2>1 DEF IInv, TypeOK, CancelsAreRecorded
  <2>2. CASE lock' = [by |-> "cancel", call |-> e.call] /\ status = "cancelled"
    <3>1. CancelRecorded(e.call)'
      BY <1>1, <1>2, <1>3, <1>4, <2>2 DEF CancelRecorded
    <3>2. lock'.call = e.call
      BY <2>2
    <3> QED
      BY <1>4, <3>1, <3>2 DEF IInv, TypeOK, CancelsAreRecorded
  <2> QED
    BY <2>1, <2>2
<1>14. TransfersAreEntries'
  BY <1>1, <1>4, <1>11 DEF IInv, TransfersAreEntries, SameKeys
<1> QED
  BY <1>2, <1>5, <1>6, <1>7, <1>8, <1>9, <1>10, <1>12, <1>13, <1>14 DEF IInv

\* A finish claims its entry, or finds that a cancel has done so.
LEMMA FinishIInv ==
    ASSUME IInv, NEW c \in Calls, FinishOp(c)
    PROVE  IInv'
<1>1. /\ call' = [call EXCEPT ![c].pc = "done"]
      /\ call[c] \in [pc : Pcs, id : Ids, start : Nat, gen : Nat]
      /\ process = "up"
  BY DEF FinishOp, Up, IInv, TypeOK
<1>2. SameKeys /\ call' \in [Calls -> [pc : Pcs, id : Ids, start : Nat, gen : Nat]]
  BY <1>1 DEF IInv, TypeOK, Pcs, SameKeys, ToolPcs, CallsArePast
<1>3. CASE \E e \in running : Claim(e, "completed") /\ lock' = [by |-> "finish"]
  BY <1>1, <1>2, <1>3, ClaimIInv DEF FinishOp
<1>4. CASE UNCHANGED <<running, history, lock>>
  <2>1. TypeOK'
    BY <1>2, <1>4 DEF FinishOp, IInv, TypeOK
  <2> QED
    BY <1>2, <1>4, <2>1, QuietIInv DEF FinishOp
<1> QED
  BY <1>3, <1>4 DEF FinishOp

\* A cancel claims the entry and remembers whose context it will cancel.
LEMMA CancelIInv ==
    ASSUME IInv, NEW e \in running, CancelOp(e)
    PROVE  IInv'
<1>1. SameKeys
  BY DEF CancelOp, SameKeys, IInv, CallsArePast
<1> QED
  BY <1>1, ClaimIInv DEF CancelOp, Up, IInv, TypeOK

(***************************************************************************)
(* The sidecar, the death of the process, and the startup scan.            *)
(***************************************************************************)
\* The sidecar is rewritten from the registry: what runs is in it.
LEMMA PersistIInv ==
    ASSUME IInv, PersistAndUnlock
    PROVE  IInv'
<1>1. /\ process = "up"
      /\ sidecar' = Inflight(running)
      /\ fired' = IF lock.by = "cancel" THEN fired \cup {lock.call} ELSE fired
      /\ lock' = NoLock
      /\ UNCHANGED <<process, crashes, now, running, history, orphans, number,
                     generation, call, toolHistory>>
  BY DEF PersistAndUnlock, PersistInflight
<1>2. orphans = {}
  BY <1>1 DEF IInv, Phases
<1>3. sidecar' \subseteq [id : Ids, start : Nat]
  BY <1>1 DEF IInv, TypeOK, Inflight
<1>4. fired' \subseteq Calls
  BY <1>1 DEF IInv, TypeOK, NoLock
<1>5. TypeOK'
  BY <1>1, <1>2, <1>3, <1>4 DEF IInv, TypeOK
<1>6. \A c \in Calls : /\ Registered(c)' <=> Registered(c)
                       /\ KeyOf(c)' = KeyOf(c)
                       /\ InHistory(c)' <=> InHistory(c)
                       /\ CancelRecorded(c)' <=> CancelRecorded(c)
  BY <1>1 DEF Registered, KeyOf, InHistory, CancelRecorded, ReadTerminalKeys
<1>7. CallsArePast' /\ KeysAreDistinct' /\ OneTerminalRecord'
  BY <1>1, <1>6 DEF IInv, CallsArePast, KeysAreDistinct, OneTerminalRecord
<1>8. EntriesAreOfCalls' /\ OpenHasNoRecord' /\ TransfersAreEntries'
  BY <1>1, <1>6 DEF IInv, TypeOK, EntriesAreOfCalls, OpenHasNoRecord,
                    TransfersAreEntries, ReadTerminalKeys
<1>9. ASSUME NEW e \in running
      PROVE  /\ [id |-> e.id, start |-> e.start] \in sidecar'
             /\ OpTerminalKey([id |-> e.id, start |-> e.start]) = OpTerminalKey(e)
  BY <1>1 DEF Inflight, OpTerminalKey
<1>10. FilesAreOfCalls'
  <2>1. ASSUME NEW s \in sidecar'
        PROVE  OfCall(OpTerminalKey(s))'
    <3>1. PICK e \in running : s = [id |-> e.id, start |-> e.start]
      BY <1>1 DEF Inflight
    <3>2. OpTerminalKey(s) = OpTerminalKey(e) /\ e.call \in Calls
      BY <1>9, <3>1 DEF IInv, TypeOK
    <3> QED
      BY <1>6, <3>2 DEF IInv, EntriesAreOfCalls, OfCall
  <2> QED
    BY <1>1, <1>6, <2>1 DEF IInv, FilesAreOfCalls, OfCall
<1>11. Phases'
  BY <1>1 DEF IInv, Phases
<1>12. NothingLost'
  <2> SUFFICES ASSUME NEW c \in Calls, Registered(c)', KindOf[c] # "transfer",
                      ~InHistory(c)'
               PROVE  /\ \E s \in sidecar' : OpTerminalKey(s) = KeyOf(c)'
                      /\ \E e \in running' : e.call = c
    BY DEF NothingLost
  <2>1. PICK e \in running : e.call = c
    BY <1>1, <1>6 DEF IInv, NothingLost
  <2> QED
    BY <1>1, <1>6, <1>9, <2>1 DEF IInv, EntriesAreOfCalls
<1>13. CancelsAreRecorded'
  BY <1>1, <1>4, <1>6 DEF IInv, TypeOK, CancelsAreRecorded, NoLock
<1> QED
  BY <1>5, <1>7, <1>8, <1>10, <1>11, <1>12, <1>13 DEF IInv

\* A crash leaves the files, and no call goes on.
LEMMA CrashIInv ==
    ASSUME IInv, Crash
    PROVE  IInv'
<1>1. /\ process' = "down" /\ running' = {} /\ orphans' = {} /\ lock' = NoLock
      /\ number' = [k \in Kinds |-> 0] /\ generation' = 0
      /\ crashes' = crashes + 1 /\ crashes < MaxCrashes
      /\ UNCHANGED <<now, history, sidecar, fired, toolHistory>>
  BY DEF Crash
<1>2. ASSUME NEW c \in Calls
      PROVE  /\ call'[c] \in [pc : Pcs, id : Ids, start : Nat, gen : Nat]
             /\ call'[c].id = call[c].id /\ call'[c].start = call[c].start
             /\ call'[c].pc \in {"idle", "done", "dead"}
             /\ call'[c].pc = "idle" => call[c].pc = "idle"
  <2>1. call[c] \in [pc : Pcs, id : Ids, start : Nat, gen : Nat]
    BY DEF IInv, TypeOK
  <2>2. call'[c] = IF call[c].pc \in {"idle", "done"} THEN call[c]
                   ELSE [call[c] EXCEPT !.pc = "dead"]
    BY DEF Crash
  <2> QED
    BY <2>1, <2>2 DEF Pcs
<1>3. TypeOK'
  <2>1. call' \in [Calls -> [pc : Pcs, id : Ids, start : Nat, gen : Nat]]
    BY <1>2 DEF Crash
  <2>2. crashes' \in 0..MaxCrashes
    BY <1>1, CrashesAssumption DEF IInv, TypeOK
  <2> QED
    BY <1>1, <2>1, <2>2 DEF IInv, TypeOK
<1>4. \A c \in Calls : /\ Registered(c)' <=> Registered(c)
                       /\ KeyOf(c)' = KeyOf(c)
                       /\ InHistory(c)' <=> InHistory(c)
                       /\ CancelRecorded(c)' <=> CancelRecorded(c)
  BY <1>1, <1>2 DEF Registered, KeyOf, InHistory, CancelRecorded,
                    ReadTerminalKeys
<1>5. CallsArePast' /\ KeysAreDistinct'
  BY <1>1, <1>2, <1>4 DEF IInv, CallsArePast, KeysAreDistinct, ToolPcs
<1>6. FilesAreOfCalls' /\ EntriesAreOfCalls' /\ OneTerminalRecord'
  BY <1>1, <1>4 DEF IInv, FilesAreOfCalls, EntriesAreOfCalls, OfCall,
                    OneTerminalRecord
<1>7. OpenHasNoRecord' /\ Phases' /\ TransfersAreEntries'
  BY <1>1, <1>2 DEF OpenHasNoRecord, Phases, TransfersAreEntries
<1>8. NothingLost'
  BY <1>1, <1>4 DEF IInv, NothingLost
<1>9. CancelsAreRecorded'
  BY <1>1, <1>4 DEF IInv, TypeOK, CancelsAreRecorded, NoLock
<1> QED
  BY <1>3, <1>5, <1>6, <1>7, <1>8, <1>9 DEF IInv

\* The scan looks for the entries of the sidecar that have no record.
LEMMA StartupIInv ==
    ASSUME IInv, ServiceStartup
    PROVE  IInv'
<1>1. /\ process = "down" /\ process' = "recovering"
      /\ orphans' = {s \in sidecar : OpTerminalKey(s) \notin ReadTerminalKeys}
      /\ UNCHANGED <<crashes, now, running, lock, history, sidecar, number,
                     generation, call, fired, toolHistory>>
  BY DEF ServiceStartup, registry
<1>2. running = {}
  BY <1>1 DEF IInv, Phases
<1>3. ReadTerminalKeys' = ReadTerminalKeys
  BY <1>1 DEF ReadTerminalKeys
<1>4. TypeOK' /\ OpenHasNoRecord' /\ Phases'
  BY <1>1, <1>2, <1>3 DEF IInv, TypeOK, OpenHasNoRecord, Phases
<1>5. CallsArePast' /\ KeysAreDistinct' /\ EntriesAreOfCalls'
      /\ OneTerminalRecord' /\ TransfersAreEntries'
  BY <1>1, <1>2, <1>3
     DEF IInv, CallsArePast, KeysAreDistinct, EntriesAreOfCalls,
         OneTerminalRecord, TransfersAreEntries, Registered, KeyOf, InHistory
<1>6. FilesAreOfCalls' /\ CancelsAreRecorded' /\ NothingLost'
  BY <1>1, <1>3
     DEF IInv, FilesAreOfCalls, OfCall, CancelsAreRecorded, CancelRecorded,
         NothingLost, Registered, KeyOf, InHistory
<1> QED
  BY <1>4, <1>5, <1>6 DEF IInv

\* The scan marks an entry once, and only one that was never cancelled.
LEMMA MarkIInv ==
    ASSUME IInv, NEW s \in orphans, MarkInterrupted(s)
    PROVE  IInv'
<1>1. /\ process = "recovering"
      /\ AppendHistoryRecord(s, "interrupted")
      /\ orphans' = orphans \ {s}
      /\ UNCHANGED <<process, crashes, now, running, lock, sidecar, number,
                     generation, call, fired, toolHistory>>
      /\ s \in sidecar /\ s.id \in Ids /\ s.start \in Nat
      /\ OpTerminalKey(s) \notin ReadTerminalKeys
      /\ running = {}
  BY DEF MarkInterrupted, IInv, TypeOK, OpenHasNoRecord, Phases
<1>2. /\ history' \subseteq
            [id : Ids, start : Nat, status : Statuses, again : BOOLEAN]
      /\ history \subseteq history'
      /\ \A r \in history' : r \in history \/ OpTerminalKey(r) = OpTerminalKey(s)
      /\ ReadTerminalKeys' = ReadTerminalKeys \cup {OpTerminalKey(s)}
      /\ OneTerminalRecord'
  BY <1>1, AppendOnce DEF Statuses
<1>3. TypeOK'
  BY <1>1, <1>2 DEF IInv, TypeOK
<1>4. \A c \in Calls : /\ Registered(c)' <=> Registered(c)
                       /\ KeyOf(c)' = KeyOf(c)
                       /\ InHistory(c) => InHistory(c)'
                       /\ CancelRecorded(c) => CancelRecorded(c)'
  BY <1>1, <1>2 DEF Registered, KeyOf, InHistory, CancelRecorded
<1>5. CallsArePast' /\ KeysAreDistinct' /\ EntriesAreOfCalls'
  BY <1>1, <1>4 DEF IInv, CallsArePast, KeysAreDistinct, EntriesAreOfCalls
<1>6. FilesAreOfCalls'
  BY <1>1, <1>2, <1>4 DEF IInv, FilesAreOfCalls, OfCall
<1>7. OpenHasNoRecord'
  <2>1. ASSUME NEW q \in orphans', OpTerminalKey(q) = OpTerminalKey(s)
        PROVE  FALSE
    <3>1. q \in [id : Ids, start : Nat] /\ s \in [id : Ids, start : Nat]
      BY <1>1 DEF IInv, TypeOK
    <3>2. q.id = s.id /\ q.start = s.start
      BY <2>1 DEF OpTerminalKey
    <3>3. q = s
      BY <3>1, <3>2
    <3> QED
      BY <1>1, <3>3
  <2> QED
    BY <1>1, <1>2, <2>1 DEF IInv, OpenHasNoRecord
<1>8. Phases'
  BY <1>1, <1>2 DEF IInv, Phases
<1>9. NothingLost' /\ TransfersAreEntries' /\ CancelsAreRecorded'
  BY <1>1, <1>4 DEF IInv, TypeOK, NothingLost, TransfersAreEntries,
                    CancelsAreRecorded, NoLock
<1> QED
  BY <1>2, <1>3, <1>5, <1>6, <1>7, <1>8, <1>9 DEF IInv

\* The sidecar is emptied when all that it holds has a record.
LEMMA RecoveredIInv ==
    ASSUME IInv, RecoveryDone
    PROVE  IInv'
<1>1. /\ process = "recovering" /\ process' = "up"
      /\ orphans = {} /\ sidecar' = {} /\ running = {}
      /\ UNCHANGED <<crashes, now, running, lock, history, orphans, number,
                     generation, call, fired, toolHistory>>
  BY DEF RecoveryDone, IInv, Phases
<1>2. \A c \in Calls : /\ Registered(c)' <=> Registered(c)
                       /\ KeyOf(c)' = KeyOf(c)
                       /\ InHistory(c)' <=> InHistory(c)
                       /\ CancelRecorded(c)' <=> CancelRecorded(c)
  BY <1>1 DEF Registered, KeyOf, InHistory, CancelRecorded, ReadTerminalKeys
<1>3. \A c \in Calls : Registered(c) /\ KindOf[c] # "transfer" => InHistory(c)
  BY <1>1 DEF IInv, NothingLost, Phases, InHistory
<1>4. NothingLost'
  BY <1>2, <1>3 DEF NothingLost
<1>5. TypeOK' /\ Phases' /\ OpenHasNoRecord' /\ OneTerminalRecord'
  BY <1>1 DEF IInv, TypeOK, Phases, OpenHasNoRecord, OneTerminalRecord
<1>6. CallsArePast' /\ KeysAreDistinct' /\ EntriesAreOfCalls'
      /\ FilesAreOfCalls' /\ TransfersAreEntries'
  BY <1>1, <1>2 DEF IInv, CallsArePast, KeysAreDistinct, EntriesAreOfCalls,
                    FilesAreOfCalls, OfCall, TransfersAreEntries
<1>7. CancelsAreRecorded'
  BY <1>1, <1>2 DEF IInv, TypeOK, CancelsAreRecorded, NoLock
<1> QED
  BY <1>4, <1>5, <1>6, <1>7 DEF IInv

(***************************************************************************)
(* The theorems.                                                           *)
(***************************************************************************)
\* The strengthening is an invariant.
THEOREM Inductive == Spec => []IInv
<1>1. IInv /\ [Next]_vars => IInv'
  <2> SUFFICES ASSUME IInv, [Next]_vars
               PROVE  IInv'
    OBVIOUS
  <2>1. CASE UNCHANGED vars
    <3>1. TypeOK'
      BY <2>1 DEF IInv, TypeOK, vars
    <3>2. SameKeys
      BY <2>1 DEF IInv, CallsArePast, SameKeys, vars
    <3> QED
      BY <2>1, <3>1, <3>2, QuietIInv DEF vars
  <2>2. ASSUME NEW c \in Calls, CallStep(c)
        PROVE  IInv'
    BY <2>2, RegisterIInv, WorkIInv, FinishIInv DEF CallStep
  <2>3. CASE \E e \in running : CancelOp(e)
    BY <2>3, CancelIInv
  <2>4. CASE Recovery
    BY <2>4, StartupIInv, MarkIInv, RecoveredIInv DEF Recovery
  <2> QED
    BY <2>1, <2>2, <2>3, <2>4, PersistIInv, CrashIInv DEF Next
<1> QED
  BY <1>1, InitIInv, PTL DEF Spec

\* The registry, the history and the sidecar keep their types.
THEOREM TypeCorrect == Spec => []TypeOK
  BY Inductive, PTL DEF IInv

\* However finishes, cancels, crashes and startup scans interleave, an
\* operation has at most one terminal record.
THEOREM RecordedOnce == Spec => []OneTerminalRecord
  BY Inductive, PTL DEF IInv

\* No mirrored operation disappears from the history and the sidecar.
THEOREM NoOperationLost == Spec => []NothingLost
  BY Inductive, PTL DEF IInv

\* The startup scan tells nothing interrupted that a cancel had ended.
THEOREM CancelledIsNotInterrupted == Spec => []InterruptedIsTrue
<1>1. IInv => InterruptedIsTrue
  <2> SUFFICES ASSUME IInv, NEW c \in Calls, NEW r \in history,
                      OpTerminalKey(r) = KeyOf(c), r.status = "interrupted",
                      c \in fired
               PROVE  FALSE
    BY DEF InterruptedIsTrue
  <2>1. PICK q \in history : OpTerminalKey(q) = KeyOf(c) /\ q.status = "cancelled"
    BY DEF IInv, CancelsAreRecorded, CancelRecorded
  <2> QED
    BY <2>1 DEF IInv, OneTerminalRecord
<1> QED
  BY <1>1, Inductive, PTL

\* Two transfers are at work together only after one of them was ended.
THEOREM TransfersExclude == Spec => []OneTransfer
<1>1. IInv => OneTransfer
  BY DEF IInv, TransfersAreEntries, OneTransfer
<1> QED
  BY <1>1, Inductive, PTL

(***************************************************************************)
(* The refinement: every step opens one operation, closes one, or is a     *)
(* stutter of the trail.                                                   *)
(***************************************************************************)
Opened == {KeyOf(c) : c \in {d \in Calls : Registered(d)}}

\* A record that is appended for an open operation closes it.
LEMMA AppendCloses ==
    ASSUME IInv, NEW e, NEW status, AppendHistoryRecord(e, status),
           OpTerminalKey(e) \notin ReadTerminalKeys, OfCall(OpTerminalKey(e)),
           Opened' = Opened
    PROVE  Trail!Close
<1> DEFINE new == TerminalRecord(e, status)
<1>1. history' = history \cup {new}
  BY DEF AppendHistoryRecord
<1>2. new.id = e.id /\ new.start = e.start
  BY DEF TerminalRecord
<1>3. <<e.id, e.start>> \in Opened
  BY DEF OfCall, Opened, OpTerminalKey
<1>4. \A q \in history : <<q.id, q.start>> # <<e.id, e.start>>
  BY DEF ReadTerminalKeys, OpTerminalKey
<1> HIDE DEF new
<1> QED
  BY <1>1, <1>2, <1>3, <1>4 DEF Trail!Close, Trail!Key, Opened

\* Steps that keep the keys keep what was opened.
LEMMA KeysKeepOpened ==
    ASSUME SameKeys \/ UNCHANGED call
    PROVE  Opened' = Opened
  BY DEF SameKeys, Opened, KeyOf, Registered

\* Every step of the application is a step of the trail or a stutter.
LEMMA TrailStep ==
    ASSUME IInv, [Next]_vars
    PROVE  [Trail!Open \/ Trail!Close]_<<Opened, history>>
<1>1. CASE UNCHANGED <<call, history>>
  BY <1>1, KeysKeepOpened
<1>2. ASSUME NEW c \in Calls, Register(c)
      PROVE  [Trail!Open \/ Trail!Close]_<<Opened, history>>
  <2> DEFINE id == OpId(c, number[KindOf[c]] + 1)
             t == now[KindOf[c]]
  <2>1. /\ history' = history
        /\ call[c] \in [pc : Pcs, id : Ids, start : Nat, gen : Nat]
        /\ t \in Nat \ {0}
        /\ ~Registered(c)
    BY <1>2, CallsAssumption DEF Register, Up, IInv, TypeOK, CallsArePast
  <2>2. CASE call' = [call EXCEPT ![c].pc = "done"]
    <3>1. \A d \in Calls : call'[d].id = call[d].id /\ call'[d].start = call[d].start
      BY <2>1, <2>2 DEF IInv, TypeOK
    <3>2. Opened' = Opened
      BY <3>1 DEF Opened, KeyOf, Registered
    <3> QED
      BY <2>1, <3>2
  <2>3. CASE ~Refused(c, id)
    <3>1. /\ \A d \in Calls \ {c} : call'[d] = call[d]
          /\ call'[c].id = id /\ call'[c].start = t
      <4> DEFINE new == [call[c] EXCEPT !.pc = FirstStep(KindOf[c]), !.id = id,
                                        !.start = t]
      <4>1. Entry(c, number[KindOf[c]] + 1, t).id = id
        BY DEF Entry
      <4>2. call' = [call EXCEPT ![c] = new]
        BY <1>2, <2>3, <4>1 DEF Register
      <4>3. new.id = id /\ new.start = t
        BY <2>1
      <4> HIDE DEF new
      <4> QED
        BY <4>2, <4>3 DEF IInv, TypeOK
    <3> HIDE DEF id, t
    <3>2. /\ Registered(c)' /\ KeyOf(c)' = <<id, t>>
          /\ \A d \in Calls \ {c} : /\ Registered(d)' <=> Registered(d)
                                    /\ KeyOf(d)' = KeyOf(d)
      BY <2>1, <3>1 DEF Registered, KeyOf
    <3>3. Opened' = Opened \cup {<<id, t>>}
      BY <2>1, <3>2 DEF Opened
    <3>4. <<id, t>> \notin Opened
      <4>1. id[1] = KindOf[c]
        BY DEF id, OpId
      <4> QED
        BY <2>1, <4>1 DEF Opened, IInv, TypeOK, CallsArePast, KeyOf, t
    <3> QED
      BY <2>1, <3>3, <3>4 DEF Trail!Open, Opened
  <2> QED
    BY <1>2, <2>2, <2>3 DEF Register
<1>3. ASSUME NEW c \in Calls,
             \/ NextToolRunGeneration(c) \/ StartTool(c)
             \/ WorkEnds(c) \/ FinishToolRun(c)
      PROVE  UNCHANGED <<Opened, history>>
  <2>1. history' = history
    BY <1>3 DEF NextToolRunGeneration, StartTool, WorkEnds, FinishToolRun, registry
  <2>2. \A d \in Calls : call'[d].id = call[d].id /\ call'[d].start = call[d].start
    BY <1>3 DEF NextToolRunGeneration, StartTool, WorkEnds, FinishToolRun, IInv,
                TypeOK
  <2> QED
    BY <2>1, <2>2 DEF Opened, KeyOf, Registered
<1>4. ASSUME NEW e \in running, NEW status, Claim(e, status), Opened' = Opened
      PROVE  Trail!Close
  BY <1>4, AppendCloses
     DEF Claim, IInv, TypeOK, OpenHasNoRecord, EntriesAreOfCalls, OfCall
<1>5. ASSUME NEW c \in Calls, FinishOp(c)
      PROVE  [Trail!Open \/ Trail!Close]_<<Opened, history>>
  <2>1. \A d \in Calls : call'[d].id = call[d].id /\ call'[d].start = call[d].start
    BY <1>5 DEF FinishOp, IInv, TypeOK
  <2>2. Opened' = Opened
    BY <2>1 DEF Opened, KeyOf, Registered
  <2> QED
    BY <1>4, <1>5, <2>2 DEF FinishOp
<1>6. ASSUME NEW e \in running, CancelOp(e)
      PROVE  Trail!Close
  BY <1>4, <1>6, KeysKeepOpened DEF CancelOp
<1>7. ASSUME NEW s \in orphans, MarkInterrupted(s)
      PROVE  Trail!Close
  BY <1>7, KeysKeepOpened, AppendCloses
     DEF MarkInterrupted, IInv, TypeOK, OpenHasNoRecord, FilesAreOfCalls
<1>8. CASE Crash
  <2>1. ASSUME NEW d \in Calls
        PROVE  call'[d].id = call[d].id /\ call'[d].start = call[d].start
    <3>1. /\ call[d] \in [pc : Pcs, id : Ids, start : Nat, gen : Nat]
          /\ call'[d] = IF call[d].pc \in {"idle", "done"} THEN call[d]
                        ELSE [call[d] EXCEPT !.pc = "dead"]
      BY <1>8 DEF Crash, IInv, TypeOK
    <3> QED
      BY <3>1
  <2>2. Opened' = Opened /\ history' = history
    BY <1>8, <2>1 DEF Opened, KeyOf, Registered, Crash
  <2> QED
    BY <2>2
<1> QED
  BY <1>1, <1>2, <1>3, <1>5, <1>6, <1>7, <1>8
     DEF Next, vars, CallStep, Recovery, PersistAndUnlock, ServiceStartup,
         RecoveryDone, registry

\* The registry, the files and the recovery implement the trail: opened once,
\* closed at most once, nothing rewritten.
THEOREM TrailIsImplemented == Spec => OperationsAreATrail
<1>1. Init => Trail!Init
  BY DEF Init, Trail!Init, Registered
<1>2. IInv /\ [Next]_vars => [Trail!Open \/ Trail!Close]_<<Opened, history>>
  BY TrailStep
<1> QED
  BY <1>1, <1>2, Inductive, PTL DEF Spec, OperationsAreATrail, Trail!Spec, Opened
=============================================================================
