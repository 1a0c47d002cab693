--------------------------- MODULE Sandbox_proofs ---------------------------
(***************************************************************************)
(* For any series, any command lines and any failures, when the commands   *)
(* of a project are run one after the other: the series of the volume and  *)
(* of the server agree, an up costs no served application, and a seed that *)
(* died is finished as long as its container lives.                        *)
(***************************************************************************)
EXTENDS Sandbox, TLAPS

\* The assumption on the use of the sandbox, of which the code has no lock.
OneAtATime == ~Overlap /\ \A u, v \in Ups : u = v

UpRecord == [pc : UpPcs, ask : Requests, exists : BOOLEAN,
             volumeExists : BOOLEAN, pending : BOOLEAN]

(***************************************************************************)
(* The inductive invariant: what an up knows of the container and of the   *)
(* volume at each of its steps.                                            *)
(***************************************************************************)
Building == {"check", "ensure", "run"}
Seeding == {"import", "importing", "repoint", "files", "unmark"}

KnowsContainer(u) ==
    /\ At(u, "look") => (up[u].exists <=> container # None)
    /\ up[u].pc \in Building => container = None /\ ~up[u].exists
    /\ At(u, "start") => container # None /\ up[u].exists
    /\ At(u, "shape") => /\ container # None
                         /\ ~up[u].exists => container.docroot = "raw"
    /\ At(u, "seed") => container # None
    /\ up[u].pc \in Seeding => container # None /\ container.db # NoDatabase

KnowsVolume(u) ==
    /\ At(u, "ensure") => /\ VolumeAccepted(up[u].ask)
                          /\ up[u].volumeExists <=> volume # None
    /\ At(u, "run") /\ NewDatabase(up[u].ask) # NoDatabase =>
         volume # None /\ volume.series = NewDatabase(up[u].ask)

KnowsSeed(u) ==
    /\ At(u, "importing") => up[u].ask.origin = "up"
    /\ At(u, "repoint") /\ up[u].exists =>
         volume.data = "foreign" /\ up[u].ask.origin = "up"
    /\ up[u].pc \in {"files", "unmark"} =>
         /\ up[u].exists => volume.data = "whole"
         /\ up[u].ask.origin = "up" => volume.data # "foreign"
    /\ At(u, "unmark") => container.files

DownIsAlone ==
    down # "idle" => container = None /\ \A u \in Ups : At(u, "idle")

\* a container whose seed has begun and not ended has a marker
TornIsMarked ==
    container # None /\ container.torn => marker /\ container.db # NoDatabase

IInv ==
    /\ OneAtATime
    /\ TypeOK
    /\ SeriesMatches
    /\ DownIsAlone
    /\ TornIsMarked
    /\ \A u \in Ups : KnowsContainer(u) /\ KnowsVolume(u) /\ KnowsSeed(u)

\* There is no container and no volume at first, and no command runs.
LEMMA InitIInv == OneAtATime /\ Init => IInv
<1> SUFFICES ASSUME OneAtATime, Init
             PROVE  IInv
  OBVIOUS
<1>1. \A u \in Ups : up[u].pc = "idle"
  BY DEF Init, Idle
<1>2. TypeOK
  BY DEF Init, TypeOK
<1>3. SeriesMatches /\ DownIsAlone /\ TornIsMarked
  BY DEF Init, SeriesMatches, DownIsAlone, TornIsMarked
<1>4. ASSUME NEW u \in Ups
      PROVE  KnowsContainer(u) /\ KnowsVolume(u) /\ KnowsSeed(u)
  BY <1>1 DEF KnowsContainer, KnowsVolume, KnowsSeed, At, Building, Seeding
<1> QED
  BY <1>2, <1>3, <1>4 DEF IInv

\* What an up that is under way looks like, and what a step makes of it.
LEMMA UpFacts ==
    ASSUME IInv, NEW u \in Ups, ~At(u, "idle")
    PROVE  up[u] \in UpRecord
  BY DEF IInv, TypeOK, UpRecord, At, Idle

LEMMA GotoFacts ==
    ASSUME IInv, NEW u \in Ups, ~At(u, "idle"), NEW to \in UpPcs, Goto(u, to)
    PROVE  /\ up'[u] \in UpRecord
           /\ up'[u].pc = to /\ up'[u].ask = up[u].ask
           /\ up'[u].exists = up[u].exists
           /\ up' \in [Ups -> {Idle} \cup UpRecord]
           /\ \A v \in Ups : v = u
<1>1. up[u] \in UpRecord
  BY UpFacts
<1>2. up' = [up EXCEPT ![u] = [up[u] EXCEPT !.pc = to]]
  BY DEF Goto
<1>3. [up[u] EXCEPT !.pc = to] \in UpRecord
  BY <1>1 DEF UpRecord
<1>4. up \in [Ups -> {Idle} \cup UpRecord]
  BY DEF IInv, TypeOK, UpRecord
<1>5. up'[u] = [up[u] EXCEPT !.pc = to]
  BY <1>2, <1>4
<1> QED
  BY <1>1, <1>2, <1>3, <1>4, <1>5 DEF UpRecord, IInv, OneAtATime

\* An up that ends leaves no knowledge to keep.
LEMMA IdleFacts ==
    ASSUME IInv, NEW u \in Ups, up' = [up EXCEPT ![u] = Idle]
    PROVE  /\ up' \in [Ups -> {Idle} \cup UpRecord]
           /\ \A v \in Ups : /\ up'[v] = Idle
                             /\ KnowsContainer(v)' /\ KnowsVolume(v)' /\ KnowsSeed(v)'
<1>1. up \in [Ups -> {Idle} \cup UpRecord] /\ \A v \in Ups : v = u
  BY DEF IInv, TypeOK, UpRecord, OneAtATime
<1>2. /\ up' \in [Ups -> {Idle} \cup UpRecord]
      /\ \A v \in Ups : up'[v] = Idle
  BY <1>1
<1>3. \A v \in Ups : up'[v].pc = "idle"
  BY <1>2 DEF Idle
<1> QED
  BY <1>2, <1>3 DEF KnowsContainer, KnowsVolume, KnowsSeed, At, Building, Seeding

(***************************************************************************)
(* One step of an up at a time.                                            *)
(***************************************************************************)
\* Asking whether the container exists is the first thing an up does.
LEMMA BeginIInv ==
    ASSUME IInv, NEW u \in Ups, Begin(u)
    PROVE  IInv'
<1>1. PICK r \in Requests :
         up' = [up EXCEPT ![u] =
                  [pc |-> "look", ask |-> r, exists |-> container # None,
                   volumeExists |-> FALSE, pending |-> marker]]
  BY DEF Begin
<1> DEFINE new == [pc |-> "look", ask |-> r, exists |-> container # None,
                   volumeExists |-> FALSE, pending |-> marker]
<1>2. /\ down = "idle"
      /\ UNCHANGED <<container, volume, marker, down>>
      /\ \A v \in Ups : v = u
      /\ marker \in BOOLEAN
  BY DEF Begin, IInv, OneAtATime, TypeOK
<1>3. (container # None) \in BOOLEAN
  OBVIOUS
<1>4. new \in UpRecord
  BY <1>2, <1>3 DEF UpRecord, UpPcs
<1>5. new.pc = "look" /\ (new.exists <=> container # None)
  BY <1>3
<1> HIDE DEF new
<1>6. up'[u] = new /\ up' \in [Ups -> {Idle} \cup UpRecord]
  BY <1>1, <1>4 DEF IInv, TypeOK, UpRecord, new
<1>7. KnowsContainer(u)' /\ KnowsVolume(u)' /\ KnowsSeed(u)'
  BY <1>2, <1>5, <1>6
     DEF KnowsContainer, KnowsVolume, KnowsSeed, At, Building, Seeding
<1> QED
  BY <1>2, <1>6, <1>7 DEF IInv, OneAtATime, TypeOK, SeriesMatches, DownIsAlone,
                          TornIsMarked, UpRecord

\* The parts of the invariant that a step of an up has to show.
LEMMA StepIInv ==
    ASSUME IInv, NEW u \in Ups, ~At(u, "idle"),
           up' \in [Ups -> {Idle} \cup UpRecord],
           container' \in Containers \cup {None}, volume' \in Volumes \cup {None},
           marker' \in BOOLEAN, UNCHANGED down,
           SeriesMatches', TornIsMarked',
           KnowsContainer(u)', KnowsVolume(u)', KnowsSeed(u)'
    PROVE  IInv'
<1>1. down = "idle" /\ \A v \in Ups : v = u
  BY DEF IInv, DownIsAlone, OneAtATime
<1> QED
  BY <1>1 DEF IInv, OneAtATime, TypeOK, DownIsAlone, UpRecord

\* The steps before there is a container.
LEMMA BuildIInv ==
    ASSUME IInv, NEW u \in Ups,
           \/ Recreate(u) \/ BuildNew(u) \/ Reuse(u)
           \/ CheckVolume(u) \/ EnsureVolume(u)
    PROVE  IInv'
<1>1. ~At(u, "idle") /\ marker' = marker /\ down' = down
  BY DEF Recreate, BuildNew, Reuse, CheckVolume, EnsureVolume, At
<1>2. up[u] \in UpRecord
  BY <1>1, UpFacts
<1>3. /\ container \in Containers \cup {None} /\ volume \in Volumes \cup {None}
      /\ marker \in BOOLEAN /\ up \in [Ups -> {Idle} \cup UpRecord]
      /\ SeriesMatches /\ TornIsMarked
      /\ KnowsContainer(u) /\ KnowsVolume(u)
  BY DEF IInv, TypeOK, UpRecord
<1>4. CASE Recreate(u)
  <2> DEFINE new == [up[u] EXCEPT !.pc = "check", !.exists = FALSE]
  <2>1. up'[u] = new /\ container' = None /\ volume' = volume
    BY <1>2, <1>3, <1>4 DEF Recreate, UpRecord
  <2>2. new \in UpRecord /\ new.pc = "check" /\ new.exists = FALSE
    BY <1>2 DEF UpRecord, UpPcs
  <2>3. up' \in [Ups -> {Idle} \cup UpRecord]
    BY <1>2, <1>3, <1>4, <2>2 DEF Recreate, UpRecord, UpPcs
  <2> HIDE DEF new
  <2>4. KnowsContainer(u)' /\ KnowsVolume(u)' /\ KnowsSeed(u)'
    BY <2>1, <2>2 DEF KnowsContainer, KnowsVolume, KnowsSeed, At, Building, Seeding
  <2> QED
    BY <1>1, <1>3, <2>1, <2>3, <2>4, StepIInv DEF SeriesMatches, TornIsMarked
<1>5. CASE BuildNew(u)
  <2>1. /\ At(u, "look") /\ ~up[u].exists /\ Goto(u, "check")
        /\ UNCHANGED <<container, volume>>
    BY <1>5 DEF BuildNew
  <2>2. "check" \in UpPcs
    BY DEF UpPcs
  <2>3. /\ up'[u] \in UpRecord /\ up'[u].pc = "check"
        /\ up'[u].exists = up[u].exists
        /\ up' \in [Ups -> {Idle} \cup UpRecord]
    BY <1>1, <2>1, <2>2, GotoFacts
  <2>4. KnowsContainer(u)' /\ KnowsVolume(u)' /\ KnowsSeed(u)'
    BY <1>3, <2>1, <2>3
       DEF KnowsContainer, KnowsVolume, KnowsSeed, At, Building, Seeding
  <2> QED
    BY <1>1, <1>3, <2>1, <2>3, <2>4, StepIInv DEF SeriesMatches, TornIsMarked
<1>6. CASE Reuse(u)
  <2>1. /\ At(u, "look") /\ up[u].exists /\ container # None
        /\ Goto(u, "start") /\ UNCHANGED <<container, volume>>
    BY <1>6 DEF Reuse
  <2>2. "start" \in UpPcs
    BY DEF UpPcs
  <2>3. /\ up'[u] \in UpRecord /\ up'[u].pc = "start"
        /\ up'[u].exists = up[u].exists
        /\ up' \in [Ups -> {Idle} \cup UpRecord]
    BY <1>1, <2>1, <2>2, GotoFacts
  <2>4. KnowsContainer(u)' /\ KnowsVolume(u)' /\ KnowsSeed(u)'
    BY <2>1, <2>3
       DEF KnowsContainer, KnowsVolume, KnowsSeed, At, Building, Seeding
  <2> QED
    BY <1>1, <1>3, <2>1, <2>3, <2>4, StepIInv DEF SeriesMatches, TornIsMarked
<1>7. CASE CheckVolume(u)
  <2> DEFINE new == [up[u] EXCEPT !.pc = "ensure", !.volumeExists = volume # None]
  <2>1. /\ At(u, "check") /\ VolumeAccepted(up[u].ask)
        /\ up'[u] = new /\ UNCHANGED <<container, volume>>
    BY <1>2, <1>3, <1>7 DEF CheckVolume, UpRecord
  <2>2. (volume # None) \in BOOLEAN
    OBVIOUS
  <2>3. /\ new \in UpRecord /\ new.pc = "ensure" /\ new.exists = up[u].exists
        /\ new.ask = up[u].ask /\ (new.volumeExists <=> volume # None)
    BY <1>2, <2>2 DEF UpRecord, UpPcs
  <2>4. up' \in [Ups -> {Idle} \cup UpRecord]
    BY <1>3, <1>7, <2>1, <2>3 DEF CheckVolume
  <2> HIDE DEF new
  <2>5. VolumeAccepted(up[u].ask)' = VolumeAccepted(up'[u].ask)
    BY <2>1 DEF VolumeAccepted
  <2>6. VolumeAccepted(up'[u].ask)
    BY <2>1, <2>3
  <2>7. KnowsContainer(u)' /\ KnowsSeed(u)'
    BY <1>3, <2>1, <2>3 DEF KnowsContainer, KnowsSeed, At, Building, Seeding
  <2>8. KnowsVolume(u)'
    BY <2>1, <2>3, <2>6 DEF KnowsVolume, At, VolumeAccepted
  <2> QED
    BY <1>1, <1>3, <2>1, <2>4, <2>7, <2>8, StepIInv DEF SeriesMatches, TornIsMarked
<1>8. CASE EnsureVolume(u)
  <2> DEFINE db == NewDatabase(up[u].ask)
  <2>1. /\ At(u, "ensure") /\ Goto(u, "run") /\ UNCHANGED container
        /\ volume' = IF db # NoDatabase /\ ~up[u].volumeExists /\ volume = None
                     THEN [series |-> db, data |-> "empty"] ELSE volume
    BY <1>8 DEF EnsureVolume
  <2>2. /\ container = None /\ ~up[u].exists
        /\ up[u].volumeExists <=> volume # None
        /\ db # NoDatabase /\ volume # None => volume.series = db
    BY <1>3, <2>1 DEF KnowsContainer, KnowsVolume, VolumeAccepted, Building, At
  <2>3. "run" \in UpPcs
    BY DEF UpPcs
  <2>4. /\ up'[u] \in UpRecord /\ up'[u].pc = "run"
        /\ up'[u].exists = up[u].exists /\ up'[u].ask = up[u].ask
        /\ up' \in [Ups -> {Idle} \cup UpRecord]
    BY <1>1, <2>1, <2>3, GotoFacts
  <2>5. db \in Databases
    BY <1>2, SandboxConstants
       DEF UpRecord, Request, Databases, NewDatabase
  <2>6. /\ volume' \in Volumes \cup {None}
        /\ db # NoDatabase => volume' # None /\ volume'.series = db
    BY <1>3, <2>1, <2>2, <2>5, SandboxConstants DEF Volumes, Databases
  <2>7. NewDatabase(up[u].ask)' = db
    BY <2>4 DEF NewDatabase
  <2>8. KnowsContainer(u)' /\ KnowsVolume(u)' /\ KnowsSeed(u)'
    BY <2>1, <2>2, <2>4, <2>6, <2>7
       DEF KnowsContainer, KnowsVolume, KnowsSeed, At, Building, Seeding
  <2> QED
    BY <1>1, <1>3, <2>1, <2>2, <2>4, <2>6, <2>8, StepIInv
       DEF SeriesMatches, TornIsMarked
<1> QED
  BY <1>4, <1>5, <1>6, <1>7, <1>8

\* A new port makes no difference to the series of a volume.
LEMMA FreshPortFacts ==
    ASSUME volume \in Volumes \cup {None}
    PROVE  /\ FreshPort(volume) \in Volumes \cup {None}
           /\ volume = None <=> FreshPort(volume) = None
           /\ volume # None => FreshPort(volume).series = volume.series
  BY SandboxConstants DEF FreshPort, Volumes

\* The container is created or started, and its docroot is laid out.
LEMMA StartIInv ==
    ASSUME IInv, NEW u \in Ups, RunContainer(u) \/ StartContainer(u)
    PROVE  IInv'
<1>1. ~At(u, "idle") /\ marker' = marker /\ down' = down
  BY DEF RunContainer, StartContainer, At
<1>2. up[u] \in UpRecord
  BY <1>1, UpFacts
<1>3. /\ container \in Containers \cup {None} /\ volume \in Volumes \cup {None}
      /\ marker \in BOOLEAN
      /\ SeriesMatches /\ TornIsMarked
      /\ KnowsContainer(u) /\ KnowsVolume(u)
  BY DEF IInv, TypeOK
<1>4. CASE RunContainer(u)
  <2> DEFINE db == NewDatabase(up[u].ask)
             new == [db |-> db, running |-> TRUE, docroot |-> "raw",
                     files |-> FALSE, torn |-> FALSE]
  <2>1. /\ At(u, "run") /\ container = None /\ container' = new
        /\ volume' = IF db # NoDatabase /\ volume = None
                     THEN [series |-> Distribution, data |-> "empty"]
                     ELSE FreshPort(volume)
        /\ Goto(u, "shape")
    BY <1>4 DEF RunContainer
  <2>2. "shape" \in UpPcs
    BY DEF UpPcs
  <2>3. /\ up'[u] \in UpRecord /\ up'[u].pc = "shape" /\ up'[u].ask = up[u].ask
        /\ up'[u].exists = up[u].exists
        /\ up' \in [Ups -> {Idle} \cup UpRecord]
    BY <1>1, <2>1, <2>2, GotoFacts
  <2>4. db \in Databases
    BY <1>2, SandboxConstants DEF UpRecord, Request, Databases, NewDatabase
  <2>5. /\ new \in Containers /\ new # None /\ new.db = db
        /\ new.docroot = "raw" /\ ~new.torn
    <3> HIDE DEF db
    <3>1. new \in Containers
      BY <2>4 DEF Containers
    <3>2. None \notin Containers
      BY SandboxConstants DEF Containers
    <3> QED
      BY <3>1, <3>2
  <2>6. ~(db # NoDatabase /\ volume = None)
    BY <1>3, <2>1 DEF KnowsVolume, At
  <2>7. volume' = FreshPort(volume) /\ volume' \in Volumes \cup {None}
    BY <1>3, <2>1, <2>6, FreshPortFacts
  <2>8. db # NoDatabase => volume' # None /\ volume'.series = db
    BY <1>3, <2>1, <2>7, FreshPortFacts DEF KnowsVolume, At
  <2> HIDE DEF new
  <2>9. SeriesMatches' /\ TornIsMarked'
    BY <2>1, <2>5, <2>8 DEF SeriesMatches, TornIsMarked
  <2>10. KnowsContainer(u)' /\ KnowsVolume(u)' /\ KnowsSeed(u)'
    BY <2>1, <2>3, <2>5 DEF KnowsContainer, KnowsVolume, KnowsSeed, At, Building, Seeding
  <2> QED
    BY <1>1, <1>3, <2>1, <2>3, <2>5, <2>7, <2>9, <2>10, StepIInv
<1>5. CASE StartContainer(u)
  <2>1. /\ At(u, "start") /\ container # None
        /\ container' = [container EXCEPT !.running = TRUE]
        /\ volume' = IF container.running THEN volume ELSE FreshPort(volume)
        /\ Goto(u, "shape")
    BY <1>5 DEF StartContainer
  <2>2. "shape" \in UpPcs
    BY DEF UpPcs
  <2>3. /\ up'[u] \in UpRecord /\ up'[u].pc = "shape" /\ up'[u].ask = up[u].ask
        /\ up'[u].exists = up[u].exists
        /\ up' \in [Ups -> {Idle} \cup UpRecord]
    BY <1>1, <2>1, <2>2, GotoFacts
  <2>4. /\ container' \in Containers /\ container' # None
        /\ container'.db = container.db /\ container'.torn = container.torn
    BY <1>3, <2>1, SandboxConstants DEF Containers
  <2>5. /\ volume' \in Volumes \cup {None}
        /\ volume # None => volume' # None /\ volume'.series = volume.series
    BY <1>3, <2>1, FreshPortFacts
  <2>6. SeriesMatches' /\ TornIsMarked'
    BY <1>1, <1>3, <2>1, <2>4, <2>5 DEF SeriesMatches, TornIsMarked
  <2>7. up[u].exists
    BY <1>3, <2>1 DEF KnowsContainer, At
  <2>8. KnowsContainer(u)' /\ KnowsVolume(u)' /\ KnowsSeed(u)'
    BY <2>3, <2>4, <2>7 DEF KnowsContainer, KnowsVolume, KnowsSeed, At, Building, Seeding
  <2> QED
    BY <1>1, <1>3, <2>3, <2>4, <2>5, <2>6, <2>8, StepIInv
<1> QED
  BY <1>4, <1>5

\* An up that ends, for whatever reason, and leaves the container a container.
LEMMA EndIInv ==
    ASSUME IInv, NEW u \in Ups, up' = [up EXCEPT ![u] = Idle],
           container' \in Containers \cup {None}, marker' \in BOOLEAN,
           UNCHANGED <<volume, down>>, SeriesMatches', TornIsMarked', down = "idle"
    PROVE  IInv'
<1>1. /\ up' \in [Ups -> {Idle} \cup UpRecord]
      /\ \A v \in Ups : KnowsContainer(v)' /\ KnowsVolume(v)' /\ KnowsSeed(v)'
  BY IdleFacts
<1> QED
  BY <1>1 DEF IInv, OneAtATime, TypeOK, DownIsAlone, UpRecord

\* Laying out the docroot touches nothing that the invariant is about.
LEMMA ShapeIInv ==
    ASSUME IInv, NEW u \in Ups, ShapeDocRoot(u)
    PROVE  IInv'
<1>1. /\ ~At(u, "idle") /\ At(u, "shape") /\ UNCHANGED <<volume, marker, down>>
      /\ container # None /\ container \in Containers /\ down = "idle"
      /\ volume \in Volumes \cup {None} /\ marker \in BOOLEAN
      /\ SeriesMatches /\ TornIsMarked
  BY DEF ShapeDocRoot, Reachable, At, IInv, TypeOK, DownIsAlone
<1>2. /\ container' \in Containers /\ container' # None
      /\ container'.db = container.db /\ container'.torn = container.torn
  BY <1>1, SandboxConstants DEF ShapeDocRoot, Containers
<1>3. SeriesMatches' /\ TornIsMarked'
  BY <1>1, <1>2 DEF SeriesMatches, TornIsMarked
<1>4. CASE up' = [up EXCEPT ![u] = Idle]
  BY <1>1, <1>2, <1>3, <1>4, EndIInv
<1>5. CASE Goto(u, "seed")
  <2>2. "seed" \in UpPcs
    BY DEF UpPcs
  <2>3. /\ up'[u] \in UpRecord /\ up'[u].pc = "seed" /\ up'[u].ask = up[u].ask
        /\ up'[u].exists = up[u].exists
        /\ up' \in [Ups -> {Idle} \cup UpRecord]
    BY <1>1, <1>5, <2>2, GotoFacts
  <2>4. KnowsContainer(u)' /\ KnowsVolume(u)' /\ KnowsSeed(u)'
    BY <1>2, <2>3 DEF KnowsContainer, KnowsVolume, KnowsSeed, At, Building, Seeding
  <2> QED
    BY <1>1, <1>2, <1>3, <2>3, <2>4, StepIInv
<1> QED
  BY <1>4, <1>5 DEF ShapeDocRoot

\* What holds at every step of the seed.
LEMMA SeedFacts ==
    ASSUME IInv, NEW u \in Ups, At(u, "seed") \/ up[u].pc \in Seeding
    PROVE  /\ ~At(u, "idle") /\ up[u] \in UpRecord /\ down = "idle"
           /\ container \in Containers /\ container # None
           /\ volume \in Volumes \cup {None} /\ marker \in BOOLEAN
           /\ container.db # NoDatabase =>
                volume \in Volumes /\ volume # None /\ volume.series = container.db
           /\ None \notin Containers /\ None \notin Volumes
           /\ SeriesMatches /\ TornIsMarked
           /\ KnowsContainer(u) /\ KnowsVolume(u) /\ KnowsSeed(u)
<1>1. ~At(u, "idle")
  BY DEF At, Seeding
<1>2. up[u] \in UpRecord /\ down = "idle" /\ container # None
  BY <1>1, UpFacts DEF IInv, DownIsAlone, KnowsContainer, At
<1>3. None \notin Containers /\ None \notin Volumes
  BY SandboxConstants DEF Containers, Volumes
<1> QED
  BY <1>1, <1>2, <1>3 DEF IInv, TypeOK, SeriesMatches

\* The decision to seed marks the container, and chooses the import where a
\* seed is taken up again.
LEMMA SeedBeginsIInv ==
    ASSUME IInv, NEW u \in Ups, SkipSeed(u) \/ MarkSeedPending(u)
    PROVE  IInv'
<1>1. /\ At(u, "seed") /\ ~At(u, "idle") /\ up[u] \in UpRecord /\ down = "idle"
      /\ container \in Containers /\ container # None
      /\ volume \in Volumes \cup {None} /\ marker \in BOOLEAN
      /\ None \notin Containers
      /\ SeriesMatches /\ TornIsMarked
      /\ UNCHANGED <<volume, down>>
  BY SeedFacts DEF SkipSeed, MarkSeedPending
<1>2. CASE SkipSeed(u)
  <2>1. UNCHANGED <<container, marker>> /\ up' = [up EXCEPT ![u] = Idle]
    BY <1>2 DEF SkipSeed, Ready
  <2>2. SeriesMatches' /\ TornIsMarked'
    BY <1>1, <2>1 DEF SeriesMatches, TornIsMarked
  <2> QED
    BY <1>1, <2>1, <2>2, EndIInv
<1>3. CASE MarkSeedPending(u)
  <2> DEFINE to == IF Reseeds(u) \/ volume.data = "empty" THEN "import"
                                                         ELSE "repoint"
  <2>1. /\ Seeds(u) /\ marker' = TRUE
        /\ container' = [container EXCEPT !.torn = TRUE]
        /\ Goto(u, to)
    BY <1>3 DEF MarkSeedPending, Goto
  <2>2. to \in UpPcs /\ to \in {"import", "repoint"}
    BY DEF UpPcs
  <2>3. up[u].exists => to = "import"
    BY <2>1 DEF Seeds, WantsSeed
  <2> HIDE DEF to
  <2>4. /\ up'[u].pc = to /\ up'[u].exists = up[u].exists
        /\ up' \in [Ups -> {Idle} \cup UpRecord]
    BY <1>1, <2>1, <2>2, GotoFacts
  <2>5. /\ container' \in Containers /\ container' # None
        /\ container'.db = container.db /\ container.db # NoDatabase
    BY <1>1, <2>1 DEF Containers, Seeds
  <2>6. SeriesMatches' /\ TornIsMarked'
    BY <1>1, <2>1, <2>5 DEF SeriesMatches, TornIsMarked
  <2>7. KnowsContainer(u)' /\ KnowsVolume(u)' /\ KnowsSeed(u)'
    BY <2>2, <2>3, <2>4, <2>5 DEF KnowsContainer, KnowsVolume, KnowsSeed, At, Building, Seeding
  <2> QED
    BY <1>1, <2>1, <2>4, <2>5, <2>6, <2>7, StepIInv
<1> QED
  BY <1>2, <1>3

\* The import and the rewrite change what the volume holds, not its series.
LEMMA SeedDatabaseIInv ==
    ASSUME IInv, NEW u \in Ups,
           ImportBegins(u) \/ ImportEnds(u) \/ RewriteDatabase(u)
    PROVE  IInv'
<1>1. up[u].pc \in {"import", "importing", "repoint"}
  BY DEF ImportBegins, ImportEnds, RewriteDatabase, At
<1>2. /\ ~At(u, "idle") /\ up[u] \in UpRecord /\ down = "idle"
      /\ container \in Containers /\ container # None
      /\ volume \in Volumes /\ volume # None /\ marker \in BOOLEAN
      /\ container.db # NoDatabase /\ None \notin Volumes
      /\ SeriesMatches /\ TornIsMarked /\ KnowsSeed(u)
      /\ UNCHANGED <<container, marker, down>>
  BY <1>1, SeedFacts
     DEF ImportBegins, ImportEnds, RewriteDatabase, Seeding, KnowsContainer
<1>3. ASSUME NEW d \in {"partial", "foreign", "whole", "empty"},
             volume' = [volume EXCEPT !.data = d]
      PROVE  /\ volume' \in Volumes /\ volume' # None /\ volume'.data = d
             /\ SeriesMatches' /\ TornIsMarked'
  <2>1. volume' \in Volumes /\ volume'.data = d /\ volume'.series = volume.series
    BY <1>2, <1>3 DEF Volumes
  <2> QED
    BY <1>2, <2>1 DEF SeriesMatches, TornIsMarked
<1>4. CASE ImportBegins(u)
  <2>1. /\ volume' = [volume EXCEPT !.data = "partial"]
        /\ up[u].ask.origin = "up" /\ Goto(u, "importing")
    BY <1>4 DEF ImportBegins
  <2>2. "importing" \in UpPcs
    BY DEF UpPcs
  <2>3. /\ up'[u] \in UpRecord /\ up'[u].pc = "importing" /\ up'[u].ask = up[u].ask
        /\ up'[u].exists = up[u].exists
        /\ up' \in [Ups -> {Idle} \cup UpRecord]
    BY <1>2, <2>1, <2>2, GotoFacts
  <2>4. KnowsContainer(u)' /\ KnowsVolume(u)' /\ KnowsSeed(u)'
    BY <1>2, <2>1, <2>3 DEF KnowsContainer, KnowsVolume, KnowsSeed, At, Building, Seeding
  <2> QED
    BY <1>2, <1>3, <2>1, <2>3, <2>4, StepIInv
<1>5. CASE ImportEnds(u)
  <2>1. /\ volume' = [volume EXCEPT !.data = "foreign"]
        /\ At(u, "importing") /\ Goto(u, "repoint")
    BY <1>5 DEF ImportEnds
  <2>2. "repoint" \in UpPcs
    BY DEF UpPcs
  <2>3. /\ up'[u] \in UpRecord /\ up'[u].pc = "repoint" /\ up'[u].ask = up[u].ask
        /\ up'[u].exists = up[u].exists
        /\ up' \in [Ups -> {Idle} \cup UpRecord]
    BY <1>2, <2>1, <2>2, GotoFacts
  <2>4. volume'.data = "foreign" /\ up[u].ask.origin = "up"
    BY <1>2, <1>3, <2>1 DEF KnowsSeed
  <2>5. KnowsContainer(u)' /\ KnowsVolume(u)' /\ KnowsSeed(u)'
    BY <1>2, <2>3, <2>4 DEF KnowsContainer, KnowsVolume, KnowsSeed, At, Building, Seeding
  <2> QED
    BY <1>2, <1>3, <2>1, <2>3, <2>5, StepIInv
<1>6. CASE RewriteDatabase(u)
  <2>1. /\ volume' = [volume EXCEPT !.data = Repointed(u)]
        /\ At(u, "repoint") /\ Goto(u, "files")
    BY <1>6 DEF RewriteDatabase
  <2>2. "files" \in UpPcs
    BY DEF UpPcs
  <2>3. /\ up'[u] \in UpRecord /\ up'[u].pc = "files" /\ up'[u].ask = up[u].ask
        /\ up'[u].exists = up[u].exists
        /\ up' \in [Ups -> {Idle} \cup UpRecord]
    BY <1>2, <2>1, <2>2, GotoFacts
  <2>4. /\ Repointed(u) \in {"partial", "foreign", "whole", "empty"}
        /\ up[u].ask.origin = "up" => Repointed(u) # "foreign"
        /\ up[u].exists => Repointed(u) = "whole"
    BY <1>2, <2>1 DEF Repointed, Volumes, KnowsSeed
  <2>5. volume'.data = Repointed(u)
    BY <1>3, <2>1, <2>4
  <2>6. KnowsContainer(u)' /\ KnowsVolume(u)' /\ KnowsSeed(u)'
    BY <1>2, <2>3, <2>4, <2>5 DEF KnowsContainer, KnowsVolume, KnowsSeed, At, Building, Seeding
  <2> QED
    BY <1>2, <1>3, <2>1, <2>3, <2>4, <2>6, StepIInv
<1> QED
  BY <1>4, <1>5, <1>6

\* The files, and the marker that goes last.
LEMMA SeedEndsIInv ==
    ASSUME IInv, NEW u \in Ups, SeedFiles(u) \/ ClearSeedPending(u)
    PROVE  IInv'
<1>1. up[u].pc \in {"files", "unmark"}
  BY DEF SeedFiles, ClearSeedPending, At
<1>2. /\ ~At(u, "idle") /\ up[u] \in UpRecord /\ down = "idle"
      /\ container \in Containers /\ container # None
      /\ volume \in Volumes /\ volume # None /\ marker \in BOOLEAN
      /\ container.db # NoDatabase /\ None \notin Containers
      /\ SeriesMatches /\ TornIsMarked /\ KnowsSeed(u)
      /\ UNCHANGED <<volume, down>>
  BY <1>1, SeedFacts DEF SeedFiles, ClearSeedPending, Seeding, KnowsContainer
<1>3. CASE SeedFiles(u)
  <2>1. /\ container' = [container EXCEPT !.files = TRUE] /\ marker' = marker
        /\ At(u, "files") /\ Goto(u, "unmark")
    BY <1>3 DEF SeedFiles
  <2>2. "unmark" \in UpPcs
    BY DEF UpPcs
  <2>3. /\ up'[u] \in UpRecord /\ up'[u].pc = "unmark" /\ up'[u].ask = up[u].ask
        /\ up'[u].exists = up[u].exists
        /\ up' \in [Ups -> {Idle} \cup UpRecord]
    BY <1>2, <2>1, <2>2, GotoFacts
  <2>4. /\ container' \in Containers /\ container' # None /\ container'.files
        /\ container'.db = container.db /\ container'.torn = container.torn
    BY <1>2, <2>1 DEF Containers
  <2>5. SeriesMatches' /\ TornIsMarked'
    BY <1>2, <2>1, <2>4 DEF SeriesMatches, TornIsMarked
  <2>6. KnowsContainer(u)' /\ KnowsVolume(u)' /\ KnowsSeed(u)'
    BY <1>2, <2>1, <2>3, <2>4 DEF KnowsContainer, KnowsVolume, KnowsSeed, At, Building, Seeding
  <2> QED
    BY <1>2, <2>1, <2>3, <2>4, <2>5, <2>6, StepIInv
<1>4. CASE ClearSeedPending(u)
  <2>1. /\ container' = [container EXCEPT !.torn = FALSE] /\ marker' = FALSE
        /\ up' = [up EXCEPT ![u] = Idle]
    BY <1>2, <1>4 DEF ClearSeedPending, Ready
  <2>2. /\ container' \in Containers /\ container' # None /\ ~container'.torn
        /\ container'.db = container.db
    BY <1>2, <2>1 DEF Containers
  <2>3. SeriesMatches' /\ TornIsMarked'
    BY <1>2, <2>2 DEF SeriesMatches, TornIsMarked
  <2> QED
    BY <1>2, <2>1, <2>2, <2>3, EndIInv
<1> QED
  BY <1>3, <1>4

\* A failure leaves the container, the volume and the marker as they are.
LEMMA FailIInv ==
    ASSUME IInv, NEW u \in Ups, UpFails(u)
    PROVE  IInv'
<1>1. /\ up' = [up EXCEPT ![u] = Idle] /\ down = "idle"
      /\ container \in Containers \cup {None} /\ marker \in BOOLEAN
      /\ SeriesMatches /\ TornIsMarked
      /\ UNCHANGED <<container, volume, marker, down>>
  BY DEF UpFails, IInv, TypeOK, DownIsAlone, At
<1>2. SeriesMatches' /\ TornIsMarked'
  BY <1>1 DEF SeriesMatches, TornIsMarked
<1> QED
  BY <1>1, <1>2, EndIInv

(***************************************************************************)
(* The other commands run when no up does; the host may stop the container *)
(* at any time.                                                            *)
(***************************************************************************)
\* What an up knows does not depend on whether the container runs.
LEMMA StopIInv ==
    ASSUME IInv, ContainerStops
    PROVE  IInv'
<1>1. /\ container \in Containers /\ container # None /\ None \notin Containers
      /\ container' = [container EXCEPT !.running = FALSE]
      /\ UNCHANGED <<volume, marker, up, down>>
  BY SandboxConstants DEF ContainerStops, Reachable, IInv, TypeOK, Containers
<1>2. /\ container' \in Containers /\ container' # None
      /\ container'.db = container.db /\ container'.torn = container.torn
      /\ container'.docroot = container.docroot
      /\ container'.files = container.files
  BY <1>1 DEF Containers
<1>3. SeriesMatches' /\ TornIsMarked' /\ TypeOK' /\ DownIsAlone'
  BY <1>1, <1>2 DEF IInv, SeriesMatches, TornIsMarked, TypeOK, DownIsAlone, At
<1>4. ASSUME NEW u \in Ups
      PROVE  KnowsContainer(u)' /\ KnowsVolume(u)' /\ KnowsSeed(u)'
  BY <1>1, <1>2 DEF IInv, KnowsContainer, KnowsVolume, KnowsSeed, VolumeAccepted,
                    At, Building
<1> QED
  BY <1>3, <1>4 DEF IInv, OneAtATime

\* While every up is idle nothing is known that a command could disturb.
LEMMA IdleIInv ==
    ASSUME IInv, \A u \in Ups : At(u, "idle"), UNCHANGED up,
           container' \in Containers \cup {None}, volume' \in Volumes \cup {None},
           marker' \in BOOLEAN, down' \in {"idle", "purge", "state"},
           SeriesMatches', TornIsMarked', down' # "idle" => container' = None
    PROVE  IInv'
<1>1. ASSUME NEW u \in Ups
      PROVE  KnowsContainer(u)' /\ KnowsVolume(u)' /\ KnowsSeed(u)'
  BY DEF KnowsContainer, KnowsVolume, KnowsSeed, At, Building, Seeding
<1> QED
  BY <1>1 DEF IInv, OneAtATime, TypeOK, DownIsAlone, At

\* Down, purge, reset and deploy.
LEMMA CommandIInv ==
    ASSUME IInv,
           \/ RemoveContainer \/ PurgeWithoutContainer \/ RemoveVolume
           \/ RemoveStateDir \/ DownFails \/ SandboxReset \/ Deploy
    PROVE  IInv'
<1>1. /\ \A u \in Ups : At(u, "idle")
      /\ up' = up
      /\ down # "idle" => container = None
      /\ down \in {"idle", "purge", "state"}
      /\ container \in Containers \cup {None} /\ volume \in Volumes \cup {None}
      /\ marker \in BOOLEAN /\ SeriesMatches /\ TornIsMarked
      /\ None \notin Containers
  BY SandboxConstants
     DEF IInv, OneAtATime, TypeOK, DownIsAlone, Free, RemoveContainer,
         PurgeWithoutContainer, RemoveVolume, RemoveStateDir, DownFails,
         SandboxReset, Deploy, Containers
<1>2. CASE RemoveContainer
  BY <1>1, <1>2, IdleIInv DEF RemoveContainer, SeriesMatches, TornIsMarked
<1>3. CASE PurgeWithoutContainer
  BY <1>1, <1>3, IdleIInv DEF PurgeWithoutContainer, SeriesMatches, TornIsMarked
<1>4. CASE RemoveVolume
  BY <1>1, <1>4, IdleIInv DEF RemoveVolume, SeriesMatches, TornIsMarked
<1>5. CASE RemoveStateDir
  BY <1>1, <1>5, IdleIInv DEF RemoveStateDir, SeriesMatches, TornIsMarked
<1>6. CASE DownFails
  BY <1>1, <1>6, IdleIInv DEF DownFails, SeriesMatches, TornIsMarked
<1>7. CASE SandboxReset \/ Deploy
  <2>1. /\ container # None /\ down = "idle" /\ UNCHANGED <<volume, marker, down>>
    BY <1>1, <1>7 DEF SandboxReset, Deploy, Reachable
  <2>2. /\ container' \in Containers /\ container' # None
        /\ container'.db = container.db /\ container'.torn = container.torn
    BY <1>1, <1>7, <2>1 DEF SandboxReset, Deploy, Containers
  <2>3. SeriesMatches' /\ TornIsMarked'
    BY <1>1, <2>1, <2>2 DEF SeriesMatches, TornIsMarked
  <2> QED
    BY <1>1, <2>1, <2>2, <2>3, IdleIInv
<1> QED
  BY <1>2, <1>3, <1>4, <1>5, <1>6, <1>7

(***************************************************************************)
(* The theorems.                                                           *)
(***************************************************************************)
\* The strengthening is an invariant.
THEOREM Inductive == OneAtATime => (Spec => []IInv)
<1>1. IInv /\ [Next]_vars => IInv'
  <2> SUFFICES ASSUME IInv, [Next]_vars
               PROVE  IInv'
    OBVIOUS
  <2>1. CASE UNCHANGED vars
    BY <2>1 DEF vars, IInv, OneAtATime, TypeOK, SeriesMatches, DownIsAlone,
                TornIsMarked, KnowsContainer, KnowsVolume, KnowsSeed,
                VolumeAccepted, At
  <2>2. ASSUME NEW u \in Ups, UpStep(u)
        PROVE  IInv'
    BY <2>2, BeginIInv, BuildIInv, StartIInv, ShapeIInv, SeedBeginsIInv,
       SeedDatabaseIInv, SeedEndsIInv, FailIInv DEF UpStep
  <2> QED
    BY <2>1, <2>2, StopIInv, CommandIInv DEF Next
<1> QED
  BY <1>1, InitIInv, PTL DEF Spec

\* The container, the volume, the marker and the commands keep their types.
THEOREM TypeCorrect == OneAtATime => (Spec => []TypeOK)
<1>1. IInv => TypeOK
  BY DEF IInv
<1> QED
  BY <1>1, Inductive, PTL

\* No server opens what another series has written, whatever was created,
\* recreated, purged or left half way before.
THEOREM SeriesKept == OneAtATime => (Spec => []SeriesMatches)
<1>1. IInv => SeriesMatches
  BY DEF IInv
<1> QED
  BY <1>1, Inductive, PTL

\* Only --recreate and a docroot asked for take away the served application.
THEOREM ApplicationKept == OneAtATime => (Spec => UpCostsNoApplication)
<1> DEFINE Kept == \A u \in Ups :
                      UpStep(u) /\ Served /\ ~Served'
                         => up[u].ask.recreate \/ up[u].ask.reshape
<1>1. IInv /\ [Next]_vars => [Kept]_vars
  <2> SUFFICES ASSUME IInv, NEW u \in Ups, UpStep(u), Served, ~Served',
                      ~up[u].ask.recreate
               PROVE  up[u].ask.reshape
    OBVIOUS
  <2>1. /\ container \in Containers /\ container # None
        /\ container.docroot = "app" /\ None \notin Containers
        /\ KnowsContainer(u)
    BY SandboxConstants DEF IInv, TypeOK, Served, Containers
  <2>2. container' # container
    BY DEF Served
  <2>3. \A f \in {TRUE, FALSE} :
           /\ container' # [container EXCEPT !.torn = f]
           /\ container' # [container EXCEPT !.files = f]
           /\ container' # [container EXCEPT !.running = f]
    BY <2>1 DEF Served, Containers
  <2>4. ShapeDocRoot(u)
    BY <2>1, <2>2, <2>3
       DEF UpStep, Begin, Recreate, BuildNew, Reuse, CheckVolume, EnsureVolume,
           RunContainer, StartContainer, SkipSeed, MarkSeedPending, ImportBegins,
           ImportEnds, RewriteDatabase, SeedFiles, ClearSeedPending, UpFails
  <2> QED
    BY <2>1, <2>2, <2>4 DEF ShapeDocRoot, Shapes, KnowsContainer
<1> QED
  BY <1>1, Inductive, PTL DEF Spec, UpCostsNoApplication

\* As long as the container of a seed lives, the next up that may seed and
\* ends well has finished the database, the URL and the files.
THEOREM SeedIsFinished == OneAtATime => (Spec => KeptContainerIsFinished)
<1> DEFINE Kept == \A u \in Ups :
                      EndsReady(u) /\ MaySeed(up[u].ask) /\ up[u].exists
                                   /\ container.torn
                         => volume.data = "whole" /\ container.files
<1>1. IInv /\ [Next]_vars => [Kept]_vars
  <2> SUFFICES ASSUME IInv, NEW u \in Ups, EndsReady(u), MaySeed(up[u].ask),
                      up[u].exists, container.torn
               PROVE  volume.data = "whole" /\ container.files
    OBVIOUS
  <2>1. marker /\ container.db # NoDatabase
    BY DEF IInv, TornIsMarked, EndsReady
  <2>2. Seeds(u)
    BY <2>1 DEF Seeds, WantsSeed, Reseeds, ResumesSeed, MaySeed
  <2>3. At(u, "unmark")
    BY <2>2 DEF EndsReady, SkipSeed, ClearSeedPending
  <2> QED
    BY <2>3 DEF IInv, KnowsSeed, At
<1> QED
  BY <1>1, Inductive, PTL DEF Spec, KeptContainerIsFinished

\* A new container never ends up ready on the URL of the one before it.
THEOREM UrlIsFresh == OneAtATime => (Spec => FreshContainerIsRepointed)
<1> DEFINE Kept == \A u \in Ups :
                      EndsReady(u) /\ MaySeed(up[u].ask) /\ ~up[u].exists
                                   /\ container.db # NoDatabase
                         => volume.data # "foreign"
<1>1. IInv /\ [Next]_vars => [Kept]_vars
  <2> SUFFICES ASSUME IInv, NEW u \in Ups, EndsReady(u), MaySeed(up[u].ask),
                      ~up[u].exists, container.db # NoDatabase
               PROVE  volume.data # "foreign"
    OBVIOUS
  <2>1. Seeds(u)
    BY DEF Seeds, WantsSeed, MaySeed
  <2>2. At(u, "unmark") /\ up[u].ask.origin = "up"
    BY <2>1 DEF EndsReady, SkipSeed, ClearSeedPending, MaySeed
  <2> QED
    BY <2>2 DEF IInv, KnowsSeed, At
<1> QED
  BY <1>1, Inductive, PTL DEF Spec, FreshContainerIsRepointed
=============================================================================
