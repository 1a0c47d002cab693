------------------------------- MODULE Sandbox ------------------------------
(***************************************************************************)
(* The rehearsal sandbox of one project: a container that is thrown away,  *)
(* a database volume that is kept, and a marker file that says a seed has  *)
(* started and not finished.  `sandbox up` brings all three to a state a   *)
(* deploy can run against; `down` and `reset` take parts away.  A command  *)
(* may fail or be killed between any two steps, and nothing but these      *)
(* three is left of it.                                                    *)
(***************************************************************************)
CONSTANTS
    Ups,           \* the `sandbox up` commands that may be under way at once
    Series,        \* the database series a sandbox can be built with
    DefaultSeries, \* the one a new sandbox gets when no --db names another
    Distribution,  \* the one an unlabelled volume is taken to hold
    NoDatabase,    \* what a profile without a database server ships
    Unasked,       \* neither --db nor --profile was passed
    None,          \* no container; no volume
    Requests,      \* the command lines that are tried
    SeedsFiles,    \* whether the framework seeds media or an env file
    Overlap        \* whether another command may run during an up

Databases == Series \cup {NoDatabase}

\* A command line of `sandbox up`; origin says whether the project has an
\* environment to seed from, and whether that is running.
Request == [recreate : BOOLEAN, reseed : BOOLEAN, noSeed : BOOLEAN,
            reshape : BOOLEAN, origin : {"none", "down", "up"},
            db : Databases \cup {Unasked}]

ASSUME SandboxConstants ==
    /\ {DefaultSeries, Distribution} \subseteq Series
    /\ NoDatabase \notin Series
    /\ Unasked \notin Databases
    /\ None \notin [db : Databases, running : BOOLEAN,
                    docroot : {"raw", "shaped", "app"}, files : BOOLEAN,
                    torn : BOOLEAN]
    /\ None \notin [series : Series,
                    data : {"empty", "partial", "foreign", "whole"}]
    /\ Requests \subseteq Request
    /\ {SeedsFiles, Overlap} \subseteq BOOLEAN

VARIABLES
    container,     \* None, or the container
    volume,        \* None, or the database volume and what it holds
    marker,        \* whether the seed-pending file exists
    up,            \* where each up is, what it asked for, what it has read
    down           \* where a down --purge is

vars == <<container, volume, marker, up, down>>

Idle == [pc |-> "idle"]

At(u, pc) == up[u].pc = pc

Goto(u, pc) == up' = [up EXCEPT ![u].pc = pc]

\* docker exec needs a container that is there and running
Reachable == container # None /\ container.running

Served == container # None /\ container.docroot = "app"

(***************************************************************************)
(* SandboxUp: whether the container exists is asked first and decides what *)
(* the rest of the command line means.                                     *)
(***************************************************************************)
Validated(r) == r.reseed => ~r.noSeed /\ r.origin # "none"

Begin(u) ==
    /\ At(u, "idle")
    /\ Overlap \/ down = "idle"
    /\ \E r \in Requests :
          /\ Validated(r)
          /\ up' = [up EXCEPT ![u] =
                      [pc |-> "look", ask |-> r, exists |-> container # None,
                       volumeExists |-> FALSE, pending |-> marker]]
    /\ UNCHANGED <<container, volume, marker, down>>

\* sandboxNewDB
NewDatabase(r) == IF r.db = Unasked THEN DefaultSeries ELSE r.db

\* sandboxReusedDB, and the profile half of sandboxReusedRuntime
ReuseRefused(r) == r.db # Unasked /\ r.db # container.db

\* Mutant: any volume of that name will do.
AcceptsAnyVolume(r) == TRUE

\* checkSandboxDBVolume with CheckSandboxDBVolumeSeries
VolumeAccepted(r) ==
    NewDatabase(r) # NoDatabase /\ volume # None
        => volume.series = NewDatabase(r)

\* the replacement is validated before the working container is removed
Recreate(u) ==
    /\ At(u, "look")
    /\ up[u].exists /\ up[u].ask.recreate
    /\ VolumeAccepted(up[u].ask)
    /\ container' = None
    /\ up' = [up EXCEPT ![u].pc = "check", ![u].exists = FALSE]
    /\ UNCHANGED <<volume, marker, down>>

BuildNew(u) ==
    /\ At(u, "look")
    /\ ~up[u].exists
    /\ Goto(u, "check")
    /\ UNCHANGED <<container, volume, marker, down>>

Reuse(u) ==
    /\ At(u, "look")
    /\ up[u].exists /\ ~up[u].ask.recreate
    /\ container # None
    /\ ~ReuseRefused(up[u].ask)
    /\ Goto(u, "start")
    /\ UNCHANGED <<container, volume, marker, down>>

\* again before the image is built; what is read here is used after the build
CheckVolume(u) ==
    /\ At(u, "check")
    /\ VolumeAccepted(up[u].ask)
    /\ up' = [up EXCEPT ![u].pc = "ensure",
                        ![u].volumeExists = volume # None]
    /\ UNCHANGED <<container, volume, marker, down>>

\* docker leaves a volume that exists as it is, label and all
EnsureVolume(u) ==
    LET db == NewDatabase(up[u].ask) IN
    /\ At(u, "ensure")
    /\ volume' = IF db # NoDatabase /\ ~up[u].volumeExists /\ volume = None
                 THEN [series |-> db, data |-> "empty"]
                 ELSE volume
    /\ Goto(u, "run")
    /\ UNCHANGED <<container, marker, down>>

\* docker picks a fresh web port whenever a container is created or started, so
\* a database that was pointed at the last one names another URL from then on
FreshPort(v) ==
    IF v # None /\ v.data = "whole" THEN [v EXCEPT !.data = "foreign"] ELSE v

\* docker makes a volume that is missing, without a label
RunContainer(u) ==
    LET db == NewDatabase(up[u].ask) IN
    /\ At(u, "run")
    /\ container = None
    /\ container' = [db |-> db, running |-> TRUE, docroot |-> "raw",
                     files |-> FALSE, torn |-> FALSE]
    /\ volume' = IF db # NoDatabase /\ volume = None
                 THEN [series |-> Distribution, data |-> "empty"]
                 ELSE FreshPort(volume)
    /\ Goto(u, "shape")
    /\ UNCHANGED <<marker, down>>

StartContainer(u) ==
    /\ At(u, "start")
    /\ container # None
    /\ container' = [container EXCEPT !.running = TRUE]
    /\ volume' = IF container.running THEN volume ELSE FreshPort(volume)
    /\ Goto(u, "shape")
    /\ UNCHANGED <<marker, down>>

\* Mutant: an existing target is laid out again as well.
ShapesAlways(u) == TRUE

\* a target that is being created, or that the operator asks to re-shape
Shapes(u) == ~up[u].exists \/ up[u].ask.reshape

\* after the keys; the current path is removed before it is laid out
ShapeDocRoot(u) ==
    /\ At(u, "shape")
    /\ Reachable
    /\ \/ /\ Shapes(u)
          /\ container' = [container EXCEPT !.docroot = "shaped"]
          /\ Goto(u, "seed")
       \/ /\ Shapes(u)
          /\ container' = [container EXCEPT !.docroot = "raw"]
          /\ up' = [up EXCEPT ![u] = Idle]
       \/ /\ ~Shapes(u)
          /\ Goto(u, "seed")
          /\ UNCHANGED container
    /\ UNCHANGED <<volume, marker, down>>

(***************************************************************************)
(* The seed, once the probe of the ssh port has answered.                  *)
(***************************************************************************)
\* Mutant: a seed is taken up again only where the database holds nothing.
ResumesIfEmpty(u) ==
    up[u].exists /\ marker /\ volume # None /\ volume.data = "empty"

ResumesSeed(u) == up[u].exists /\ marker

Reseeds(u) == up[u].ask.reseed \/ ResumesSeed(u)

WantsSeed(u) ==
    /\ up[u].ask.origin # "none"
    /\ ~up[u].ask.noSeed
    /\ ~up[u].exists \/ Reseeds(u)

Seeds(u) == WantsSeed(u) /\ container.db # NoDatabase

\* the up reports the sandbox as ready
Ready(u) == up' = [up EXCEPT ![u] = Idle]

SkipSeed(u) ==
    /\ At(u, "seed")
    /\ Reachable
    /\ ~Seeds(u)
    /\ Ready(u)
    /\ UNCHANGED <<container, volume, marker, down>>

\* a stopped origin is reported before any work when it is needed anyway;
\* torn remembers, for the properties, that this container's seed has begun
MarkSeedPending(u) ==
    /\ At(u, "seed")
    /\ Reachable
    /\ Seeds(u)
    /\ up[u].ask.origin = "up" \/ ~SeedsFiles
    /\ marker' = TRUE
    /\ container' = [container EXCEPT !.torn = TRUE]
    /\ up' = [up EXCEPT ![u].pc =
                IF Reseeds(u) \/ volume.data = "empty" THEN "import" ELSE "repoint"]
    /\ UNCHANGED <<volume, down>>

\* the stream replaces tables as it goes; it may also end here, half way
ImportBegins(u) ==
    /\ At(u, "import")
    /\ Reachable /\ volume # None
    /\ up[u].ask.origin = "up"
    /\ volume' = [volume EXCEPT !.data = "partial"]
    /\ Goto(u, "importing")
    /\ UNCHANGED <<container, marker, down>>

ImportEnds(u) ==
    /\ At(u, "importing")
    /\ Reachable /\ volume # None
    /\ volume' = [volume EXCEPT !.data = "foreign"]
    /\ Goto(u, "repoint")
    /\ UNCHANGED <<container, marker, down>>

\* Mutant: the database a volume kept is left as it is.
LeftAsItIs(u) == volume.data

\* a kept database is left alone, with a note, when the origin is down
Repointed(u) ==
    IF up[u].ask.origin = "up" /\ volume.data = "foreign" THEN "whole"
    ELSE volume.data

RewriteDatabase(u) ==
    /\ At(u, "repoint")
    /\ Reachable /\ volume # None
    /\ volume' = [volume EXCEPT !.data = Repointed(u)]
    /\ Goto(u, "files")
    /\ UNCHANGED <<container, marker, down>>

SeedFiles(u) ==
    /\ At(u, "files")
    /\ Reachable
    /\ container' = [container EXCEPT !.files = TRUE]
    /\ Goto(u, "unmark")
    /\ UNCHANGED <<volume, marker, down>>

ClearSeedPending(u) ==
    /\ At(u, "unmark")
    /\ marker' = FALSE
    /\ container' = IF container = None THEN None
                    ELSE [container EXCEPT !.torn = FALSE]
    /\ Ready(u)
    /\ UNCHANGED <<volume, down>>

\* any other step fails, or the process is killed: nothing is undone
UpFails(u) ==
    /\ ~At(u, "idle")
    /\ up' = [up EXCEPT ![u] = Idle]
    /\ UNCHANGED <<container, volume, marker, down>>

(***************************************************************************)
(* The other commands, and the world around the container.                 *)
(***************************************************************************)
Free == Overlap \/ \A u \in Ups : At(u, "idle")

\* SandboxDown; --purge goes on to the volume and to the state directory
RemoveContainer ==
    /\ down = "idle" /\ Free
    /\ container # None
    /\ container' = None
    /\ down' \in {"idle", "purge"}
    /\ UNCHANGED <<volume, marker, up>>

PurgeWithoutContainer ==
    /\ down = "idle" /\ Free
    /\ container = None /\ (volume # None \/ marker)
    /\ down' = "purge"
    /\ UNCHANGED <<container, volume, marker, up>>

\* docker keeps a volume that a container uses, and the command fails
RemoveVolume ==
    /\ down = "purge"
    /\ IF container # None /\ container.db # NoDatabase
       THEN down' = "idle" /\ UNCHANGED volume
       ELSE down' = "state" /\ volume' = None
    /\ UNCHANGED <<container, marker, up>>

RemoveStateDir ==
    /\ down = "state"
    /\ marker' = FALSE
    /\ down' = "idle"
    /\ UNCHANGED <<container, volume, up>>

DownFails ==
    /\ down # "idle"
    /\ down' = "idle"
    /\ UNCHANGED <<container, volume, marker, up>>

\* SandboxReset wipes the deploy directories and lays the docroot out again
SandboxReset ==
    /\ Reachable /\ Free /\ down = "idle"
    /\ \E laid \in {"raw", "shaped"} :
          container' = [container EXCEPT !.docroot = laid, !.files = FALSE]
    /\ UNCHANGED <<volume, marker, up, down>>

\* a deploy to the sandbox remote publishes the application
Deploy ==
    /\ Reachable /\ Free
    /\ container' = [container EXCEPT !.docroot = "app"]
    /\ UNCHANGED <<volume, marker, up, down>>

\* the host restarts, or docker stop; the next start gets another web port
ContainerStops ==
    /\ Reachable
    /\ container' = [container EXCEPT !.running = FALSE]
    /\ UNCHANGED <<volume, marker, up, down>>

Init ==
    /\ container = None
    /\ volume = None
    /\ marker = FALSE
    /\ up = [u \in Ups |-> Idle]
    /\ down = "idle"

UpStep(u) ==
    \/ Begin(u) \/ Recreate(u) \/ BuildNew(u) \/ Reuse(u)
    \/ CheckVolume(u) \/ EnsureVolume(u) \/ RunContainer(u) \/ StartContainer(u)
    \/ ShapeDocRoot(u)
    \/ SkipSeed(u) \/ MarkSeedPending(u)
    \/ ImportBegins(u) \/ ImportEnds(u) \/ RewriteDatabase(u)
    \/ SeedFiles(u) \/ ClearSeedPending(u)
    \/ UpFails(u)

Next ==
    \/ \E u \in Ups : UpStep(u)
    \/ RemoveContainer \/ PurgeWithoutContainer \/ RemoveVolume
    \/ RemoveStateDir \/ DownFails
    \/ SandboxReset \/ Deploy \/ ContainerStops

Spec == Init /\ [][Next]_vars

(***************************************************************************)
(* Properties.                                                             *)
(***************************************************************************)
UpPcs == {"look", "check", "ensure", "run", "start", "shape", "seed",
          "import", "importing", "repoint", "files", "unmark"}

Containers == [db : Databases, running : BOOLEAN,
               docroot : {"raw", "shaped", "app"}, files : BOOLEAN,
               torn : BOOLEAN]

Volumes == [series : Series, data : {"empty", "partial", "foreign", "whole"}]

\* The type of the state.
TypeOK ==
    /\ container \in Containers \cup {None}
    /\ volume \in Volumes \cup {None}
    /\ marker \in BOOLEAN
    /\ up \in [Ups -> {Idle} \cup [pc : UpPcs, ask : Requests, exists : BOOLEAN,
                                   volumeExists : BOOLEAN, pending : BOOLEAN]]
    /\ down \in {"idle", "purge", "state"}

\* An up that ends with "ready" in this step, and the requests that may seed.
EndsReady(u) == (SkipSeed(u) \/ ClearSeedPending(u)) /\ container # None

MaySeed(r) == r.origin = "up" /\ ~r.noSeed

\* CheckSandboxDBVolumeSeries: no database server ever opens the data directory
\* that another series has written, whatever was created, recreated, purged or
\* left half way before.
SeriesMatches ==
    container # None /\ container.db # NoDatabase
        => volume # None /\ volume.series = container.db

\* `up` starts a stopped sandbox and refreshes the mirror, and neither may cost
\* the application that is served: only the flags that ask for it do.
UpCostsNoApplication ==
    [][\A u \in Ups :
          UpStep(u) /\ Served /\ ~Served'
              => up[u].ask.recreate \/ up[u].ask.reshape]_vars

\* A seed that died leaves its marker behind, so as long as the container lives
\* no up reports a half-seeded sandbox as ready: the next one that may seed
\* finishes the database, the files and the URL.
KeptContainerIsFinished ==
    [][\A u \in Ups :
          EndsReady(u) /\ MaySeed(up[u].ask) /\ up[u].exists /\ container.torn
              => volume.data = "whole" /\ container.files]_vars

\* A container that is created on a kept database never ends up ready on the
\* web URL of the container before it, as long as the origin can be read.
FreshContainerIsRepointed ==
    [][\A u \in Ups :
          EndsReady(u) /\ MaySeed(up[u].ask) /\ ~up[u].exists
                       /\ container.db # NoDatabase
              => volume.data # "foreign"]_vars

\* What the comments promise of the marker, whatever became of the container:
\* "the next `up` finishes it".
NextUpFinishesTheSeed ==
    [][\A u \in Ups :
          EndsReady(u) /\ MaySeed(up[u].ask) /\ up[u].pending
                       /\ container.db # NoDatabase
              => volume.data # "partial"]_vars

\* A sandbox with a database that an up with a running origin reports as ready
\* is not empty.
NoSilentEmptySandbox ==
    [][\A u \in Ups :
          EndsReady(u) /\ MaySeed(up[u].ask) /\ container.db # NoDatabase
              => volume.data # "empty"]_vars
=============================================================================
