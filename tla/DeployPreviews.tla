--------------------------- MODULE DeployPreviews ---------------------------
(***************************************************************************)
(* The desktop's changes of a deploy target, each in two clicks: a preview *)
(* that mints a token, and an apply that spends it.  An apply registers as *)
(* an operation that can be stopped, resolves its target again, compares   *)
(* it with what the preview showed and, for a rollback, swaps under the    *)
(* deploy lock.  Applies run at once, each may be stopped at any moment,   *)
(* commands fail or drop after their effect, and other machines and the    *)
(* CLI change the target meanwhile.                                        *)
(* All of it is about one project and one remote, whose releases are all   *)
(* usable.                                                                 *)
(***************************************************************************)
EXTENDS Naturals, FiniteSets

CONSTANTS
    Clicks,        \* the applies, each clicked once
    Selectors,     \* what a rollback is asked for: 0 for the release before
                   \* the live one, or the number of a release
    Profiles,      \* the sandbox profiles
    DefaultProfile,
    Strategies,    \* how the target may publish: "symlink", "in_place"
    Panels,        \* the actions that are used, with deployPreviewTokenCap;
                   \* what none of the actions looks at does not move
    MaxMinted,     \* bound on the previews
    MaxRelease,    \* bound on the releases
    MaxFaults      \* bound on the commands that fail by themselves

Actions == {"rollback", "up", "down"}

ASSUME PreviewsAssumption ==
    /\ Selectors \subseteq Nat
    /\ DefaultProfile \in Profiles
    /\ "none" \notin Profiles
    /\ Strategies \subseteq {"symlink", "in_place"}
    /\ Panels \subseteq [uses : SUBSET Actions, cap : Nat \ {0}]
    /\ {MaxMinted, MaxRelease, MaxFaults} \subseteq Nat
    /\ Clicks \cap {"free", "other", "lost"} = {}

VARIABLES
    panel,      \* one of Panels
    strategy,   \* the publish strategy of the target
    tokens,     \* the token map, by the order of minting
    minted,     \* how many tokens were minted
    running,    \* the operation registry
    fired,      \* the applies whose context was cancelled
    apply,      \* where each apply is, and what it has in its hands
    live,       \* the release the target serves
    newest,     \* its newest release
    lock,       \* the deploy lock: "free", "other", "lost", or an apply's
    box,        \* the sandbox container: its profile, or "none"
    faults

vars == <<panel, strategy, tokens, minted, running, fired, apply, live, newest, lock,
          box, faults>>

setting == <<panel, strategy>>
target == <<live, newest, lock, box>>

\* Bound: a command that fails though nobody stopped it.
Fault == faults < MaxFaults /\ faults' = faults + 1

\* A command of c that fails: it was stopped, or it failed by itself.
Fails(c) == IF c \in fired THEN UNCHANGED faults ELSE Fault

(***************************************************************************)
(* The tokens.                                                             *)
(***************************************************************************)
Live == {t \in DOMAIN tokens : tokens[t].fresh /\ ~tokens[t].used}

\* evictDeployPreviewTokensLocked: the expired, the spent, then the oldest
\* until there is room for one more.
KeptByEviction == {t \in Live : Cardinality({s \in Live : s > t}) < panel.cap - 1}

Mint(token) ==
    /\ minted < MaxMinted
    /\ minted' = minted + 1
    /\ tokens' = [t \in KeptByEviction \cup {minted + 1} |->
                     IF t = minted + 1 THEN token ELSE tokens[t]]

NewToken(action, shows) ==
    [action |-> action, shows |-> shows, fresh |-> TRUE, used |-> FALSE]

\* lookupDeployPreviewToken
Authorises(t, action) ==
    t \in Live /\ tokens[t].action = action

\* a lookup removes a token that has expired
AfterLookup(t) ==
    [s \in {d \in DOMAIN tokens : d # t \/ tokens[d].fresh} |-> tokens[s]]

Expires(t) ==
    /\ tokens[t].fresh
    /\ \A s \in DOMAIN tokens : s < t => ~tokens[s].fresh
    /\ tokens' = [tokens EXCEPT ![t].fresh = FALSE]
    /\ UNCHANGED <<setting, minted, running, fired, apply, target, faults>>

(***************************************************************************)
(* The previews.                                                           *)
(***************************************************************************)
\* SelectRollbackTarget; 0 when there is none.
Selected(to) == IF to = 0 THEN live - 1
                ELSE IF to \in 1..newest THEN to ELSE 0

PreviewRollback(to) ==
    /\ "rollback" \in panel.uses
    /\ Selected(to) # 0
    /\ Mint(NewToken("rollback", [to |-> to, release |-> Selected(to)]))
    /\ UNCHANGED <<setting, running, fired, apply, target, faults>>

\* A container that exists keeps its profile unless it is recreated; only a
\* profile that was named conflicts with it.
Conflicts(profile, recreate) == box # "none" /\ box # profile /\ ~recreate

PreviewSandboxUp(profile, named, recreate) ==
    /\ "up" \in panel.uses
    /\ named \/ profile = DefaultProfile
    /\ ~(named /\ Conflicts(profile, recreate))
    /\ Mint(NewToken("up", [profile |-> profile, recreate |-> recreate,
                            named |-> named]))
    /\ UNCHANGED <<setting, running, fired, apply, target, faults>>

PreviewSandboxDown ==
    /\ "down" \in panel.uses
    /\ Mint(NewToken("down", [container |-> box]))
    /\ UNCHANGED <<setting, running, fired, apply, target, faults>>

(***************************************************************************)
(* The applies.                                                            *)
(***************************************************************************)
Idle == [pc |-> "idle", action |-> "none", token |-> 0, spent |-> FALSE,
         shown |-> [to |-> 0, release |-> 0], release |-> 0, touched |-> FALSE,
         leftLock |-> FALSE, note |-> "none"]

Bound(a, action, t) ==
    [a EXCEPT !.pc = "peeked", !.action = action, !.token = t]

\* What is remembered of an apply that returned.
Done(a) ==
    [a EXCEPT !.pc = "done", !.action = "none", !.shown = Idle.shown, !.release = 0,
              !.touched = FALSE, !.note = "none"]

At(c, pc) == apply[c].pc = pc

Goto(c, pc) == apply' = [apply EXCEPT ![c].pc = pc]

Ends(c, pc, note) == apply' = [apply EXCEPT ![c].pc = pc, ![c].note = note]

\* A rollback looks at its token before it registers, the sandbox does not.
Click(c, t, action) ==
    /\ At(c, "idle")
    /\ t \in 1..minted
    /\ IF action = "rollback"
       THEN /\ tokens' = AfterLookup(t)
            /\ apply' = [apply EXCEPT ![c] =
                  IF Authorises(t, action) THEN Bound(@, action, t) ELSE Done(@)]
       ELSE /\ UNCHANGED tokens
            /\ apply' = [apply EXCEPT ![c] = Bound(@, action, t)]
    /\ UNCHANGED <<setting, minted, running, fired, target, faults>>

Entry(c) == [id |-> apply[c].action, by |-> c]

\* Mutant: the token is spent before the run is registered.
RegisterBurns(c) ==
    /\ At(c, "peeked")
    /\ tokens' = IF apply[c].token \in DOMAIN tokens
                 THEN [tokens EXCEPT ![apply[c].token].used = TRUE] ELSE tokens
    /\ IF \E e \in running : e.id = apply[c].action
       THEN /\ apply' = [apply EXCEPT ![c] = Done(@)]
            /\ UNCHANGED running
       ELSE Goto(c, "registered") /\ running' = running \cup {Entry(c)}
    /\ UNCHANGED <<setting, minted, fired, target, faults>>

\* RegisterOp: a duplicate is refused and keeps its token.
Register(c) ==
    /\ At(c, "peeked")
    /\ IF \E e \in running : e.id = apply[c].action
       THEN /\ apply' = [apply EXCEPT ![c] = Done(@)]
            /\ UNCHANGED running
       ELSE Goto(c, "registered") /\ running' = running \cup {Entry(c)}
    /\ UNCHANGED <<setting, tokens, minted, fired, target, faults>>

\* Mutant: a spend that looks only.
SpendLooks(c) ==
    LET t == apply[c].token IN
    /\ At(c, "registered")
    /\ IF Authorises(t, apply[c].action)
       THEN /\ UNCHANGED tokens
            /\ apply' = [apply EXCEPT ![c].pc = "spent", ![c].spent = TRUE,
                                      ![c].shown = tokens[t].shows]
       ELSE /\ tokens' = AfterLookup(t)
            /\ Goto(c, "finish")
    /\ UNCHANGED <<setting, minted, running, fired, target, faults>>

\* spendDeployPreviewToken: the token may have been spent or have expired since
\* it was looked at.
Spend(c) ==
    LET t == apply[c].token IN
    /\ At(c, "registered")
    /\ IF Authorises(t, apply[c].action)
       THEN /\ tokens' = [tokens EXCEPT ![t].used = TRUE]
            /\ apply' = [apply EXCEPT ![c].pc = "spent", ![c].spent = TRUE,
                                      ![c].shown = tokens[t].shows]
       ELSE /\ tokens' = AfterLookup(t)
            /\ Goto(c, "finish")
    /\ UNCHANGED <<setting, minted, running, fired, target, faults>>

Rollback(c) == apply[c].action = "rollback"

\* Mutant: the fingerprint is not compared.
StillSelected(c) == Selected(apply[c].shown.to) # 0

\* rollbackFingerprint, of what the selector resolves to now.
StillShown(c) == Selected(apply[c].shown.to) = apply[c].shown.release

Resolve(c) ==
    /\ At(c, "spent") /\ Rollback(c)
    /\ \/ /\ c \notin fired /\ StillShown(c)
          /\ apply' = [apply EXCEPT ![c].pc = "resolved",
                                    ![c].release = Selected(apply[c].shown.to)]
          /\ UNCHANGED faults
       \/ /\ ~StillShown(c)
          /\ Ends(c, "finish", "no changes")
          /\ UNCHANGED faults
       \/ /\ Fails(c)
          /\ Ends(c, "finish", "no changes")
    /\ UNCHANGED <<setting, tokens, minted, running, fired, target>>

\* CoreLock.  A mkdir that drops leaves a lock nobody knows of.
TakeLock(c) ==
    /\ At(c, "resolved")
    /\ \/ /\ c \notin fired /\ lock = "free"
          /\ lock' = c
          /\ Goto(c, "locked")
          /\ UNCHANGED faults
       \/ /\ lock # "free"
          /\ Ends(c, "finish", "no changes")
          /\ UNCHANGED <<lock, faults>>
       \/ /\ Fails(c)
          /\ lock' \in {lock, IF lock = "free" THEN "lost" ELSE lock}
          /\ Ends(c, "finish", "no changes")
    /\ UNCHANGED <<setting, tokens, minted, running, fired, live, newest, box>>

\* A command of c on the target: whether it succeeds, and whether it did
\* anything.  One that fails may have done it all the same.
Command(c, good, effect) ==
    /\ good => c \notin fired /\ effect
    /\ IF good THEN UNCHANGED faults ELSE Fails(c)

Touch(c, effect, pc, note) ==
    apply' = [apply EXCEPT ![c].pc = pc, ![c].note = note,
                           ![c].touched = @ \/ effect]

\* In place the window opens first.
OpenWindow(c) ==
    /\ At(c, "locked") /\ strategy = "in_place"
    /\ \E good, effect \in BOOLEAN :
          /\ Command(c, good, effect)
          /\ IF good THEN Touch(c, effect, "window", "none")
                     ELSE Touch(c, effect, "leave", "no changes")
    /\ UNCHANGED <<setting, tokens, minted, running, fired, target>>

\* The activation, or in place the tail of the plan, with its two cleanups.
Swap(c) ==
    /\ At(c, IF strategy = "in_place" THEN "window" ELSE "locked")
    /\ \E good, effect \in BOOLEAN :
          /\ Command(c, good, effect)
          /\ live' = IF effect THEN apply[c].release ELSE live
          /\ IF good
             THEN Touch(c, effect, IF strategy = "in_place" THEN "leave"
                                                            ELSE "swapped", "none")
             ELSE Touch(c, effect, "leave",
                        IF strategy = "in_place" THEN "in place"
                                                 ELSE "not activated")
    /\ UNCHANGED <<setting, tokens, minted, running, fired, newest, lock, box>>

\* The flush and the verification.
Settle(c) ==
    /\ At(c, "swapped")
    /\ \E good, effect \in BOOLEAN :
          /\ Command(c, good, effect)
          /\ Touch(c, effect, "leave", IF good THEN "none" ELSE "activated")
    /\ UNCHANGED <<setting, tokens, minted, running, fired, target>>

\* Mutant: the unlock runs under the context that was stopped.
UnlockWhenStopped(c) ==
    /\ At(c, "leave")
    /\ lock' = IF c \in fired THEN lock ELSE "free"
    /\ Goto(c, "finish")
    /\ UNCHANGED <<setting, tokens, minted, running, fired, live, newest, box,
                   faults>>

\* The deferred CoreUnlock, on a context that cannot be stopped.
Unlock(c) ==
    /\ At(c, "leave")
    /\ \/ /\ lock' = "free"
          /\ Goto(c, "finish")
          /\ UNCHANGED faults
       \/ /\ Fault
          /\ apply' = [apply EXCEPT ![c].pc = "finish", ![c].leftLock = TRUE]
          /\ UNCHANGED lock
    /\ UNCHANGED <<setting, tokens, minted, running, fired, live, newest, box>>

\* SandboxUp looks at the container again, as if the profile had been named;
\* SandboxDown finds the container it named unless the project was renamed.
Recheck(c) ==
    LET shown == apply[c].shown IN
    /\ At(c, "spent") /\ ~Rollback(c)
    /\ \/ /\ Goto(c, IF apply[c].action = "up"
                        /\ Conflicts(shown.profile, shown.recreate)
                     THEN "finish" ELSE "checked")
          /\ c \notin fired
          /\ UNCHANGED faults
       \/ /\ Goto(c, "finish")
          /\ Fails(c)
    /\ UNCHANGED <<setting, tokens, minted, running, fired, target>>

\* deploy.SandboxUp and deploy.SandboxDown.  The engine checks the profile too.
RunSandbox(c) ==
    LET shown == apply[c].shown
        old   == IF apply[c].action = "up" /\ ~shown.recreate THEN box ELSE "none"
        built == IF apply[c].action = "down" \/ old # "none" THEN old
                 ELSE shown.profile
    IN
    /\ At(c, "checked")
    /\ \/ /\ apply[c].action = "up" /\ Conflicts(shown.profile, shown.recreate)
          /\ UNCHANGED <<box, faults>>
       \/ /\ c \notin fired
          /\ ~(apply[c].action = "up" /\ Conflicts(shown.profile, shown.recreate))
          /\ box' = built
          /\ UNCHANGED faults
       \/ /\ Fails(c)
          /\ ~(apply[c].action = "up" /\ Conflicts(shown.profile, shown.recreate))
          /\ box' \in {box, old, built}
    /\ Goto(c, "finish")
    /\ UNCHANGED <<setting, tokens, minted, running, fired, live, newest, lock>>

\* FinishOp: whoever's entry has the identifier is removed.
Finish(c) ==
    /\ At(c, "finish")
    /\ running' = {e \in running : e.id # apply[c].action}
    /\ apply' = [apply EXCEPT ![c] = Done(@)]
    /\ UNCHANGED <<setting, tokens, minted, fired, target, faults>>

CancelOp(e) ==
    /\ running' = running \ {e}
    /\ fired' = fired \cup {e.by}
    /\ UNCHANGED <<setting, tokens, minted, apply, target, faults>>

(***************************************************************************)
(* Other machines, and the sandbox commands of the CLI.                    *)
(***************************************************************************)
OtherTakesTheLock ==
    /\ "rollback" \in panel.uses
    /\ lock = "free"
    /\ lock' = "other"
    /\ UNCHANGED <<setting, tokens, minted, running, fired, apply, live, newest,
                   box, faults>>

OtherDeploys ==
    /\ lock = "other"
    /\ newest < MaxRelease
    /\ newest' = newest + 1
    /\ live' = newest + 1
    /\ UNCHANGED <<setting, tokens, minted, running, fired, apply, lock, box,
                   faults>>

OtherRollsBack ==
    /\ lock = "other"
    /\ live' \in 1..newest
    /\ UNCHANGED <<setting, tokens, minted, running, fired, apply, newest, lock,
                   box, faults>>

OtherReleasesTheLock ==
    /\ lock = "other"
    /\ lock' = "free"
    /\ UNCHANGED <<setting, tokens, minted, running, fired, apply, live, newest,
                   box, faults>>

OtherSandbox ==
    /\ panel.uses # {"rollback"}
    /\ box' \in Profiles \cup {"none"}
    /\ UNCHANGED <<setting, tokens, minted, running, fired, apply, live, newest,
                   lock, faults>>

\* The target serves its second release.
Init ==
    /\ panel \in Panels
    /\ strategy \in IF "rollback" \in panel.uses THEN Strategies ELSE {"symlink"}
    /\ tokens = [t \in {} |-> {}]
    /\ minted = 0
    /\ running = {}
    /\ fired = {}
    /\ apply = [c \in Clicks |-> Idle]
    /\ live = 2
    /\ newest = 2
    /\ lock = "free"
    /\ box = "none"
    /\ faults = 0

Preview ==
    \/ \E to \in Selectors : PreviewRollback(to)
    \/ \E profile \in Profiles, named, recreate \in BOOLEAN :
          PreviewSandboxUp(profile, named, recreate)
    \/ PreviewSandboxDown

RollbackStep(c) ==
    \/ Resolve(c) \/ TakeLock(c) \/ OpenWindow(c) \/ Swap(c) \/ Settle(c)
    \/ Unlock(c)

SandboxStep(c) == Recheck(c) \/ RunSandbox(c)

ApplyStep(c) ==
    \/ Register(c) \/ Spend(c) \/ RollbackStep(c) \/ SandboxStep(c) \/ Finish(c)

Others ==
    \/ OtherTakesTheLock \/ OtherDeploys \/ OtherRollsBack
    \/ OtherReleasesTheLock \/ OtherSandbox

Next ==
    \/ Preview
    \/ \E t \in DOMAIN tokens : Expires(t)
    \/ \E c \in Clicks, t \in 1..minted, action \in panel.uses : Click(c, t, action)
    \/ \E c \in Clicks : ApplyStep(c)
    \/ \E e \in running : CancelOp(e)
    \/ Others

Spec == Init /\ [][Next]_vars

(***************************************************************************)
(* Properties.                                                             *)
(***************************************************************************)
RollbackShows == [to : Nat, release : Nat]
UpShows == [profile : Profiles, recreate : BOOLEAN, named : BOOLEAN]
DownShows == [container : Profiles \cup {"none"}]

Token ==
    [action : Actions, shows : RollbackShows \cup UpShows \cup DownShows,
     fresh : BOOLEAN, used : BOOLEAN]

Apply ==
    [pc : {"idle", "peeked", "registered", "spent", "resolved", "locked", "window",
           "swapped", "leave", "checked", "finish", "done"},
     action : Actions \cup {"none"}, token : Nat, spent : BOOLEAN,
     shown : RollbackShows \cup UpShows \cup DownShows, release : Nat,
     touched : BOOLEAN, leftLock : BOOLEAN,
     note : {"none", "no changes", "not activated", "activated", "in place"}]

\* The types: the tokens are among the minted ones, what is live exists, and a
\* container has one of the profiles.
TypeOK ==
    /\ panel \in Panels /\ strategy \in {"symlink", "in_place"}
    /\ DOMAIN tokens \subseteq 1..minted
    /\ tokens \in [DOMAIN tokens -> Token]
    /\ minted \in Nat /\ newest \in Nat /\ faults \in Nat
    /\ running \subseteq [id : Actions, by : Clicks]
    /\ fired \subseteq Clicks
    /\ apply \in [Clicks -> Apply]
    /\ live \in 1..newest
    /\ lock \in Clicks \cup {"free", "other", "lost"}
    /\ box \in Profiles \cup {"none"}

\* A token authorises one attempt and no more, however many clicks race with
\* it, and it is spent only by an attempt that was admitted: a duplicate run is
\* refused without burning it.
OneAttemptPerToken ==
    /\ \A c, d \in Clicks :
          apply[c].spent /\ apply[d].spent /\ apply[c].token = apply[d].token
              => c = d
    /\ \A t \in DOMAIN tokens :
          tokens[t].used => \E c \in Clicks : apply[c].spent /\ apply[c].token = t

\* ApplyRollback: the swap the preview authorised is the swap that runs, under
\* the deploy lock, whatever other machines deployed or rolled back meanwhile.
AppliesWhatWasPreviewed ==
    [][\A c \in Clicks :
          Swap(c) /\ live' # live => lock = c /\ live' = apply[c].shown.release]_vars

Holding == {"locked", "window", "swapped", "leave"}

\* Stopping still releases the lock: an apply that took it has given it back
\* when it ends, unless the command that removes it failed by itself.
LockIsGivenBack ==
    \A c \in Clicks : lock = c => apply[c].pc \in Holding \/ apply[c].leftLock

Working == {"registered", "spent", "resolved", "locked", "window", "swapped",
            "checked"}

\* The run registers on the op registry, so CancelOp stops it.
CancelReachesEveryApply ==
    \A c \in Clicks :
        apply[c].pc \in Working /\ c \notin fired => \E e \in running : e.by = c

\* A target that moved since the preview is refused as stale: what is swapped
\* is still what the preview would show.
StaleIsRefused ==
    [][\A c \in Clicks : Swap(c) /\ live' # live => StillShown(c)]_vars

\* A stopped apply says that nothing was changed, or activated, only when
\* nothing was.
CancelIsTruthful ==
    [][\A c \in fired :
          Finish(c) /\ apply[c].note \in {"no changes", "not activated"}
              => ~apply[c].touched]_vars

\* A preview that saw no container removes none.
NothingShownNothingRemoved ==
    [][\A c \in Clicks :
          /\ RunSandbox(c) /\ apply[c].action = "down"
          /\ box # "none" /\ box' = "none"
          => apply[c].shown.container # "none"]_vars
=============================================================================
