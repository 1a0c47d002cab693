----------------------------- MODULE DeployPlan -----------------------------
(***************************************************************************)
(* How govard composes the plan of a deploy: the tasks a recipe declares   *)
(* in the canonical order, the project's hooks at their anchors, and then  *)
(* the two rewrites, for the build mode and for the publish strategy.      *)
(* Every operator is a function of the plan it is given, as in the code.   *)
(***************************************************************************)
EXTENDS SequencesExt

TaskOrder ==
  <<"check", "lock", "release", "code", "shared", "writable", "vendors", "patches",
    "compile", "frontend", "assets", "artifact", "enable", "pause", "backup",
    "configure", "migrate", "activate", "flush", "resume", "disable", "record",
    "verify", "cleanup", "unlock">>

StageTasks ==
  [prepare |-> {"check", "lock", "release", "code", "shared", "writable"},
   build   |-> {"vendors", "patches", "compile", "frontend", "assets", "artifact"},
   publish |-> {"enable", "pause", "backup", "configure", "migrate", "activate",
                "flush", "resume", "disable", "record"},
   verify  |-> {"verify"},
   cleanup |-> {"cleanup", "unlock"}]

Stage == DOMAIN StageTasks

TaskIds == {TaskOrder[i] : i \in DOMAIN TaskOrder}

TaskStage(id) == CHOOSE s \in Stage : id \in StageTasks[s]

ArtifactReplacedBuildTasks ==
  {"vendors", "patches", "compile", "frontend", "assets"}

-----------------------------------------------------------------------------
(* Looking a plan up.  0: there is no such step. *)

IndexOf(plan, id) == SelectInSeq(plan, LAMBDA s : s.id = id)

\* The elements of a sequence at some of its positions, in their order.
Selected(seq, at) ==
  [i \in 1 .. Cardinality(at) |->
     seq[CHOOSE k \in at : Cardinality({j \in at : j < k}) = i - 1]]

Implemented(s) == s.implemented /\ ~s.skipped

Runs(plan, id) ==
  \E i \in DOMAIN plan : plan[i].id = id /\ ~plan[i].hook /\ Implemented(plan[i])

From(plan, id) == SubSeq(plan, IndexOf(plan, id), Len(plan))

Excluding(plan, ids) == Selected(plan, {i \in DOMAIN plan : plan[i].id \notin ids})

Ids(plan) == {plan[i].id : i \in DOMAIN plan}

\* maintenanceWindow: from an enable that runs through the next disable that
\* does; without one the window has no end.
MaintenanceWindow(plan) ==
  {i \in DOMAIN plan :
     \E e \in 1 .. i :
       /\ plan[e].id = "enable" /\ Implemented(plan[e])
       /\ \A d \in e .. i - 1 : ~(plan[d].id = "disable" /\ Implemented(plan[d]))}

-----------------------------------------------------------------------------
(* BuildPlan.  A recipe says which tasks it declares, which of them do      *)
(* anything, which the migration probe gates, and which need the            *)
(* application's own configuration.                                         *)

TaskStep(recipe, id) ==
  [id |-> id, hook |-> FALSE, stage |-> TaskStage(id),
   implemented |-> id \in recipe.implemented, gated |-> id \in recipe.gated,
   application |-> id \in recipe.application, skipped |-> FALSE, order |-> 0]

RecipeSteps(recipe) ==
  LET declared == Selected(TaskOrder, {i \in DOMAIN TaskOrder : TaskOrder[i] \in recipe.declared})
  IN  [i \in DOMAIN declared |-> TaskStep(recipe, declared[i])]

\* A hook has a name, an anchor, which is a task, a stage or another hook by its
\* kind, a position and an order.  Every stage has a task, so a stage anchor is
\* always there.
AnchorIndex(plan, hook) ==
  LET ofStage(s) == s.stage = hook.on
  IN  IF hook.kind = "stage"
        THEN IF hook.position = "before" THEN SelectInSeq(plan, ofStage)
                                         ELSE SelectLastInSeq(plan, ofStage)
        ELSE IndexOf(plan, hook.on)

HookStep(plan, hook) ==
  [id |-> hook.name, hook |-> TRUE,
   stage |-> IF hook.kind = "stage" THEN hook.on
             ELSE plan[IndexOf(plan, hook.on)].stage,
   implemented |-> TRUE, gated |-> FALSE, application |-> FALSE,
   skipped |-> FALSE, order |-> hook.order]

\* Mutant: the hook goes past every hook that follows the anchor.
InsertLast(plan, hook, anchor) ==
  LET Stops(at) == at > Len(plan) \/ ~plan[at].hook
      at == IF hook.position = "before" THEN anchor
            ELSE CHOOSE i \in anchor + 1 .. Len(plan) + 1 :
                   Stops(i) /\ \A j \in anchor + 1 .. i - 1 : ~Stops(j)
  IN  InsertAt(plan, at, HookStep(plan, hook))

\* insertStepAt: before the anchor, or after it and after the hooks that
\* follow it with no greater an order.
InsertStepAt(plan, hook, anchor) ==
  LET Stops(at) == at > Len(plan) \/ ~plan[at].hook \/ plan[at].order > hook.order
      at == IF hook.position = "before" THEN anchor
            ELSE CHOOSE i \in anchor + 1 .. Len(plan) + 1 :
                   Stops(i) /\ \A j \in anchor + 1 .. i - 1 : ~Stops(j)
  IN  InsertAt(plan, at, HookStep(plan, hook))

PlaceOrKeep(acc, hook) ==
  LET anchor == AnchorIndex(acc.plan, hook)
  IN  IF anchor = 0
        THEN [acc EXCEPT !.pending = Append(@, hook)]
        ELSE [acc EXCEPT !.plan = InsertStepAt(@, hook, anchor)]

\* One pass over the hooks that have no place yet, in the order of declaration.
Pass(acc) ==
  LET place[i \in 0 .. Len(acc.pending)] ==
        IF i = 0 THEN [plan |-> acc.plan, pending |-> <<>>]
        ELSE PlaceOrKeep(place[i - 1], acc.pending[i])
  IN  place[Len(acc.pending)]

\* insertHooks: passes, until one places nothing.  Each that goes on places a
\* hook, so there are no more than there are hooks.
InsertHooks(plan, hooks) ==
  LET after[i \in 0 .. Len(hooks)] ==
        IF i = 0 THEN [plan |-> plan, pending |-> hooks] ELSE Pass(after[i - 1])
  IN  after[Len(hooks)]

\* A hook without a place, on an unknown anchor or in a cycle, is an error.
Buildable(recipe, hooks) == InsertHooks(RecipeSteps(recipe), hooks).pending = <<>>

BuildPlan(recipe, hooks) == InsertHooks(RecipeSteps(recipe), hooks).plan

-----------------------------------------------------------------------------
(* ForBuildMode. *)

SkippedByMode(s, mode) ==
  /\ ~s.hook
  /\ IF mode = "artifact"
       THEN s.id \in ArtifactReplacedBuildTasks /\ ~s.application
       ELSE s.id = "artifact"

\* The step at index `from` goes to index `to`, which is not after it.
MoveBack(plan, from, to) == InsertAt(RemoveAt(plan, from), to, plan[from])

MoveArtifactBeforeTheBuildTasks(plan) ==
  LET artifact   == IndexOf(plan, "artifact")
      firstBuild == SelectInSeq(plan, LAMBDA s : s.stage = "build")
  IN  IF artifact = 0 \/ firstBuild = 0 \/ artifact < firstBuild THEN plan
      ELSE MoveBack(plan, artifact, firstBuild)

ForBuildMode(plan, mode) ==
  LET marked == [i \in DOMAIN plan |->
                   [plan[i] EXCEPT !.skipped = @ \/ SkippedByMode(plan[i], mode)]]
  IN  IF mode = "artifact" THEN MoveArtifactBeforeTheBuildTasks(marked) ELSE marked

-----------------------------------------------------------------------------
(* ForPublishStrategy. *)

WindowTasks == {"enable", "disable"}

WithUngatedMaintenanceWindow(plan) ==
  [i \in DOMAIN plan |-> [plan[i] EXCEPT !.gated = @ /\ plan[i].id \notin WindowTasks]]

WithoutMaintenanceWindow(plan) ==
  [i \in DOMAIN plan |-> [plan[i] EXCEPT !.skipped = @ \/ plan[i].id \in WindowTasks]]

NeedsMaintenanceWindow(plan) == Runs(plan, "migrate") \/ Runs(plan, "configure")

CloseWindowBefore(plan, id) ==
  LET disable == IndexOf(plan, "disable")
      anchor  == IndexOf(plan, id)
  IN  IF disable = 0 \/ anchor = 0 \/ disable < anchor THEN plan
      ELSE MoveBack(plan, disable, anchor)

\* Mutant: the window of an in-place deploy stays gated by the probe.
ForPublishStrategyGated(plan, strategy) ==
  CASE strategy # "symlink" -> plan
    [] strategy = "symlink" /\ ~NeedsMaintenanceWindow(plan) ->
         WithoutMaintenanceWindow(plan)
    [] OTHER -> CloseWindowBefore(plan, "activate")

ForPublishStrategy(plan, strategy) ==
  CASE strategy # "symlink" -> WithUngatedMaintenanceWindow(plan)
    [] strategy = "symlink" /\ ~NeedsMaintenanceWindow(plan) ->
         WithoutMaintenanceWindow(plan)
    [] OTHER -> CloseWindowBefore(plan, "activate")

-----------------------------------------------------------------------------
(* What is asked of recipes and hooks.                                       *)

IsSequence(plan) == Len(plan) \in Nat /\ DOMAIN plan = 1 .. Len(plan)

\* Every recipe starts from DefaultRecipe, which declares every task and
\* implements those of the engine; the lock is never conditional.
IsRecipe(recipe) ==
  /\ recipe.declared \subseteq TaskIds
  /\ {"lock", "activate"} \subseteq recipe.declared
  /\ "lock" \in recipe.implemented \ recipe.gated

\* A recipe with a window around its migration, which the probe gates together
\* or not at all.
HasWindow(recipe) ==
  /\ {"release", "enable", "migrate", "activate", "disable"}
       \subseteq recipe.declared \cap recipe.implemented
  /\ recipe.gated \subseteq {"enable", "pause", "configure", "migrate", "resume", "disable"}
  /\ "disable" \in recipe.gated <=> "enable" \in recipe.gated
  /\ "migrate" \in recipe.gated => "enable" \in recipe.gated

\* Hooks have names of their own, which a prefix tells from those of tasks and
\* of what only a rollback runs; their anchors are known.
AreHooks(hooks) ==
  /\ IsSequence(hooks)
  /\ \A i, j \in DOMAIN hooks : hooks[i].name = hooks[j].name => i = j
  /\ \A i \in DOMAIN hooks :
       LET hook == hooks[i]
       IN  /\ hook.name \notin TaskIds \cup {"restore"}
           /\ hook.order \in Int
           /\ CASE hook.kind = "task"  -> hook.on \in TaskIds
                [] hook.kind = "stage" -> hook.on \in Stage
                [] hook.kind = "hook"  -> hook.on \notin TaskIds

\* No hook before a hook or a stage has a greater order than one after a task or
\* a hook: it ignores the order, and would cut the row of those in two.
NoneCutsIn(hooks) ==
  \A i, j \in DOMAIN hooks :
    LET first  == hooks[i]
        second == hooks[j]
    IN  /\ first.position = "before" /\ first.kind # "task"
        /\ second.position # "before" /\ second.kind # "stage"
        => first.order <= second.order

-----------------------------------------------------------------------------
(* What the plans composed of them have, whatever the hooks; the proofs about *)
(* a deploy use no more of a plan.                                           *)

Precedes(plan, a, b) ==
  \A k, l \in DOMAIN plan : plan[k].id = a /\ plan[l].id = b => k < l

Has(plan, ids) ==
  \A id \in ids : \E k \in DOMAIN plan : plan[k].id = id /\ Implemented(plan[k])

\* Every step is in the plan once, deploy:lock runs before any step that changes
\* the target and deploy:unlock, where there is one, comes after it.
LockedPlan(plan) ==
  /\ IsSequence(plan)
  /\ \A k, l \in DOMAIN plan : plan[k].id = plan[l].id => k = l
  /\ Has(plan, {"lock"}) /\ "restore" \notin Ids(plan)
  /\ \A id \in {"enable", "migrate", "activate", "disable"} :
       Precedes(plan, "lock", id) /\ Precedes(plan, id, "unlock")
  /\ \A k, l \in DOMAIN plan :
       /\ plan[k].id = "lock" => ~plan[k].gated
       /\ plan[k].id = "unlock" /\ k <= l => plan[l].stage \notin {"prepare", "build"}

\* The tails of a rollback: what it runs again of the plan, under its own lock.
TailPlan(tail) ==
  /\ \A b \in BOOLEAN :
       IsSequence(tail[b]) /\ {"lock", "unlock"} \cap Ids(tail[b]) = {}
  /\ Len(tail[TRUE]) <= Len(tail[FALSE])

\* A plan with a maintenance window around its migration, which the probe gates
\* together or not at all: ForPublishStrategy closes it before the activation of
\* a symlink and after that of a docroot.
WindowPlan(plan, symlink) ==
  /\ Has(plan, {"release", "enable", "migrate", "activate", "disable"})
  /\ Precedes(plan, "release", "enable") /\ Precedes(plan, "enable", "migrate")
  /\ Precedes(plan, "migrate", "activate")
  /\ IF symlink THEN Precedes(plan, "migrate", "disable") /\ Precedes(plan, "disable", "activate")
                ELSE Precedes(plan, "activate", "disable")
  /\ \A k, l \in DOMAIN plan :
       /\ "gated" \in DOMAIN plan[k]
       /\ plan[k].gated => plan[k].id \notin {"release", "activate"}
       /\ plan[k].gated /\ plan[l].id = "enable" => l <= k
       /\ plan[k].id = "enable" /\ plan[l].id = "disable" => (plan[k].gated <=> plan[l].gated)
       /\ symlink /\ plan[k].id = "enable" /\ plan[l].id = "migrate"
            => (plan[l].gated => plan[k].gated)
       /\ plan[k].stage = "publish" => plan[k].id \notin {"check", "lock", "unlock", "shared"}

\* The tail of an in-place rollback begins with the activation, and has no other.
ActivatesFirst(tail) ==
  \A b \in BOOLEAN :
    /\ Len(tail[b]) >= 1 /\ tail[b][1].id = "activate"
    /\ Implemented(tail[b][1]) /\ ~tail[b][1].gated
    /\ \A k \in DOMAIN tail[b] : tail[b][k].id \in {"activate", "enable", "restore"} => k = 1
=============================================================================
