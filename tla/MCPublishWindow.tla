--------------------------- MODULE MCPublishWindow ---------------------------
EXTENDS PublishWindow

\* A recipe in the manner of Magento's: the downtime block is gated by a probe.
GatedRecipe(tasks) ==
  [declared |-> tasks, implemented |-> tasks,
   gated |-> {"enable", "migrate", "disable"}, application |-> {"assets"}]

\* One task of each stage that matters to the window, and all a plan is shaped by.
WindowRecipe ==
  GatedRecipe({"lock", "release", "compile", "enable", "migrate", "activate",
               "disable", "verify", "unlock"})

\* What of it is left when two things go wrong in one behaviour.
ShortRecipe ==
  GatedRecipe({"lock", "release", "enable", "migrate", "activate", "disable"})

WholeRecipe ==
  GatedRecipe(WindowRecipe.declared \cup {"code", "assets", "artifact", "record"})

Hook(name, kind, on, position, order) ==
  [name |-> name, kind |-> kind, on |-> on, position |-> position, order |-> order]

\* Three hooks after one task, three on a hook, one on a stage, one before a task.
Hooks ==
  <<Hook("warm", "hook", "purge", "before", 0), Hook("log", "hook", "purge", "after", 5),
    Hook("notify", "task", "activate", "after", 20),
    Hook("purge", "task", "activate", "after", 10),
    Hook("ping", "task", "activate", "after", 10),
    Hook("trace", "hook", "purge", "after", 3),
    Hook("stop", "stage", "build", "before", 0),
    Hook("snapshot", "task", "migrate", "before", 0)>>

Setup(recipe, hooks, mode, strategy, probe, befalls) ==
  [recipe |-> recipe, hooks |-> hooks, mode |-> mode, strategy |-> strategy,
   probe |-> probe, faults |-> befalls[1], lossy |-> befalls[2],
   froms |-> befalls[3]]

\* A project under both strategies.
BothWays(recipe, hooks, mode, probe, befalls) ==
  <<Setup(recipe, hooks, mode, "symlink", probe, befalls),
    Setup(recipe, hooks, mode, "in_place", probe, befalls)>>

Probed(recipe, befalls) == BothWays(recipe, <<>>, "server", TRUE, befalls)

\* These are there for their plans: hooks, and an artifact.
Hooked(mode) == BothWays(WholeRecipe, Hooks, mode, FALSE, <<0, FALSE, {""}>>)

\* Two faults of which none is a lost write, one that may be, or one between
\* runs that start at a task.
Partial == {"", "release", "compile"}

MCSetups ==
  Probed(ShortRecipe, <<2, FALSE, {""}>>) \o Probed(WindowRecipe, <<1, TRUE, {""}>>)
    \o Probed(WindowRecipe, <<1, FALSE, Partial>>) \o Hooked("server") \o Hooked("artifact")

PlainSetups == Probed(WindowRecipe, <<1, FALSE, {""}>>)

PartialSetups == Probed(WindowRecipe, <<2, FALSE, Partial>>)

\* What the theorems of PublishWindow_proofs suppose of the projects, and what
\* they use of the plans.
ASSUME
  /\ MigratesFirst
  /\ \A i \in DOMAIN Setups : HasWindow(Setups[i].recipe) /\ NoneCutsIn(Setups[i].hooks)
  /\ \A i \in DOMAIN Setups :
       LET inPlace == Setups[i].strategy # "symlink"
       IN  /\ LockedPlan(Shaped[i].deploy) /\ TailPlan(Shaped[i].tail)
           /\ WindowPlan(Shaped[i].deploy, ~inPlace)
           /\ inPlace => ActivatesFirst(Shaped[i].tail)
=============================================================================
