-------------------------- MODULE MCDeployPreviews --------------------------
(***************************************************************************)
(* Instances of DeployPreviews for TLC.                                    *)
(***************************************************************************)
EXTENDS DeployPreviews, TLC

\* Two tokens or more at a time, or one.
MCPanels ==
  {[uses |-> {"rollback"}, cap |-> 2], [uses |-> {"rollback"}, cap |-> 1],
   [uses |-> {"up", "down"}, cap |-> 2]}

ClicksAreAlike == Permutations(Clicks)
=============================================================================
