------------------------------ MODULE MCDeploy ------------------------------
(***************************************************************************)
(* Instances of Deploy for TLC.                                            *)
(***************************************************************************)
EXTENDS Deploy, TLC

\* Every task the protocol tells apart, in the order of taskOrder.
FullPipeline ==
  <<"check", "lock", "release", "code", "shared", "build", "migrate",
    "activate", "record", "verify", "cleanup", "unlock">>

\* The tasks other commands observe, for the runs with many interleavings.
ShortPipeline == <<"lock", "release", "build", "activate", "cleanup", "unlock">>

Symmetry == Permutations(Run)
=============================================================================
