---------------------------- MODULE MCOperations ----------------------------
(***************************************************************************)
(* Instances of Operations for TLC.                                        *)
(***************************************************************************)
EXTENDS Operations

\* Two database transfers and two runs of a tool, around one crash.
MixedKinds == [c \in 1..4 |-> IF c <= 2 THEN "transfer" ELSE "tool"]

\* Three runs of tools in one project.
ToolKinds == [c \in 1..3 |-> "tool"]
=============================================================================
