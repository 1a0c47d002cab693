------------------------------ MODULE MCSandbox -----------------------------
(***************************************************************************)
(* Two database series and the command lines that differ in one respect    *)
(* from a plain `sandbox up`, or in the two that matter together.          *)
(***************************************************************************)
EXTENDS Sandbox

CONSTANTS s1, s2

Plain == [recreate |-> FALSE, reseed |-> FALSE, noSeed |-> FALSE,
          reshape |-> FALSE, origin |-> "up", db |-> Unasked]

MCRequests ==
    {Plain,
     [Plain EXCEPT !.recreate = TRUE],
     [Plain EXCEPT !.recreate = TRUE, !.db = s2],
     [Plain EXCEPT !.recreate = TRUE, !.db = NoDatabase],
     [Plain EXCEPT !.db = s2],
     [Plain EXCEPT !.reseed = TRUE],
     [Plain EXCEPT !.noSeed = TRUE],
     [Plain EXCEPT !.noSeed = TRUE, !.reshape = TRUE],
     [Plain EXCEPT !.origin = "none"],
     [Plain EXCEPT !.origin = "down"]}

MCSeries == {s1, s2}
=============================================================================
