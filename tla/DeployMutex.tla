---------------------------- MODULE DeployMutex -----------------------------
(***************************************************************************)
(* What the deploy lock promises: one holder at a time, and a lock its     *)
(* holder gave up without releasing (a run that was killed, or that failed *)
(* from the publish stage onwards) stays in everybody's way until somebody *)
(* removes it on purpose.                                                  *)
(***************************************************************************)
CONSTANTS Run, NoRun

VARIABLES holder, abandoned

vars == <<holder, abandoned>>

Init == holder = NoRun /\ abandoned = FALSE

Acquire(r) ==
  /\ holder = NoRun /\ ~abandoned
  /\ holder' = r
  /\ UNCHANGED abandoned

\* The acquisition succeeded on the target and its caller was told it failed.
AcquireUnnoticed ==
  /\ holder = NoRun /\ ~abandoned
  /\ abandoned' = TRUE
  /\ UNCHANGED holder

Release(r) ==
  /\ holder = r
  /\ holder' = NoRun
  /\ UNCHANGED abandoned

Abandon(r) ==
  /\ holder = r
  /\ holder' = NoRun
  /\ abandoned' = TRUE

Break ==
  /\ abandoned
  /\ abandoned' = FALSE
  /\ UNCHANGED holder

Next ==
  \/ \E r \in Run : Acquire(r) \/ Release(r) \/ Abandon(r)
  \/ AcquireUnnoticed
  \/ Break

Spec == Init /\ [][Next]_vars
=============================================================================
