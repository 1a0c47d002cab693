-------------------------- MODULE MCAuditScheduler --------------------------
(***************************************************************************)
(* An instance of AuditScheduler for TLC: every acyclic graph of N jobs.   *)
(***************************************************************************)
EXTENDS AuditScheduler

\* Two jobs of the first kind fit side by side; the second kind takes all of the
\* CPU, the third all of the memory; the fourth never fits.
SmallBudget == [cpu |-> 2, mem |-> 3]

SomeRequests ==
  {[cpu |-> 0, mem |-> 1], [cpu |-> 2, mem |-> 0], [cpu |-> 1, mem |-> 3],
   [cpu |-> 3, mem |-> 1]}
=============================================================================
