--------------------------- MODULE OperationTrail ---------------------------
(***************************************************************************)
(* What the registry, the history and the crash recovery promise together: *)
(* operations are opened, each is closed at most once, with one record,    *)
(* only operations that were opened are closed, and no record is ever      *)
(* changed or taken back.  Nothing here knows of files, locks or crashes.  *)
(***************************************************************************)
VARIABLES
    opened,    \* the keys of the operations ever registered
    closed     \* their terminal records

Key(r) == <<r.id, r.start>>

Init == opened = {} /\ closed = {}

Open ==
    /\ \E k \in opened' \ opened : opened' = opened \cup {k}
    /\ UNCHANGED closed

Close ==
    /\ \E r \in closed' : /\ Key(r) \in opened
                          /\ \A q \in closed : Key(q) # Key(r)
                          /\ closed' = closed \cup {r}
    /\ UNCHANGED opened

Spec == Init /\ [][Open \/ Close]_<<opened, closed>>
=============================================================================
