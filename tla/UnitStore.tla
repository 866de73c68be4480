------------------------------- MODULE UnitStore -------------------------------
(***************************************************************************)
(* What the unit's key-value store promises its users (hooks and actions): *)
(* what a process writes is seen by that process at once, and by the next  *)
(* one from when it is committed, all together, or not at all.  A process  *)
(* may commit more than once.                                              *)
(***************************************************************************)
CONSTANTS Keys, Values, Absent

VARIABLES
    stored,   \* what a process that starts now will read
    pending   \* what the running process reads

Contents == [Keys -> Values \cup {Absent}]

Init ==
    /\ stored = [k \in Keys |-> Absent]
    /\ pending = stored

Write ==
    /\ pending' \in Contents
    /\ UNCHANGED stored

Commit ==
    /\ stored' = pending
    /\ UNCHANGED pending

\* The process fails or ends; the next one starts from what is stored.
Abandon ==
    /\ pending' = stored
    /\ UNCHANGED stored

Next == Write \/ Commit \/ Abandon
Spec == Init /\ [][Next]_<<stored, pending>>
=============================================================================
