---------------------------- MODULE LabLifecycle ----------------------------
(***************************************************************************)
(* What the WireGuard laboratory promises its callers, with commands and   *)
(* resources left out: a laboratory that is up was built from nothing in   *)
(* one go.  What a failure or a kill leaves behind is never completed,     *)
(* only removed.                                                           *)
(***************************************************************************)
VARIABLE stage

Stage == {"absent", "building", "up", "leftover"}

Init == stage = "absent"

Begin    == stage = "absent" /\ stage' = "building"
Complete == stage = "building" /\ stage' = "up"
Break    == stage \in {"building", "up"} /\ stage' = "leftover"
Remove   == stage # "absent" /\ stage' = "absent"

Next == Begin \/ Complete \/ Break \/ Remove

Spec == Init /\ [][Next]_stage

=============================================================================
