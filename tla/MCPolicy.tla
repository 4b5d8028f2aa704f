------------------------------ MODULE MCPolicy ------------------------------
(***************************************************************************)
(* SwitchPolicy for TLC: a good path, a bad one, and one on which no echo  *)
(* arrived (_observations gives it the window length as RTT).              *)
(***************************************************************************)
EXTENDS SwitchPolicy

Good == [eligible |-> TRUE, rtt |-> 0, jitter |-> 0, loss |-> 0]
Bad  == [eligible |-> TRUE, rtt |-> 2, jitter |-> 1, loss |-> 1]
Lost == [eligible |-> FALSE, rtt |-> 3, jitter |-> 0, loss |-> 3]

Observations == {Good, Bad, Lost}
MCWeight      == [i \in Impairment |-> IF i = "rtt" THEN 4 ELSE 3]
MCThreshold   == [i \in Impairment |-> 2]

=============================================================================
