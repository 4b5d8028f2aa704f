---------------------------- MODULE MCPublication ----------------------------
(***************************************************************************)
(* The publication of a bundle for TLC, in the two models of it: the object*)
(* that seals and publishes while its machine may lose power, and the      *)
(* directory that is renamed while other processes rename theirs.  A       *)
(* behaviour takes the steps of one of them; they share no state.          *)
(***************************************************************************)
EXTENDS DirectoryPublication

CONSTANT Note

VARIABLES
    model,      \* which of the two takes the steps
    state, stage, rows, files, sums, synced, named, where, onDisk, roots

object == <<state, stage, rows, files, sums, synced, named, where, onDisk, roots>>

Object == INSTANCE EvidenceBundle WITH step <- stage

BothInit == Init /\ Object!Init /\ model \in {"object", "directory"}

BothNext ==
    \/ model = "object" /\ Object!Next /\ UNCHANGED <<model, vars>>
    \/ model = "directory" /\ Next /\ UNCHANGED <<model, object>>

BothSpec == BothInit /\ [][BothNext]_<<model, vars, object>>

\* A bundle that the raw root shows is whole, whatever failed and whenever the
\* power went (EvidenceBundle, RawIsWhole).
RawIsWhole == Object!RawIsWhole

\* A path that finalise has returned is there after a power loss
\* (EvidenceBundle, ReturnedIsDurable).
ReturnedIsDurable == Object!ReturnedIsDurable

=============================================================================
