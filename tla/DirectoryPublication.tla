------------------------ MODULE DirectoryPublication ------------------------
(***************************************************************************)
(* _publish_directory_no_replace of collector.py on both platforms, while  *)
(* others move directories: the names below the staging and the raw root   *)
(* need not mean at one call what they meant at the call before.           *)
(*                                                                         *)
(* The Linux variant holds its two parents and names the directory; the    *)
(* Windows variant holds the directory itself.  What a power loss leaves   *)
(* of a publication is in EvidenceBundle.                                  *)
(***************************************************************************)
EXTENDS Naturals

CONSTANTS
    Platforms,  \* among "linux" and "windows"
    Bundle,     \* the directory the caller has sealed
    Foreign,    \* directories of others
    MaxMoves    \* moves that others make

ASSUME PlatformAssumption == Platforms \subseteq {"linux", "windows"} /\ Bundle \notin Foreign
ASSUME MovesAssumption == MaxMoves \in Nat

VARIABLES
    platform,   \* what the publisher runs on
    place,      \* the name of every directory
    left,       \* where it was before the publisher moved it
    swapped,    \* the path of a parent means another directory
    subject,    \* source_identity
    step, result,
    moves       \* counts what others do

vars == <<platform, place, left, swapped, subject, step, result, moves>>

Directory == {Bundle} \cup Foreign
Place == {"source", "destination", "quarantine", "elsewhere"}
Step  == {"capture", "open", "check", "rename", "verify", "sync", "confirm", "close",
          "rollback", "restored", "quarantine", "done"}
Windows == platform = "windows"

Named(n) == {d \in Directory : place[d] = n}

Init ==
    /\ platform \in Platforms
    /\ place \in [Directory -> Place] /\ place[Bundle] = "source"
    /\ \A f \in Foreign : place[f] \in {"destination", "elsewhere"}
    /\ \A c, d \in Named("destination") : c = d
    /\ left = place /\ swapped = FALSE /\ subject = Bundle
    /\ step = "capture" /\ result = "none" /\ moves = 0

-----------------------------------------------------------------------------
End(r) == step' = "done" /\ result' = r
Go(s)  == step' = s /\ UNCHANGED result

\* The publisher moves d to the name n: never over another directory.
Rename(d, n) == Named(n) \subseteq {d} /\ place' = [place EXCEPT ![d] = n]

\* _validate_directory_publish_paths
Capture ==
    /\ step = "capture"
    /\ \/ \E d \in Named("source") : subject' = d /\ Go("open")
       \/ Named("source") = {} /\ End("raised") /\ UNCHANGED subject
    /\ UNCHANGED <<place, left, swapped, moves>>

\* The parents are opened and are the captured ones; on Windows the
\* directory is opened as well.
Open ==
    /\ step = "open"
    /\ IF swapped \/ (Windows /\ Named("source") # {subject}) THEN End("raised") ELSE Go("check")
    /\ UNCHANGED <<place, left, swapped, subject, moves>>

Check ==
    /\ step = "check"
    /\ IF Named("source") # {subject} \/ (Windows /\ swapped) THEN End("raised")
       ELSE Go("rename")
    /\ UNCHANGED <<place, left, swapped, subject, moves>>

\* What a rename from the name n moves: a name has whatever is there now.
Movable(n) == IF Windows THEN {subject} ELSE Named(n)

Move ==
    /\ step = "rename"
    /\ \/ \E d \in Movable("source") : Rename(d, "destination") /\ Go("verify")
       \/ End("raised") /\ UNCHANGED place
    /\ UNCHANGED <<left, swapped, subject, moves>>

\* Mutant: that a directory is there is enough.
MovedSomething == Named("destination") # {}

\* _verify_linux_moved_directory, _verify_windows_handle_publish_result
Moved == /\ Named("destination") = {subject}
         /\ Windows => ~ swapped /\ Named("source") = {}

Verify ==
    /\ step = "verify"
    /\ IF Moved THEN Go("sync") ELSE Go("rollback")
    /\ UNCHANGED <<place, left, swapped, subject, moves>>

\* The syncs of both parents, each followed by a check of the parents.
Sync ==
    /\ step = "sync"
    /\ Go("rollback") \/ (~ swapped /\ Go("confirm"))
    /\ UNCHANGED <<place, left, swapped, subject, moves>>

Confirm ==
    /\ step = "confirm"
    /\ IF Moved THEN Go("close") ELSE Go("rollback")
    /\ UNCHANGED <<place, left, swapped, subject, moves>>

\* os.close, or CloseHandle, may raise after all went well: the publication
\* is not undone.
Close ==
    /\ step = "close"
    /\ End("returned") \/ End("unclosed")
    /\ UNCHANGED <<place, left, swapped, subject, moves>>

\* Mutant: an exception of the rollback is dropped.
RollbackQuietly ==
    /\ step = "rollback"
    /\ \/ \E d \in Movable("destination") : Rename(d, "source") /\ Go("restored")
       \/ End("raised") /\ UNCHANGED place
    /\ UNCHANGED <<left, swapped, subject, moves>>

Rollback ==
    /\ step = "rollback"
    /\ \/ \E d \in Movable("destination") : Rename(d, "source") /\ Go("restored")
       \/ /\ IF Windows THEN Go("quarantine") ELSE End("group")
          /\ UNCHANGED place
    /\ UNCHANGED <<left, swapped, subject, moves>>

\* The directory is back; on Windows nothing must have its final name.
Back == Named("source") = {subject} /\ (Windows => swapped \/ Named("destination") = {})

\* On Windows the check goes by paths, of which a swapped one shows another
\* directory; on Linux the syncs after it may raise.
Restored ==
    /\ step = "restored"
    /\ \/ Back /\ End("raised")
       \/ Windows /\ (~ Back \/ swapped) /\ Go("quarantine")
       \/ ~ Windows /\ End("group")
    /\ UNCHANGED <<place, left, swapped, subject, moves>>

\* Below the raw root, with a name that no attempt has.
Quarantine ==
    /\ step = "quarantine"
    /\ Rename(subject, "quarantine") \/ UNCHANGED place
    /\ End("group")
    /\ UNCHANGED <<left, swapped, subject, moves>>

-----------------------------------------------------------------------------
\* Others move a directory, or a parent, to a name that is free.
OthersMove ==
    /\ moves < MaxMoves /\ moves' = moves + 1 /\ step # "done"
    /\ \E d \in Directory, n \in {"source", "destination", "elsewhere"} :
          /\ n # place[d] /\ (n = "elsewhere" \/ Named(n) = {})
          /\ place' = [place EXCEPT ![d] = n] /\ left' = [left EXCEPT ![d] = n]
    /\ UNCHANGED <<swapped, subject, step, result>>

OthersSwap ==
    /\ moves < MaxMoves /\ moves' = moves + 1 /\ step \notin {"capture", "done"}
    /\ swapped' = ~ swapped
    /\ UNCHANGED <<place, left, subject, step, result>>

Publish ==
    \/ Capture \/ Open \/ Check \/ Move \/ Verify \/ Sync \/ Confirm \/ Close
    \/ Rollback \/ Restored \/ Quarantine

Next == (Publish \/ OthersMove \/ OthersSwap) /\ UNCHANGED platform

Spec == Init /\ [][Next]_vars

-----------------------------------------------------------------------------
(***************************************************************************)
(* Properties.                                                             *)
(***************************************************************************)
\* The values of the variables.
TypeOK ==
    /\ platform \in Platforms
    /\ place \in [Directory -> Place] /\ left \in [Directory -> Place]
    /\ swapped \in BOOLEAN /\ subject \in Directory
    /\ step \in Step /\ result \in {"none", "returned", "raised", "unclosed", "group"}
    /\ step = "done" <=> result # "none"
    /\ moves \in 0 .. MaxMoves

\* No rename, forth, back or to quarantine, ever replaces a directory.
NobodyReplaced ==
    \A c, d \in Directory : place[c] = place[d] /\ place[c] # "elsewhere" => c = d

\* When the publisher returns, or raises without saying that its rollback
\* failed, every directory but the captured one is where others have put it:
\* the wrong directory was never published, or has been moved back.
OthersUntouched ==
    result \in {"returned", "raised", "unclosed"} =>
        \A d \in Directory \ {subject} : place[d] = left[d]

\* A publisher that holds the directory never moves one of others, not even
\* for a moment.
OthersNeverMoved == Windows => \A d \in Directory \ {subject} : place[d] = left[d]

\* A publisher that raises without saying that its rollback failed has left
\* no trace: the directory is in the staging root, or where others have put
\* it meanwhile.
RaisedLeavesNoTrace == result = "raised" => place[subject] \in {"source", left[subject]}

=============================================================================
