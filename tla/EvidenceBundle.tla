--------------------------- MODULE EvidenceBundle ---------------------------
(***************************************************************************)
(* The life of one evidence bundle (EvidenceBundle and the Linux directory *)
(* publication of collector.py): writing in the staging root, sealing,     *)
(* publication by a no-replace rename with its rollback, and quarantine.   *)
(*                                                                         *)
(* Every call of finalise that reaches the file system is a step, and may  *)
(* raise instead.  The file system is modelled with what a power loss may  *)
(* leave of it: file contents are safe after fsync of the file, names      *)
(* after fsync of the directory that holds them.                           *)
(***************************************************************************)
EXTENDS Naturals, FiniteSets

CONSTANTS Note      \* names of text artifacts, such as lab-status.json

VARIABLES
    state,      \* _state of the object; "lost" after a power loss
    step,       \* where finalise is
    rows,       \* streams with at least one row: _packet_count, _event_count
    files,      \* names in the bundle's directory
    sums,       \* names that SHA256SUMS lists
    synced,     \* files whose content is on disk
    named,      \* files whose name is on disk
    where,      \* the root that shows the directory
    onDisk,     \* roots a power loss may leave it in
    roots       \* whether the names of the two roots are on disk

contents  == <<files, sums, synced, named>>
placement == <<where, onDisk, roots>>
vars == <<state, step, rows, contents, placement>>

Stream  == {"packets.csv", "events.jsonl"}
Artifact == Stream \cup Note \cup {"manifest.json", "SHA256SUMS"}
Place   == {"nowhere", "staging", "raw"}
Step    == {"idle", "seal", "sync", "manifest", "sums", "validate", "syncStaging",
            "syncBase", "rename", "renamed", "syncSource", "syncDestination",
            "verify", "confirmed", "rollback", "syncRollback", "quarantine"}

\* validate_evidence_bundle: nothing is missing and nothing is unlisted.
Whole(F) == Stream \cup {"manifest.json", "SHA256SUMS"} \subseteq F
            /\ F = sums \cup {"SHA256SUMS"}

-----------------------------------------------------------------------------
\* Before __init__; the roots exist, their names need not be on disk.
Init ==
    /\ state = "absent" /\ step = "idle" /\ rows = {}
    /\ files = {} /\ sums = {} /\ synced = {} /\ named = {}
    /\ where = "nowhere" /\ onDisk = {"nowhere"}
    /\ roots \in BOOLEAN

\* __init__ makes the staging directory and opens the two streams.
Create ==
    /\ state = "absent"
    /\ state' = "open"
    /\ files' = Stream
    /\ where' = "staging" /\ onDisk' = {"nowhere", "staging"}
    /\ UNCHANGED <<step, rows, sums, synced, named, roots>>

\* write_packet and write_event: a buffered row.
WriteRow ==
    /\ state = "open"
    /\ \E s \in Stream : rows' = rows \cup {s}
    /\ UNCHANGED <<state, step, contents, placement>>

\* write_text_artifact flushes and fsyncs the file it writes, unless it
\* raises on the way.
WriteText ==
    /\ state = "open"
    /\ \E n \in Note : /\ files' = files \cup {n}
                      /\ synced' \in {synced \ {n}, synced \cup {n}}
    /\ UNCHANGED <<state, step, rows, sums, named, placement>>

\* finalise with valid arguments; a refused call leaves the bundle open.  A
\* complete run needs rows in both streams, an incomplete one a reason.
Finalise ==
    /\ state = "open"
    /\ \E status \in {"complete", "incomplete"} :
          status = "complete" => rows = Stream
    /\ state' = "sealing" /\ step' = "seal"
    /\ UNCHANGED <<rows, contents, placement>>

-----------------------------------------------------------------------------
(***************************************************************************)
(* Sealing.                                                                *)
(***************************************************************************)
Advance(from, to) ==
    state = "sealing" /\ step = from /\ step' = to /\ UNCHANGED <<state, rows>>

SealStreams ==
    /\ Advance("seal", "sync")
    /\ synced' = synced \cup Stream
    /\ UNCHANGED <<files, sums, named, placement>>

SyncArtifacts ==
    /\ Advance("sync", "manifest")
    /\ synced' = files
    /\ UNCHANGED <<files, sums, named, placement>>

WriteManifest ==
    /\ Advance("manifest", "sums")
    /\ files' = files \cup {"manifest.json"} /\ synced' = synced \cup {"manifest.json"}
    /\ UNCHANGED <<sums, named, placement>>

WriteSums ==
    /\ Advance("sums", "validate")
    /\ sums' = files
    /\ files' = files \cup {"SHA256SUMS"} /\ synced' = synced \cup {"SHA256SUMS"}
    /\ UNCHANGED <<named, placement>>

Validate ==
    /\ Whole(files) /\ Advance("validate", "syncStaging")
    /\ UNCHANGED <<contents, placement>>

\* Mutant: the names in the bundle's directory are not synced.
SkipSyncStaging ==
    /\ Advance("syncStaging", "syncBase")
    /\ UNCHANGED <<contents, placement>>

SyncStaging ==
    /\ Advance("syncStaging", "syncBase")
    /\ named' = files
    /\ UNCHANGED <<files, sums, synced, placement>>

SyncBase ==
    /\ Advance("syncBase", "rename")
    /\ roots' = TRUE
    /\ UNCHANGED <<contents, where, onDisk>>

-----------------------------------------------------------------------------
(***************************************************************************)
(* Publication, with the rollback of a rename that cannot be confirmed.    *)
(***************************************************************************)
\* renameat2(RENAME_NOREPLACE) from the staging root to the raw root.
Rename ==
    /\ Advance("rename", "renamed")
    /\ where' = "raw" /\ onDisk' = onDisk \cup {"raw"}
    /\ UNCHANGED <<contents, roots>>

\* The moved directory is the one that was staged: moved = True.
VerifyMoved ==
    /\ Advance("renamed", "syncSource")
    /\ UNCHANGED <<contents, placement>>

\* The staging root no longer names it; until the raw root is synced as well
\* a power loss may leave it without a name.
SyncSource ==
    /\ Advance("syncSource", "syncDestination")
    /\ onDisk' = {"nowhere", "raw"}
    /\ UNCHANGED <<contents, where, roots>>

\* Mutant: the raw root is not synced.
SkipSyncDestination ==
    /\ Advance("syncDestination", "verify")
    /\ UNCHANGED <<contents, placement>>

SyncDestination ==
    /\ Advance("syncDestination", "verify")
    /\ onDisk' = {"raw"}
    /\ UNCHANGED <<contents, where, roots>>

\* The parents and the moved directory are what they were: the publication
\* is not taken back any more.
Confirm ==
    /\ Advance("verify", "confirmed")
    /\ UNCHANGED <<contents, placement>>

\* finalise returns the final path.
Published ==
    /\ state = "sealing" /\ step = "confirmed"
    /\ state' = "published" /\ step' = "idle"
    /\ UNCHANGED <<rows, contents, placement>>

\* The directory is moved back, or the second rename fails as well.
Rollback ==
    /\ state = "sealing" /\ step = "rollback"
    /\ \/ step' = "quarantine" /\ UNCHANGED placement
       \/ /\ step' = "syncRollback"
          /\ where' = "staging" /\ onDisk' = onDisk \cup {"staging"}
          /\ UNCHANGED roots
    /\ UNCHANGED <<state, rows, contents>>

SyncRollback ==
    /\ Advance("syncRollback", "quarantine")
    /\ \/ onDisk' = {"staging"}
       \/ UNCHANGED onDisk
    /\ UNCHANGED <<contents, where, roots>>

-----------------------------------------------------------------------------
(***************************************************************************)
(* Failures.                                                               *)
(***************************************************************************)
\* A call before the rename raises.  Some of what it was to make durable
\* may have become so; a file it was writing is there, whole or not.
FailBeforeMove ==
    /\ state = "sealing"
    /\ step \in {"seal", "sync", "manifest", "sums", "validate", "syncStaging",
                 "syncBase", "rename"}
    /\ step' = "quarantine"
    /\ files' \in {files, files \cup (CASE step = "manifest" -> {"manifest.json"}
                                        [] step = "sums" -> {"SHA256SUMS"}
                                        [] OTHER -> {})}
    /\ UNCHANGED <<state, rows, sums, synced, named, placement>>

\* A call after the rename raises: the rename is taken back.
FailAfterMove ==
    /\ state = "sealing"
    /\ step \in {"renamed", "syncSource", "syncDestination", "verify"}
    /\ step' = "rollback"
    /\ UNCHANGED <<state, rows, contents, placement>>

\* A signal handler raises (KeyboardInterrupt) where the rename has happened
\* and nobody takes it back: between the return of renameat2 and the
\* assignment moved = True, or between the last check of the publication and
\* the assignment _state = "published"; so does a close of the parents that
\* raises there.
InterruptAfterRename ==
    /\ state = "sealing" /\ step \in {"renamed", "confirmed"}
    /\ step' = "quarantine"
    /\ UNCHANGED <<state, rows, contents, placement>>

\* _durably_quarantine: best effort on the files and on the directories of
\* the staging path, then the state is final and finalise raises.
Quarantine ==
    /\ state = "sealing" /\ step = "quarantine"
    /\ state' = "quarantined" /\ step' = "idle"
    /\ IF where = "staging"
       THEN /\ synced' \in {synced, files} /\ named' \in {named, files}
            /\ onDisk' \in {onDisk, {"staging"}}
       ELSE onDisk' \in {onDisk, onDisk \ {"staging"}, {"raw"}} /\ UNCHANGED <<synced, named>>
    /\ roots' \in {roots, TRUE}
    /\ UNCHANGED <<rows, files, sums, where>>

\* The machine stops: what is left is on disk.  A name or a content that
\* was not synced may be there all the same.
PowerLoss ==
    /\ state \notin {"absent", "lost"}
    /\ state' = "lost" /\ step' = "idle"
    /\ where' \in IF roots THEN onDisk ELSE onDisk \cup {"nowhere"}
    /\ files' \in {F \in SUBSET files : named \subseteq F}
    /\ synced' \in {F \in SUBSET files' : synced \cap files' \subseteq F}
    /\ UNCHANGED <<rows, sums, named, onDisk, roots>>

Sealing ==
    \/ SealStreams \/ SyncArtifacts \/ WriteManifest \/ WriteSums \/ Validate
    \/ SyncStaging \/ SyncBase \/ Rename \/ VerifyMoved \/ SyncSource
    \/ SyncDestination \/ Confirm \/ Published \/ Rollback \/ SyncRollback \/ Quarantine

Next ==
    \/ Create \/ WriteRow \/ WriteText \/ Finalise
    \/ Sealing
    \/ FailBeforeMove \/ FailAfterMove \/ InterruptAfterRename \/ PowerLoss

Spec == Init /\ [][Next]_vars

-----------------------------------------------------------------------------
(***************************************************************************)
(* Properties.                                                             *)
(***************************************************************************)
\* The values of the variables; step tells where a sealing bundle is.
TypeOK ==
    /\ state \in {"absent", "open", "sealing", "published", "quarantined", "lost"}
    /\ step \in Step /\ (step # "idle" <=> state = "sealing")
    /\ rows \subseteq Stream
    /\ files \subseteq Artifact /\ sums \subseteq Artifact
    /\ synced \subseteq files /\ named \subseteq files
    /\ where \in Place /\ onDisk \in SUBSET Place /\ roots \in BOOLEAN

\* Whatever raised and whenever the machine stopped, a directory in the raw
\* root is a whole bundle: every listed file is there under its name, with
\* its content.  No reader of the raw root meets a torn bundle.
RawIsWhole ==
    where = "raw" => Whole(files) /\ (state = "lost" => synced = files)

\* Once finalise has returned the final path the bundle stays in the raw
\* root, through a power loss too.
ReturnedIsDurable ==
    [][state = "published" => where' = "raw"]_vars

=============================================================================
