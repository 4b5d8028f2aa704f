------------------------- MODULE PublicationProofs -------------------------
(***************************************************************************)
(* Proofs of the safety properties of publication: of the directory that   *)
(* is renamed (DirectoryPublication), on either platform, for any others   *)
(* and any number of their moves, and of the object that seals and         *)
(* publishes (EvidenceBundle), whatever raises and whenever the power goes;*)
(* and of those who read what is published (DatasetAnalysis).              *)
(***************************************************************************)
EXTENDS MCPublication, DatasetAnalysis, FiniteSetTheorems, TLAPS

Others == Directory \ {subject}

\* What the publisher has moved and nobody since: nothing before its rename,
\* and on Windows never a directory of others.  On Linux the rename may have
\* moved the wrong directory from "source" to "destination", which the check
\* that follows finds, and the rollback may have moved one to "source".
Displacement ==
    /\ step \in {"capture", "open", "check", "rename"} => place = left
    /\ Windows => \A d \in Others : place[d] = left[d]
    /\ step \in {"sync", "confirm", "close"} => \A d \in Others : place[d] = left[d]
    /\ step \in {"verify", "rollback"} =>
          \A d \in Others : place[d] # left[d] =>
              place[d] = "destination" /\ left[d] = "source"
    /\ step = "restored" => \A d \in Others : place[d] # left[d] => place[d] = "source"

IInv ==
    TypeOK /\ NobodyReplaced /\ Displacement /\ OthersUntouched /\ RaisedLeavesNoTrace

-----------------------------------------------------------------------------
LEMMA InitIInv == Init => IInv
<1> SUFFICES ASSUME Init PROVE IInv
  OBVIOUS
<1> USE PlatformAssumption, MovesAssumption
<1>1. TypeOK
  <2>0. platform \in Platforms
    BY DEF Init
  <2>1. step = "capture" /\ result = "none" /\ moves = 0 /\ left = place
        /\ place \in [Directory -> Place] /\ swapped = FALSE /\ subject = Bundle
    BY DEF Init
  <2>2. moves \in 0 .. MaxMoves /\ step \in Step /\ subject \in Directory
    BY <2>1 DEF Step, Directory
  <2> QED
    BY <2>0, <2>1, <2>2 DEF TypeOK
<1>2. NobodyReplaced
  BY DEF Init, NobodyReplaced, Directory, Named
<1>3. Displacement /\ OthersUntouched /\ RaisedLeavesNoTrace
  BY DEF Init, Displacement, OthersUntouched, RaisedLeavesNoTrace
<1> QED
  BY <1>1, <1>2, <1>3 DEF IInv

\* A rename of the publisher leaves the names unique.
LEMMA RenameKeepsNames ==
  ASSUME TypeOK, NobodyReplaced, NEW d \in Directory, NEW n \in Place, Rename(d, n)
  PROVE  /\ place' \in [Directory -> Place]
         /\ \A a, b \in Directory : place'[a] = place'[b] /\ place'[a] # "elsewhere" => a = b
         /\ place'[d] = n
         /\ \A a \in Directory \ {d} : place'[a] = place[a]
BY DEF TypeOK, NobodyReplaced, Rename, Named

LEMMA StepIInv == IInv /\ [Next]_vars => IInv'
<1> SUFFICES ASSUME IInv, [Next]_vars PROVE IInv'
  OBVIOUS
<1> USE PlatformAssumption, MovesAssumption
<1> USE DEF IInv
<1>0. platform' = platform /\ (Windows' <=> Windows)
  BY DEF Next, vars, Windows
<1> USE <1>0
<1>1. CASE Capture
  <2>1. TypeOK' /\ NobodyReplaced'
    BY <1>1 DEF Capture, TypeOK, NobodyReplaced, Named, End, Go, Step
  <2>2. Displacement' /\ OthersUntouched' /\ RaisedLeavesNoTrace'
    BY <1>1 DEF Capture, TypeOK, Displacement, OthersUntouched, RaisedLeavesNoTrace,
                Named, End, Go, Others
  <2> QED
    BY <2>1, <2>2
<1>2. CASE Open \/ Check
  <2>1. TypeOK' /\ NobodyReplaced'
    BY <1>2 DEF Open, Check, TypeOK, NobodyReplaced, End, Go, Step
  <2>2. Displacement' /\ OthersUntouched' /\ RaisedLeavesNoTrace'
    BY <1>2 DEF Open, Check, TypeOK, Displacement, OthersUntouched, RaisedLeavesNoTrace,
                End, Go, Others
  <2> QED
    BY <2>1, <2>2
<1>3. CASE Move
  <2>1. CASE End("raised") /\ UNCHANGED place
    BY <1>3, <2>1 DEF Move, End, TypeOK, NobodyReplaced, Displacement, OthersUntouched,
                      RaisedLeavesNoTrace, Others, Step
  <2>2. ASSUME NEW d \in Movable("source"), Rename(d, "destination"), Go("verify")
        PROVE  IInv'
    <3>1. d \in Directory /\ (Windows => d = subject) /\ (~Windows => place[d] = "source")
      BY <2>2 DEF Movable, Named, TypeOK
    <3>2. /\ place' \in [Directory -> Place] /\ place'[d] = "destination"
          /\ \A a, b \in Directory : place'[a] = place'[b] /\ place'[a] # "elsewhere" => a = b
          /\ \A a \in Directory \ {d} : place'[a] = place[a]
      BY <2>2, <3>1, RenameKeepsNames DEF Place
    <3>3. TypeOK' /\ NobodyReplaced'
      BY <1>3, <2>2, <3>2 DEF Move, Go, TypeOK, NobodyReplaced, Step
    <3>4. place = left /\ left' = left /\ subject' = subject
      BY <1>3 DEF Move, Displacement
    <3>5. Displacement' /\ OthersUntouched' /\ RaisedLeavesNoTrace'
      BY <1>3, <2>2, <3>1, <3>2, <3>4 DEF Move, Go, TypeOK, Displacement, OthersUntouched,
                                          RaisedLeavesNoTrace, Others, Windows
    <3> QED
      BY <3>3, <3>5
  <2> QED
    BY <1>3, <2>1, <2>2 DEF Move
<1>4. CASE Verify \/ Sync \/ Confirm \/ Close
  <2>1. TypeOK' /\ NobodyReplaced'
    BY <1>4 DEF Verify, Sync, Confirm, Close, TypeOK, NobodyReplaced, End, Go, Step
  <2>2. Displacement'
    <3>1. CASE Verify /\ Moved
      <4>1. \A d \in Others : place[d] = left[d]
        BY <3>1 DEF Verify, Moved, Named, Displacement, Others
      <4> QED
        BY <3>1, <4>1 DEF Verify, Go, Displacement, Others, Windows
    <3>2. CASE Verify /\ ~Moved
      BY <3>2 DEF Verify, Go, Displacement, Others, Windows
    <3>3. CASE Sync \/ Confirm \/ Close
      BY <3>3 DEF Sync, Confirm, Close, End, Go, Displacement, Others, Windows
    <3> QED
      BY <1>4, <3>1, <3>2, <3>3
  <2>3. OthersUntouched' /\ RaisedLeavesNoTrace'
    BY <1>4 DEF Verify, Sync, Confirm, Close, End, Go, TypeOK, Displacement,
                OthersUntouched, RaisedLeavesNoTrace, Others
  <2> QED
    BY <2>1, <2>2, <2>3
<1>5. CASE Rollback
  <2>1. CASE (IF Windows THEN Go("quarantine") ELSE End("group")) /\ UNCHANGED place
    BY <1>5, <2>1 DEF Rollback, End, Go, TypeOK, NobodyReplaced, Displacement,
                      OthersUntouched, RaisedLeavesNoTrace, Others, Step, Windows
  <2>2. ASSUME NEW d \in Movable("destination"), Rename(d, "source"), Go("restored")
        PROVE  IInv'
    <3>1. d \in Directory /\ (Windows => d = subject) /\ (~Windows => place[d] = "destination")
      BY <2>2 DEF Movable, Named, TypeOK
    <3>2. /\ place' \in [Directory -> Place] /\ place'[d] = "source"
          /\ \A a, b \in Directory : place'[a] = place'[b] /\ place'[a] # "elsewhere" => a = b
          /\ \A a \in Directory \ {d} : place'[a] = place[a]
      BY <2>2, <3>1, RenameKeepsNames DEF Place
    <3>3. TypeOK' /\ NobodyReplaced'
      BY <1>5, <2>2, <3>2 DEF Rollback, Go, TypeOK, NobodyReplaced, Step
    <3>4. left' = left /\ subject' = subject /\ step = "rollback"
      BY <1>5 DEF Rollback
    <3>5. \A a \in Others \ {d} : place'[a] = left[a]
      BY <3>1, <3>2, <3>4 DEF Displacement, NobodyReplaced, Others
    <3>6. Displacement'
      BY <2>2, <3>1, <3>2, <3>4, <3>5 DEF Go, Displacement, Others, Windows
    <3>7. OthersUntouched' /\ RaisedLeavesNoTrace'
      BY <2>2, <3>4 DEF Go, TypeOK, OthersUntouched, RaisedLeavesNoTrace
    <3> QED
      BY <3>3, <3>6, <3>7
  <2> QED
    BY <1>5, <2>1, <2>2 DEF Rollback
<1>6. CASE Restored
  <2>1. TypeOK' /\ NobodyReplaced'
    BY <1>6 DEF Restored, TypeOK, NobodyReplaced, End, Go, Step
  <2>2. Displacement'
    BY <1>6 DEF Restored, End, Go, Displacement, Others, Windows
  <2>3. OthersUntouched' /\ RaisedLeavesNoTrace'
    <3>1. CASE Named("source") = {subject}
      <4>1. \A d \in Others : place[d] = left[d]
        BY <1>6, <3>1 DEF Restored, Named, Displacement, Others
      <4>2. place[subject] = "source"
        BY <3>1 DEF Named
      <4> QED
        BY <1>6, <4>1, <4>2 DEF Restored, End, Go, OthersUntouched, RaisedLeavesNoTrace,
                                Others, TypeOK
    <3>2. CASE Named("source") # {subject}
      BY <1>6, <3>2 DEF Restored, Back, End, Go, OthersUntouched, RaisedLeavesNoTrace, TypeOK
    <3> QED
      BY <3>1, <3>2
  <2> QED
    BY <2>1, <2>2, <2>3
<1>7. CASE Quarantine
  <2>1. CASE UNCHANGED place
    BY <1>7, <2>1 DEF Quarantine, End, TypeOK, NobodyReplaced, Displacement,
                      OthersUntouched, RaisedLeavesNoTrace, Others, Step, Windows
  <2>2. CASE Rename(subject, "quarantine")
    <3>1. /\ place' \in [Directory -> Place]
          /\ \A a, b \in Directory : place'[a] = place'[b] /\ place'[a] # "elsewhere" => a = b
          /\ \A a \in Others : place'[a] = place[a]
      BY <2>2, RenameKeepsNames DEF Place, TypeOK, Others
    <3>2. TypeOK' /\ NobodyReplaced'
      BY <1>7, <3>1 DEF Quarantine, End, TypeOK, NobodyReplaced, Step
    <3>3. Displacement' /\ OthersUntouched' /\ RaisedLeavesNoTrace'
      BY <1>7, <3>1 DEF Quarantine, End, Displacement, OthersUntouched,
                        RaisedLeavesNoTrace, Others, Windows
    <3> QED
      BY <3>2, <3>3
  <2> QED
    BY <1>7, <2>1, <2>2 DEF Quarantine
<1>8. CASE OthersMove
  <2>1. PICK d \in Directory, n \in {"source", "destination", "elsewhere"} :
           /\ n = "elsewhere" \/ Named(n) = {}
           /\ place' = [place EXCEPT ![d] = n] /\ left' = [left EXCEPT ![d] = n]
    BY <1>8 DEF OthersMove
  <2>2. UNCHANGED <<swapped, subject, step, result>> /\ step # "done"
        /\ moves' \in 0 .. MaxMoves
    BY <1>8 DEF OthersMove, TypeOK
  <2>3. /\ \A a \in Directory \ {d} : place'[a] = place[a] /\ left'[a] = left[a]
        /\ place'[d] = n /\ left'[d] = n
        /\ place' \in [Directory -> Place] /\ left' \in [Directory -> Place]
    BY <2>1 DEF TypeOK, Place
  <2>4. TypeOK'
    BY <2>2, <2>3 DEF TypeOK
  <2>5. NobodyReplaced'
    BY <2>1, <2>3 DEF NobodyReplaced, Named
  <2>6. Displacement'
    <3>1. place = left => place' = left'
      BY <2>1
    <3> QED
      BY <2>2, <2>3, <3>1 DEF Displacement, Others, Windows
  <2>7. OthersUntouched' /\ RaisedLeavesNoTrace'
    BY <2>2 DEF OthersUntouched, RaisedLeavesNoTrace, TypeOK
  <2> QED
    BY <2>4, <2>5, <2>6, <2>7
<1>9. CASE OthersSwap
  BY <1>9 DEF OthersSwap, TypeOK, NobodyReplaced, Displacement, OthersUntouched,
              RaisedLeavesNoTrace, Others, Windows
<1>10. CASE UNCHANGED vars
  BY <1>10 DEF vars, TypeOK, NobodyReplaced, Displacement, OthersUntouched,
               RaisedLeavesNoTrace, Others, Windows
<1> QED
  BY <1>1, <1>2, <1>3, <1>4, <1>5, <1>6, <1>7, <1>8, <1>9, <1>10 DEF Next, Publish

-----------------------------------------------------------------------------
\* The inductive invariant of both variants.
THEOREM Invariant == Spec => []IInv
<1> QED
  BY InitIInv, StepIInv, PTL DEF Spec

\* Every variable keeps its values, whatever others do.
THEOREM TypeCorrect == Spec => []TypeOK
<1>1. IInv => TypeOK
  BY DEF IInv
<1> QED
  BY <1>1, Invariant, PTL

\* No rename of _publish_directory_no_replace ever replaces a directory.
THEOREM NothingReplaced == Spec => []NobodyReplaced
<1>1. IInv => NobodyReplaced
  BY DEF IInv
<1> QED
  BY <1>1, Invariant, PTL

\* A publisher that returns, or raises alone, has published or left behind
\* no directory but the captured one.
THEOREM WrongDirectoryNotPublished == Spec => []OthersUntouched
<1>1. IInv => OthersUntouched
  BY DEF IInv
<1> QED
  BY <1>1, Invariant, PTL

\* The Windows variant never moves a directory of others.
THEOREM HandleMovesOnlyItsDirectory == Spec => []OthersNeverMoved
<1>1. IInv => OthersNeverMoved
  BY DEF IInv, Displacement, OthersNeverMoved, Others
<1> QED
  BY <1>1, Invariant, PTL

\* A publisher that raises alone has moved its directory back.
THEOREM RollbackLeavesNoTrace == Spec => []RaisedLeavesNoTrace
<1>1. IInv => RaisedLeavesNoTrace
  BY DEF IInv
<1> QED
  BY <1>1, Invariant, PTL

-----------------------------------------------------------------------------
(***************************************************************************)
(* The object that seals and publishes (EvidenceBundle), whose machine may *)
(* lose power between any two of its calls.                                *)
(***************************************************************************)
\* The content of every file is synced, from SyncArtifacts on.
SyncedFrom == {"manifest", "sums", "validate", "syncStaging", "syncBase", "rename", "renamed",
               "syncSource", "syncDestination", "verify", "confirmed", "rollback", "syncRollback"}

\* It has been validated that nothing is missing or unlisted.
WholeFrom == SyncedFrom \ {"manifest", "sums", "validate"}

\* The names in the directory and those of the roots are synced as well.
RenameFrom == WholeFrom \ {"syncStaging", "syncBase"}

\* The rename has taken the bundle to the raw root.
RenamedFrom == {"renamed", "syncSource", "syncDestination", "verify", "confirmed"}

\* What the calls so far have made true of the contents.
Sealed ==
    /\ state = "absent" => synced = {} /\ named = {}
    /\ state \in {"open", "sealing"} => Object!Stream \subseteq files
    /\ stage \in SyncedFrom => synced = files
    /\ stage \in WholeFrom => Object!Whole(files)
    /\ stage \in WholeFrom \ {"syncStaging"} => named = files
    /\ stage \in RenameFrom => roots = TRUE

\* Where the directory is, and where a power loss may leave it.
Placed ==
    /\ state \in {"absent", "open"} \/ (state = "sealing" /\ stage \notin RenameFrom \cup {"quarantine"})
       \/ stage = "rename" => where # "raw" /\ "raw" \notin onDisk
    /\ stage \in RenamedFrom => where = "raw"
    /\ where = "nowhere" => state \in {"absent", "lost"}
    /\ stage \in {"verify", "confirmed"} \/ state = "published" => where = "raw" /\ onDisk = {"raw"}
    /\ state = "published" => roots = TRUE

\* Before a directory can be found in the raw root, now or after a power
\* loss, it is whole, and all of it is on disk.
WholeBeforeRaw ==
    state # "lost" /\ (where = "raw" \/ "raw" \in onDisk) =>
        Object!Whole(files) /\ synced = files /\ named = files

BundleInv == Object!TypeOK /\ Sealed /\ Placed /\ WholeBeforeRaw /\ RawIsWhole

LEMMA InitBundle == Object!Init => BundleInv
BY DEF Object!Init, BundleInv, Object!TypeOK, Sealed, Placed, WholeBeforeRaw, RawIsWhole,
       Object!RawIsWhole, Object!Stream, Object!Step, Object!Place, SyncedFrom, WholeFrom, RenameFrom, RenamedFrom

LEMMA StepBundle == BundleInv /\ [Object!Next]_(Object!vars) => BundleInv'
<1> SUFFICES ASSUME BundleInv, [Object!Next]_(Object!vars) PROVE BundleInv'
  OBVIOUS
<1> USE DEF BundleInv, Object!contents, Object!placement, Object!vars
<1>0. /\ Object!Stream \subseteq Object!Artifact /\ Note \subseteq Object!Artifact
      /\ {"manifest.json", "SHA256SUMS"} \subseteq Object!Artifact
  BY DEF Object!Artifact
<1>a. files' = files /\ sums' = sums => (Object!Whole(files)' <=> Object!Whole(files))
  BY DEF Object!Whole
<1>1. CASE Object!Create
  <2>1. Object!TypeOK'
    BY <1>0, <1>1 DEF Object!Create, Object!TypeOK, Object!Step, Object!Place, Sealed
  <2>2. Sealed' /\ Placed' /\ WholeBeforeRaw' /\ RawIsWhole'
    BY <1>a, <1>1 DEF Object!Create, Object!Advance, Object!TypeOK, Sealed, Placed, WholeBeforeRaw,
       RawIsWhole, Object!RawIsWhole, SyncedFrom, WholeFrom, RenameFrom, RenamedFrom
  <2> QED
    BY <2>1, <2>2
<1>2. CASE Object!WriteRow
  <2>1. Object!TypeOK'
    BY <1>0, <1>2 DEF Object!WriteRow, Object!Advance, Object!TypeOK, Object!Step, Object!Place,
       Object!Artifact
  <2>2. Sealed' /\ Placed' /\ WholeBeforeRaw' /\ RawIsWhole'
    BY <1>a, <1>2 DEF Object!WriteRow, Object!Advance, Object!TypeOK, Sealed, Placed,
       WholeBeforeRaw,
       RawIsWhole, Object!RawIsWhole, SyncedFrom, WholeFrom, RenameFrom, RenamedFrom
  <2> QED
    BY <2>1, <2>2
<1>3. CASE Object!WriteText
  <2>1. Object!TypeOK'
    BY <1>0, <1>3 DEF Object!WriteText, Object!Advance, Object!TypeOK, Object!Step, Object!Place,
       Object!Artifact
  <2>2. Sealed' /\ Placed' /\ WholeBeforeRaw' /\ RawIsWhole'
    BY <1>a, <1>3 DEF Object!WriteText, Object!Advance, Object!TypeOK, Sealed, Placed,
       WholeBeforeRaw,
       RawIsWhole, Object!RawIsWhole, SyncedFrom, WholeFrom, RenameFrom, RenamedFrom
  <2> QED
    BY <2>1, <2>2
<1>4. CASE Object!Finalise
  <2>1. Object!TypeOK'
    BY <1>0, <1>4 DEF Object!Finalise, Object!Advance, Object!TypeOK, Object!Step, Object!Place,
       Object!Artifact
  <2>2. Sealed' /\ Placed' /\ WholeBeforeRaw' /\ RawIsWhole'
    BY <1>a, <1>4 DEF Object!Finalise, Object!Advance, Object!TypeOK, Sealed, Placed,
       WholeBeforeRaw,
       RawIsWhole, Object!RawIsWhole, SyncedFrom, WholeFrom, RenameFrom, RenamedFrom
  <2> QED
    BY <2>1, <2>2
<1>5. CASE Object!SealStreams
  <2>1. Object!TypeOK'
    BY <1>0, <1>5 DEF Object!SealStreams, Object!Advance, Object!TypeOK, Object!Step, Sealed
  <2>2. Sealed' /\ Placed' /\ WholeBeforeRaw' /\ RawIsWhole'
    BY <1>a, <1>5 DEF Object!SealStreams, Object!Advance, Object!TypeOK, Sealed, Placed,
       WholeBeforeRaw,
       RawIsWhole, Object!RawIsWhole, SyncedFrom, WholeFrom, RenameFrom, RenamedFrom
  <2> QED
    BY <2>1, <2>2
<1>6. CASE Object!SyncArtifacts
  <2>1. Object!TypeOK'
    BY <1>0, <1>6 DEF Object!SyncArtifacts, Object!Advance, Object!TypeOK, Object!Step,
       Object!Place, Object!Artifact
  <2>2. Sealed' /\ Placed' /\ WholeBeforeRaw' /\ RawIsWhole'
    BY <1>a, <1>6 DEF Object!SyncArtifacts, Object!Advance, Object!TypeOK, Sealed, Placed,
       WholeBeforeRaw,
       RawIsWhole, Object!RawIsWhole, SyncedFrom, WholeFrom, RenameFrom, RenamedFrom
  <2> QED
    BY <2>1, <2>2
<1>7. CASE Object!WriteManifest
  <2>1. Object!TypeOK'
    BY <1>0, <1>7 DEF Object!WriteManifest, Object!Advance, Object!TypeOK, Object!Step,
       Object!Place, Object!Artifact
  <2>2. Sealed' /\ Placed' /\ WholeBeforeRaw' /\ RawIsWhole'
    BY <1>a, <1>7 DEF Object!WriteManifest, Object!Advance, Object!TypeOK, Sealed, Placed,
       WholeBeforeRaw,
       RawIsWhole, Object!RawIsWhole, SyncedFrom, WholeFrom, RenameFrom, RenamedFrom
  <2> QED
    BY <2>1, <2>2
<1>8. CASE Object!WriteSums
  <2>1. Object!TypeOK'
    BY <1>0, <1>8 DEF Object!WriteSums, Object!Advance, Object!TypeOK, Object!Step, Object!Place,
       Object!Artifact
  <2>2. Sealed' /\ Placed' /\ WholeBeforeRaw' /\ RawIsWhole'
    BY <1>a, <1>8 DEF Object!WriteSums, Object!Advance, Object!TypeOK, Sealed, Placed,
       WholeBeforeRaw,
       RawIsWhole, Object!RawIsWhole, SyncedFrom, WholeFrom, RenameFrom, RenamedFrom
  <2> QED
    BY <2>1, <2>2
<1>9. CASE Object!Validate
  <2>1. Object!TypeOK'
    BY <1>0, <1>9 DEF Object!Validate, Object!Advance, Object!TypeOK, Object!Step, Object!Place,
       Object!Artifact
  <2>2. Sealed' /\ Placed' /\ WholeBeforeRaw' /\ RawIsWhole'
    BY <1>a, <1>9 DEF Object!Validate, Object!Advance, Object!TypeOK, Sealed, Placed,
       WholeBeforeRaw,
       RawIsWhole, Object!RawIsWhole, SyncedFrom, WholeFrom, RenameFrom, RenamedFrom
  <2> QED
    BY <2>1, <2>2
<1>10. CASE Object!SyncStaging
  <2>1. Object!TypeOK'
    BY <1>0, <1>10 DEF Object!SyncStaging, Object!Advance, Object!TypeOK, Object!Step, Object!Place,
       Object!Artifact
  <2>2. Sealed' /\ Placed' /\ WholeBeforeRaw' /\ RawIsWhole'
    BY <1>a, <1>10 DEF Object!SyncStaging, Object!Advance, Object!TypeOK, Sealed, Placed,
       WholeBeforeRaw,
       RawIsWhole, Object!RawIsWhole, SyncedFrom, WholeFrom, RenameFrom, RenamedFrom
  <2> QED
    BY <2>1, <2>2
<1>11. CASE Object!SyncBase
  <2>1. Object!TypeOK'
    BY <1>0, <1>11 DEF Object!SyncBase, Object!Advance, Object!TypeOK, Object!Step, Object!Place,
       Object!Artifact
  <2>2. Sealed' /\ Placed' /\ WholeBeforeRaw' /\ RawIsWhole'
    BY <1>a, <1>11 DEF Object!SyncBase, Object!Advance, Object!TypeOK, Sealed, Placed,
       WholeBeforeRaw,
       RawIsWhole, Object!RawIsWhole, SyncedFrom, WholeFrom, RenameFrom, RenamedFrom
  <2> QED
    BY <2>1, <2>2
<1>12. CASE Object!Rename
  <2>1. Object!TypeOK'
    BY <1>0, <1>12 DEF Object!Rename, Object!Advance, Object!TypeOK, Object!Step, Object!Place,
       Object!Artifact
  <2>2. Sealed' /\ Placed' /\ WholeBeforeRaw' /\ RawIsWhole'
    BY <1>a, <1>12 DEF Object!Rename, Object!Advance, Object!TypeOK, Sealed, Placed, WholeBeforeRaw,
       RawIsWhole, Object!RawIsWhole, SyncedFrom, WholeFrom, RenameFrom, RenamedFrom
  <2> QED
    BY <2>1, <2>2
<1>13. CASE Object!VerifyMoved
  <2>1. Object!TypeOK'
    BY <1>0, <1>13 DEF Object!VerifyMoved, Object!Advance, Object!TypeOK, Object!Step, Object!Place,
       Object!Artifact
  <2>2. Sealed' /\ Placed' /\ WholeBeforeRaw' /\ RawIsWhole'
    BY <1>a, <1>13 DEF Object!VerifyMoved, Object!Advance, Object!TypeOK, Sealed, Placed,
       WholeBeforeRaw,
       RawIsWhole, Object!RawIsWhole, SyncedFrom, WholeFrom, RenameFrom, RenamedFrom
  <2> QED
    BY <2>1, <2>2
<1>14. CASE Object!SyncSource
  <2>1. Object!TypeOK'
    BY <1>0, <1>14 DEF Object!SyncSource, Object!Advance, Object!TypeOK, Object!Step, Object!Place,
       Object!Artifact
  <2>2. Sealed' /\ Placed' /\ WholeBeforeRaw' /\ RawIsWhole'
    BY <1>a, <1>14 DEF Object!SyncSource, Object!Advance, Object!TypeOK, Sealed, Placed,
       WholeBeforeRaw,
       RawIsWhole, Object!RawIsWhole, SyncedFrom, WholeFrom, RenameFrom, RenamedFrom
  <2> QED
    BY <2>1, <2>2
<1>15. CASE Object!SyncDestination
  <2>1. Object!TypeOK'
    BY <1>0, <1>15 DEF Object!SyncDestination, Object!Advance, Object!TypeOK, Object!Step,
       Object!Place, Object!Artifact
  <2>2. Sealed' /\ Placed' /\ WholeBeforeRaw' /\ RawIsWhole'
    BY <1>a, <1>15 DEF Object!SyncDestination, Object!Advance, Object!TypeOK, Sealed, Placed,
       WholeBeforeRaw,
       RawIsWhole, Object!RawIsWhole, SyncedFrom, WholeFrom, RenameFrom, RenamedFrom
  <2> QED
    BY <2>1, <2>2
<1>16. CASE Object!Confirm
  <2>1. Object!TypeOK'
    BY <1>0, <1>16 DEF Object!Confirm, Object!Advance, Object!TypeOK, Object!Step, Object!Place,
       Object!Artifact
  <2>2. Sealed' /\ Placed' /\ WholeBeforeRaw' /\ RawIsWhole'
    BY <1>a, <1>16 DEF Object!Confirm, Object!Advance, Object!TypeOK, Sealed, Placed,
       WholeBeforeRaw,
       RawIsWhole, Object!RawIsWhole, SyncedFrom, WholeFrom, RenameFrom, RenamedFrom
  <2> QED
    BY <2>1, <2>2
<1>17. CASE Object!Published
  <2>1. Object!TypeOK'
    BY <1>0, <1>17 DEF Object!Published, Object!Advance, Object!TypeOK, Object!Step, Object!Place,
       Object!Artifact
  <2>2. Sealed' /\ Placed' /\ WholeBeforeRaw' /\ RawIsWhole'
    BY <1>a, <1>17 DEF Object!Published, Object!Advance, Object!TypeOK, Sealed, Placed,
       WholeBeforeRaw,
       RawIsWhole, Object!RawIsWhole, SyncedFrom, WholeFrom, RenameFrom, RenamedFrom
  <2> QED
    BY <2>1, <2>2
<1>18. CASE Object!Rollback
  <2>1. Object!TypeOK'
    BY <1>0, <1>18 DEF Object!Rollback, Object!Advance, Object!TypeOK, Object!Step, Object!Place,
       Object!Artifact
  <2>2. Sealed' /\ Placed' /\ WholeBeforeRaw' /\ RawIsWhole'
    BY <1>a, <1>18 DEF Object!Rollback, Object!Advance, Object!TypeOK, Sealed, Placed,
       WholeBeforeRaw,
       RawIsWhole, Object!RawIsWhole, SyncedFrom, WholeFrom, RenameFrom, RenamedFrom
  <2> QED
    BY <2>1, <2>2
<1>19. CASE Object!SyncRollback
  <2>1. Object!TypeOK'
    BY <1>0, <1>19 DEF Object!SyncRollback, Object!Advance, Object!TypeOK, Object!Step,
       Object!Place, Object!Artifact
  <2>2. Sealed' /\ Placed' /\ WholeBeforeRaw' /\ RawIsWhole'
    BY <1>a, <1>19 DEF Object!SyncRollback, Object!Advance, Object!TypeOK, Sealed, Placed,
       WholeBeforeRaw,
       RawIsWhole, Object!RawIsWhole, SyncedFrom, WholeFrom, RenameFrom, RenamedFrom
  <2> QED
    BY <2>1, <2>2
<1>20. CASE Object!Quarantine
  <2>1. Object!TypeOK'
    BY <1>0, <1>20 DEF Object!Quarantine, Object!TypeOK, Object!Step, Object!Place
  <2>2. CASE where = "staging"
    <3>1. /\ synced' \in {synced, files} /\ named' \in {named, files} /\ onDisk' \in {onDisk, {"staging"}}
          /\ UNCHANGED <<files, sums, where>> /\ state' = "quarantined" /\ stage' = "idle"
      BY <1>20, <2>2 DEF Object!Quarantine
    <3>2. "raw" \in onDisk' => synced' = files /\ named' = files /\ Object!Whole(files)
      BY <1>20, <3>1 DEF Object!Quarantine, WholeBeforeRaw
    <3> QED
      BY <1>a, <2>1, <2>2, <3>1, <3>2 DEF Sealed, Placed, WholeBeforeRaw, RawIsWhole,
         Object!RawIsWhole, SyncedFrom, WholeFrom, RenameFrom, RenamedFrom
  <2>3. CASE where # "staging"
    <3>1. /\ UNCHANGED <<files, sums, where, synced, named>> /\ state' = "quarantined" /\ stage' = "idle"
          /\ onDisk' \in {onDisk, onDisk \ {"staging"}, {"raw"}}
      BY <1>20, <2>3 DEF Object!Quarantine
    <3>2. where = "raw"
      BY <1>20, <2>3 DEF Object!Quarantine, Placed, Object!TypeOK, Object!Place
    <3>3. synced' = files /\ named' = files /\ Object!Whole(files)
      BY <1>20, <3>1, <3>2 DEF Object!Quarantine, WholeBeforeRaw
    <3> QED
      BY <1>a, <2>1, <3>1, <3>2, <3>3 DEF Sealed, Placed, WholeBeforeRaw, RawIsWhole,
         Object!RawIsWhole, SyncedFrom, WholeFrom, RenameFrom, RenamedFrom
  <2> QED
    BY <2>2, <2>3
<1>21. CASE Object!FailBeforeMove
  <2>1. Object!TypeOK'
    BY <1>0, <1>21 DEF Object!FailBeforeMove, Object!Advance, Object!TypeOK, Object!Step,
       Object!Place, Object!Artifact
  <2>2. Sealed' /\ Placed' /\ WholeBeforeRaw' /\ RawIsWhole'
    BY <1>a, <1>21 DEF Object!FailBeforeMove, Object!Advance, Object!TypeOK, Sealed, Placed,
       WholeBeforeRaw,
       RawIsWhole, Object!RawIsWhole, SyncedFrom, WholeFrom, RenameFrom, RenamedFrom
  <2> QED
    BY <2>1, <2>2
<1>22. CASE Object!FailAfterMove
  <2>1. Object!TypeOK'
    BY <1>0, <1>22 DEF Object!FailAfterMove, Object!Advance, Object!TypeOK, Object!Step,
       Object!Place, Object!Artifact
  <2>2. Sealed' /\ Placed' /\ WholeBeforeRaw' /\ RawIsWhole'
    BY <1>a, <1>22 DEF Object!FailAfterMove, Object!Advance, Object!TypeOK, Sealed, Placed,
       WholeBeforeRaw,
       RawIsWhole, Object!RawIsWhole, SyncedFrom, WholeFrom, RenameFrom, RenamedFrom
  <2> QED
    BY <2>1, <2>2
<1>23. CASE Object!InterruptAfterRename
  <2>1. Object!TypeOK'
    BY <1>0, <1>23 DEF Object!InterruptAfterRename, Object!Advance, Object!TypeOK, Object!Step,
       Object!Place, Object!Artifact
  <2>2. Sealed' /\ Placed' /\ WholeBeforeRaw' /\ RawIsWhole'
    BY <1>a, <1>23 DEF Object!InterruptAfterRename, Object!Advance, Object!TypeOK, Sealed, Placed,
       WholeBeforeRaw,
       RawIsWhole, Object!RawIsWhole, SyncedFrom, WholeFrom, RenameFrom, RenamedFrom
  <2> QED
    BY <2>1, <2>2
<1>24. CASE Object!PowerLoss
  <2>1. Object!TypeOK'
    BY <1>0, <1>24 DEF Object!PowerLoss, Object!Advance, Object!TypeOK, Object!Step, Object!Place,
       Object!Artifact
  <2>2. Sealed' /\ Placed' /\ WholeBeforeRaw' /\ RawIsWhole'
    BY <1>a, <1>24 DEF Object!PowerLoss, Object!Advance, Object!TypeOK, Sealed, Placed,
       WholeBeforeRaw,
       RawIsWhole, Object!RawIsWhole, SyncedFrom, WholeFrom, RenameFrom, RenamedFrom
  <2> QED
    BY <2>1, <2>2
<1>25. CASE UNCHANGED Object!vars
  BY <1>a, <1>25 DEF Object!TypeOK, Sealed, Placed, WholeBeforeRaw, RawIsWhole, Object!RawIsWhole
<1> QED
  BY <1>1, <1>2, <1>3, <1>4, <1>5, <1>6, <1>7, <1>8, <1>9, <1>10, <1>11, <1>12, <1>13, <1>14, <1>15,
     <1>16, <1>17, <1>18, <1>19, <1>20, <1>21, <1>22, <1>23, <1>24, <1>25 DEF Object!Next,
     Object!Sealing

-----------------------------------------------------------------------------
\* The inductive invariant of a bundle, whatever raises and whenever the power
\* goes.
THEOREM BundleInvariant == Object!Spec => []BundleInv
<1> QED
  BY InitBundle, StepBundle, PTL DEF Object!Spec

\* A directory that the raw root shows is a whole bundle, in the run of
\* finalise and after any power loss.
THEOREM RawRootIsWhole == Object!Spec => []RawIsWhole
<1>1. BundleInv => RawIsWhole
  BY DEF BundleInv
<1> QED
  BY <1>1, BundleInvariant, PTL

\* No power loss takes away a bundle whose path finalise has returned, and no
\* later step moves it.
LEMMA PublishedStays ==
  BundleInv /\ [Object!Next]_(Object!vars) =>
      [state = "published" => where' = "raw"]_(Object!vars)
<1> SUFFICES ASSUME BundleInv, Object!Next, state = "published" PROVE where' = "raw"
  BY DEF Object!vars
<1>1. where = "raw" /\ onDisk = {"raw"} /\ roots = TRUE
  BY DEF BundleInv, Placed
<1>2. Object!PowerLoss
  BY DEF Object!Next, Object!Create, Object!WriteRow, Object!WriteText, Object!Finalise,
         Object!Sealing, Object!SealStreams, Object!SyncArtifacts, Object!WriteManifest,
         Object!WriteSums, Object!Validate, Object!SyncStaging, Object!SyncBase, Object!Rename,
         Object!VerifyMoved, Object!SyncSource, Object!SyncDestination, Object!Confirm,
         Object!Published, Object!Rollback, Object!SyncRollback, Object!Quarantine,
         Object!FailBeforeMove, Object!FailAfterMove, Object!InterruptAfterRename, Object!Advance
<1> QED
  BY <1>1, <1>2 DEF Object!PowerLoss

\* A path that finalise has returned stays the bundle's through every later
\* power loss (_publish_directory_no_replace syncs both parents before it
\* returns).
THEOREM ReturnedPathsAreDurable == Object!Spec => ReturnedIsDurable
<1> QED
  BY BundleInvariant, PublishedStays, PTL
     DEF Object!Spec, ReturnedIsDurable, Object!ReturnedIsDurable

-----------------------------------------------------------------------------
(***************************************************************************)
(* Both machines, as TLC takes them together.                              *)
(***************************************************************************)
LEMMA BothSteps ==
  BothNext => [Next]_vars /\ [Object!Next]_(Object!vars)
BY DEF BothNext, vars, object, Object!vars, Object!contents, Object!placement

\* What holds of the publisher's directories and what holds of the bundle it
\* publishes hold together, in the specification that the run checks.
THEOREM BothAreSafe ==
  BothSpec => [](OthersUntouched /\ RaisedLeavesNoTrace /\ RawIsWhole) /\ ReturnedIsDurable
<1>1. BothSpec => Spec
  <2>1. BothInit => Init
    BY DEF BothInit
  <2>2. [BothNext]_<<model, vars, object>> => [Next]_vars
    BY BothSteps
  <2> QED
    BY <2>1, <2>2, PTL DEF BothSpec, Spec
<1>2. BothSpec => Object!Spec
  <2>1. BothInit => Object!Init
    BY DEF BothInit
  <2>2. [BothNext]_<<model, vars, object>> => [Object!Next]_(Object!vars)
    BY BothSteps DEF object, Object!vars, Object!contents, Object!placement
  <2> QED
    BY <2>1, <2>2, PTL DEF BothSpec, Object!Spec
<1> QED
  BY <1>1, <1>2, WrongDirectoryNotPublished, RollbackLeavesNoTrace, RawRootIsWhole,
     ReturnedPathsAreDurable, PTL

-----------------------------------------------------------------------------
(***************************************************************************)
(* The readers of the raw root (DatasetAnalysis), for any readers, cells,  *)
(* attempts, withdrawals and writes of somebody else.                      *)
(***************************************************************************)
Single(S) == \A a, b \in S : a = b

\* Whatever the raw root has ever shown.
Ever == Visible \cup withdrawn

\* The attempts of a cell are numbered without gap, and the complete one is
\* the last; the next one is on its way only to a cell without it.
Chains ==
    /\ IsFiniteSet(settled) /\ IsFiniteSet(withdrawn) /\ Single(passing)
    /\ \A c \in Cell : {a.number : a \in Records(settled, c)} = 1 .. Cardinality(Records(settled, c))
    /\ \A a, b \in settled : a.cell = b.cell =>
          /\ a.number = b.number => a = b
          /\ a.status = "complete" => b.number <= a.number
    /\ \A a \in passing :
          /\ ~ HasComplete(settled, a.cell)
          /\ a.number = Cardinality(Records(settled, a.cell)) + 1

\* A reader has listed and read what was there, and when its listing is over
\* all that was there from the beginning and is there now.
Read ==
    \A p \in Reader :
        /\ reader[p].from \cup reader[p].listed \subseteq Ever \cup {Litter}
        /\ reader[p].read \subseteq Ever
        /\ reader[p].pc \in {"reading", "read"} =>
              reader[p].from \ (withdrawn \cup {Litter}) \subseteq reader[p].listed
        /\ reader[p].pc = "read" => reader[p].read = reader[p].listed

\* What a reader has concluded from what it has read.
Writing == {"selected", "staged", "summed", "captured", "moved"}
Concluded ==
    \A p \in Reader :
        /\ reader[p].pc \in Writing => Selectable(reader[p].read)
        /\ reader[p].pc = "passed" => ChainsValid(reader[p].read)
        /\ reader[p].pc = "passed" /\ reader[p].mode = "validate complete" =>
              Selectable(reader[p].read)

\* Every file is what SHA256SUMS describes, unless it was written too late.
Fits(d) == \A f \in File : d.tree[f] = d.sums[f] \/ f \in d.late

\* The dataset that p has moved is under the name, and what p has read of it
\* again is what SHA256SUMS describes, unless it was written since.
Owns(p, d) ==
    /\ d.by = p /\ d.sources = reader[p].read /\ d.sums = reader[p].snapshot
    /\ \A f \in File : f < reader[p].next => d.tree[f] = d.sums[f] \/ f \in d.late

\* The dataset that has the name is its writer's, until it is returned.
PublishedData ==
    /\ Single(processed)
    /\ \A d \in processed :
          d.sources \subseteq Ever /\ Selectable(d.sources) /\ (d.by = Rival => Fits(d))
    /\ \A p \in Reader :
          /\ reader[p].pc = "captured" => reader[p].snapshot = reader[p].sums
          /\ reader[p].pc = "moved" => returned = {} /\ \E d \in processed : Owns(p, d)

AnalysisIInv == AnalysisTypeOK /\ Chains /\ Read /\ Concluded /\ PublishedData /\ ReturnedIntact

-----------------------------------------------------------------------------
(***************************************************************************)
(* Attempts in the raw root.                                               *)
(***************************************************************************)
LEMMA AttemptFields ==
  ASSUME NEW a \in Attempt
  PROVE  /\ a.cell \in Cell /\ a.number \in Nat /\ a.number >= 1 /\ a.number <= MaxAttempts
         /\ a.status \in Status /\ a.id \in 1 .. MaxId
BY CountAssumption DEF Attempt

LEMMA RecordsFinite ==
  ASSUME Chains, NEW c
  PROVE  /\ IsFiniteSet(Records(settled, c)) /\ Cardinality(Records(settled, c)) \in Nat
<1>1. Records(settled, c) \subseteq settled
  BY DEF Records
<1> QED
  BY <1>1, FS_Subset, FS_CardinalityType DEF Chains

LEMMA EverFinite ==
  ASSUME Chains, NEW S, S \subseteq Ever, NEW c
  PROVE  IsFiniteSet(Records(S, c)) /\ Cardinality(Records(S, c)) \in Nat
<1>1. IsFiniteSet(passing)
  <2>1. CASE passing = {}
    BY <2>1, FS_EmptySet
  <2>2. ASSUME NEW a \in passing PROVE IsFiniteSet(passing)
    <3>1. passing = {a}
      BY <2>2 DEF Chains, Single
    <3> QED
      BY <3>1, FS_Singleton
  <2> QED
    BY <2>1, <2>2
<1>2. IsFiniteSet(settled \cup passing)
  BY <1>1, FS_Union DEF Chains
<1>3. IsFiniteSet(Ever)
  BY <1>2, FS_Union DEF Chains, Ever, Visible
<1>4. Records(S, c) \subseteq Ever
  BY DEF Records
<1> QED
  BY <1>3, <1>4, FS_Subset, FS_CardinalityType

\* The chains that the raw root shows, the attempt on its way included.
LEMMA VisibleChains ==
  ASSUME AnalysisTypeOK, Chains
  PROVE  \A a, b \in Visible : a.cell = b.cell =>
            /\ a.number = b.number => a = b
            /\ a.status = "complete" => b.number <= a.number
<1> SUFFICES ASSUME NEW a \in Visible, NEW b \in Visible, a.cell = b.cell
             PROVE  /\ a.number = b.number => a = b
                    /\ a.status = "complete" => b.number <= a.number
  OBVIOUS
<1>1. a \in Attempt /\ b \in Attempt
  BY DEF AnalysisTypeOK, Visible
<1>2. ASSUME NEW r \in settled, NEW q \in passing, r.cell = q.cell
      PROVE  r.number < q.number /\ r.status # "complete"
  <2>1. r.cell \in Cell /\ r \in Records(settled, r.cell)
    BY AttemptFields DEF AnalysisTypeOK, Records
  <2>2. q.number = Cardinality(Records(settled, r.cell)) + 1 /\ ~ HasComplete(settled, r.cell)
    BY <1>2 DEF Chains
  <2>3. {x.number : x \in Records(settled, r.cell)} = 1 .. Cardinality(Records(settled, r.cell))
    BY <2>1 DEF Chains
  <2>4. r.number \in 1 .. Cardinality(Records(settled, r.cell))
    BY <2>1, <2>3
  <2>5. Cardinality(Records(settled, r.cell)) \in Nat
    BY RecordsFinite
  <2> QED
    BY <2>1, <2>2, <2>4, <2>5 DEF HasComplete
<1>3. CASE a \in settled /\ b \in settled
  BY <1>3 DEF Chains
<1>4. CASE a \in settled /\ b \in passing
  BY <1>1, <1>2, <1>4, AttemptFields
<1>5. CASE a \in passing /\ b \in settled
  BY <1>1, <1>2, <1>5, AttemptFields
<1>6. CASE a \in passing /\ b \in passing
  BY <1>1, <1>6, AttemptFields DEF Chains, Single
<1> QED
  BY <1>3, <1>4, <1>5, <1>6 DEF Visible

\* A chain that ends with a complete attempt is all there is of the cell.
LEMMA CompleteChainIsAll ==
  ASSUME AnalysisTypeOK, Chains, NEW S, S \subseteq Ever, NEW c \in Cell,
         ValidChain(S, c), HasComplete(S, c), Records(S, c) \cap withdrawn = {}
  PROVE  Records(S, c) = Records(Visible, c)
<1>1. Records(S, c) \subseteq Records(Visible, c)
  BY DEF Records, Ever
<1>2. PICK a \in Records(S, c) : a.status = "complete"
  BY DEF HasComplete
<1>3. ASSUME NEW b \in Records(Visible, c) PROVE b \in Records(S, c)
  <2>1. a \in Visible /\ b \in Visible /\ a.cell = c /\ b.cell = c /\ a \in Attempt /\ b \in Attempt
    BY <1>1, <1>3 DEF Records, AnalysisTypeOK, Visible
  <2>2. b.number <= a.number
    BY <1>2, <2>1, VisibleChains
  <2>3. {x.number : x \in Records(S, c)} = 1 .. Cardinality(Records(S, c))
    BY DEF ValidChain
  <2>4. a.number \in 1 .. Cardinality(Records(S, c))
    BY <2>3
  <2>5. b.number \in 1 .. Cardinality(Records(S, c))
    BY <2>1, <2>2, <2>4, AttemptFields, EverFinite
  <2>6. PICK r \in Records(S, c) : r.number = b.number
    BY <2>3, <2>5
  <2>7. r \in Visible /\ r.cell = c
    BY <1>1, <2>6 DEF Records
  <2>8. r = b
    BY <2>1, <2>6, <2>7, VisibleChains
  <2> QED
    BY <2>8
<1> QED
  BY <1>1, <1>3

LEMMA CompleteDatasetIsAll ==
  ASSUME AnalysisTypeOK, Chains, NEW S, S \subseteq Ever, Selectable(S), S \cap withdrawn = {}
  PROVE  S = Visible
<1>1. ASSUME NEW c \in Cell PROVE Records(S, c) = Records(Visible, c)
  <2>1. ValidChain(S, c) /\ HasComplete(S, c) /\ Records(S, c) \cap withdrawn = {}
    BY DEF Selectable, ChainsValid, Records
  <2> QED
    BY <2>1, CompleteChainIsAll
<1>2. \A a \in S \cup Visible : a.cell \in Cell
  BY AttemptFields DEF AnalysisTypeOK, Visible, Ever
<1> QED
  BY <1>1, <1>2 DEF Records

\* What the invariant says of the readers that have passed.
LEMMA Passed ==
  ASSUME AnalysisIInv
  PROVE  PassIsFinal
<1>1. AnalysisTypeOK /\ Chains
  BY DEF AnalysisIInv
<1>2. ASSUME NEW d \in processed PROVE Final(d.sources)
  <2>1. d.sources \subseteq Ever /\ Selectable(d.sources)
    BY DEF AnalysisIInv, PublishedData
  <2> QED
    BY <1>1, <2>1, CompleteDatasetIsAll DEF Final
<1>3. ASSUME NEW p \in Reader, reader[p].pc = "passed", reader[p].mode = "validate complete"
      PROVE  Final(reader[p].read)
  <2>1. reader[p].read \subseteq Ever /\ Selectable(reader[p].read)
    BY <1>3 DEF AnalysisIInv, Read, Concluded
  <2> QED
    BY <1>1, <2>1, CompleteDatasetIsAll DEF Final
<1>4. ASSUME NEW p \in Reader, reader[p].pc = "passed", NEW c \in Cell
      PROVE  FinalIn(reader[p].read, c)
  <2>1. reader[p].read \subseteq Ever /\ ValidChain(reader[p].read, c)
    BY <1>4 DEF AnalysisIInv, Read, Concluded, ChainsValid
  <2> QED
    BY <1>1, <2>1, CompleteChainIsAll DEF FinalIn
<1> QED
  BY <1>2, <1>3, <1>4 DEF PassIsFinal, At


-----------------------------------------------------------------------------
(***************************************************************************)
(* What a step changes.                                                    *)
(***************************************************************************)
ReaderStep(p) ==
    \/ Start(p) \/ Scan(p) \/ ScanEnds(p) \/ ReadBundle(p) \/ AllRead(p) \/ Select(p)
    \/ StageOutputs(p) \/ HashFile(p) \/ WriteChecksums(p) \/ CaptureFile(p)
    \/ SyncAndCapture(p) \/ PublishOutputs(p) \/ ReadBack(p) \/ Return(p)
    \/ TakeBack(p) \/ PublishRaises(p) \/ Again(p) \/ Crash(p)
    \/ \E f \in File : TouchStaged(p, f)
CampaignStep ==
    (\E c \in Cell, s \in Status : Appear(c, s)) \/ Settle \/ Withdraw \/ MoveLitter
OtherStep ==
    RivalMoves \/ RivalReturns \/ RivalTakesBack \/ \E f \in File : TouchProcessed(f)

LEMMA Steps ==
  ASSUME [AnalysisNext]_analysisVars
  PROVE  CampaignStep \/ OtherStep \/ (\E p \in Reader : ReaderStep(p)) \/ UNCHANGED analysisVars
BY DEF AnalysisNext, CampaignStep, OtherStep, ReaderStep

LEMMA CampaignKeeps ==
  ASSUME CampaignStep
  PROVE  UNCHANGED <<reader, processed, returned>>
BY DEF CampaignStep, Appear, Settle, Withdraw, MoveLitter

LEMMA OthersKeep ==
  ASSUME OtherStep
  PROVE  UNCHANGED <<campaign, reader>>
BY DEF OtherStep, RivalMoves, RivalReturns, RivalTakesBack, TouchProcessed

LEMMA ReaderKeeps ==
  ASSUME AnalysisTypeOK, NEW p \in Reader, ReaderStep(p)
  PROVE  /\ UNCHANGED campaign
         /\ \A q \in Reader \ {p} : reader'[q] = reader[q]
<1>1. reader \in [Reader -> Local]
  BY DEF AnalysisTypeOK
<1>2. CASE Start(p) \/ Scan(p) \/ ScanEnds(p) \/ ReadBundle(p) \/ AllRead(p) \/ Select(p)
  BY <1>1, <1>2 DEF Start, Scan, ScanEnds, ReadBundle, AllRead, Select
<1>3. CASE StageOutputs(p) \/ HashFile(p) \/ WriteChecksums(p) \/ CaptureFile(p)
  BY <1>1, <1>3 DEF StageOutputs, HashFile, WriteChecksums, CaptureFile
<1>4. CASE SyncAndCapture(p) \/ PublishOutputs(p) \/ ReadBack(p) \/ Return(p)
  BY <1>1, <1>4 DEF SyncAndCapture, PublishOutputs, ReadBack, Return
<1>5. CASE TakeBack(p) \/ PublishRaises(p) \/ Again(p) \/ Crash(p)
  BY <1>1, <1>5 DEF TakeBack, PublishRaises, Again, Crash
<1>6. CASE \E f \in File : TouchStaged(p, f)
  BY <1>1, <1>6 DEF TouchStaged
<1> QED
  BY <1>2, <1>3, <1>4, <1>5, <1>6 DEF ReaderStep

\* The raw root forgets nothing: what is taken back is remembered as that.
LEMMA EverGrows ==
  ASSUME AnalysisTypeOK, [AnalysisNext]_analysisVars
  PROVE  Ever \subseteq Ever' /\ withdrawn \subseteq withdrawn'
<1>1. CASE CampaignStep
  <2>1. ASSUME NEW c \in Cell, NEW s \in Status, Appear(c, s)
        PROVE  Ever \subseteq Ever' /\ withdrawn \subseteq withdrawn'
    <3>1. passing = {} /\ UNCHANGED <<settled, withdrawn>>
      BY <2>1 DEF Appear
    <3> QED
      BY <3>1 DEF Ever, Visible
  <2>2. CASE Settle \/ Withdraw \/ MoveLitter
    BY <2>2 DEF Settle, Withdraw, MoveLitter, Ever, Visible
  <2> QED
    BY <1>1, <2>1, <2>2 DEF CampaignStep
<1>2. CASE UNCHANGED campaign
  BY <1>2 DEF campaign, Ever, Visible
<1> QED
  BY <1>1, <1>2, Steps, OthersKeep, ReaderKeeps DEF analysisVars

-----------------------------------------------------------------------------
(***************************************************************************)
(* The campaign's steps.                                                   *)
(***************************************************************************)
\* A cell that may be attempted again leaves an identifier for the attempt:
\* no two settled attempts have a cell and a number in common.
LEMMA RoomForOne ==
  ASSUME AnalysisTypeOK, Chains, NEW c \in Cell, Cardinality(Records(settled, c)) < MaxAttempts
  PROVE  Cardinality(settled) \in Nat /\ Cardinality(settled) < CellCount * MaxAttempts
<1> DEFINE n == Cardinality(Records(settled, c))
           Places == Cell \X (1 .. MaxAttempts)
           spot == [a \in settled |-> <<a.cell, a.number>>]
           Rest == Places \ {<<c, n + 1>>}
<1>1. n \in Nat /\ n + 1 \in 1 .. MaxAttempts
  BY RecordsFinite, CountAssumption
<1>2. IsFiniteSet(Cell) /\ Cardinality(Cell) = CellCount
  BY FS_Interval, CountAssumption DEF Cell
<1>3. IsFiniteSet(1 .. MaxAttempts) /\ Cardinality(1 .. MaxAttempts) = MaxAttempts
  BY FS_Interval, CountAssumption
<1>4. IsFiniteSet(Places) /\ Cardinality(Places) = CellCount * MaxAttempts
  BY <1>2, <1>3, FS_Product
<1>5. <<c, n + 1>> \in Places
  BY <1>1
<1>6. IsFiniteSet(Rest) /\ Cardinality(Rest) = CellCount * MaxAttempts - 1
  BY <1>4, <1>5, FS_RemoveElement
<1>7. ASSUME NEW a \in settled PROVE <<a.cell, a.number>> \in Rest
  <2>1. a.cell \in Cell /\ a.number \in 1 .. MaxAttempts
    BY AttemptFields DEF AnalysisTypeOK
  <2>2. ASSUME a.cell = c PROVE a.number # n + 1
    <3>1. a \in Records(settled, c)
      BY <2>2 DEF Records
    <3>2. {x.number : x \in Records(settled, c)} = 1 .. n
      BY DEF Chains
    <3>3. a.number \in 1 .. n
      BY <3>1, <3>2
    <3> QED
      BY <3>3, <1>1
  <2> QED
    BY <2>1, <2>2
<1>8. ASSUME NEW a \in settled, NEW b \in settled, spot[a] = spot[b] PROVE a = b
  BY <1>8 DEF Chains
<1>9. spot \in Injection(settled, Rest)
  BY <1>7, <1>8 DEF Injection, IsInjective
<1>10. Cardinality(settled) <= Cardinality(Rest)
  BY <1>6, <1>9, FS_Injection
<1>11. Cardinality(settled) \in Nat
  BY FS_CardinalityType DEF Chains
<1>12. CellCount * MaxAttempts \in Nat
  BY CountAssumption
<1> HIDE DEF n, Places, spot, Rest
<1> QED
  BY <1>6, <1>10, <1>11, <1>12

LEMMA AppearTypes ==
  ASSUME AnalysisTypeOK, Chains, NEW c \in Cell, NEW s \in Status, Appear(c, s)
  PROVE  AnalysisTypeOK'
<1> DEFINE n == Cardinality(Records(settled, c))
<1>1. n \in Nat /\ n < MaxAttempts /\ passing = {}
  BY RecordsFinite DEF Appear
<1>2. Cardinality(settled) \in Nat /\ Cardinality(settled) + 1 <= CellCount * MaxAttempts
  BY <1>1, RoomForOne, CountAssumption
<1>3. Cardinality(withdrawn) \in Nat /\ Cardinality(withdrawn) <= MaxWithdrawn
  BY FS_CardinalityType DEF AnalysisTypeOK, Chains
<1>4. Attempted + 1 \in 1 .. MaxId /\ MaxId \in Nat
  <2>1. CellCount * MaxAttempts \in Nat
    BY CountAssumption
  <2> QED
    BY <1>2, <1>3, <2>1, BoundAssumption DEF Attempted, MaxId
<1>5. PICK prior \in IF n = 0 THEN {0} ELSE {a.id : a \in {r \in Records(settled, c) : r.number = n}} :
         passing' = {[id |-> Attempted + 1, cell |-> c, number |-> n + 1,
                      supersedes |-> prior, status |-> s]}
  BY DEF Appear
<1>6. prior \in 0 .. MaxId
  <2>1. ASSUME NEW a \in Records(settled, c) PROVE a.id \in 0 .. MaxId
    BY AttemptFields, <1>4 DEF Records, AnalysisTypeOK
  <2> QED
    BY <1>4, <1>5, <2>1
<1>7. n + 1 \in 1 .. MaxAttempts
  BY <1>1, CountAssumption
<1>8. passing' \subseteq Attempt
  BY <1>4, <1>5, <1>6, <1>7 DEF Attempt
<1>9. Cardinality(passing') <= 1
  <2>1. PICK a : passing' = {a}
    BY <1>5
  <2>2. Cardinality({a}) = 1
    BY FS_Singleton
  <2> QED
    BY <2>1, <2>2
<1>10. UNCHANGED <<settled, withdrawn, litter, reader, processed, returned>>
  BY DEF Appear
<1> HIDE DEF n
<1> QED
  BY <1>8, <1>9, <1>10 DEF AnalysisTypeOK

\* A withdrawn attempt is counted once.
LEMMA PassingIsOne ==
  ASSUME Chains, passing # {}
  PROVE  \E a \in passing : passing = {a}
BY DEF Chains, Single

LEMMA CampaignTypes ==
  ASSUME AnalysisTypeOK, Chains, CampaignStep
  PROVE  AnalysisTypeOK'
<1>1. ASSUME NEW c \in Cell, NEW s \in Status, Appear(c, s) PROVE AnalysisTypeOK'
  BY <1>1, AppearTypes
<1>2. CASE Settle
  <2>1. Cardinality(passing') <= 1
    BY <1>2, FS_EmptySet DEF Settle
  <2> QED
    BY <1>2, <2>1 DEF Settle, AnalysisTypeOK
<1>3. CASE Withdraw
  <2>1. Cardinality(passing') <= 1
    BY <1>3, FS_EmptySet DEF Withdraw
  <2>2. PICK a : passing = {a}
    BY <1>3, PassingIsOne DEF Withdraw
  <2>3. Cardinality(withdrawn') \in {Cardinality(withdrawn), Cardinality(withdrawn) + 1}
    BY <1>3, <2>2, FS_AddElement DEF Withdraw, Chains
  <2>4. Cardinality(withdrawn) \in Nat /\ Cardinality(withdrawn) < MaxWithdrawn
    BY <1>3, FS_CardinalityType DEF Withdraw, Chains
  <2>5. Cardinality(withdrawn') <= MaxWithdrawn
    BY <2>3, <2>4, BoundAssumption
  <2> QED
    BY <1>3, <2>1, <2>5 DEF Withdraw, AnalysisTypeOK
<1>4. CASE MoveLitter
  BY <1>4 DEF MoveLitter, AnalysisTypeOK
<1> QED
  BY <1>1, <1>2, <1>3, <1>4 DEF CampaignStep

LEMMA SettleChains ==
  ASSUME AnalysisTypeOK, Chains, Settle
  PROVE  Chains'
<1>1. PICK a \in passing : passing = {a}
  BY PassingIsOne DEF Settle
<1>2. settled' = settled \cup {a} /\ passing' = {} /\ withdrawn' = withdrawn /\ settled' = Visible
  BY <1>1 DEF Settle, Visible
<1> DEFINE R(c) == Records(settled, c)
           k == a.cell
<1>3. k \in Cell /\ a.number = Cardinality(R(k)) + 1
  BY <1>1, AttemptFields DEF Chains, AnalysisTypeOK
<1>4. IsFiniteSet(settled') /\ IsFiniteSet(withdrawn') /\ Single(passing')
  BY <1>2, FS_AddElement DEF Chains, Single
<1>5. ASSUME NEW c \in Cell
      PROVE  {x.number : x \in Records(settled', c)} = 1 .. Cardinality(Records(settled', c))
  <2>1. {x.number : x \in R(c)} = 1 .. Cardinality(R(c)) /\ Cardinality(R(c)) \in Nat
        /\ IsFiniteSet(R(c))
    BY RecordsFinite DEF Chains
  <2>2. CASE c # k
    <3>1. Records(settled', c) = R(c)
      BY <1>2, <2>2 DEF Records
    <3> QED
      BY <2>1, <3>1
  <2>3. CASE c = k
    <3>1. Records(settled', c) = R(c) \cup {a}
      BY <1>2, <2>3 DEF Records
    <3>2. a \notin R(c)
      <4>1. ASSUME a \in R(c) PROVE a.number \in 1 .. Cardinality(R(c))
        BY <4>1, <2>1
      <4> HIDE DEF R, k
      <4> QED
        BY <4>1, <1>3, <2>1, <2>3
    <3>3. Cardinality(R(c) \cup {a}) = Cardinality(R(c)) + 1
      BY <2>1, <3>2, FS_AddElement
    <3>4. {x.number : x \in R(c) \cup {a}} = {x.number : x \in R(c)} \cup {a.number}
      OBVIOUS
    <3> HIDE DEF R, k
    <3>5. (1 .. Cardinality(R(c))) \cup {Cardinality(R(c)) + 1} = 1 .. Cardinality(R(c)) + 1
      BY <2>1
    <3> QED
      BY <1>3, <2>1, <2>3, <3>1, <3>3, <3>4, <3>5
  <2> QED
    BY <2>2, <2>3
<1>6. \A b, d \in settled' : b.cell = d.cell =>
         /\ b.number = d.number => b = d
         /\ b.status = "complete" => d.number <= b.number
  BY <1>2, VisibleChains
<1> QED
  BY <1>2, <1>4, <1>5, <1>6 DEF Chains

LEMMA CampaignChains ==
  ASSUME AnalysisTypeOK, Chains, CampaignStep
  PROVE  Chains'
<1>1. ASSUME NEW c \in Cell, NEW s \in Status, Appear(c, s) PROVE Chains'
  <2>1. PICK a : passing' = {a} /\ a.cell = c /\ a.number = Cardinality(Records(settled, c)) + 1
    <3> DEFINE n == Cardinality(Records(settled, c))
           next(id, prior) == [id |-> id, cell |-> c, number |-> n + 1,
                               supersedes |-> prior, status |-> s]
    <3>1. PICK prior : passing' = {next(Attempted + 1, prior)}
      BY <1>1 DEF Appear
    <3>2. next(Attempted + 1, prior).cell = c /\ next(Attempted + 1, prior).number = n + 1
      OBVIOUS
    <3> HIDE DEF next
    <3> QED
      BY <3>1, <3>2
  <2>2. ~ HasComplete(settled, c) /\ UNCHANGED <<settled, withdrawn>>
    BY <1>1 DEF Appear
  <2>3. Single(passing')
    BY <2>1 DEF Single
  <2> QED
    BY <2>1, <2>2, <2>3 DEF Chains, HasComplete, Records
<1>2. CASE Settle
  BY <1>2, SettleChains
<1>3. CASE Withdraw
  <2>1. PICK a : passing = {a}
    BY <1>3, PassingIsOne DEF Withdraw
  <2>2. IsFiniteSet(withdrawn')
    BY <1>3, <2>1, FS_AddElement DEF Withdraw, Chains
  <2>3. passing' = {} /\ settled' = settled
    BY <1>3 DEF Withdraw
  <2>4. Single(passing')
    BY <2>3 DEF Single
  <2> QED
    BY <2>2, <2>3, <2>4 DEF Chains, HasComplete, Records
<1>4. CASE MoveLitter
  BY <1>4 DEF MoveLitter, Chains, Single, HasComplete, Records
<1> QED
  BY <1>1, <1>2, <1>3, <1>4 DEF CampaignStep

LEMMA ChainsKept ==
  ASSUME Chains, UNCHANGED campaign
  PROVE  Chains'
BY DEF Chains, campaign, Single, HasComplete, Records

-----------------------------------------------------------------------------
(***************************************************************************)
(* The readers' steps.                                                     *)
(***************************************************************************)
LEMMA EverTypes ==
  ASSUME AnalysisTypeOK
  PROVE  Ever \subseteq Attempt /\ Entries \subseteq Visible \cup {Litter} /\ Visible \subseteq Ever
BY DEF AnalysisTypeOK, Ever, Visible, Entries

LEMMA TreeFacts ==
  /\ FileCount \in Nat /\ Sums \in File /\ Sums = 0
  /\ 0 \in 0 .. FileCount + 1 /\ 1 \in 0 .. FileCount + 1 /\ 0 \in 0 .. MaxVersion /\ Written \in Tree
  /\ \A f \in File : f \in Nat /\ f <= FileCount /\ f + 1 \in 0 .. FileCount + 1
BY FileAssumption, BoundAssumption DEF File, Sums, Written, Tree

\* The local state of a reader, field by field.
LEMMA LocalFields ==
  ASSUME NEW r \in Local
  PROVE  /\ r.pc \in PC /\ r.mode \in Mode /\ r.tree \in Tree /\ r.sums \in Tree
         /\ r.snapshot \in Tree /\ r.next \in 0 .. FileCount + 1
BY DEF Local

LEMMA BlankLocal ==
  /\ Blank \in Local
  /\ \A pc \in PC : Ended(pc) \in Local /\ Ended(pc).pc = pc
  /\ \A pc \in PC : Ended(pc).from = {} /\ Ended(pc).listed = {} /\ Ended(pc).read = {}
  /\ Blank.pc = "idle" /\ Blank.from = {} /\ Blank.listed = {} /\ Blank.read = {}
<1>1. /\ "idle" \in PC /\ "validate" \in Mode
      /\ Written \in Tree /\ 0 \in 0 .. FileCount + 1
  BY TreeFacts DEF PC, Mode
<1>2. Blank \in Local
  BY <1>1 DEF Blank, Local
<1>3. Blank.pc = "idle" /\ Blank.from = {} /\ Blank.listed = {} /\ Blank.read = {}
  BY DEF Blank
<1> QED
  BY <1>2, <1>3 DEF Ended, Local

\* A file of a tree gets a version.
LEMMA TreeUpdate ==
  ASSUME NEW t \in Tree, NEW f \in File, NEW v \in 0 .. MaxVersion
  PROVE  [t EXCEPT ![f] = v] \in Tree
BY DEF Tree

LEMMA ReaderLocals ==
  ASSUME AnalysisTypeOK, NEW p \in Reader, ReaderStep(p)
  PROVE  reader' \in [Reader -> Local]
<1>1. reader \in [Reader -> Local]
  BY DEF AnalysisTypeOK
<1>2. reader[p] \in Local
  BY <1>1
<1>3. Entries \subseteq Attempt \cup {Litter} /\ Blank \in Local /\ Ended("refused") \in Local
      /\ Ended("returned") \in Local
  BY EverTypes, BlankLocal DEF PC
<1>4. CASE Start(p)
  <2>1. PICK m \in Mode : reader' = [reader EXCEPT ![p] = [Blank EXCEPT !.pc = "listing",
                                                        !.mode = m, !.from = Entries]]
    BY <1>4 DEF Start
  <2>2. [Blank EXCEPT !.pc = "listing", !.mode = m, !.from = Entries] \in Local
    BY <1>3 DEF Local, PC
  <2> QED
    BY <1>1, <2>1, <2>2
<1>5. CASE Scan(p)
  BY <1>1, <1>2, <1>3, <1>5 DEF Scan, Local
<1>6. CASE ScanEnds(p) \/ AllRead(p)
  BY <1>1, <1>2, <1>6 DEF ScanEnds, AllRead, Local, PC
<1>7. CASE ReadBundle(p)
  <2>1. PICK e \in reader[p].listed \ reader[p].read :
           reader' = IF e \in Visible THEN [reader EXCEPT ![p].read = @ \cup {e}]
                                      ELSE [reader EXCEPT ![p] = Ended("refused")]
    BY <1>7 DEF ReadBundle
  <2>2. [reader[p] EXCEPT !.read = @ \cup {e}] \in Local
    BY <1>2 DEF Local
  <2> QED
    BY <1>1, <1>3, <2>1, <2>2
<1>8. CASE Select(p)
  <2>1. Concludes(p, "selected") \in Local /\ Concludes(p, "passed") \in Local
    BY <1>2 DEF Concludes, Local, PC
  <2> QED
    BY <1>1, <1>3, <1>8, <2>1 DEF Select
<1>9. CASE StageOutputs(p)
  <2>1. 1 \in 0 .. FileCount + 1 /\ "staged" \in PC
    BY TreeFacts DEF PC
  <2> QED
    BY <1>1, <1>2, <1>9, <2>1 DEF StageOutputs, Local
<1>10. CASE HashFile(p) \/ CaptureFile(p)
  <2> DEFINE n == reader[p].next
             v == reader[p].tree[n]
             a == [reader[p] EXCEPT !.sums = [reader[p].sums EXCEPT ![n] = v], !.next = n + 1]
             b == [reader[p] EXCEPT !.snapshot = [reader[p].snapshot EXCEPT ![n] = v], !.next = n + 1]
  <2>1. n \in File /\ n + 1 \in 0 .. FileCount + 1 /\ v \in 0 .. MaxVersion
    BY <1>2, <1>10, TreeFacts, LocalFields DEF HashFile, CaptureFile, Tree
  <2>2. [reader[p].sums EXCEPT ![n] = v] \in Tree /\ [reader[p].snapshot EXCEPT ![n] = v] \in Tree
    BY <1>2, <2>1, LocalFields, TreeUpdate
  <2>3. reader' = [reader EXCEPT ![p] = a] \/ reader' = [reader EXCEPT ![p] = b]
    BY <1>10 DEF HashFile, CaptureFile
  <2>4. a \in Local /\ b \in Local
    <3> HIDE DEF n, v
    <3> QED
      BY <1>2, <2>1, <2>2 DEF Local
  <2> HIDE DEF a, b
  <2> QED
    BY <1>1, <2>3, <2>4
<1>11. CASE WriteChecksums(p)
  <2> DEFINE t == [reader[p].tree EXCEPT ![Sums] = 0]
             a == [reader[p] EXCEPT !.pc = "summed", !.next = Sums, !.tree = t]
  <2>1. t \in Tree /\ Sums \in 0 .. FileCount + 1
    BY <1>2, TreeFacts, LocalFields, TreeUpdate DEF Sums
  <2>2. reader' = [reader EXCEPT ![p] = a]
    BY <1>11 DEF WriteChecksums
  <2>3. a \in Local
    <3> HIDE DEF t
    <3> QED
      BY <1>2, <2>1 DEF Local, PC
  <2> HIDE DEF a
  <2> QED
    BY <1>1, <2>2, <2>3
<1>12. CASE SyncAndCapture(p) \/ PublishOutputs(p) \/ Return(p) \/ TakeBack(p) \/ PublishRaises(p)
  <2>1. /\ [reader[p] EXCEPT !.pc = "captured"] \in Local
        /\ [reader[p] EXCEPT !.pc = "moved", !.next = Sums] \in Local
    <3>1. Sums \in 0 .. FileCount + 1 /\ "captured" \in PC /\ "moved" \in PC
      BY TreeFacts DEF PC
    <3> QED
      BY <1>2, <3>1 DEF Local
  <2> QED
    BY <1>1, <1>3, <1>12, <2>1 DEF SyncAndCapture, PublishOutputs, Return, TakeBack, PublishRaises
<1>13. CASE ReadBack(p)
  <2>1. reader[p].next + 1 \in 0 .. FileCount + 1
    BY <1>13, TreeFacts DEF ReadBack
  <2> QED
    BY <1>1, <1>2, <1>13, <2>1 DEF ReadBack, Local
<1>14. CASE \E f \in File : TouchStaged(p, f)
  <2>1. PICK f \in File : TouchStaged(p, f)
    BY <1>14
  <2> DEFINE t == [reader[p].tree EXCEPT ![f] = @ + 1]
             a == [reader[p] EXCEPT !.tree = t]
  <2>2. reader[p].tree[f] \in 0 .. MaxVersion /\ reader[p].tree[f] + 1 \in 0 .. MaxVersion
    BY <1>2, <2>1, BoundAssumption, LocalFields DEF TouchStaged, Tree
  <2>3. t \in Tree
    BY <1>2, <2>2, LocalFields, TreeUpdate
  <2>4. reader' = [reader EXCEPT ![p] = a]
    BY <2>1 DEF TouchStaged
  <2>5. a \in Local
    <3> HIDE DEF t
    <3> QED
      BY <1>2, <2>3 DEF Local
  <2> HIDE DEF a
  <2> QED
    BY <1>1, <2>4, <2>5
<1>15. CASE Again(p) \/ Crash(p)
  BY <1>1, <1>3, <1>15 DEF Again, Crash
<1> QED
  BY <1>4, <1>5, <1>6, <1>7, <1>8, <1>9, <1>10, <1>11, <1>12, <1>13, <1>14, <1>15 DEF ReaderStep

\* The processed root holds one dataset, or none.
LEMMA OneDataset ==
  ASSUME AnalysisTypeOK, NEW S, S = processed \/ S = {} \/ \E d \in Dataset : S = {d}
  PROVE  S \subseteq Dataset /\ Cardinality(S) <= 1
<1>1. CASE S = processed
  BY <1>1 DEF AnalysisTypeOK
<1>2. CASE S = {}
  BY <1>2, FS_EmptySet
<1>3. ASSUME NEW d \in Dataset, S = {d} PROVE S \subseteq Dataset /\ Cardinality(S) <= 1
  <2>1. Cardinality({d}) = 1
    BY FS_Singleton
  <2> QED
    BY <1>3, <2>1
<1> QED
  BY <1>1, <1>2, <1>3

LEMMA ReaderTypes ==
  ASSUME AnalysisIInv, NEW p \in Reader, ReaderStep(p)
  PROVE  AnalysisTypeOK'
<1>1. AnalysisTypeOK /\ UNCHANGED campaign /\ reader' \in [Reader -> Local]
  BY ReaderKeeps, ReaderLocals DEF AnalysisIInv
<1>2. reader[p] \in Local /\ reader[p].read \subseteq Attempt
  <2>1. reader[p].read \subseteq Ever
    BY DEF AnalysisIInv, Read
  <2> QED
    BY <1>1, <2>1, EverTypes DEF AnalysisTypeOK
<1>3. Output(p) \in Dataset
  BY <1>2, LocalFields DEF Output, Dataset
<1>4. ASSUME NEW d \in processed, NEW f \in File PROVE [d EXCEPT !.late = @ \ {f}] \in Dataset
  BY <1>1 DEF AnalysisTypeOK, Dataset
<1>5. processed' = processed \/ processed' = {} \/ \E d \in Dataset : processed' = {d}
  <2>1. \/ processed' = processed \/ processed' = {} \/ processed' = {Output(p)}
        \/ \E d \in processed, f \in File : processed' = {[d EXCEPT !.late = @ \ {f}]}
    <3>1. CASE ReadBack(p)
      BY <3>1 DEF ReadBack
    <3>2. CASE PublishOutputs(p) \/ TakeBack(p) \/ PublishRaises(p)
      BY <3>2 DEF PublishOutputs, TakeBack, PublishRaises
    <3>3. CASE ~ (ReadBack(p) \/ PublishOutputs(p) \/ TakeBack(p) \/ PublishRaises(p))
      BY <3>3 DEF ReaderStep, Start, Scan, ScanEnds, ReadBundle, AllRead, Select, StageOutputs,
                  HashFile, WriteChecksums, CaptureFile, SyncAndCapture, Return, Again, Crash,
                  TouchStaged
    <3> QED
      BY <3>1, <3>2, <3>3
  <2> QED
    BY <1>3, <1>4, <2>1
<1>6. returned' \subseteq [by : Reader \cup {Rival}, sources : SUBSET Attempt]
  <2>1. returned' = returned \/ returned' = returned \cup {[by |-> p, sources |-> reader[p].read]}
    BY DEF ReaderStep, Start, Scan, ScanEnds, ReadBundle, AllRead, Select, StageOutputs,
           HashFile, WriteChecksums, CaptureFile, SyncAndCapture, PublishOutputs, ReadBack, Return,
           TakeBack, PublishRaises, Again, Crash, TouchStaged
  <2> QED
    BY <1>1, <1>2, <2>1 DEF AnalysisTypeOK
<1>7. processed' \subseteq Dataset /\ Cardinality(processed') <= 1
  BY <1>1, <1>5, OneDataset
<1> QED
  BY <1>1, <1>6, <1>7 DEF AnalysisTypeOK, campaign

LEMMA OtherTypes ==
  ASSUME AnalysisTypeOK, OtherStep
  PROVE  AnalysisTypeOK'
<1>1. UNCHANGED <<campaign, reader>>
  BY OthersKeep
<1>2. RivalDataset \in Dataset
  BY TreeFacts DEF RivalDataset, Dataset, AnalysisTypeOK
<1>3. \A d \in processed : d \in Dataset /\ d.sources \subseteq Attempt
  BY DEF AnalysisTypeOK, Dataset
<1>4. processed' = processed \/ processed' = {} \/ \E d \in Dataset : processed' = {d}
  <2>1. CASE RivalMoves \/ RivalReturns \/ RivalTakesBack
    BY <1>2, <2>1 DEF RivalMoves, RivalReturns, RivalTakesBack
  <2>2. ASSUME NEW f \in File, TouchProcessed(f) PROVE \E d \in Dataset : processed' = {d}
    <3>1. PICK d \in processed :
             /\ d.tree[f] < MaxVersion
             /\ processed' = {[d EXCEPT !.tree[f] = @ + 1, !.late = @ \cup {f}]}
      BY <2>2 DEF TouchProcessed
    <3>2. d \in Dataset /\ d.tree \in Tree /\ d.tree[f] + 1 \in 0 .. MaxVersion
      BY <1>3, <3>1, BoundAssumption DEF Dataset, Tree
    <3> DEFINE t == [d.tree EXCEPT ![f] = d.tree[f] + 1]
    <3>3. t \in Tree
      BY <3>2, TreeUpdate
    <3>4. processed' = {[d EXCEPT !.tree = t, !.late = d.late \cup {f}]}
      BY <3>1
    <3>5. [d EXCEPT !.tree = t, !.late = d.late \cup {f}] \in Dataset
      <4> HIDE DEF t
      <4> QED
        BY <3>2, <3>3 DEF Dataset
    <3> QED
      BY <3>4, <3>5
  <2> QED
    BY <2>1, <2>2 DEF OtherStep
<1>5. returned' \subseteq [by : Reader \cup {Rival}, sources : SUBSET Attempt]
  <2>1. returned' = returned \/ \E d \in processed : returned' = returned \cup {[by |-> Rival, sources |-> d.sources]}
    BY DEF OtherStep, RivalMoves, RivalReturns, RivalTakesBack, TouchProcessed
  <2> QED
    BY <1>3, <2>1 DEF AnalysisTypeOK
<1>6. processed' \subseteq Dataset /\ Cardinality(processed') <= 1
  BY <1>4, OneDataset
<1> QED
  BY <1>1, <1>5, <1>6 DEF AnalysisTypeOK, campaign

LEMMA TypesStep ==
  ASSUME AnalysisIInv, [AnalysisNext]_analysisVars
  PROVE  AnalysisTypeOK'
<1>1. CASE UNCHANGED analysisVars
  BY <1>1 DEF AnalysisIInv, AnalysisTypeOK, analysisVars, campaign
<1> QED
  BY <1>1, Steps, CampaignTypes, OtherTypes, ReaderTypes DEF AnalysisIInv

LEMMA ChainsStep ==
  ASSUME AnalysisIInv, [AnalysisNext]_analysisVars
  PROVE  Chains'
<1>1. AnalysisTypeOK /\ Chains
  BY DEF AnalysisIInv
<1>2. CASE CampaignStep
  BY <1>1, <1>2, CampaignChains
<1>3. CASE UNCHANGED campaign
  BY <1>1, <1>3, ChainsKept
<1> QED
  BY <1>1, <1>2, <1>3, Steps, OthersKeep, ReaderKeeps DEF analysisVars

-----------------------------------------------------------------------------
(***************************************************************************)
(* What a reader has listed and read.                                      *)
(***************************************************************************)
Kept(p) ==
    /\ reader'[p].from = reader[p].from /\ reader'[p].listed = reader[p].listed
    /\ reader'[p].read = reader[p].read
Scanned(p) ==
    /\ reader'[p].pc = "listing" /\ reader'[p].from = reader[p].from
    /\ reader'[p].listed \subseteq reader[p].listed \cup Entries
    /\ reader[p].listed \subseteq reader'[p].listed /\ reader'[p].read = reader[p].read
ReadOne(p) ==
    /\ reader[p].pc = "reading" /\ reader'[p].pc = "reading"
    /\ reader'[p].from = reader[p].from /\ reader'[p].listed = reader[p].listed
    /\ reader'[p].read \subseteq reader[p].read \cup (reader[p].listed \cap Visible)

LEMMA Reading ==
  ASSUME AnalysisTypeOK, NEW p \in Reader, ReaderStep(p)
  PROVE  \/ reader'[p] = Blank
         \/ /\ reader'[p].pc = "listing" /\ reader'[p].from = Entries
            /\ reader'[p].listed = {} /\ reader'[p].read = {}
         \/ Scanned(p) \/ ReadOne(p)
         \/ Kept(p) /\ reader'[p].pc = "reading" /\ reader[p].from \cap Entries \subseteq reader[p].listed
         \/ Kept(p) /\ reader[p].pc = "reading" /\ reader'[p].pc = "read" /\ reader[p].listed = reader[p].read
         \/ /\ reader'[p].read = reader[p].read /\ reader'[p].pc \notin {"reading", "read"}
            /\ \/ reader'[p].from = {} /\ reader'[p].listed = {}
               \/ reader'[p].from = reader[p].from /\ reader'[p].listed = reader[p].listed
         \/ \E pc \in {"refused", "returned"} : reader'[p] = Ended(pc)
<1>1. reader \in [Reader -> Local] /\ reader[p] \in Local
  BY DEF AnalysisTypeOK
<1> USE DEF Kept, Scanned, ReadOne, At
<1>2. CASE Start(p)
  BY <1>1, <1>2 DEF Start, Blank
<1>3. CASE Scan(p)
  BY <1>1, <1>3 DEF Scan, Local
<1>4. CASE ScanEnds(p)
  BY <1>1, <1>4 DEF ScanEnds, Local
<1>5. CASE ReadBundle(p)
  BY <1>1, <1>5 DEF ReadBundle, Local
<1>6. CASE AllRead(p)
  BY <1>1, <1>6 DEF AllRead, Local
<1>7. CASE Select(p)
  <2>1. \/ reader'[p] = Ended("refused")
        \/ \E pc \in {"selected", "passed"} : reader'[p] = Concludes(p, pc)
    BY <1>1, <1>7 DEF Select
  <2>2. \A pc \in {"selected", "passed"} :
           /\ Concludes(p, pc).from = {} /\ Concludes(p, pc).listed = {}
           /\ Concludes(p, pc).read = reader[p].read /\ Concludes(p, pc).pc = pc
    BY <1>1 DEF Concludes, Local
  <2> QED
    BY <2>1, <2>2
<1>8. CASE StageOutputs(p) \/ HashFile(p) \/ WriteChecksums(p) \/ CaptureFile(p)
  BY <1>1, <1>8 DEF StageOutputs, HashFile, WriteChecksums, CaptureFile, Local
<1>9. CASE SyncAndCapture(p) \/ PublishOutputs(p) \/ ReadBack(p) \/ Return(p)
  BY <1>1, <1>9 DEF SyncAndCapture, PublishOutputs, ReadBack, Return, Local
<1>10. CASE TakeBack(p) \/ PublishRaises(p) \/ Again(p) \/ Crash(p)
  BY <1>1, <1>10 DEF TakeBack, PublishRaises, Again, Crash
<1>11. CASE \E f \in File : TouchStaged(p, f)
  BY <1>1, <1>11 DEF TouchStaged, Local
<1> QED
  BY <1>2, <1>3, <1>4, <1>5, <1>6, <1>7, <1>8, <1>9, <1>10, <1>11 DEF ReaderStep

LEMMA ReadStep ==
  ASSUME AnalysisIInv, [AnalysisNext]_analysisVars
  PROVE  Read'
<1>1. AnalysisTypeOK /\ Read
  BY DEF AnalysisIInv
<1>2. /\ Ever \subseteq Ever' /\ withdrawn \subseteq withdrawn'
      /\ Entries \subseteq Ever \cup {Litter} /\ Visible \subseteq Ever
  BY <1>1, EverGrows, EverTypes
<1>3. ASSUME NEW q \in Reader, reader'[q] = reader[q]
      PROVE  /\ reader'[q].from \cup reader'[q].listed \subseteq Ever' \cup {Litter}
             /\ reader'[q].read \subseteq Ever'
             /\ reader'[q].pc \in {"reading", "read"} =>
                   reader'[q].from \ (withdrawn' \cup {Litter}) \subseteq reader'[q].listed
             /\ reader'[q].pc = "read" => reader'[q].read = reader'[q].listed
  BY <1>1, <1>2, <1>3 DEF Read
<1>4. ASSUME NEW p \in Reader, ReaderStep(p)
      PROVE  /\ reader'[p].from \cup reader'[p].listed \subseteq Ever' \cup {Litter}
             /\ reader'[p].read \subseteq Ever'
             /\ reader'[p].pc \in {"reading", "read"} =>
                   reader'[p].from \ (withdrawn' \cup {Litter}) \subseteq reader'[p].listed
             /\ reader'[p].pc = "read" => reader'[p].read = reader'[p].listed
  <2>1. CASE reader'[p] = Blank
    BY <2>1 DEF Blank
  <2>2. CASE /\ reader'[p].pc = "listing" /\ reader'[p].from = Entries
             /\ reader'[p].listed = {} /\ reader'[p].read = {}
    BY <1>2, <2>2
  <2>3. CASE Scanned(p)
    BY <1>1, <1>2, <2>3 DEF Scanned, Read
  <2>4. CASE ReadOne(p)
    BY <1>1, <1>2, <2>4 DEF ReadOne, Read
  <2>5. CASE Kept(p) /\ reader'[p].pc = "reading" /\ reader[p].from \cap Entries \subseteq reader[p].listed
    <3>1. Ever \ withdrawn \subseteq Entries
      BY DEF Ever, Entries
    <3> QED
      BY <1>1, <1>2, <2>5, <3>1 DEF Kept, Read
  <2>6. CASE /\ Kept(p) /\ reader[p].pc = "reading" /\ reader'[p].pc = "read"
             /\ reader[p].listed = reader[p].read
    BY <1>1, <1>2, <2>6 DEF Kept, Read
  <2>7. CASE /\ reader'[p].read = reader[p].read /\ reader'[p].pc \notin {"reading", "read"}
             /\ \/ reader'[p].from = {} /\ reader'[p].listed = {}
                \/ reader'[p].from = reader[p].from /\ reader'[p].listed = reader[p].listed
    BY <1>1, <1>2, <2>7 DEF Read
  <2>8. CASE \E pc \in {"refused", "returned"} : reader'[p] = Ended(pc)
    BY <2>8, BlankLocal DEF PC
  <2> QED
    BY <1>1, <1>4, <2>1, <2>2, <2>3, <2>4, <2>5, <2>6, <2>7, <2>8, Reading
<1>5. CASE UNCHANGED reader
  BY <1>3, <1>5 DEF Read
<1>6. ASSUME NEW p \in Reader, ReaderStep(p) PROVE Read'
  <2>1. \A q \in Reader \ {p} : reader'[q] = reader[q]
    BY <1>1, <1>6, ReaderKeeps
  <2> QED
    BY <1>3, <1>4, <1>6, <2>1 DEF Read
<1> QED
  BY <1>5, <1>6, Steps, CampaignKeeps, OthersKeep DEF analysisVars

-----------------------------------------------------------------------------
(***************************************************************************)
(* What a reader concludes and writes.                                     *)
(***************************************************************************)
LEMMA Concluding ==
  ASSUME AnalysisTypeOK, NEW p \in Reader, ReaderStep(p)
  PROVE  \/ reader'[p].pc \notin Writing \cup {"passed"}
         \/ reader[p].pc \in Writing /\ reader'[p].pc \in Writing /\ reader'[p].read = reader[p].read
         \/ /\ Selectable(reader[p].read) /\ reader'[p].read = reader[p].read
            /\ reader'[p].pc \in {"selected", "passed"}
         \/ /\ ChainsValid(reader[p].read) /\ reader'[p].read = reader[p].read
            /\ reader'[p].pc = "passed" /\ reader'[p].mode = "validate"
<1>1. reader \in [Reader -> Local] /\ reader[p] \in Local
  BY DEF AnalysisTypeOK
<1> USE DEF Writing, At
<1>2. CASE Start(p)
  BY <1>1, <1>2 DEF Start, Blank
<1>22. CASE Scan(p)
  BY <1>1, <1>22 DEF Scan, Local
<1>0. Ended("refused").pc = "refused" /\ Ended("returned").pc = "returned"
  BY BlankLocal DEF PC
<1>3. CASE ScanEnds(p) \/ ReadBundle(p) \/ AllRead(p)
  BY <1>0, <1>1, <1>3 DEF ScanEnds, ReadBundle, AllRead, Local
<1>4. CASE Select(p)
  <2>1. \A pc \in {"selected", "passed"} :
           /\ Concludes(p, pc).pc = pc /\ Concludes(p, pc).mode = reader[p].mode
           /\ Concludes(p, pc).read = reader[p].read
    BY <1>1 DEF Concludes, Local
  <2>2. CASE /\ Selectable(reader[p].read)
             /\ \E pc \in {"selected", "passed"} : reader'[p] = Concludes(p, pc)
    BY <2>1, <2>2
  <2>3. CASE /\ reader[p].mode = "validate" /\ ChainsValid(reader[p].read)
             /\ reader'[p] = Concludes(p, "passed")
    BY <2>1, <2>3
  <2>4. CASE reader'[p] = Ended("refused")
    BY <1>0, <2>4
  <2> QED
    BY <1>1, <1>4, <2>2, <2>3, <2>4 DEF Select
<1>8. CASE StageOutputs(p) \/ HashFile(p) \/ WriteChecksums(p) \/ CaptureFile(p)
  BY <1>1, <1>8 DEF StageOutputs, HashFile, WriteChecksums, CaptureFile, Local
<1>9. CASE SyncAndCapture(p) \/ PublishOutputs(p) \/ ReadBack(p) \/ Return(p)
  BY <1>0, <1>1, <1>9 DEF SyncAndCapture, PublishOutputs, ReadBack, Return, Local
<1>10. CASE TakeBack(p) \/ PublishRaises(p) \/ Again(p) \/ Crash(p)
  BY <1>0, <1>1, <1>10 DEF TakeBack, PublishRaises, Again, Crash, Blank
<1>11. CASE \E f \in File : TouchStaged(p, f)
  BY <1>1, <1>11 DEF TouchStaged, Local
<1> QED
  BY <1>2, <1>22, <1>3, <1>4, <1>8, <1>9, <1>10, <1>11 DEF ReaderStep

LEMMA ConcludedStep ==
  ASSUME AnalysisIInv, [AnalysisNext]_analysisVars
  PROVE  Concluded'
<1>1. AnalysisTypeOK /\ Concluded
  BY DEF AnalysisIInv
<1>2. ASSUME NEW q \in Reader, reader'[q] = reader[q]
      PROVE  /\ reader'[q].pc \in Writing => Selectable(reader'[q].read)
             /\ reader'[q].pc = "passed" => ChainsValid(reader'[q].read)
             /\ reader'[q].pc = "passed" /\ reader'[q].mode = "validate complete" =>
                   Selectable(reader'[q].read)
  BY <1>1, <1>2 DEF Concluded
<1>3. ASSUME NEW p \in Reader, ReaderStep(p)
      PROVE  /\ reader'[p].pc \in Writing => Selectable(reader'[p].read)
             /\ reader'[p].pc = "passed" => ChainsValid(reader'[p].read)
             /\ reader'[p].pc = "passed" /\ reader'[p].mode = "validate complete" =>
                   Selectable(reader'[p].read)
  <2>1. CASE reader'[p].pc \notin Writing \cup {"passed"}
    BY <2>1
  <2>2. CASE reader[p].pc \in Writing /\ reader'[p].pc \in Writing /\ reader'[p].read = reader[p].read
    BY <1>1, <2>2 DEF Concluded, Writing
  <2>3. CASE /\ Selectable(reader[p].read) /\ reader'[p].read = reader[p].read
             /\ reader'[p].pc \in {"selected", "passed"}
    <3>1. ChainsValid(reader[p].read)
      BY <2>3 DEF Selectable
    <3> QED
      BY <2>3, <3>1
  <2>4. CASE /\ ChainsValid(reader[p].read) /\ reader'[p].read = reader[p].read
             /\ reader'[p].pc = "passed" /\ reader'[p].mode = "validate"
    BY <2>4 DEF Writing
  <2> QED
    BY <1>1, <1>3, <2>1, <2>2, <2>3, <2>4, Concluding
<1>4. ASSUME \A q \in Reader : reader'[q] = reader[q] \/ ReaderStep(q) PROVE Concluded'
  <2> SUFFICES ASSUME NEW q \in Reader
               PROVE  /\ reader'[q].pc \in Writing => Selectable(reader'[q].read)
                      /\ reader'[q].pc = "passed" => ChainsValid(reader'[q].read)
                      /\ reader'[q].pc = "passed" /\ reader'[q].mode = "validate complete" =>
                            Selectable(reader'[q].read)
    BY DEF Concluded, Writing, Selectable, ChainsValid, ValidChain, HasComplete, Records
  <2> QED
    BY <1>2, <1>3, <1>4
<1>5. ASSUME NEW p \in Reader, ReaderStep(p) PROVE \A q \in Reader : reader'[q] = reader[q] \/ ReaderStep(q)
  BY <1>1, <1>5, ReaderKeeps
<1> QED
  BY <1>4, <1>5, Steps, CampaignKeeps, OthersKeep DEF analysisVars

\* What a step of a reader does to the processed root, and to what has been
\* returned.
Unwritten(p) == UNCHANGED <<processed, returned>> /\ reader'[p].pc # "moved"
Handed(p) ==
    /\ At(p, "moved") /\ reader[p].next \notin File /\ UNCHANGED processed
    /\ returned' = returned \cup {[by |-> p, sources |-> reader[p].read]}
    /\ reader'[p].pc = "returned"
Emptied(p) ==
    At(p, "moved") /\ processed' = {} /\ UNCHANGED returned /\ reader'[p].pc = "refused"
NameGiven(p) ==
    /\ At(p, "captured") /\ processed = {} /\ processed' = {Output(p)} /\ UNCHANGED returned
    /\ \/ reader'[p].pc = "refused"
       \/ /\ reader'[p].pc = "moved" /\ reader'[p].next = 0
          /\ reader'[p].read = reader[p].read /\ reader'[p].snapshot = reader[p].snapshot
Reread(p) ==
    /\ At(p, "moved") /\ UNCHANGED returned /\ reader'[p].pc = "moved"
    /\ reader'[p].next = reader[p].next + 1
    /\ reader'[p].read = reader[p].read /\ reader'[p].snapshot = reader[p].snapshot
    /\ \E d \in processed, f \in File :
          /\ f = reader[p].next /\ d.tree[f] = reader[p].snapshot[f]
          /\ processed' = {[d EXCEPT !.late = @ \ {f}]}

LEMMA ReaderWrites ==
  ASSUME AnalysisTypeOK, NEW p \in Reader, ReaderStep(p)
  PROVE  Unwritten(p) \/ Handed(p) \/ Emptied(p) \/ NameGiven(p) \/ Reread(p)
<1>1. reader \in [Reader -> Local] /\ reader[p] \in Local
  BY DEF AnalysisTypeOK
<1>0. Ended("refused").pc = "refused" /\ Ended("returned").pc = "returned"
  BY BlankLocal DEF PC
<1> USE DEF At
<1>2. CASE Start(p) \/ Scan(p)
  BY <1>1, <1>2 DEF Start, Scan, Blank, Local, Unwritten
<1>3. CASE ScanEnds(p) \/ ReadBundle(p) \/ AllRead(p)
  BY <1>0, <1>1, <1>3 DEF ScanEnds, ReadBundle, AllRead, Local, Unwritten
<1>4. CASE Select(p)
  <2>1. \A pc \in {"selected", "passed"} : Concludes(p, pc).pc = pc
    BY <1>1 DEF Concludes, Local
  <2>2. \/ reader'[p] = Ended("refused")
        \/ \E pc \in {"selected", "passed"} : reader'[p] = Concludes(p, pc)
    BY <1>1, <1>4 DEF Select
  <2>3. UNCHANGED <<processed, returned>>
    BY <1>4 DEF Select
  <2> QED
    BY <1>0, <2>1, <2>2, <2>3 DEF Unwritten
<1>5. CASE StageOutputs(p) \/ HashFile(p) \/ WriteChecksums(p) \/ CaptureFile(p)
  BY <1>1, <1>5 DEF StageOutputs, HashFile, WriteChecksums, CaptureFile, Local, Unwritten
<1>6. CASE SyncAndCapture(p)
  BY <1>0, <1>1, <1>6 DEF SyncAndCapture, Local, Unwritten
<1>7. CASE PublishOutputs(p)
  BY <1>1, <1>7 DEF PublishOutputs, Local, NameGiven, Sums
<1>8. CASE ReadBack(p)
  BY <1>1, <1>8 DEF ReadBack, Local, Reread
<1>9. CASE Return(p)
  BY <1>0, <1>1, <1>9 DEF Return, Handed
<1>10. CASE TakeBack(p)
  BY <1>0, <1>1, <1>10 DEF TakeBack, Emptied, Unwritten
<1>11. CASE PublishRaises(p)
  BY <1>0, <1>1, <1>11 DEF PublishRaises, NameGiven, Unwritten
<1>12. CASE \E f \in File : TouchStaged(p, f)
  BY <1>1, <1>12 DEF TouchStaged, Local, Unwritten
<1>13. CASE Again(p) \/ Crash(p)
  BY <1>1, <1>13 DEF Again, Crash, Blank, Unwritten
<1> QED
  BY <1>2, <1>3, <1>4, <1>5, <1>6, <1>7, <1>8, <1>9, <1>10, <1>11, <1>12, <1>13 DEF ReaderStep

\* The snapshot that the published tree is compared with is the one that
\* SHA256SUMS describes.
LEMMA SnapshotStep ==
  ASSUME AnalysisTypeOK, NEW p \in Reader, ReaderStep(p),
         reader[p].pc = "captured" => reader[p].snapshot = reader[p].sums
  PROVE  reader'[p].pc = "captured" => reader'[p].snapshot = reader'[p].sums
<1>1. reader \in [Reader -> Local] /\ reader[p] \in Local
  BY DEF AnalysisTypeOK
<1>0. Ended("refused").pc = "refused" /\ Ended("returned").pc = "returned"
  BY BlankLocal DEF PC
<1> USE DEF At
<1>2. CASE Start(p)
  BY <1>1, <1>2 DEF Start, Blank
<1>22. CASE Scan(p)
  BY <1>1, <1>22 DEF Scan, Local
<1>3. CASE ScanEnds(p) \/ ReadBundle(p) \/ AllRead(p)
  BY <1>0, <1>1, <1>3 DEF ScanEnds, ReadBundle, AllRead, Local
<1>4. CASE Select(p)
  <2>1. \A pc \in {"selected", "passed"} : Concludes(p, pc).pc = pc
    BY <1>1 DEF Concludes, Local
  <2>2. \/ reader'[p] = Ended("refused")
        \/ \E pc \in {"selected", "passed"} : reader'[p] = Concludes(p, pc)
    BY <1>1, <1>4 DEF Select
  <2> QED
    BY <1>0, <2>1, <2>2
<1>5. CASE StageOutputs(p) \/ HashFile(p) \/ WriteChecksums(p) \/ CaptureFile(p)
  BY <1>1, <1>5 DEF StageOutputs, HashFile, WriteChecksums, CaptureFile, Local
<1>6. CASE SyncAndCapture(p)
  BY <1>0, <1>1, <1>6 DEF SyncAndCapture, Local
<1>7. CASE PublishOutputs(p) \/ ReadBack(p) \/ Return(p) \/ TakeBack(p) \/ PublishRaises(p)
  BY <1>0, <1>1, <1>7 DEF PublishOutputs, ReadBack, Return, TakeBack, PublishRaises, Local
<1>8. CASE \E f \in File : TouchStaged(p, f)
  <2>1. PICK f \in File : TouchStaged(p, f)
    BY <1>8
  <2>2. /\ reader'[p].pc = reader[p].pc /\ reader'[p].sums = reader[p].sums
        /\ reader'[p].snapshot = reader[p].snapshot
    BY <1>1, <2>1 DEF TouchStaged, Local
  <2> QED
    BY <2>2
<1>9. CASE Again(p) \/ Crash(p)
  BY <1>1, <1>9 DEF Again, Crash, Blank
<1> QED
  BY <1>2, <1>22, <1>3, <1>4, <1>5, <1>6, <1>7, <1>8, <1>9 DEF ReaderStep

\* What p has selected is a dataset that has been in the raw root.
LEMMA OutputOK ==
  ASSUME AnalysisIInv, NEW p \in Reader, At(p, "captured")
  PROVE  /\ Output(p).sources \subseteq Ever /\ Selectable(Output(p).sources)
         /\ Output(p).by = p /\ Output(p).sources = reader[p].read
         /\ Output(p).sums = reader[p].snapshot
<1>1. reader[p].read \subseteq Ever /\ Selectable(reader[p].read) /\ reader[p].snapshot = reader[p].sums
  BY DEF AnalysisIInv, Read, Concluded, PublishedData, Writing, At
<1> QED
  BY <1>1 DEF Output

\* The datasets of the processed root.
Genuine(d) == d.sources \subseteq Ever /\ Selectable(d.sources) /\ (d.by = Rival => Fits(d))

\* A reader that has moved its dataset stays the owner of what has its name.
LEMMA OwnsKept ==
  ASSUME NEW q \in Reader, NEW d, NEW e, Owns(q, d), e.by = d.by, e.sources = d.sources, e.sums = d.sums,
         reader'[q].read = reader[q].read, reader'[q].snapshot = reader[q].snapshot,
         \A f \in File : f < reader'[q].next => e.tree[f] = d.sums[f] \/ f \in e.late
  PROVE  Owns(q, e)'
BY DEF Owns, File, Sums

LEMMA ReaderPublishes ==
  ASSUME AnalysisIInv, NEW p \in Reader, ReaderStep(p)
  PROVE  /\ Single(processed') /\ ReturnedIntact'
         /\ \A d \in processed' : Genuine(d)
         /\ \A q \in Reader \ {p} : At(q, "moved") => UNCHANGED <<processed, returned>>
         /\ reader'[p].pc = "moved" => returned' = {} /\ \E d \in processed' : Owns(p, d)'
<1>1. /\ AnalysisTypeOK /\ ReturnedIntact /\ Single(processed) /\ \A d \in processed : Genuine(d)
      /\ At(p, "moved") => returned = {} /\ \E d \in processed : Owns(p, d)
  BY DEF AnalysisIInv, PublishedData, At, Genuine
<1>2. ASSUME NEW q \in Reader \ {p}, At(q, "moved") PROVE ~ At(p, "moved") /\ processed # {}
  <2>1. PICK d \in processed : Owns(q, d)
    BY <1>2 DEF AnalysisIInv, PublishedData, At
  <2>2. d.by = q /\ q # p
    BY <2>1 DEF Owns
  <2>3. ASSUME NEW e \in processed PROVE e = d
    BY <1>1 DEF Single
  <2> QED
    BY <1>1, <2>2, <2>3 DEF Owns
<1>3. CASE Unwritten(p)
  BY <1>1, <1>3 DEF Unwritten, ReturnedIntact, Single, Genuine, File, Sums
<1>4. CASE Handed(p)
  <2>1. PICK d \in processed : Owns(p, d)
    BY <1>1, <1>4 DEF Handed
  <2>2. \A f \in File : f < reader[p].next
    <3>1. reader[p].next \in 0 .. FileCount + 1 /\ reader[p].next \notin File
      BY <1>1, <1>4, LocalFields DEF Handed, AnalysisTypeOK
    <3> QED
      BY <3>1, TreeFacts DEF File, Sums
  <2>3. /\ d.by = p /\ d.sources = reader[p].read
        /\ \A f \in File : d.tree[f] = d.sums[f] \/ f \in d.late
    BY <2>1, <2>2 DEF Owns
  <2>4. returned' = {[by |-> p, sources |-> reader[p].read]} /\ UNCHANGED processed
    BY <1>1, <1>4 DEF Handed
  <2>5. ReturnedIntact'
    BY <2>3, <2>4 DEF ReturnedIntact, File, Sums
  <2> QED
    BY <1>1, <1>2, <1>4, <2>4, <2>5 DEF Handed, Single
<1>5. CASE Emptied(p)
  <2>1. processed' = {} /\ returned' = {} /\ reader'[p].pc = "refused"
    BY <1>1, <1>5 DEF Emptied
  <2>2. ReturnedIntact' /\ Single(processed')
    BY <2>1 DEF ReturnedIntact, Single
  <2> QED
    BY <1>2, <1>5, <2>1, <2>2 DEF Emptied
<1>6. CASE NameGiven(p)
  <2>1. processed = {} /\ processed' = {Output(p)} /\ returned' = {}
    BY <1>1, <1>6 DEF NameGiven, ReturnedIntact
  <2>0. PICK o : o = Output(p)
    OBVIOUS
  <2>2. /\ Genuine(o) /\ o.by = p /\ o.sources = reader[p].read /\ o.sums = reader[p].snapshot
    BY <1>6, <2>0, OutputOK, RivalAssumption DEF NameGiven, Genuine
  <2>3. ReturnedIntact' /\ Single(processed')
    BY <2>1 DEF ReturnedIntact, Single
  <2>4. ASSUME reader'[p].pc = "moved" PROVE Owns(p, o)'
    <3>1. /\ reader'[p].next = 0 /\ reader'[p].read = reader[p].read
          /\ reader'[p].snapshot = reader[p].snapshot
      BY <1>6, <2>4 DEF NameGiven
    <3>2. \A d : d.by = p /\ d.sources = reader[p].read /\ d.sums = reader[p].snapshot => Owns(p, d)'
      BY <3>1, TreeFacts DEF Owns, File, Sums
    <3> QED
      BY <2>2, <3>2
  <2> QED
    BY <1>2, <2>0, <2>1, <2>2, <2>3, <2>4
<1>7. CASE Reread(p)
  <2>1. PICK d \in processed, f \in File :
           /\ f = reader[p].next /\ d.tree[f] = reader[p].snapshot[f]
           /\ processed' = {[d EXCEPT !.late = @ \ {f}]}
    BY <1>7 DEF Reread
  <2> DEFINE e == [d EXCEPT !.late = @ \ {f}]
  <2>2. d \in Dataset
    BY <1>1 DEF AnalysisTypeOK
  <2>3. /\ e.by = d.by /\ e.sources = d.sources /\ e.sums = d.sums /\ e.tree = d.tree
        /\ e.late = d.late \ {f}
    BY <2>2 DEF Dataset
  <2>4. processed' = {e}
    BY <2>1
  <2> HIDE DEF e
  <2>5. Owns(p, d)
    <3>1. PICK x \in processed : Owns(p, x)
      BY <1>1, <1>7 DEF Reread
    <3>2. x = d
      BY <1>1 DEF Single
    <3> QED
      BY <3>1, <3>2
  <2>6. Owns(p, e)'
    <3>1. reader'[p].next = f + 1 /\ reader'[p].read = reader[p].read
          /\ reader'[p].snapshot = reader[p].snapshot
      BY <1>7, <2>1 DEF Reread
    <3>2. ASSUME NEW g \in File, g < f + 1 PROVE e.tree[g] = d.sums[g] \/ g \in e.late
      <4>1. CASE g = f
        BY <2>1, <2>3, <2>5, <4>1 DEF Owns
      <4>2. CASE g # f
        <5>1. g < reader[p].next
          BY <2>1, <3>2, <4>2, TreeFacts
        <5> QED
          BY <2>3, <2>5, <4>2, <5>1 DEF Owns
      <4> QED
        BY <4>1, <4>2
    <3> QED
      BY <2>3, <2>5, <3>1, <3>2, OwnsKept
  <2>7. returned' = {} /\ reader'[p].pc = "moved" /\ At(p, "moved")
    BY <1>1, <1>7 DEF Reread
  <2>8. ReturnedIntact' /\ Single(processed')
    BY <2>4, <2>7 DEF ReturnedIntact, Single
  <2>9. Genuine(e)
    <3>1. d.by # Rival
      BY <2>5, RivalAssumption DEF Owns
    <3> QED
      BY <1>1, <2>3, <3>1 DEF Genuine
  <2> QED
    BY <1>2, <2>4, <2>6, <2>7, <2>8, <2>9
<1> QED
  BY <1>1, <1>3, <1>4, <1>5, <1>6, <1>7, ReaderWrites

\* Other analyses, and whoever writes into the published tree.
LEMMA OthersPublish ==
  ASSUME AnalysisIInv, OtherStep
  PROVE  /\ Single(processed') /\ ReturnedIntact'
         /\ \A d \in processed' : Genuine(d)
         /\ \A q \in Reader : At(q, "moved") => returned' = {} /\ \E d \in processed' : Owns(q, d)'
<1>1. /\ AnalysisTypeOK /\ ReturnedIntact /\ Single(processed) /\ \A d \in processed : Genuine(d)
      /\ \A q \in Reader : At(q, "moved") => returned = {} /\ \E d \in processed : Owns(q, d)
      /\ UNCHANGED <<campaign, reader>>
  BY OthersKeep DEF AnalysisIInv, PublishedData, Genuine, At
<1>2. ASSUME NEW q \in Reader, At(q, "moved") PROVE processed # {} /\ \A d \in processed : d.by # Rival
  <2>1. PICK d \in processed : Owns(q, d)
    BY <1>1, <1>2
  <2>2. d.by # Rival
    BY <2>1, RivalAssumption DEF Owns
  <2>3. ASSUME NEW e \in processed PROVE e = d
    BY <1>1 DEF Single
  <2> QED
    BY <2>2, <2>3
<1>3. ASSUME UNCHANGED <<processed, returned>> PROVE \A q \in Reader : At(q, "moved") => returned' = {} /\ \E d \in processed' : Owns(q, d)'
  BY <1>1, <1>3 DEF Owns, File, Sums
<1>4. CASE RivalMoves
  <2>1. processed = {} /\ processed' = {RivalDataset} /\ returned' = {} /\ Selectable(settled)
    BY <1>1, <1>4 DEF RivalMoves, ReturnedIntact
  <2>2. Genuine(RivalDataset)
    BY <2>1 DEF RivalDataset, Genuine, Ever, Visible, Fits
  <2>3. ReturnedIntact' /\ Single(processed')
    BY <2>1 DEF ReturnedIntact, Single
  <2> QED
    BY <1>2, <2>1, <2>2, <2>3
<1>5. CASE RivalReturns
  <2>1. PICK d \in processed :
           d.by = Rival /\ returned' = returned \cup {[by |-> Rival, sources |-> d.sources]}
    BY <1>5 DEF RivalReturns
  <2>2. UNCHANGED processed
    BY <1>5 DEF RivalReturns
  <2>3. \A q \in Reader : ~ At(q, "moved")
    BY <1>2, <2>1
  <2>4. \A f \in File : d.tree[f] = d.sums[f] \/ f \in d.late
    BY <1>1, <2>1 DEF Genuine, Fits
  <2>5. ReturnedIntact'
    BY <1>1, <2>1, <2>2, <2>4 DEF ReturnedIntact, File, Sums
  <2> QED
    BY <1>1, <2>2, <2>3, <2>5 DEF Single
<1>6. CASE RivalTakesBack
  <2>1. PICK d \in processed : d.by = Rival /\ [by |-> Rival, sources |-> d.sources] \notin returned
    BY <1>6 DEF RivalTakesBack
  <2>2. processed' = {} /\ returned' = returned
    BY <1>6 DEF RivalTakesBack
  <2>3. returned = {}
    <3> SUFFICES ASSUME NEW r \in returned PROVE FALSE
      OBVIOUS
    <3>1. PICK e \in processed : e.by = r.by /\ e.sources = r.sources
      BY <1>1 DEF ReturnedIntact
    <3>2. e = d
      BY <1>1 DEF Single
    <3>3. r = [by |-> Rival, sources |-> d.sources]
      BY <1>1, <2>1, <3>1, <3>2 DEF AnalysisTypeOK
    <3> QED
      BY <2>1, <3>3
  <2>4. ReturnedIntact' /\ Single(processed')
    BY <2>2, <2>3 DEF ReturnedIntact, Single
  <2> QED
    BY <1>2, <2>1, <2>2, <2>4
<1>7. ASSUME NEW f \in File, TouchProcessed(f)
      PROVE  /\ Single(processed') /\ ReturnedIntact'
             /\ \A d \in processed' : Genuine(d)
             /\ \A q \in Reader : At(q, "moved") => returned' = {} /\ \E d \in processed' : Owns(q, d)'
  <2>1. PICK d \in processed :
           processed' = {[d EXCEPT !.tree[f] = @ + 1, !.late = @ \cup {f}]}
    BY <1>7 DEF TouchProcessed
  <2>2. d \in Dataset
    BY <1>1 DEF AnalysisTypeOK
  <2> DEFINE t == [d.tree EXCEPT ![f] = d.tree[f] + 1]
             e == [d EXCEPT !.tree = t, !.late = d.late \cup {f}]
  <2>3. processed' = {e} /\ returned' = returned
    BY <1>7, <2>1 DEF TouchProcessed
  <2>4. /\ e.by = d.by /\ e.sources = d.sources /\ e.sums = d.sums
        /\ e.tree = t /\ e.late = d.late \cup {f}
    <3> HIDE DEF t
    <3> QED
      BY <2>2 DEF Dataset
  <2>5. \A g \in File : g # f => t[g] = d.tree[g]
    BY <2>2 DEF Dataset, Tree
  <2> HIDE DEF t, e
  <2>6. \A g \in File : d.tree[g] = d.sums[g] \/ g \in d.late => e.tree[g] = e.sums[g] \/ g \in e.late
    BY <2>4, <2>5
  <2>7. ReturnedIntact'
    <3> SUFFICES ASSUME NEW r \in returned PROVE
                 e.by = r.by /\ e.sources = r.sources /\ \A g \in File : e.tree[g] = e.sums[g] \/ g \in e.late
      BY <2>3 DEF ReturnedIntact, File, Sums
    <3>1. PICK x \in processed : /\ x.by = r.by /\ x.sources = r.sources
                                 /\ \A g \in File : x.tree[g] = x.sums[g] \/ g \in x.late
      BY <1>1 DEF ReturnedIntact
    <3>2. x = d
      BY <1>1 DEF Single
    <3> QED
      BY <2>4, <2>6, <3>1, <3>2
  <2>8. ASSUME NEW q \in Reader, At(q, "moved") PROVE returned' = {} /\ Owns(q, e)'
    <3>1. PICK x \in processed : Owns(q, x)
      BY <1>1, <2>8
    <3>2. x = d
      BY <1>1 DEF Single
    <3>3. Owns(q, d)
      BY <3>1, <3>2
    <3>4. \A g \in File : g < reader'[q].next => e.tree[g] = d.sums[g] \/ g \in e.late
      BY <1>1, <2>4, <2>6, <3>3 DEF Owns
    <3> QED
      BY <1>1, <2>3, <2>4, <2>8, <3>3, <3>4, OwnsKept
  <2>9. Genuine(e) /\ Single(processed')
    BY <1>1, <2>3, <2>4, <2>6 DEF Genuine, Single, Fits
  <2> QED
    BY <2>3, <2>7, <2>8, <2>9
<1> QED
  BY <1>4, <1>5, <1>6, <1>7 DEF OtherStep

LEMMA PublishedStep ==
  ASSUME AnalysisIInv, [AnalysisNext]_analysisVars
  PROVE  PublishedData' /\ ReturnedIntact'
<1>1. /\ AnalysisTypeOK /\ ReturnedIntact /\ Single(processed) /\ \A d \in processed : Genuine(d)
      /\ \A q \in Reader : reader[q].pc = "captured" => reader[q].snapshot = reader[q].sums
      /\ \A q \in Reader : At(q, "moved") => returned = {} /\ \E d \in processed : Owns(q, d)
  BY DEF AnalysisIInv, PublishedData, Genuine, At
<1>2. Ever \subseteq Ever'
  BY <1>1, EverGrows
<1>3. ASSUME NEW q \in Reader, reader'[q] = reader[q],
             At(q, "moved") => UNCHANGED <<processed, returned>>
      PROVE  reader'[q].pc = "moved" => returned' = {} /\ \E d \in processed' : Owns(q, d)'
  BY <1>1, <1>3 DEF At, Owns, File, Sums
<1>4. ASSUME Single(processed'), \A d \in processed' : Genuine(d),
             \A q \in Reader : reader'[q].pc = "captured" => reader'[q].snapshot = reader'[q].sums,
             \A q \in Reader : reader'[q].pc = "moved" => returned' = {} /\ \E d \in processed' : Owns(q, d)'
      PROVE  PublishedData'
  <2>1. \A d \in processed' : d.sources \subseteq Ever' /\ Selectable(d.sources) /\ (d.by = Rival => Fits(d))
    BY <1>2, <1>4 DEF Genuine
  <2> QED
    BY <1>4, <2>1 DEF PublishedData, Fits, File, Sums, Selectable, ChainsValid, ValidChain, HasComplete, Records
<1>5. ASSUME NEW p \in Reader, ReaderStep(p) PROVE PublishedData' /\ ReturnedIntact'
  <2>1. /\ Single(processed') /\ ReturnedIntact'
        /\ \A d \in processed' : Genuine(d)
        /\ \A q \in Reader \ {p} : At(q, "moved") => UNCHANGED <<processed, returned>>
        /\ reader'[p].pc = "moved" => returned' = {} /\ \E d \in processed' : Owns(p, d)'
    BY <1>5, ReaderPublishes
  <2>2. reader'[p].pc = "captured" => reader'[p].snapshot = reader'[p].sums
    BY <1>1, <1>5, SnapshotStep
  <2>3. \A q \in Reader \ {p} : reader'[q] = reader[q]
    BY <1>1, <1>5, ReaderKeeps
  <2>4. \A q \in Reader : reader'[q].pc = "captured" => reader'[q].snapshot = reader'[q].sums
    BY <1>1, <2>2, <2>3
  <2>5. \A q \in Reader : reader'[q].pc = "moved" => returned' = {} /\ \E d \in processed' : Owns(q, d)'
    BY <1>3, <2>1, <2>3
  <2> QED
    BY <1>4, <2>1, <2>4, <2>5
<1>6. CASE OtherStep
  <2>1. UNCHANGED reader
    BY <1>6, OthersKeep
  <2>2. /\ Single(processed') /\ ReturnedIntact' /\ \A d \in processed' : Genuine(d)
        /\ \A q \in Reader : At(q, "moved") => returned' = {} /\ \E d \in processed' : Owns(q, d)'
    BY <1>6, OthersPublish
  <2> QED
    BY <1>1, <1>4, <2>1, <2>2 DEF At
<1>7. CASE UNCHANGED <<reader, processed, returned>>
  <2>1. ReturnedIntact'
    BY <1>1, <1>7 DEF ReturnedIntact, File, Sums
  <2>2. \A q \in Reader : reader'[q].pc = "moved" => returned' = {} /\ \E d \in processed' : Owns(q, d)'
    BY <1>3, <1>7
  <2> QED
    BY <1>1, <1>4, <1>7, <2>1, <2>2
<1> QED
  BY <1>5, <1>6, <1>7, Steps, CampaignKeeps DEF analysisVars

-----------------------------------------------------------------------------
(***************************************************************************)
(* The theorems.                                                           *)
(***************************************************************************)
LEMMA InitAnalysisIInv == AnalysisInit => AnalysisIInv
<1> SUFFICES ASSUME AnalysisInit PROVE AnalysisIInv
  OBVIOUS
<1> USE DEF AnalysisInit
<1>1. Blank \in Local
  BY BlankLocal
<1>2. AnalysisTypeOK
  <2>1. Cardinality(passing) = 0 /\ Cardinality(withdrawn) = 0 /\ Cardinality(processed) = 0
    BY FS_EmptySet
  <2>2. reader \in [Reader -> Local] /\ returned = {}
    BY <1>1
  <2>3. 0 <= 1 /\ 0 <= MaxWithdrawn
    BY BoundAssumption
  <2>4. settled = {} /\ passing = {} /\ withdrawn = {} /\ processed = {} /\ litter \in BOOLEAN
    OBVIOUS
  <2> HIDE DEF AnalysisInit
  <2> QED
    BY <2>1, <2>2, <2>3, <2>4 DEF AnalysisTypeOK
<1>3. Chains
  <2>1. ASSUME NEW c PROVE Records(settled, c) = {}
    BY DEF Records
  <2>2. {a.number : a \in {}} = 1 .. Cardinality({})
    BY FS_EmptySet
  <2>3. IsFiniteSet({})
    BY FS_EmptySet
  <2> QED
    BY <2>1, <2>2, <2>3 DEF Chains, Single
<1>4. Read /\ Concluded /\ PublishedData /\ ReturnedIntact
  BY DEF Read, Concluded, PublishedData, ReturnedIntact, Blank, Writing, Single
<1> QED
  BY <1>2, <1>3, <1>4 DEF AnalysisIInv

\* The invariant of readers, writers and the campaign.
THEOREM DatasetInvariant == AnalysisSpec => []AnalysisIInv
<1>1. AnalysisIInv /\ [AnalysisNext]_analysisVars => AnalysisIInv'
  <2> SUFFICES ASSUME AnalysisIInv, [AnalysisNext]_analysisVars PROVE AnalysisIInv'
    OBVIOUS
  <2> QED
    BY TypesStep, ChainsStep, ReadStep, ConcludedStep, PublishedStep DEF AnalysisIInv
<1> QED
  BY <1>1, InitAnalysisIInv, PTL DEF AnalysisSpec

\* What a reader that passed has said of the dataset stays so: it has used all
\* attempts, the complete one of every cell among them, although it listed
\* and read them while a campaign wrote.
THEOREM PassesAreFinal == AnalysisSpec => []PassIsFinal
<1>1. AnalysisIInv => PassIsFinal
  BY Passed
<1> QED
  BY <1>1, DatasetInvariant, PTL

\* The dataset that an analysis has returned the path of stays under it, and
\* every file of it is the one that SHA256SUMS describes, unless somebody
\* wrote it after the analysis had read it for the last time.
THEOREM ReturnedDatasetsStay == AnalysisSpec => []ReturnedIntact
<1>1. AnalysisIInv => ReturnedIntact
  BY DEF AnalysisIInv
<1> QED
  BY <1>1, DatasetInvariant, PTL

\* Only two calls refuse what has been read: the validation of an entry that is
\* not a published bundle, and the selection of the terminal attempts.
LEMMA Refusing ==
  ASSUME AnalysisTypeOK, NEW p \in Reader, ReaderStep(p), reader[p].pc \in {"reading", "read"},
         reader'[p].pc = "refused"
  PROVE  \/ \E e \in reader[p].listed : e \notin Visible
         \/ reader[p].pc = "read" /\ ~ Selectable(reader[p].read)
<1>1. reader \in [Reader -> Local] /\ reader[p] \in Local
  BY DEF AnalysisTypeOK
<1> USE DEF At
<1>2. CASE Start(p) \/ Scan(p) \/ ScanEnds(p)
  BY <1>2 DEF Start, Scan, ScanEnds
<1>3. CASE ReadBundle(p)
  <2>1. PICK e \in reader[p].listed :
           reader' = IF e \in Visible THEN [reader EXCEPT ![p].read = @ \cup {e}]
                                      ELSE [reader EXCEPT ![p] = Ended("refused")]
    BY <1>3 DEF ReadBundle
  <2>2. CASE e \in Visible
    <3>1. reader'[p].pc = reader[p].pc
      BY <1>1, <2>1, <2>2 DEF Local
    <3> QED
      BY <3>1
  <2> QED
    BY <2>2
<1>4. CASE AllRead(p)
  BY <1>1, <1>4 DEF AllRead, Local
<1>5. CASE Select(p)
  <2>1. reader[p].pc = "read"
    BY <1>5 DEF Select
  <2>2. CASE \E pc \in {"selected", "passed"} : reader' = [reader EXCEPT ![p] = Concludes(p, pc)]
    <3>1. \A pc \in {"selected", "passed"} : Concludes(p, pc).pc = pc
      BY <1>1 DEF Concludes, Local
    <3> QED
      BY <1>1, <2>2, <3>1
  <2> QED
    BY <1>5, <2>1, <2>2 DEF Select, Selectable
<1>6. CASE StageOutputs(p) \/ HashFile(p) \/ WriteChecksums(p) \/ CaptureFile(p)
  BY <1>6 DEF StageOutputs, HashFile, WriteChecksums, CaptureFile
<1>7. CASE SyncAndCapture(p) \/ PublishOutputs(p) \/ ReadBack(p) \/ Return(p)
  BY <1>7 DEF SyncAndCapture, PublishOutputs, ReadBack, Return
<1>8. CASE TakeBack(p) \/ PublishRaises(p) \/ Again(p) \/ Crash(p)
  BY <1>1, <1>8 DEF TakeBack, PublishRaises, Again, Crash, Blank
<1>9. CASE \E f \in File : TouchStaged(p, f)
  BY <1>9 DEF TouchStaged
<1> QED
  BY <1>2, <1>3, <1>4, <1>5, <1>6, <1>7, <1>8, <1>9 DEF ReaderStep

\* A complete dataset is not refused for its evidence, unless a campaign process
\* was probing the raw root, or took back what was listed, or left what it took
\* back in the raw root: the dataset that was complete when the listing began is
\* all that there is until it ends.
THEOREM RefusalsHaveCause == AnalysisSpec => RefusalHasCause
<1> DEFINE Cause(p) ==
              \/ ~ Selectable(reader[p].from \ {Litter})
              \/ Litter \in reader[p].listed
              \/ (reader[p].from \cup reader[p].listed) \cap withdrawn # {}
<1>1. ASSUME AnalysisIInv, [AnalysisNext]_analysisVars, NEW p \in Reader, reader[p].pc \in {"reading", "read"},
             reader'[p].pc = "refused"
      PROVE  Cause(p)
  <2> SUFFICES ASSUME Selectable(reader[p].from \ {Litter}), Litter \notin reader[p].listed,
                      (reader[p].from \cup reader[p].listed) \cap withdrawn = {}
               PROVE  FALSE
    OBVIOUS
  <2>1. AnalysisTypeOK /\ Chains /\ Read
    BY <1>1 DEF AnalysisIInv
  <2>2. reader[p].from \ {Litter} \subseteq Ever /\ reader[p].listed \subseteq Visible
    BY <2>1 DEF Read, Ever
  <2>3. reader[p].from \ {Litter} = Visible
    BY <2>1, <2>2, CompleteDatasetIsAll
  <2>4. reader[p].from \ (withdrawn \cup {Litter}) \subseteq reader[p].listed
    BY <1>1, <2>1 DEF Read
  <2>5. reader[p].listed = reader[p].from \ {Litter}
    BY <2>2, <2>3, <2>4
  <2>6. reader[p].pc = "read" => Selectable(reader[p].read)
    BY <2>1, <2>5 DEF Read
  <2>7. ReaderStep(p)
    <3>1. reader'[p] # reader[p]
      BY <1>1
    <3> QED
      BY <1>1, <2>1, <3>1, Steps, CampaignKeeps, OthersKeep, ReaderKeeps DEF analysisVars
  <2> QED
    BY <1>1, <2>1, <2>2, <2>6, <2>7, Refusing
<1>2. AnalysisIInv /\ [AnalysisNext]_analysisVars => [\A p \in Reader :
          reader[p].pc \in {"reading", "read"} /\ reader'[p].pc = "refused" => Cause(p)]_analysisVars
  BY <1>1
<1> QED
  BY <1>2, DatasetInvariant, PTL DEF AnalysisSpec, RefusalHasCause

=============================================================================
