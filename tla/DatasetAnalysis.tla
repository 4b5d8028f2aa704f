--------------------------- MODULE DatasetAnalysis ---------------------------
(***************************************************************************)
(* Readers of the raw root: validate_raw_dataset (workflow.py) and         *)
(* analyse_dataset (statistical_analysis.py), which publishes a processed  *)
(* dataset.  They take no lock, and read while a campaign writes.          *)
(*                                                                         *)
(* The campaign is the one of AttemptLedger, seen from the raw root: an    *)
(* attempt appears by a rename, and settles, or is taken back when the     *)
(* publication cannot be confirmed (EvidenceBundle).                       *)
(*                                                                         *)
(* The specification has names of its own, AnalysisSpec and its parts, for *)
(* PublicationProofs proves about it and about publication together.       *)
(***************************************************************************)
EXTENDS Integers, Sequences, FiniteSets

CONSTANTS
    Reader,         \* processes that validate or analyse
    Rival,          \* an analysis of the same dataset that is not followed
    CellCount,      \* cells of the frozen schedule, in ordinal order
    MaxAttempts,    \* max_attempts_per_cell of the frozen plan
    MaxWithdrawn,   \* publications that are taken back
    FileCount,      \* files of a processed dataset beside SHA256SUMS
    MaxVersion,     \* times that somebody else writes a file of a processed tree
    Litter          \* a directory that is no attempt, of a publication probe or
                    \* .quarantine-*, where Windows may leave a withdrawn one

ASSUME CountAssumption == CellCount \in Nat \ {0} /\ MaxAttempts \in Nat \ {0}
ASSUME RivalAssumption == Rival \notin Reader
ASSUME BoundAssumption == MaxWithdrawn \in Nat /\ MaxVersion \in Nat
ASSUME FileAssumption == FileCount \in Nat

VARIABLES
    settled,    \* attempts whose publication is confirmed
    passing,    \* the attempt that is renamed but not confirmed
    withdrawn,  \* attempts that were taken back
    litter,     \* such a directory is in the raw root
    reader,     \* reader[p]: program counter and local variables of p
    processed,  \* the datasets under its name in the processed root: at most one
    returned    \* analyses that have returned the path

campaign == <<settled, passing, withdrawn, litter>>
analysisVars == <<campaign, reader, processed, returned>>

Cell    == 1 .. CellCount
Status  == {"complete", "incomplete"}
MaxId   == CellCount * MaxAttempts + MaxWithdrawn
Attempt == [id : 1 .. MaxId, cell : Cell, number : 1 .. MaxAttempts,
            supersedes : 0 .. MaxId, status : Status]

\* What the raw root shows.
Visible == settled \cup passing
Entries == Visible \cup (IF litter THEN {Litter} ELSE {})

\* The files in the order of the captures.  A tree has a version of each, and
\* whoever writes a file makes a new one; sums are the versions that
\* SHA256SUMS was written for, of itself the one of the analysis.
Sums    == 0
File    == Sums .. FileCount
Tree    == [File -> 0 .. MaxVersion]
Written == [f \in File |-> 0]

\* late are the files that were written after the publisher had read them for
\* the last time.
Dataset == [by : Reader \cup {Rival}, sources : SUBSET Attempt, tree : Tree,
            sums : Tree, late : SUBSET File]
Mode  == {"analyse", "validate", "validate complete"}
PC    == {"idle", "listing", "reading", "read", "selected", "staged", "summed",
          "captured", "moved", "returned", "passed", "refused"}
Blank == [pc |-> "idle", mode |-> "validate", from |-> {}, listed |-> {}, read |-> {},
          tree |-> Written, sums |-> Written, snapshot |-> Written, next |-> 0]

\* A reader ends, whatever it has found.
Ended(pc) == [Blank EXCEPT !.pc = pc]

AnalysisInit ==
    /\ settled = {} /\ passing = {} /\ withdrawn = {} /\ litter = FALSE
    /\ reader = [p \in Reader |-> Blank]
    /\ processed = {} /\ returned = {}

-----------------------------------------------------------------------------
(***************************************************************************)
(* The campaign.                                                           *)
(***************************************************************************)
Records(S, c) == {a \in S : a.cell = c}
HasComplete(S, c) == \E a \in Records(S, c) : a.status = "complete"
Attempted == Cardinality(settled) + Cardinality(withdrawn)

\* The rename of the next attempt of the first cell that is not complete.
\* Whoever was withdrawn, a retry starts from what has settled.
Appear(c, status) ==
    /\ passing = {}
    /\ ~ HasComplete(settled, c) /\ \A b \in 1 .. c - 1 : HasComplete(settled, b)
    /\ LET n == Cardinality(Records(settled, c))
           before == {a.id : a \in {r \in Records(settled, c) : r.number = n}}
       IN  /\ n < MaxAttempts
           /\ \E prior \in IF n = 0 THEN {0} ELSE before :
                 passing' = {[id |-> Attempted + 1, cell |-> c, number |-> n + 1,
                              supersedes |-> prior, status |-> status]}
    /\ UNCHANGED <<settled, withdrawn, litter, reader, processed, returned>>

Settle ==
    /\ passing # {}
    /\ settled' = settled \cup passing /\ passing' = {}
    /\ UNCHANGED <<withdrawn, litter, reader, processed, returned>>

\* The rollback moves the directory to the staging root again, where it is
\* quarantined until an operator clears it away; on Windows it may have to
\* stay in the raw root, under a name that is no attempt's.
Withdraw ==
    /\ passing # {} /\ Cardinality(withdrawn) < MaxWithdrawn
    /\ withdrawn' = withdrawn \cup passing /\ passing' = {}
    /\ litter' \in {litter, TRUE}
    /\ UNCHANGED <<settled, reader, processed, returned>>

\* The directory of a probe comes and goes; an operator clears others away.
MoveLitter ==
    /\ litter' = ~ litter
    /\ UNCHANGED <<settled, passing, withdrawn, reader, processed, returned>>

-----------------------------------------------------------------------------
(***************************************************************************)
(* Reading.                                                                *)
(***************************************************************************)
At(p, pc) == reader[p].pc = pc

Start(p) ==
    /\ At(p, "idle")
    /\ \E m \in Mode : reader' = [reader EXCEPT ![p] = [Blank EXCEPT !.pc = "listing",
                                                        !.mode = m, !.from = Entries]]
    /\ UNCHANGED <<campaign, processed, returned>>

\* iterdir returns an entry.
Scan(p) ==
    /\ At(p, "listing")
    /\ \E e \in Entries \ reader[p].listed :
          reader' = [reader EXCEPT ![p].listed = @ \cup {e}]
    /\ UNCHANGED <<campaign, processed, returned>>

\* Mutant: the listing ends early.
ScanStops(p) ==
    /\ At(p, "listing")
    /\ reader' = [reader EXCEPT ![p].pc = "reading"]
    /\ UNCHANGED <<campaign, processed, returned>>

\* Whatever was there from the beginning has been returned; what came later
\* may or may not have been.
ScanEnds(p) ==
    /\ At(p, "listing") /\ reader[p].from \cap Entries \subseteq reader[p].listed
    /\ reader' = [reader EXCEPT ![p].pc = "reading"]
    /\ UNCHANGED <<campaign, processed, returned>>

\* validate_evidence_bundle accepts a published bundle; a directory that is
\* gone, or is no attempt, ends the reading.
ReadBundle(p) ==
    /\ At(p, "reading")
    /\ \E e \in reader[p].listed \ reader[p].read :
          reader' = IF e \in Visible THEN [reader EXCEPT ![p].read = @ \cup {e}]
                                     ELSE [reader EXCEPT ![p] = Ended("refused")]
    /\ UNCHANGED <<campaign, processed, returned>>

AllRead(p) ==
    /\ At(p, "reading") /\ reader[p].listed = reader[p].read
    /\ reader' = [reader EXCEPT ![p].pc = "read"]
    /\ UNCHANGED <<campaign, processed, returned>>

\* The attempt chain of a cell: contiguous, linked, within the budget and
\* over with its first complete attempt.
ValidChain(S, c) ==
    LET R == Records(S, c) IN
    /\ {a.number : a \in R} = 1 .. Cardinality(R) /\ Cardinality(R) <= MaxAttempts
    /\ \A a \in R : IF a.number = 1 THEN a.supersedes = 0
                    ELSE \E b \in R : b.number = a.number - 1 /\ a.supersedes = b.id
    /\ \A a, b \in R : a.status = "complete" => b.number <= a.number

\* Mutant: a chain without its first attempts is valid.
ChainsOfAnyLength(S) ==
    /\ \A c \in Cell : Records(S, c) # {}
    /\ \A c \in Cell : \A a, b \in Records(S, c) :
          a.status = "complete" => b.number <= a.number

\* The cells read are the registered ones, and every chain is valid.
ChainsValid(S) == \A c \in Cell : Records(S, c) # {} /\ ValidChain(S, c)

\* Mutant: any cell that ends a chain will do, complete or not.
TerminalOfAnyStatus(S) == ChainsValid(S)

\* _select_terminal_attempt_bundles: and every cell has its complete one.
Selectable(S) == ChainsValid(S) /\ \A c \in Cell : HasComplete(S, c)

\* From here on only what it has read matters.
Concludes(p, pc) == [reader[p] EXCEPT !.pc = pc, !.from = {}, !.listed = {}]

Select(p) ==
    /\ At(p, "read")
    /\ \/ /\ reader[p].mode = "analyse" /\ Selectable(reader[p].read)
          /\ reader' = [reader EXCEPT ![p] = Concludes(p, "selected")]
       \/ /\ reader[p].mode = "validate" /\ ChainsValid(reader[p].read)
          /\ reader' = [reader EXCEPT ![p] = Concludes(p, "passed")]
       \/ /\ reader[p].mode = "validate complete" /\ Selectable(reader[p].read)
          /\ reader' = [reader EXCEPT ![p] = Concludes(p, "passed")]
       \/ /\ \/ ~ ChainsValid(reader[p].read)
             \/ reader[p].mode # "validate" /\ ~ Selectable(reader[p].read)
          /\ reader' = [reader EXCEPT ![p] = Ended("refused")]
    /\ UNCHANGED <<campaign, processed, returned>>

-----------------------------------------------------------------------------
(***************************************************************************)
(* Writing the processed dataset.                                          *)
(***************************************************************************)
\* The probe and the exists() check, then the outputs in a directory of its
\* own below .staging.
StageOutputs(p) ==
    /\ At(p, "selected") /\ processed = {}
    /\ reader' = [reader EXCEPT ![p].pc = "staged", ![p].next = 1]
    /\ UNCHANGED <<campaign, processed, returned>>

\* A file is hashed for SHA256SUMS, which is written after the last one.
HashFile(p) ==
    /\ At(p, "staged") /\ reader[p].next \in File
    /\ reader' = [reader EXCEPT ![p].sums[reader[p].next] = reader[p].tree[reader[p].next],
                                ![p].next = @ + 1]
    /\ UNCHANGED <<campaign, processed, returned>>

WriteChecksums(p) ==
    /\ At(p, "staged") /\ reader[p].next \notin File
    /\ reader' = [reader EXCEPT ![p].pc = "summed", ![p].next = Sums, ![p].tree[Sums] = 0]
    /\ UNCHANGED <<campaign, processed, returned>>

\* The capture after the syncs reads file by file; the one before them can
\* but refuse.
CaptureFile(p) ==
    /\ At(p, "summed") /\ reader[p].next \in File
    /\ reader' = [reader EXCEPT ![p].snapshot[reader[p].next] = reader[p].tree[reader[p].next],
                                ![p].next = @ + 1]
    /\ UNCHANGED <<campaign, processed, returned>>

\* Mutant: SHA256SUMS is not compared with the tree that was captured.
SyncUnchecked(p) ==
    /\ At(p, "summed") /\ reader[p].next \notin File
    /\ reader' = [reader EXCEPT ![p].pc = "captured"]
    /\ UNCHANGED <<campaign, processed, returned>>

\* SHA256SUMS, read once more, describes the tree that was captured.
SyncAndCapture(p) ==
    /\ At(p, "summed") /\ reader[p].next \notin File
    /\ reader' = IF reader[p].snapshot = reader[p].sums /\ reader[p].tree[Sums] = 0
                 THEN [reader EXCEPT ![p].pc = "captured"]
                 ELSE [reader EXCEPT ![p] = Ended("refused")]
    /\ UNCHANGED <<campaign, processed, returned>>

Output(p) == [by |-> p, sources |-> reader[p].read, tree |-> reader[p].tree,
              sums |-> reader[p].sums, late |-> {}]

\* Mutant: the rename replaces what is there.
PublishReplacing(p) ==
    /\ At(p, "captured")
    /\ processed' = {Output(p)}
    /\ reader' = [reader EXCEPT ![p].pc = "moved", ![p].next = Sums]
    /\ UNCHANGED <<campaign, returned>>

\* The no-replace rename, confirmed.
PublishOutputs(p) ==
    /\ At(p, "captured") /\ processed = {}
    /\ processed' = {Output(p)}
    /\ reader' = [reader EXCEPT ![p].pc = "moved", ![p].next = Sums]
    /\ UNCHANGED <<campaign, returned>>

\* Mutant: the files of the published tree are read and not compared.
ReadBackUnchecked(p) ==
    /\ At(p, "moved")
    /\ \E d \in processed, f \in File :
          f = reader[p].next /\ processed' = {[d EXCEPT !.late = @ \ {f}]}
    /\ reader' = [reader EXCEPT ![p].next = @ + 1]
    /\ UNCHANGED <<campaign, returned>>

\* The published tree is read again, file by file; one that is not the one
\* that was captured ends in TakeBack.
ReadBack(p) ==
    /\ At(p, "moved")
    /\ \E d \in processed, f \in File :
          /\ f = reader[p].next /\ d.tree[f] = reader[p].snapshot[f]
          /\ processed' = {[d EXCEPT !.late = @ \ {f}]}
    /\ reader' = [reader EXCEPT ![p].next = @ + 1]
    /\ UNCHANGED <<campaign, returned>>

Return(p) ==
    /\ At(p, "moved") /\ reader[p].next \notin File
    /\ reader' = [reader EXCEPT ![p] = Ended("returned")]
    /\ returned' = returned \cup {[by |-> p, sources |-> reader[p].read]}
    /\ UNCHANGED <<campaign, processed>>

\* It differs, or cannot be read: it is moved back, unless that fails too.
TakeBack(p) ==
    /\ At(p, "moved")
    /\ processed' \in {{}, processed}
    /\ reader' = [reader EXCEPT ![p] = Ended("refused")]
    /\ UNCHANGED <<campaign, returned>>

\* The destination exists, or a call fails; the staging directory stays.
\* A rename whose rollback fails leaves the dataset under its name.
PublishRaises(p) ==
    /\ reader[p].pc \in {"selected", "staged", "summed", "captured"}
    /\ reader' = [reader EXCEPT ![p] = Ended("refused")]
    /\ \/ UNCHANGED processed
       \/ At(p, "captured") /\ processed = {} /\ processed' = {Output(p)}
    /\ UNCHANGED <<campaign, returned>>

\* Somebody else writes a file of the staging tree of p, or of the dataset in
\* the processed root, whoever has published it and whether it is returned.
TouchStaged(p, f) ==
    /\ reader[p].tree[f] < MaxVersion /\ reader[p].pc \in {"staged", "summed", "captured"}
    /\ reader' = [reader EXCEPT ![p].tree[f] = @ + 1]
    /\ UNCHANGED <<campaign, processed, returned>>

TouchProcessed(f) ==
    /\ \E d \in processed :
          /\ d.tree[f] < MaxVersion
          /\ processed' = {[d EXCEPT !.tree[f] = @ + 1, !.late = @ \cup {f}]}
    /\ UNCHANGED <<campaign, reader, returned>>

\* Another analysis that has read the complete dataset: it takes the name, and
\* returns its dataset or takes it back.
RivalDataset == [by |-> Rival, sources |-> settled, tree |-> Written, sums |-> Written, late |-> {}]

RivalMoves ==
    /\ processed = {} /\ Selectable(settled)
    /\ processed' = {RivalDataset}
    /\ UNCHANGED <<campaign, reader, returned>>

RivalReturns ==
    /\ \E d \in processed :
          d.by = Rival /\ returned' = returned \cup {[by |-> Rival, sources |-> d.sources]}
    /\ UNCHANGED <<campaign, reader, processed>>

RivalTakesBack ==
    /\ \E d \in processed : d.by = Rival /\ [by |-> Rival, sources |-> d.sources] \notin returned
    /\ processed' = {}
    /\ UNCHANGED <<campaign, reader, returned>>

Again(p) ==
    /\ reader[p].pc \in {"returned", "passed", "refused"}
    /\ reader' = [reader EXCEPT ![p] = Blank]
    /\ UNCHANGED <<campaign, processed, returned>>

\* The process dies.
Crash(p) ==
    /\ reader[p].pc \notin {"idle", "returned", "passed", "refused"}
    /\ reader' = [reader EXCEPT ![p] = Blank]
    /\ UNCHANGED <<campaign, processed, returned>>

AnalysisNext ==
    \/ \E c \in Cell, s \in Status : Appear(c, s)
    \/ Settle \/ Withdraw \/ MoveLitter
    \/ \E p \in Reader :
          \/ Start(p) \/ Scan(p) \/ ScanEnds(p) \/ ReadBundle(p) \/ AllRead(p) \/ Select(p)
          \/ StageOutputs(p) \/ HashFile(p) \/ WriteChecksums(p) \/ CaptureFile(p)
          \/ SyncAndCapture(p) \/ PublishOutputs(p) \/ ReadBack(p) \/ Return(p)
          \/ TakeBack(p) \/ PublishRaises(p) \/ Again(p) \/ Crash(p)
          \/ \E f \in File : TouchStaged(p, f)
    \/ \E f \in File : TouchProcessed(f)
    \/ RivalMoves \/ RivalReturns \/ RivalTakesBack

AnalysisSpec == AnalysisInit /\ [][AnalysisNext]_analysisVars

-----------------------------------------------------------------------------
(***************************************************************************)
(* Properties.                                                             *)
(***************************************************************************)
\* The values of the variables.
Local == [pc : PC, mode : Mode, from : SUBSET (Attempt \cup {Litter}),
          listed : SUBSET (Attempt \cup {Litter}), read : SUBSET (Attempt \cup {Litter}),
          tree : Tree, sums : Tree, snapshot : Tree, next : 0 .. FileCount + 1]
AnalysisTypeOK ==
    /\ settled \subseteq Attempt /\ passing \subseteq Attempt /\ withdrawn \subseteq Attempt
    /\ Cardinality(passing) <= 1 /\ Cardinality(withdrawn) <= MaxWithdrawn /\ litter \in BOOLEAN
    /\ reader \in [Reader -> Local]
    /\ processed \subseteq Dataset /\ Cardinality(processed) <= 1
    /\ returned \subseteq [by : Reader \cup {Rival}, sources : SUBSET Attempt]

\* What a reader that passed has said of the dataset stays so, although it
\* listed and read while a campaign wrote, and unless an attempt that it read
\* is taken back afterwards.  An analysis, or a validation with
\* require_complete, has used the dataset as it will always be: all attempts,
\* the complete one of every cell among them.  A plain validation has seen
\* every attempt of each cell it calls complete, also when its listing was
\* torn over other cells.
Final(S) == S \cap withdrawn = {} => S = Visible
FinalIn(S, c) ==
    HasComplete(S, c) /\ Records(S, c) \cap withdrawn = {} => Records(S, c) = Records(Visible, c)
PassIsFinal ==
    /\ \A d \in processed : Final(d.sources)
    /\ \A p \in Reader : At(p, "passed") =>
          /\ reader[p].mode = "validate complete" => Final(reader[p].read)
          /\ \A c \in Cell : FinalIn(reader[p].read, c)

\* The dataset that an analysis has returned the path of stays there, whatever
\* other analyses of the same dataset do; and whoever writes into the trees,
\* before the analysis has hashed a file, while it reads one, publishes or
\* returns: each file is the one that SHA256SUMS describes, unless somebody
\* wrote it after the analysis had read it for the last time.
ReturnedIntact ==
    \A r \in returned : \E d \in processed :
        /\ d.by = r.by /\ d.sources = r.sources
        /\ \A f \in File : d.tree[f] = d.sums[f] \/ f \in d.late

\* A complete dataset is not refused for its evidence, unless a campaign
\* process was probing the raw root, or took back what was listed, or had
\* to leave what it took back in the raw root.
RefusalHasCause ==
    [][\A p \in Reader :
          reader[p].pc \in {"reading", "read"} /\ reader'[p].pc = "refused" =>
             \/ ~ Selectable(reader[p].from \ {Litter})
             \/ Litter \in reader[p].listed
             \/ (reader[p].from \cup reader[p].listed) \cap withdrawn # {}]_analysisVars

=============================================================================
