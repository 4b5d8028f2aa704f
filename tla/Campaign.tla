------------------------------ MODULE Campaign ------------------------------
(***************************************************************************)
(* The registered-campaign coordinator: execute_registered_plan with the   *)
(* campaign lock (workflow.py), the attempt inventory and allocation       *)
(* (attempts.py) and the part of the evidence store they depend on         *)
(* (collector.py: staging root, raw root, capability probe).               *)
(*                                                                         *)
(* Several coordinator processes run on one data root.  Each step below is *)
(* what the code does between two points where another process, a crash or *)
(* a failing system call can be seen from outside.  One attempt's run is   *)
(* a single choice of outcome here: Runner and EvidenceBundle open it up.  *)
(***************************************************************************)
EXTENDS Integers, FiniteSets

CONSTANTS Process,      \* coordinator processes sharing one data root
          CellCount,    \* cells of the frozen schedule, in ordinal order
          AttemptId,    \* attempt UUIDs
          Commit,       \* collection commits a process may be started from
          MaxAttempts,  \* max_attempts_per_cell of the frozen plan
          Nobody, NoAttempt

ASSUME CellAssumption == CellCount \in Nat \ {0}
ASSUME CommitAssumption == Commit # {}
ASSUME BudgetAssumption == MaxAttempts \in Nat \ {0}
ASSUME NobodyAssumption == Nobody \notin Process
ASSUME NoAttemptAssumption == NoAttempt \notin AttemptId

VARIABLES
    lock,       \* holder of the flock on data_root/.campaign.lock
    staging,    \* attempts with a directory in data_root/.staging
    raw,        \* attempts with a directory in data_root/raw
    manifest,   \* manifest[a]: what the bundle of attempt a records
    litter,     \* roots that hold directories of an interrupted probe
    proc        \* proc[p]: program counter and local variables of p

store == <<staging, raw, manifest, litter>>
vars  == <<lock, store, proc>>

\* A cell is its ordinal: the registered schedule numbers its unique cells
\* 1, 2, ... and the loop visits them in that order.
Cell     == 1 .. CellCount
Root     == {"staging", "raw"}
Final    == {"complete", "incomplete"}
Manifest == [cell : Cell, number : 1 .. MaxAttempts,
             supersedes : AttemptId \cup {NoAttempt},
             commit : Commit, status : Final \cup {"open"}]
Holding  == {"preparing", "inventory", "deciding", "creating",
             "running", "verifying"}
Local    == [pc : Holding \cup {"idle", "locking"},
             resume : BOOLEAN, limit : Cell, commit : Commit,
             index : 1 .. CellCount + 1,            \* position in the schedule
             seen : SUBSET AttemptId,               \* the AttemptInventory
             attempt : AttemptId \cup {NoAttempt},  \* the AttemptAllocation
          told : Final]                          \* outcome.status

SomeCommit == CHOOSE k \in Commit : TRUE
Blank == [cell |-> 1, number |-> 1, supersedes |-> NoAttempt,
          commit |-> SomeCommit, status |-> "open"]
Idle  == [pc |-> "idle", resume |-> FALSE, limit |-> 1, commit |-> SomeCommit,
          index |-> 1, seen |-> {}, attempt |-> NoAttempt, told |-> "incomplete"]

-----------------------------------------------------------------------------
(***************************************************************************)
(* Attempt chains.  S is always the set of attempts an inventory found.    *)
(***************************************************************************)
RecordsOf(S, c) == {a \in S : manifest[a].cell = c}

\* records[-1].status == "complete", of a chain that ends at its first one.
HasComplete(S, c) == \E a \in RecordsOf(S, c) : manifest[a].status = "complete"

\* The numbers of one cell are 1 .. n, each used once.
Contiguous(S, c) ==
    /\ \A a, b \in RecordsOf(S, c) : manifest[a].number = manifest[b].number => a = b
    /\ \A a \in RecordsOf(S, c) : \A k \in 1 .. manifest[a].number :
          \E b \in RecordsOf(S, c) : manifest[b].number = k

\* No attempt follows a complete one.
StopsAtComplete(S, c) ==
    \A a, b \in RecordsOf(S, c) :
        manifest[a].status = "complete" => manifest[b].number <= manifest[a].number

\* The first attempt has no predecessor, attempt N supersedes attempt N-1.
Linked(S, c) ==
    \A a \in RecordsOf(S, c) :
        IF manifest[a].number = 1
        THEN manifest[a].supersedes = NoAttempt
        ELSE \E b \in RecordsOf(S, c) :
                /\ manifest[b].number = manifest[a].number - 1
                /\ manifest[a].supersedes = b

WithinBudget(S, c) == \A a \in RecordsOf(S, c) : manifest[a].number <= MaxAttempts

ValidChain(S, c) ==
    Contiguous(S, c) /\ StopsAtComplete(S, c) /\ Linked(S, c) /\ WithinBudget(S, c)

\* Mutant: the scope check forgets provenance.git_commit.
InventoryOfAnyCommit(S, k) ==
    /\ "raw" \notin litter
    /\ \A a \in S : manifest[a].status \in Final
    /\ \A c \in Cell : ValidChain(S, c)

\* inventory_attempts over the whole raw root for a scope with commit k:
\* every entry is a sealed bundle of this scope and every chain is valid.
ValidInventory(S, k) ==
    /\ "raw" \notin litter
    /\ \A a \in S : manifest[a].status \in Final /\ manifest[a].commit = k
    /\ \A c \in Cell : ValidChain(S, c)

\* len(records) + 1, and records[-1].attempt_id when there is one.
NextNumber(S, c, n) == {manifest[a].number : a \in RecordsOf(S, c)} = 1 .. n - 1
Predecessor(S, c, n, a) ==
    IF n = 1 THEN a = NoAttempt
    ELSE a \in RecordsOf(S, c) /\ manifest[a].number = n - 1

-----------------------------------------------------------------------------
Init ==
    /\ lock = Nobody
    /\ staging = {} /\ raw = {} /\ litter = {}
    /\ manifest = [a \in AttemptId |-> Blank]
    /\ proc = [p \in Process |-> Idle]

At(p, pc) == proc[p].pc = pc

\* The process leaves the lock context, by return or by an exception.
Exit(p) == lock' = Nobody /\ proc' = [proc EXCEPT ![p] = Idle]

-----------------------------------------------------------------------------
\* The checks before the lock (root, plan, schedule, clean worktree) only
\* decide about the arguments: a refused start changes nothing.
Start(p) ==
    /\ At(p, "idle")
    /\ \E resume \in BOOLEAN, limit \in Cell, k \in Commit :
          proc' = [proc EXCEPT ![p].pc = "locking", ![p].resume = resume,
                               ![p].limit = limit, ![p].commit = k]
    /\ UNCHANGED <<lock, store>>

\* Mutant: the lock is taken without looking at its holder.
AcquireSharedLock(p) ==
    /\ At(p, "locking")
    /\ lock' = p
    /\ proc' = [proc EXCEPT ![p].pc = "preparing"]
    /\ UNCHANGED store

\* flock(LOCK_EX | LOCK_NB) succeeds.
AcquireCampaignLock(p) ==
    /\ At(p, "locking") /\ lock = Nobody
    /\ lock' = p
    /\ proc' = [proc EXCEPT ![p].pc = "preparing"]
    /\ UNCHANGED store

\* BlockingIOError: another campaign process holds the data root lock.
CampaignLockBusy(p) ==
    /\ At(p, "locking") /\ lock # Nobody
    /\ proc' = [proc EXCEPT ![p] = Idle]
    /\ UNCHANGED <<lock, store>>

\* The probe found the roots usable and removed its own directories; the
\* staging root must then be empty.
PrepareAttemptRoots(p) ==
    /\ At(p, "preparing")
    /\ \/ /\ staging = {} /\ "staging" \notin litter
          /\ proc' = [proc EXCEPT ![p].pc = "inventory", ![p].index = 1]
          /\ UNCHANGED lock
       \/ (staging # {} \/ "staging" \in litter) /\ Exit(p)
    /\ UNCHANGED store

\* The capability probe raises, in _prepare_attempt_roots or again in
\* EvidenceBundle.__init__; its own cleanup may fail and leave directories.
ProbeFails(p) ==
    /\ At(p, "preparing") \/ At(p, "creating")
    /\ \E left \in SUBSET Root : litter' = litter \cup left
    /\ Exit(p)
    /\ UNCHANGED <<staging, raw, manifest>>

InventoryAttempts(p) ==
    /\ At(p, "inventory") /\ proc[p].index <= proc[p].limit
    /\ \/ /\ ValidInventory(raw, proc[p].commit)
          /\ proc' = [proc EXCEPT ![p].pc = "deciding", ![p].seen = raw]
          /\ UNCHANGED lock
       \/ ~ ValidInventory(raw, proc[p].commit) /\ Exit(p)
    /\ UNCHANGED store

\* The loop over the selected cells ends: the campaign returns "complete".
Finish(p) ==
    /\ At(p, "inventory") /\ proc[p].index > proc[p].limit
    /\ Exit(p)
    /\ UNCHANGED store

\* The conditions of the loop body and of allocate_next_attempt on the
\* inventory snapshot.
IsComplete(p)  == HasComplete(proc[p].seen, proc[p].index)

\* Mutant: only a complete cell asks for --resume.
CompleteNeedsResume(p) == IsComplete(p) /\ ~ proc[p].resume

NeedsResume(p) == RecordsOf(proc[p].seen, proc[p].index) # {} /\ ~ proc[p].resume
BudgetSpent(p) ==
    \E a \in RecordsOf(proc[p].seen, proc[p].index) : manifest[a].number >= MaxAttempts

\* Mutant: the index is not advanced.
SkipInPlace(p) ==
    /\ At(p, "deciding") /\ IsComplete(p) /\ ~ NeedsResume(p)
    /\ proc' = [proc EXCEPT ![p].pc = "inventory"]
    /\ UNCHANGED <<lock, store>>

SkipComplete(p) ==
    /\ At(p, "deciding") /\ IsComplete(p) /\ ~ NeedsResume(p)
    /\ proc' = [proc EXCEPT ![p].pc = "inventory", ![p].index = @ + 1]
    /\ UNCHANGED <<lock, store>>

RefuseCell(p) ==
    /\ At(p, "deciding")
    /\ NeedsResume(p) \/ (~ IsComplete(p) /\ BudgetSpent(p))
    /\ Exit(p)
    /\ UNCHANGED store

\* Mutant: a complete cell is measured again.
AllocateAfterComplete(p) ==
    /\ At(p, "deciding") /\ ~ NeedsResume(p) /\ ~ BudgetSpent(p)
    /\ \E a \in AttemptId \ proc[p].seen :
          proc' = [proc EXCEPT ![p].pc = "creating", ![p].attempt = a]
    /\ UNCHANGED <<lock, store>>

\* uuid4() is any identifier that is not in the inventory.
AllocateNextAttempt(p) ==
    /\ At(p, "deciding")
    /\ ~ NeedsResume(p) /\ ~ IsComplete(p) /\ ~ BudgetSpent(p)
    /\ \E a \in AttemptId \ proc[p].seen :
          proc' = [proc EXCEPT ![p].pc = "creating", ![p].attempt = a]
    /\ UNCHANGED <<lock, store>>

\* AttemptEvidenceBundle.create refuses an identifier with a directory.
CreateBundle(p) ==
    LET a == proc[p].attempt IN
    /\ At(p, "creating")
    /\ \/ /\ a \in staging \cup raw
          /\ Exit(p)
          /\ UNCHANGED <<staging, manifest>>
       \/ /\ a \notin staging \cup raw
          /\ staging' = staging \cup {a}
          /\ \E n \in 1 .. MaxAttempts, prev \in AttemptId \cup {NoAttempt} :
                /\ NextNumber(proc[p].seen, proc[p].index, n)
                /\ Predecessor(proc[p].seen, proc[p].index, n, prev)
                /\ manifest' = [manifest EXCEPT ![a] =
                      [cell |-> proc[p].index, number |-> n, supersedes |-> prev,
                       commit |-> proc[p].commit, status |-> "open"]]
          /\ proc' = [proc EXCEPT ![p].pc = "running"]
          /\ UNCHANGED lock
    /\ UNCHANGED <<raw, litter>>

\* The sealed bundle takes its final status and moves to an unoccupied name.
Publish(a) ==
    /\ a \in staging /\ a \notin raw
    /\ \E s \in Final : manifest' = [manifest EXCEPT ![a].status = s]
    /\ staging' = staging \ {a}
    /\ raw' = raw \cup {a}
    /\ UNCHANGED litter

\* run_one returns an outcome.  It is a parameter of the loop: that the
\* bundle is published, and with the status of the outcome, is not assumed.
RunReturns(p) ==
    /\ At(p, "running")
    /\ UNCHANGED store \/ Publish(proc[p].attempt)
    /\ \E s \in Final :
          proc' = [proc EXCEPT ![p].pc = "verifying", ![p].told = s]
    /\ UNCHANGED lock

\* run raises: writing, sealing or publication failed.  The directory is
\* still in staging or, when the rename was done and its rollback failed
\* or never ran, in raw.
RunRaises(p) ==
    /\ At(p, "running")
    /\ UNCHANGED store \/ Publish(proc[p].attempt)
    /\ Exit(p)

\* Mutant: the outcome is believed.
Trusted(p) == proc[p].attempt \in AttemptId

\* _verify_attempt_outcome: the evidence is there and says the same.
Verified(p) ==
    /\ proc[p].attempt \in raw
    /\ manifest[proc[p].attempt].cell = proc[p].index
    /\ manifest[proc[p].attempt].status = proc[p].told

\* A mismatch raises; the loop goes on after a complete attempt and breaks
\* after an incomplete one.
VerifyAttemptOutcome(p) ==
    /\ At(p, "verifying")
    /\ IF Verified(p) /\ proc[p].told = "complete"
       THEN /\ proc' = [proc EXCEPT ![p].pc = "inventory", ![p].index = @ + 1]
            /\ UNCHANGED lock
       ELSE Exit(p)
    /\ UNCHANGED store

-----------------------------------------------------------------------------
\* The process dies: the kernel drops its flock, the directories stay.
Crash(p) ==
    /\ ~ At(p, "idle")
    /\ \E left \in SUBSET Root :
          /\ left # {} => At(p, "preparing") \/ At(p, "creating")
          /\ litter' = litter \cup left
    /\ lock' = IF lock = p THEN Nobody ELSE lock
    /\ proc' = [proc EXCEPT ![p] = Idle]
    /\ UNCHANGED <<staging, raw, manifest>>

\* Between campaigns an operator takes unresolved directories away; the
\* code never does, it only refuses to start.
OperatorResolves ==
    /\ lock = Nobody
    /\ staging # {} \/ litter # {}
    /\ staging' = {} /\ litter' = {}
    /\ manifest' = [a \in AttemptId |-> IF a \in raw THEN manifest[a] ELSE Blank]
    /\ UNCHANGED <<lock, raw, proc>>

\* The steps a running coordinator takes by itself.
Progress(p) ==
    \/ AcquireCampaignLock(p) \/ CampaignLockBusy(p)
    \/ PrepareAttemptRoots(p) \/ ProbeFails(p)
    \/ InventoryAttempts(p) \/ Finish(p)
    \/ SkipComplete(p) \/ RefuseCell(p) \/ AllocateNextAttempt(p)
    \/ CreateBundle(p) \/ RunReturns(p) \/ RunRaises(p)
    \/ VerifyAttemptOutcome(p)

Next ==
    \/ \E p \in Process : Start(p) \/ Progress(p) \/ Crash(p)
    \/ OperatorResolves

Spec == Init /\ [][Next]_vars

\* A coordinator keeps taking the steps of its own loop, which wait for
\* nobody.  Nothing is assumed of the run of an attempt: the commands of the
\* laboratory (WireGuardLab._run) have no timeout and may hang for ever.
Coordinates(p) == ~ At(p, "running") /\ Progress(p)
FairSpec == Spec /\ \A p \in Process : WF_vars(Coordinates(p))

-----------------------------------------------------------------------------
(***************************************************************************)
(* Properties.                                                             *)
(***************************************************************************)

\* The values every variable ranges over; the attempt numbers stay within
\* the registered budget.
TypeOK ==
    /\ lock \in Process \cup {Nobody}
    /\ staging \subseteq AttemptId /\ raw \subseteq AttemptId
    /\ manifest \in [AttemptId -> Manifest]
    /\ litter \subseteq Root
    /\ proc \in [Process -> Local]

\* Whatever processes, crashes and half-failed publications did, the raw
\* root holds valid chains only: numbers 1 .. n without gap or duplicate,
\* each attempt linked to its predecessor, none after a complete one and
\* none over the budget.  inventory_attempts therefore never locks an
\* operator out because of what execute_registered_plan wrote.
ChainsValid == \A c \in Cell : ValidChain(raw, c)

\* A cell is attempted only after every earlier cell of the schedule has a
\* complete attempt: the loop of execute_registered_plan starts from the
\* first cell, breaks after an incomplete outcome and never skips one.
ScheduleOrder ==
    \A a \in raw : \A c \in 1 .. manifest[a].cell - 1 : HasComplete(raw, c)

\* All evidence of the dataset comes from one collection commit, although
\* processes may be started from different ones.
OneCommit == \A a, b \in raw : manifest[a].commit = manifest[b].commit

\* The staging root never holds two bundles: as long as one is unresolved
\* after a crash or a failed sealing, no process creates another.
OneUnresolvedBundle == \A a, b \in staging : a = b

\* Published evidence is retained: no step removes a bundle from the raw
\* root or changes what it records.
EvidenceRetained ==
    [][\A a \in raw : a \in raw' /\ manifest'[a] = manifest[a]]_vars

\* Without --resume a campaign only ever adds first attempts: what an earlier
\* campaign, or another process, has left incomplete is not tried again unasked.
OnlyResumeRetries ==
    [][\A a \in raw' \ raw :
          manifest'[a].number > 1 =>
             \E p \in Process : proc[p].attempt = a /\ proc[p].resume]_vars

\* A campaign that returns "complete" leaves a complete attempt for every
\* cell it selected, whatever the runs of its attempts reported.
CompleteReturnIsComplete ==
    [][\A p \in Process :
          Finish(p) => \A c \in 1 .. proc[p].limit : HasComplete(raw, c)]_vars

\* Once a cell has used up its attempts without a complete one, the dataset
\* is frozen: allocate_next_attempt refuses this cell and no later cell is
\* ever reached.
SpentCellFreezesDataset ==
    [][(\E a \in raw : /\ manifest[a].number = MaxAttempts
                       /\ ~ HasComplete(raw, manifest[a].cell))
          => raw' = raw]_vars

\* Only a run that never ends keeps the campaign lock for ever: every way
\* through and out of the loop, refusals, failures and crashes included, leads
\* to the release of the lock, and no campaign loops over its cells for ever.
LockReleased ==
    \A p \in Process : []<>(lock # p) \/ <>[]At(p, "running")

\* The statuses of a set of attempts of one cell, in number order.
StatusesOf(R, m) ==
    [n \in 1 .. Cardinality(R) |-> m[CHOOSE a \in R : m[a].number = n].status]

LedgerView == [c \in Cell |-> StatusesOf(RecordsOf(raw, c), manifest)]

Ledger == INSTANCE AttemptLedger WITH ledger <- LedgerView

\* The raw root implements the append-only ledger of AttemptLedger.
LedgerSpec == Ledger!Spec

=============================================================================
