--------------------------- MODULE CampaignProofs ---------------------------
(***************************************************************************)
(* Proofs about Campaign, for every number of processes, cells, attempt    *)
(* identifiers and commits and every attempt budget.                       *)
(***************************************************************************)
EXTENDS Campaign, Sequences, Functions, FiniteSetTheorems, FunctionTheorems, TLAPS

\* Inside the loop body the position is one of the selected cells, and
\* after the allocation there is an attempt.
LocalInv ==
    \A p \in Process :
        /\ proc[p].pc \in {"deciding", "creating", "running", "verifying"} =>
              proc[p].index <= proc[p].limit
        /\ proc[p].pc \in {"creating", "running", "verifying"} =>
              proc[p].attempt \in AttemptId

\* A process is inside the lock context exactly when it holds the lock.
LockInv == \A p \in Process : proc[p].pc \in Holding <=> lock = p

(***************************************************************************)
(* What the holder of the lock may rely on, by where it is.                *)
(***************************************************************************)
\* The inventory it decides on is still the raw root, and all of one scope.
SnapshotCurrent(p) ==
    proc[p].pc \in {"deciding", "creating", "running"} =>
        /\ proc[p].seen = raw
        /\ \A a \in raw : manifest[a].commit = proc[p].commit

\* The staging root holds its own bundle or nothing; a run that did not
\* publish what it reports has left its bundle there.
StagingOwned(p) ==
    /\ proc[p].pc \in {"inventory", "deciding", "creating"} => staging = {}
    /\ proc[p].pc = "running" => staging = {proc[p].attempt}
    /\ proc[p].pc = "verifying" =>
          staging = {} \/ (staging = {proc[p].attempt} /\ proc[p].attempt \notin raw)

\* Every cell before the loop position has a complete attempt.
PrefixComplete(p) ==
    proc[p].pc \in {"inventory", "deciding", "creating", "running", "verifying"} =>
        \A c \in 1 .. proc[p].index - 1 : HasComplete(raw, c)

\* The conditions of an allocation hold until its bundle is published.
Allocatable(p) ==
    proc[p].pc \in {"creating", "running"} =>
        /\ proc[p].attempt \notin raw
        /\ ~ HasComplete(raw, proc[p].index)
        /\ \A a \in RecordsOf(raw, proc[p].index) : manifest[a].number < MaxAttempts
        /\ RecordsOf(raw, proc[p].index) # {} => proc[p].resume

\* The open bundle carries the manifest of its allocation.
Opened(p) ==
    proc[p].pc = "running" =>
        LET m == manifest[proc[p].attempt] IN
        /\ m.cell = proc[p].index /\ m.commit = proc[p].commit
        /\ NextNumber(raw, m.cell, m.number)
        /\ Predecessor(raw, m.cell, m.number, m.supersedes)

HolderInv ==
    \A p \in Process :
        SnapshotCurrent(p) /\ StagingOwned(p) /\ PrefixComplete(p)
        /\ Allocatable(p) /\ Opened(p)

StoreInv == ChainsValid /\ ScheduleOrder /\ OneCommit /\ OneUnresolvedBundle

Inv == TypeOK /\ LocalInv /\ LockInv /\ HolderInv /\ StoreInv

-----------------------------------------------------------------------------
(***************************************************************************)
(* Type correctness.                                                       *)
(***************************************************************************)
LEMMA DefaultsType == Blank \in Manifest /\ Idle \in Local
<1>1. SomeCommit \in Commit
  BY CommitAssumption, Zenon DEF SomeCommit
<1>2. 1 \in Cell /\ 1 \in 1 .. MaxAttempts /\ 1 \in 1 .. CellCount + 1
  BY CellAssumption, BudgetAssumption DEF Cell
<1>. QED
  BY <1>1, <1>2 DEF Blank, Idle, Manifest, Local, Final, Holding

\* Leaving the lock context keeps the types.
LEMMA ExitType ==
  ASSUME TypeOK, NEW p \in Process, Exit(p)
  PROVE  /\ proc' \in [Process -> Local] /\ lock' \in Process \cup {Nobody}
         /\ LocalInv => LocalInv'
BY DefaultsType DEF TypeOK, Exit, LocalInv, Idle

\* Publishing keeps the types of the evidence store.
LEMMA PublishType ==
  ASSUME TypeOK, NEW a, Publish(a)
  PROVE  /\ staging' \subseteq AttemptId /\ raw' \subseteq AttemptId
         /\ manifest' \in [AttemptId -> Manifest] /\ litter' \subseteq Root
BY DEF TypeOK, Publish, Manifest

\* Starting stores the arguments and moves to the lock.
LEMMA StartLocal ==
  ASSUME TypeOK, NEW p \in Process, Start(p)
  PROVE  \E r \in Local : r.pc = "locking" /\ proc' = [proc EXCEPT ![p] = r]
<1>1. PICK resume \in BOOLEAN, limit \in Cell, k \in Commit :
        proc' = [proc EXCEPT ![p].pc = "locking", ![p].resume = resume,
                             ![p].limit = limit, ![p].commit = k]
  BY DEF Start
<1> DEFINE next == [proc[p] EXCEPT !.pc = "locking", !.resume = resume,
                                   !.limit = limit, !.commit = k]
<1>2. proc[p] \in Local
  BY DEF TypeOK
<1>3. next \in Local /\ next.pc = "locking"
  BY <1>2 DEF Local, Holding
<1>4. proc' = [proc EXCEPT ![p] = next]
  BY <1>1, <1>2 DEF TypeOK
<1>. QED BY <1>3, <1>4

\* Typing is inductive together with the bound on the loop position.
LEMMA TypeStep ==
  ASSUME TypeOK, LocalInv, [Next]_vars
  PROVE  TypeOK' /\ LocalInv'
<1> USE DEF TypeOK, LocalInv, store, At
<1>1. ASSUME NEW p \in Process, Start(p) PROVE TypeOK' /\ LocalInv'
  <2>1. PICK r \in Local : r.pc = "locking" /\ proc' = [proc EXCEPT ![p] = r]
    BY <1>1, StartLocal
  <2>. QED BY <1>1, <2>1 DEF Start
<1>2. ASSUME NEW p \in Process, AcquireCampaignLock(p) PROVE TypeOK' /\ LocalInv'
  BY <1>2 DEF AcquireCampaignLock, Local, Holding
<1>3. ASSUME NEW p \in Process, CampaignLockBusy(p) PROVE TypeOK' /\ LocalInv'
  BY <1>3, DefaultsType DEF CampaignLockBusy, Idle
<1>4. ASSUME NEW p \in Process, PrepareAttemptRoots(p) PROVE TypeOK' /\ LocalInv'
  <2>1. CASE Exit(p)
    BY <1>4, <2>1, ExitType DEF PrepareAttemptRoots
  <2>2. CASE ~ Exit(p)
    BY <1>4, <2>2, CellAssumption DEF PrepareAttemptRoots, Local, Holding
  <2>. QED BY <2>1, <2>2
<1>5. ASSUME NEW p \in Process, ProbeFails(p) PROVE TypeOK' /\ LocalInv'
  BY <1>5, ExitType DEF ProbeFails
<1>6. ASSUME NEW p \in Process, InventoryAttempts(p) PROVE TypeOK' /\ LocalInv'
  <2>1. CASE Exit(p)
    BY <1>6, <2>1, ExitType DEF InventoryAttempts
  <2>2. CASE ~ Exit(p)
    BY <1>6, <2>2 DEF InventoryAttempts, Local, Holding
  <2>. QED BY <2>1, <2>2
<1>7. ASSUME NEW p \in Process, Finish(p) PROVE TypeOK' /\ LocalInv'
  BY <1>7, ExitType DEF Finish
<1>8. ASSUME NEW p \in Process, SkipComplete(p) PROVE TypeOK' /\ LocalInv'
  <2>1. proc[p].index + 1 \in 1 .. CellCount + 1
    BY <1>8, CellAssumption DEF SkipComplete, Local, Cell
  <2>. QED BY <1>8, <2>1 DEF SkipComplete, Local, Holding
<1>9. ASSUME NEW p \in Process, RefuseCell(p) PROVE TypeOK' /\ LocalInv'
  BY <1>9, ExitType DEF RefuseCell
<1>10. ASSUME NEW p \in Process, AllocateNextAttempt(p) PROVE TypeOK' /\ LocalInv'
  <2>1. PICK a \in AttemptId \ proc[p].seen :
          proc' = [proc EXCEPT ![p].pc = "creating", ![p].attempt = a]
    BY <1>10 DEF AllocateNextAttempt
  <2> DEFINE next == [proc[p] EXCEPT !.pc = "creating", !.attempt = a]
  <2>2. /\ next \in Local /\ next.pc = "creating" /\ next.attempt = a
        /\ next.index = proc[p].index /\ next.limit = proc[p].limit
    BY DEF Local, Holding
  <2>3. proc' = [proc EXCEPT ![p] = next]
    BY <2>1
  <2>. HIDE DEF next
  <2>. QED BY <1>10, <2>2, <2>3 DEF AllocateNextAttempt
<1>11. ASSUME NEW p \in Process, CreateBundle(p) PROVE TypeOK' /\ LocalInv'
  <2>1. CASE proc[p].attempt \in staging \cup raw
    BY <1>11, <2>1, ExitType DEF CreateBundle
  <2>2. CASE proc[p].attempt \notin staging \cup raw
    <3>1. proc[p].index \in Cell /\ proc[p].commit \in Commit
      BY <1>11, CellAssumption DEF CreateBundle, Local, Cell
    <3>2. PICK n \in 1 .. MaxAttempts, prev \in AttemptId \cup {NoAttempt} :
            manifest' = [manifest EXCEPT ![proc[p].attempt] =
                [cell |-> proc[p].index, number |-> n, supersedes |-> prev,
                 commit |-> proc[p].commit, status |-> "open"]]
      BY <1>11, <2>2 DEF CreateBundle
    <3>3. manifest' \in [AttemptId -> Manifest]
      BY <3>1, <3>2 DEF Manifest
    <3>4. proc' \in [Process -> Local] /\ LocalInv'
      BY <1>11, <2>2 DEF CreateBundle, Local, Holding
    <3>. QED BY <1>11, <2>2, <3>3, <3>4 DEF CreateBundle
  <2>. QED BY <2>1, <2>2
<1>12. ASSUME NEW p \in Process, RunReturns(p) PROVE TypeOK' /\ LocalInv'
  <2>1. /\ staging' \subseteq AttemptId /\ raw' \subseteq AttemptId
        /\ manifest' \in [AttemptId -> Manifest] /\ litter' \subseteq Root
    BY <1>12, PublishType DEF RunReturns
  <2>2. proc' \in [Process -> Local] /\ LocalInv'
    <3>1. PICK s \in Final :
            proc' = [proc EXCEPT ![p].pc = "verifying", ![p].told = s]
      BY <1>12 DEF RunReturns
    <3> DEFINE next == [proc[p] EXCEPT !.pc = "verifying", !.told = s]
    <3>2. proc[p] \in Local /\ proc[p].pc = "running"
      BY <1>12 DEF RunReturns
    <3>3. /\ next \in Local /\ next.pc = "verifying"
          /\ next.index = proc[p].index /\ next.limit = proc[p].limit
          /\ next.attempt = proc[p].attempt
      BY <3>2 DEF Local, Holding
    <3>4. proc' = [proc EXCEPT ![p] = next]
      BY <3>1, <3>2
    <3> HIDE DEF next
    <3>. QED BY <3>2, <3>3, <3>4
  <2>. QED BY <1>12, <2>1, <2>2 DEF RunReturns
<1>13. ASSUME NEW p \in Process, RunRaises(p) PROVE TypeOK' /\ LocalInv'
  BY <1>13, PublishType, ExitType DEF RunRaises
<1>14. ASSUME NEW p \in Process, VerifyAttemptOutcome(p) PROVE TypeOK' /\ LocalInv'
  <2>1. CASE Exit(p)
    BY <1>14, <2>1, ExitType DEF VerifyAttemptOutcome
  <2>2. CASE ~ Exit(p)
    <3>1. proc[p].index + 1 \in 1 .. CellCount + 1
      BY <1>14, CellAssumption DEF VerifyAttemptOutcome, Local, Cell
    <3>. QED BY <1>14, <2>2, <3>1 DEF VerifyAttemptOutcome, Local, Holding
  <2>. QED BY <2>1, <2>2
<1>15. ASSUME NEW p \in Process, Crash(p) PROVE TypeOK' /\ LocalInv'
  BY <1>15, DefaultsType DEF Crash, Idle
<1>16. CASE OperatorResolves
  BY <1>16, DefaultsType DEF OperatorResolves
<1>17. CASE UNCHANGED vars
  BY <1>17 DEF vars
<1>. QED
  BY <1>1, <1>2, <1>3, <1>4, <1>5, <1>6, <1>7, <1>8, <1>9, <1>10, <1>11,
     <1>12, <1>13, <1>14, <1>15, <1>16, <1>17 DEF Next, Progress

\* Every state of the specification is well typed.
THEOREM TypeCorrect == Spec => []TypeOK
<1>1. Init => TypeOK /\ LocalInv
  BY DefaultsType DEF Init, TypeOK, LocalInv, Idle
<1>2. TypeOK /\ LocalInv /\ [Next]_vars => TypeOK' /\ LocalInv'
  BY TypeStep
<1>. QED  BY <1>1, <1>2, PTL DEF Spec

-----------------------------------------------------------------------------
(***************************************************************************)
(* One process in the lock context.                                        *)
(***************************************************************************)
LEMMA LockStep ==
  ASSUME TypeOK, LockInv, [Next]_vars
  PROVE  LockInv'
<1> USE NobodyAssumption DEF TypeOK, LockInv, store, At, Holding
<1>1. ASSUME NEW p \in Process, Start(p) PROVE LockInv'
  <2>1. PICK r \in Local : r.pc = "locking" /\ proc' = [proc EXCEPT ![p] = r]
    BY <1>1, StartLocal
  <2>. QED BY <1>1, <2>1 DEF Start
<1>2. ASSUME NEW p \in Process, AcquireCampaignLock(p) PROVE LockInv'
  BY <1>2 DEF AcquireCampaignLock, Local
<1>3. ASSUME NEW p \in Process, CampaignLockBusy(p) PROVE LockInv'
  BY <1>3 DEF CampaignLockBusy, Idle
<1>4. ASSUME NEW p \in Process, PrepareAttemptRoots(p) PROVE LockInv'
  BY <1>4 DEF PrepareAttemptRoots, Exit, Local, Idle
<1>5. ASSUME NEW p \in Process, ProbeFails(p) PROVE LockInv'
  BY <1>5 DEF ProbeFails, Exit, Idle
<1>6. ASSUME NEW p \in Process, InventoryAttempts(p) PROVE LockInv'
  BY <1>6 DEF InventoryAttempts, Exit, Local, Idle
<1>7. ASSUME NEW p \in Process, Finish(p) PROVE LockInv'
  BY <1>7 DEF Finish, Exit, Idle
<1>8. ASSUME NEW p \in Process, SkipComplete(p) PROVE LockInv'
  BY <1>8 DEF SkipComplete, Local
<1>9. ASSUME NEW p \in Process, RefuseCell(p) PROVE LockInv'
  BY <1>9 DEF RefuseCell, Exit, Idle
<1>10. ASSUME NEW p \in Process, AllocateNextAttempt(p) PROVE LockInv'
  BY <1>10 DEF AllocateNextAttempt, Local
<1>11. ASSUME NEW p \in Process, CreateBundle(p) PROVE LockInv'
  BY <1>11 DEF CreateBundle, Exit, Local, Idle
<1>12. ASSUME NEW p \in Process, RunReturns(p) PROVE LockInv'
  BY <1>12 DEF RunReturns, Local
<1>13. ASSUME NEW p \in Process, RunRaises(p) PROVE LockInv'
  BY <1>13 DEF RunRaises, Exit, Idle
<1>14. ASSUME NEW p \in Process, VerifyAttemptOutcome(p) PROVE LockInv'
  BY <1>14 DEF VerifyAttemptOutcome, Exit, Local, Idle
<1>15. ASSUME NEW p \in Process, Crash(p) PROVE LockInv'
  BY <1>15 DEF Crash, Idle
<1>16. CASE OperatorResolves
  BY <1>16 DEF OperatorResolves
<1>17. CASE UNCHANGED vars
  BY <1>17 DEF vars
<1>. QED
  BY <1>1, <1>2, <1>3, <1>4, <1>5, <1>6, <1>7, <1>8, <1>9, <1>10, <1>11,
     <1>12, <1>13, <1>14, <1>15, <1>16, <1>17 DEF Next, Progress
-----------------------------------------------------------------------------
(***************************************************************************)
(* What the holder relies on stays true under every step.                  *)
(***************************************************************************)
HolderOf(q) ==
    SnapshotCurrent(q) /\ StagingOwned(q) /\ PrefixComplete(q)
    /\ Allocatable(q) /\ Opened(q)

\* Nothing is promised before the roots are prepared.
LEMMA OutsideLoop ==
  ASSUME NEW q, proc'[q].pc \in {"idle", "locking", "preparing"}
  PROVE  HolderOf(q)'
BY DEF HolderOf, SnapshotCurrent, StagingOwned, PrefixComplete, Allocatable, Opened

\* A process is not affected by steps that leave the evidence and it alone.
LEMMA Unaffected ==
  ASSUME NEW q, HolderOf(q), proc'[q] = proc[q],
         UNCHANGED <<staging, raw, manifest>>
  PROVE  HolderOf(q)'
BY DEF HolderOf, SnapshotCurrent, StagingOwned, PrefixComplete, Allocatable, Opened,
       RecordsOf, HasComplete, NextNumber, Predecessor

\* While p is in the lock context every other process is outside.
LEMMA OthersOutside ==
  ASSUME TypeOK, LockInv, NEW p \in Process, proc[p].pc \in Holding,
         NEW q \in Process, q # p, proc'[q] = proc[q]
  PROVE  HolderOf(q)'
<1>1. proc[q].pc \notin Holding
  BY DEF LockInv
<1>2. proc'[q].pc \in {"idle", "locking"}
  BY <1>1 DEF TypeOK, Local
<1>. QED BY <1>2, OutsideLoop

\* An exiting process keeps nothing, and the others were outside.
LEMMA ExitHolder ==
  ASSUME TypeOK, LockInv, NEW p \in Process, proc[p].pc \in Holding, Exit(p)
  PROVE  \A q \in Process : HolderOf(q)'
<1> SUFFICES ASSUME NEW q \in Process PROVE HolderOf(q)'
  OBVIOUS
<1>1. CASE q = p
  BY <1>1, OutsideLoop DEF Exit, TypeOK, Idle
<1>2. CASE q # p
  BY <1>2, OthersOutside DEF Exit, TypeOK
<1>. QED BY <1>1, <1>2

\* What a chain looks like depends on the manifests of its members only.
LEMMA SameRecords ==
  ASSUME raw' = raw, \A a \in raw : manifest'[a] = manifest[a], NEW c
  PROVE  /\ RecordsOf(raw, c)' = RecordsOf(raw, c)
         /\ HasComplete(raw, c)' <=> HasComplete(raw, c)
         /\ ValidChain(raw, c)' <=> ValidChain(raw, c)
         /\ \A n : NextNumber(raw, c, n)' <=> NextNumber(raw, c, n)
         /\ \A n, a : Predecessor(raw, c, n, a)' <=> Predecessor(raw, c, n, a)
<1>1. RecordsOf(raw, c)' = RecordsOf(raw, c)
  BY DEF RecordsOf
<1>2. \A a \in RecordsOf(raw, c) : manifest'[a] = manifest[a]
  BY DEF RecordsOf
<1>3. HasComplete(raw, c)' <=> HasComplete(raw, c)
  BY <1>1, <1>2 DEF HasComplete
<1>4. ValidChain(raw, c)' <=> ValidChain(raw, c)
  <2>1. Contiguous(raw, c)' <=> Contiguous(raw, c)
    BY <1>1, <1>2 DEF Contiguous
  <2>2. StopsAtComplete(raw, c)' <=> StopsAtComplete(raw, c)
    BY <1>1, <1>2 DEF StopsAtComplete
  <2>3. Linked(raw, c)' <=> Linked(raw, c)
    BY <1>1, <1>2 DEF Linked
  <2>4. WithinBudget(raw, c)' <=> WithinBudget(raw, c)
    BY <1>1, <1>2 DEF WithinBudget
  <2>. QED BY <2>1, <2>2, <2>3, <2>4 DEF ValidChain
<1>5. {manifest[a].number : a \in RecordsOf(raw, c)}'
        = {manifest[a].number : a \in RecordsOf(raw, c)}
  BY <1>1, <1>2
<1>. QED BY <1>1, <1>2, <1>3, <1>4, <1>5 DEF NextNumber, Predecessor

\* Publishing a staged bundle adds it to the raw root with its manifest.
LEMMA Published ==
  ASSUME TypeOK, NEW a, Publish(a)
  PROVE  /\ a \in AttemptId /\ a \notin raw /\ raw' = raw \cup {a}
         /\ staging' = staging \ {a}
         /\ \A b \in raw : manifest'[b] = manifest[b]
         /\ manifest'[a].cell = manifest[a].cell
         /\ manifest'[a].number = manifest[a].number
         /\ manifest'[a].supersedes = manifest[a].supersedes
         /\ manifest'[a].commit = manifest[a].commit
         /\ \A c : HasComplete(raw, c) => HasComplete(raw, c)'
<1>1. /\ a \in AttemptId /\ a \notin raw /\ raw' = raw \cup {a}
      /\ staging' = staging \ {a}
      /\ \A b \in raw : manifest'[b] = manifest[b]
  BY DEF TypeOK, Publish
<1>2. PICK s \in Final : manifest' = [manifest EXCEPT ![a].status = s]
  BY DEF Publish
<1>3. manifest'[a] = [manifest[a] EXCEPT !.status = s] /\ manifest[a] \in Manifest
  BY <1>1, <1>2 DEF TypeOK
<1>4. \A c : HasComplete(raw, c) => HasComplete(raw, c)'
  BY <1>1 DEF HasComplete, RecordsOf
<1>. QED BY <1>1, <1>3, <1>4 DEF Manifest
\* Every step keeps what the lock holder relies on.
LEMMA HolderStep ==
  ASSUME TypeOK, LocalInv, LockInv, HolderInv, OneUnresolvedBundle, [Next]_vars
  PROVE  HolderInv'
<1> SUFFICES ASSUME NEW q \in Process PROVE HolderOf(q)'
  BY DEF HolderInv, HolderOf
<1>a. HolderOf(q)
  BY DEF HolderInv, HolderOf
<1> USE DEF store, At
<1>1. ASSUME NEW p \in Process, Start(p) PROVE HolderOf(q)'
  <2>1. PICK r \in Local : r.pc = "locking" /\ proc' = [proc EXCEPT ![p] = r]
    BY <1>1, StartLocal
  <2>2. CASE q = p
    BY <2>1, <2>2, OutsideLoop DEF TypeOK
  <2>3. CASE q # p
    BY <1>a, <1>1, <2>1, <2>3, Unaffected DEF TypeOK, Start
  <2>. QED BY <2>2, <2>3
<1>2. ASSUME NEW p \in Process, AcquireCampaignLock(p) PROVE HolderOf(q)'
  <2>1. CASE q = p
    BY <1>2, <2>1, OutsideLoop DEF AcquireCampaignLock, TypeOK, Local
  <2>2. CASE q # p
    BY <1>a, <1>2, <2>2, Unaffected DEF TypeOK, AcquireCampaignLock
  <2>. QED BY <2>1, <2>2
<1>3. ASSUME NEW p \in Process, CampaignLockBusy(p) PROVE HolderOf(q)'
  <2>1. CASE q = p
    BY <1>3, <2>1, OutsideLoop DEF CampaignLockBusy, TypeOK, Idle
  <2>2. CASE q # p
    BY <1>a, <1>3, <2>2, Unaffected DEF TypeOK, CampaignLockBusy
  <2>. QED BY <2>1, <2>2
<1>4. ASSUME NEW p \in Process, PrepareAttemptRoots(p) PROVE HolderOf(q)'
  <2>1. proc[p].pc \in Holding
    BY <1>4 DEF PrepareAttemptRoots, Holding
  <2>2. CASE Exit(p)
    BY <2>1, <2>2, ExitHolder
  <2>3. CASE ~ Exit(p) /\ q # p
    BY <1>4, <2>1, <2>3, OthersOutside DEF PrepareAttemptRoots, TypeOK
  <2>4. CASE ~ Exit(p) /\ q = p
    <3>1. /\ proc'[q].pc = "inventory" /\ proc'[q].index = 1
          /\ staging' = {}
      BY <1>4, <2>4 DEF PrepareAttemptRoots, TypeOK, Local
    <3>. QED
      BY <3>1 DEF HolderOf, SnapshotCurrent, StagingOwned, PrefixComplete, Allocatable, Opened
  <2>. QED BY <2>2, <2>3, <2>4
<1>5. ASSUME NEW p \in Process, ProbeFails(p) PROVE HolderOf(q)'
  <2>1. proc[p].pc \in Holding /\ Exit(p)
    BY <1>5 DEF ProbeFails, Holding
  <2>. QED BY <2>1, ExitHolder
<1>6. ASSUME NEW p \in Process, InventoryAttempts(p) PROVE HolderOf(q)'
  <2>1. proc[p].pc \in Holding
    BY <1>6 DEF InventoryAttempts, Holding
  <2>2. CASE Exit(p)
    BY <2>1, <2>2, ExitHolder
  <2>3. CASE ~ Exit(p) /\ q # p
    BY <1>6, <2>1, <2>3, OthersOutside DEF InventoryAttempts, TypeOK
  <2>4. CASE ~ Exit(p) /\ q = p
    <3>1. /\ proc[q].pc = "inventory" /\ proc'[q].pc = "deciding"
          /\ proc'[q].seen = raw /\ proc'[q].commit = proc[q].commit
          /\ proc'[q].index = proc[q].index
          /\ UNCHANGED <<staging, raw, manifest>>
          /\ \A a \in raw : manifest[a].commit = proc[q].commit
      BY <1>6, <2>4 DEF InventoryAttempts, ValidInventory, TypeOK, Local
    <3>2. StagingOwned(q)' /\ SnapshotCurrent(q)'
      BY <1>a, <3>1 DEF HolderOf, StagingOwned, SnapshotCurrent
    <3>3. PrefixComplete(q)'
      BY <1>a, <3>1 DEF HolderOf, PrefixComplete, HasComplete, RecordsOf
    <3>. QED BY <3>1, <3>2, <3>3 DEF HolderOf, Allocatable, Opened
  <2>. QED BY <2>2, <2>3, <2>4
<1>7. ASSUME NEW p \in Process, Finish(p) PROVE HolderOf(q)'
  BY <1>7, ExitHolder DEF Finish, Holding
<1>8. ASSUME NEW p \in Process, SkipComplete(p) PROVE HolderOf(q)'
  <2>1. proc[p].pc \in Holding
    BY <1>8 DEF SkipComplete, Holding
  <2>2. CASE q # p
    BY <1>8, <2>1, <2>2, OthersOutside DEF SkipComplete, TypeOK
  <2>3. CASE q = p
    <3>1. /\ proc[q].pc = "deciding" /\ proc'[q].pc = "inventory"
          /\ proc'[q].index = proc[q].index + 1
          /\ UNCHANGED <<staging, raw, manifest>>
          /\ HasComplete(proc[q].seen, proc[q].index)
      BY <1>8, <2>3 DEF SkipComplete, IsComplete, TypeOK, Local
    <3>2. /\ proc[q].seen = raw /\ staging = {}
          /\ \A c \in 1 .. proc[q].index - 1 : HasComplete(raw, c)
      BY <1>a, <3>1 DEF HolderOf, SnapshotCurrent, StagingOwned, PrefixComplete
    <3>3. \A c \in 1 .. proc'[q].index - 1 : HasComplete(raw, c)
      BY <3>1, <3>2 DEF TypeOK, Local
    <3>4. PrefixComplete(q)'
      BY <3>1, <3>3 DEF PrefixComplete, HasComplete, RecordsOf
    <3>. QED
      BY <3>1, <3>2, <3>4 DEF HolderOf, SnapshotCurrent, StagingOwned, Allocatable, Opened
  <2>. QED BY <2>2, <2>3
<1>9. ASSUME NEW p \in Process, RefuseCell(p) PROVE HolderOf(q)'
  BY <1>9, ExitHolder DEF RefuseCell, Holding
<1>10. ASSUME NEW p \in Process, AllocateNextAttempt(p) PROVE HolderOf(q)'
  <2>1. proc[p].pc \in Holding
    BY <1>10 DEF AllocateNextAttempt, Holding
  <2>2. PICK a \in AttemptId \ proc[p].seen :
          proc' = [proc EXCEPT ![p].pc = "creating", ![p].attempt = a]
    BY <1>10 DEF AllocateNextAttempt
  <2>3. CASE q # p
    BY <2>1, <2>2, <2>3, OthersOutside DEF TypeOK
  <2>4. CASE q = p
    <3> DEFINE next == [proc[q] EXCEPT !.pc = "creating", !.attempt = a]
    <3>1. /\ next.pc = "creating" /\ next.attempt = a
          /\ next.index = proc[q].index /\ next.seen = proc[q].seen
          /\ next.commit = proc[q].commit /\ next.resume = proc[q].resume
      BY DEF TypeOK, Local
    <3>2. proc'[q] = next
      BY <2>2, <2>4 DEF TypeOK
    <3> HIDE DEF next
    <3>3. /\ proc[q].pc = "deciding" /\ UNCHANGED <<staging, raw, manifest>>
          /\ ~ NeedsResume(q) /\ ~ IsComplete(q) /\ ~ BudgetSpent(q)
      BY <1>10, <2>4 DEF AllocateNextAttempt
    <3>4. SnapshotCurrent(q)'
      BY <1>a, <3>1, <3>2, <3>3 DEF HolderOf, SnapshotCurrent
    <3>5. StagingOwned(q)'
      BY <1>a, <3>1, <3>2, <3>3 DEF HolderOf, StagingOwned
    <3>6. PrefixComplete(q)'
      BY <1>a, <3>1, <3>2, <3>3 DEF HolderOf, PrefixComplete, HasComplete, RecordsOf
    <3>7. proc[q].seen = raw
      BY <1>a, <3>3 DEF HolderOf, SnapshotCurrent
    <3>8. /\ ~ HasComplete(raw, proc[q].index)
          /\ \A b \in RecordsOf(raw, proc[q].index) : manifest[b].number < MaxAttempts
          /\ RecordsOf(raw, proc[q].index) # {} => proc[q].resume
      <4>1. \A b \in raw : manifest[b].number \in Nat
        BY DEF TypeOK, Manifest
      <4>. QED
        BY <3>3, <3>7, <4>1, BudgetAssumption
        DEF NeedsResume, IsComplete, BudgetSpent, RecordsOf
    <3>9. Allocatable(q)'
      <4>1. proc'[q].attempt \notin raw'
        BY <2>2, <2>4, <3>1, <3>2, <3>3, <3>7
      <4>2. RecordsOf(raw, proc[q].index) = {b \in raw : manifest[b].cell = proc[q].index}
        BY DEF RecordsOf
      <4>. QED
        BY <3>1, <3>2, <3>3, <3>8, <4>1, <4>2, SameRecords DEF Allocatable, HasComplete, RecordsOf
    <3>. QED BY <3>1, <3>2, <3>4, <3>5, <3>6, <3>9 DEF HolderOf, Opened
  <2>. QED BY <2>3, <2>4
<1>11. ASSUME NEW p \in Process, CreateBundle(p) PROVE HolderOf(q)'
  <2>1. proc[p].pc \in Holding
    BY <1>11 DEF CreateBundle, Holding
  <2>2. CASE Exit(p)
    BY <2>1, <2>2, ExitHolder
  <2>3. CASE ~ Exit(p) /\ q # p
    BY <1>11, <2>1, <2>3, OthersOutside DEF CreateBundle, TypeOK
  <2>4. CASE ~ Exit(p) /\ q = p
    <3> DEFINE a == proc[q].attempt
    <3>1. /\ proc[q].pc = "creating" /\ a \notin staging \cup raw
          /\ staging' = staging \cup {a} /\ raw' = raw
          /\ proc' = [proc EXCEPT ![q].pc = "running"]
      BY <1>11, <2>4 DEF CreateBundle
    <3>2. PICK n \in 1 .. MaxAttempts, prev \in AttemptId \cup {NoAttempt} :
            /\ NextNumber(proc[q].seen, proc[q].index, n)
            /\ Predecessor(proc[q].seen, proc[q].index, n, prev)
            /\ manifest' = [manifest EXCEPT ![a] =
                  [cell |-> proc[q].index, number |-> n, supersedes |-> prev,
                   commit |-> proc[q].commit, status |-> "open"]]
      BY <1>11, <2>4 DEF CreateBundle
    <3>3. a \in AttemptId
      BY <3>1 DEF LocalInv
    <3>4. \A b \in raw : manifest'[b] = manifest[b]
      BY <3>1, <3>2 DEF TypeOK
    <3>5. /\ proc'[q].pc = "running" /\ proc'[q].attempt = a
          /\ proc'[q].index = proc[q].index /\ proc'[q].seen = proc[q].seen
          /\ proc'[q].commit = proc[q].commit /\ proc'[q].resume = proc[q].resume
      BY <3>1 DEF TypeOK, Local
    <3>6. proc[q].seen = raw /\ \A b \in raw : manifest[b].commit = proc[q].commit
      BY <1>a, <3>1 DEF HolderOf, SnapshotCurrent
    <3>7. SnapshotCurrent(q)'
      BY <3>1, <3>4, <3>5, <3>6 DEF SnapshotCurrent
    <3>8. StagingOwned(q)'
      BY <1>a, <3>1, <3>5 DEF HolderOf, StagingOwned
    <3>9. PrefixComplete(q)'
      BY <1>a, <3>1, <3>4, <3>5, SameRecords DEF HolderOf, PrefixComplete
    <3>10. Allocatable(q)'
      <4>1. \A b \in RecordsOf(raw, proc[q].index) : manifest'[b] = manifest[b]
        BY <3>4 DEF RecordsOf
      <4>. QED
        BY <1>a, <3>1, <3>4, <3>5, <4>1, SameRecords DEF HolderOf, Allocatable
    <3>11. Opened(q)'
      <4>1. /\ manifest'[a].cell = proc[q].index /\ manifest'[a].number = n
            /\ manifest'[a].supersedes = prev /\ manifest'[a].commit = proc[q].commit
        BY <3>2, <3>3 DEF TypeOK
      <4>2. PICK i : i = proc[q].index
        OBVIOUS
      <4>3. NextNumber(raw, i, n)' /\ Predecessor(raw, i, n, prev)'
        BY <3>1, <3>2, <3>4, <3>6, <4>2, SameRecords
      <4>4. proc'[q].index = i /\ manifest'[a].cell = i
        BY <3>5, <4>1, <4>2
      <4>. QED BY <3>5, <4>1, <4>3, <4>4 DEF Opened
    <3>. QED BY <3>7, <3>8, <3>9, <3>10, <3>11 DEF HolderOf
  <2>. QED BY <2>2, <2>3, <2>4
<1>12. ASSUME NEW p \in Process, RunReturns(p) PROVE HolderOf(q)'
  <2>1. proc[p].pc \in Holding
    BY <1>12 DEF RunReturns, Holding
  <2>2. CASE q # p
    BY <1>12, <2>1, <2>2, OthersOutside DEF RunReturns, TypeOK
  <2>3. CASE q = p
    <3>1. /\ proc[q].pc = "running" /\ proc'[q].pc = "verifying"
          /\ proc'[q].index = proc[q].index /\ proc'[q].attempt = proc[q].attempt
          /\ UNCHANGED store \/ Publish(proc[q].attempt)
      BY <1>12, <2>3 DEF RunReturns, TypeOK, Local
    <3>2. staging = {proc[q].attempt} /\ proc[q].attempt \notin raw
      BY <1>a, <3>1 DEF HolderOf, StagingOwned, Allocatable
    <3>3. /\ StagingOwned(q)'
          /\ \A c : HasComplete(raw, c) => HasComplete(raw, c)'
      <4>1. CASE UNCHANGED store
        BY <3>1, <3>2, <4>1 DEF StagingOwned, store, HasComplete, RecordsOf
      <4>2. CASE Publish(proc[q].attempt)
        BY <3>1, <3>2, <4>2, Published DEF StagingOwned
      <4>. QED BY <3>1, <4>1, <4>2
    <3>4. PrefixComplete(q)'
      <4>1. \A c \in 1 .. proc[q].index - 1 : HasComplete(raw, c)
        BY <1>a, <3>1 DEF HolderOf, PrefixComplete
      <4>. QED BY <3>1, <3>3, <4>1 DEF PrefixComplete
    <3>. QED
      BY <3>1, <3>3, <3>4 DEF HolderOf, SnapshotCurrent, Allocatable, Opened
  <2>. QED BY <2>2, <2>3
<1>13. ASSUME NEW p \in Process, RunRaises(p) PROVE HolderOf(q)'
  BY <1>13, ExitHolder DEF RunRaises, Holding
<1>14. ASSUME NEW p \in Process, VerifyAttemptOutcome(p) PROVE HolderOf(q)'
  <2>1. proc[p].pc \in Holding
    BY <1>14 DEF VerifyAttemptOutcome, Holding
  <2>2. CASE Exit(p)
    BY <2>1, <2>2, ExitHolder
  <2>3. CASE ~ Exit(p) /\ q # p
    BY <1>14, <2>1, <2>3, OthersOutside DEF VerifyAttemptOutcome, TypeOK
  <2>4. CASE ~ Exit(p) /\ q = p
    <3>1. /\ proc[q].pc = "verifying" /\ proc'[q].pc = "inventory"
          /\ proc'[q].index = proc[q].index + 1
          /\ UNCHANGED <<staging, raw, manifest>>
          /\ HasComplete(raw, proc[q].index) /\ proc[q].attempt \in raw
      BY <1>14, <2>4 DEF VerifyAttemptOutcome, Verified, HasComplete, RecordsOf, TypeOK, Local
    <3>2. /\ staging = {}
          /\ \A c \in 1 .. proc[q].index - 1 : HasComplete(raw, c)
      BY <1>a, <3>1 DEF HolderOf, StagingOwned, PrefixComplete
    <3>3. \A c \in 1 .. proc'[q].index - 1 : HasComplete(raw, c)
      BY <3>1, <3>2 DEF TypeOK, Local
    <3>4. PrefixComplete(q)'
      BY <3>1, <3>3 DEF PrefixComplete, HasComplete, RecordsOf
    <3>. QED
      BY <3>1, <3>2, <3>4 DEF HolderOf, SnapshotCurrent, StagingOwned, Allocatable, Opened
  <2>. QED BY <2>2, <2>3, <2>4
<1>15. ASSUME NEW p \in Process, Crash(p) PROVE HolderOf(q)'
  <2>1. CASE q = p
    BY <1>15, <2>1, OutsideLoop DEF Crash, TypeOK, Idle
  <2>2. CASE q # p
    BY <1>a, <1>15, <2>2, Unaffected DEF Crash, TypeOK
  <2>. QED BY <2>1, <2>2
<1>16. CASE OperatorResolves
  <2>1. proc'[q].pc \in {"idle", "locking"}
    BY <1>16, NobodyAssumption DEF OperatorResolves, TypeOK, LockInv, Local
  <2>. QED BY <2>1, OutsideLoop
<1>17. CASE UNCHANGED vars
  BY <1>a, <1>17, Unaffected DEF vars
<1>. QED
  BY <1>1, <1>2, <1>3, <1>4, <1>5, <1>6, <1>7, <1>8, <1>9, <1>10, <1>11,
     <1>12, <1>13, <1>14, <1>15, <1>16, <1>17 DEF Next, Progress
-----------------------------------------------------------------------------
(***************************************************************************)
(* The raw root.                                                           *)
(***************************************************************************)
\* Publishing the holder's bundle extends its chain by one valid attempt.
LEMMA PublishChain ==
  ASSUME TypeOK, ChainsValid, NEW q \in Process, proc[q].pc = "running",
         Allocatable(q), Opened(q), Publish(proc[q].attempt)
  PROVE  ChainsValid'
<1> DEFINE a == proc[q].attempt
<1>0. PICK A, i, n, prev : /\ A = a /\ i = manifest[a].cell
                           /\ n = manifest[a].number /\ prev = manifest[a].supersedes
  OBVIOUS
<1>1. /\ A \in AttemptId /\ A \notin raw /\ raw' = raw \cup {A}
      /\ \A b \in raw : manifest'[b] = manifest[b]
      /\ manifest'[A].cell = i /\ manifest'[A].number = n
      /\ manifest'[A].supersedes = prev
  BY <1>0, Published
<1>2. /\ n \in 1 .. MaxAttempts /\ MaxAttempts \in Nat
      /\ \A b \in raw : manifest[b].number \in 1 .. MaxAttempts
  BY <1>0, <1>1, BudgetAssumption DEF TypeOK, Manifest
<1>3. /\ ~ HasComplete(raw, i)
      /\ NextNumber(raw, i, n) /\ Predecessor(raw, i, n, prev)
  BY <1>0 DEF Allocatable, Opened
<1>4. SUFFICES ASSUME NEW c \in Cell PROVE ValidChain(raw, c)'
  BY DEF ChainsValid
<1>5. ValidChain(raw, c)
  BY DEF ChainsValid
<1>6. CASE c # i
  <2>1. RecordsOf(raw, c)' = RecordsOf(raw, c)
    BY <1>1, <1>6 DEF RecordsOf
  <2>2. \A b \in RecordsOf(raw, c) : manifest'[b] = manifest[b]
    BY <1>1 DEF RecordsOf
  <2>3. Contiguous(raw, c)'
    BY <1>5, <2>1, <2>2 DEF ValidChain, Contiguous
  <2>4. StopsAtComplete(raw, c)'
    BY <1>5, <2>1, <2>2 DEF ValidChain, StopsAtComplete
  <2>5. Linked(raw, c)'
    BY <1>5, <2>1, <2>2 DEF ValidChain, Linked
  <2>6. WithinBudget(raw, c)'
    BY <1>5, <2>1, <2>2 DEF ValidChain, WithinBudget
  <2>. QED BY <2>3, <2>4, <2>5, <2>6 DEF ValidChain
<1>7. CASE c = i
  <2> DEFINE R == RecordsOf(raw, c)
  <2>1. RecordsOf(raw, c)' = R \cup {A}
    BY <1>1, <1>7 DEF RecordsOf
  <2>2. \A b \in R : b \in raw /\ manifest'[b] = manifest[b]
    BY <1>1 DEF RecordsOf
  <2>3. /\ \A b \in R : manifest[b].number \in 1 .. n - 1
        /\ \A k \in 1 .. n - 1 : \E b \in R : manifest[b].number = k
    BY <1>3, <1>7 DEF NextNumber
  <2>4. \A b \in R : manifest[b].status # "complete"
    BY <1>3, <1>7 DEF HasComplete
  <2>5. Contiguous(raw, c)'
    <3>1. ASSUME NEW x \in R \cup {A}, NEW y \in R \cup {A},
                 manifest'[x].number = manifest'[y].number
          PROVE  x = y
      <4>1. CASE x \in R /\ y \in R
        BY <1>5, <2>2, <3>1, <4>1 DEF ValidChain, Contiguous
      <4>2. CASE x = A \/ y = A
        BY <1>1, <1>2, <2>2, <2>3, <3>1, <4>2
      <4>. QED BY <4>1, <4>2
    <3>2. ASSUME NEW x \in R \cup {A}, NEW k \in 1 .. manifest'[x].number
          PROVE  \E y \in R \cup {A} : manifest'[y].number = k
      <4>1. k \in 1 .. n
        BY <1>1, <1>2, <2>2, <2>3
      <4>2. CASE k = n
        BY <1>1, <4>2
      <4>3. CASE k \in 1 .. n - 1
        BY <2>2, <2>3, <4>3
      <4>. QED BY <1>2, <4>1, <4>2, <4>3
    <3>. QED BY <2>1, <3>1, <3>2 DEF Contiguous
  <2>6. StopsAtComplete(raw, c)'
    BY <1>1, <1>2, <2>1, <2>2, <2>3, <2>4 DEF StopsAtComplete
  <2>7. Linked(raw, c)'
    <3>1. ASSUME NEW x \in R
          PROVE  IF manifest'[x].number = 1
                 THEN manifest'[x].supersedes = NoAttempt
                 ELSE \E b \in R \cup {A} :
                         /\ manifest'[b].number = manifest'[x].number - 1
                         /\ manifest'[x].supersedes = b
      BY <1>5, <2>2 DEF ValidChain, Linked
    <3>2. IF n = 1 THEN prev = NoAttempt
          ELSE \E b \in R \cup {A} : manifest'[b].number = n - 1 /\ prev = b
      BY <1>3, <1>7, <2>2 DEF Predecessor
    <3>. QED BY <1>1, <2>1, <3>1, <3>2 DEF Linked
  <2>8. WithinBudget(raw, c)'
    BY <1>1, <1>2, <2>1, <2>2 DEF WithinBudget
  <2>. QED BY <2>5, <2>6, <2>7, <2>8 DEF ValidChain
<1>. QED BY <1>6, <1>7

\* Publishing the holder's bundle keeps all that is claimed of the store.
LEMMA PublishStore ==
  ASSUME TypeOK, StoreInv, NEW q \in Process, proc[q].pc = "running",
         HolderOf(q), Publish(proc[q].attempt)
  PROVE  StoreInv'
<1> DEFINE a == proc[q].attempt
<1>1. /\ raw' = raw \cup {a} /\ staging' = staging \ {a}
      /\ \A b \in raw : manifest'[b] = manifest[b]
      /\ manifest'[a].cell = manifest[a].cell
      /\ manifest'[a].commit = manifest[a].commit
      /\ \A c : HasComplete(raw, c) => HasComplete(raw, c)'
  BY Published
<1>2. ChainsValid'
  BY PublishChain DEF StoreInv, HolderOf
<1>3. OneUnresolvedBundle'
  BY <1>1 DEF StoreInv, OneUnresolvedBundle
<1>4. OneCommit'
  <2>1. \A b \in raw : manifest[b].commit = manifest[a].commit
    BY DEF HolderOf, SnapshotCurrent, Opened
  <2>2. \A b \in raw' : manifest'[b].commit = manifest[a].commit
    BY <1>1, <2>1
  <2>. QED BY <2>2 DEF OneCommit
<1>5. ScheduleOrder'
  <2>1. \A c \in 1 .. manifest[a].cell - 1 : HasComplete(raw, c)
    BY DEF HolderOf, PrefixComplete, Opened
  <2>2. \A b \in raw' : \A c \in 1 .. manifest'[b].cell - 1 : HasComplete(raw, c)
    BY <1>1, <2>1 DEF StoreInv, ScheduleOrder
  <2>. QED BY <1>1, <2>2 DEF ScheduleOrder
<1>. QED BY <1>2, <1>3, <1>4, <1>5 DEF StoreInv

\* A step that leaves the raw root and its manifests alone keeps them too.
LEMMA SameStore ==
  ASSUME StoreInv, raw' = raw, \A a \in raw : manifest'[a] = manifest[a],
         OneUnresolvedBundle'
  PROVE  StoreInv'
<1>1. ChainsValid'
  BY SameRecords DEF StoreInv, ChainsValid
<1>2. ScheduleOrder'
  BY SameRecords DEF StoreInv, ScheduleOrder
<1>3. OneCommit'
  BY DEF StoreInv, OneCommit
<1>. QED BY <1>1, <1>2, <1>3 DEF StoreInv

\* Every step keeps what is claimed of the evidence store.
LEMMA StoreStep ==
  ASSUME TypeOK, HolderInv, StoreInv, [Next]_vars
  PROVE  StoreInv'
<1> USE DEF store, At
<1>1. ASSUME NEW p \in Process, CreateBundle(p) PROVE StoreInv'
  <2> DEFINE a == proc[p].attempt
  <2>1. CASE a \in staging \cup raw
    BY <1>1, <2>1, SameStore DEF CreateBundle, StoreInv, OneUnresolvedBundle
  <2>2. CASE a \notin staging \cup raw
    <3>1. staging = {}
      BY <1>1 DEF CreateBundle, HolderInv, StagingOwned
    <3>2. raw' = raw /\ staging' = {a} /\ \A b \in raw : manifest'[b] = manifest[b]
      BY <1>1, <2>2, <3>1 DEF CreateBundle, TypeOK
    <3>. QED BY <3>2, SameStore DEF OneUnresolvedBundle
  <2>. QED BY <2>1, <2>2
<1>2. ASSUME NEW p \in Process, RunReturns(p) PROVE StoreInv'
  <2>1. CASE Publish(proc[p].attempt)
    BY <1>2, <2>1, PublishStore DEF RunReturns, HolderInv, HolderOf
  <2>2. CASE UNCHANGED store
    BY <2>2, SameStore DEF StoreInv, OneUnresolvedBundle
  <2>. QED BY <1>2, <2>1, <2>2 DEF RunReturns
<1>3. ASSUME NEW p \in Process, RunRaises(p) PROVE StoreInv'
  <2>1. CASE Publish(proc[p].attempt)
    BY <1>3, <2>1, PublishStore DEF RunRaises, HolderInv, HolderOf
  <2>2. CASE UNCHANGED store
    BY <2>2, SameStore DEF StoreInv, OneUnresolvedBundle
  <2>. QED BY <1>3, <2>1, <2>2 DEF RunRaises
<1>4. CASE OperatorResolves
  BY <1>4, SameStore DEF OperatorResolves, OneUnresolvedBundle, TypeOK
<1>5. CASE UNCHANGED <<staging, raw, manifest>>
  BY <1>5, SameStore DEF StoreInv, OneUnresolvedBundle
<1>6. ASSUME NEW p \in Process, \/ Start(p) \/ AcquireCampaignLock(p)
                                \/ CampaignLockBusy(p) \/ PrepareAttemptRoots(p)
                                \/ ProbeFails(p) \/ InventoryAttempts(p) \/ Finish(p)
                                \/ SkipComplete(p) \/ RefuseCell(p)
                                \/ AllocateNextAttempt(p) \/ VerifyAttemptOutcome(p)
                                \/ Crash(p)
      PROVE  UNCHANGED <<staging, raw, manifest>>
  BY <1>6 DEF Start, AcquireCampaignLock, CampaignLockBusy, PrepareAttemptRoots,
     ProbeFails, InventoryAttempts, Finish, SkipComplete, RefuseCell,
     AllocateNextAttempt, VerifyAttemptOutcome, Crash
<1>. QED BY <1>1, <1>2, <1>3, <1>4, <1>5, <1>6 DEF Next, Progress, vars

-----------------------------------------------------------------------------
(***************************************************************************)
(* The inductive invariant and what follows from it.                       *)
(***************************************************************************)
\* The inductive invariant: typing, the position in the loop, the lock, what
\* the lock holder relies on, and the claims about the store.
THEOREM Invariant == Spec => []Inv
<1>1. Init => Inv
  <2> SUFFICES ASSUME Init PROVE Inv
    OBVIOUS
  <2>1. TypeOK /\ LocalInv
    BY DefaultsType DEF Init, TypeOK, LocalInv, Idle
  <2>2. LockInv
    BY NobodyAssumption DEF Init, LockInv, Idle, Holding
  <2>3. HolderInv
    BY DEF Init, HolderInv, Idle, SnapshotCurrent, StagingOwned, PrefixComplete,
       Allocatable, Opened
  <2>4. StoreInv
    BY DEF Init, StoreInv, ChainsValid, ScheduleOrder, OneCommit, OneUnresolvedBundle,
       ValidChain, Contiguous, StopsAtComplete, Linked, WithinBudget, RecordsOf
  <2>. QED BY <2>1, <2>2, <2>3, <2>4 DEF Inv
<1>2. Inv /\ [Next]_vars => Inv'
  BY TypeStep, LockStep, HolderStep, StoreStep DEF Inv, StoreInv
<1>. QED BY <1>1, <1>2, PTL DEF Spec

\* Only one process is in the lock context, and it holds the flock.
THEOREM MutualExclusion ==
  Spec => [](\A p, q \in Process :
                proc[p].pc \in Holding /\ proc[q].pc \in Holding => p = q)
<1>1. Inv => \A p, q \in Process :
                proc[p].pc \in Holding /\ proc[q].pc \in Holding => p = q
  BY DEF Inv, LockInv
<1>. QED BY <1>1, Invariant, PTL

\* inventory_attempts never meets an invalid chain that the coordinators wrote.
THEOREM ChainsAlwaysValid == Spec => []ChainsValid
<1>1. Inv => ChainsValid
  BY DEF Inv, StoreInv
<1>. QED BY <1>1, Invariant, PTL

\* Attempts follow the frozen order of the schedule.
THEOREM ScheduleOrderKept == Spec => []ScheduleOrder
<1>1. Inv => ScheduleOrder
  BY DEF Inv, StoreInv
<1>. QED BY <1>1, Invariant, PTL

\* The dataset comes from one collection commit.
THEOREM OneCommitOnly == Spec => []OneCommit
<1>1. Inv => OneCommit
  BY DEF Inv, StoreInv
<1>. QED BY <1>1, Invariant, PTL

\* At most one bundle is unresolved.
THEOREM OneUnresolved == Spec => []OneUnresolvedBundle
<1>1. Inv => OneUnresolvedBundle
  BY DEF Inv, StoreInv
<1>. QED BY <1>1, Invariant, PTL
-----------------------------------------------------------------------------
(***************************************************************************)
(* Action properties.                                                      *)
(***************************************************************************)
\* The raw root changes only when a running process publishes its bundle.
LEMMA RawStep ==
  ASSUME Inv, [Next]_vars
  PROVE  \/ raw' = raw /\ \A a \in raw : manifest'[a] = manifest[a]
         \/ \E p \in Process : /\ proc[p].pc = "running"
                               /\ Publish(proc[p].attempt)
<1> USE DEF store, At, Inv, TypeOK
<1>1. ASSUME NEW p \in Process, CreateBundle(p)
      PROVE  raw' = raw /\ \A a \in raw : manifest'[a] = manifest[a]
  BY <1>1 DEF CreateBundle
<1>2. ASSUME NEW p \in Process, RunReturns(p) \/ RunRaises(p)
      PROVE  \/ raw' = raw /\ manifest' = manifest
             \/ proc[p].pc = "running" /\ Publish(proc[p].attempt)
  BY <1>2 DEF RunReturns, RunRaises
<1>3. CASE OperatorResolves
  BY <1>3 DEF OperatorResolves
<1>4. ASSUME NEW p \in Process, \/ Start(p) \/ AcquireCampaignLock(p)
                                \/ CampaignLockBusy(p) \/ PrepareAttemptRoots(p)
                                \/ ProbeFails(p) \/ InventoryAttempts(p) \/ Finish(p)
                                \/ SkipComplete(p) \/ RefuseCell(p)
                                \/ AllocateNextAttempt(p) \/ VerifyAttemptOutcome(p)
                                \/ Crash(p)
      PROVE  raw' = raw /\ manifest' = manifest
  BY <1>4 DEF Start, AcquireCampaignLock, CampaignLockBusy, PrepareAttemptRoots,
     ProbeFails, InventoryAttempts, Finish, SkipComplete, RefuseCell,
     AllocateNextAttempt, VerifyAttemptOutcome, Crash
<1>. QED BY <1>1, <1>2, <1>3, <1>4 DEF Next, Progress, vars

\* Published evidence is never removed, replaced or rewritten.
THEOREM EvidenceAlwaysRetained == Spec => EvidenceRetained
<1>1. Inv /\ [Next]_vars =>
        [\A a \in raw : a \in raw' /\ manifest'[a] = manifest[a]]_vars
  BY RawStep, Published DEF Inv
<1>. QED BY <1>1, Invariant, PTL DEF Spec, EvidenceRetained

\* A retry enters the dataset only from a process started with --resume.
THEOREM RetriesNeedResume == Spec => OnlyResumeRetries
<1>1. ASSUME Inv, [Next]_vars, NEW a \in raw' \ raw, manifest'[a].number > 1
      PROVE  \E p \in Process : proc[p].attempt = a /\ proc[p].resume
  <2>1. PICK p \in Process : proc[p].pc = "running" /\ Publish(proc[p].attempt)
    BY <1>1, RawStep
  <2>2. a = proc[p].attempt /\ manifest'[a].number = manifest[a].number
    BY <1>1, <2>1, Published DEF Inv
  <2>3. /\ manifest[a].cell = proc[p].index
        /\ NextNumber(raw, proc[p].index, manifest[a].number)
        /\ RecordsOf(raw, proc[p].index) # {} => proc[p].resume
    BY <1>1, <2>1, <2>2 DEF Inv, HolderInv, Opened, Allocatable
  <2>4. manifest[a].number \in Nat /\ manifest[a].number > 1
    BY <1>1, <2>1, <2>2, Published, BudgetAssumption DEF Inv, TypeOK, Manifest
  <2>5. 1 \in {manifest[b].number : b \in RecordsOf(raw, proc[p].index)}
    BY <2>3, <2>4 DEF NextNumber
  <2>. QED BY <2>2, <2>3, <2>5
<1>2. Inv /\ [Next]_vars =>
        [\A a \in raw' \ raw : manifest'[a].number > 1 =>
            \E p \in Process : proc[p].attempt = a /\ proc[p].resume]_vars
  BY <1>1
<1>. QED BY <1>2, Invariant, PTL DEF Spec, OnlyResumeRetries

\* "complete" is returned only for a selection that is complete.
THEOREM CompleteReturns == Spec => CompleteReturnIsComplete
<1>1. ASSUME Inv, NEW p \in Process, Finish(p), NEW c \in 1 .. proc[p].limit
      PROVE  HasComplete(raw, c)
  <2>1. c \in 1 .. proc[p].index - 1
    BY <1>1, CellAssumption DEF Inv, TypeOK, Local, Cell, Finish
  <2>. QED BY <1>1, <2>1 DEF Inv, HolderInv, PrefixComplete, Finish, At
<1>2. Inv /\ [Next]_vars =>
        [\A p \in Process : Finish(p) => \A c \in 1 .. proc[p].limit : HasComplete(raw, c)]_vars
  BY <1>1
<1>. QED BY <1>2, Invariant, PTL DEF Spec, CompleteReturnIsComplete

\* A cell that used up its budget freezes the dataset: its own budget is
\* spent, an earlier cell is complete and a later one is never reached.
THEOREM SpentCellFreezes == Spec => SpentCellFreezesDataset
<1>1. ASSUME Inv, [Next]_vars, NEW a \in raw, manifest[a].number = MaxAttempts,
             ~ HasComplete(raw, manifest[a].cell), raw' # raw
      PROVE  FALSE
  <2>1. PICK p \in Process : proc[p].pc = "running" /\ Publish(proc[p].attempt)
    BY <1>1, RawStep
  <2> DEFINE i == proc[p].index
             k == manifest[a].cell
  <2>2. i \in Int /\ i >= 1 /\ k \in Int /\ k >= 1
    BY <1>1, CellAssumption DEF Inv, TypeOK, Local, Manifest, Cell
  <2>3. ~ HasComplete(raw, i)
    BY <1>1, <2>1 DEF Inv, HolderInv, Allocatable
  <2>4. CASE k < i
    <3>1. \A c \in 1 .. i - 1 : HasComplete(raw, c)
      BY <1>1, <2>1 DEF Inv, HolderInv, PrefixComplete
    <3>. QED BY <1>1, <2>2, <2>4, <3>1
  <2>5. CASE k = i
    <3>1. manifest[a].number < MaxAttempts
      BY <1>1, <2>1, <2>5 DEF Inv, HolderInv, Allocatable, RecordsOf
    <3>. QED BY <1>1, <3>1, BudgetAssumption
  <2>6. CASE k > i
    <3>1. \A c \in 1 .. k - 1 : HasComplete(raw, c)
      BY <1>1 DEF Inv, StoreInv, ScheduleOrder
    <3>. QED BY <2>2, <2>3, <2>6, <3>1
  <2>. QED BY <2>2, <2>4, <2>5, <2>6
<1>2. Inv /\ [Next]_vars =>
        [(\E a \in raw : /\ manifest[a].number = MaxAttempts
                         /\ ~ HasComplete(raw, manifest[a].cell)) => raw' = raw]_vars
  BY <1>1
<1>. QED BY <1>2, Invariant, PTL DEF Spec, SpentCellFreezesDataset
-----------------------------------------------------------------------------
(***************************************************************************)
(* The raw root implements the append-only attempt ledger.                 *)
(***************************************************************************)
\* Attempts numbered 1 .. n make a ledger entry of length n, and the k-th
\* status is the one of the attempt numbered k.
LEMMA EntryOfChain ==
  ASSUME NEW R, NEW M, NEW n \in Nat, {M[a].number : a \in R} = 1 .. n,
         \A a, b \in R : M[a].number = M[b].number => a = b
  PROVE  /\ StatusesOf(R, M) \in [1 .. n -> {M[a].status : a \in R}]
         /\ \A a \in R : StatusesOf(R, M)[M[a].number] = M[a].status
<1> DEFINE f == [a \in R |-> M[a].number]
<1>1. f \in Bijection(R, 1 .. n)
  BY DEF Bijection, Injection, Surjection, IsInjective
<1>2. ExistsBijection(1 .. n, R)
  BY <1>1, Fun_ExistsBijSymmetric DEF ExistsBijection
<1>3. IsFiniteSet(1 .. n) /\ Cardinality(1 .. n) = n
  BY FS_Interval
<1>4. Cardinality(R) = n
  BY <1>2, <1>3, FS_Bijection
<1>5. \A k \in 1 .. n : \E a \in R : M[a].number = k
  BY Zenon
<1>6. \A k \in 1 .. n : (CHOOSE a \in R : M[a].number = k) \in R
  BY <1>5
<1>7. StatusesOf(R, M) \in [1 .. n -> {M[a].status : a \in R}]
  BY <1>4, <1>6 DEF StatusesOf
<1>8. ASSUME NEW a \in R PROVE StatusesOf(R, M)[M[a].number] = M[a].status
  <2>1. M[a].number \in 1 .. n
    OBVIOUS
  <2>2. (CHOOSE b \in R : M[b].number = M[a].number) = a
    OBVIOUS
  <2>. QED BY <1>4, <2>1, <2>2 DEF StatusesOf
<1>. QED BY <1>7, <1>8

\* The numbers of a chain without gaps are 1 .. n for some n.
LEMMA ChainNumbers ==
  ASSUME NEW m \in Nat, NEW N \in SUBSET (1 .. m), \A x \in N : 1 .. x \subseteq N
  PROVE  \E n \in Nat : N = 1 .. n
<1> DEFINE n == Cardinality(N)
<1>1. IsFiniteSet(1 .. m)
  BY FS_Interval
<1>2. IsFiniteSet(N)
  BY <1>1, FS_Subset
<1>3. n \in Nat
  BY <1>2, FS_CardinalityType
<1>4. N \subseteq 1 .. n
  <2> SUFFICES ASSUME NEW x \in N PROVE x \in 1 .. n
    OBVIOUS
  <2>1. Cardinality(1 .. x) = x
    BY FS_Interval
  <2>2. Cardinality(1 .. x) <= n
    BY <1>2, FS_Subset
  <2>. QED BY <1>3, <2>1, <2>2
<1>5. IsFiniteSet(1 .. n) /\ Cardinality(1 .. n) = n
  BY <1>3, FS_Interval
<1>6. N = 1 .. n
  BY <1>4, <1>5, FS_Subset
<1>. QED BY <1>3, <1>6

\* The ledger entry of a valid chain depends on its own manifests only.
LEMMA SameEntry ==
  ASSUME TypeOK, NEW c \in Cell, ValidChain(raw, c),
         NEW M, \A a \in RecordsOf(raw, c) : M[a] = manifest[a]
  PROVE  StatusesOf(RecordsOf(raw, c), M) = StatusesOf(RecordsOf(raw, c), manifest)
<1> DEFINE R == RecordsOf(raw, c)
           N == {manifest[a].number : a \in R}
<1>1. MaxAttempts \in Nat /\ N \subseteq 1 .. MaxAttempts
  BY BudgetAssumption DEF TypeOK, Manifest, RecordsOf
<1>2. \A x \in N : 1 .. x \subseteq N
  BY DEF ValidChain, Contiguous
<1>3. PICK n \in Nat : N = 1 .. n
  BY <1>1, <1>2, ChainNumbers
<1>4. \A a, b \in R : manifest[a].number = manifest[b].number => a = b
  BY DEF ValidChain, Contiguous
<1>5. {M[a].number : a \in R} = 1 .. n
  BY <1>3
<1>6. /\ StatusesOf(R, M) \in [1 .. n -> {M[a].status : a \in R}]
      /\ \A a \in R : StatusesOf(R, M)[M[a].number] = M[a].status
  BY <1>4, <1>5, EntryOfChain
<1>7. /\ StatusesOf(R, manifest) \in [1 .. n -> {manifest[a].status : a \in R}]
      /\ \A a \in R : StatusesOf(R, manifest)[manifest[a].number] = manifest[a].status
  BY <1>3, <1>4, EntryOfChain
<1>8. \A k \in 1 .. n : \E a \in R : manifest[a].number = k
  BY <1>3
<1>9. \A k \in 1 .. n : StatusesOf(R, M)[k] = StatusesOf(R, manifest)[k]
  BY <1>6, <1>7, <1>8
<1>. QED BY <1>6, <1>7, <1>9

\* A function on 1 .. m is a sequence, and one more value is an Append.
LEMMA AppendValue ==
  ASSUME NEW m \in Nat, NEW V, NEW S \in [1 .. m -> V], NEW v, NEW W,
         NEW T \in [1 .. m + 1 -> W], T[m + 1] = v, \A k \in 1 .. m : T[k] = S[k]
  PROVE  Len(S) = m /\ T = Append(S, v)
<1>1. S \in Seq(V) /\ Len(S) = m
  OBVIOUS
<1>. QED BY <1>1

\* A cell with a complete attempt is complete in the ledger.
LEMMA CompleteInLedger ==
  ASSUME TypeOK, ChainsValid, NEW c \in Cell, HasComplete(raw, c)
  PROVE  Ledger!Complete(c)
<1>1. PICK a \in RecordsOf(raw, c) : manifest[a].status = "complete"
  BY DEF HasComplete
<1> DEFINE R == RecordsOf(raw, c)
           n == manifest[a].number
<1>2. /\ n \in Nat \ {0}
      /\ \A b \in R : manifest[b].number \in Nat \ {0}
  BY BudgetAssumption DEF TypeOK, Manifest, RecordsOf
<1>3. {manifest[b].number : b \in R} = 1 .. n
  <2>1. \A b \in R : manifest[b].number <= n
    BY <1>1 DEF ChainsValid, ValidChain, StopsAtComplete
  <2>2. \A k \in 1 .. n : \E b \in R : manifest[b].number = k
    BY DEF ChainsValid, ValidChain, Contiguous
  <2>. QED BY <1>2, <2>1, <2>2
<1>4. \A x, y \in R : manifest[x].number = manifest[y].number => x = y
  BY DEF ChainsValid, ValidChain, Contiguous
<1>5. /\ StatusesOf(R, manifest) \in [1 .. n -> {manifest[b].status : b \in R}]
      /\ StatusesOf(R, manifest)[n] = "complete"
  BY <1>1, <1>2, <1>3, <1>4, EntryOfChain
<1>6. StatusesOf(R, manifest) # <<>> /\ Len(StatusesOf(R, manifest)) = n
  BY <1>2, <1>5
<1>. QED BY <1>5, <1>6 DEF Ledger!Complete, LedgerView

\* Publishing a bundle appends its status to the entry of its cell.
LEMMA PublishRetains ==
  ASSUME Inv, ChainsValid', NEW q \in Process, proc[q].pc = "running",
         Publish(proc[q].attempt)
  PROVE  \E c \in Cell, s \in Final : Ledger!Retain(c, s)
<1>0. PICK A, i, n, prev : /\ A = proc[q].attempt /\ i = manifest[A].cell
                           /\ n = manifest[A].number /\ prev = manifest[A].supersedes
  OBVIOUS
<1>1. /\ A \in AttemptId /\ A \notin raw /\ raw' = raw \cup {A}
      /\ \A b \in raw : manifest'[b] = manifest[b]
      /\ manifest'[A].cell = i /\ manifest'[A].number = n
  BY <1>0, Published DEF Inv
<1>2. PICK s \in Final : manifest'[A].status = s
  BY <1>0, <1>1 DEF Publish, Inv, TypeOK, Manifest
<1>3. /\ i \in Cell /\ n \in 1 .. MaxAttempts /\ MaxAttempts \in Nat
      /\ n \in Nat /\ n - 1 \in Nat /\ i \in Nat
  BY <1>0, <1>1, BudgetAssumption, CellAssumption DEF Inv, TypeOK, Manifest, Cell
<1>4. /\ ~ HasComplete(raw, i)
      /\ \A c \in 1 .. i - 1 : HasComplete(raw, c)
      /\ {manifest[b].number : b \in RecordsOf(raw, i)} = 1 .. n - 1
  BY <1>0 DEF Inv, HolderInv, Allocatable, Opened, PrefixComplete, NextNumber
<1> DEFINE R == RecordsOf(raw, i)
           S == StatusesOf(R, manifest)
           T == StatusesOf(R \cup {A}, manifest')
<1>5. \A b \in R : b \in raw /\ manifest'[b] = manifest[b] /\ manifest[b].number \in 1 .. n - 1
  BY <1>1, <1>4 DEF RecordsOf
<1>6. RecordsOf(raw, i)' = R \cup {A}
  BY <1>1 DEF RecordsOf
<1>7. ASSUME NEW c \in Cell \ {i}
      PROVE  LedgerView'[c] = LedgerView[c]
  <2>1. RecordsOf(raw, c)' = RecordsOf(raw, c)
    BY <1>1 DEF RecordsOf
  <2>2. \A b \in RecordsOf(raw, c) : manifest'[b] = manifest[b]
    BY <1>1 DEF RecordsOf
  <2>3. StatusesOf(RecordsOf(raw, c), manifest') = StatusesOf(RecordsOf(raw, c), manifest)
    BY <2>2, SameEntry DEF Inv, StoreInv, ChainsValid
  <2>. QED BY <2>1, <2>3 DEF LedgerView
<1>8. /\ S \in [1 .. n - 1 -> {manifest[b].status : b \in R}]
      /\ \A b \in R : S[manifest[b].number] = manifest[b].status
  <2>1. \A x, y \in R : manifest[x].number = manifest[y].number => x = y
    BY <1>3 DEF Inv, StoreInv, ChainsValid, ValidChain, Contiguous
  <2>. QED BY <1>3, <1>4, <2>1, EntryOfChain
<1>9. /\ T \in [1 .. n -> {manifest'[b].status : b \in R \cup {A}}]
      /\ \A b \in R \cup {A} : T[manifest'[b].number] = manifest'[b].status
  <2>1. \A x, y \in R \cup {A} : manifest'[x].number = manifest'[y].number => x = y
    BY <1>3, <1>6 DEF ChainsValid, ValidChain, Contiguous
  <2>2. {manifest'[b].number : b \in R \cup {A}} = 1 .. n
    <3>1. \A b \in R \cup {A} : manifest'[b].number \in 1 .. n
      BY <1>1, <1>3, <1>5
    <3>2. \A k \in 1 .. n : \E b \in R \cup {A} : manifest'[b].number = k
      <4>1. \A k \in 1 .. n - 1 : \E b \in R : manifest[b].number = k
        BY <1>4
      <4>. QED BY <1>1, <1>3, <1>5, <4>1
    <3>. QED BY <3>1, <3>2
  <2>. QED BY <1>3, <2>1, <2>2, EntryOfChain
<1>10. Len(S) = n - 1 /\ T = Append(S, s)
  <2>1. /\ S \in [1 .. n - 1 -> {manifest[b].status : b \in R}]
        /\ T \in [1 .. n -> {manifest'[b].status : b \in R \cup {A}}]
        /\ \A b \in R : S[manifest[b].number] = manifest[b].status
        /\ \A b \in R \cup {A} : T[manifest'[b].number] = manifest'[b].status
    BY <1>8, <1>9, Zenon
  <2> HIDE DEF S, T
  <2>2. T[n] = s
    BY <1>1, <1>2, <2>1
  <2>3. \A k \in 1 .. n - 1 : T[k] = S[k]
    <3>1. \A k \in 1 .. n - 1 : \E b \in R : manifest[b].number = k
      BY <1>4
    <3>. QED BY <1>5, <2>1, <3>1
  <2>4. ASSUME NEW m \in Nat, m = n - 1, m + 1 = n PROVE Len(S) = m /\ T = Append(S, s)
    BY <2>1, <2>2, <2>3, <2>4, AppendValue
  <2>. QED BY <1>3, <2>4
<1>11. LedgerView' = [LedgerView EXCEPT ![i] = Append(@, s)]
  BY <1>3, <1>6, <1>7, <1>10 DEF LedgerView
<1>12. ~ Ledger!Complete(i) /\ Len(LedgerView[i]) < MaxAttempts
  <2>1. LedgerView[i] = S /\ Len(S) = n - 1
    BY <1>3, <1>10 DEF LedgerView
  <2>2. S # <<>> => S[n - 1] # "complete"
    <3>1. \A b \in R : manifest[b].status # "complete"
      BY <1>4 DEF HasComplete
    <3>. QED BY <1>3, <1>8, <2>1, <3>1
  <2>. QED BY <1>3, <2>1, <2>2 DEF Ledger!Complete
<1>13. \A b \in 1 .. i - 1 : Ledger!Complete(b)
  <2>1. 1 .. i - 1 \subseteq Cell
    BY <1>3, CellAssumption DEF Cell
  <2>. QED BY <1>4, <2>1, CompleteInLedger DEF Inv, StoreInv
<1>. QED BY <1>2, <1>3, <1>11, <1>12, <1>13 DEF Ledger!Retain

\* The coordinators, with their lock, staging area and crashes, implement
\* the append-only attempt ledger.
THEOREM RefinesLedger == Spec => LedgerSpec
<1>1. Init => Ledger!Init
  BY FS_EmptySet DEF Init, Ledger!Init, Ledger!Cell, Cell, LedgerView, StatusesOf, RecordsOf
<1>2. ASSUME Inv, Inv', [Next]_vars PROVE [Ledger!Next]_LedgerView
  <2>1. CASE \E p \in Process : proc[p].pc = "running" /\ Publish(proc[p].attempt)
    BY <1>2, <2>1, PublishRetains
    DEF Inv, StoreInv, Ledger!Next, Ledger!Cell, Cell, Ledger!Status, Final
  <2>2. CASE raw' = raw /\ \A a \in raw : manifest'[a] = manifest[a]
    <3>1. ASSUME NEW c \in Cell
          PROVE  StatusesOf(RecordsOf(raw, c), manifest)'
                   = StatusesOf(RecordsOf(raw, c), manifest)
      <4>1. RecordsOf(raw, c)' = RecordsOf(raw, c)
        BY <2>2 DEF RecordsOf
      <4>2. \A a \in RecordsOf(raw, c) : manifest'[a] = manifest[a]
        BY <2>2 DEF RecordsOf
      <4>. QED BY <1>2, <4>1, <4>2, SameEntry DEF Inv, StoreInv, ChainsValid
    <3>. QED BY <3>1 DEF LedgerView
  <2>. QED BY <1>2, <2>1, <2>2, RawStep
<1>. QED BY <1>1, <1>2, Invariant, PTL DEF Spec, LedgerSpec, Ledger!Spec
=============================================================================
