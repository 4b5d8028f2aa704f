------------------------ MODULE ScheduleFreezeProofs ------------------------
(***************************************************************************)
(* The freeze transaction: what ScheduleFreeze.tla states about it holds   *)
(* for any freezers, plans, settings and number of writes.                 *)
(*                                                                         *)
(* Of the freezers only the one that holds the lock is at work, so what a  *)
(* step of a freezer does is seen by itself and by nobody else; edits and  *)
(* power losses are seen by all.  The inductive invariant says what the    *)
(* freezer at work may rely on at each of its stages.                      *)
(***************************************************************************)
EXTENDS ScheduleFreeze, TLAPS

FreezerState ==
    [at : Stage, p : Plan, plan : 0 .. MaxWrites, source : Version \cup {Unread},
     edited : BOOLEAN, found : SUBSET Plan]

\* Stages by what has been done for the plan that is worked on.
Captured  == Working \ {"plan", "source"}
Linked    == {"synclink", "unlink"}
Published == {"assert", "stage", "precommit", "stat", "replace", "sync", "verify"}

\* What a power loss leaves has the schedule of every plan: both the plan as
\* it is and the plan as it was synced name a schedule that is durable.
Durable ==
    /\ durable.schedules \subseteq schedules
    /\ \A p \in Plan : /\ [plan |-> p, of |-> plan[p].of] \in durable.schedules
                       /\ [plan |-> p, of |-> durable.plan[p].of] \in durable.schedules

\* The schedule is there once linked, and durable before the plan is staged.
Target_OK(f) ==
    /\ work[f].at \in Captured => work[f].source \in Version
    /\ work[f].at \in Linked => Target(f) \in schedules
    /\ work[f].at \in Published => Target(f) \in durable.schedules

\* Unless an edit raced with it the freezer commits to what it has checked.
Commit_OK(f) ==
    ~ raced => /\ work[f].at = "replace" => PlanUnchanged(f)
               /\ work[f].at \in {"stat", "replace"} => SourceUnchanged(f)

\* Without an edit the inputs stay what they were when they were captured,
\* and the plans that are done load.
Unedited_OK(f) ==
    ~ work[f].edited =>
        /\ work[f].at \in Working \ {"plan"} => PlanUnchanged(f)
        /\ work[f].at \in Captured => SourceUnchanged(f)
        /\ work[f].at \in {"sync", "verify"} => plan[work[f].p].of = work[f].source.of
        /\ work[f].at \in Working => \A q \in Plan : q < work[f].p => Loadable(q)

\* The plans that are done have no schedule staged, and a plan that is staged
\* is the freezer's next commit or was staged before it came.
Clean_OK(f) ==
    /\ work[f].at \in Working => \A q \in temps : q >= work[f].p
    /\ work[f].at \in Published => work[f].p \notin temps
    /\ work[f].at \in Working =>
          \A q \in staged : q \in work[f].found \/ (work[f].at \in Committing /\ q = work[f].p)

Freezer_OK(f) ==
    /\ Target_OK(f) /\ Commit_OK(f) /\ Unedited_OK(f) /\ Clean_OK(f)
    /\ At(f, "refused") => work[f].edited

IInv == TypeOK /\ Durable /\ \A f \in Freezers : Freezer_OK(f)

-----------------------------------------------------------------------------
(***************************************************************************)
(* Types, and how a step changes the state of one freezer.                 *)
(***************************************************************************)
LEMMA ConstantFacts ==
    /\ Plans \in Nat /\ Plans >= 1 /\ Plan = 1 .. Plans /\ MaxWrites \in Nat
    /\ Nobody \notin Freezers
BY FreezeAssumption, FreezerAssumption DEF Plan

LEMMA FieldTypes ==
    ASSUME NEW r \in FreezerState
    PROVE  /\ r.at \in Stage /\ r.p \in Plan /\ r.plan \in 0 .. MaxWrites
           /\ r.source \in Version \cup {Unread} /\ r.edited \in BOOLEAN
           /\ r.found \in SUBSET Plan
BY DEF FreezerState

LEMMA TypeFacts ==
    TypeOK => /\ work \in [Freezers -> FreezerState]
              /\ \A f \in Freezers : work[f] \in FreezerState
              /\ \A f \in Freezers : work[f].at \in Working <=> holder = f
BY DEF TypeOK, FreezerState

LEMMA FreshType == Fresh \in FreezerState
BY ConstantFacts DEF Fresh, FreezerState, Stage

\* The state of one freezer is replaced.
LEMMA WorkUpdate ==
    ASSUME TypeOK, NEW f \in Freezers, NEW r \in FreezerState, work' = [work EXCEPT ![f] = r]
    PROVE  /\ work' \in [Freezers -> FreezerState]
           /\ work'[f] = r
           /\ \A g \in Freezers : g # f => work'[g] = work[g]
BY TypeFacts, Zenon

\* What Go does.
LEMMA GoFacts ==
    ASSUME TypeOK, NEW f \in Freezers, NEW s \in Stage, Go(f, s)
    PROVE  /\ work' \in [Freezers -> FreezerState]
           /\ \A g \in Freezers : g # f => work'[g] = work[g]
           /\ work'[f].at = s
           /\ work'[f].p = work[f].p /\ work'[f].plan = work[f].plan
           /\ work'[f].source = work[f].source /\ work'[f].edited = work[f].edited
           /\ work'[f].found = work[f].found
<1> DEFINE r == [work[f] EXCEPT !.at = s]
<1>1. /\ r \in FreezerState /\ r.at = s /\ r.p = work[f].p /\ r.plan = work[f].plan
      /\ r.source = work[f].source /\ r.edited = work[f].edited
      /\ r.found = work[f].found
  BY TypeFacts DEF FreezerState
<1>2. work' = [work EXCEPT ![f] = r]
  BY DEF Go
<1> HIDE DEF r
<1> QED
  BY <1>1, <1>2, WorkUpdate

\* What Leave does.
LEMMA LeaveFacts ==
    ASSUME TypeOK, NEW f \in Freezers, NEW s \in Stage, Leave(f, s)
    PROVE  /\ work' \in [Freezers -> FreezerState] /\ holder' = Nobody
           /\ \A g \in Freezers : g # f => work'[g] = work[g]
           /\ work'[f].at = s
           /\ work'[f].edited = (s = "refused" /\ work[f].edited)
<1> DEFINE e == s = "refused" /\ work[f].edited
           r == [Fresh EXCEPT !.at = s, !.edited = e]
<1>1. e \in BOOLEAN
  OBVIOUS
<1>2. work' = [work EXCEPT ![f] = r] /\ holder' = Nobody
  BY Zenon DEF Leave
<1>3. r \in FreezerState /\ r.at = s /\ r.edited = e
  <2> HIDE DEF e
  <2> QED
    BY <1>1, FreshType DEF FreezerState
<1>4. /\ work' \in [Freezers -> FreezerState] /\ work'[f] = r
      /\ \A g \in Freezers : g # f => work'[g] = work[g]
  <2> HIDE DEF r
  <2> QED
    BY <1>2, <1>3, WorkUpdate
<1> QED
  BY <1>2, <1>3, <1>4, Zenon

\* A freezer that is not at work relies on nothing.
LEMMA NotAtWork ==
    ASSUME NEW g \in Freezers, work'[g].at \notin Working,
           work'[g].at = "refused" => work'[g].edited
    PROVE  Freezer_OK(g)'
BY DEF Freezer_OK, Target_OK, Commit_OK, Unedited_OK, Clean_OK, Committing, Working, Stage, Captured,
       Linked, Published, At

\* While a freezer has the lock the others are not at work, so its steps do
\* not concern them.
LEMMA OthersIdle ==
    ASSUME IInv, NEW f \in Freezers, holder \in {f, Nobody},
           \A g \in Freezers : g # f => work'[g] = work[g]
    PROVE  \A g \in Freezers : g # f => work'[g].at \notin Working /\ Freezer_OK(g)'
<1> SUFFICES ASSUME NEW g \in Freezers, g # f
             PROVE  work'[g].at \notin Working /\ Freezer_OK(g)'
  OBVIOUS
<1>1. work'[g] = work[g] /\ work[g].at \notin Working
  BY ConstantFacts, TypeFacts DEF IInv
<1>2. work[g].at = "refused" => work[g].edited
  BY DEF IInv, Freezer_OK, At
<1> QED
  BY <1>1, <1>2, NotAtWork

\* The stages by themselves.
LEMMA StageFacts ==
    /\ Working \subseteq Stage /\ Captured \subseteq Working /\ Published \subseteq Captured
    /\ Linked \subseteq Captured /\ Linked \cap Published = {}
    /\ "idle" \notin Working /\ "frozen" \notin Working /\ "refused" \notin Working
BY DEF Working, Stage, Captured, Linked, Published

-----------------------------------------------------------------------------
(***************************************************************************)
(* The steps of a freezer.                                                 *)
(***************************************************************************)
\* What TypeOK says of all but the freezers and the lock.
Data_OK ==
    /\ writes \in 0 .. MaxWrites
    /\ source \in Version /\ plan \in [Plan -> Version]
    /\ schedules \subseteq Schedule
    /\ temps \subseteq Plan /\ staged \subseteq Plan
    /\ durable \in [plan : [Plan -> Version], schedules : SUBSET Schedule]
    /\ raced \in BOOLEAN

LEMMA TypeParts ==
    TypeOK <=> /\ Data_OK /\ holder \in Freezers \cup {Nobody}
               /\ work \in [Freezers -> FreezerState]
               /\ \A f \in Freezers : work[f].at \in Working <=> holder = f
BY DEF TypeOK, Data_OK, FreezerState

LEMMA DataFrame ==
    ASSUME UNCHANGED <<writes, source, directory, durable, raced>>, IInv
    PROVE  Data_OK' /\ Durable'
BY TypeParts DEF IInv, Data_OK, Durable, directory

\* The same when a staged plan comes or goes.
LEMMA StagedFrame ==
    ASSUME UNCHANGED <<writes, source, plan, schedules, temps, durable, raced>>, IInv,
           staged' \subseteq Plan
    PROVE  Data_OK' /\ Durable'
BY TypeParts DEF IInv, Data_OK, Durable

\* A step of f, which has the lock or takes it, has only f to look after.
LEMMA OwnStep ==
    ASSUME IInv, NEW f \in Freezers, holder \in {f, Nobody},
           work' \in [Freezers -> FreezerState],
           \A g \in Freezers : g # f => work'[g] = work[g],
           \/ work'[f].at \in Working /\ holder' = f
           \/ work'[f].at \notin Working /\ holder' = Nobody,
           Data_OK', Durable', Freezer_OK(f)'
    PROVE  IInv'
<1>1. \A g \in Freezers : Freezer_OK(g)'
  BY OthersIdle
<1>2. \A g \in Freezers : work'[g].at \in Working <=> holder' = g
  <2>1. \A g \in Freezers : g # f => work'[g].at \notin Working
    BY OthersIdle
  <2> QED
    BY <2>1, ConstantFacts
<1>3. holder' \in Freezers \cup {Nobody}
  OBVIOUS
<1>4. TypeOK'
  BY <1>2, <1>3 DEF TypeOK, Data_OK, FreezerState
<1> QED
  BY <1>1, <1>4 DEF IInv

LEMMA AtWork ==
    ASSUME IInv, NEW f \in Freezers, work[f].at \in Working
    PROVE  holder = f /\ TypeOK /\ Freezer_OK(f) /\ work[f] \in FreezerState
BY TypeFacts DEF IInv

LEMMA StepLock ==
    ASSUME IInv, NEW f \in Freezers, Lock(f)
    PROVE  IInv'
<1> DEFINE r == [Fresh EXCEPT !.at = "plan", !.found = staged]
<1>1. r \in FreezerState /\ r.at = "plan" /\ r.p = 1 /\ r.found = staged
  <2>1. Fresh.p = 1
    BY DEF Fresh
  <2>2. staged \in SUBSET Plan
    BY DEF IInv, TypeOK
  <2> QED
    BY <2>1, <2>2, FreshType DEF FreezerState, Stage
<1>2. work' = [work EXCEPT ![f] = r] /\ holder = Nobody /\ holder' = f
  BY DEF Lock
<1>3. /\ work' \in [Freezers -> FreezerState] /\ work'[f] = r
      /\ \A g \in Freezers : g # f => work'[g] = work[g]
  <2> HIDE DEF r
  <2> QED
    BY <1>1, <1>2, WorkUpdate DEF IInv
<1> HIDE DEF r
<1>4. Data_OK' /\ Durable'
  BY DataFrame DEF Lock
<1>5. temps' \subseteq Plan /\ staged' = staged
  BY <1>4 DEF Data_OK, Lock, directory
<1>6. Freezer_OK(f)'
  BY <1>1, <1>3, <1>5, ConstantFacts
     DEF Freezer_OK, Target_OK, Commit_OK, Unedited_OK, Clean_OK, Committing, Captured, Linked, Published, At
<1>7. work'[f].at \in Working
  BY <1>1, <1>3 DEF Working, Stage
<1> QED
  BY <1>2, <1>3, <1>4, <1>6, <1>7, OwnStep

LEMMA StepCapturePlan ==
    ASSUME IInv, NEW f \in Freezers, CapturePlan(f)
    PROVE  IInv'
<1> DEFINE v == plan[work[f].p].version
           r == [work[f] EXCEPT !.plan = v, !.at = "source"]
<1>0. work[f].at = "plan" /\ UNCHANGED <<writes, source, directory, durable, holder, raced>>
  BY DEF CapturePlan, At
<1>a. work[f].at \in Working /\ "source" \in Working
  BY <1>0 DEF Working, Stage
<1>b. holder = f /\ TypeOK /\ Freezer_OK(f) /\ work[f] \in FreezerState
  BY <1>a, AtWork
<1>c. v \in 0 .. MaxWrites
  BY <1>b, FieldTypes DEF TypeOK, Version
<1>1. /\ r \in FreezerState /\ r.at = "source" /\ r.p = work[f].p /\ r.plan = v
      /\ r.edited = work[f].edited /\ r.found = work[f].found
  <2> HIDE DEF v
  <2> QED
    BY <1>b, <1>c DEF FreezerState, Stage
<1>2. work' = [work EXCEPT ![f] = r]
  BY DEF CapturePlan
<1>3. /\ work' \in [Freezers -> FreezerState] /\ work'[f] = r
      /\ \A g \in Freezers : g # f => work'[g] = work[g]
  <2> HIDE DEF r
  <2> QED
    BY <1>b, <1>1, <1>2, WorkUpdate
<1> HIDE DEF r
<1>4. Data_OK' /\ Durable'
  BY <1>0, DataFrame
<1>5. Freezer_OK(f)'
  BY <1>0, <1>a, <1>b, <1>1, <1>3
     DEF Freezer_OK, Target_OK, Commit_OK, Unedited_OK, Clean_OK, Committing, Captured, Linked, Published, At,
         PlanUnchanged, Loadable, directory
<1> QED
  BY <1>0, <1>a, <1>b, <1>1, <1>3, <1>4, <1>5, OwnStep

LEMMA StepCaptureSource ==
    ASSUME IInv, NEW f \in Freezers, CaptureSource(f)
    PROVE  IInv'
<1> DEFINE r == [work[f] EXCEPT !.source = source, !.at = "publish"]
<1>0. work[f].at = "source" /\ UNCHANGED <<writes, source, directory, durable, holder, raced>>
  BY DEF CaptureSource, At
<1>a. work[f].at \in Working /\ "publish" \in Working
  BY <1>0 DEF Working, Stage
<1>b. holder = f /\ TypeOK /\ Freezer_OK(f) /\ work[f] \in FreezerState
  BY <1>a, AtWork
<1>c. source \in Version
  BY <1>b DEF TypeOK
<1>1. /\ r \in FreezerState /\ r.at = "publish" /\ r.p = work[f].p /\ r.plan = work[f].plan
      /\ r.source = source /\ r.edited = work[f].edited /\ r.found = work[f].found
  BY <1>b, <1>c DEF FreezerState, Stage
<1>2. work' = [work EXCEPT ![f] = r]
  BY DEF CaptureSource
<1>3. /\ work' \in [Freezers -> FreezerState] /\ work'[f] = r
      /\ \A g \in Freezers : g # f => work'[g] = work[g]
  <2> HIDE DEF r
  <2> QED
    BY <1>b, <1>1, <1>2, WorkUpdate
<1> HIDE DEF r
<1>4. Data_OK' /\ Durable'
  BY <1>0, DataFrame
<1>5. Freezer_OK(f)'
  BY <1>0, <1>a, <1>b, <1>c, <1>1, <1>3
     DEF Freezer_OK, Target_OK, Commit_OK, Unedited_OK, Clean_OK, Committing, Captured, Working, Linked,
         Published, At, PlanUnchanged, SourceUnchanged, Loadable, directory
<1> QED
  BY <1>0, <1>a, <1>b, <1>1, <1>3, <1>4, <1>5, OwnStep

\* A step of the freezer at work that only goes on to another stage.
LEMMA StepGo ==
    ASSUME IInv, NEW f \in Freezers, NEW s \in Working, work[f].at \in Working, Go(f, s),
           holder' = holder, Data_OK', Durable', Freezer_OK(f)'
    PROVE  IInv'
<1>1. holder = f /\ TypeOK
  BY AtWork
<1>2. s \in Stage
  BY StageFacts
<1>3. /\ work' \in [Freezers -> FreezerState] /\ work'[f].at = s
      /\ \A g \in Freezers : g # f => work'[g] = work[g]
  BY <1>1, <1>2, GoFacts
<1> QED
  BY <1>1, <1>3, OwnStep

\* What the freezer at work has and keeps in such a step.
LEMMA GoKeeps ==
    ASSUME IInv, NEW f \in Freezers, NEW s \in Working, work[f].at \in Working, Go(f, s)
    PROVE  /\ Freezer_OK(f) /\ TypeOK /\ Durable
           /\ work'[f].at = s
           /\ work'[f].p = work[f].p /\ work'[f].plan = work[f].plan
           /\ work'[f].source = work[f].source /\ work'[f].edited = work[f].edited
        /\ work'[f].found = work[f].found
           /\ work[f].p \in Plan
<1>1. TypeOK /\ Freezer_OK(f) /\ work[f] \in FreezerState /\ Durable
  BY AtWork DEF IInv
<1>2. s \in Stage
  BY StageFacts
<1> QED
  BY <1>1, <1>2, GoFacts, FieldTypes

LEMMA StepStageSchedule ==
    ASSUME IInv, NEW f \in Freezers, StageSchedule(f)
    PROVE  IInv'
<1>0. /\ work[f].at = "publish" /\ Go(f, "link") /\ temps' = temps \cup {work[f].p}
      /\ UNCHANGED <<writes, source, plan, schedules, staged, durable, holder, raced>>
  BY DEF StageSchedule, At
<1>a. work[f].at \in Working /\ "link" \in Working
  BY <1>0 DEF Working, Stage
<1>b. /\ Freezer_OK(f) /\ TypeOK /\ Durable
      /\ work'[f].at = "link"
      /\ work'[f].p = work[f].p /\ work'[f].plan = work[f].plan
      /\ work'[f].source = work[f].source /\ work'[f].edited = work[f].edited
        /\ work'[f].found = work[f].found
      /\ work[f].p \in Plan
  BY <1>0, <1>a, GoKeeps
<1>1. Data_OK' /\ Durable'
  BY <1>0, <1>b DEF TypeOK, Data_OK, Durable
<1>2. Freezer_OK(f)'
  BY <1>0, <1>a, <1>b, ConstantFacts
     DEF Freezer_OK, Target_OK, Commit_OK, Unedited_OK, Clean_OK, Committing, Captured, Linked, Published, At,
         PlanUnchanged, SourceUnchanged, Loadable
<1> QED
  BY <1>0, <1>a, <1>1, <1>2, StepGo

LEMMA StepLinkSchedule ==
    ASSUME IInv, NEW f \in Freezers, LinkSchedule(f)
    PROVE  IInv'
<1> DEFINE s == IF Target(f) \in schedules THEN "unlink" ELSE "synclink"
<1>0. /\ work[f].at = "link" /\ Go(f, s) /\ schedules' = schedules \cup {Target(f)}
      /\ UNCHANGED <<writes, source, plan, temps, staged, durable, holder, raced>>
  BY DEF LinkSchedule, At
<1>a. work[f].at \in Captured /\ s \in Linked
  BY <1>0 DEF Captured, Working, Stage, Linked
<1> HIDE DEF s
<1>b. work[f].at \in Working /\ s \in Working /\ s \in Captured /\ s \notin Published
      /\ s \notin {"stat", "replace", "sync", "verify", "refused", "plan", "source"}
  BY <1>a, StageFacts DEF Linked
<1>c. /\ Freezer_OK(f) /\ TypeOK /\ Durable
      /\ work'[f].at = s
      /\ work'[f].p = work[f].p /\ work'[f].plan = work[f].plan
      /\ work'[f].source = work[f].source /\ work'[f].edited = work[f].edited
        /\ work'[f].found = work[f].found
      /\ work[f].p \in Plan
  BY <1>0, <1>b, GoKeeps
<1>d. Target(f) \in Schedule
  <2>1. work[f].source \in Version
    BY <1>a, <1>c DEF Freezer_OK, Target_OK
  <2>2. work[f].source.of \in Settings
    BY <2>1 DEF Version
  <2> QED
    BY <1>c, <2>2 DEF Target, Schedule
<1>1. Data_OK' /\ Durable'
  BY <1>0, <1>c, <1>d DEF TypeOK, Data_OK, Durable
<1>2. Target_OK(f)'
  BY <1>0, <1>a, <1>b, <1>c DEF Freezer_OK, Target_OK, Target
<1>3. Unedited_OK(f)'
  BY <1>0, <1>a, <1>b, <1>c DEF Freezer_OK, Unedited_OK, PlanUnchanged, SourceUnchanged, Loadable,
     Captured
<1>4. Commit_OK(f)' /\ Clean_OK(f)' /\ (At(f, "refused") => work[f].edited)'
  BY <1>0, <1>b, <1>c DEF Freezer_OK, Commit_OK, Clean_OK, Committing, At
<1>5. Freezer_OK(f)'
  BY <1>2, <1>3, <1>4 DEF Freezer_OK
<1> QED
  BY <1>0, <1>b, <1>1, <1>5, StepGo

LEMMA StepSyncLink ==
    ASSUME IInv, NEW f \in Freezers, SyncLink(f)
    PROVE  IInv'
<1>0. /\ work[f].at = "synclink" /\ Go(f, "unlink") /\ SyncDirectory
      /\ UNCHANGED <<writes, source, plan, schedules, temps, staged, holder, raced>>
  BY DEF SyncLink, At, directory
<1>a. work[f].at \in Working /\ "unlink" \in Working
  BY <1>0 DEF Working, Stage
<1>b. /\ Freezer_OK(f) /\ TypeOK /\ Durable
      /\ work'[f].at = "unlink"
      /\ work'[f].p = work[f].p /\ work'[f].plan = work[f].plan
      /\ work'[f].source = work[f].source /\ work'[f].edited = work[f].edited
        /\ work'[f].found = work[f].found
      /\ work[f].p \in Plan
  BY <1>0, <1>a, GoKeeps
<1>1. Data_OK' /\ Durable'
  BY <1>0, <1>b DEF TypeOK, Data_OK, Durable, SyncDirectory
<1>2. Freezer_OK(f)'
  BY <1>0, <1>a, <1>b
     DEF Freezer_OK, Target_OK, Commit_OK, Unedited_OK, Clean_OK, Committing, Captured, Linked, Published, At,
         PlanUnchanged, SourceUnchanged, Loadable, Target
<1> QED
  BY <1>0, <1>a, <1>1, <1>2, StepGo

LEMMA StepUnlinkTemp ==
    ASSUME IInv, NEW f \in Freezers, UnlinkTemp(f)
    PROVE  IInv'
<1>0. /\ work[f].at = "unlink" /\ Go(f, "assert") /\ SyncDirectory
      /\ temps' = temps \ {work[f].p}
      /\ UNCHANGED <<writes, source, plan, schedules, staged, holder, raced>>
  BY DEF UnlinkTemp, At
<1>a. work[f].at \in Working /\ "assert" \in Working
  BY <1>0 DEF Working, Stage
<1>b. /\ Freezer_OK(f) /\ TypeOK /\ Durable
      /\ work'[f].at = "assert"
      /\ work'[f].p = work[f].p /\ work'[f].plan = work[f].plan
      /\ work'[f].source = work[f].source /\ work'[f].edited = work[f].edited
        /\ work'[f].found = work[f].found
      /\ work[f].p \in Plan
  BY <1>0, <1>a, GoKeeps
<1>1. Data_OK' /\ Durable'
  BY <1>0, <1>b DEF TypeOK, Data_OK, Durable, SyncDirectory
<1>2. durable'.schedules = schedules
  BY <1>0 DEF SyncDirectory
<1>3. Freezer_OK(f)'
  BY <1>0, <1>a, <1>b, <1>2
     DEF Freezer_OK, Target_OK, Commit_OK, Unedited_OK, Clean_OK, Committing, Captured, Linked, Published, At,
         PlanUnchanged, SourceUnchanged, Loadable, Target
<1> QED
  BY <1>0, <1>a, <1>1, <1>3, StepGo

\* The three steps that look at the inputs and go on.
LEMMA StepCheck ==
    ASSUME IInv, NEW f \in Freezers,
           AssertUnchanged(f) \/ AssertCommitInputs(f) \/ StatPlan(f)
    PROVE  IInv'
<1> DEFINE s == CASE work[f].at = "precommit" -> "stat"
                  [] work[f].at = "stat" -> "replace"
                  [] OTHER -> IF plan[work[f].p].of = work[f].source.of THEN "verify" ELSE "stage"
<1>0. /\ Go(f, s) /\ UNCHANGED <<writes, source, directory, durable, holder, raced>>
      /\ \/ work[f].at = "precommit" /\ InputsUnchanged(f) /\ s = "stat"
         \/ work[f].at = "stat" /\ PlanUnchanged(f) /\ s = "replace"
         \/ /\ work[f].at = "assert" /\ InputsUnchanged(f)
            /\ \/ plan[work[f].p].of = work[f].source.of /\ s = "verify"
               \/ s = "stage"
  <2>1. CASE AssertUnchanged(f)
    BY <2>1 DEF AssertUnchanged, At
  <2>3. CASE AssertCommitInputs(f)
    BY <2>3 DEF AssertCommitInputs, At
  <2>4. CASE StatPlan(f)
    BY <2>4 DEF StatPlan, At
  <2> QED
    BY <2>1, <2>3, <2>4
<1> HIDE DEF s
<1>a. work[f].at \in Working /\ s \in Working /\ s # "refused" /\ s # "sync"
      /\ s \in Published /\ work[f].at \in Published
  BY <1>0 DEF Working, Stage, Published
<1>b. /\ Freezer_OK(f) /\ TypeOK /\ Durable
      /\ work'[f].at = s
      /\ work'[f].p = work[f].p /\ work'[f].plan = work[f].plan
      /\ work'[f].source = work[f].source /\ work'[f].edited = work[f].edited
        /\ work'[f].found = work[f].found
      /\ work[f].p \in Plan
  BY <1>0, <1>a, GoKeeps
<1>1. Data_OK' /\ Durable'
  BY <1>0, DataFrame
<1>c. /\ s \in Captured /\ work[f].at \in Captured /\ s \notin Linked
      /\ work[f].at # "plan" /\ s # "plan"
  BY <1>a, StageFacts DEF Captured
<1>2. Target_OK(f)'
  BY <1>0, <1>a, <1>b, <1>c DEF Freezer_OK, Target_OK, Target, directory
<1>3. Commit_OK(f)'
  BY <1>0, <1>b DEF Freezer_OK, Commit_OK, InputsUnchanged, PlanUnchanged, SourceUnchanged, directory
<1>4. Unedited_OK(f)'
  BY <1>0, <1>a, <1>b, <1>c
     DEF Freezer_OK, Unedited_OK, PlanUnchanged, SourceUnchanged, Loadable, directory
<1>5. Clean_OK(f)' /\ (At(f, "refused") => work[f].edited)'
  BY <1>0, <1>a, <1>b DEF Freezer_OK, Clean_OK, Committing, At, directory
<1>6. Freezer_OK(f)'
  BY <1>2, <1>3, <1>4, <1>5 DEF Freezer_OK
<1> QED
  BY <1>0, <1>a, <1>1, <1>6, StepGo

LEMMA StepStagePlan ==
    ASSUME IInv, NEW f \in Freezers, StagePlan(f)
    PROVE  IInv'
<1>0. /\ work[f].at = "stage" /\ Go(f, "precommit") /\ staged' = staged \cup {work[f].p}
      /\ UNCHANGED <<writes, source, plan, schedules, temps, durable, holder, raced>>
  BY DEF StagePlan, At
<1>a. work[f].at \in Working /\ "precommit" \in Working
  BY <1>0 DEF Working, Stage
<1>b. /\ Freezer_OK(f) /\ TypeOK /\ Durable
      /\ work'[f].at = "precommit"
      /\ work'[f].p = work[f].p /\ work'[f].plan = work[f].plan
      /\ work'[f].source = work[f].source /\ work'[f].edited = work[f].edited
      /\ work'[f].found = work[f].found
      /\ work[f].p \in Plan
  BY <1>0, <1>a, GoKeeps
<1>1. Data_OK' /\ Durable'
  BY <1>0, <1>b, StagedFrame DEF TypeOK
<1>2. work[f].at \in Captured /\ work[f].at \in Published /\ "precommit" \in Captured
  BY <1>0 DEF Captured, Published, Working, Stage
<1>3. Target_OK(f)' /\ Commit_OK(f)'
  BY <1>0, <1>b, <1>2 DEF Freezer_OK, Target_OK, Commit_OK, Target, Linked
<1>4. Unedited_OK(f)'
  BY <1>0, <1>a, <1>b, <1>2
     DEF Freezer_OK, Unedited_OK, PlanUnchanged, SourceUnchanged, Loadable
<1>5. Clean_OK(f)' /\ (At(f, "refused") => work[f].edited)'
  BY <1>0, <1>a, <1>b, <1>2 DEF Freezer_OK, Clean_OK, Committing, At
<1>6. Freezer_OK(f)'
  BY <1>3, <1>4, <1>5 DEF Freezer_OK
<1> QED
  BY <1>0, <1>a, <1>1, <1>6, StepGo

LEMMA StepSyncPlan ==
    ASSUME IInv, NEW f \in Freezers, SyncPlan(f)
    PROVE  IInv'
<1>0. /\ work[f].at = "sync" /\ Go(f, "verify") /\ SyncDirectory
      /\ UNCHANGED <<writes, source, plan, schedules, temps, staged, holder, raced>>
  BY DEF SyncPlan, At, directory
<1>a. work[f].at \in Working /\ "verify" \in Working
  BY <1>0 DEF Working, Stage
<1>b. /\ Freezer_OK(f) /\ TypeOK /\ Durable
      /\ work'[f].at = "verify"
      /\ work'[f].p = work[f].p /\ work'[f].plan = work[f].plan
      /\ work'[f].source = work[f].source /\ work'[f].edited = work[f].edited
        /\ work'[f].found = work[f].found
      /\ work[f].p \in Plan
  BY <1>0, <1>a, GoKeeps
<1>1. Data_OK' /\ Durable' /\ durable.schedules \subseteq durable'.schedules
  BY <1>0, <1>b DEF TypeOK, Data_OK, Durable, SyncDirectory
<1>2. Freezer_OK(f)'
  BY <1>0, <1>a, <1>b, <1>1
     DEF Freezer_OK, Target_OK, Commit_OK, Unedited_OK, Clean_OK, Committing, Captured, Linked, Published, At,
         PlanUnchanged, SourceUnchanged, Loadable, Target
<1> QED
  BY <1>0, <1>a, <1>1, <1>2, StepGo

LEMMA StepReplacePlan ==
    ASSUME IInv, NEW f \in Freezers, ReplacePlan(f)
    PROVE  IInv'
<1> DEFINE v == writes + 1
           new == [version |-> v, of |-> work[f].source.of]
           q0 == work[f].found \ {work[f].p}
           r == [work[f] EXCEPT !.plan = v, !.at = "sync", !.found = q0]
<1>0. /\ work[f].at = "replace" /\ writes < MaxWrites /\ writes' = v
      /\ plan' = [plan EXCEPT ![work[f].p] = new]
      /\ work' = [work EXCEPT ![f] = r] /\ staged' = staged \ {work[f].p}
      /\ UNCHANGED <<source, schedules, temps, durable, holder, raced>>
  BY DEF ReplacePlan, At
<1>a. work[f].at \in Working /\ "sync" \in Working /\ "sync" \in Stage
  BY <1>0 DEF Working, Stage
<1>b. holder = f /\ TypeOK /\ Freezer_OK(f) /\ work[f] \in FreezerState /\ Durable
  BY <1>a, AtWork DEF IInv
<1>c. writes \in 0 .. MaxWrites /\ v \in 0 .. MaxWrites
  BY <1>0, <1>b, ConstantFacts DEF TypeOK
<1>d. /\ work[f].source \in Version /\ work[f].source.of \in Settings
      /\ work[f].p \in Plan /\ work[f].edited \in BOOLEAN
      /\ Target(f) \in durable.schedules
  <2>1. work[f].source \in Version /\ Target(f) \in durable.schedules
    BY <1>0, <1>b DEF Freezer_OK, Target_OK, Captured, Working, Stage, Published
  <2> QED
    BY <1>b, <2>1, FieldTypes DEF Version
<1> HIDE DEF v
<1>e. new \in Version /\ new.version = v /\ new.of = work[f].source.of
  BY <1>c, <1>d DEF Version
<1>1. /\ r \in FreezerState /\ r.at = "sync" /\ r.p = work[f].p /\ r.plan = v
      /\ r.source = work[f].source /\ r.edited = work[f].edited
      /\ r.found = q0
  <2>1. q0 \in SUBSET Plan
    BY <1>b, FieldTypes
  <2> HIDE DEF q0
  <2> QED
    BY <1>a, <1>b, <1>c, <2>1 DEF FreezerState
<1> HIDE DEF r, new
<1>3. /\ work' \in [Freezers -> FreezerState] /\ work'[f] = r
      /\ \A g \in Freezers : g # f => work'[g] = work[g]
  BY <1>0, <1>b, <1>1, WorkUpdate
<1>f. plan \in [Plan -> Version]
  BY <1>b DEF TypeOK
<1>4. /\ plan' \in [Plan -> Version] /\ plan'[work[f].p] = new
      /\ \A q \in Plan : q # work[f].p => plan'[q] = plan[q]
  BY <1>0, <1>d, <1>e, <1>f, Zenon
<1>5. Data_OK'
  BY <1>0, <1>b, <1>c, <1>4 DEF TypeOK, Data_OK
<1>6. Durable'
  <2> SUFFICES ASSUME NEW q \in Plan
               PROVE  [plan |-> q, of |-> plan'[q].of] \in durable.schedules
    BY <1>0, <1>b DEF Durable
  <2>1. CASE q = work[f].p
    BY <1>d, <1>e, <1>4, <2>1 DEF Target
  <2>2. CASE q # work[f].p
    BY <1>b, <1>4, <2>2 DEF Durable
  <2> QED
    BY <2>1, <2>2
<1>7. Target_OK(f)'
  BY <1>0, <1>1, <1>3, <1>d DEF Target_OK, Target, Linked
<1>8. Commit_OK(f)'
  BY <1>1, <1>3 DEF Commit_OK
<1>9. Unedited_OK(f)'
  <2> SUFFICES ASSUME ~ work[f].edited
               PROVE  /\ PlanUnchanged(f)' /\ SourceUnchanged(f)'
                      /\ plan'[work'[f].p].of = work'[f].source.of
                      /\ \A q \in Plan : q < work'[f].p => Loadable(q)'
    BY <1>1, <1>3 DEF Unedited_OK
  <2>1. PlanUnchanged(f)' /\ plan'[work'[f].p].of = work'[f].source.of
    BY <1>1, <1>3, <1>4, <1>e DEF PlanUnchanged
  <2>2. SourceUnchanged(f)'
    BY <1>0, <1>1, <1>3, <1>b DEF SourceUnchanged, Freezer_OK, Unedited_OK, Captured, Working, Stage
  <2>3. \A q \in Plan : q < work'[f].p => Loadable(q)'
    <3> SUFFICES ASSUME NEW q \in Plan, q < work[f].p PROVE Loadable(q)'
      BY <1>1, <1>3
    <3>1. Loadable(q)
      BY <1>a, <1>b DEF Freezer_OK, Unedited_OK
    <3>2. q # work[f].p
      BY <1>d, ConstantFacts
    <3> QED
      BY <1>0, <1>4, <3>1, <3>2 DEF Loadable
  <2> QED
    BY <2>1, <2>2, <2>3
<1>10. Clean_OK(f)' /\ (At(f, "refused") => work[f].edited)'
  BY <1>0, <1>a, <1>b, <1>1, <1>3 DEF Freezer_OK, Clean_OK, Committing, At, Published
<1>11. Freezer_OK(f)'
  BY <1>7, <1>8, <1>9, <1>10 DEF Freezer_OK
<1> QED
  BY <1>0, <1>a, <1>b, <1>1, <1>3, <1>5, <1>6, <1>11, OwnStep

\* A plan that is verified loads.
LEMMA VerifiedLoads ==
    ASSUME NEW f \in Freezers, Registered(f)
    PROVE  Loadable(work[f].p)
BY DEF Registered, InputsUnchanged, SourceUnchanged, Loadable, Target

LEMMA StepVerify ==
    ASSUME IInv, NEW f \in Freezers, Verify(f)
    PROVE  IInv'
<1>0. /\ work[f].at = "verify" /\ Registered(f)
      /\ UNCHANGED <<writes, source, directory, durable, raced>>
  BY DEF Verify, At
<1>a. work[f].at \in Working /\ "plan" \in Working /\ "plan" \in Stage /\ "frozen" \in Stage
      /\ "frozen" \notin Working /\ work[f].at \in Published
  BY <1>0 DEF Working, Stage, Published
<1>b. holder = f /\ TypeOK /\ Freezer_OK(f) /\ work[f] \in FreezerState
  BY <1>a, AtWork
<1>1. Data_OK' /\ Durable'
  BY <1>0, DataFrame
<1>2. CASE work[f].p < Plans
  <2> DEFINE n == work[f].p + 1
             r == [work[f] EXCEPT !.p = n, !.at = "plan"]
  <2>1. work[f].p \in Plan /\ n \in Plan
    BY <1>2, <1>b, ConstantFacts, FieldTypes
  <2> HIDE DEF n
  <2>2. /\ r \in FreezerState /\ r.at = "plan" /\ r.p = n /\ r.edited = work[f].edited /\ r.found = work[f].found
    BY <1>a, <1>b, <2>1 DEF FreezerState
  <2>3. work' = [work EXCEPT ![f] = r] /\ holder' = holder
    BY <1>2, ConstantFacts DEF Verify, n
  <2> HIDE DEF r
  <2>4. /\ work' \in [Freezers -> FreezerState] /\ work'[f] = r
        /\ \A g \in Freezers : g # f => work'[g] = work[g]
    BY <1>b, <2>2, <2>3, WorkUpdate
  <2>5. Target_OK(f)' /\ Commit_OK(f)' /\ (At(f, "refused") => work[f].edited)'
    BY <2>2, <2>4 DEF Target_OK, Commit_OK, Captured, Linked, Published, At
  <2>6. Clean_OK(f)'
    <3>0. staged \subseteq work[f].found
      BY <1>0, <1>a, <1>b DEF Freezer_OK, Clean_OK, Committing
    <3> SUFFICES ASSUME NEW q \in temps PROVE q >= n
      BY <1>0, <2>2, <2>4, <3>0 DEF Clean_OK, Committing, Published, directory
    <3>1. q >= work[f].p /\ q # work[f].p /\ q \in Plan
      BY <1>a, <1>b DEF Freezer_OK, Clean_OK, Committing, TypeOK
    <3> QED
      BY <2>1, <3>1, ConstantFacts DEF n
  <2>7. Unedited_OK(f)'
    <3> SUFFICES ASSUME ~ work[f].edited, NEW q \in Plan, q < n PROVE Loadable(q)'
      BY <2>2, <2>4 DEF Unedited_OK, Captured
    <3>1. CASE q = work[f].p
      <4>1. Loadable(q)
        BY <1>0, <3>1, VerifiedLoads
      <4> QED
        BY <1>0, <4>1 DEF Loadable, directory
    <3>2. CASE q < work[f].p
      <4>1. Loadable(q)
        BY <1>a, <1>b, <3>2 DEF Freezer_OK, Unedited_OK
      <4> QED
        BY <1>0, <4>1 DEF Loadable, directory
    <3> QED
      BY <2>1, <3>1, <3>2, ConstantFacts DEF n
  <2>8. Freezer_OK(f)'
    BY <2>5, <2>6, <2>7 DEF Freezer_OK
  <2> QED
    BY <1>a, <1>b, <1>1, <2>2, <2>3, <2>4, <2>8, OwnStep
<1>3. CASE ~ (work[f].p < Plans)
  <2>1. Leave(f, "frozen")
    BY <1>3 DEF Verify
  <2>2. /\ work' \in [Freezers -> FreezerState] /\ holder' = Nobody
        /\ \A g \in Freezers : g # f => work'[g] = work[g]
        /\ work'[f].at = "frozen"
    BY <1>a, <1>b, <2>1, LeaveFacts
  <2>3. Freezer_OK(f)'
    BY <1>a, <2>2, NotAtWork
  <2> QED
    BY <1>a, <1>b, <1>1, <2>2, <2>3, OwnStep
<1> QED
  BY <1>2, <1>3

\* A freezer at work that sees a mismatch has been edited.
LEMMA MismatchHasCause ==
    ASSUME IInv, NEW f \in Freezers, Mismatch(f)
    PROVE  work[f].edited /\ work[f].at \in Working
<1>1. work[f].at \in {"publish", "assert", "precommit", "stat", "verify"}
  BY DEF Mismatch, At
<1>2. work[f].at \in Working /\ work[f].at \in Captured
      /\ (work[f].at # "publish" => work[f].at \in Published)
  BY <1>1 DEF Working, Stage, Captured, Published
<1>3. Freezer_OK(f) /\ Durable
  BY <1>2, AtWork DEF IInv
<1>4. ASSUME ~ work[f].edited PROVE FALSE
  <2>1. /\ PlanUnchanged(f) /\ SourceUnchanged(f)
        /\ work[f].at = "verify" => plan[work[f].p].of = work[f].source.of
        /\ work[f].at # "publish" => Target(f) \in schedules
    BY <1>1, <1>2, <1>3, <1>4 DEF Freezer_OK, Unedited_OK, Target_OK, Durable, Captured
  <2> QED
    BY <2>1 DEF Mismatch, At, InputsUnchanged, Registered
<1> QED
  BY <1>2, <1>4

LEMMA StepLeave ==
    ASSUME IInv, NEW f \in Freezers, Refuse(f) \/ Raise(f) \/ Kill(f)
    PROVE  IInv'
<1> DEFINE s == IF Mismatch(f) /\ Leave(f, "refused") THEN "refused" ELSE "idle"
<1>1. /\ work[f].at \in Working /\ Leave(f, s) /\ s \in {"refused", "idle"}
      /\ s = "refused" => work[f].edited
      /\ UNCHANGED <<writes, source, plan, schedules, temps, durable, raced>>
      /\ staged' \subseteq staged
  <2>1. CASE Refuse(f)
    BY <2>1, MismatchHasCause DEF Refuse
  <2>2. CASE Raise(f) \/ Kill(f)
    BY <2>2, MismatchHasCause DEF Raise, Kill, directory
  <2> QED
    BY <2>1, <2>2
<1> HIDE DEF s
<1>2. s \in Stage /\ s \notin Working
  BY <1>1, StageFacts DEF Stage
<1>3. TypeOK /\ holder = f
  BY <1>1, AtWork
<1>4. /\ work' \in [Freezers -> FreezerState] /\ holder' = Nobody
      /\ \A g \in Freezers : g # f => work'[g] = work[g]
      /\ work'[f].at = s /\ work'[f].edited = (s = "refused" /\ work[f].edited)
  BY <1>1, <1>2, <1>3, LeaveFacts
<1>5. work'[f].at = "refused" => work'[f].edited
  BY <1>1, <1>4
<1>6. Freezer_OK(f)'
  BY <1>2, <1>4, <1>5, NotAtWork
<1>7. Data_OK' /\ Durable'
  BY <1>1, <1>3, StagedFrame DEF TypeOK
<1> QED
  BY <1>2, <1>3, <1>4, <1>6, <1>7, OwnStep

LEMMA StepAgain ==
    ASSUME IInv, NEW f \in Freezers, Again(f)
    PROVE  IInv'
<1>0. /\ work[f].at \notin Working /\ work' = [work EXCEPT ![f] = Fresh]
      /\ UNCHANGED <<writes, source, directory, durable, holder, raced>>
  BY DEF Again, Working
<1>1. Fresh.at = "idle"
  BY DEF Fresh
<1>2. /\ work' \in [Freezers -> FreezerState] /\ work'[f].at = "idle"
      /\ \A g \in Freezers : g # f => work'[g] = work[g]
  BY <1>0, <1>1, FreshType, WorkUpdate DEF IInv
<1>3. Freezer_OK(f)'
  BY <1>2, StageFacts, NotAtWork
<1>4. ASSUME NEW g \in Freezers, g # f PROVE Freezer_OK(g)'
  BY <1>0, <1>2, <1>4
     DEF IInv, Freezer_OK, Target_OK, Commit_OK, Unedited_OK, Clean_OK, Committing, At, PlanUnchanged,
         SourceUnchanged, Loadable, Target, directory
<1>5. Data_OK' /\ Durable'
  BY <1>0, DataFrame
<1>6. holder' \in Freezers \cup {Nobody}
      /\ \A g \in Freezers : work'[g].at \in Working <=> holder' = g
  BY <1>0, <1>2, StageFacts, TypeParts DEF IInv
<1>7. TypeOK'
  BY <1>2, <1>5, <1>6 DEF TypeOK, Data_OK, FreezerState
<1> QED
  BY <1>3, <1>4, <1>5, <1>7 DEF IInv

-----------------------------------------------------------------------------
(***************************************************************************)
(* The surroundings.                                                       *)
(***************************************************************************)
\* An edit is noticed by the freezer at work.
LEMMA NoticedFacts ==
    ASSUME TypeOK, work' = Noticed
    PROVE  /\ work' \in [Freezers -> FreezerState]
           /\ \A g \in Freezers :
                /\ work'[g].at = work[g].at /\ work'[g].p = work[g].p
                /\ work'[g].plan = work[g].plan /\ work'[g].source = work[g].source
                /\ work'[g].found = work[g].found
                /\ work'[g].edited = (work[g].edited \/ work[g].at \in Working)
<1>1. ASSUME NEW g \in Freezers
      PROVE  /\ work'[g] \in FreezerState
             /\ work'[g].at = work[g].at /\ work'[g].p = work[g].p
             /\ work'[g].plan = work[g].plan /\ work'[g].source = work[g].source
             /\ work'[g].found = work[g].found
             /\ work'[g].edited = (work[g].edited \/ work[g].at \in Working)
  <2> DEFINE e == work[g].edited \/ work[g].at \in Working
             r == [work[g] EXCEPT !.edited = e]
  <2>1. e \in BOOLEAN
    OBVIOUS
  <2>2. work'[g] = r
    BY Zenon DEF Noticed
  <2>3. /\ r \in FreezerState /\ r.at = work[g].at /\ r.p = work[g].p /\ r.plan = work[g].plan
        /\ r.source = work[g].source /\ r.edited = e /\ r.found = work[g].found
    <3> HIDE DEF e
    <3> QED
      BY <2>1, TypeFacts DEF FreezerState
  <2> QED
    BY <2>2, <2>3, Zenon
<1>2. work' = [g \in Freezers |-> work'[g]]
  BY DEF Noticed
<1> QED
  BY <1>1, <1>2, Zenon

\* After an edit the freezers need only what does not depend on the inputs.
LEMMA EditStep ==
    ASSUME IInv, work' = Noticed, holder' = holder, Data_OK', Durable',
           durable.schedules \subseteq durable'.schedules, schedules' = schedules, temps' = temps, staged' = staged,
           \A f \in Freezers : Commit_OK(f)'
    PROVE  IInv'
<1>1. /\ work' \in [Freezers -> FreezerState]
      /\ \A g \in Freezers :
            /\ work'[g].at = work[g].at /\ work'[g].p = work[g].p
            /\ work'[g].plan = work[g].plan /\ work'[g].source = work[g].source
            /\ work'[g].found = work[g].found
            /\ work'[g].edited = (work[g].edited \/ work[g].at \in Working)
  BY NoticedFacts DEF IInv
<1>2. ASSUME NEW f \in Freezers PROVE Freezer_OK(f)'
  <2>1. Freezer_OK(f)
    BY DEF IInv
  <2>2. Target_OK(f)' /\ Clean_OK(f)' /\ (At(f, "refused") => work[f].edited)'
    BY <1>1, <2>1 DEF Freezer_OK, Target_OK, Clean_OK, Committing, Target, At
  <2>3. Unedited_OK(f)'
    BY <1>1 DEF Unedited_OK, Captured, Working, Stage
  <2> QED
    BY <2>2, <2>3 DEF Freezer_OK
<1>3. TypeOK'
  BY <1>1, TypeParts DEF IInv, TypeOK, Data_OK, FreezerState
<1> QED
  BY <1>2, <1>3 DEF IInv

LEMMA StepEditSource ==
    ASSUME IInv, NEW s \in Settings, EditSource(s)
    PROVE  IInv'
<1>0. /\ writes < MaxWrites /\ writes' = writes + 1
      /\ source' = [version |-> writes + 1, of |-> s]
      /\ raced' = (raced \/ \E f \in Freezers : work[f].at \in {"stat", "replace"})
      /\ work' = Noticed
      /\ UNCHANGED <<plan, schedules, temps, staged, durable, holder>>
  BY DEF EditSource, directory
<1>1. TypeOK
  BY DEF IInv
<1>2. writes + 1 \in 0 .. MaxWrites
  BY <1>0, <1>1, ConstantFacts DEF TypeOK
<1>3. source' \in Version /\ raced' \in BOOLEAN
  BY <1>0, <1>2, <1>1 DEF Version
<1>4. Data_OK' /\ Durable'
  BY <1>0, <1>1, <1>2, <1>3 DEF TypeOK, Data_OK, Durable, IInv
<1>5. ASSUME NEW f \in Freezers PROVE Commit_OK(f)'
  <2>1. Commit_OK(f)
    BY DEF IInv, Freezer_OK
  <2>2. work'[f].at = work[f].at
    BY <1>0, <1>1, NoticedFacts
  <2>3. raced' \/ (~ raced /\ work[f].at \notin {"stat", "replace"})
    BY <1>0, Zenon
  <2> QED
    BY <2>2, <2>3 DEF Commit_OK
<1> QED
  BY <1>0, <1>4, <1>5, EditStep

LEMMA StepEditPlan ==
    ASSUME IInv, NEW p \in Plan, NEW s \in Settings, EditPlan(p, s)
    PROVE  IInv'
<1> DEFINE v == writes + 1
           new == [version |-> v, of |-> s]
<1>0. /\ writes < MaxWrites /\ writes' = v
      /\ [plan |-> p, of |-> s] \in durable.schedules
      /\ plan' = [plan EXCEPT ![p] = new]
      /\ raced' = (raced \/ \E f \in Freezers : At(f, "replace") /\ work[f].p = p)
      /\ work' = Noticed
      /\ UNCHANGED <<source, schedules, temps, staged, durable, holder>>
  BY DEF EditPlan
<1>1. TypeOK
  BY DEF IInv
<1>2. v \in 0 .. MaxWrites
  BY <1>0, <1>1, ConstantFacts DEF TypeOK
<1>3. new \in Version /\ new.of = s /\ raced' \in BOOLEAN
  BY <1>0, <1>2, <1>1 DEF Version
<1> HIDE DEF new, v
<1>4. /\ plan' \in [Plan -> Version] /\ plan'[p] = new
      /\ \A q \in Plan : q # p => plan'[q] = plan[q]
  <2>1. plan \in [Plan -> Version]
    BY <1>1 DEF TypeOK
  <2> QED
    BY <1>0, <1>3, <2>1, Zenon
<1>5. Data_OK'
  BY <1>0, <1>1, <1>2, <1>3, <1>4 DEF TypeOK, Data_OK
<1>6. Durable'
  <2> SUFFICES ASSUME NEW q \in Plan
               PROVE  [plan |-> q, of |-> plan'[q].of] \in durable.schedules
    BY <1>0 DEF Durable, IInv
  <2>1. CASE q = p
    BY <1>0, <1>3, <1>4, <2>1
  <2>2. CASE q # p
    BY <1>4, <2>2 DEF Durable, IInv
  <2> QED
    BY <2>1, <2>2
<1>7. ASSUME NEW f \in Freezers PROVE Commit_OK(f)'
  <2>1. Commit_OK(f)
    BY DEF IInv, Freezer_OK
  <2>2. /\ work'[f].at = work[f].at /\ work'[f].p = work[f].p /\ work'[f].plan = work[f].plan
        /\ work'[f].source = work[f].source
    BY <1>0, <1>1, NoticedFacts
  <2>3. raced' \/ (~ raced /\ ~ (work[f].at = "replace" /\ work[f].p = p))
    BY <1>0, Zenon DEF At
  <2>4. work[f].p \in Plan
    BY <1>1, TypeFacts, FieldTypes
  <2> QED
    BY <1>0, <1>4, <2>1, <2>2, <2>3, <2>4 DEF Commit_OK, PlanUnchanged, SourceUnchanged
<1> QED
  BY <1>0, <1>5, <1>6, <1>7, EditStep

LEMMA StepPowerLoss ==
    ASSUME IInv, PowerLoss
    PROVE  IInv'
<1>1. PICK lost \in SUBSET Plan :
         plan' = [p \in Plan |-> IF p \in lost THEN durable.plan[p] ELSE plan[p]]
  BY DEF PowerLoss
<1>2. PICK gone \in SUBSET (schedules \ durable.schedules) : schedules' = schedules \ gone
  BY DEF PowerLoss
<1>3. /\ durable' = [plan |-> plan', schedules |-> schedules']
      /\ holder' = Nobody /\ work' = [f \in Freezers |-> Fresh]
      /\ UNCHANGED <<writes, source, raced>> /\ temps' \in SUBSET temps
  BY DEF PowerLoss
<1>4. TypeOK /\ Durable
  BY DEF IInv
<1>5. plan' \in [Plan -> Version] /\ schedules' \subseteq Schedule
      /\ durable.schedules \subseteq schedules'
  <2>1. plan \in [Plan -> Version] /\ durable.plan \in [Plan -> Version]
    BY <1>4 DEF TypeOK
  <2>2. plan' \in [Plan -> Version]
    BY <1>1, <2>1
  <2> QED
    BY <1>2, <1>4, <2>2 DEF TypeOK, Durable
<1>a. staged' \subseteq Plan
  <2>1. staged' \subseteq staged \cup {work[f].p : f \in {g \in Freezers : At(g, "sync")}}
    BY DEF PowerLoss
  <2>2. \A f \in Freezers : work[f].p \in Plan
    BY <1>4, TypeFacts, FieldTypes
  <2> QED
    BY <1>4, <2>1, <2>2 DEF TypeOK
<1>6. Data_OK'
  BY <1>3, <1>4, <1>5, <1>a DEF TypeOK, Data_OK
<1>7. Durable'
  <2>1. durable'.schedules = schedules' /\ durable'.plan = plan'
    BY <1>3
  <2>2. ASSUME NEW p \in Plan PROVE [plan |-> p, of |-> plan'[p].of] \in durable.schedules
    <3>1. plan'[p] = durable.plan[p] \/ plan'[p] = plan[p]
      BY <1>1
    <3> QED
      BY <3>1, <1>4 DEF Durable
  <2> QED
    BY <1>5, <2>1, <2>2 DEF Durable
<1>8. /\ work' \in [Freezers -> FreezerState]
      /\ \A f \in Freezers : work'[f].at = "idle"
  <2>1. Fresh.at = "idle"
    BY DEF Fresh
  <2> QED
    BY <1>3, <2>1, FreshType
<1>9. \A f \in Freezers : Freezer_OK(f)'
  BY <1>8, StageFacts, NotAtWork
<1>10. TypeOK'
  BY <1>3, <1>6, <1>8, ConstantFacts, StageFacts DEF TypeOK, Data_OK, FreezerState
<1> QED
  BY <1>7, <1>9, <1>10 DEF IInv

-----------------------------------------------------------------------------
(***************************************************************************)
(* The theorems.                                                           *)
(***************************************************************************)
LEMMA InitIInv == Init => IInv
<1> SUFFICES ASSUME Init PROVE IInv
  OBVIOUS
<1>1. PICK s \in Settings :
         /\ writes = 0
         /\ source = [version |-> 0, of |-> s]
         /\ plan = [p \in Plan |-> [version |-> 0, of |-> s]]
         /\ schedules = {[plan |-> p, of |-> s] : p \in Plan}
         /\ temps = {} /\ staged = {}
         /\ durable = [plan |-> plan, schedules |-> schedules]
         /\ holder = Nobody
         /\ work = [f \in Freezers |-> Fresh]
         /\ raced = FALSE
  BY DEF Init
<1>2. [version |-> 0, of |-> s] \in Version
  BY ConstantFacts DEF Version
<1>3. schedules \subseteq Schedule /\ plan \in [Plan -> Version]
  BY <1>1, <1>2 DEF Schedule
<1>4. /\ work \in [Freezers -> FreezerState]
      /\ \A f \in Freezers : work[f].at = "idle"
  <2>1. Fresh.at = "idle"
    BY DEF Fresh
  <2> QED
    BY <1>1, <2>1, FreshType
<1>5. Data_OK
  <2>1. durable = [plan |-> plan, schedules |-> schedules]
    BY <1>1
  <2>2. durable \in [plan : [Plan -> Version], schedules : SUBSET Schedule]
    BY <1>3, <2>1
  <2>3. source \in Version
    BY <1>1, <1>2, Zenon
  <2>4. writes \in 0 .. MaxWrites /\ temps = {} /\ staged = {}
    BY <1>1, ConstantFacts
  <2>5. raced \in BOOLEAN
    BY <1>1, Zenon
  <2> QED
    BY <1>3, <2>2, <2>3, <2>4, <2>5 DEF Data_OK
<1>6. TypeOK
  BY <1>1, <1>4, <1>5, ConstantFacts, StageFacts, TypeParts
<1>7. Durable
  BY <1>1 DEF Durable
<1>8. ASSUME NEW f \in Freezers PROVE Freezer_OK(f)
  BY <1>4, StageFacts DEF Freezer_OK, Target_OK, Commit_OK, Unedited_OK, Clean_OK, Committing, At
<1> QED
  BY <1>6, <1>7, <1>8 DEF IInv

LEMMA StepIInv == IInv /\ [Next]_vars => IInv'
<1> SUFFICES ASSUME IInv, [Next]_vars PROVE IInv'
  OBVIOUS
<1>1. ASSUME NEW f \in Freezers, Freeze(f) PROVE IInv'
  BY <1>1, StepLock, StepCapturePlan, StepCaptureSource, StepStageSchedule, StepLinkSchedule,
     StepSyncLink, StepUnlinkTemp, StepCheck, StepStagePlan, StepReplacePlan, StepSyncPlan, StepVerify,
     StepLeave, StepAgain DEF Freeze
<1>2. ASSUME NEW f \in Freezers, Raise(f) \/ Kill(f) PROVE IInv'
  BY <1>2, StepLeave
<1>3. CASE Edit
  BY <1>3, StepEditSource, StepEditPlan DEF Edit
<1>4. CASE PowerLoss
  BY <1>4, StepPowerLoss
<1>5. CASE UNCHANGED vars
  <2>1. UNCHANGED <<writes, source, plan, schedules, temps, staged, durable, holder, work, raced>>
    BY <1>5 DEF vars, directory
  <2>2. TypeOK' /\ Durable'
    BY <2>1, Zenon DEF IInv, TypeOK, Durable
  <2>3. ASSUME NEW f \in Freezers PROVE Freezer_OK(f)'
    <3>1. Freezer_OK(f)
      BY DEF IInv
    <3> QED
      BY <2>1, <3>1 DEF Freezer_OK, Target_OK, Commit_OK, Unedited_OK, Clean_OK, Committing, At, PlanUnchanged,
         SourceUnchanged, Loadable, Target
  <2> QED
    BY <2>2, <2>3 DEF IInv
<1> QED
  BY <1>1, <1>2, <1>3, <1>4, <1>5 DEF Next

\* The inductive invariant of the freezers, the files and the lock.
THEOREM FreezeInvariant == Spec => []IInv
BY InitIInv, StepIInv, PTL DEF Spec

\* The variables keep their ranges, and only the holder of the lock is at
\* work, for any freezers, plans and settings.
THEOREM FreezeTypeCorrect == Spec => []TypeOK
<1>1. IInv => TypeOK
  BY DEF IInv
<1> QED
  BY <1>1, FreezeInvariant, PTL

\* At every moment, after any kill or power loss, the schedule that a plan
\* registers is there.
THEOREM SchedulesPrecedePlans == Spec => []PlanNamesSchedule
<1>1. IInv => PlanNamesSchedule
  BY DEF IInv, Durable, PlanNamesSchedule
<1> QED
  BY <1>1, FreezeInvariant, PTL

\* Freezing is refused only for an edit.
THEOREM RefusalsHaveCause == Spec => []RefusalHasCause
<1>1. IInv => RefusalHasCause
  BY DEF IInv, Freezer_OK, RefusalHasCause
<1> QED
  BY <1>1, FreezeInvariant, PTL

\* A commit that no edit raced with replaces what the freezer has read.
THEOREM UpdatesAreKept == Spec => NoLostUpdate
<1>1. ASSUME IInv
      PROVE  \A f \in Freezers : At(f, "replace") /\ work'[f].at = "sync" /\ ~ raced =>
                plan[work[f].p].version = work[f].plan
  BY <1>1 DEF IInv, Freezer_OK, Commit_OK, At, PlanUnchanged
<1> QED
  BY <1>1, FreezeInvariant, PTL DEF NoLostUpdate

\* A step of a freezer changes the stage of no other.
LEMMA OthersStay ==
    ASSUME TypeOK, NEW g \in Freezers, Freeze(g) \/ Raise(g) \/ Kill(g)
    PROVE  \A f \in Freezers : f # g => work'[f] = work[f]
<1> SUFFICES ASSUME NEW f \in Freezers, f # g PROVE work'[f] = work[f]
  OBVIOUS
<1>1. work \in [Freezers -> FreezerState]
  BY TypeFacts
<1>2. \E r : work' = [work EXCEPT ![g] = r]
  <2>1. CASE Lock(g)
    BY <2>1, Zenon DEF Lock
  <2>2. CASE CapturePlan(g)
    BY <2>2 DEF CapturePlan
  <2>3. CASE CaptureSource(g)
    BY <2>3 DEF CaptureSource
  <2>4. CASE ReplacePlan(g)
    BY <2>4 DEF ReplacePlan
  <2>5. CASE Verify(g)
    BY <2>5 DEF Verify, Leave
  <2>6. CASE Again(g)
    BY <2>6, Zenon DEF Again
  <2>7. CASE Refuse(g) \/ Raise(g) \/ Kill(g)
    BY <2>7, Zenon DEF Refuse, Raise, Kill, Leave
  <2>8. CASE \/ StageSchedule(g) \/ LinkSchedule(g) \/ SyncLink(g) \/ UnlinkTemp(g)
             \/ AssertUnchanged(g) \/ StagePlan(g) \/ AssertCommitInputs(g) \/ StatPlan(g)
             \/ SyncPlan(g)
    BY <2>8 DEF StageSchedule, LinkSchedule, SyncLink, UnlinkTemp, AssertUnchanged, StagePlan,
       AssertCommitInputs, StatPlan, SyncPlan, Go
  <2> QED
    BY <2>1, <2>2, <2>3, <2>4, <2>5, <2>6, <2>7, <2>8 DEF Freeze
<1> QED
  BY <1>1, <1>2

\* A stage changes by a step of the freezer, and otherwise to idle.
LEMMA WhoMoves ==
    ASSUME TypeOK, [Next]_vars, NEW f \in Freezers, work'[f].at \notin {work[f].at, "idle"}
    PROVE  Freeze(f) \/ Raise(f) \/ Kill(f)
<1>1. ASSUME NEW g \in Freezers, Freeze(g) \/ Raise(g) \/ Kill(g)
      PROVE  Freeze(f) \/ Raise(f) \/ Kill(f)
  BY <1>1, OthersStay
<1>2. CASE Edit
  <2>1. work' = Noticed
    BY <1>2 DEF Edit, EditSource, EditPlan
  <2> QED
    BY <2>1, NoticedFacts
<1>3. CASE PowerLoss
  BY <1>3 DEF PowerLoss, Fresh
<1>4. CASE UNCHANGED vars
  BY <1>4 DEF vars
<1> QED
  BY <1>1, <1>2, <1>3, <1>4 DEF Next

\* Of a freezer's steps only the replace changes what is registered.
LEMMA WhatIsKept ==
    ASSUME TypeOK, NEW f \in Freezers, Freeze(f) \/ Raise(f) \/ Kill(f), ~ ReplacePlan(f)
    PROVE  plan' = plan /\ source' = source /\ schedules \subseteq schedules'
BY DEF Freeze, Lock, CapturePlan, CaptureSource, StageSchedule, LinkSchedule, SyncLink, UnlinkTemp,
   AssertUnchanged, StagePlan, AssertCommitInputs, StatPlan, SyncPlan, Verify, Refuse, Again,
   Raise, Kill, directory

\* Without an edit in the moment of a commit freezing breaks no plan.
THEOREM FreezingNeverBreaks == Spec => FreezeNeverBreaks
<1>1. ASSUME IInv, [Next]_vars
      PROVE  \A f \in Freezers, p \in Plan :
                work'[f].at \notin {work[f].at, "idle"} /\ ~ raced /\ Loadable(p) => Loadable(p)'
  <2> SUFFICES ASSUME NEW f \in Freezers, NEW p \in Plan,
                      work'[f].at \notin {work[f].at, "idle"}, ~ raced, Loadable(p)
               PROVE  Loadable(p)'
    OBVIOUS
  <2>1. Freeze(f) \/ Raise(f) \/ Kill(f)
    BY <1>1, WhoMoves DEF IInv
  <2>2. CASE ~ ReplacePlan(f)
    <3>1. plan' = plan /\ source' = source /\ schedules \subseteq schedules'
      BY <1>1, <2>1, <2>2, WhatIsKept DEF IInv
    <3> QED
      BY <3>1 DEF Loadable
  <2>3. CASE ReplacePlan(f)
    <3>1. /\ work[f].at = "replace"
          /\ plan' = [plan EXCEPT ![work[f].p] =
                         [version |-> writes + 1, of |-> work[f].source.of]]
          /\ UNCHANGED <<source, schedules>>
      BY <2>3 DEF ReplacePlan, At
    <3>2. work[f].source = source /\ Target(f) \in schedules
      BY <1>1, <3>1 DEF IInv, Freezer_OK, Commit_OK, Target_OK, SourceUnchanged, Durable,
         Published
    <3>3. plan \in [Plan -> Version]
      BY <1>1 DEF IInv, TypeOK
    <3>4. CASE p = work[f].p
      <4>1. plan'[p].of = source.of
        BY <3>1, <3>2, <3>3, <3>4
      <4> QED
        BY <3>1, <3>2, <3>4, <4>1 DEF Loadable, Target
    <3>5. CASE p # work[f].p
      <4>1. plan'[p] = plan[p]
        BY <3>1, <3>3, <3>5, Zenon
      <4> QED
        BY <3>1, <4>1 DEF Loadable
    <3> QED
      BY <3>4, <3>5
  <2> QED
    BY <2>2, <2>3
<1> QED
  BY <1>1, FreezeInvariant, PTL DEF Spec, FreezeNeverBreaks

\* A freezer that ends leaves nothing staged but what it found of plans that
\* needed no commit and, without an edit, every plan with a schedule that loads.
THEOREM SuccessesAreComplete == Spec => SuccessIsComplete
<1>1. ASSUME IInv, [Next]_vars
      PROVE  \A f \in Freezers : At(f, "verify") /\ work'[f].at = "frozen" =>
                /\ temps = {} /\ staged \subseteq work[f].found
                /\ ~ work[f].edited => \A p \in Plan : Loadable(p)
  <2> SUFFICES ASSUME NEW f \in Freezers, work[f].at = "verify", work'[f].at = "frozen"
               PROVE  /\ temps = {} /\ staged \subseteq work[f].found
                      /\ ~ work[f].edited => \A p \in Plan : Loadable(p)
    BY DEF At
  <2>1. Freeze(f) \/ Raise(f) \/ Kill(f)
    BY <1>1, WhoMoves DEF IInv
  <2>2. /\ work[f].at \in Working /\ work[f].at \in Published
        /\ "idle" \in Stage /\ "refused" \in Stage
    BY DEF Working, Stage, Published
  <2>3. TypeOK /\ Freezer_OK(f) /\ work[f] \in FreezerState
    BY <1>1, <2>2, AtWork
  <2>4. Verify(f)
    <3>1. ~ (Refuse(f) \/ Raise(f) \/ Kill(f))
      BY <2>2, <2>3, LeaveFacts DEF Refuse, Raise, Kill
    <3> QED
      BY <2>1, <3>1 DEF Freeze, Lock, CapturePlan, CaptureSource, StageSchedule, LinkSchedule,
         SyncLink, UnlinkTemp, AssertUnchanged, StagePlan, AssertCommitInputs, StatPlan,
         ReplacePlan, SyncPlan, Again, At
  <2>5. work[f].p = Plans
    <3>1. ASSUME work[f].p < Plans PROVE FALSE
      <4>1. work' = [work EXCEPT ![f].p = @ + 1, ![f].at = "plan"]
        BY <2>4, <3>1 DEF Verify
      <4>2. work'[f].at = "plan"
        BY <2>3, <4>1, TypeFacts DEF FreezerState
      <4> QED
        BY <4>2
    <3> QED
      BY <2>3, <3>1, ConstantFacts, FieldTypes
  <2>6. temps = {} /\ staged \subseteq work[f].found
    BY <2>2, <2>3, <2>5, ConstantFacts DEF Freezer_OK, Clean_OK, Committing, TypeOK
  <2>7. ASSUME ~ work[f].edited, NEW p \in Plan PROVE Loadable(p)
    <3>1. CASE p = work[f].p
      BY <2>4, <3>1, VerifiedLoads DEF Verify
    <3>2. CASE p # work[f].p
      BY <2>2, <2>3, <2>5, <2>7, <3>2, ConstantFacts DEF Freezer_OK, Unedited_OK
    <3> QED
      BY <3>1, <3>2
  <2> QED
    BY <2>6, <2>7
<1> QED
  BY <1>1, FreezeInvariant, PTL DEF Spec, SuccessIsComplete

=============================================================================
