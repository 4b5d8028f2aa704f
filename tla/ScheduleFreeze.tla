--------------------------- MODULE ScheduleFreeze ---------------------------
(***************************************************************************)
(* freeze_schedules.py: the transaction that generates the schedule of     *)
(* every registered plan, publishes it under its digest and registers the  *)
(* digest in the plan, against other freezers, people who edit the same    *)
(* files, kills and power losses.                                          *)
(*                                                                         *)
(* A schedule is a function of its plan and of the source configuration,   *)
(* so it is named by both; snapshots of an entry are version numbers.      *)
(***************************************************************************)
EXTENDS Integers, FiniteSets

CONSTANTS
    Freezers,
    Plans,      \* number of plans; freeze_all takes them in order
    Settings,   \* what the source configuration may say
    MaxWrites   \* bound: versions of plans and source that are written

Plan     == 1 .. Plans
Schedule == [plan : Plan, of : Settings]

ASSUME FreezeAssumption == Plans \in Nat \ {0} /\ MaxWrites \in Nat /\ IsFiniteSet(Settings)

VARIABLES
    writes,     \* versions written so far
    source,     \* the source configuration: version and settings
    plan,       \* the registered plans: version and registered settings
    schedules,  \* the published schedules
    temps,      \* .<plan>.schedule.publish.tmp
    staged,     \* .<plan>.yaml.freeze.tmp
    durable,    \* plans and schedules that survive a power loss
    holder,     \* who has the freeze lock
    work,       \* the local state of the freezers
    raced       \* an edit came between the last check and the commit

directory == <<plan, schedules, temps, staged>>
vars      == <<writes, source, directory, durable, holder, work, raced>>

Nobody == "nobody"

ASSUME FreezerAssumption == Nobody \notin Freezers

Stage == {"idle", "plan", "source", "publish", "link", "synclink", "unlink", "assert", "stage",
          "precommit", "stat", "replace", "sync", "verify", "frozen", "refused"}

\* The stages in which the freezer holds the lock.
Working == Stage \ {"idle", "frozen", "refused"}

\* The stages in which the new plan is staged.
Committing == {"precommit", "stat", "replace"}

\* What a freezer knows: the plan it works on and the versions it captured;
\* edited is TRUE once someone has edited anything meanwhile, and found is what
\* it found staged of the plans that it has not replaced.
Unread == [version |-> 0, of |-> "nothing"]
Fresh  == [at |-> "idle", p |-> 1, plan |-> 0, source |-> Unread, edited |-> FALSE,
           found |-> {}]

\* The schedule it generates.
Target(f) == [plan |-> work[f].p, of |-> work[f].source.of]

\* load_registered_schedule succeeds: the plan registers what its inputs
\* generate, and the file is there.
Loadable(p) ==
    /\ plan[p].of = source.of
    /\ [plan |-> p, of |-> plan[p].of] \in schedules

Init ==
    \E s \in Settings :
        /\ writes = 0
        /\ source = [version |-> 0, of |-> s]
        /\ plan = [p \in Plan |-> [version |-> 0, of |-> s]]
        /\ schedules = {[plan |-> p, of |-> s] : p \in Plan}
        /\ temps = {} /\ staged = {}
        /\ durable = [plan |-> plan, schedules |-> schedules]
        /\ holder = Nobody
        /\ work = [f \in Freezers |-> Fresh]
        /\ raced = FALSE

-----------------------------------------------------------------------------
(***************************************************************************)
(* The steps of a freezer.                                                 *)
(***************************************************************************)
At(f, stage) == work[f].at = stage
Go(f, stage) == work' = [work EXCEPT ![f].at = stage]

\* The identity and the bytes of the captured inputs.
PlanUnchanged(f)   == plan[work[f].p].version = work[f].plan
SourceUnchanged(f) == source = work[f].source
InputsUnchanged(f) == PlanUnchanged(f) /\ SourceUnchanged(f)

\* Mutant: no directory is synced.
SyncNothing == UNCHANGED durable

\* fsync of the directory, which holds plans and schedules.
SyncDirectory == durable' = [plan |-> plan, schedules |-> schedules]

\* _exclusive_freeze_lock_at; the capability probe leaves nothing behind.
Lock(f) ==
    /\ At(f, "idle") /\ holder = Nobody /\ holder' = f
    /\ work' = [work EXCEPT ![f] = [Fresh EXCEPT !.at = "plan", !.found = staged]]
    /\ UNCHANGED <<writes, source, directory, durable, raced>>

\* The freezer ends, and the lock with it.
Leave(f, stage) ==
    /\ work' = [work EXCEPT ![f] = [Fresh EXCEPT !.at = stage, !.edited = stage = "refused" /\ work[f].edited]]
    /\ holder' = Nobody

\* _capture_frozen_inputs reads the plan, then the source.
CapturePlan(f) ==
    /\ At(f, "plan")
    /\ work' = [work EXCEPT ![f].plan = plan[work[f].p].version, ![f].at = "source"]
    /\ UNCHANGED <<writes, source, directory, durable, holder, raced>>

CaptureSource(f) ==
    /\ At(f, "source")
    /\ work' = [work EXCEPT ![f].source = source, ![f].at = "publish"]
    /\ UNCHANGED <<writes, source, directory, durable, holder, raced>>

\* _publish_immutable_at: the schedule is staged in a file of a fixed name,
\* in the place of what a freezer that died has left.
StageSchedule(f) ==
    /\ At(f, "publish") /\ InputsUnchanged(f)
    /\ temps' = temps \cup {work[f].p}
    /\ Go(f, "link") /\ UNCHANGED <<plan, schedules, staged>>
    /\ UNCHANGED <<writes, source, durable, holder, raced>>

\* The link never replaces: a schedule that is there already is the same.
LinkSchedule(f) ==
    /\ At(f, "link")
    /\ \/ Target(f) \in schedules /\ Go(f, "unlink") /\ UNCHANGED schedules
       \/ /\ Target(f) \notin schedules
          /\ Go(f, "synclink") /\ schedules' = schedules \cup {Target(f)}
    /\ UNCHANGED <<writes, source, plan, temps, staged, durable, holder, raced>>

SyncLink(f) ==
    /\ At(f, "synclink") /\ Go(f, "unlink") /\ UNCHANGED directory /\ SyncDirectory
    /\ UNCHANGED <<writes, source, holder, raced>>

UnlinkTemp(f) ==
    /\ At(f, "unlink")
    /\ temps' = temps \ {work[f].p}
    /\ Go(f, "assert") /\ UNCHANGED <<plan, schedules, staged>> /\ SyncDirectory
    /\ UNCHANGED <<writes, source, holder, raced>>

\* _freeze_captured_inputs after publication: is there something to commit?
AssertUnchanged(f) ==
    /\ At(f, "assert") /\ InputsUnchanged(f)
    /\ Go(f, IF plan[work[f].p].of = work[f].source.of THEN "verify" ELSE "stage")
    /\ UNCHANGED <<writes, source, directory, durable, holder, raced>>

\* _replace_plan_at: stage, assert_commit_inputs, the identity, the replace.
\* The new plan is staged in a file of a fixed name too, in the place of what
\* an earlier freezer has left; one that finds nothing to commit leaves it.
StagePlan(f) ==
    /\ At(f, "stage")
    /\ staged' = staged \cup {work[f].p}
    /\ Go(f, "precommit") /\ UNCHANGED <<plan, schedules, temps>>
    /\ UNCHANGED <<writes, source, durable, holder, raced>>

AssertCommitInputs(f) ==
    /\ At(f, "precommit") /\ InputsUnchanged(f) /\ Target(f) \in schedules
    /\ Go(f, "stat")
    /\ UNCHANGED <<writes, source, directory, durable, holder, raced>>

\* Mutant: the identity of the plan is not compared.
StatAnyPlan(f) ==
    /\ At(f, "stat") /\ Go(f, "replace")
    /\ UNCHANGED <<writes, source, directory, durable, holder, raced>>

StatPlan(f) ==
    /\ At(f, "stat") /\ PlanUnchanged(f) /\ Go(f, "replace")
    /\ UNCHANGED <<writes, source, directory, durable, holder, raced>>

\* Mutant: the committed plan is compared with the snapshot of the old one.
ReplaceKeepsSnapshot(f) ==
    /\ At(f, "replace") /\ writes < MaxWrites /\ writes' = writes + 1
    /\ plan' = [plan EXCEPT ![work[f].p] = [version |-> writes + 1, of |-> work[f].source.of]]
    /\ staged' = staged \ {work[f].p}
    /\ Go(f, "sync")
    /\ UNCHANGED <<source, schedules, temps, durable, holder, raced>>

ReplacePlan(f) ==
    /\ At(f, "replace") /\ writes < MaxWrites /\ writes' = writes + 1
    /\ plan' = [plan EXCEPT ![work[f].p] = [version |-> writes + 1, of |-> work[f].source.of]]
    /\ staged' = staged \ {work[f].p}
    /\ work' = [work EXCEPT ![f].plan = writes + 1, ![f].at = "sync",
                            ![f].found = @ \ {work[f].p}]
    /\ UNCHANGED <<source, schedules, temps, durable, holder, raced>>

SyncPlan(f) ==
    /\ At(f, "sync") /\ Go(f, "verify") /\ SyncDirectory
    /\ UNCHANGED <<writes, source, directory, holder, raced>>

\* The plan is the one committed, or the one that needed no commit.
Registered(f) ==
    InputsUnchanged(f) /\ Target(f) \in schedules /\ plan[work[f].p].of = work[f].source.of

\* Mutant: the last plan is left out.
VerifyOneLess(f) ==
    /\ At(f, "verify") /\ Registered(f)
    /\ IF work[f].p < Plans - 1
       THEN /\ work' = [work EXCEPT ![f].p = @ + 1, ![f].at = "plan"]
            /\ UNCHANGED holder
       ELSE Leave(f, "frozen")
    /\ UNCHANGED <<writes, source, directory, durable, raced>>

\* The plan, the schedule and the source are looked at once more, and the
\* registered schedule is loaded; then comes the next plan.
Verify(f) ==
    /\ At(f, "verify") /\ Registered(f)
    /\ IF work[f].p < Plans
       THEN /\ work' = [work EXCEPT ![f].p = @ + 1, ![f].at = "plan"]
            /\ UNCHANGED holder
       ELSE Leave(f, "frozen")
    /\ UNCHANGED <<writes, source, directory, durable, raced>>

\* A check fails.
Mismatch(f) ==
    \/ At(f, "publish") /\ ~InputsUnchanged(f)
    \/ At(f, "assert") /\ ~InputsUnchanged(f)
    \/ At(f, "precommit") /\ ~(InputsUnchanged(f) /\ Target(f) \in schedules)
    \/ At(f, "stat") /\ ~PlanUnchanged(f)
    \/ At(f, "verify") /\ ~Registered(f)

\* A staged schedule stays where it is, a staged plan is removed.
Refuse(f) ==
    /\ Mismatch(f) /\ Leave(f, "refused")
    /\ staged' = IF work[f].at \in Committing THEN staged \ {work[f].p} ELSE staged
    /\ UNCHANGED <<writes, source, plan, schedules, temps, durable, raced>>

\* Any call raises, the one that removes the staged plan included.
Raise(f) ==
    /\ work[f].at \in Working /\ Leave(f, "idle")
    /\ \/ UNCHANGED staged
       \/ work[f].at \in Committing /\ staged' = staged \ {work[f].p}
    /\ UNCHANGED <<writes, source, plan, schedules, temps, durable, raced>>

\* The process is killed; flock is released, the files stay.
Kill(f) ==
    /\ work[f].at \in Working /\ Leave(f, "idle")
    /\ UNCHANGED <<writes, source, directory, durable, raced>>

\* freeze_schedules.py is run again.
Again(f) ==
    /\ work[f].at \in {"frozen", "refused"} /\ work' = [work EXCEPT ![f] = Fresh]
    /\ UNCHANGED <<writes, source, directory, durable, holder, raced>>

-----------------------------------------------------------------------------
(***************************************************************************)
(* The surroundings.                                                       *)
(***************************************************************************)
\* All freezers at work have seen an edit.
Noticed == [f \in Freezers |-> [work[f] EXCEPT !.edited = @ \/ work[f].at \in Working]]

EditSource(s) ==
    /\ writes < MaxWrites /\ writes' = writes + 1
    /\ source' = [version |-> writes + 1, of |-> s]
    /\ raced' = (raced \/ \E f \in Freezers : work[f].at \in {"stat", "replace"})
    /\ work' = Noticed
    /\ UNCHANGED <<directory, durable, holder>>

\* A plan is restored to a registration it has had.
EditPlan(p, s) ==
    /\ writes < MaxWrites /\ writes' = writes + 1
    /\ [plan |-> p, of |-> s] \in durable.schedules
    /\ plan' = [plan EXCEPT ![p] = [version |-> writes + 1, of |-> s]]
    /\ raced' = (raced \/ \E f \in Freezers : At(f, "replace") /\ work[f].p = p)
    /\ work' = Noticed
    /\ UNCHANGED <<source, schedules, temps, staged, durable, holder>>

\* Every change of the directory since its last sync has been written or not,
\* the move of a staged plan included; what is staged may be lost too.
PowerLoss ==
    /\ plan' \in {[p \in Plan |-> IF p \in lost THEN durable.plan[p] ELSE plan[p]] : lost \in SUBSET Plan}
    /\ \E lost \in SUBSET (schedules \ durable.schedules) : schedules' = schedules \ lost
    /\ durable' = [plan |-> plan', schedules |-> schedules']
    /\ holder' = Nobody /\ work' = [f \in Freezers |-> Fresh]
    /\ temps' \in SUBSET temps
    /\ staged' \in SUBSET (staged \cup {work[f].p : f \in {g \in Freezers : At(g, "sync")}})
    /\ UNCHANGED <<writes, source, raced>>

Edit == \E s \in Settings : EditSource(s) \/ \E p \in Plan : EditPlan(p, s)

Freeze(f) ==
    \/ Lock(f) \/ CapturePlan(f) \/ CaptureSource(f) \/ StageSchedule(f)
    \/ LinkSchedule(f) \/ SyncLink(f) \/ UnlinkTemp(f) \/ AssertUnchanged(f) \/ StagePlan(f) \/ AssertCommitInputs(f)
    \/ StatPlan(f) \/ ReplacePlan(f) \/ SyncPlan(f) \/ Verify(f) \/ Refuse(f) \/ Again(f)

Next ==
    \/ \E f \in Freezers : Freeze(f) \/ Raise(f) \/ Kill(f)
    \/ Edit
    \/ PowerLoss

Spec == Init /\ [][Next]_vars

-----------------------------------------------------------------------------
(***************************************************************************)
(* Properties.                                                             *)
(***************************************************************************)
Version == [version : 0 .. MaxWrites, of : Settings]

\* The values of the variables; a freezer at work has the lock.
TypeOK ==
    /\ writes \in 0 .. MaxWrites
    /\ source \in Version /\ plan \in [Plan -> Version]
    /\ schedules \subseteq Schedule
    /\ temps \subseteq Plan /\ staged \subseteq Plan
    /\ durable \in [plan : [Plan -> Version], schedules : SUBSET Schedule]
    /\ holder \in Freezers \cup {Nobody} /\ raced \in BOOLEAN
    /\ work \in [Freezers -> [at : Stage, p : Plan, plan : 0 .. MaxWrites, source : Version \cup {Unread},
                              edited : BOOLEAN, found : SUBSET Plan]]
    /\ \A f \in Freezers : work[f].at \in Working <=> holder = f

\* The schedule a plan registers is always there, after a kill between any
\* two steps and after a power loss too: the schedule is durable before the
\* plan names it.
PlanNamesSchedule == \A p \in Plan : [plan |-> p, of |-> plan[p].of] \in schedules

\* A freezer that has not raced with an editor replaces only the version of
\* the plan that it has read: no newer registration, be it of a person or of
\* another freezer, is lost.
NoLostUpdate ==
    [][\A f \in Freezers : At(f, "replace") /\ work'[f].at = "sync" /\ ~raced =>
          plan[work[f].p].version = work[f].plan]_vars

\* Without an edit in the moment of a commit no freezer, killed anywhere,
\* makes a plan unloadable that could be loaded.
FreezeNeverBreaks ==
    [][\A f \in Freezers, p \in Plan :
          work'[f].at \notin {work[f].at, "idle"} /\ ~raced /\ Loadable(p) => Loadable(p)']_vars

\* A freezer refuses only when someone has edited its inputs meanwhile: the
\* work of another freezer, and what a dead one left, are never a reason.
RefusalHasCause == \A f \in Freezers : At(f, "refused") => work[f].edited

\* A freezer that ends leaves nothing staged of its own, no schedule, by
\* itself or by one that was killed before it, and of the plans only what it
\* found staged and had no reason to commit; and, when nobody has edited
\* anything meanwhile, it leaves every plan with a schedule that loads.
SuccessIsComplete ==
    [][\A f \in Freezers : At(f, "verify") /\ work'[f].at = "frozen" =>
          /\ temps = {} /\ staged \subseteq work[f].found
          /\ ~work[f].edited => \A p \in Plan : Loadable(p)]_vars

=============================================================================
