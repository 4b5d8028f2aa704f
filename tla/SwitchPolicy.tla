---------------------------- MODULE SwitchPolicy ----------------------------
(***************************************************************************)
(* The switching policies (policy.py): the path score, hysteresis, the     *)
(* minimum interval and the hourly limit of completed switches, driven as  *)
(* the executor drives them, by one decision per window (runner.py).       *)
(*                                                                         *)
(* Times are whole units of a clock; scores are whole numbers of           *)
(* 1 / Unit, so that the weighted sum of path quality is exact.            *)
(*                                                                         *)
(* The specification has names of its own, PolicySpec and its parts, for   *)
(* modules that extend the runner's as well.                               *)
(***************************************************************************)
EXTENDS Integers, Sequences

CONSTANTS
    Paths,              \* number of paths; a path is its place in the order of path_id
    Start,              \* the first active path
    Observation,        \* what a window may show of a path
    Strategies,         \* switching strategies of the plan
    Weight,             \* scoring weights and thresholds, by impairment
    Threshold,
    MinScore, Margin,   \* min_score_threshold, score_improvement_margin
    ThresholdRtt, ThresholdLoss,
    SustainedDegradation, ThresholdHold,
    MinInterval,        \* min_switch_interval_s
    MaxPerHour,         \* max_switches_per_hour
    Hour,               \* the 3600 seconds of _switch_guard
    MaxGap,             \* bound: time between two decisions
    MaxTime             \* bound: the time decisions are taken until

Path       == 1 .. Paths
Impairment == {"rtt", "jitter", "loss"}

ASSUME PolicyAssumption ==
    /\ Paths \in Nat /\ Start \in Path
    /\ Observation \subseteq
         [eligible : BOOLEAN, rtt : Nat, jitter : Nat, loss : Nat]
    /\ Strategies \subseteq {"adaptive", "threshold"}
    /\ Weight \in [Impairment -> Nat] /\ Threshold \in [Impairment -> Nat \ {0}]
    /\ {MinScore, Margin, ThresholdRtt, ThresholdLoss} \subseteq Nat
    /\ {SustainedDegradation, ThresholdHold, MinInterval} \subseteq Nat
    /\ {MaxPerHour, Hour} \subseteq Nat \ {0}
    /\ {MaxGap, MaxTime} \subseteq Nat

VARIABLES
    strategy,   \* of the registered cell: which policy was built
    now,        \* when the last decision was taken
    active,     \* active_path_id
    since,      \* _degradation_started_at_s, or Never
    switches,   \* when switches were completed
    expired,    \* how many of them have left _completed_switches
    chance,     \* whether the last decision had a useful alternative
    log         \* the decisions since the last switch: when, and what of
                \* the active path

policyVars == <<strategy, now, active, since, switches, expired, chance, log>>

Never == -1

\* What is still in the deque.
Recent(n) == (n + 1) .. Len(switches)

-----------------------------------------------------------------------------
(***************************************************************************)
(* Scores.                                                                 *)
(***************************************************************************)
\* _component, in units of 1 / threshold.
Component(value, threshold) == IF value < threshold THEN threshold - value ELSE 0

\* The score of every observation.
Score == [o \in Observation |->
    IF ~o.eligible THEN 0
    ELSE Weight["rtt"] * Component(o.rtt, Threshold["rtt"]) * Threshold["jitter"] * Threshold["loss"]
         + Weight["jitter"] * Component(o.jitter, Threshold["jitter"]) * Threshold["rtt"] * Threshold["loss"]
         + Weight["loss"] * Component(o.loss, Threshold["loss"]) * Threshold["rtt"] * Threshold["jitter"]]

\* _best_alternative: the highest score; the first path in order of its id.
IsBest(p, o) ==
    /\ p # active /\ o[p].eligible
    /\ \A q \in Path \ {active} : o[q].eligible =>
          \/ Score[o[q]] < Score[o[p]]
          \/ Score[o[q]] = Score[o[p]] /\ p <= q

\* The cut-offs of the threshold policy.
BeyondCutoff(o) == o.rtt > ThresholdRtt \/ o.loss > ThresholdLoss

\* The active path is not good enough for the policy.
Degraded(o) ==
    \/ ~o.eligible
    \/ strategy = "adaptive" /\ Score[o] < MinScore
    \/ strategy = "threshold" /\ BeyondCutoff(o)

Hold == IF strategy = "adaptive" THEN SustainedDegradation ELSE ThresholdHold

Improves(o, p) ==
    /\ IsBest(p, o)
    /\ IF strategy = "adaptive"
       THEN Score[o[p]] >= Score[o[active]] + Margin
       ELSE Score[o[p]] > Score[o[active]]

-----------------------------------------------------------------------------
(***************************************************************************)
(* decide, at time t with observations o, and record_completed_switch.     *)
(***************************************************************************)
PolicyInit ==
    /\ strategy \in Strategies
    /\ now = 0 /\ active = Start
    /\ since = Never /\ switches = <<>> /\ expired = 0
    /\ chance = FALSE /\ log = <<>>

\* What the decision was taken on.
Observed(t, o) ==
    /\ now' = t
    /\ chance' = \E p \in Path : Improves(o, p)
    /\ log' = IF active' # active THEN <<>>
              ELSE Append(log, [at |-> t, degraded |-> Degraded(o[active])])

Healthy(t, o) ==
    /\ ~Degraded(o[active])
    /\ since' = Never
    /\ UNCHANGED <<active, switches, expired>>

\* _hold_elapsed starts the hold when there is none.
HoldStart(t) == IF since = Never THEN t ELSE since
Sustained(t, o) == Degraded(o[active]) /\ t - HoldStart(t) >= Hold

NotSustained(t, o) ==
    /\ Degraded(o[active]) /\ ~Sustained(t, o)
    /\ since' = HoldStart(t)
    /\ UNCHANGED <<active, switches, expired>>

\* Mutant: the hold starts again when there is nowhere to go.
NoImprovementRestarts(t, o) ==
    /\ Sustained(t, o) /\ \A p \in Path : ~Improves(o, p)
    /\ since' = t
    /\ UNCHANGED <<active, switches, expired>>

NoImprovement(t, o) ==
    /\ Sustained(t, o) /\ \A p \in Path : ~Improves(o, p)
    /\ since' = HoldStart(t)
    /\ UNCHANGED <<active, switches, expired>>

\* Mutant: a switch leaves the deque too early.
PoppedEarly(t, n) ==
    /\ n \in expired .. Len(switches)
    /\ \A k \in (expired + 1) .. n : switches[k] <= t + 1 - Hour
    /\ n < Len(switches) => switches[n + 1] > t + 1 - Hour

\* The loop of _switch_guard: switches at or before the cutoff are popped.
Popped(t, n) ==
    /\ n \in expired .. Len(switches)
    /\ \A k \in (expired + 1) .. n : switches[k] <= t - Hour
    /\ n < Len(switches) => switches[n + 1] > t - Hour

\* Mutant: the interval is not looked at.
RateLimitOnly(t, n) == Len(switches) - n >= MaxPerHour

\* switch_rate_limit, minimum_switch_interval
Blocked(t, n) ==
    \/ Len(switches) - n >= MaxPerHour
    \/ n < Len(switches) /\ t - switches[Len(switches)] < MinInterval

Guarded(t, o) ==
    /\ Sustained(t, o) /\ \E p \in Path : Improves(o, p)
    /\ \E n \in 0 .. Len(switches) : Popped(t, n) /\ Blocked(t, n) /\ expired' = n
    /\ since' = HoldStart(t)
    /\ UNCHANGED <<active, switches>>

\* Mutant: the hold goes on after the switch.
SwitchKeepsHold(t, o) ==
    /\ Sustained(t, o)
    /\ \E p \in Path : Improves(o, p) /\ active' = p
    /\ \E n \in 0 .. Len(switches) : Popped(t, n) /\ ~Blocked(t, n) /\ expired' = n
    /\ switches' = Append(switches, t)
    /\ since' = HoldStart(t)

Switch(t, o) ==
    /\ Sustained(t, o)
    /\ \E p \in Path : Improves(o, p) /\ active' = p
    /\ \E n \in 0 .. Len(switches) : Popped(t, n) /\ ~Blocked(t, n) /\ expired' = n
    /\ switches' = Append(switches, t)
    /\ since' = Never

Decide(t, o) ==
    \/ Healthy(t, o)
    \/ NotSustained(t, o)
    \/ NoImprovement(t, o)
    \/ Guarded(t, o)
    \/ Switch(t, o)

\* The executor calls decide once per window, when its results are in.
PolicyNext ==
    \E t \in (now + 1) .. (now + MaxGap), o \in [Path -> Observation] :
        t <= MaxTime /\ Decide(t, o) /\ Observed(t, o) /\ UNCHANGED strategy

PolicySpec == PolicyInit /\ [][PolicyNext]_policyVars

-----------------------------------------------------------------------------
(***************************************************************************)
(* Properties.                                                             *)
(***************************************************************************)
Entry == [at : Nat, degraded : BOOLEAN]

\* The values of the variables; a hold has begun before now.
PolicyTypeOK ==
    /\ strategy \in Strategies
    /\ now \in Nat /\ active \in Path
    /\ since \in {Never} \cup 0 .. now
    /\ switches \in Seq(Nat) /\ expired \in 0 .. Len(switches)
    /\ chance \in BOOLEAN /\ log \in Seq(Entry)

\* In no hour are more than max_switches_per_hour switches completed: the
\* one that is MaxPerHour places later comes an hour later or more.
RateLimit ==
    \A i \in 1 .. Len(switches) : i + MaxPerHour <= Len(switches) =>
        switches[i + MaxPerHour] >= switches[i] + Hour

\* Two switches are min_switch_interval_s apart.  The guard forgets a switch
\* after an hour, so a longer interval counts as an hour.
IntervalKept ==
    \A i \in 1 .. Len(switches) - 1 :
        switches[i + 1] - switches[i] >= MinInterval \/ switches[i + 1] - switches[i] >= Hour

\* What _switch_guard is for, at every boundary of the hour: however the
\* switches fall, the hourly limit and the interval are kept by all of them.
SwitchesSpaced == RateLimit /\ IntervalKept

\* From the j-th decision on the active path was degraded.
DegradedSince(j) == \A k \in j .. Len(log) : log[k].degraded

\* A path is left only when every decision for the hold time has found it
\* degraded; neither a healthy window nor an earlier switch lies in between.
SwitchIsSustained ==
    [][active' # active =>
          \/ Hold = 0
          \/ \E j \in 1 .. Len(log) : DegradedSince(j) /\ now' - log[j].at >= Hold]_policyVars

\* A degraded path that has a useful alternative is kept only for a reason
\* that passes: a switch of the last hour, or a hold that has not elapsed.
NoStarvation ==
    (chance /\ log # <<>> /\ DegradedSince(Len(log))) =>
        \/ \E k \in 1 .. Len(switches) : now - switches[k] < Hour
        \/ \A j \in 1 .. Len(log) : DegradedSince(j) => now - log[j].at < Hold

=============================================================================
