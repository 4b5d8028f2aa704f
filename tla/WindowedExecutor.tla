-------------------------- MODULE WindowedExecutor --------------------------
(***************************************************************************)
(* The phases of a run (runner.py): the windows the executor measures, the *)
(* probes it runs side by side, the switches it takes and the rows and     *)
(* events the runner writes into the bundle.                               *)
(*                                                                         *)
(* A policy may decide anything: SwitchPolicy says what policies decide.   *)
(***************************************************************************)
EXTENDS Integers, Sequences, FiniteSets

CONSTANTS
    Paths,      \* number of endpoints
    Phases,     \* number of phases of the scenario
    Windows,    \* windows of a phase
    Rows,       \* packets of a window
    RunToken,   \* attempt_udp_token
    Tokens      \* number of tokens, 2^64 in the code

Path     == 1 .. Paths
Stream   == 1 .. Paths + 1      \* a monitor for every path, and the workload
Workload == Paths + 1

ASSUME ExecutorAssumption ==
    /\ Paths \in Nat \ {0} /\ Phases \in Nat \ {0} /\ Windows \in Nat \ {0}
    /\ Rows \subseteq Nat \ {0} /\ Rows # {}
    /\ Tokens \in Nat \ {0} /\ RunToken \in 0 .. Tokens - 1
    /\ Phases * Windows * (Paths + 1) <= Tokens

VARIABLES
    stage,              \* where the runner is
    phase, window,      \* the phase, and the window in it
    probeWindow,        \* _probe_window
    active, sequence,   \* of run_windowed
    rows, events,       \* packet_rows and events of the phase
    kept,               \* active_path_id and sequence of the runner
    bundle,             \* the rows and events written
    result,             \* the futures of the window
    tokens,             \* the token of every stream of the run
    tainted             \* windows in which a stream has failed

vars == <<stage, phase, window, probeWindow, active, sequence, rows, events, kept, bundle,
          result, tokens, tainted>>

First == 1      \* the path with the lowest index

\* What a future holds: nothing yet, a result, a result that fails the
\* integrity check, an exception.
Outcome == {"ok", "bad", "raised"}
Idle    == [s \in Stream |-> "none"]
Running == {s \in Stream : result[s] = "running"}

Init ==
    /\ stage = "phase" /\ phase = 1 /\ window = 1 /\ probeWindow = 0
    /\ active = First /\ sequence = 0 /\ rows = <<>> /\ events = <<>>
    /\ kept = [active |-> First, sequence |-> 0]
    /\ bundle = [rows |-> <<>>, events |-> <<>>]
    /\ result = Idle /\ tokens = <<>> /\ tainted = {}

-----------------------------------------------------------------------------
\* The phase is impaired and run_windowed is called.
RunPhase ==
    /\ stage = "phase" /\ stage' = "window" /\ window' = 1
    /\ active' = kept.active /\ sequence' = kept.sequence
    /\ rows' = <<>> /\ events' = <<>>
    /\ UNCHANGED <<phase, probeWindow, kept, bundle, result, tokens, tainted>>

\* Mutant: the workload has the number of the last monitor.
TokenOfPath(w, s) == (RunToken + w * Paths + s) % Tokens

Token(w, s) == (RunToken + w * (Paths + 1) + s) % Tokens

\* All probes of the window are submitted to the pool.
Submit ==
    /\ stage = "window" /\ stage' = "collect"
    /\ probeWindow' = probeWindow + 1
    /\ result' = [s \in Stream |-> "running"]
    /\ tokens' = tokens \o [s \in Stream |-> Token(probeWindow, s)]
    /\ UNCHANGED <<phase, window, active, sequence, rows, events, kept, bundle, tainted>>

ProbeEnds(s) ==
    /\ s \in Running
    /\ \E r \in Outcome :
          /\ result' = [result EXCEPT ![s] = r]
          /\ tainted' = IF r = "ok" THEN tainted ELSE tainted \cup {probeWindow}
    /\ UNCHANGED <<stage, phase, window, probeWindow, active, sequence, rows, events, kept,
                   bundle, tokens>>

\* Mutant: the pool is left without waiting for the other probes.
LeavePoolAtOnce ==
    /\ stage = "collect"
    /\ \E s \in Stream : result[s] = "raised" /\ \A r \in 1 .. s - 1 : r \notin Running
    /\ stage' = "failed"
    /\ UNCHANGED <<phase, window, probeWindow, active, sequence, rows, events, kept, bundle,
                   result, tokens, tainted>>

\* The first future, in order, that raises: the pool waits for the others.
FutureRaises ==
    /\ stage = "collect"
    /\ \E s \in Stream : result[s] = "raised" /\ \A r \in 1 .. s - 1 : r \notin Running
    /\ stage' = "leaving"
    /\ UNCHANGED <<phase, window, probeWindow, active, sequence, rows, events, kept, bundle,
                   result, tokens, tainted>>

PoolLeft ==
    /\ stage = "leaving" /\ Running = {} /\ stage' = "failed"
    /\ UNCHANGED <<phase, window, probeWindow, active, sequence, rows, events, kept, bundle,
                   result, tokens, tainted>>

\* _require_probe_integrity
IntegrityFailure ==
    /\ stage = "collect" /\ Running = {} /\ \A s \in Stream : result[s] # "raised"
    /\ \E s \in Stream : result[s] = "bad"
    /\ stage' = "failed"
    /\ UNCHANGED <<phase, window, probeWindow, active, sequence, rows, events, kept, bundle,
                   result, tokens, tainted>>

\* Mutant: only the workload is checked.
CleanWorkload == Running = {} /\ result[Workload] = "ok"

\* All streams have ended well.
Clean == Running = {} /\ \A s \in Stream : result[s] = "ok"

\* The rows of the workload, on the path it was sent on.
Measured(n) == [i \in 1 .. n |-> [sequence |-> sequence + i - 1, path |-> active,
                                  window |-> probeWindow]]

EndWindow == stage' = (IF window < Windows THEN "window" ELSE "return") /\ window' = window + 1

Stay(n) ==
    /\ stage = "collect" /\ Clean
    /\ rows' = rows \o Measured(n) /\ sequence' = sequence + n
    /\ EndWindow /\ result' = Idle
    /\ UNCHANGED <<phase, probeWindow, active, events, kept, bundle, tokens, tainted>>

\* Mutant: the switch counts from the window that was decided on.
SwitchBackdated(n, p) ==
    /\ stage = "collect" /\ Clean /\ p # active
    /\ rows' = rows \o Measured(n) /\ sequence' = sequence + n
    /\ events' = Append(events, [from |-> active, to |-> p, effective |-> sequence])
    /\ active' = p
    /\ EndWindow /\ result' = Idle
    /\ UNCHANGED <<phase, probeWindow, kept, bundle, tokens, tainted>>

\* The switch takes effect with the next sequence number.
Switch(n, p) ==
    /\ stage = "collect" /\ Clean /\ p # active
    /\ rows' = rows \o Measured(n) /\ sequence' = sequence + n
    /\ events' = Append(events, [from |-> active, to |-> p, effective |-> sequence + n])
    /\ active' = p
    /\ EndWindow /\ result' = Idle
    /\ UNCHANGED <<phase, probeWindow, kept, bundle, tokens, tainted>>

\* run_phase returns, and the runner writes what it measured.
Return ==
    /\ stage = "return"
    /\ bundle' = [rows |-> bundle.rows \o rows, events |-> bundle.events \o events]
    /\ kept' = [active |-> active, sequence |-> sequence]
    /\ phase' = phase + 1
    /\ stage' = IF phase < Phases THEN "phase" ELSE "done"
    /\ UNCHANGED <<window, probeWindow, active, sequence, rows, events, result, tokens, tainted>>

\* A write raises: the rows come first, and then the events.
WriteFails ==
    /\ stage = "return" /\ stage' = "torn"
    /\ \/ \E n \in 0 .. Len(rows) :
             bundle' = [bundle EXCEPT !.rows = @ \o SubSeq(rows, 1, n)]
       \/ \E n \in 0 .. Len(events) :
             bundle' = [rows |-> bundle.rows \o rows,
                        events |-> bundle.events \o SubSeq(events, 1, n)]
    /\ UNCHANGED <<phase, window, probeWindow, active, sequence, rows, events, kept, result,
                   tokens, tainted>>

Next ==
    \/ RunPhase \/ Submit \/ FutureRaises \/ PoolLeft \/ IntegrityFailure
    \/ Return \/ WriteFails
    \/ \E s \in Stream : ProbeEnds(s)
    \/ \E n \in Rows : Stay(n) \/ \E p \in Path : Switch(n, p)

Spec == Init /\ [][Next]_vars

-----------------------------------------------------------------------------
(***************************************************************************)
(* Properties.                                                             *)
(***************************************************************************)
Row   == [sequence : Nat, path : Path, window : Nat]
Event == [from : Path, to : Path, effective : Nat]

\* The values of the variables.
TypeOK ==
    /\ stage \in {"phase", "window", "collect", "leaving", "return", "failed", "torn", "done"}
    /\ phase \in 1 .. Phases + 1 /\ window \in 1 .. Windows + 1
    /\ probeWindow \in 0 .. Phases * Windows
    /\ active \in Path /\ sequence \in Nat
    /\ rows \in Seq(Row) /\ events \in Seq(Event)
    /\ kept \in [active : Path, sequence : Nat]
    /\ bundle \in [rows : Seq(Row), events : Seq(Event)]
    /\ result \in [Stream -> Outcome \cup {"none", "running"}]
    /\ tokens \in Seq(0 .. Tokens - 1)
    /\ tainted \subseteq 1 .. probeWindow

\* The rows of the bundle are numbered without a gap over all phases.
SequencesContiguous ==
    \A i \in 1 .. Len(bundle.rows) : bundle.rows[i].sequence = i - 1

\* The path a packet was sent on can be read off the switch events alone,
\* over all phases: it is that of the last switch in effect before it.  Where
\* a write has raised, this holds of the phases that were written before.
InEffect(n) == {i \in 1 .. Len(bundle.events) : bundle.events[i].effective <= n}
PathsMatchSwitches ==
    \A r \in 1 .. Len(bundle.rows) : stage # "torn" \/ bundle.rows[r].sequence < kept.sequence =>
        LET effect == InEffect(bundle.rows[r].sequence)
        IN  \/ effect = {} /\ bundle.rows[r].path = First
            \/ \E i \in effect : /\ \A j \in effect : j <= i
                                 /\ bundle.rows[r].path = bundle.events[i].to

\* No two probes of a run have the same token, so that an echo of an earlier
\* window, or of another stream of this one, is never taken for an answer.
TokensDistinct ==
    \A i, j \in 1 .. Len(tokens) : tokens[i] = tokens[j] => i = j

\* No row of a window in which any stream has failed is ever written, though
\* the workload itself went well.
NoTaintedRow ==
    \A i \in 1 .. Len(bundle.rows) : bundle.rows[i].window \notin tainted

\* No probe is still sending when the executor has raised, and the runner
\* takes the lab down, or when the next window begins.
NoProbeLeftBehind == stage \notin {"collect", "leaving"} => Running = {}

=============================================================================
