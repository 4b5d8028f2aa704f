# Verification of the adaptive VPN research code

TLA+ models of the program under `src/`, TLC runs over small instances of
them, and proofs checked by TLAPS. Paths below are relative to
`src/src/adaptive_vpn/` unless they start with `src/`.

1. [The system](#1-the-system)
2. [Modules](#2-modules)
3. [Runs, bounds and what they show](#3-runs-bounds-and-what-they-show)
4. [Fairness](#4-fairness)
5. [Proofs](#5-proofs)
6. [Findings](#6-findings)
7. [Assumptions and abstractions](#7-assumptions-and-abstractions)
8. [Not modelled](#8-not-modelled)
9. [Plan](#9-plan)

## 1. The system

The program measures how VPN path-switching policies behave on an emulated
network, and is built so that its results can be trusted: experiments are
registered in advance as a frozen schedule, every attempt at a cell of the
schedule is kept as an immutable evidence bundle, and the analysis accepts
nothing else.

    freeze_schedules ──registers──> plan + schedule
                                         │ loads
    execute_registered_plan  <───────────┘           (campaign lock per data root)
        │ inventory, allocation       attempts.py  <──lists── raw/
        │ per attempt
        ▼
    ExperimentRunner.run ──builds, impairs, removes──> WireGuardLab (one per host)
        │        ├── NamespaceEchoServer (process in a namespace)
        │        └── WindowedUDPExecutor ──asks──> policy
        │                 └── UDPProbeSession x (paths + 1), a thread each,
        │                        each with a receiver thread and a PacketLedger
        ▼
    EvidenceBundle: .staging/<id> ──no-replace rename──> raw/<id>
                                                            │ no lock
    validate_raw_dataset, analyse_dataset  <────────lists───┘
        └── processed/.staging/<uuid> ──no-replace rename──> processed/<dataset>

### Components

| Component | State it keeps | Operations | What makes it correct |
|---|---|---|---|
| campaign coordinator, `workflow.py` | lock file, selected cells, outcomes | `execute_registered_plan` | cells in schedule order, retries only on resume, a "complete" report is borne out by the evidence, the lock is kept by nothing but a run that hangs |
| attempt ledger, `attempts.py` | none of its own: it reads the raw root | inventory, chain validation, allocation, tokens | attempt numbers without gap or duplicate, linked, within budget, of one commit |
| evidence bundle, `collector.py` | staging directory, open streams, state | write, note, `finalise`, quarantine | no torn bundle is ever visible, a returned path survives a power loss, nothing is written after sealing |
| directory publication, `collector.py` | descriptors of the parents (Linux) or of the directory (Windows) | publish, verify, roll back, quarantine | nothing is replaced, nothing of others is published, a failure leaves no trace |
| experiment runner, `runner.py` | stage, server, bundle, flags of what was cleaned | `run` | the host is left clean, every failure becomes evidence, no apparatus failure becomes an observation |
| windowed executor, `runner.py` | active path, sequence, rows, events | `run_phase` | rows and switch events agree over phases, tokens are distinct, no probe survives its window |
| policies, `policy.py` | completed switches, start of the degradation | `decide`, `record_completed_switch` | hourly limit, minimum interval, sustained degradation, no starvation |
| UDP probe, `probe.py`, `protocol.py` | socket, events, ledger entries and counters | `run_packets`, receive loop | every echo is accounted once, losses are losses, failures are raised, the session ends |
| echo service, `echo_server.py` | socket, counters | `_serve` | it echoes until it is stopped |
| laboratory, `lab.py` | namespaces, link pairs, tunnels, keys, impairments and processes of the host | `setup`, `impair`, `status`, `cleanup`, `assert_clean` | a setup builds all of it or leaves nothing, what is left is found, both ends of a path have the impairment that was reported |
| schedule registration, `src/scripts/freeze_schedules.py` | plans, schedules, temporary files, lock | `freeze_all` | a plan always names a schedule that is there, nobody's edit is lost |
| schedule loading and generation, `schedule.py` | none | generate, load | a loaded schedule is the deterministic one of its plan |
| raw dataset validation, `workflow.py` | none | `validate_raw_dataset` | what it says of a complete cell stays true although it takes no lock |
| statistical analysis, `src/analysis/statistical_analysis.py` | processed staging tree | `analyse_dataset` | it uses final evidence only, and its output is never replaced or torn |
| field probe, `src/scripts/field_probe/` | results and the output file of a script; receivers and senders that it starts on remote nodes | measure a leg, retry, checkpoint | a result counts its own packets only, although processes of attempts that were given up live on; a kept result stays |
| WebRTC laboratory, `src/scripts/webrtc_lab/` | pending requests, waiters and event queue of a WebSocket; peer connections; a record per cell | `request`, `dispatch`, `next`, `runEcho`, `runSfu`, the matrix script | every answer reaches the step that waits for it, a record that validates is evidence of its session |
| configuration, provenance, CLI, wrappers | none | parsing, hashing | inputs are typed and bound by hashes |

### Interactions and hard behaviour

* **Processes.** Coordinators on one data root exclude each other by a lock
  file; runners of different data roots do not, yet share the host's
  laboratory; validators and analysers take no lock at all; freezers lock out
  freezers but not editors.
* **Threads.** A window runs one probe per path and a workload side by side;
  each probe shares its ledger and its socket with a receiver thread.
* **Crashes.** A coordinator, runner, freezer, laboratory call or script may be
  killed between any two steps, and the machine may lose power: staging
  directories, temporary files, probe leftovers, namespaces, half-synced
  directories and remote processes stay.
* **Failure in the middle.** Sealing, publishing and cleaning up are
  sequences of calls each of which may raise, with handlers that undo or
  finalise, which may raise in turn; a `KeyboardInterrupt` takes other paths.
* **Ordering.** Retries, supersession chains, the order of cells, switch
  events against packet rows, rename against `fsync`; responses against events
  of one WebSocket, and both against timers.
* **Unchecked commands.** The laboratory's deletions and listings run with
  `check=False`: what they miss, only a later check can see.
* **Network.** Echoes are lost, late, duplicated, reordered or foreign.
* **Time.** Hourly limits, hold times and deadlines meet their boundaries.

`PROJECT.json` lists each hazard at its line with the properties that watch it.

## 2. Modules

| Module | Models | Correspondence |
|---|---|---|
| `AttemptLedger` | abstract: what a campaign promises about a dataset | one append-only list of statuses per cell; one action, `Retain` |
| `Campaign` | `workflow.py`, `attempts.py`, the roots of `collector.py` | `lock` is the campaign lock; `staging`, `raw`, `manifest` the evidence store; `litter` what a probe left; `proc[p]` the locals of one `execute_registered_plan`. One action per point at which others can be seen: lock, root preparation, probe, inventory, skip/refuse/allocate, create, seal/publish, verify, finish, crash |
| `EvidenceBundle` | `EvidenceBundle`, `_publish_directory_linux` | `state` is `_state`; `step` the place in `finalise` and the publication; `synced`, `named`, `onDisk` what a power loss leaves |
| `DirectoryPublication` | both variants of `_publish_directory_no_replace` | `platform` says which; `place` is the name of every directory, `subject` is `source_identity`, `swapped` says that a parent's path means something else; `Movable` is the difference between renaming a name and renaming a handle |
| `MCPublication` | | the two models above side by side for one run: a behaviour takes the steps of one of them |
| `ExperimentRunner` (`MCRunner`) | `ExperimentRunner.run`, `NamespaceEchoServer`, `WireGuardLab` | `lab` and `servers` belong to the host, `lost` are the servers whose namespace has no name any more; `run[r].pc` is the stage; `lab.cleanup` is `Sweep` (the processes of the named namespaces) and `Drop` (the names); handler and `finally` are actions of their own |
| `WindowedExecutor` | `run_phase`, `run_windowed`, `_require_probe_integrity` | `result[s]` is the future of stream `s`; `kept` is what one phase returns and the runner hands to the next |
| `SwitchPolicy` (`MCPolicy`) | `policy.py` with its scorer | `switches` with `expired` is `_completed_switches`, `since` is `_degradation_started_at_s`; `strategy` is the policy class that runs; `log` and `chance` record past decisions for the properties |
| `UDPProbe` | `UDPProbeSession.run_packets`, `PacketLedger` | sender and receiver step by step, `stopped`/`failed` are the events, `net` the network |
| `ScheduleFreeze` (`MCFreeze`) | `freeze_all` | `work[f]` is one freezer; snapshots are version numbers; `durable` is what a power loss leaves |
| `DatasetAnalysis` | `validate_raw_dataset`, `analyse_dataset` | `reader[p]` lists, reads, selects, stages and publishes while the campaign goes on; it sums, captures and reads back its dataset file by file, and anybody may write a new version of a file in between (`late` those written after their last reading); a rival publishes at the same destination |
| `LabLifecycle` | abstract: what the laboratory promises its callers | absent, building, up, leftover; a leftover is removed and never completed |
| `WireGuardLab` | `lab.py`, one action per command | `space`, `link`, `tunnel`, `netem`, `key` are what the commands made, each with the number of the setup that made it; `call` is the call under way, `told` what calls have reported |
| `MediaLegs` | `run_media_allpairs.py`, the receiver and sender of `media_sim.py` | `main` is the script, `disk` its output file; `receivers` and `senders` are processes on a node, each known by life, leg and attempt; `file` is what the receivers of the current port print to |
| `WebRTCSession` | the page script and `main` of `browser_runner.py`, `run_remote_matrix.sh` | `Program` is the sequence of steps of `runEcho` or `runSfu`; `page` is the pending request or waiter with the event queue; `server.wire` what is to arrive; `disk[c]` the record of a cell |
| `CampaignProofs`, `ExperimentRunnerProofs` (with the policies), `WindowedExecutorProofs`, `MeasurementProofs` (the probe and the WebRTC session), `PublicationProofs` (the bundle, its publication and the dataset's readers), `ScheduleFreezeProofs`, `LabProofs`, `MediaLegsProofs` | | the theorems of section 5 |

How they compose: `Campaign` treats an attempt as one choice of outcome;
`ExperimentRunner` opens up the run, `WindowedExecutor` its phases,
`SwitchPolicy` the decisions and `UDPProbe` the probes of a window;
`EvidenceBundle` opens up sealing and publication, and `DirectoryPublication`
the publication once more against processes that move directories.
`ExperimentRunner` sees the laboratory as clean, up or residue with an owner;
`WireGuardLab` opens up its calls command by command and is shown to implement
`LabLifecycle`. `Campaign` is shown to implement `AttemptLedger`. The campaign
that `DatasetAnalysis` reads fills the cells in schedule order and numbers the
attempts of each, which is what `Campaign` is proved to do (`ScheduleOrder`,
`ChainsValid`).
`MediaLegs` and `WebRTCSession` model the two measurement scripts, which share
no state with the rest.

Every mapped definition stands for the lines `PROJECT.json` gives. Operators
marked `Mutant` are mutated forms of the definition after them; the
specifications do not use them.

## 3. Runs, bounds and what they show

| Run | Instance | Distinct states | Shows |
|---|---|---|---|
| `Campaign` | 2 coordinators, 2 cells, 4 attempt identifiers, 2 commits, budget 2 | 755,604 | the raw root holds valid chains of one commit; only a resume retries; a complete report is true, whatever the runs reported; refinement of `AttemptLedger`; only a run that never ends keeps the lock |
| `Publication` | 2 notes, packet and event streams; both platforms, 2 directories of others, 4 moves | 87,138 | no torn bundle in the raw root, returned paths are durable; nothing of others published or left displaced unsaid, no trace after a plain failure |
| `RunnerSafety` | 2 runners, 1 attempt each, 2 phases, 1 window, all faults | 2,523,843 (under symmetry) | names are left only after a kill or a failing cleanup, a server also by an interrupted attempt whose laboratory another had taken down; a complete bundle leaves nothing that its last check could see; a failure is evidence, unless the evidence itself cannot be written |
| `RunnerEchoLost` | 1 runner, 1 phase, 2 windows, the server may fall silent | violation | the finding of section 6 |
| `LabSafety` | 2 paths, 1 impairment besides none, 2 setups, 2 failing commands, kills anywhere | 656,517 | a setup is all or nothing and not stopped by leftovers, a check that passes is right, a reported impairment is on both ends, refinement of `LabLifecycle` |
| `ExecutorSafety` | 2 paths, 2 phases of 2 windows, 1 or 2 rows a window | 12,020 | paths agree with switch events, also of the phases written before a write that raises, tokens distinct, no tainted row, no probe left |
| `SwitchPolicy` | both strategies; 3 paths, hour 7, at most 2 switches, interval 3, hold 2 (adaptive) or 1 (threshold), 11 time units | 466,061 | switches are spaced and limited, degradation is sustained, no starvation |
| `Probe` | 2 packets, timeout 2, 2 copies of an echo, 1 stray, slack 1 | 3,207,576 | accounting, losses, failures raised and not invented, results final, every session ends |
| `FreezeSafety` | 2 freezers, 2 plans, 2 settings, 4 writes | 1,427,500 (under symmetry) | plans name schedules that are there, no edit lost, refusals have causes, success is complete |
| `AnalysisSafety` | 1 reader and a rival at its destination, 2 cells, budget 2, 1 publication taken back, 1 file beside `SHA256SUMS`, 1 version of each by somebody else | 4,509,516 | validations and analyses made without a lock are final; a returned dataset stays, its files as they were summed unless written after their last reading; refusals have causes |
| `MediaSafety` | 2 legs to one node, 2 tries, 2 lives of the script, 2 receivers and 2 senders alive | 2,242,465 | a result counts the packets of its own attempt, a kept result stays |
| `WebRTCSafety` | the echo and the SFU cell, 2 runs of the matrix, 1 notice | 247,415 | no answer is lost, a record that validates is evidence |

Why these bounds are enough. Two coordinators, runners, freezers or readers
are the smallest number that race, and no code distinguishes a third. Two
cells with a budget of two give first, repeated, last and refused attempts, a
cell after a complete one and a cell after a spent one; four identifiers are
as many as those cells can use. Two packets give an echo of one while the
other is sent, waited for or lost; two copies give one duplicate. Two phases
of two windows have a switch inside a phase and one over a phase boundary. An
hour of 7 units with an interval of 3 and 11 units of time lets two switches
fall into an hour, a third be refused, and the first expire exactly at the
boundary; of three paths one may be good, one degraded and one without echoes.
Four moves let others take the publisher's directory away, put theirs in place
and undo both. An attempt of each of two runners meets whatever an earlier one
of its own process could have left, for that is found and removed without
regard to its owner. One file beside `SHA256SUMS` can be written before,
between and after all three readings of it; a second file would be read in
between, which the proof covers. Two setups of the laboratory give one that
meets what another has left, two failing commands one in a call and one in the
cleanup after it; of two paths one may be done when the other fails. Two legs,
each with two attempts of two tries, give a process left by the last try, the
last attempt, the last leg and, with two lives, a killed script; two of them
alive compete for a port. The SFU session has two handles, so that every
message can meet one of the other handle; one notice is as good as several,
because no step consumes one. For every safety property and both refinements
the proofs of section 5 remove the bounds.

Symmetry is used in two runs that check no liveness: the runners, and the
freezers and settings, are interchangeable in every definition. Runs with
`CHECK_DEADLOCK FALSE` model systems that end (an attempt, a session, a run of
the freezer); `Campaign` checks for deadlock.

## 4. Fairness

* `Campaign!FairSpec`: weak fairness of the steps that a coordinator takes by
  itself (`Coordinates`): it never waits for the lock (which is taken without
  blocking, and a busy lock raises), and its loop only reads and writes files.
  The run of an attempt gets no fairness: `WireGuardLab._run` (`lab.py:172`)
  starts `ip`, `wg` and `tc` without a timeout, and a command that hangs keeps
  the lock for as long. `LockReleased` therefore says that this is the only
  way to keep it. Nothing is assumed of crashes, of operators or of outcomes.
* `UDPProbe!FairSpec`: the sender is scheduled and time passes. The receiver
  thread and the network get no fairness: a session ends though the thread
  never runs and every echo is lost.

All other properties are safety properties and need no fairness.

## 5. Proofs

All proofs hold for every value of the constants that satisfies the named
assumptions of the module; these say that counts are naturals, that
placeholders are not members and that the policy's configuration is of the
types `models.py` validates.

**`CampaignProofs`.** `Spec => []Inv` for
`Inv == TypeOK /\ LocalInv /\ LockInv /\ HolderInv /\ StoreInv`. The
properties are not inductive by themselves: that an allocated number is still
free when it is published, after a whole run, needs to know that the process
that allocated it still holds the lock (`LockInv`), that its inventory is
still the raw root and that the staging root holds at most its own bundle
(`HolderInv`), and that whatever a crashed process left in staging was the
next attempt of its cell, of which no second can be made (`StoreInv`). From
it follow `TypeOK`, mutual exclusion, `ChainsValid`, `ScheduleOrder`,
`OneCommit`, `OneUnresolvedBundle` (at most one bundle in the staging root),
the action properties `EvidenceRetained`,
`OnlyResumeRetries`, `CompleteReturnIsComplete`, `SpentCellFreezesDataset`,
and `RefinesLedger`: every step that adds to the raw root is `Retain` of the
ledger, every other step a stutter.

**`WindowedExecutorProofs`.** Rows and events of a window live in three places
while a run goes on: the phase's own lists, what the runner has kept of
earlier phases, and the bundle. The invariant says of them together that the
rows are numbered without a gap and `sequence` comes next (`Numbered`), that
every event is in effect for the rows to come and the active path is that of
the last one (`Followed`), that the window being collected has no rows yet and
one of its futures still says so when a stream of it has failed (`Untainted`),
and that token *i* is *i* after the run token (`Consecutive`). Distinct tokens
then follow from the assumption that a run has fewer sessions than there are
tokens. `Grown` ties the bundle to what the runner has kept: all switches of a
phase take effect after the rows of the phases before, which is why a write
that raises in the middle of a phase (`Torn`) leaves those phases true.
`PathsMatchSwitches`, `TokensDistinct`, `NoTaintedRow`, `NoProbeLeftBehind`
and `SequencesContiguous` (which no run needs to repeat) hold for any numbers
of paths, phases, windows and rows.

**`MeasurementProofs`, the probe.** That a lost packet was listened for needs,
over the steps from the last send to the verdict, that the common deadline is
at least a timeout after every send (`Listened`), which rests on what has been
sent when (`Progress`, `Past`); that a failure is always raised needs to know
which thread may still be running (`Blame`); that no echo of the session is an
attribution error needs that an echo follows its packet (`Echoes`). The sum
that the accounting is about becomes a cardinality: `duplicates` is the number
of pairs *(packet, k)* such that a *k*-th echo of the packet, `k >= 2`, was
recorded (`Counted`); that no such pair is counted twice needs that never more
echoes are on their way, in hand and arrived than the network made
(`Conserved`). `LossListened`, `RaisesOnFailureOnly`, `Accounted` and
`ResultIsFinal` follow for any number of packets, copies and strays and any
times.

**`MeasurementProofs`, the WebRTC session.** The invariant says what the
server can have said, namely notices and replies to steps that have asked
(`Told`), of which a refusal stands alone and an event comes once (`Single`);
what of it has arrived, for each state the page can wait in (`Awaited`,
`Resolved`, `Acknowledged`, `Queued`); that every message passed has taken an
answer to itself (`TakenAll`, `TakenOwn`); that a connected peer was accepted
by the server (`Accepted`); and what the files hold (`Recorded`). The step
that carries it is `OwnAnswer`: what fits the predicate of the present message
is an answer to it. The predicates alone do not give that. It holds because
the messages of a handle want different answers, the other handle's are told
apart by `sender`, and `event`, which a notice to the publisher would fit, is
only wanted of the subscriber's last message. These facts about the two
scripts are `ProgramFacts`, from the tables `EchoFields` and `SfuFields`. An
error event that passes for the answer to "start" is taken (`TakenOwn`), but
then the server has not accepted the second peer, so `collect` finds it not
connected (`EndIsSound`). `AnswerIsSeen` and `RecordsAreEvidence` follow for
any number of runs of the matrix and of notices.

**`PublicationProofs`, publication.** The invariant adds `Displacement`: what
the publisher has moved and nobody since, by step. Before the rename that is
nothing; between rename and check it may be one directory of others, from the
source's name to the destination's; after a check that succeeded, nothing but
the subject. On Windows it is never a directory of others. `TypeOK`,
`NobodyReplaced`, `OthersUntouched`, `OthersNeverMoved` and
`RaisedLeavesNoTrace` follow for both platforms, any set of directories and
any number of moves.

**`PublicationProofs`, the bundle.** `RawIsWhole` speaks of what can be seen;
a power loss also makes visible what only the disk holds. The invariant
therefore says that whatever is in the raw root *or may be found there after a
power loss* is whole, with contents and names synced (`WholeBeforeRaw`), which
each call of `finalise` prepares in turn (`Sealed`) before the rename
(`Placed`). `RawIsWhole` and the action property `ReturnedIsDurable` follow;
`BothAreSafe` states them of the specification of the run, with the two of the
publication.

**`PublicationProofs`, the readers.** `Chains` says of the attempts in the raw
root what the campaign guarantees; `Read`, `Concluded` and `PublishedData`
follow a reader from its listing to its dataset: `PublishedData` says of the
dataset that a reader has moved that every file it has read back is the one
that `SHA256SUMS` describes, unless it was written since (`Owns`), which is
`ReturnedIntact` when the last file has been read. The argument for
`PassIsFinal`: a chain that ends with a complete attempt is all there will
ever be of its cell, as nothing is retained after it; so a reader whose
listing missed an entry, which it may, has seen a gap or no complete attempt
and has not passed. `ReturnedIntact` needs that the tree at the dataset's name
is either the reader's or the rival's, which are not the same process
(`RivalAssumption`). The action property `RefusalHasCause` follows from the
same invariant: what a reader listed is still there unless it was withdrawn or
is no attempt, and a complete dataset leaves no room for another attempt. All
hold for any readers, cells, attempts, withdrawals, files and writes of
somebody else.

**`ScheduleFreezeProofs`.** Only the holder of the lock is at work, so the
invariant is about one freezer (`Freezer_OK`) and the files. `Durable` says
that the plan as it is and the plan as it was synced both name a durable
schedule; with it no power loss can break a registration, and it is kept
because a schedule is linked and synced before its plan is replaced
(`Target_OK`). `Commit_OK` is what a freezer has checked when it commits,
`Unedited_OK` what it may rely on while nobody edits. `Clean_OK` is about the
leftovers: the plans that are done have no schedule staged, and a plan that is
staged is the freezer's next commit or was found staged. The four properties
of the run `FreezeSafety`, `FreezeNeverBreaks` and `TypeOK` follow for any
freezers, plans, settings and number of writes.

**`ExperimentRunnerProofs`.** The invariant says of every attempt where it is
and whether it has swept and attempted to clean up (`Course`), and from it
what it may have on the host. For the names: none, once its cleanup is over
and has not failed or its last check has seen none (`NoNames`). For its
server, which a cleanup of others does not find once its namespace has lost
the name: the attempt holds the handle until it stops it, and its namespace
is its own unless another attempt has taken that down (`ServerOf`, `Kept`);
a server is nameless only by a failed cleanup or by another attempt
(`LostHasCause`). So the one way to leave a server without a failure is an
interrupt, whose `finally` sweeps the names but does not stop the process, of
an attempt that was robbed of its laboratory. `Evident` follows the bundle
through the handler. `ResidueHasCause`, `CompleteLeavesNothing`,
`FailureIsEvidence` and `TypeOK` follow for any number of processes,
attempts, phases and windows and any set of faults.

The second part of the module is about the policies. Their invariant adds to
the properties that the switches are in order of time, that those forgotten
are an hour old, and that the recorded start of the degradation begins an
unbroken run of degraded decisions. `SwitchesSpaced` (the hourly limit and the
minimum interval), `NoStarvation` and `SwitchIsSustained` follow for any
weights, thresholds, observations, number of paths, intervals and limits.

**`LabProofs`.** `SetupIsAllOrNothing` and `VerifiedIsClean` speak of calls
that have ended, so the invariant has to say at every command what is there.
`Pairs` and `Tunnels` are the laws of the host that no call can break: the two
ends of a link go together, a moved end is in a namespace that lives, a tunnel
goes with the name of its namespace. `Ages` dates everything by the setup that
made it, so that what is found can be told from what is being built. `Swept`
says what a cleanup has removed, by its place in the sequence; `Built` what a
setup has made, of which `Partial` is the path at work, command by command.
Both are conditional on `call.sound`, that no command of the sweep has missed,
for the code does not look at the deletions' results: what such a sweep has
missed stays, and the setup must then run into it, which is why `Unmade` says
that a link is old rather than that there is none. `Told` keeps what callers
were told of impairments. `SetupIsAllOrNothing`, `VerifiedIsClean` and
`ToldIsApplied` follow for any numbers of paths, impairments, setups and
failing commands. `ImplementsLifecycle` is the refinement of `LabLifecycle`,
from four facts about a step: what is absent can only begin to be built
(`FromNothing`), what is taken for the work of the setup under way was not
there before (`ToOwn`), what is up is not rebuilt in place (`FromWhole`), and
what becomes whole was made by one setup (`ToWhole`). So a leftover is never
completed.

**`MediaLegsProofs`.** Ports grow within a life of the script, so the
invariant says of every receiver and sender of this life that it belongs to
this attempt and its port or to an earlier one and a lower port (`Placed`).
With it, and while nothing of an earlier life is alive, what the receivers
have heard, what the file holds and what the script has read is this
attempt's (`Calm`). `Remembered` and `AtWork` tie the script to its output
file. `AcceptedIsOwn`, `KeptForGood` and `TypeOK` follow for any number of
legs, tries, lives and processes left behind.

Several modules have names of their own for the type invariant and the parts
of the specification (`PolicySpec`, `AnalysisSpec`, `WebRTCSpec`): a proofs
module that is about two specifications extends both.

Only proved, and in no run: `ScheduleOrder`, `EvidenceRetained`,
`OneUnresolvedBundle`, `SpentCellFreezesDataset` and `TypeOK` of `Campaign`;
`NobodyReplaced`, `OthersNeverMoved` and `TypeOK` of `DirectoryPublication`;
`FreezeNeverBreaks`; `SequencesContiguous`; the type invariants, each as a
part of its inductive invariant (in `WebRTCSession` this is `MatrixTypes` and
`SessionTypes` of the proofs).

Only model-checked: the two liveness properties, `Terminates` of the probe and
`LockReleased` of the campaign (the prover has no reasoning about fairness).

## 6. Findings

The counterexample of the violation run; `PROJECT.json` quotes the lines.

1. **A server that stops echoing is recorded as packet loss**
   (`RunnerEchoLost`). The protocol says a measurement failure is not
   converted into an observation.

Two data roots on one host are not kept apart: the campaign lock is per root,
the laboratory per host, and an attempt that finds a laboratory there fails
its check and then removes it in its handler, under the other's measurement.
The properties of `ExperimentRunner` are about what each attempt leaves and
reports with such a neighbour, and hold.

## 7. Assumptions and abstractions

* **File system.** `rename` is atomic; contents are safe after `fsync` of the
  file and names after `fsync` of their directory; until then a power loss
  keeps or loses each independently. The entry of the data root itself in its
  parent is never synced by the code and is taken to be durable. A read, `stat`
  or listing of one bundle is one step; a listing of a directory may miss
  entries that are added while it runs.
* **Campaign.** One attempt is one choice of outcome, and the outcome that
  `run_one` (a parameter of the loop) returns need not agree with the bundle.
  An operator may clear the staging root and probe leftovers between campaigns,
  never the raw root. The commit check rejects evidence of other commits at
  inventory.
* **Bundle.** The manifest, its validation and checksums are modelled by what
  they cover. Sync errors and interrupts are possible at every call.
* **Publication.** Parents are what they should be when they are captured, and
  the subject is whatever has the source's name then. A failing close of the
  parents or handles after success is a result of its own (`unclosed`): the
  bundle is published though `finalise` raises; in `EvidenceBundle` it is a
  case of `InterruptAfterRename`. A close that fails after a failure has
  already been raised is left out. On Windows the checks after the rename and
  after its rollback go by paths; where a parent's path has been swapped they
  see another directory, and the rollback may go on to quarantine what it has
  already moved back. A quarantined directory lands in the raw root under a
  name that is no attempt, where every later inventory refuses it until
  somebody removes it. An interrupt in the moment after the rename leaves in
  the raw root a bundle whose process takes it for quarantined
  (`InterruptAfterRename`); it is whole, and readers accept it.
* **Runner.** The laboratory is clean, up or residue, with an owner; which link
  or namespace is missing is told apart in `WireGuardLab` only. A cleanup is
  two steps, the processes in the namespaces that have the names now and then
  the names, and other attempts may do anything in between: start a server
  there, which then goes on in a namespace without a name (`lost`), or build
  names, of which some are removed. That server is in nobody's reach but its
  own attempt's, by the handle. A server that cannot bind its port may exit
  before or after the only look at it, 0.2 s after its start. The check takes a
  listing that failed for an empty one (fault `listing`); a laboratory that is
  up is found nevertheless, by its key files. What a check did not see is
  excepted from `CompleteLeavesNothing` (`blind`). The run has one attempt per
  process; a process with more is covered by the proof only.
* **Laboratory.** One call at a time, in any order, also calls that the runner
  does not make. Commands that complete a part which another command has made
  (addresses, routes, link up, file modes) are taken together with it. A
  namespace that loses its name goes with its last process; until then the ends
  of links in it stay. Public keys never leave memory. Failing commands are
  counted and bounded, interrupts and kills are not.
* **Media legs.** The legs are those to one node. An ssh that fails or is given
  up may have run its command. A receiver truncates its file when it comes up;
  what the file held before is never read in time. Processes of an *earlier,
  killed* life use the same ports again: a result that was measured beside one
  is marked `haunted` and excluded from `AcceptedIsOwn`, because nothing in the
  script keeps it from counting their packets. The temporary file of a
  checkpoint is not synced, so `KeptForGood` is about kills of the script and
  not about power loss. A result without packets of the second attempt is
  final, as in the code. `out_of_order` in the statistics of `media_sim.py` is
  taken over sorted sequence numbers and hence always 0; loss and jitter are
  data and left out.
* **WebRTC.** The Janus server, its plugins and the peers' network are
  external: it may answer a request with a response, an error, an event before
  or after its response, late or not at all, but responses that are not a
  plugin's arrive in the order of their requests. Messages that are no plugin's
  fit no predicate and are left out of the queue. An error event in answer to
  "start" passes for its answer; the peer then does not connect, so the record
  does not validate. When the script is stopped by its timeout no record is
  written and an older one stays; the matrix then fails.
* **Policies.** Time and scores are integers; the weighted sum is exact.
* **Executor.** Packet rows carry sequence, path and window only; tokens are
  computed modulo `Tokens` as the code does modulo 2^64. A phase is written in
  one step, or up to any row or event at which a write raises: then the bundle
  is finalised incomplete, and its last rows may lack their switch events.
* **Probe.** Clock readings of a step are one value. An `OSError` in the moment
  between the stop event and the socket's closing counts as closing. An echo of
  an early packet that arrives after its own timeout but before the common
  deadline is a reception, as in the code.
* **Freeze.** An edit in the instant between the last comparison and
  `os.replace` cannot be seen by any code; the variable `raced` marks it and
  the affected properties exclude it. Freezing is atomic for each plan, not for
  all of them: an error or a kill leaves the plans before it registered and the
  others as they were. The staged copy of a *plan* (`staged`; `temps` are those
  of schedules) may outlive a later success that has nothing to commit for that
  plan, and `SuccessIsComplete` names it (`found`). Deleting the lock file is
  not modelled.
* **Analysis.** A directory in the raw root that is no attempt, of a capability
  probe or one that a withdrawn publication has left there in quarantine
  (Windows), is refused by a reader that lists it; one constant, `Litter`,
  stands for both. Anybody may write any file of the staging tree and of the
  published dataset at any time, before and after the return, any number of
  times; adding or removing a file counts as writing one, and `SHA256SUMS`
  written by somebody else matches no tree. No code can see a write that comes
  after the last reading of a file: such files are `late`, and `ReturnedIntact`
  is about the others. The capture before the syncs can only refuse and is
  taken together with the failures. A reader takes no lock, so it may use a
  publication that its coordinator cannot confirm and takes back afterwards;
  the properties of finality say so (`withdrawn`).

## 8. Not modelled

Configuration parsing, hashing and provenance (pure functions of files), the
field population generator (a deterministic computation that is frozen and
checked by hash), the statistics (pure; planned), row-by-row reconciliation
of a bundle against its manifest (data validation; modelled by its verdict),
netem parameters and other formatting, `status` of the laboratory (it reads),
`--check` of the freezer and its two entry points that only tests call, the
command lines and legacy wrappers. Of the field probe: the single-session
script, the consolidation of files, the parsing of the node inventory and the
TCP round-trip client, which are straight-line code. Of the WebRTC laboratory:
the statistics in a record, the checks of a record beyond its status and
connections, and the scripts that install the servers.

## 9. Plan

In order of importance; items 1 to 10 exist and are checked.

1. `AttemptLedger`, `Campaign` and its refinement; `CampaignProofs`. *Done.*
2. `EvidenceBundle`, `DirectoryPublication` and their proofs. *Done.*
3. `ExperimentRunner` on a shared host; `ExperimentRunnerProofs`. *Done.*
4. `SwitchPolicy`, `WindowedExecutor` and their proofs. *Done.*
5. `UDPProbe` and its proofs. *Done.*
6. `ScheduleFreeze`, `ScheduleFreezeProofs`. *Done.*
7. `DatasetAnalysis` with a rival analysis, and its proofs. *Done.*
8. `WireGuardLab` command by command, its proofs and that of its refinement of
   `LabLifecycle`. *Done.*
9. `MediaLegs`, `MediaLegsProofs`. *Done.*
10. `WebRTCSession` and its proofs. *Done.*
11. `EchoServer`: the serving thread against `close`, and the runner's start
    and stop of the process.
12. Pure algorithms against reference definitions over bounded inputs: block
    randomised schedules and their loader, pairing of cells into differences,
    Holm adjustment, terminal attempt selection.
13. A composition of `ExperimentRunner` with `EvidenceBundle` as a refinement
    of one attempt of `Campaign`, and of `WireGuardLab` as a refinement of the
    laboratory of `ExperimentRunner`.
