-------------------------- MODULE ExperimentRunner --------------------------
(***************************************************************************)
(* ExperimentRunner.run on the WireGuard lab of a host (runner.py, lab.py):*)
(* the stages of an attempt, the handler that turns a failure into         *)
(* incomplete evidence, and the finally clause.                            *)
(*                                                                         *)
(* The namespaces, links, keys and the echo port have fixed names, so the  *)
(* lab belongs to the host: attempts of campaigns with other data roots,   *)
(* which hold other locks, meet it too.  A server outlives the name of its *)
(* namespace: nobody but the process that started it finds it then.        *)
(***************************************************************************)
EXTENDS Naturals

CONSTANTS
    Runner,         \* processes that run attempts on the host
    Phases,         \* phases of the scenario
    Windows,        \* windows of a phase
    MaxAttempts,    \* bound: attempts of one process
    Faults          \* what may go wrong, a subset of FaultKind

FaultKind == {"error", "interrupt", "kill", "cleanup", "listing", "bundle", "server"}

ASSUME RunnerAssumption ==
    /\ Phases \in Nat \ {0} /\ Windows \in Nat \ {0} /\ MaxAttempts \in Nat
    /\ Faults \subseteq FaultKind

VARIABLES
    lab,        \* avpn-* namespaces, links and key files, and whose they are
    servers,    \* the attempts whose echo server runs
    lost,       \* those of them whose namespace has lost its name
    silent,     \* those of them that echo nothing any more
    run,        \* the local state of each process
    dirty,      \* attempts that were killed, or whose cleanup or stop failed
    robbed,     \* attempts whose lab another attempt took down or built over
    cut         \* attempts that an interrupt has ended

host == <<lab, servers, lost, silent>>
past == <<dirty, robbed, cut>>
vars == <<host, run, past>>

Attempt == Runner \X (1 .. MaxAttempts)
Nobody  == <<>>
Clean   == [state |-> "clean", by |-> Nobody]
Residue == [lab EXCEPT !.state = IF lab = Clean THEN "clean" ELSE "residue"]

Stage   == {"verify_clean", "setup", "build", "undo", "start_server", "impair", "collect",
            "measuring", "stop_server", "capture_status", "cleanup", "verify_cleanup",
            "finalise"}
Handler == {"failed", "recover", "retain"}
Ended   == {"idle", "returned", "raised", "killed"}

\* Where lab.cleanup runs: at the start of setup and in its except clause, as
\* a stage, in the handler and in the finally clause.
Cleaning == {"setup", "undo", "cleanup", "recover", "unwind"}

Local == [pc : Stage \cup Handler \cup {"unwind"} \cup Ended,
          attempt : 0 .. MaxAttempts,
          started : BOOLEAN,        \* server_started
          handle : BOOLEAN,         \* the server's _process is not None
          attempted : BOOLEAN,      \* cleanup_attempted
          swept : BOOLEAN,          \* lab.cleanup is past the processes
          phase : 1 .. Phases, window : 1 .. Windows,
          bundle : {"none", "open", "complete", "incomplete", "quarantined"},
          torn : BOOLEAN,           \* writing or sealing the bundle failed
          disturbed : BOOLEAN,      \* a window was measured on other apparatus
          blind : BOOLEAN]          \* the last check did not see what there was

Fresh(n) == [pc |-> "verify_clean", attempt |-> n, started |-> FALSE, handle |-> FALSE,
             attempted |-> FALSE, swept |-> FALSE, phase |-> 1, window |-> 1,
             bundle |-> "open", torn |-> FALSE, disturbed |-> FALSE, blind |-> FALSE]

Me(r)    == <<r, run[r].attempt>>
At(r, stage) == run[r].pc = stage
Go(r, stage) == run' = [run EXCEPT ![r].pc = stage]
Named    == servers \ lost
Own(r)   == lab = [state |-> "up", by |-> Me(r)] /\ Me(r) \in Named \ silent

Init ==
    /\ lab = Clean /\ servers = {} /\ lost = {} /\ silent = {}
    /\ run = [r \in Runner |-> [Fresh(0) EXCEPT !.pc = "idle", !.bundle = "none"]]
    /\ dirty = {} /\ robbed = {} /\ cut = {}

\* Of the servers, those of S go on.
Remain(S) == servers' = S /\ lost' = lost \cap S /\ silent' = silent \cap S

-----------------------------------------------------------------------------
(***************************************************************************)
(* lab.cleanup: first the processes in the namespaces that have the names  *)
(* now, whoever started them, then the names, whoever made them.           *)
(***************************************************************************)
\* "ip netns pids" may fail without a word (check=False), and a kill may raise.
Sweep(r) ==
    /\ run[r].pc \in Cleaning /\ ~run[r].swept
    /\ run[r].pc \in {"recover", "unwind"} => ~run[r].attempted
    /\ run' = [run EXCEPT ![r].swept = TRUE,
                          ![r].attempted = @ \/ run[r].pc \in {"cleanup", "recover"}]
    /\ \/ Remain(lost) /\ UNCHANGED dirty
       \/ /\ "cleanup" \in Faults
          /\ dirty' = dirty \cup {Me(r)}
          /\ UNCHANGED <<servers, lost, silent>>
    /\ UNCHANGED <<lab, robbed, cut>>

Others(r) == {lab.by} \ {Nobody, Me(r)}

\* Some of the names are gone.
PartlyRemoved ==
    \/ UNCHANGED <<lab, lost>>
    \/ lab' = Residue /\ lost' \in {lost, servers}

\* What another attempt builds meanwhile may be removed in part.
Removed(r) ==
    \/ lab' = Clean /\ lost' = servers
    \/ Others(r) # {} /\ PartlyRemoved

\* Where run goes on after lab.cleanup; in the handler and the finally clause
\* there is nothing to do when it was attempted before.
Return(pc, ok) ==
    CASE pc = "setup"   -> {"build"} \cup IF ok THEN {} ELSE {"failed"}
      [] pc = "undo"    -> {"failed"}
      [] pc = "cleanup" -> {"verify_cleanup"} \cup IF ok THEN {} ELSE {"failed"}
      [] pc = "recover" -> {"retain"}
      [] OTHER          -> {"raised"}

\* With ok = FALSE a command failed without a word or a call raised.
Drop(r) ==
    /\ run[r].pc \in Cleaning /\ run[r].swept
    /\ \E ok \in BOOLEAN :
          /\ IF ok THEN Removed(r) /\ UNCHANGED dirty
                   ELSE /\ "cleanup" \in Faults
                        /\ PartlyRemoved
                        /\ dirty' = dirty \cup {Me(r)}
          /\ \E pc \in Return(run[r].pc, ok) :
                run' = [run EXCEPT ![r].pc = pc, ![r].swept = FALSE]
    /\ robbed' = robbed \cup Others(r)
    /\ UNCHANGED <<servers, silent, cut>>

-----------------------------------------------------------------------------
(***************************************************************************)
(* The stages of run.                                                      *)
(***************************************************************************)
\* assert_clean finds what is there by a listing of ip whose failure it takes
\* for an empty one, and the key files by themselves.
Unseen == "listing" \in Faults /\ lab.state = "residue"

Begin(r) ==
    /\ run[r].pc \in Ended /\ run[r].attempt < MaxAttempts
    /\ run' = [run EXCEPT ![r] = Fresh(run[r].attempt + 1)]
    /\ UNCHANGED <<host, past>>

\* After it setup begins, with a cleanup.
VerifyClean(r) ==
    /\ At(r, "verify_clean")
    /\ \/ Go(r, IF lab = Clean THEN "setup" ELSE "failed")
       \/ Unseen /\ Go(r, "setup")
    /\ UNCHANGED <<host, past>>

Partial(r) == [state |-> "residue", by |-> Me(r)]

\* The keys, namespaces and tunnels; "ip netns add" and "ip link add" refuse a
\* name that is there, key files alone are written over.  When a command fails,
\* or another attempt removes what is being built, setup cleans up and raises.
Build(r) ==
    /\ At(r, "build")
    /\ \/ /\ lab = Clean \/ (lab.state = "residue" /\ Named = {})
          /\ lab' = [state |-> "up", by |-> Me(r)]
          /\ robbed' = robbed \cup Others(r)
          /\ Go(r, "start_server")
       \/ /\ lab # Clean \/ "error" \in Faults \/ \E q \in Runner \ {r} : run[q].swept
          /\ lab' \in {lab} \cup IF lab = Clean THEN {Partial(r)} ELSE {}
          /\ Go(r, "undo")
          /\ UNCHANGED robbed
    /\ UNCHANGED <<servers, lost, silent, dirty, cut>>

\* The server comes up in the namespace that has the name now, if the port is
\* free there.
Launched(r) ==
    /\ lab # Clean /\ Named = {}
    /\ servers' = servers \cup {Me(r)}
    /\ UNCHANGED <<lost, silent>>

\* Otherwise it exits, before the only look at it or later.
StartServer(r) ==
    /\ At(r, "start_server")
    /\ LET on == [run EXCEPT ![r].pc = "impair", ![r].started = TRUE, ![r].handle = TRUE]
       IN  \/ Launched(r) /\ run' = on
           \/ /\ lab.state # "up" \/ Named # {}
              /\ Go(r, "failed") \/ run' = on
              /\ UNCHANGED <<servers, lost, silent>>
    /\ UNCHANGED <<lab, past>>

\* tc runs in the namespaces that have the names now; a residue may do, or not
\* (Error).
Impair(r) ==
    /\ At(r, "impair")
    /\ Go(r, IF lab = Clean THEN "failed" ELSE "collect")
    /\ UNCHANGED <<host, past>>

\* The probe threads enter the namespace by its name.
OpenWindow(r) ==
    /\ At(r, "collect")
    /\ IF lab = Clean
       THEN Go(r, "failed")
       ELSE run' = [run EXCEPT ![r].pc = "measuring", ![r].disturbed = @ \/ ~Own(r)]
    /\ UNCHANGED <<host, past>>

\* The results are in: an echo that did not come is a lost packet.
CloseWindow(r) ==
    /\ At(r, "measuring")
    /\ LET measured == [run[r] EXCEPT !.disturbed = @ \/ ~Own(r)]
       IN  run' = [run EXCEPT ![r] =
             IF measured.window < Windows
             THEN [measured EXCEPT !.pc = "collect", !.window = @ + 1]
             ELSE IF measured.phase < Phases
             THEN [measured EXCEPT !.pc = "impair", !.phase = @ + 1, !.window = 1]
             ELSE [measured EXCEPT !.pc = "stop_server"]]
    /\ UNCHANGED <<host, past>>

\* NamespaceEchoServer.stop, by the process it started: a server that has
\* already exited is no error.
StopServer(r) ==
    /\ At(r, "stop_server")
    /\ Remain(servers \ {Me(r)})
    /\ run' = [run EXCEPT ![r].pc = "capture_status", ![r].started = FALSE,
                          ![r].handle = FALSE]
    /\ UNCHANGED <<lab, past>>

\* lab.status reads with check=False.
CaptureStatus(r) ==
    /\ At(r, "capture_status")
    /\ Go(r, "cleanup")
    /\ UNCHANGED <<host, past>>

\* Mutant: the result of the cleanup is not verified.
SkipVerifyCleanup(r) ==
    /\ At(r, "verify_cleanup")
    /\ Go(r, "finalise")
    /\ UNCHANGED <<host, past>>

VerifyCleanup(r) ==
    /\ At(r, "verify_cleanup")
    /\ \/ Go(r, IF lab = Clean THEN "finalise" ELSE "failed")
       \/ Unseen /\ run' = [run EXCEPT ![r].pc = "finalise", ![r].blind = TRUE]
    /\ UNCHANGED <<host, past>>

\* finalise publishes, or raises with the bundle sealed.
Finalise(r) ==
    /\ At(r, "finalise")
    /\ \/ run' = [run EXCEPT ![r].pc = "returned", ![r].bundle = "complete"]
       \/ /\ "bundle" \in Faults
          /\ run' = [run EXCEPT ![r].pc = "failed", ![r].bundle = "quarantined",
                                ![r].torn = TRUE]
    /\ UNCHANGED <<host, past>>

\* Another call of a stage raises an Exception and changes nothing.
Error(r) ==
    /\ "error" \in Faults
    /\ run[r].pc \in Stage \ (Cleaning \cup {"build", "stop_server"})
    /\ Go(r, "failed")
    /\ UNCHANGED <<host, past>>

\* A stop that raises has already forgotten its process, which may go on.
StopFails(r) ==
    /\ "error" \in Faults
    /\ At(r, "stop_server") \/ (At(r, "failed") /\ run[r].started /\ run[r].handle)
    /\ run' = [run EXCEPT ![r].pc = IF @ = "failed" THEN "recover" ELSE "failed",
                          ![r].handle = FALSE]
    /\ dirty' = dirty \cup {Me(r)}
    /\ UNCHANGED <<host, robbed, cut>>

-----------------------------------------------------------------------------
(***************************************************************************)
(* The handler of Exception, the finally clause, and the end of a process. *)
(***************************************************************************)
HandlerStop(r) ==
    /\ At(r, "failed")
    /\ Remain(IF run[r].started /\ run[r].handle THEN servers \ {Me(r)} ELSE servers)
    /\ run' = [run EXCEPT ![r].pc = "recover", ![r].handle = FALSE]
    /\ UNCHANGED <<lab, past>>

\* The handler cleans up unless it was attempted; what fails there is noted in
\* the failure reason.
HandlerGoesOn(r) ==
    /\ At(r, "recover") /\ run[r].attempted /\ ~run[r].swept
    /\ Go(r, "retain")
    /\ UNCHANGED <<host, past>>

\* Mutant: a failure is retained as far as that goes.
RetainBestEffort(r) ==
    /\ At(r, "retain")
    /\ \/ run[r].bundle = "open" /\ run' = [run EXCEPT ![r].pc = "returned", ![r].bundle = "incomplete"]
       \/ Go(r, "raised")
    /\ UNCHANGED <<host, past>>

\* The run_failed event, then the incomplete bundle: either may fail, and run
\* raises with the bundle open or sealed.  A sealed bundle takes neither.
Retain(r) ==
    /\ At(r, "retain")
    /\ \/ /\ run[r].bundle = "open"
          /\ run' = [run EXCEPT ![r].pc = "returned", ![r].bundle = "incomplete"]
       \/ /\ run[r].bundle = "open" /\ "bundle" \in Faults
          /\ \E b \in {"open", "quarantined"} :
                run' = [run EXCEPT ![r].pc = "raised", ![r].bundle = b, ![r].torn = TRUE]
       \/ /\ run[r].bundle # "open"
          /\ Go(r, "raised")
    /\ UNCHANGED <<host, past>>

\* What a step that does not come to its end may have done to the host.
PartWay(r) ==
    \/ UNCHANGED <<host, robbed>>
    \/ /\ At(r, "build") /\ lab = Clean
       /\ lab' = Partial(r)
       /\ UNCHANGED <<servers, lost, silent, robbed>>
    \/ At(r, "start_server") /\ Launched(r) /\ UNCHANGED <<lab, robbed>>
    \/ /\ run[r].swept /\ PartlyRemoved
       /\ robbed' = robbed \cup Others(r)
       /\ UNCHANGED <<servers, silent>>

\* KeyboardInterrupt and its like pass the handler.  cleanup_attempted is set
\* before the cleanup of the stage and of the handler.
Interrupt(r) ==
    /\ "interrupt" \in Faults /\ run[r].pc \in Stage \cup Handler
    /\ LET begun == At(r, "cleanup") \/ (At(r, "recover") /\ (run[r].swept \/ ~run[r].attempted))
           last == CASE At(r, "finalise") -> "complete"
                     [] At(r, "retain")   -> "incomplete"
                     [] OTHER             -> "open"
           sealed == IF run[r].bundle = "open" /\ last # "open"
                     THEN {"open", "quarantined", last} ELSE {run[r].bundle}
       IN  \E b \in sealed, tried \in BOOLEAN :
              /\ (run[r].attempted => tried) /\ (tried => run[r].attempted \/ begun)
              /\ run' = [run EXCEPT ![r].pc = "unwind", ![r].swept = FALSE,
                                    ![r].attempted = tried, ![r].bundle = b]
              /\ dirty' = IF begun /\ tried THEN dirty \cup {Me(r)} ELSE dirty
    /\ PartWay(r)
    /\ cut' = cut \cup {Me(r)}

\* Mutant: there is no finally clause.
UnwindWithoutFinally(r) ==
    /\ At(r, "unwind")
    /\ Go(r, "raised")
    /\ UNCHANGED <<host, past>>

\* finally: the cleanup, unless it was attempted.
Unwind(r) ==
    /\ At(r, "unwind") /\ run[r].attempted /\ ~run[r].swept
    /\ Go(r, "raised")
    /\ UNCHANGED <<host, past>>

\* The process is killed; the lab and the server, in a session of its own,
\* stay.  An interrupt of the finally clause comes to the same.
Kill(r) ==
    /\ "kill" \in Faults /\ run[r].pc \notin Ended
    /\ PartWay(r)
    /\ run' = [run EXCEPT ![r].pc = "killed", ![r].swept = FALSE]
    /\ dirty' = dirty \cup {Me(r)}
    /\ UNCHANGED cut

\* The serving thread ends with an OSError of sendto or recvfrom and datagrams
\* are no longer echoed, or the server process dies.
EchoFails ==
    /\ "server" \in Faults
    /\ \/ \E a \in servers : silent' = silent \cup {a} /\ UNCHANGED <<servers, lost>>
       \/ \E a \in servers : Remain(servers \ {a})
    /\ UNCHANGED <<lab, run, past>>

Next ==
    \/ \E r \in Runner :
          \/ Begin(r) \/ VerifyClean(r) \/ Build(r) \/ StartServer(r)
          \/ Impair(r) \/ OpenWindow(r) \/ CloseWindow(r) \/ StopServer(r)
          \/ CaptureStatus(r) \/ VerifyCleanup(r) \/ Finalise(r)
          \/ Sweep(r) \/ Drop(r) \/ Error(r) \/ StopFails(r)
          \/ HandlerStop(r) \/ HandlerGoesOn(r) \/ Retain(r)
          \/ Interrupt(r) \/ Unwind(r) \/ Kill(r)
    \/ EchoFails

Spec == Init /\ [][Next]_vars

-----------------------------------------------------------------------------
(***************************************************************************)
(* Properties.                                                             *)
(***************************************************************************)
Owner == Attempt \cup {Nobody}

\* The values of the variables; a lab that is there has an owner.
TypeOK ==
    /\ lab \in [state : {"clean", "up", "residue"}, by : Owner]
    /\ lab.by = Nobody <=> lab.state = "clean"
    /\ servers \subseteq Attempt /\ lost \subseteq servers /\ silent \subseteq servers
    /\ run \in [Runner -> Local]
    /\ dirty \subseteq Attempt /\ robbed \subseteq Attempt /\ cut \subseteq Attempt

Live(a) == \E r \in Runner : a = Me(r) /\ run[r].pc \notin Ended

\* What is left on the host when its attempt has ended has a cause.  Names were
\* left by an attempt that was killed or whose cleanup failed.  A server may
\* also have been left by an attempt that was interrupted after another one had
\* taken its lab down: nobody finds it in its nameless namespace then.  Every
\* other way out of run, errors and interrupts in any stage included, removes
\* the names and the server, whatever other attempts do to the lab meanwhile.
ResidueHasCause ==
    /\ lab.by # Nobody => Live(lab.by) \/ lab.by \in dirty
    /\ \A a \in servers : Live(a) \/ a \in dirty \/ a \in cut \cap robbed

\* A complete bundle is published only by an attempt that has left no server on
\* the host, wherever it runs, and no name, a cleanup that fails without a word
\* included, unless the listing of its last check failed too.
CompleteLeavesNothing ==
    \A r \in Runner :
        run[r].bundle = "complete" =>
            Me(r) \notin servers /\ (run[r].blind \/ lab.by # Me(r))

\* A run that is neither interrupted nor killed keeps its failure as evidence:
\* it raises only when the evidence itself could not be written or sealed, and
\* returns only with a finalised bundle, whatever the lab, the server and the
\* cleanup did.
FailureIsEvidence ==
    \A r \in Runner : Me(r) \notin cut =>
        /\ run[r].pc = "raised" => run[r].torn
        /\ run[r].pc = "returned" => run[r].bundle \in {"complete", "incomplete"}

\* A failure of the apparatus is not converted into an observation: no window
\* of a complete bundle was measured without the attempt's own lab and a
\* server that echoes.
CompleteIsUndisturbed ==
    \A r \in Runner : run[r].bundle = "complete" => ~run[r].disturbed

=============================================================================
