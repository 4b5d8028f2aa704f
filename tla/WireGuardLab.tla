---------------------------- MODULE WireGuardLab ----------------------------
(***************************************************************************)
(* The WireGuard laboratory of a host (lab.py): two network namespaces,    *)
(* and for every path a veth pair between them with a tunnel over it.      *)
(*                                                                         *)
(* setup, impair, cleanup and assert_clean are sequences of ip, wg and tc  *)
(* commands.  Every command may fail: it raises where setup and impair     *)
(* check it, and passes without a word in cleanup and assert_clean.  The   *)
(* process may be interrupted or killed between any two of them.  The      *)
(* calls come in any order, from the runner or from the lab subcommands,   *)
(* one at a time (ExperimentRunner has two runners on one host).           *)
(*                                                                         *)
(* Commands that only complete a part that another one has made (address,  *)
(* route, link set up, chmod) are taken together with it.                  *)
(***************************************************************************)
EXTENDS Integers

CONSTANTS
    Paths,      \* paths of the laboratory
    Levels,     \* impairments besides none, which is level 0
    MaxSetups,  \* bound: calls of setup
    MaxFaults   \* bound: commands that fail by themselves

ASSUME LabAssumption ==
    /\ Paths \in Nat \ {0} /\ Levels \in Nat
    /\ MaxSetups \in Nat /\ MaxFaults \in Nat

VARIABLES
    space,   \* space[s]: the setup that added the namespace of side s, or None
    link,    \* link[p][s]: n where the end s of pair p is in the namespace that
             \* setup n added, -n where setup n has it in the root namespace
    netem,   \* netem[p][s]: the impairment of this end
    tunnel,  \* tunnel[p][s]: keys of the WireGuard interface of path p at s
    key,     \* key[p][s]: what the private key file holds
    echo,    \* namespaces in which an echo server runs
    call,    \* the call that is made, or was made last
    told,    \* told[p]: the impairment that p has, as far as callers know
    faults   \* counts commands that fail by themselves

network == <<space, link, netem, tunnel>>
vars == <<network, key, echo, call, told, faults>>

Path  == 1 .. Paths
Side  == {"client", "server"}
Setup == 1 .. MaxSetups
None  == 0                      \* no such thing
Unset == -1                     \* no impairment, or none that is known
Other(s) == IF s = "client" THEN "server" ELSE "client"

\* for path in self.paths, for side in ("client", "server").
SideOf(n) == IF n % 2 = 1 THEN "client" ELSE "server"
PathOf(n) == (n + 1) \div 2

\* A private key names its path, side and the setup that generated it.
Key      == Setup \X Path \X Side
NoKey    == <<>>
NoTunnel == [own |-> NoKey, peer |-> NoKey, there |-> FALSE]

\* The commands for one path: _setup_underlay, _setup_wireguard, impair.
PathSteps == << <<"wire", "client">>, <<"move", "client">>, <<"move", "server">>,
                <<"tunnel", "client">>, <<"tunnel", "server">>,
                <<"peer", "client">>, <<"peer", "server">>,
                <<"netem", "client">>, <<"netem", "server">> >>
StepOf(n)  == PathSteps[((n - 1) % 9) + 1]
BuiltBy(n) == ((n - 1) \div 9) + 1

Sweeping == {"stop", "drop", "links", "unlink"}
Building == {"keys", "spaces", "path"}
Stage    == {"idle", "impair"} \cup Sweeping \cup Building
Last(s)  == CASE s = "stop" -> 1
              [] s \in {"drop", "spaces", "impair"} -> 2
              [] s \in {"links", "unlink", "keys"} -> 2 * Paths
              [] s = "path" -> 9 * Paths
              [] s = "idle" -> 1

\* undo: in the except clause of setup; failed: a command of this call failed
\* by itself; sound: none did in its last cleanup; blind: a listing failed.
Call == [op : {"setup", "impair", "cleanup", "verify"}, stage : Stage, n : Nat \ {0},
         outcome : {"none", "returned", "raised", "stopped"}, setups : 0 .. MaxSetups,
         undo : BOOLEAN, failed : BOOLEAN, sound : BOOLEAN, blind : BOOLEAN,
         path : Path, level : 0 .. Levels]

Init ==
    /\ space = [s \in Side |-> None]
    /\ link = [p \in Path |-> [s \in Side |-> None]]
    /\ netem = [p \in Path |-> [s \in Side |-> Unset]]
    /\ tunnel = [p \in Path |-> [s \in Side |-> NoTunnel]]
    /\ key = [p \in Path |-> [s \in Side |-> NoKey]]
    /\ echo = {} /\ faults = 0
    /\ told = [p \in Path |-> Unset]
    /\ call = [op |-> "cleanup", stage |-> "idle", n |-> 1, outcome |-> "none", setups |-> 0,
               undo |-> FALSE, failed |-> FALSE, sound |-> TRUE, blind |-> FALSE,
               path |-> 1, level |-> 0]

-----------------------------------------------------------------------------
(***************************************************************************)
(* Calls: how they begin, go on and end.                                   *)
(***************************************************************************)
Idle == call.stage = "idle"
At(s) == call.stage = s

Begun(op, stage) ==
    [call EXCEPT !.op = op, !.stage = stage, !.n = 1, !.outcome = "none",
                 !.undo = FALSE, !.failed = FALSE, !.sound = TRUE, !.blind = FALSE]

Ended(c, outcome) == [c EXCEPT !.stage = "idle", !.n = 1, !.outcome = outcome]

\* After the last command of a stage: cleanup ends where it was called.
Advance(c) ==
    IF c.n < Last(c.stage) THEN [c EXCEPT !.n = @ + 1]
    ELSE CASE c.stage = "stop"   -> [c EXCEPT !.stage = "drop", !.n = 1]
           [] c.stage = "drop"   -> [c EXCEPT !.stage = "links", !.n = 1]
           [] c.stage = "links"  -> [c EXCEPT !.stage = "unlink", !.n = 1]
           [] c.stage = "unlink" -> IF c.op = "cleanup" THEN Ended(c, "returned")
                                    ELSE IF c.undo THEN Ended(c, "raised")
                                    ELSE [c EXCEPT !.stage = "keys", !.n = 1]
           [] c.stage = "keys"   -> [c EXCEPT !.stage = "spaces", !.n = 1]
           [] c.stage = "spaces" -> [c EXCEPT !.stage = "path", !.n = 1]
           [] OTHER              -> Ended(c, "returned")

\* setup catches the exception of a command, cleans up and raises it again.
Raised(c) ==
    IF c.stage \in Building
    THEN [c EXCEPT !.stage = "stop", !.n = 1, !.undo = TRUE, !.sound = TRUE]
    ELSE Ended(c, "raised")

StartSetup ==
    /\ Idle /\ call.setups < MaxSetups
    /\ call' = [Begun("setup", "stop") EXCEPT !.setups = @ + 1]
    /\ told' = [p \in Path |-> Unset]
    /\ UNCHANGED <<network, key, echo, faults>>

StartCleanup ==
    /\ Idle
    /\ call' = Begun("cleanup", "stop")
    /\ told' = [p \in Path |-> Unset]
    /\ UNCHANGED <<network, key, echo, faults>>

\* The checks of the values come before the first command.
StartImpair(p, level) ==
    /\ Idle
    /\ call' = [Begun("impair", "impair") EXCEPT !.path = p, !.level = level]
    /\ told' = [told EXCEPT ![p] = Unset]
    /\ UNCHANGED <<network, key, echo, faults>>

Named == \E s \in Side : space[s] # None
InRoot(p, s) == link[p][s] < 0
Loose == \E p \in Path, s \in Side : InRoot(p, s)
Keyed == \E p \in Path, s \in Side : key[p][s] # NoKey

\* assert_clean looks for the names in two listings, and for the key files.
\* A listing that fails is an empty one (check=False).
AssertClean ==
    /\ Idle
    /\ \E listed \in SUBSET {"netns", "links"} :
          LET blind == listed # {"netns", "links"}
              residue == ("netns" \in listed /\ Named) \/ ("links" \in listed /\ Loose) \/ Keyed
          IN  /\ faults' = IF blind THEN faults + 1 ELSE faults
              /\ call' = Ended([Begun("verify", "idle") EXCEPT !.blind = blind],
                               IF residue THEN "raised" ELSE "returned")
    /\ faults' <= MaxFaults
    /\ UNCHANGED <<network, key, echo, told>>

-----------------------------------------------------------------------------
(***************************************************************************)
(* The commands of cleanup.                                                *)
(***************************************************************************)
\* The pairs in P go, both ends of each.
Unlink(P) ==
    /\ link' = [p \in Path |-> IF p \in P THEN [s \in Side |-> None] ELSE link[p]]
    /\ netem' = [p \in Path |-> IF p \in P THEN [s \in Side |-> Unset] ELSE netem[p]]

\* Mutant: the processes in the namespaces are left alone.
LeaveProcesses ==
    /\ At("stop")
    /\ call' = Advance(call)
    /\ UNCHANGED <<network, key, echo, told, faults>>

\* _stop_namespace_processes: SIGTERM, a second of patience, SIGKILL.  The
\* processes are found under the name of the namespace.
StopProcesses ==
    /\ At("stop")
    /\ echo' = echo \ {space["server"]}
    /\ call' = Advance(call)
    /\ UNCHANGED <<network, key, told, faults>>

\* ip netns delete frees the name.  The namespace goes with it, and with the
\* namespace its tunnels and both ends of its pairs, unless a process runs in it.
DropNamespace ==
    /\ At("drop")
    /\ LET s == SideOf(call.n)
           held == s = "server" /\ space[s] \in echo
           gone == {p \in Path : ~held /\ space[s] # None /\ link[p][s] = space[s]}
       IN  /\ space' = [space EXCEPT ![s] = None]
           /\ tunnel' = [p \in Path |-> [tunnel[p] EXCEPT ![s] = NoTunnel]]
           /\ Unlink(gone)
    /\ call' = Advance(call)
    /\ UNCHANGED <<key, echo, told, faults>>

\* Mutant: links that were not moved to a namespace yet are forgotten.
SkipOrphanLinks ==
    /\ At("links")
    /\ call' = Advance(call)
    /\ UNCHANGED <<network, key, echo, told, faults>>

\* ip link delete in the root namespace takes both ends.
DeleteLink ==
    /\ At("links")
    /\ Unlink({p \in {PathOf(call.n)} : InRoot(p, SideOf(call.n))})
    /\ call' = Advance(call)
    /\ UNCHANGED <<space, tunnel, key, echo, told, faults>>

UnlinkKey ==
    /\ At("unlink")
    /\ key' = [key EXCEPT ![PathOf(call.n)][SideOf(call.n)] = NoKey]
    /\ call' = Advance(call)
    /\ UNCHANGED <<network, echo, told, faults>>

\* A command of cleanup fails and is not checked.
Missed ==
    /\ call.stage \in {"stop", "drop", "links"} /\ faults < MaxFaults
    /\ faults' = faults + 1
    /\ call' = Advance([call EXCEPT !.failed = TRUE, !.sound = FALSE])
    /\ UNCHANGED <<network, key, echo, told>>

\* A key file cannot be unlinked, or a command not be started: nothing
\* catches the exception, the one in the except clause of setup included.
CleanupRaises ==
    /\ call.stage \in Sweeping /\ faults < MaxFaults
    /\ faults' = faults + 1
    /\ call' = Ended([call EXCEPT !.failed = TRUE, !.sound = FALSE], "raised")
    /\ UNCHANGED <<network, key, echo, told>>

-----------------------------------------------------------------------------
(***************************************************************************)
(* The commands of setup and impair.                                       *)
(***************************************************************************)
\* wg genkey and wg pubkey; the public keys stay in memory.
PrepareKey ==
    /\ At("keys")
    /\ LET p == PathOf(call.n) s == SideOf(call.n)
       IN  key' = [key EXCEPT ![p][s] = <<call.setups, p, s>>]
    /\ call' = Advance(call)
    /\ UNCHANGED <<network, echo, told, faults>>

\* Mutant: a namespace that is there already is taken over.
AddOrReuseNamespace ==
    /\ At("spaces")
    /\ space' = [space EXCEPT ![SideOf(call.n)] = IF @ = None THEN call.setups ELSE @]
    /\ call' = Advance(call)
    /\ UNCHANGED <<link, netem, tunnel, key, echo, told, faults>>

\* ip netns add: the name must be free.
AddNamespace ==
    /\ At("spaces") /\ space[SideOf(call.n)] = None
    /\ space' = [space EXCEPT ![SideOf(call.n)] = call.setups]
    /\ call' = Advance(call)
    /\ UNCHANGED <<link, netem, tunnel, key, echo, told, faults>>

Doing(command) == At("path") /\ StepOf(call.n)[1] = command
Of == BuiltBy(call.n)       \* the path and the side that a step is about
On == StepOf(call.n)[2]

\* Both names must be free.  No pair is left in a namespace that has lost its
\* name once there are new namespaces: it went with its other end.
AddWire ==
    /\ Doing("wire") /\ \A s \in Side : link[Of][s] = None
    /\ link' = [link EXCEPT ![Of] = [s \in Side |-> -call.setups]]
    /\ call' = Advance(call)
    /\ UNCHANGED <<space, netem, tunnel, key, echo, told, faults>>

MoveEnd ==
    /\ Doing("move") /\ InRoot(Of, On) /\ space[On] # None
    /\ link' = [link EXCEPT ![Of][On] = space[On]]
    /\ call' = Advance(call)
    /\ UNCHANGED <<space, netem, tunnel, key, echo, told, faults>>

AddTunnel ==
    /\ Doing("tunnel") /\ space[On] # None /\ ~tunnel[Of][On].there
    /\ tunnel' = [tunnel EXCEPT ![Of][On] = [NoTunnel EXCEPT !.there = TRUE]]
    /\ call' = Advance(call)
    /\ UNCHANGED <<space, link, netem, key, echo, told, faults>>

\* wg set: its own key from the file, the peer's from memory.
ConfigurePeer ==
    /\ Doing("peer") /\ tunnel[Of][On].there
    /\ tunnel' = [tunnel EXCEPT ![Of][On] = [own |-> key[Of][On], there |-> TRUE,
                                             peer |-> <<call.setups, Of, Other(On)>>]]
    /\ call' = Advance(call)
    /\ UNCHANGED <<space, link, netem, key, echo, told, faults>>

\* The end must be in the namespace that has the name now.
Reachable(p, s) == space[s] # None /\ link[p][s] = space[s]

\* setup impairs a path with 0 when its tunnel is up.
ImpairFresh ==
    /\ Doing("netem") /\ Reachable(Of, On)
    /\ netem' = [netem EXCEPT ![Of][On] = 0]
    /\ call' = Advance(call)
    /\ told' = IF call'.outcome = "returned" THEN [p \in Path |-> 0] ELSE told
    /\ UNCHANGED <<space, link, tunnel, key, echo, faults>>

\* Mutant: the return code of tc is not looked at.
ImpairEndUnchecked ==
    /\ At("impair")
    /\ LET p == call.path s == SideOf(call.n)
       IN  netem' = IF Reachable(p, s) THEN [netem EXCEPT ![p][s] = call.level] ELSE netem
    /\ call' = Advance(call)
    /\ told' = IF call'.outcome = "returned" THEN [told EXCEPT ![call.path] = call.level] ELSE told
    /\ UNCHANGED <<space, link, tunnel, key, echo, faults>>

\* The two ends of a path, one after the other.
ImpairEnd ==
    /\ At("impair")
    /\ LET p == call.path s == SideOf(call.n)
       IN  Reachable(p, s) /\ netem' = [netem EXCEPT ![p][s] = call.level]
    /\ call' = Advance(call)
    /\ told' = IF call'.outcome = "returned" THEN [told EXCEPT ![call.path] = call.level] ELSE told
    /\ UNCHANGED <<space, link, tunnel, key, echo, faults>>

\* The command that comes next cannot do its work.
Refused ==
    \/ At("spaces") /\ space[SideOf(call.n)] # None
    \/ Doing("wire") /\ \E s \in Side : link[Of][s] # None
    \/ Doing("move") /\ (~InRoot(Of, On) \/ space[On] = None)
    \/ Doing("tunnel") /\ (space[On] = None \/ tunnel[Of][On].there)
    \/ Doing("peer") /\ ~tunnel[Of][On].there
    \/ Doing("netem") /\ ~Reachable(Of, On)
    \/ At("impair") /\ ~Reachable(call.path, SideOf(call.n))

CommandRefused ==
    /\ Refused
    /\ call' = Raised(call)
    /\ UNCHANGED <<network, key, echo, told, faults>>

\* A command that is checked fails by itself.
CommandFails ==
    /\ call.stage \in Building \cup {"impair"} /\ faults < MaxFaults
    /\ faults' = faults + 1
    /\ call' = Raised([call EXCEPT !.failed = TRUE])
    /\ UNCHANGED <<network, key, echo, told>>

-----------------------------------------------------------------------------
\* A KeyboardInterrupt, which no clause of lab.py catches, or a kill.
Stopped ==
    /\ ~Idle
    /\ call' = Ended(call, "stopped")
    /\ UNCHANGED <<network, key, echo, told, faults>>

\* NamespaceEchoServer of the runner, in the server namespace.
Serve ==
    /\ Idle /\ space["server"] # None
    /\ echo' = echo \cup {space["server"]}
    /\ UNCHANGED <<network, key, call, told, faults>>

\* A namespace that has lost its name goes with its last process.
Exit ==
    /\ \E e \in echo :
          /\ echo' = echo \ {e}
          /\ Unlink({p \in Path : link[p]["server"] = e /\ space["server"] # e})
    /\ UNCHANGED <<space, tunnel, key, call, told, faults>>

Next ==
    \/ StartSetup \/ StartCleanup \/ AssertClean
    \/ \E p \in Path, level \in 0 .. Levels : StartImpair(p, level)
    \/ StopProcesses \/ DropNamespace \/ DeleteLink \/ UnlinkKey
    \/ Missed \/ CleanupRaises
    \/ PrepareKey \/ AddNamespace \/ AddWire \/ MoveEnd \/ AddTunnel \/ ConfigurePeer
    \/ ImpairFresh \/ ImpairEnd \/ CommandRefused \/ CommandFails
    \/ Stopped \/ Serve \/ Exit

Spec == Init /\ [][Next]_vars

-----------------------------------------------------------------------------
(***************************************************************************)
(* Properties.                                                             *)
(***************************************************************************)
\* The values of the variables; the two ends of a pair come and go together.
TypeOK ==
    /\ space \in [Side -> Setup \cup {None}]
    /\ link \in [Path -> [Side -> -MaxSetups .. MaxSetups]]
    /\ \A p \in Path : link[p]["client"] = None <=> link[p]["server"] = None
    /\ netem \in [Path -> [Side -> 0 .. Levels \cup {Unset}]]
    /\ tunnel \in [Path -> [Side -> [own : Key \cup {NoKey}, peer : Key \cup {NoKey},
                                     there : BOOLEAN]]]
    /\ key \in [Path -> [Side -> Key \cup {NoKey}]]
    /\ echo \subseteq Setup
    /\ call \in Call /\ call.n <= Last(call.stage)
    /\ told \in [Path -> 0 .. Levels \cup {Unset}]
    /\ faults \in 0 .. MaxFaults

Nothing == ~Named /\ ~Keyed /\ \A p \in Path, s \in Side : link[p][s] = None

\* Both ends of every pair are in their namespaces, and every tunnel knows the
\* key of its other end.
Whole ==
    \A p \in Path, s \in Side :
        /\ Reachable(p, s)
        /\ tunnel[p][s].there /\ tunnel[p][s].own # NoKey
        /\ tunnel[p][s].peer = tunnel[p][Other(s)].own

\* A setup that returns has built a whole laboratory, all of it its own and
\* without impairment; one that
\* raises leaves nothing, unless a command of its last cleanup failed; and it
\* raises only if a command failed by itself: whatever an interrupted or
\* killed setup left behind is no obstacle.
SetupIsAllOrNothing ==
    Idle /\ call.op = "setup" =>
        /\ call.outcome = "returned" =>
              Whole /\ \A s \in Side : space[s] = call.setups /\ \A p \in Path : netem[p][s] = 0
        /\ call.outcome = "raised" =>
              call.failed /\ (call.sound => Nothing)

\* When assert_clean passes, nothing of the laboratory is left, unless a
\* listing failed; and when no command has failed at all, no echo server
\* lives on in a namespace that has lost its name.
VerifiedIsClean ==
    /\ Idle /\ call.op = "verify" /\ call.outcome = "returned" /\ ~call.blind => Nothing
    /\ echo \subseteq {space["server"]} \/ faults > 0

\* What a setup or an impair has reported is what both ends of the path have
\* until the next call that is about this path: an impairment that reached
\* one end only is never taken for applied.
ToldIsApplied ==
    \A p \in Path : told[p] # Unset => \A s \in Side : netem[p][s] = told[p]

\* The laboratory in the terms of LabLifecycle.  It is being built while all
\* there is was made by the setup that is under way.
LifeStage ==
    IF Nothing THEN "absent"
    ELSE IF Whole THEN "up"
    ELSE IF /\ call.stage \in Building
            /\ \A s \in Side : space[s] \in {None, call.setups}
            /\ \A p \in Path, s \in Side : link[p][s] \in {None, -call.setups, call.setups}
         THEN "building" ELSE "leftover"

Lifecycle == INSTANCE LabLifecycle WITH stage <- LifeStage

\* The laboratory implements its abstract life cycle.
LifecycleSpec == Lifecycle!Spec

=============================================================================
