------------------------------ MODULE MediaLegs ------------------------------
(***************************************************************************)
(* The media legs of the field probe (run_media_allpairs.py, media_sim.py):*)
(* a script measures one leg after the other, with a receiver that it      *)
(* starts on a remote node and a sender, and checkpoints the results.      *)
(*                                                                         *)
(* What it starts by ssh outlives it: an ssh that is given up, and a       *)
(* script that is killed, leave receivers and senders behind.  The script  *)
(* may be started again at any time; it then begins at the first port      *)
(* again and skips the legs that have a result.                            *)
(*                                                                         *)
(* The legs here are those to one node; ports and output files of          *)
(* different nodes have nothing to do with each other.                     *)
(***************************************************************************)
EXTENDS Integers, FiniteSets

CONSTANTS
    Legs,       \* legs, in the order of the pairs and their profiles
    Tries,      \* times that start_receiver tries
    MaxLives,   \* bound: times that the script is started
    MaxAlive    \* bound: receivers, and senders, that are alive at a time

ASSUME MediaAssumption == Legs \in Nat \ {0} /\ Tries \in Nat \ {0} /\ {MaxLives, MaxAlive} \subseteq Nat

VARIABLES
    main,       \* the script
    disk,       \* disk[l]: the result of leg l in the output file
    receivers,  \* receiver processes on the node
    senders,    \* senders that send
    file        \* the file that the receivers of the current leg and port print to

vars == <<main, disk, receivers, senders, file>>

Leg  == 1 .. Legs
None == <<>>

\* A file is truncated by the receiver that comes up, so that nothing a file
\* held before its turn is ever read.
Nothing == [head |-> "empty", result |-> None]

\* A result is known by the attempt whose receiver printed it and by whose
\* packets it counts, those of this attempt's sender or those of others.
Result(p) == [by |-> p.attempt, got |-> p.got]

\* The script; haunted says whether something of an earlier life was alive
\* when this attempt began.
Off == [pc |-> "off", life |-> 0, leg |-> 1, attempt |-> 1, tries |-> 0, port |-> 1,
        result |-> None, haunted |-> FALSE, kept |-> [l \in Leg |-> None]]

\* An attempt is known by the life of the script, the leg, and its number.
Me    == <<main.life, main.leg, main.attempt>>
At(s) == main.pc = s
Stop  == main' = [Off EXCEPT !.life = main.life]
Go(s) == main' = [main EXCEPT !.pc = s]

Init ==
    /\ main = Off
    /\ disk = [l \in Leg |-> None]
    /\ receivers = {} /\ senders = {}
    /\ file = Nothing

-----------------------------------------------------------------------------
(***************************************************************************)
(* The script.                                                             *)
(***************************************************************************)
\* The existing output is read and the simulator uploaded.
Begin ==
    /\ At("off") /\ main.life < MaxLives
    /\ main' = [Off EXCEPT !.pc = "next", !.life = main.life + 1, !.kept = disk]
    /\ UNCHANGED <<disk, receivers, senders, file>>

Skip ==
    /\ At("next") /\ main.leg <= Legs /\ main.kept[main.leg] # None
    /\ main' = [main EXCEPT !.leg = @ + 1, !.port = @ + 1]
    /\ UNCHANGED <<disk, receivers, senders, file>>

Alive == {p.attempt : p \in receivers} \cup {s.attempt : s \in senders}

RunLeg ==
    /\ At("next") /\ main.leg <= Legs /\ main.kept[main.leg] = None
    /\ main' = [main EXCEPT !.pc = "start", !.haunted = \E a \in Alive : a[1] < main.life]
    /\ file' = Nothing
    /\ UNCHANGED <<disk, receivers, senders>>

\* The attempt raises what the script catches.
Failed(m) == [m EXCEPT !.pc = "got", !.tries = 0]

\* One try of start_receiver: the command may have been run although ssh
\* failed or was given up.
StartReceiver ==
    /\ At("start")
    /\ \E ok, ran \in BOOLEAN :
          /\ ok => ran
          /\ ran => Cardinality(receivers) < MaxAlive
          /\ main' = IF ok THEN [main EXCEPT !.pc = "listen", !.tries = 0]
                     ELSE IF main.tries + 1 = Tries THEN Failed(main)
                     ELSE [main EXCEPT !.tries = @ + 1]
          /\ receivers' = IF ~ran THEN receivers ELSE receivers \cup
                {[attempt |-> Me, try |-> main.tries, leg |-> main.leg, port |-> main.port,
                  bound |-> FALSE, got |-> {}]}
    /\ UNCHANGED <<disk, senders, file>>

\* wait_for LISTENING goes on after its time whether the marker was there or
\* not, and raises only when ssh fails.
AwaitListening ==
    /\ At("listen")
    /\ \/ /\ Cardinality(senders) < MaxAlive
          /\ Go("sending")
          /\ senders' = senders \cup {[attempt |-> Me, port |-> main.port]}
       \/ main' = Failed(main) /\ UNCHANGED senders
    /\ UNCHANGED <<disk, receivers, file>>

\* The sender has sent for its duration; or it fails, or its time is over,
\* when a remote one may go on.
SenderReturns ==
    /\ At("sending")
    /\ LET mine == [attempt |-> Me, port |-> main.port]
       IN  \/ Go("read") /\ senders' = senders \ {mine}
           \/ main' = Failed(main) /\ senders' \in {senders, senders \ {mine}}
    /\ UNCHANGED <<disk, receivers, file>>

\* wait_for RESULT, and parse_result of what the file then holds.  A result
\* counts when its line is whole: an error that another receiver has printed
\* runs into it.  The receivers of this attempt have opened their file by now.
Shown == IF file.head = "listening" THEN file.result ELSE None

AwaitResult ==
    /\ At("read")
    /\ \A p \in receivers : p.attempt = Me => p.bound
    /\ \E r \in {Shown, None} :
          main' = [main EXCEPT !.pc = "got", !.result = r]
    /\ UNCHANGED <<disk, receivers, senders, file>>

Something(r) == r # None /\ r.got # {}

\* Mutant: the second attempt has the port of the first.
RetryOnSamePort ==
    /\ At("got") /\ ~Something(main.result) /\ main.attempt = 1
    /\ main' = [main EXCEPT !.pc = "start", !.attempt = 2, !.result = None]
    /\ UNCHANGED <<disk, receivers, senders, file>>

\* An attempt without packets is repeated once, on the next port.
Retry ==
    /\ At("got") /\ ~Something(main.result) /\ main.attempt = 1
    /\ main' = [main EXCEPT !.pc = "start", !.attempt = 2, !.result = None, !.port = @ + 1,
                            !.haunted = \E a \in Alive : a[1] < main.life]
    /\ file' = Nothing
    /\ UNCHANGED <<disk, receivers, senders>>

\* entry[label] = result: of the second attempt also without packets.
Keep ==
    /\ At("got") /\ (Something(main.result) \/ main.attempt = 2)
    /\ LET r == main.result
       IN  main' = [main EXCEPT !.pc = "write", !.result = None, !.haunted = FALSE,
              !.kept[main.leg] = IF r = None THEN None
                                 ELSE [own |-> r.by = Me, got |-> r.got, haunted |-> main.haunted],
              !.port = @ + (IF Something(r) THEN 1 ELSE 2)]
    /\ UNCHANGED <<disk, receivers, senders, file>>

\* Mutant: the output file is written in place, and may be cut off.
CheckpointInPlace ==
    /\ At("write")
    /\ \/ disk' = main.kept /\ main' = [main EXCEPT !.pc = "next", !.leg = @ + 1, !.attempt = 1]
       \/ disk' = [l \in Leg |-> None] /\ Stop
    /\ UNCHANGED <<receivers, senders, file>>

\* checkpoint: the temporary file takes the place of the output.
Checkpoint ==
    /\ At("write")
    /\ disk' = main.kept
    /\ main' = [main EXCEPT !.pc = "next", !.leg = @ + 1, !.attempt = 1]
    /\ UNCHANGED <<receivers, senders, file>>

Finish ==
    /\ At("next") /\ main.leg > Legs
    /\ Stop
    /\ UNCHANGED <<disk, receivers, senders, file>>

\* The script is killed, or ends with an exception that it does not catch.
Kill ==
    /\ ~At("off")
    /\ Stop
    /\ senders' \in {senders, {s \in senders : s.attempt # Me}}
    /\ UNCHANGED <<disk, receivers, file>>

-----------------------------------------------------------------------------
(***************************************************************************)
(* The node: receivers, which share the file of their leg and port.        *)
(***************************************************************************)
Becomes(p, q) == receivers' = (receivers \ {p}) \cup {q}

\* What p prints is of interest while its leg and port are the current ones.
Prints(p, f) == file' = IF <<p.leg, p.port>> = <<main.leg, main.port>> THEN f ELSE file

\* The shell truncates the file.  The port is free, or the receiver ends with
\* an error in the file.
ComeUp(p) ==
    /\ ~p.bound
    /\ IF \E q \in receivers : q.bound /\ q.port = p.port
       THEN /\ receivers' = receivers \ {p}
            /\ Prints(p, [Nothing EXCEPT !.head = "error"])
       ELSE /\ Becomes(p, [p EXCEPT !.bound = TRUE])
            /\ Prints(p, [Nothing EXCEPT !.head = "listening"])
    /\ UNCHANGED <<main, disk, senders>>

Arrive(p) ==
    /\ p.bound
    /\ \E s \in senders :
          /\ s.port = p.port
          /\ Becomes(p, [p EXCEPT !.got = @ \cup {IF s.attempt = p.attempt THEN "own" ELSE "other"}])
    /\ UNCHANGED <<main, disk, senders, file>>

\* The window is over, or nothing has come for IDLE_EXIT seconds after a
\* packet, though the sender may be sending.  stats prints RESULT after the
\* receiver's own LISTENING line, wherever the file has been truncated since.
PrintResult(p) ==
    /\ p.bound
    /\ receivers' = receivers \ {p}
    /\ Prints(p, [file EXCEPT !.result = Result(p)])
    /\ UNCHANGED <<main, disk, senders>>

\* A sender that nobody waits for has sent for its duration.
SenderEnds ==
    /\ \E s \in senders : senders' = senders \ {s} /\ (At("sending") => s.attempt # Me)
    /\ UNCHANGED <<main, disk, receivers, file>>

Script ==
    \/ Skip \/ RunLeg \/ StartReceiver \/ AwaitListening \/ SenderReturns \/ AwaitResult
    \/ Retry \/ Keep \/ Checkpoint \/ Finish

Next ==
    \/ Begin \/ Script \/ Kill \/ SenderEnds
    \/ \E p \in receivers : ComeUp(p) \/ Arrive(p) \/ PrintResult(p)

Spec == Init /\ [][Next]_vars

-----------------------------------------------------------------------------
(***************************************************************************)
(* Properties.                                                             *)
(***************************************************************************)
PC       == {"off", "next", "start", "listen", "sending", "read", "got", "write"}
Attempts == Nat \X Nat \X Nat
Whose    == {"own", "other"}
Results  == {None} \cup [by : Attempts, got : SUBSET Whose]
Keeps    == {None} \cup [own : BOOLEAN, got : SUBSET Whose, haunted : BOOLEAN]
Kept     == [Leg -> Keeps]
Main     == [pc : PC, life : Nat, leg : Nat, attempt : Nat, tries : Nat, port : Nat,
             result : Results, haunted : BOOLEAN, kept : Kept]
Receiver == [attempt : Attempts, try : Nat, leg : Nat, port : Nat, bound : BOOLEAN,
             got : SUBSET Whose]
Sender   == [attempt : Attempts, port : Nat]
File     == [head : {"empty", "error", "listening"}, result : Results]

\* The values of the variables.
TypeOK ==
    /\ main \in Main
    /\ disk \in Kept
    /\ receivers \subseteq Receiver
    /\ senders \subseteq Sender
    /\ file \in File

\* A result that has packets was printed by a receiver of the attempt it was
\* read for and counts the packets of this attempt's sender alone, although
\* receivers and senders of attempts that were given up live on; unless some
\* of an earlier, killed life of the script did when the attempt began.
AcceptedIsOwn ==
    \A l \in Leg :
        LET r == main.kept[l] IN
        r # None /\ r.got # {} /\ ~r.haunted => r.own /\ r.got = {"own"}

\* A result in the output file stays there as it is, whenever the script is
\* killed and started again.
KeptForGood == [][\A l \in Leg : disk[l] # None => disk'[l] = disk[l]]_vars

=============================================================================
