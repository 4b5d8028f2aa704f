------------------------------ MODULE UDPProbe ------------------------------
(***************************************************************************)
(* One probe session (probe.py) and its packet ledger (protocol.py): a     *)
(* paced sender, the receiver thread on the same socket, and a network     *)
(* that loses, delays, reorders and duplicates echoes and carries          *)
(* datagrams of others.                                                    *)
(***************************************************************************)
EXTENDS Integers, FiniteSets

CONSTANTS
    Packets,    \* packet_count
    Interval,   \* time between two sends
    Timeout,    \* response_timeout_s
    Drain,      \* duplicate_drain_s
    Copies,     \* bound: echoes of one packet
    Strays,     \* bound: datagrams of others that reach the socket
    LastSend,   \* bound: the time until which the sender sends
    Slack       \* bound: how late the sender sees a deadline

Packet == 1 .. Packets

ASSUME ProbeAssumption ==
    /\ Packets \in Nat \ {0}
    /\ {Interval, Timeout, Drain, Copies, Strays, LastSend, Slack} \subseteq Nat
    /\ LastSend >= (Packets - 1) * Interval

VARIABLES
    clock,
    pc, seq, deadline, error,           \* the sender; error: primary or cleanup
    receiver, held, stamp,              \* the receiver, its datagram and received_ns
    stopped, open, failed,              \* stop_event, the socket, receiver_failed
    sentAt, receivedAt, timedOut,       \* _entries
    attribution, duplicates,            \* counters of the ledger
    net, strays,                        \* echoes on the way, by packet; other datagrams
    arrived,                            \* what the receiver has handed to the ledger
    quiet,                              \* when the session stopped listening
    fault                               \* something has gone wrong

sender  == <<pc, seq, deadline, error>>
thread  == <<receiver, held, stamp>>
flags   == <<stopped, open, failed>>
entries == <<sentAt, receivedAt, timedOut>>
ledger  == <<entries, attribution, duplicates>>
network == <<net, strays>>
vars    == <<clock, sender, thread, flags, ledger, network, arrived, quiet, fault>>

None  == -1      \* no time, no datagram
Stray == 0       \* a datagram of another endpoint, token, path or send time

Sending == {"start", "pace", "check", "sendto", "deadline"}
Running == Sending \cup {"wait", "drain"}

Received == {p \in Packet : receivedAt[p] # None}

Init ==
    /\ clock = 0
    /\ pc = "start" /\ seq = 1 /\ deadline = 0 /\ error = FALSE
    /\ receiver = "none" /\ held = None /\ stamp = None
    /\ stopped = FALSE /\ open = TRUE /\ failed = FALSE
    /\ sentAt = [p \in Packet |-> None]
    /\ receivedAt = [p \in Packet |-> None] /\ timedOut = {}
    /\ attribution = 0 /\ duplicates = 0
    /\ net = [p \in Packet |-> 0] /\ strays = Strays
    /\ arrived = [d \in Packet \cup {Stray} |-> 0]
    /\ quiet = 0 /\ fault = FALSE

-----------------------------------------------------------------------------
(***************************************************************************)
(* The sender.                                                             *)
(***************************************************************************)
Start ==
    /\ pc = "start" /\ pc' = "pace" /\ receiver' = "head"
    /\ UNCHANGED <<clock, seq, deadline, error, held, stamp, flags, ledger, network,
                   arrived, quiet, fault>>

\* record_send, when it is time to.
RecordSend ==
    /\ pc = "pace" /\ ~failed /\ clock >= (seq - 1) * Interval
    /\ sentAt' = [sentAt EXCEPT ![seq] = clock]
    /\ pc' = "check"
    /\ UNCHANGED <<clock, seq, deadline, error, thread, flags, receivedAt, timedOut,
                   attribution, duplicates, network, arrived, quiet, fault>>

CheckReceiver ==
    /\ pc = "check" /\ ~failed /\ pc' = "sendto"
    /\ UNCHANGED <<clock, seq, deadline, error, thread, flags, ledger, network,
                   arrived, quiet, fault>>

\* The network decides here how many echoes there will be.
SendTo ==
    /\ pc = "sendto"
    /\ \E c \in 0 .. Copies : net' = [net EXCEPT ![seq] = c]
    /\ seq' = seq + 1
    /\ pc' = IF seq = Packets THEN "deadline" ELSE "pace"
    /\ UNCHANGED <<clock, deadline, error, thread, flags, ledger, strays, arrived, quiet, fault>>

\* Mutant: the timeout runs from the first packet.
DeadlineOfFirst ==
    /\ pc = "deadline" /\ pc' = "wait" /\ deadline' = sentAt[1] + Timeout
    /\ UNCHANGED <<clock, seq, error, thread, flags, ledger, network, arrived, quiet, fault>>

SetDeadline ==
    /\ pc = "deadline" /\ pc' = "wait" /\ deadline' = clock + Timeout
    /\ UNCHANGED <<clock, seq, error, thread, flags, ledger, network, arrived, quiet, fault>>

AllReceived ==
    /\ pc = "wait" /\ Received = Packet
    /\ pc' = "drain" /\ deadline' = clock + Drain
    /\ UNCHANGED <<clock, seq, error, thread, flags, ledger, network, arrived, quiet, fault>>

\* Mutant: an incomplete session waits for its missing echoes.
WaitForAll ==
    /\ pc = "drain" /\ clock >= deadline /\ pc' = "stop"
    /\ UNCHANGED <<clock, seq, deadline, error, thread, flags, ledger, network, arrived,
                   quiet, fault>>

WaitOver ==
    /\ pc = "drain" \/ (pc = "wait" /\ Received # Packet)
    /\ clock >= deadline /\ pc' = "stop"
    /\ UNCHANGED <<clock, seq, deadline, error, thread, flags, ledger, network, arrived,
                   quiet, fault>>

\* raise_receiver_failure
RaiseReceiverFailure ==
    /\ pc \in {"pace", "check", "wait", "drain"} /\ failed
    /\ pc' = "stop" /\ error' = TRUE
    /\ UNCHANGED <<clock, seq, deadline, thread, flags, ledger, network, arrived, quiet, fault>>

\* Any call of the sender raises.
SenderFails ==
    /\ pc \in Running
    /\ pc' = "stop" /\ error' = TRUE /\ fault' = TRUE
    /\ UNCHANGED <<clock, seq, deadline, thread, flags, ledger, network, arrived, quiet>>

SetStop ==
    /\ pc = "stop" /\ pc' = "close"
    /\ stopped' = TRUE /\ quiet' = clock
    /\ UNCHANGED <<clock, seq, deadline, error, thread, open, failed, ledger, network,
                   arrived, fault>>

Close ==
    /\ pc = "close" /\ pc' = "join"
    /\ \/ open' = FALSE /\ UNCHANGED <<error, fault>>
       \/ error' = TRUE /\ fault' = TRUE /\ UNCHANGED open
    /\ UNCHANGED <<clock, seq, deadline, thread, stopped, failed, ledger, network, arrived, quiet>>

\* Mutant: the result is taken while the receiver may still be running.
NoJoin ==
    /\ pc = "join" /\ pc' = "verdict"
    /\ UNCHANGED <<clock, seq, deadline, error, thread, flags, ledger, network, arrived,
                   quiet, fault>>

\* The receiver has a second to end; one that does not is an error.
Join ==
    /\ pc = "join" /\ pc' = "verdict"
    /\ \/ receiver \in {"none", "exited"} /\ UNCHANGED <<error, fault>>
       \/ receiver \notin {"none", "exited"} /\ error' = TRUE /\ fault' = TRUE
    /\ UNCHANGED <<clock, seq, deadline, thread, flags, ledger, network, arrived, quiet>>

\* finalize: what has timed out by now.
Expired == {p \in Packet \ Received : sentAt[p] # None /\ clock - sentAt[p] >= Timeout}

\* Mutant: an error of the receiver is looked for while sending only.
ForgetReceiverErrors ==
    /\ pc = "verdict"
    /\ \/ error /\ pc' = "raised" /\ UNCHANGED timedOut
       \/ ~error /\ timedOut' = Expired /\ pc' = "returned"
    /\ UNCHANGED <<clock, seq, deadline, error, thread, flags, sentAt, receivedAt,
                   attribution, duplicates, network, arrived, quiet, fault>>

\* Errors first; a packet still pending has no metrics.
Verdict ==
    /\ pc = "verdict"
    /\ \/ (error \/ failed) /\ pc' = "raised" /\ UNCHANGED timedOut
       \/ /\ ~error /\ ~failed
          /\ timedOut' = Expired
          /\ pc' = IF Expired \cup Received = Packet THEN "returned" ELSE "raised"
    /\ UNCHANGED <<clock, seq, deadline, error, thread, flags, sentAt, receivedAt,
                   attribution, duplicates, network, arrived, quiet, fault>>

-----------------------------------------------------------------------------
(***************************************************************************)
(* receive_loop.                                                           *)
(***************************************************************************)
LoopHead ==
    /\ receiver = "head"
    /\ receiver' = IF stopped THEN "exited" ELSE "recv"
    /\ UNCHANGED <<clock, sender, held, stamp, flags, ledger, network, arrived, quiet, fault>>

\* recvfrom returns a datagram, and the receiver takes the time.
Receive ==
    /\ receiver = "recv" /\ open
    /\ \/ \E p \in Packet : /\ net[p] > 0 /\ held' = p
                            /\ net' = [net EXCEPT ![p] = @ - 1] /\ UNCHANGED strays
       \/ strays > 0 /\ held' = Stray /\ strays' = strays - 1 /\ UNCHANGED net
    /\ receiver' = "record" /\ stamp' = clock
    /\ UNCHANGED <<clock, sender, flags, ledger, arrived, quiet, fault>>

\* A timeout, or the OSError of a socket that is being closed.
StopSeen ==
    /\ receiver = "recv" /\ stopped
    /\ receiver' = "exited"
    /\ UNCHANGED <<clock, sender, held, stamp, flags, ledger, network, arrived, quiet, fault>>

\* recvfrom raises: because the socket is closed, or something is wrong.
RecvFails ==
    /\ receiver = "recv" /\ ~stopped
    /\ receiver' = "exited" /\ failed' = TRUE
    /\ fault' = (fault \/ open)
    /\ UNCHANGED <<clock, sender, held, stamp, stopped, open, ledger, network, arrived, quiet>>

\* record_echo, of a datagram that passed the endpoint check and decoding.
Matches == held # Stray /\ sentAt[held] # None /\ stamp >= sentAt[held]

\* Mutant: a second echo replaces the first.
RecordLatest ==
    /\ receiver = "record" /\ receiver' = "head"
    /\ \/ ~Matches /\ attribution' = attribution + 1 /\ UNCHANGED <<receivedAt, duplicates>>
       \/ /\ Matches /\ receivedAt' = [receivedAt EXCEPT ![held] = stamp]
          /\ UNCHANGED <<attribution, duplicates>>
    /\ arrived' = [arrived EXCEPT ![held] = @ + 1]
    /\ held' = None /\ stamp' = None
    /\ UNCHANGED <<clock, sender, flags, sentAt, timedOut, network, quiet, fault>>

RecordEcho ==
    /\ receiver = "record" /\ receiver' = "head"
    /\ \/ ~Matches /\ attribution' = attribution + 1 /\ UNCHANGED <<receivedAt, duplicates>>
       \/ /\ Matches /\ (held \in Received \/ held \in timedOut)
          /\ duplicates' = duplicates + 1 /\ UNCHANGED <<receivedAt, attribution>>
       \/ /\ Matches /\ held \notin Received /\ held \notin timedOut
          /\ receivedAt' = [receivedAt EXCEPT ![held] = stamp]
          /\ UNCHANGED <<attribution, duplicates>>
    /\ arrived' = [arrived EXCEPT ![held] = @ + 1]
    /\ held' = None /\ stamp' = None
    /\ UNCHANGED <<clock, sender, flags, sentAt, timedOut, network, quiet, fault>>

\* The processing of a datagram raises.
RecordFails ==
    /\ receiver = "record"
    /\ receiver' = "exited" /\ failed' = TRUE /\ fault' = TRUE
    /\ held' = None /\ stamp' = None
    /\ UNCHANGED <<clock, sender, stopped, open, ledger, network, arrived, quiet>>

-----------------------------------------------------------------------------
\* Time passes; the bounds say how slow the sender is.
Tick ==
    /\ \/ pc \in Sending /\ clock < LastSend
       \/ pc \in {"wait", "drain", "close", "join"} /\ clock < deadline + Slack
    /\ clock' = clock + 1
    /\ UNCHANGED <<sender, thread, flags, ledger, network, arrived, quiet, fault>>

Sender ==
    \/ Start \/ RecordSend \/ CheckReceiver \/ SendTo \/ SetDeadline \/ AllReceived
    \/ WaitOver \/ RaiseReceiverFailure \/ SetStop \/ Close \/ Join \/ Verdict

Receiver == LoopHead \/ Receive \/ StopSeen \/ RecordEcho

Next == Sender \/ Receiver \/ SenderFails \/ RecvFails \/ RecordFails \/ Tick

Spec == Init /\ [][Next]_vars

\* The operating system runs the sender and lets time pass; it need not run
\* the receiver.
FairSpec == Spec /\ WF_vars(Sender) /\ WF_vars(Tick)

-----------------------------------------------------------------------------
(***************************************************************************)
(* Properties.                                                             *)
(***************************************************************************)
\* The values of the variables; an echo is not recorded before its packet.
TypeOK ==
    /\ clock \in Nat /\ deadline \in Nat /\ error \in BOOLEAN
    /\ pc \in Running \cup {"stop", "close", "join", "verdict", "returned", "raised"}
    /\ seq \in 1 .. Packets + 1
    /\ receiver \in {"none", "head", "recv", "record", "exited"}
    /\ held \in Packet \cup {Stray, None} /\ stamp \in Nat \cup {None}
    /\ {stopped, open, failed, fault} \subseteq BOOLEAN
    /\ sentAt \in [Packet -> Nat \cup {None}]
    /\ receivedAt \in [Packet -> Nat \cup {None}]
    /\ timedOut \subseteq Packet
    /\ net \in [Packet -> 0 .. Copies] /\ strays \in 0 .. Strays
    /\ arrived \in [Packet \cup {Stray} -> Nat]
    /\ {attribution, duplicates, quiet} \subseteq Nat
    /\ \A p \in Received : sentAt[p] # None /\ sentAt[p] <= receivedAt[p]

\* However the threads interleave, no echo of this session is an attribution
\* error, and the first echo of a packet is its reception.
Attributed ==
    /\ attribution = arrived[Stray]
    /\ \A p \in Packet : p \in Received <=> arrived[p] > 0

\* The echoes of this session after the first of each packet: what has
\* arrived is numbered from 1 on.
Repeats == {e \in Packet \X (2 .. Copies) : e[2] <= arrived[e[1]]}

\* Every datagram is accounted once: those of others as attribution errors,
\* the first echo of a packet as its reception, each later one as a duplicate.
Accounted == Attributed /\ duplicates = Cardinality(Repeats)

\* A packet is called lost only when the session has listened for its whole
\* response timeout, though one deadline serves all packets and the verdict
\* is taken after the receiver has been joined.
LossListened ==
    pc = "returned" => \A p \in Packet \ Received : quiet - sentAt[p] >= Timeout

\* A session in which something went wrong, in either thread, returns no
\* measurement, and raises only then: neither closing the socket under the
\* receiver nor the order of the deadlines makes a failure.
RaisesOnFailureOnly ==
    /\ pc = "returned" => ~fault
    /\ pc = "raised" => fault

\* A result that was returned is not changed by an echo that comes later.
ResultIsFinal == [][pc = "returned" => UNCHANGED ledger]_vars

\* Every session ends, whatever the network and the receiver do.
Terminates == <>(pc \in {"returned", "raised"})

=============================================================================
