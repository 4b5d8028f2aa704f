-------------------------- MODULE MeasurementProofs --------------------------
(***************************************************************************)
(* Proofs about the two sessions that measure something: UDPProbe, for any *)
(* number of packets and any times, and WebRTCSession, for any number of   *)
(* runs of the matrix and of notices of the server.                        *)
(***************************************************************************)
EXTENDS UDPProbe, WebRTCSession, FiniteSetTheorems, SequenceTheorems, TLAPS

-----------------------------------------------------------------------------
(***************************************************************************)
(* A probe session (UDPProbe): what its result and its failure mean.       *)
(***************************************************************************)

Sent(p) == sentAt[p] # None

\* Beyond the sending and the waiting.
Ended == {"stop", "close", "join", "verdict", "returned"}

\* What has been sent.
Progress ==
    /\ pc \in {"start", "pace"} => seq <= Packets /\ \A p \in Packet : Sent(p) <=> p < seq
    /\ pc \in {"check", "sendto"} => seq <= Packets /\ \A p \in Packet : Sent(p) <=> p <= seq
    /\ pc \in {"deadline", "wait", "drain"} => \A p \in Packet : Sent(p)
    /\ pc \in Ended /\ ~error => \A p \in Packet : Sent(p)

\* Nothing happens after the present.
Past ==
    /\ \A p \in Packet : sentAt[p] <= clock
    /\ stamp <= clock /\ quiet <= clock

\* How long the session has listened for what it has not received.
Listened ==
    /\ pc = "wait" => \A p \in Packet : sentAt[p] + Timeout <= deadline
    /\ pc = "drain" => \A p \in Packet : receivedAt[p] # None
    /\ pc = "stop" /\ ~error =>
          \A p \in Packet : receivedAt[p] = None => sentAt[p] + Timeout <= clock
    /\ pc \in Ended \ {"stop"} /\ ~error =>
          \A p \in Packet : receivedAt[p] = None => sentAt[p] + Timeout <= quiet

\* An error or a failed receiver is a fault, and nothing else is; without an
\* error the receiver has ended before the verdict.
Blame ==
    /\ stopped <=> pc \in {"close", "join", "verdict", "returned", "raised"}
    /\ ~open => stopped
    /\ fault <=> error \/ failed
    /\ pc \in Running => ~error
    /\ pc \in {"verdict", "returned"} /\ ~error => receiver \in {"none", "exited"}
    /\ pc = "returned" => ~error /\ ~failed
    /\ pc = "raised" => fault
    /\ timedOut # {} => pc = "returned"

\* An echo is on its way, or in the receiver's hands, only after its packet
\* has been sent.
Echoes ==
    /\ \A p \in Packet : net[p] > 0 => Sent(p)
    /\ receiver = "record" => held # None
    /\ receiver = "record" /\ held # Stray => Sent(held) /\ sentAt[held] <= stamp

IInv == TypeOK /\ Progress /\ Past /\ Listened /\ Blame /\ Echoes /\ Attributed

-----------------------------------------------------------------------------
LEMMA ConstantFacts ==
    /\ Packets \in Nat /\ Packets >= 1 /\ Packet = 1 .. Packets
    /\ Interval \in Nat /\ Timeout \in Nat /\ Drain \in Nat
    /\ Copies \in Nat /\ Strays \in Nat /\ LastSend \in Nat /\ Slack \in Nat
    /\ None = -1 /\ Stray = 0
BY ProbeAssumption DEF Packet, None, Stray

LEMMA TypeFacts ==
  ASSUME TypeOK
  PROVE  /\ stopped \in BOOLEAN /\ open \in BOOLEAN /\ failed \in BOOLEAN /\ fault \in BOOLEAN
         /\ error \in BOOLEAN
         /\ attribution \in Nat /\ duplicates \in Nat /\ quiet \in Nat /\ clock \in Nat
         /\ deadline \in Nat /\ seq \in Nat /\ stamp \in Int
BY ConstantFacts DEF TypeOK

\* What only the sender changes.
Receiving == LoopHead \/ Receive \/ StopSeen \/ RecordEcho \/ RecvFails \/ RecordFails

LEMMA ReceiverLeavesSender ==
  ASSUME Receiving
  PROVE  UNCHANGED <<clock, sender, stopped, open, sentAt, timedOut, quiet>>
<1>1. CASE LoopHead
  BY <1>1 DEF LoopHead, sender, flags, ledger, entries
<1>2. CASE Receive
  BY <1>2 DEF Receive, sender, flags, ledger, entries
<1>3. CASE StopSeen
  BY <1>3 DEF StopSeen, sender, flags, ledger, entries
<1>4. CASE RecordEcho
  BY <1>4 DEF RecordEcho, sender, flags
<1>5. CASE RecvFails
  BY <1>5 DEF RecvFails, sender, ledger, entries
<1>6. CASE RecordFails
  BY <1>6 DEF RecordFails, sender, ledger, entries
<1> QED
  BY <1>1, <1>2, <1>3, <1>4, <1>5, <1>6 DEF Receiving

LEMMA InitIInv == Init => IInv
<1> SUFFICES ASSUME Init PROVE IInv
  OBVIOUS
<1> USE ConstantFacts
<1>1. TypeOK
  <2>1. /\ sentAt \in [Packet -> Nat \cup {None}] /\ receivedAt \in [Packet -> Nat \cup {None}]
        /\ net \in [Packet -> 0 .. Copies] /\ arrived \in [Packet \cup {Stray} -> Nat]
    BY DEF Init
  <2>2. /\ pc \in Running \cup {"stop", "close", "join", "verdict", "returned", "raised"}
        /\ {stopped, open, failed, fault} \subseteq BOOLEAN /\ error \in BOOLEAN
    BY Zenon DEF Init, Running, Sending
  <2>3. Received = {}
    BY DEF Init, Received
  <2>4. /\ clock \in Nat /\ deadline \in Nat /\ seq \in 1 .. Packets + 1
        /\ receiver \in {"none", "head", "recv", "record", "exited"}
        /\ held \in Packet \cup {Stray, None} /\ stamp \in Nat \cup {None}
        /\ timedOut \subseteq Packet /\ strays \in 0 .. Strays
        /\ {attribution, duplicates, quiet} \subseteq Nat
    BY DEF Init
  <2> QED
    BY <2>1, <2>2, <2>3, <2>4 DEF TypeOK
<1>2. Progress /\ Past /\ Echoes
  BY DEF Init, Progress, Past, Echoes, Sent, Ended
<1>3. Listened /\ Blame
  BY DEF Init, Listened, Blame, Ended, Running, Sending
<1>4. Attributed
  BY DEF Init, Attributed, Received
<1> QED
  BY <1>1, <1>2, <1>3, <1>4 DEF IInv

LEMMA StepProgress == TypeOK /\ Progress /\ [Next]_vars => Progress'
<1> SUFFICES ASSUME TypeOK, Progress, [Next]_vars PROVE Progress'
  OBVIOUS
<1> USE ConstantFacts DEF Progress, Sent, Ended
<1>1. CASE Start \/ CheckReceiver \/ SetDeadline \/ AllReceived \/ WaitOver
  BY <1>1, TypeFacts DEF Start, CheckReceiver, SetDeadline, AllReceived, WaitOver, ledger, entries
<1>2. CASE RecordSend
  BY <1>2, TypeFacts DEF RecordSend, TypeOK
<1>3. CASE SendTo
  BY <1>3, TypeFacts DEF SendTo, ledger, entries
<1>4. CASE RaiseReceiverFailure \/ SenderFails \/ SetStop \/ Close \/ Join
  BY <1>4 DEF RaiseReceiverFailure, SenderFails, SetStop, Close, Join, ledger, entries
<1>5. CASE Verdict
  BY <1>5 DEF Verdict
<1>6. CASE Receiving \/ Tick
  <2>1. UNCHANGED <<sender, sentAt>>
    BY <1>6, ReceiverLeavesSender DEF Tick, ledger, entries
  <2> QED
    BY <2>1 DEF sender
<1>7. CASE UNCHANGED vars
  BY <1>7 DEF vars, sender, ledger, entries
<1> QED
  BY <1>1, <1>2, <1>3, <1>4, <1>5, <1>6, <1>7 DEF Next, Sender, Receiver, Receiving

LEMMA StepPast == TypeOK /\ Past /\ [Next]_vars => Past'
<1> SUFFICES ASSUME TypeOK, Past, [Next]_vars PROVE Past'
  OBVIOUS
<1> USE ConstantFacts, TypeFacts DEF Past
<1>1. CASE RecordSend
  BY <1>1 DEF RecordSend, TypeOK, thread
<1>2. CASE Tick
  <2>1. clock' = clock + 1 /\ UNCHANGED <<sentAt, stamp, quiet>>
    BY <1>2 DEF Tick, thread, ledger, entries
  <2>2. \A p \in Packet : sentAt[p] \in Int
    BY DEF TypeOK
  <2> QED
    BY <2>1, <2>2
<1>3. CASE Receiving
  <2>1. UNCHANGED <<clock, sentAt, quiet>> /\ stamp' \in {stamp, clock, None}
    BY <1>3, ReceiverLeavesSender DEF Receiving, LoopHead, Receive, StopSeen, RecordEcho,
       RecvFails, RecordFails
  <2> QED
    BY <2>1
<1>4. CASE Start \/ CheckReceiver \/ SendTo \/ SetDeadline \/ AllReceived \/ WaitOver
           \/ RaiseReceiverFailure \/ SenderFails \/ SetStop \/ Close \/ Join \/ Verdict
  <2>1. UNCHANGED <<clock, sentAt, stamp>> /\ quiet' \in {quiet, clock}
    BY <1>4 DEF Start, CheckReceiver, SendTo, SetDeadline, AllReceived, WaitOver,
       RaiseReceiverFailure, SenderFails, SetStop, Close, Join, Verdict, thread, ledger, entries
  <2> QED
    BY <2>1
<1>5. CASE UNCHANGED vars
  BY <1>5 DEF vars, thread, ledger, entries
<1> QED
  BY <1>1, <1>2, <1>3, <1>4, <1>5 DEF Next, Sender, Receiver, Receiving

\* What has been received stays received.
LEMMA ReceivedStays ==
  ASSUME TypeOK, [Next]_vars, NEW p \in Packet, receivedAt[p] # None
  PROVE  receivedAt'[p] # None
<1> USE ConstantFacts
<1>1. CASE RecordEcho
  <2>1. \/ receivedAt' = receivedAt
        \/ receivedAt' = [receivedAt EXCEPT ![held] = stamp] /\ held \notin Received
    BY <1>1 DEF RecordEcho
  <2> QED
    BY <2>1 DEF TypeOK, Received
<1>2. CASE ~ RecordEcho
  BY <1>2 DEF Next, Sender, Receiver, Start, RecordSend, CheckReceiver, SendTo, SetDeadline,
     AllReceived, WaitOver, RaiseReceiverFailure, SenderFails, SetStop, Close, Join, Verdict,
     LoopHead, Receive, StopSeen, RecvFails, RecordFails, Tick, vars, ledger, entries
<1> QED
  BY <1>1, <1>2

LEMMA StepListened ==
  TypeOK /\ Progress /\ Past /\ Listened /\ Blame /\ [Next]_vars => Listened'
<1> SUFFICES ASSUME TypeOK, Progress, Past, Listened, Blame, [Next]_vars PROVE Listened'
  OBVIOUS
<1> USE ConstantFacts, TypeFacts DEF Listened, Ended
<1>0. \A p \in Packet : sentAt[p] \in Int
  BY DEF TypeOK
<1>1. CASE Start \/ RecordSend \/ CheckReceiver \/ SendTo \/ RaiseReceiverFailure \/ SenderFails
  <2>1. \/ pc' \in Sending
        \/ pc' = "stop" /\ error'
    BY <1>1 DEF Start, RecordSend, CheckReceiver, SendTo, RaiseReceiverFailure, SenderFails,
       Sending
  <2> QED
    BY <2>1 DEF Sending
<1>2. CASE SetDeadline
  <2>1. pc' = "wait" /\ deadline' = clock + Timeout /\ sentAt' = sentAt
    BY <1>2 DEF SetDeadline, ledger, entries
  <2> QED
    BY <1>0, <2>1 DEF Past
<1>3. CASE AllReceived
  <2>1. pc' = "drain" /\ receivedAt' = receivedAt /\ Received = Packet
    BY <1>3 DEF AllReceived, ledger, entries
  <2> QED
    BY <2>1 DEF Received
<1>4. CASE WaitOver
  <2>1. /\ pc \in {"wait", "drain"} /\ clock >= deadline /\ pc' = "stop"
        /\ UNCHANGED <<clock, sentAt, receivedAt>>
    BY <1>4 DEF WaitOver, ledger, entries
  <2>2. ASSUME NEW p \in Packet, receivedAt[p] = None PROVE sentAt[p] + Timeout <= clock
    BY <1>0, <2>1, <2>2
  <2> QED
    BY <2>1, <2>2
<1>5. CASE SetStop
  <2>1. /\ pc = "stop" /\ pc' = "close" /\ quiet' = clock /\ error' = error
        /\ UNCHANGED <<sentAt, receivedAt>>
    BY <1>5 DEF SetStop, ledger, entries
  <2> QED
    BY <2>1
<1>6. CASE Close \/ Join \/ Verdict
  <2>1. /\ pc \in {"close", "join", "verdict"} /\ pc' \in {"join", "verdict", "returned", "raised"}
        /\ ~ error' => ~ error
        /\ UNCHANGED <<quiet, sentAt, receivedAt>>
    BY <1>6 DEF Close, Join, Verdict, ledger, entries
  <2> QED
    BY <2>1
<1>7. CASE Receiving \/ Tick
  <2>1. UNCHANGED <<pc, deadline, error, sentAt, quiet>> /\ clock' \in Nat /\ clock <= clock'
    BY <1>7, ReceiverLeavesSender DEF Tick, sender, ledger, entries
  <2>2. \A p \in Packet : receivedAt'[p] = None => receivedAt[p] = None
    BY ReceivedStays
  <2> QED
    BY <1>0, <2>1, <2>2
<1>8. CASE UNCHANGED vars
  BY <1>8 DEF vars, sender, ledger, entries
<1> QED
  BY <1>1, <1>2, <1>3, <1>4, <1>5, <1>6, <1>7, <1>8 DEF Next, Sender, Receiver, Receiving

LEMMA StepBlame ==
  TypeOK /\ Progress /\ Past /\ Listened /\ Blame /\ [Next]_vars => Blame'
<1> SUFFICES ASSUME TypeOK, Progress, Past, Listened, Blame, [Next]_vars PROVE Blame'
  OBVIOUS
<1> USE TypeFacts DEF Blame, Running, Sending
<1>1. CASE Start \/ RecordSend \/ CheckReceiver \/ SendTo \/ SetDeadline \/ AllReceived \/ WaitOver
  <2>1. /\ pc \in Running /\ pc' \in Running \cup {"stop"}
        /\ UNCHANGED <<stopped, open, failed, error, fault, timedOut>>
    BY <1>1 DEF Start, RecordSend, CheckReceiver, SendTo, SetDeadline, AllReceived, WaitOver,
       flags, ledger, entries
  <2> QED
    BY <2>1
<1>2. CASE RaiseReceiverFailure \/ SenderFails
  BY <1>2 DEF RaiseReceiverFailure, SenderFails, flags, ledger, entries
<1>3. CASE SetStop
  BY <1>3 DEF SetStop, ledger, entries
<1>4. CASE Close
  BY <1>4 DEF Close, ledger, entries
<1>5. CASE Join
  BY <1>5 DEF Join, flags, thread, ledger, entries
<1>6. CASE Verdict
  <2>1. CASE error \/ failed
    BY <1>6, <2>1 DEF Verdict, flags, thread
  <2>2. CASE ~ error /\ ~ failed
    <3>1. \A p \in Packet : p \in Received \/ p \in Expired
      <4>1. ASSUME NEW p \in Packet, p \notin Received PROVE p \in Expired
        <5>1. /\ pc = "verdict" /\ receivedAt[p] = None /\ sentAt[p] # None
              /\ sentAt[p] + Timeout <= quiet
          BY <1>6, <2>2, <4>1 DEF Verdict, Received, Listened, Progress, Sent, Ended
        <5>2. /\ quiet <= clock /\ sentAt[p] \in Int
              /\ quiet \in Int /\ clock \in Int /\ Timeout \in Int
          <6>1. sentAt[p] \in Int /\ quiet <= clock
            BY DEF Past, TypeOK, None
          <6> QED
            BY <6>1, ConstantFacts
        <5>3. clock - sentAt[p] >= Timeout
          BY <5>1, <5>2
        <5> QED
          BY <4>1, <5>1, <5>3 DEF Expired
      <4> QED
        BY <4>1
    <3>2. Expired \cup Received = Packet
      BY <3>1 DEF Expired, Received
    <3> QED
      BY <1>6, <2>2, <3>2 DEF Verdict, flags, thread
  <2> QED
    BY <2>1, <2>2
<1>7. CASE LoopHead \/ Receive \/ StopSeen \/ RecordEcho \/ Tick
  <2>1. UNCHANGED <<pc, error, stopped, open, failed, fault, timedOut>>
    BY <1>7, ReceiverLeavesSender DEF Receiving, LoopHead, Receive, StopSeen, RecordEcho, Tick,
       flags, sender, ledger, entries
  <2>2. receiver \in {"none", "exited"} => receiver' = receiver
    BY <1>7 DEF LoopHead, Receive, StopSeen, RecordEcho, Tick, thread
  <2> QED
    BY <2>1, <2>2
<1>8. CASE RecvFails \/ RecordFails
  <2>1. /\ UNCHANGED <<pc, error, stopped, open, timedOut>>
        /\ failed' /\ receiver \notin {"none", "exited"} /\ receiver' = "exited"
    BY <1>8, ReceiverLeavesSender DEF Receiving, RecvFails, RecordFails, sender
  <2>2. fault'
    BY <1>8 DEF RecvFails, RecordFails
  <2> QED
    BY <2>1, <2>2
<1>9. CASE UNCHANGED vars
  BY <1>9 DEF vars, flags, sender, thread, ledger, entries
<1> QED
  BY <1>1, <1>2, <1>3, <1>4, <1>5, <1>6, <1>7, <1>8, <1>9
     DEF Next, Sender, Receiver, Receiving

\* What has been sent stays sent, at its time.
LEMMA SentStays ==
  ASSUME TypeOK, Progress, [Next]_vars, NEW p \in Packet, Sent(p)
  PROVE  sentAt'[p] = sentAt[p]
<1> USE ConstantFacts
<1>1. CASE RecordSend
  BY <1>1, TypeFacts DEF RecordSend, TypeOK, Progress, Sent
<1>2. CASE ~ RecordSend
  BY <1>2 DEF Next, Sender, Receiver, Start, RecordSend, CheckReceiver, SendTo, SetDeadline,
     AllReceived, WaitOver, RaiseReceiverFailure, SenderFails, SetStop, Close, Join, Verdict,
     LoopHead, Receive, StopSeen, RecordEcho, RecvFails, RecordFails, Tick, vars, ledger, entries
<1> QED
  BY <1>1, <1>2

LEMMA StepEchoes ==
  TypeOK /\ Progress /\ Past /\ Echoes /\ [Next]_vars => Echoes'
<1> SUFFICES ASSUME TypeOK, Progress, Past, Echoes, [Next]_vars PROVE Echoes'
  OBVIOUS
<1> USE ConstantFacts, TypeFacts
<1>0. \A p \in Packet : Sent(p) => Sent(p)'
  BY SentStays DEF Sent
<1>1. CASE SendTo
  <2>1. PICK c \in 0 .. Copies : net' = [net EXCEPT ![seq] = c]
    BY <1>1 DEF SendTo
  <2>2. seq \in Packet /\ Sent(seq) /\ UNCHANGED <<receiver, held, stamp, sentAt>>
    BY <1>1 DEF SendTo, Progress, TypeOK, ledger, entries, thread
  <2>3. \A p \in Packet : net'[p] > 0 => Sent(p)'
    BY <1>0, <2>1, <2>2 DEF Echoes, TypeOK
  <2> QED
    BY <2>2, <2>3 DEF Echoes, Sent
<1>2. CASE Receive
  <2>1. /\ UNCHANGED sentAt /\ stamp' = clock /\ receiver' = "record"
        /\ \/ \E p \in Packet : net[p] > 0 /\ held' = p /\ net' = [net EXCEPT ![p] = @ - 1]
           \/ held' = Stray /\ net' = net
    BY <1>2 DEF Receive, ledger, entries
  <2>2. \A p \in Packet : net'[p] > 0 => net[p] > 0
    BY <2>1 DEF TypeOK
  <2>3. held' # None /\ (held' # Stray => Sent(held') /\ sentAt[held'] <= clock)
    BY <2>1 DEF Echoes, Past
  <2> QED
    BY <2>1, <2>2, <2>3 DEF Echoes, Sent
<1>3. CASE Start \/ RecordSend \/ CheckReceiver \/ SetDeadline \/ AllReceived \/ WaitOver
           \/ RaiseReceiverFailure \/ SenderFails \/ SetStop \/ Close \/ Join \/ Verdict
           \/ Tick \/ UNCHANGED vars
  <2>1. /\ UNCHANGED <<net, held, stamp>>
        /\ receiver' = "record" => receiver = "record"
    BY <1>3 DEF Start, RecordSend, CheckReceiver, SetDeadline, AllReceived, WaitOver,
       RaiseReceiverFailure, SenderFails, SetStop, Close, Join, Verdict, Tick, vars,
       network, thread
  <2>2. receiver = "record" /\ held # Stray => held \in Packet
    BY DEF TypeOK, Echoes
  <2>3. ASSUME receiver = "record", held # Stray
        PROVE  sentAt'[held] # None /\ sentAt'[held] <= stamp
    <3>1. held \in Packet /\ Sent(held) /\ sentAt[held] <= stamp
      BY <2>2, <2>3 DEF Echoes
    <3>2. sentAt'[held] = sentAt[held]
      BY <3>1, SentStays
    <3> QED
      BY <3>1, <3>2 DEF Sent
  <2> QED
    BY <1>0, <2>1, <2>3 DEF Echoes, Sent
<1>4. CASE LoopHead \/ StopSeen \/ RecordEcho \/ RecvFails \/ RecordFails
  <2>1. UNCHANGED <<net, sentAt>> /\ receiver' # "record"
    BY <1>4, ReceiverLeavesSender DEF Receiving, LoopHead, StopSeen, RecordEcho, RecvFails,
       RecordFails, network
  <2> QED
    BY <2>1 DEF Echoes, Sent
<1> QED
  BY <1>1, <1>2, <1>3, <1>4 DEF Next, Sender, Receiver

LEMMA StepAttributed ==
  TypeOK /\ Blame /\ Echoes /\ Attributed /\ [Next]_vars => Attributed'
<1> SUFFICES ASSUME TypeOK, Blame, Echoes, Attributed, [Next]_vars PROVE Attributed'
  OBVIOUS
<1> USE ConstantFacts, TypeFacts
<1>1. CASE RecordEcho
  <2>1. /\ receiver = "record" /\ arrived' = [arrived EXCEPT ![held] = @ + 1]
        /\ \/ ~Matches /\ attribution' = attribution + 1 /\ UNCHANGED receivedAt
           \/ /\ Matches /\ (held \in Received \/ held \in timedOut)
              /\ UNCHANGED <<receivedAt, attribution>>
           \/ /\ Matches /\ held \notin Received /\ held \notin timedOut
              /\ receivedAt' = [receivedAt EXCEPT ![held] = stamp] /\ UNCHANGED attribution
    BY <1>1 DEF RecordEcho
  <2>2. timedOut = {}
    BY <2>1 DEF Blame
  <2>3. CASE held = Stray
    <3>1. ~ Matches
      BY <2>3 DEF Matches
    <3>2. UNCHANGED receivedAt /\ attribution' = attribution + 1
      BY <2>1, <3>1
    <3>3. arrived'[Stray] = arrived[Stray] + 1 /\ \A p \in Packet : arrived'[p] = arrived[p]
      BY <2>1, <2>3 DEF TypeOK
    <3> QED
      BY <3>2, <3>3 DEF Attributed, Received
  <2>4. CASE held # Stray
    <3>1. held \in Packet /\ Matches /\ stamp # None
      BY <2>1, <2>4 DEF TypeOK, Echoes, Sent, Matches
    <3>2. /\ arrived'[Stray] = arrived[Stray] /\ arrived'[held] > 0
          /\ \A p \in Packet \ {held} : arrived'[p] = arrived[p]
      BY <2>1, <3>1 DEF TypeOK
    <3>3. /\ attribution' = attribution /\ receivedAt'[held] # None
          /\ \A p \in Packet \ {held} : receivedAt'[p] = receivedAt[p]
      BY <2>1, <2>2, <3>1 DEF TypeOK, Received
    <3> QED
      BY <3>1, <3>2, <3>3 DEF Attributed, Received
  <2> QED
    BY <2>3, <2>4
<1>2. CASE ~ RecordEcho
  <2>1. UNCHANGED <<attribution, arrived, receivedAt>>
    BY <1>2 DEF Next, Sender, Receiver, Start, RecordSend, CheckReceiver, SendTo, SetDeadline,
       AllReceived, WaitOver, RaiseReceiverFailure, SenderFails, SetStop, Close, Join, Verdict,
       LoopHead, Receive, StopSeen, RecvFails, RecordFails, Tick, vars, ledger, entries
  <2> QED
    BY <2>1 DEF Attributed, Received
<1> QED
  BY <1>1, <1>2

\* A part of the type invariant for every group of variables.
LEMMA StepTypeSender ==
  ASSUME TypeOK, Progress, [Next]_vars
  PROVE  /\ clock' \in Nat /\ deadline' \in Nat /\ error' \in BOOLEAN
         /\ pc' \in Running \cup {"stop", "close", "join", "verdict", "returned", "raised"}
         /\ seq' \in 1 .. Packets + 1
<1> USE ConstantFacts, TypeFacts
<1>0. /\ pc \in Running \cup {"stop", "close", "join", "verdict", "returned", "raised"}
      /\ seq \in 1 .. Packets + 1
  BY DEF TypeOK
<1>1. CASE Start \/ RecordSend \/ CheckReceiver
  BY <1>0, <1>1 DEF Start, RecordSend, CheckReceiver, Running, Sending
<1>2. CASE SendTo
  BY <1>0, <1>2 DEF SendTo, Running, Sending, Progress
<1>3. CASE SetDeadline \/ AllReceived \/ WaitOver
  BY <1>0, <1>3 DEF SetDeadline, AllReceived, WaitOver, Running
<1>4. CASE RaiseReceiverFailure \/ SenderFails \/ SetStop
  BY <1>0, <1>4 DEF RaiseReceiverFailure, SenderFails, SetStop
<1>5. CASE Close \/ Join \/ Verdict
  BY <1>0, <1>5 DEF Close, Join, Verdict
<1>6. CASE Receiving
  BY <1>0, <1>6, ReceiverLeavesSender DEF sender
<1>7. CASE Tick \/ UNCHANGED vars
  BY <1>0, <1>7 DEF Tick, vars, sender
<1> QED
  BY <1>1, <1>2, <1>3, <1>4, <1>5, <1>6, <1>7 DEF Next, Sender, Receiver, Receiving

LEMMA StepTypeReceiver ==
  ASSUME TypeOK, [Next]_vars
  PROVE  /\ receiver' \in {"none", "head", "recv", "record", "exited"}
         /\ held' \in Packet \cup {Stray, None} /\ stamp' \in Nat \cup {None}
<1> USE ConstantFacts, TypeFacts
<1>0. /\ receiver \in {"none", "head", "recv", "record", "exited"}
      /\ held \in Packet \cup {Stray, None} /\ stamp \in Nat \cup {None}
  BY DEF TypeOK
<1>1. CASE Receiving
  BY <1>0, <1>1 DEF Receiving, LoopHead, Receive, StopSeen, RecordEcho, RecvFails, RecordFails
<1>2. CASE ~ Receiving
  BY <1>0, <1>2 DEF Receiving, Next, Sender, Receiver, Start, RecordSend, CheckReceiver, SendTo,
     SetDeadline, AllReceived, WaitOver, RaiseReceiverFailure, SenderFails, SetStop, Close, Join,
     Verdict, Tick, vars, thread
<1> QED
  BY <1>1, <1>2

LEMMA StepTypeFlags ==
  ASSUME TypeOK, [Next]_vars
  PROVE  stopped' \in BOOLEAN /\ open' \in BOOLEAN /\ failed' \in BOOLEAN /\ fault' \in BOOLEAN
BY TypeFacts, Zenon DEF Next, Sender, Receiver, Start, RecordSend, CheckReceiver, SendTo,
   SetDeadline,
   AllReceived, WaitOver, RaiseReceiverFailure, SenderFails, SetStop, Close, Join, Verdict,
   LoopHead, Receive, StopSeen, RecordEcho, RecvFails, RecordFails, Tick, vars, flags

LEMMA StepTypeLedger ==
  ASSUME TypeOK, Progress, Past, Echoes, [Next]_vars
  PROVE  /\ sentAt' \in [Packet -> Nat \cup {None}]
         /\ receivedAt' \in [Packet -> Nat \cup {None}]
         /\ timedOut' \subseteq Packet
         /\ \A p \in Packet : receivedAt'[p] # None =>
               sentAt'[p] # None /\ sentAt'[p] <= receivedAt'[p]
<1> USE ConstantFacts, TypeFacts
<1>0. /\ sentAt \in [Packet -> Nat \cup {None}] /\ receivedAt \in [Packet -> Nat \cup {None}]
      /\ timedOut \subseteq Packet
      /\ \A p \in Packet : receivedAt[p] # None => sentAt[p] # None /\ sentAt[p] <= receivedAt[p]
  BY DEF TypeOK, Received
<1>1. CASE RecordSend
  <2>1. seq \in Packet /\ sentAt[seq] = None
    BY <1>1 DEF RecordSend, Progress, Sent, TypeOK
  <2>2. sentAt' = [sentAt EXCEPT ![seq] = clock] /\ UNCHANGED <<receivedAt, timedOut>>
    BY <1>1 DEF RecordSend
  <2> QED
    BY <1>0, <2>1, <2>2
<1>2. CASE RecordEcho
  <2>1. /\ UNCHANGED <<sentAt, timedOut>>
        /\ receivedAt' = receivedAt \/ (Matches /\ receivedAt' = [receivedAt EXCEPT ![held] = stamp])
    BY <1>2 DEF RecordEcho
  <2>2. Matches => held \in Packet /\ stamp \in Nat /\ sentAt[held] # None /\ sentAt[held] <= stamp
    BY <1>2 DEF RecordEcho, Matches, Echoes, Sent, TypeOK
  <2> QED
    BY <1>0, <2>1, <2>2
<1>3. CASE Verdict
  BY <1>0, <1>3 DEF Verdict, Expired
<1>4. CASE ~ RecordSend /\ ~ RecordEcho /\ ~ Verdict
  <2>1. UNCHANGED <<sentAt, receivedAt, timedOut>>
    BY <1>4 DEF Next, Sender, Receiver, Start, CheckReceiver, SendTo, SetDeadline,
       AllReceived, WaitOver, RaiseReceiverFailure, SenderFails, SetStop, Close, Join,
       LoopHead, Receive, StopSeen, RecvFails, RecordFails, Tick, vars, ledger, entries
  <2> QED
    BY <1>0, <2>1
<1> QED
  BY <1>1, <1>2, <1>3, <1>4

LEMMA StepTypeNetwork ==
  ASSUME TypeOK, Progress, Echoes, [Next]_vars
  PROVE  /\ net' \in [Packet -> 0 .. Copies] /\ strays' \in 0 .. Strays
         /\ arrived' \in [Packet \cup {Stray} -> Nat]
         /\ attribution' \in Nat /\ duplicates' \in Nat /\ quiet' \in Nat
<1> USE ConstantFacts, TypeFacts
<1>0. /\ net \in [Packet -> 0 .. Copies] /\ strays \in 0 .. Strays
      /\ arrived \in [Packet \cup {Stray} -> Nat]
  BY DEF TypeOK
<1>1. CASE SendTo
  <2>1. /\ \E c \in 0 .. Copies : net' = [net EXCEPT ![seq] = c]
        /\ UNCHANGED <<strays, arrived, attribution, duplicates, quiet>>
    BY <1>1 DEF SendTo, ledger
  <2> QED
    BY <1>0, <2>1
<1>2. CASE Receive
  <2>1. UNCHANGED <<arrived, attribution, duplicates, quiet>>
    BY <1>2 DEF Receive, ledger
  <2>2. CASE strays > 0 /\ strays' = strays - 1 /\ net' = net
    BY <1>0, <2>1, <2>2 DEF TypeOK
  <2>3. ASSUME NEW p \in Packet, net[p] > 0, net' = [net EXCEPT ![p] = @ - 1],
               strays' = strays
        PROVE  net' \in [Packet -> 0 .. Copies]
    <3>1. net[p] - 1 \in 0 .. Copies
      <4>1. net[p] \in 0 .. Copies
        BY <1>0
      <4> QED
        BY <2>3, <4>1
    <3> QED
      BY <1>0, <2>3, <3>1, Zenon
  <2> QED
    BY <1>0, <1>2, <2>1, <2>2, <2>3 DEF Receive, TypeOK
<1>3. CASE RecordEcho
  <2>1. /\ receiver = "record" /\ arrived' = [arrived EXCEPT ![held] = @ + 1]
        /\ attribution' \in {attribution, attribution + 1}
        /\ duplicates' \in {duplicates, duplicates + 1}
        /\ UNCHANGED <<net, strays, quiet>>
    BY <1>3 DEF RecordEcho, network
  <2>2. held \in Packet \cup {Stray}
    BY <2>1 DEF Echoes, TypeOK
  <2>3. arrived[held] + 1 \in Nat
    <3>1. arrived[held] \in Nat
      BY <1>0, <2>2, Zenon
    <3> QED
      BY <3>1
  <2>4. arrived' \in [Packet \cup {Stray} -> Nat]
    BY <1>0, <2>1, <2>2, <2>3, Zenon
  <2>5. attribution' \in Nat /\ duplicates' \in Nat
    BY <2>1 DEF TypeOK
  <2> QED
    BY <1>0, <2>1, <2>4, <2>5 DEF TypeOK
<1>4. CASE ~ SendTo /\ ~ Receive /\ ~ RecordEcho
  <2>1. /\ UNCHANGED <<net, strays, arrived, attribution, duplicates>>
        /\ quiet' \in {quiet, clock}
    BY <1>4 DEF Next, Sender, Receiver, Start, RecordSend, CheckReceiver, SetDeadline,
       AllReceived, WaitOver, RaiseReceiverFailure, SenderFails, SetStop, Close, Join, Verdict,
       LoopHead, StopSeen, RecvFails, RecordFails, Tick, vars, ledger, network
  <2> QED
    BY <1>0, <2>1
<1> QED
  BY <1>1, <1>2, <1>3, <1>4

LEMMA StepType == TypeOK /\ Progress /\ Past /\ Echoes /\ [Next]_vars => TypeOK'
<1> SUFFICES ASSUME TypeOK, Progress, Past, Echoes, [Next]_vars PROVE TypeOK'
  OBVIOUS
<1>1. \A p \in Received' : sentAt'[p] # None /\ sentAt'[p] <= receivedAt'[p]
  BY StepTypeLedger DEF Received
<1>2. {stopped', open', failed', fault'} \subseteq BOOLEAN
  BY StepTypeFlags, Zenon
<1>3. {attribution', duplicates', quiet'} \subseteq Nat
  BY StepTypeNetwork
<1> QED
  BY <1>1, <1>2, <1>3, StepTypeSender, StepTypeReceiver, StepTypeLedger, StepTypeNetwork
     DEF TypeOK

-----------------------------------------------------------------------------
(***************************************************************************)
(* The theorems.                                                           *)
(***************************************************************************)
LEMMA StepIInv == IInv /\ [Next]_vars => IInv'
BY StepType, StepProgress, StepPast, StepListened, StepBlame, StepEchoes, StepAttributed DEF IInv

\* The inductive invariant of a session and its receiver.
THEOREM ProbeInvariant == Spec => []IInv
<1> QED
  BY InitIInv, StepIInv, PTL DEF Spec

\* The variables keep their ranges, for any packets and times.
THEOREM ProbeTypeCorrect == Spec => []TypeOK
<1>1. IInv => TypeOK
  BY DEF IInv
<1> QED
  BY <1>1, ProbeInvariant, PTL

\* What a returned measurement calls lost was listened for as long as it says.
THEOREM LossesAreListened == Spec => []LossListened
<1>1. ASSUME IInv PROVE LossListened
  <2> SUFFICES ASSUME pc = "returned", NEW p \in Packet \ Received
               PROVE  quiet - sentAt[p] >= Timeout
    BY DEF LossListened
  <2>1. receivedAt[p] = None /\ sentAt[p] + Timeout <= quiet
    BY <1>1 DEF IInv, Blame, Listened, Ended, Received
  <2>2. sentAt[p] \in Int /\ quiet \in Nat
    BY <1>1, ConstantFacts, TypeFacts DEF IInv, TypeOK
  <2> QED
    BY <2>1, <2>2, ConstantFacts
<1> QED
  BY <1>1, ProbeInvariant, PTL

\* A session raises when, and only when, something went wrong.
THEOREM RaisesRightly == Spec => []RaisesOnFailureOnly
<1>1. IInv => RaisesOnFailureOnly
  BY DEF IInv, Blame, RaisesOnFailureOnly
<1> QED
  BY <1>1, ProbeInvariant, PTL

\* Whatever the order of the threads, an echo is never taken for a foreign
\* datagram, nor one for an echo.
THEOREM EchoesAttributed == Spec => []Attributed
<1>1. IInv => Attributed
  BY DEF IInv
<1> QED
  BY <1>1, ProbeInvariant, PTL

\* A result that was returned is final.
THEOREM ResultsAreFinal == Spec => ResultIsFinal
<1>1. IInv /\ [Next]_vars => [pc = "returned" => UNCHANGED ledger]_vars
  <2> SUFFICES ASSUME IInv, [Next]_vars, pc = "returned" PROVE UNCHANGED ledger
    OBVIOUS
  <2>1. receiver \in {"none", "exited"}
    BY DEF IInv, Blame
  <2> QED
    BY <2>1 DEF Next, Sender, Receiver, Start, RecordSend, CheckReceiver, SendTo, SetDeadline,
       AllReceived, WaitOver, RaiseReceiverFailure, SenderFails, SetStop, Close, Join, Verdict,
       LoopHead, Receive, StopSeen, RecordEcho, RecvFails, RecordFails, Tick, vars, Running, Sending
<1> QED
  BY <1>1, ProbeInvariant, PTL DEF Spec, ResultIsFinal

-----------------------------------------------------------------------------
(***************************************************************************)
(* Every datagram is counted, and once.                                    *)
(***************************************************************************)
InHand(p) == IF held = p THEN 1 ELSE 0

\* No echo of a packet is anywhere before the packet has been handed to the
\* network, and there are never more of them than the network made.
Conserved ==
    /\ pc = "start" => receiver = "none"
    /\ receiver # "record" => held = None
    /\ \A p \in Packet : p >= seq => net[p] = 0 /\ arrived[p] = 0 /\ held # p
    /\ \A p \in Packet : net[p] + arrived[p] + InHand(p) <= Copies

LEMMA StepConserved == IInv /\ Conserved /\ [Next]_vars => Conserved'
<1> SUFFICES ASSUME IInv, Conserved, [Next]_vars PROVE Conserved'
  OBVIOUS
<1> USE ConstantFacts
<1>0. /\ net \in [Packet -> 0 .. Copies] /\ arrived \in [Packet \cup {Stray} -> Nat]
      /\ seq \in 1 .. Packets + 1
  BY DEF IInv, TypeOK
<1>a. pc' = "start" => receiver' = "none"
  BY DEF Conserved, Next, Sender, Receiver, Start, RecordSend, CheckReceiver, SendTo, SetDeadline,
     AllReceived, WaitOver, RaiseReceiverFailure, SenderFails, SetStop, Close, Join, Verdict,
     LoopHead, Receive, StopSeen, RecordEcho, RecvFails, RecordFails, Tick, vars, sender, thread
<1> USE <1>a
<1>1. CASE SendTo
  <2>1. PICK c \in 0 .. Copies : net' = [net EXCEPT ![seq] = c]
    BY <1>1 DEF SendTo
  <2>2. /\ seq' = seq + 1 /\ seq \in Packet /\ net'[seq] = c
        /\ UNCHANGED <<held, receiver, arrived>>
    BY <1>0, <1>1, <2>1 DEF SendTo, IInv, Progress, thread
  <2>3. \A p \in Packet \ {seq} : net'[p] = net[p]
    BY <1>0, <2>1
  <2>4. \A p \in Packet : p >= seq' => p >= seq /\ p # seq
    BY <1>0, <2>2
  <2>5. ASSUME NEW p \in Packet PROVE (net[p] + arrived[p] + InHand(p))' <= Copies
    <3>1. InHand(p)' = InHand(p) /\ (p = seq => InHand(p) = 0 /\ arrived[p] = 0)
      BY <2>2 DEF Conserved, InHand
    <3>2. net[p] + arrived[p] + InHand(p) <= Copies /\ c \in Nat /\ c <= Copies
      BY DEF Conserved
    <3> QED
      BY <2>2, <2>3, <3>1, <3>2
  <2>6. \A p \in Packet : p >= seq' => net'[p] = 0 /\ arrived'[p] = 0 /\ held' # p
    BY <2>2, <2>3, <2>4 DEF Conserved
  <2> QED
    BY <2>2, <2>5, <2>6 DEF Conserved
<1>2. CASE Receive
  <2>1. receiver = "recv" /\ receiver' = "record" /\ UNCHANGED <<seq, arrived>> /\ held = None
    BY <1>2 DEF Receive, sender, Conserved
  <2>2. CASE held' = Stray /\ net' = net
    BY <1>0, <2>1, <2>2 DEF Conserved, InHand
  <2>3. ASSUME NEW p \in Packet, net[p] > 0, held' = p, net' = [net EXCEPT ![p] = @ - 1]
        PROVE  Conserved'
    <3>1. net'[p] = net[p] - 1 /\ \A q \in Packet \ {p} : net'[q] = net[q]
      BY <1>0, <2>3
    <3>2. p < seq
      BY <1>0, <2>3 DEF Conserved
    <3>3. ASSUME NEW q \in Packet PROVE (net[q] + arrived[q] + InHand(q))' <= Copies
      <4>1. net[q] \in Nat /\ arrived[q] \in Nat /\ net[q] + arrived[q] + InHand(q) <= Copies
        BY <1>0 DEF Conserved
      <4>2. InHand(q) = 0 /\ InHand(q)' = (IF q = p THEN 1 ELSE 0)
        BY <2>1, <2>3 DEF InHand
      <4> QED
        BY <2>1, <3>1, <4>1, <4>2
    <3>4. \A q \in Packet : q >= seq' => net'[q] = 0 /\ arrived'[q] = 0 /\ held' # q
      BY <1>0, <2>1, <2>3, <3>1, <3>2 DEF Conserved
    <3> QED
      BY <2>1, <3>3, <3>4 DEF Conserved
  <2> QED
    BY <1>2, <2>2, <2>3 DEF Receive
<1>3. CASE RecordEcho
  <2>1. /\ receiver' = "head" /\ held' = None /\ UNCHANGED <<seq, net>>
        /\ arrived' = [arrived EXCEPT ![held] = @ + 1]
    BY <1>3 DEF RecordEcho, sender, network
  <2>2. held \in Packet \cup {Stray}
    BY <1>3 DEF RecordEcho, IInv, TypeOK, Echoes
  <2>3. arrived'[held] = arrived[held] + 1 /\ \A q \in Packet : q # held => arrived'[q] = arrived[q]
    BY <1>0, <2>1, <2>2
  <2>4. ASSUME NEW p \in Packet PROVE (net[p] + arrived[p] + InHand(p))' <= Copies
    <3>1. net[p] + arrived[p] + InHand(p) <= Copies /\ net[p] \in Nat /\ arrived[p] \in Nat
      BY <1>0 DEF Conserved
    <3>2. InHand(p) = (IF p = held THEN 1 ELSE 0) /\ InHand(p)' = 0
      BY <2>1 DEF InHand
    <3> QED
      BY <2>1, <2>3, <3>1, <3>2
  <2>5. \A p \in Packet : p >= seq' => net'[p] = 0 /\ arrived'[p] = 0 /\ held' # p
    BY <2>1, <2>3 DEF Conserved
  <2> QED
    BY <2>1, <2>4, <2>5 DEF Conserved
<1>4. CASE RecordFails
  <2>1. receiver' = "exited" /\ held' = None /\ UNCHANGED <<seq, net, arrived>>
    BY <1>4 DEF RecordFails, sender, network
  <2>2. \A p \in Packet : InHand(p)' <= InHand(p) /\ InHand(p) \in 0 .. 1 /\ InHand(p)' = 0
    BY <2>1 DEF InHand
  <2>3. \A p \in Packet : net[p] \in Nat /\ arrived[p] \in Nat
    BY <1>0
  <2>4. \A p \in Packet : (net[p] + arrived[p] + InHand(p))' <= Copies
    BY <2>1, <2>2, <2>3 DEF Conserved
  <2> QED
    BY <2>1, <2>4 DEF Conserved
<1>5. CASE ~ SendTo /\ ~ Receive /\ ~ RecordEcho /\ ~ RecordFails
  <2>1. UNCHANGED <<net, arrived, held, seq>>
    BY <1>5 DEF Next, Sender, Receiver, Start, RecordSend, CheckReceiver, SetDeadline,
       AllReceived, WaitOver, RaiseReceiverFailure, SenderFails, SetStop, Close, Join, Verdict,
       LoopHead, StopSeen, RecvFails, Tick, vars, network, sender, thread
  <2>2. receiver' # receiver => receiver # "record"
    BY <1>5 DEF Next, Sender, Receiver, Start, RecordSend, CheckReceiver, SetDeadline,
       AllReceived, WaitOver, RaiseReceiverFailure, SenderFails, SetStop, Close, Join, Verdict,
       LoopHead, StopSeen, RecvFails, Tick, vars, thread, Conserved
  <2> QED
    BY <2>1, <2>2 DEF Conserved, InHand
<1> QED
  BY <1>1, <1>2, <1>3, <1>4, <1>5

Counted == IsFiniteSet(Repeats) /\ duplicates = Cardinality(Repeats)

LEMMA InitCounted == Init => Conserved /\ Counted
<1> SUFFICES ASSUME Init PROVE Conserved /\ Counted
  OBVIOUS
<1> USE ConstantFacts
<1>1. Repeats = {}
  BY DEF Init, Repeats
<1>2. Counted
  BY <1>1, FS_EmptySet DEF Init, Counted
<1> QED
  BY <1>2 DEF Init, Conserved, InHand

LEMMA StepCounted == IInv /\ Conserved /\ Counted /\ [Next]_vars => Counted'
<1> SUFFICES ASSUME IInv, Conserved, Counted, [Next]_vars PROVE Counted'
  OBVIOUS
<1> USE ConstantFacts
<1>0. arrived \in [Packet \cup {Stray} -> Nat]
  BY DEF IInv, TypeOK
<1>1. CASE RecordEcho
  <2>1. receiver = "record" /\ arrived' = [arrived EXCEPT ![held] = @ + 1]
    BY <1>1 DEF RecordEcho
  <2>2. held \in Packet \cup {Stray}
    BY <2>1 DEF IInv, TypeOK, Echoes
  <2>3. arrived'[held] = arrived[held] + 1 /\ \A q \in Packet : q # held => arrived'[q] = arrived[q]
    BY <1>0, <2>1, <2>2
  <2>4. CASE held = Stray
    <3>1. Repeats' = Repeats
      BY <2>3, <2>4 DEF Repeats
    <3>2. duplicates' = duplicates
      BY <1>1, <2>4 DEF RecordEcho, Matches
    <3> QED
      BY <3>1, <3>2 DEF Counted
  <2>5. CASE held \in Packet /\ arrived[held] = 0
    <3>1. Repeats' = Repeats
      BY <1>0, <2>3, <2>5 DEF Repeats
    <3>2. held \notin Received /\ held \notin timedOut /\ Matches
      BY <1>1, <2>1, <2>5 DEF IInv, Attributed, Blame, Echoes, Matches, Sent, TypeOK
    <3>3. duplicates' = duplicates
      BY <1>1, <3>2 DEF RecordEcho
    <3> QED
      BY <3>1, <3>3 DEF Counted
  <2>6. CASE held \in Packet /\ arrived[held] # 0
    <3>1. held \in Received /\ Matches
      BY <1>0, <2>1, <2>6 DEF IInv, Attributed, Echoes, Matches, Sent, TypeOK
    <3>2. duplicates' = duplicates + 1
      BY <1>1, <3>1 DEF RecordEcho
    <3>3. arrived[held] + 1 \in 2 .. Copies
      <4>1. net[held] \in Nat /\ arrived[held] \in Nat
        BY <1>0, <2>6 DEF IInv, TypeOK
      <4>2. net[held] + arrived[held] + 1 <= Copies
        BY <2>6 DEF Conserved, InHand
      <4> QED
        BY <2>6, <4>1, <4>2
    <3>4. Repeats' = Repeats \cup {<<held, arrived[held] + 1>>}
      <4>1. ASSUME NEW q \in Packet, NEW k \in 2 .. Copies
            PROVE  k <= arrived'[q] <=> k <= arrived[q] \/ (q = held /\ k = arrived[held] + 1)
        <5>1. CASE q = held
          <6>1. arrived[held] \in Nat /\ k \in Int
            BY <1>0, <2>6
          <6> QED
            BY <2>3, <5>1, <6>1
        <5>2. CASE q # held
          BY <2>3, <5>2
        <5> QED
          BY <5>1, <5>2
      <4> QED
        BY <2>6, <3>3, <4>1 DEF Repeats
    <3>5. <<held, arrived[held] + 1>> \notin Repeats
      BY <1>0, <2>6 DEF Repeats
    <3> QED
      BY <3>2, <3>4, <3>5, FS_AddElement DEF Counted
  <2> QED
    BY <2>2, <2>4, <2>5, <2>6
<1>2. CASE ~ RecordEcho
  <2>1. UNCHANGED <<arrived, duplicates>>
    BY <1>2 DEF Next, Sender, Receiver, Start, RecordSend, CheckReceiver, SendTo, SetDeadline,
       AllReceived, WaitOver, RaiseReceiverFailure, SenderFails, SetStop, Close, Join, Verdict,
       LoopHead, Receive, StopSeen, RecvFails, RecordFails, Tick, vars, ledger
  <2> QED
    BY <2>1 DEF Counted, Repeats
<1> QED
  BY <1>1, <1>2

\* The ledger's counters account for every datagram that the receiver has
\* handed to it, and for each of them once.
THEOREM EverythingAccounted == Spec => []Accounted
<1>1. Conserved /\ Counted /\ IInv => Accounted
  BY DEF Counted, Accounted, IInv
<1> QED
  BY <1>1, InitCounted, StepConserved, StepCounted, ProbeInvariant, PTL DEF Spec

-----------------------------------------------------------------------------
(***************************************************************************)
(* The signalling of a WebRTC session (WebRTCSession), for any number of   *)
(* runs of the matrix and of notices of the server.                        *)
(***************************************************************************)
Does     == {"open", "create", "attach", "message", "gather", "connect", "collect"}
Asks     == {"create", "attach", "message"}
Room     == {"none", "created", "joined", "event", "attached"}
Kinds    == {"none", "ack", "error", "success", "event"}
Bodies   == {"none", "jsep", "error"}
Said     == [step : Int, kind : Kinds, sender : 0 .. 2,
             room : Room, body : Bodies]
File     == [own : BOOLEAN, status : {"none", "torn", "error", "complete"},
             connected : BOOLEAN, sound : BOOLEAN]

End      == Len(Program)
Do(n)    == Program[n].do
Whose(n) == Program[n].of
Want(n)  == Program[n].want
Waits    == {"none", "request", "resumed", "event", "connect"}
Statuses == {"running", "error", "complete"}
Page     == [at : Nat, wait : Waits, response : Said, queue : Seq(Said),
             taken : SUBSET (Nat \X Said), status : Statuses, connected : BOOLEAN]

MatrixTypes ==
    /\ matrix \in [run : Nat, state : {"idle", "running", "ok", "failed"}, cell : Cell,
                   selected : SUBSET Cell]
    /\ disk \in [Cell -> File]
SessionTypes ==
    /\ page \in Page /\ page.at \in 1 .. End
    /\ server \in [sent : SUBSET Said, wire : SUBSET Said] /\ server.wire \subseteq server.sent
    /\ peer \in [1 .. 2 -> {"new", "connected", "failed"}]

\* Between two sessions nothing of either is left.
Resting == matrix.state # "running" => page = Fresh /\ server = Nothing /\ peer = NoPeers

\* What the page waits for is what its step does; it waits for nothing when it
\* has ended.
Waiting ==
    /\ page.wait \in {"request", "resumed"} => Do(page.at) \in Asks
    /\ page.wait = "event" => Do(page.at) = "message"
    /\ page.wait = "connect" => Do(page.at) = "connect"
    /\ page.status # "running" => page.wait = "none"

\* What the server says: notices, and about the steps that have asked for it;
\* of a refusal it says no more, and of a request it sends one event.
OfStep(n) ==
    IF Do(n) = "message" THEN {Says(n, "ack"), Says(n, "error"), Right(n), Wrong(n)}
    ELSE {Says(n, "success"), Says(n, "error")}
Known(m) ==
    \/ \E k \in 1 .. MaxNotices : m = Notice(k)
    \/ m.step \in 1 .. page.at /\ Do(m.step) \in Asks /\ m \in OfStep(m.step)
Told    == \A m \in server.sent : Known(m)
Unasked == page.status = "running" /\ page.wait = "none" => \A m \in server.sent : m.step # page.at
Single  == \A m, r \in server.sent : m.step = r.step /\ m.step > 0 =>
               /\ m.kind = "error" => m = r
               /\ m.sender # 0 /\ r.sender # 0 => m = r

\* What has arrived about the present step: nothing while its request waits,
\* then what has resolved the request, and only acknowledgements while it waits
\* for an event.
Arrived  == server.sent \ server.wire
Awaited  == page.wait = "request" => \A m \in Arrived : m.step # page.at
Resolved == page.wait = "resumed" =>
    /\ page.response \in Arrived /\ page.response.step = page.at /\ page.response.kind # "error"
    /\ \A m \in Arrived : m.step = page.at => m = page.response
    /\ page.response.sender # 0 => \E i \in 1 .. Len(page.queue) : page.queue[i] = page.response
Acknowledged == page.wait = "event" =>
    /\ \A m \in Arrived : m.step = page.at => m.kind = "ack"
    /\ \E m \in Arrived : m.step = page.at
Queued   == \A i \in 1 .. Len(page.queue) : page.queue[i] \in Arrived

\* Every message so far has taken an answer to itself, which is an error only
\* where an error event passes for the answer.
TakenAll == \A n \in 1 .. End :
    Do(n) = "message" /\ n < page.at <=> \E a \in page.taken : a[1] = n
TakenOwn == \A a \in page.taken :
    /\ a[1] \in 1 .. End /\ a[2].step = a[1] /\ a[2] \in server.sent /\ a[2].sender # 0
    /\ a[2].body = "error" => Want(a[1]) = "event"

\* A peer that has been connected was accepted in the last message about it.
Final(n, p) ==
    /\ Do(n) = "message" /\ Whose(n) = p
    /\ \A k \in n + 1 .. End : Do(k) = "message" => Whose(k) # p
Accepted  == \A p \in 1 .. 2 : peer[p] = "connected" =>
                 \E n \in 1 .. End : Final(n, p) /\ Right(n) \in server.sent
Connected == page.connected = TRUE => page.status = "complete" /\ Sound

\* The records of the matrix so far.
Recorded ==
    /\ \A c \in Cell : Validates(disk[c]) => disk[c].sound
    /\ \A c \in matrix.selected :
          matrix.state = "ok" \/ (matrix.state = "running" /\ c < matrix.cell) =>
             disk[c].own /\ disk[c].status = "complete"

PageFacts ==
    /\ Waiting /\ Unasked /\ Awaited /\ Resolved /\ Acknowledged /\ Queued
    /\ TakenAll /\ TakenOwn /\ Connected
SessionFacts == SessionTypes /\ Told /\ Single /\ Accepted /\ PageFacts
SessionIInv == MatrixTypes /\ Resting /\ Recorded /\ SessionFacts

-----------------------------------------------------------------------------
(***************************************************************************)
(* The steps of the programs.                                              *)
(***************************************************************************)
LEMMA EchoSteps ==
  /\ Len(RunEcho) = 7
  /\ RunEcho[1] = Step("open", 1) /\ RunEcho[2] = Step("create", 1)
  /\ RunEcho[3] = Step("attach", 1) /\ RunEcho[4] = Step("gather", 1)
  /\ RunEcho[5] = Message(1, "jsep") /\ RunEcho[6] = Step("connect", 1)
  /\ RunEcho[7] = Step("collect", 1)
<1>1. ASSUME NEW a, NEW b, NEW c, NEW d, NEW e, NEW f, NEW g
      PROVE  LET s == <<a>> \o <<b, c>> \o <<d, e, f, g>>
             IN  /\ Len(s) = 7 /\ s[1] = a /\ s[2] = b /\ s[3] = c /\ s[4] = d /\ s[5] = e
                 /\ s[6] = f /\ s[7] = g
  OBVIOUS
<1> QED
  BY <1>1 DEF RunEcho, CreateHandle

LEMMA SfuSteps ==
  /\ Len(RunSfu) = 15
  /\ RunSfu[1] = Step("open", 1) /\ RunSfu[2] = Step("create", 1)
  /\ RunSfu[3] = Step("attach", 1) /\ RunSfu[4] = Message(1, "created")
  /\ RunSfu[5] = Message(1, "joined") /\ RunSfu[6] = Step("gather", 1)
  /\ RunSfu[7] = Message(1, "jsep") /\ RunSfu[8] = Step("connect", 1)
  /\ RunSfu[9] = Step("create", 2) /\ RunSfu[10] = Step("attach", 2)
  /\ RunSfu[11] = Message(2, "jsep") /\ RunSfu[12] = Step("gather", 2)
  /\ RunSfu[13] = Message(2, "event") /\ RunSfu[14] = Step("connect", 2)
  /\ RunSfu[15] = Step("collect", 2)
<1>1. ASSUME NEW a1, NEW a2, NEW a3, NEW a4, NEW a5, NEW a6, NEW a7, NEW a8, NEW a9,
             NEW a10, NEW a11, NEW a12, NEW a13, NEW a14, NEW a15
      PROVE  LET s == <<a1>> \o <<a2, a3>> \o <<a4, a5, a6, a7, a8>> \o <<a9, a10>> \o
                      <<a11, a12, a13, a14, a15>>
             IN  /\ Len(s) = 15 /\ s[1] = a1 /\ s[2] = a2 /\ s[3] = a3 /\ s[4] = a4 /\ s[5] = a5
                 /\ s[6] = a6 /\ s[7] = a7 /\ s[8] = a8 /\ s[9] = a9 /\ s[10] = a10
                 /\ s[11] = a11 /\ s[12] = a12 /\ s[13] = a13 /\ s[14] = a14 /\ s[15] = a15
  OBVIOUS
<1> QED
  BY <1>1 DEF RunSfu, CreateHandle

LEMMA Programs ==
  ASSUME matrix.cell \in Cell
  PROVE  Program = RunEcho \/ Program = RunSfu
BY DEF Cell, Program

LEMMA EchoFields ==
  ASSUME NEW n \in 1 .. 7
  PROVE  /\ RunEcho[n].do \in Does /\ RunEcho[n].of = 1
         /\ RunEcho[n].do = "collect" <=> n = 7
         /\ RunEcho[n].do = "message" <=> n = 5
         /\ RunEcho[n].want = IF n = 5 THEN "jsep" ELSE "none"
<1>1. CASE n = 1
  <2>1. RunEcho[1] = Step("open", 1)
    BY EchoSteps
  <2> QED
    BY <2>1, <1>1 DEF Does, Step
<1>2. CASE n = 2
  <2>1. RunEcho[2] = Step("create", 1)
    BY EchoSteps
  <2> QED
    BY <2>1, <1>2 DEF Does, Step
<1>3. CASE n = 3
  <2>1. RunEcho[3] = Step("attach", 1)
    BY EchoSteps
  <2> QED
    BY <2>1, <1>3 DEF Does, Step
<1>4. CASE n = 4
  <2>1. RunEcho[4] = Step("gather", 1)
    BY EchoSteps
  <2> QED
    BY <2>1, <1>4 DEF Does, Step
<1>5. CASE n = 5
  <2>1. RunEcho[5] = Message(1, "jsep")
    BY EchoSteps
  <2> QED
    BY <2>1, <1>5 DEF Does, Message
<1>6. CASE n = 6
  <2>1. RunEcho[6] = Step("connect", 1)
    BY EchoSteps
  <2> QED
    BY <2>1, <1>6 DEF Does, Step
<1>7. CASE n = 7
  <2>1. RunEcho[7] = Step("collect", 1)
    BY EchoSteps
  <2> QED
    BY <2>1, <1>7 DEF Does, Step
<1> QED
  BY <1>1, <1>2, <1>3, <1>4, <1>5, <1>6, <1>7

LEMMA SfuFields ==
  ASSUME NEW n \in 1 .. 15
  PROVE  /\ RunSfu[n].do \in Does /\ RunSfu[n].of = IF n <= 8 THEN 1 ELSE 2
         /\ RunSfu[n].do = "collect" <=> n = 15
         /\ RunSfu[n].do = "message" <=> n \in {4, 5, 7, 11, 13}
         /\ RunSfu[n].want = IF n = 4 THEN "created" ELSE IF n = 5 THEN "joined" ELSE
                             IF n = 7 \/ n = 11 THEN "jsep" ELSE IF n = 13 THEN "event" ELSE "none"
<1>1. CASE n = 1
  <2>1. RunSfu[1] = Step("open", 1)
    BY SfuSteps
  <2> QED
    BY <2>1, <1>1 DEF Does, Step
<1>2. CASE n = 2
  <2>1. RunSfu[2] = Step("create", 1)
    BY SfuSteps
  <2> QED
    BY <2>1, <1>2 DEF Does, Step
<1>3. CASE n = 3
  <2>1. RunSfu[3] = Step("attach", 1)
    BY SfuSteps
  <2> QED
    BY <2>1, <1>3 DEF Does, Step
<1>4. CASE n = 4
  <2>1. RunSfu[4] = Message(1, "created")
    BY SfuSteps
  <2> QED
    BY <2>1, <1>4 DEF Does, Message
<1>5. CASE n = 5
  <2>1. RunSfu[5] = Message(1, "joined")
    BY SfuSteps
  <2> QED
    BY <2>1, <1>5 DEF Does, Message
<1>6. CASE n = 6
  <2>1. RunSfu[6] = Step("gather", 1)
    BY SfuSteps
  <2> QED
    BY <2>1, <1>6 DEF Does, Step
<1>7. CASE n = 7
  <2>1. RunSfu[7] = Message(1, "jsep")
    BY SfuSteps
  <2> QED
    BY <2>1, <1>7 DEF Does, Message
<1>8. CASE n = 8
  <2>1. RunSfu[8] = Step("connect", 1)
    BY SfuSteps
  <2> QED
    BY <2>1, <1>8 DEF Does, Step
<1>9. CASE n = 9
  <2>1. RunSfu[9] = Step("create", 2)
    BY SfuSteps
  <2> QED
    BY <2>1, <1>9 DEF Does, Step
<1>10. CASE n = 10
  <2>1. RunSfu[10] = Step("attach", 2)
    BY SfuSteps
  <2> QED
    BY <2>1, <1>10 DEF Does, Step
<1>11. CASE n = 11
  <2>1. RunSfu[11] = Message(2, "jsep")
    BY SfuSteps
  <2> QED
    BY <2>1, <1>11 DEF Does, Message
<1>12. CASE n = 12
  <2>1. RunSfu[12] = Step("gather", 2)
    BY SfuSteps
  <2> QED
    BY <2>1, <1>12 DEF Does, Step
<1>13. CASE n = 13
  <2>1. RunSfu[13] = Message(2, "event")
    BY SfuSteps
  <2> QED
    BY <2>1, <1>13 DEF Does, Message
<1>14. CASE n = 14
  <2>1. RunSfu[14] = Step("connect", 2)
    BY SfuSteps
  <2> QED
    BY <2>1, <1>14 DEF Does, Step
<1>15. CASE n = 15
  <2>1. RunSfu[15] = Step("collect", 2)
    BY SfuSteps
  <2> QED
    BY <2>1, <1>15 DEF Does, Step
<1> QED
  BY <1>1, <1>2, <1>3, <1>4, <1>5, <1>6, <1>7, <1>8, <1>9, <1>10, <1>11, <1>12, <1>13, <1>14, <1>15

\* The last step of a program collects; the messages to a handle want different
\* answers; an event is wanted of the second handle alone, and of its last
\* message; each peer of a program has messages about it, and a last one.
StepsKnown(e) == \A n \in 1 .. e :
    /\ Do(n) \in Does /\ Whose(n) \in 1 .. 2 /\ Whose(n) <= Whose(e)
    /\ Do(n) = "collect" <=> n = e
    /\ Do(n) = "message" => Want(n) \in {"created", "joined", "jsep", "event"}
    /\ Want(n) = "event" => Do(n) = "message" /\ Whose(n) = 2
AnswersDiffer(e) == \A n, k \in 1 .. e :
    /\ Do(n) = "message" /\ Do(k) = "message"
    /\ Whose(n) = Whose(k) /\ Want(n) = Want(k)
    => n = k
EventIsLast(e) == \A n, k \in 1 .. e :
    Want(n) = "event" /\ Do(k) = "message" /\ Whose(k) = Whose(n) => k <= n
HasFinal(e) == \A p \in 1 .. Whose(e) : \E n \in 1 .. e :
    /\ Do(n) = "message" /\ Whose(n) = p
    /\ \A k \in n + 1 .. e : Do(k) = "message" => Whose(k) # p

LEMMA ProgramFacts ==
  ASSUME matrix.cell \in Cell
  PROVE  /\ End \in Nat /\ End >= 1
         /\ StepsKnown(End) /\ AnswersDiffer(End) /\ EventIsLast(End) /\ HasFinal(End)
<1>1. CASE Program = RunEcho
  <2>1. End = 7
    BY <1>1, EchoSteps DEF End
  <2>2. \A n \in 1 .. 7 :
           /\ Do(n) \in Does /\ Whose(n) = 1
           /\ Do(n) = "collect" <=> n = 7
           /\ Do(n) = "message" <=> n = 5
           /\ Want(n) = IF n = 5 THEN "jsep" ELSE "none"
    BY <1>1, EchoFields DEF Do, Whose, Want
  <2>3. \A k \in 5 + 1 .. 7 : Do(k) # "message"
    BY <2>2
  <2>4. StepsKnown(7)
    BY <2>2 DEF StepsKnown
  <2>5. AnswersDiffer(7) /\ EventIsLast(7)
    BY <2>2 DEF AnswersDiffer, EventIsLast
  <2>6. Do(5) = "message" /\ Whose(5) = 1 /\ Whose(7) = 1
    BY <2>2
  <2>7. HasFinal(7)
    BY <2>3, <2>6 DEF HasFinal
  <2> QED
    BY <2>1, <2>4, <2>5, <2>7
<1>2. CASE Program = RunSfu
  <2>1. End = 15
    BY <1>2, SfuSteps DEF End
  <2>2. \A n \in 1 .. 15 :
           /\ Do(n) \in Does /\ Whose(n) \in 1 .. 2
           /\ Do(n) = "collect" <=> n = 15
           /\ Do(n) = "message" <=> n \in {4, 5, 7, 11, 13}
           /\ Want(n) = IF n = 4 THEN "created" ELSE IF n = 5 THEN "joined" ELSE
                               IF n = 7 \/ n = 11 THEN "jsep" ELSE IF n = 13 THEN "event" ELSE "none"
           /\ n \in {4, 5, 7} => Whose(n) = 1
           /\ n \in {11, 13, 15} => Whose(n) = 2
    BY <1>2, SfuFields DEF Do, Whose, Want
  <2>3. AnswersDiffer(15)
    BY <2>2 DEF AnswersDiffer
  <2>4. EventIsLast(15)
    BY <2>2 DEF EventIsLast
  <2>5. /\ Do(7) = "message" /\ Whose(7) = 1
        /\ \A k \in 7 + 1 .. 15 : Do(k) = "message" => Whose(k) # 1
    BY <2>2
  <2>6. /\ Do(13) = "message" /\ Whose(13) = 2
        /\ \A k \in 13 + 1 .. 15 : Do(k) = "message" => Whose(k) # 2
    BY <2>2
  <2>9. Whose(15) = 2
    BY <2>2
  <2>7. HasFinal(15)
    BY <2>9, <2>5, <2>6 DEF HasFinal
  <2>8. StepsKnown(15)
    BY <2>9, <2>2 DEF StepsKnown
  <2> QED
    BY <2>1, <2>3, <2>4, <2>7, <2>8
<1> QED
  BY <1>1, <1>2, Programs

-----------------------------------------------------------------------------
(***************************************************************************)
(* Messages.                                                               *)
(***************************************************************************)
LEMMA BodyExcept ==
  ASSUME NEW m \in Said, NEW b \in Bodies
  PROVE  LET q == [m EXCEPT !.body = b]
         IN  /\ q \in Said /\ q.step = m.step /\ q.kind = m.kind /\ q.sender = m.sender
             /\ q.room = m.room /\ q.body = b
BY DEF Said

LEMMA SaysFacts ==
  ASSUME NEW n \in Int, NEW kind \in Kinds
  PROVE  /\ Says(n, kind) \in Said /\ Says(n, kind).step = n /\ Says(n, kind).kind = kind
         /\ Says(n, kind).sender = 0 /\ Says(n, kind).room = "none"
         /\ Says(n, kind).body = "none"
BY DEF Says, Said, Room, Kinds, Bodies

LEMMA NoticeFacts ==
  ASSUME NEW k \in 1 .. MaxNotices
  PROVE  /\ Notice(k) \in Said /\ Notice(k).step = -k /\ Notice(k).kind = "event"
         /\ Notice(k).sender = 1 /\ Notice(k).room = "event"
         /\ Notice(k).body = "none"
<1> DEFINE m == Says(-k, "event")  s == 1  room == "event"
<1>1. m \in Said /\ m.step = -k /\ m.kind = "event" /\ m.body = "none"
  <2>1. -k \in Int /\ "event" \in Kinds
    BY DEF Kinds
  <2> QED
    BY <2>1, SaysFacts
<1>2. s \in 0 .. 2 /\ room \in Room
  BY DEF Room
<1>3. Notice(k) = [m EXCEPT !.sender = s, !.room = room]
  BY DEF Notice
<1> HIDE DEF m, s, room
<1>4. LET q == [m EXCEPT !.sender = s, !.room = room]
      IN  /\ q \in Said /\ q.step = -k /\ q.kind = "event" /\ q.sender = s
          /\ q.room = room /\ q.body = "none"
  BY <1>1, <1>2 DEF Said
<1> QED
  BY <1>3, <1>4 DEF s, room

LEMMA PluginFacts ==
  ASSUME matrix.cell \in Cell, NEW n \in 1 .. End, NEW kind \in Kinds, NEW room \in Room
  PROVE  /\ Plugin(n, kind, room) \in Said /\ Plugin(n, kind, room).step = n
         /\ Plugin(n, kind, room).kind = kind /\ Plugin(n, kind, room).sender = Whose(n)
         /\ Plugin(n, kind, room).room = room /\ Plugin(n, kind, room).body = "none"
<1> DEFINE m == Says(n, kind)  s == Whose(n)
<1>1. s \in 0 .. 2 /\ n \in Int
  BY ProgramFacts DEF StepsKnown
<1>2. m \in Said /\ m.step = n /\ m.kind = kind /\ m.body = "none"
  BY <1>1, SaysFacts
<1>3. Plugin(n, kind, room) = [m EXCEPT !.sender = s, !.room = room]
  BY DEF Plugin, Whose
<1> HIDE DEF m, s
<1>4. LET q == [m EXCEPT !.sender = s, !.room = room]
      IN  /\ q \in Said /\ q.step = n /\ q.kind = kind /\ q.sender = s
          /\ q.room = room /\ q.body = "none"
  BY <1>1, <1>2 DEF Said
<1> QED
  BY <1>3, <1>4 DEF s

LEMMA RightFacts ==
  ASSUME matrix.cell \in Cell, NEW n \in 1 .. End, Do(n) = "message"
  PROVE  /\ Right(n) \in Said /\ Right(n).step = n /\ Right(n).kind \in {"success", "event"}
         /\ Right(n).sender = Whose(n) /\ Right(n).body # "error"
         /\ Want(n) = "jsep" =>
               /\ Right(n).body = "jsep"
               /\ Right(n).room = IF Whose(n) = 1 THEN "event" ELSE "attached"
         /\ Want(n) # "jsep" => Right(n).body = "none" /\ Right(n).room = Want(n)
<1> DEFINE want == Want(n)
<1>1. Whose(n) \in 1 .. 2 /\ want \in {"created", "joined", "jsep", "event"}
  BY ProgramFacts DEF StepsKnown
<1>2. CASE want = "jsep"
  <2> DEFINE room == IF Whose(n) = 1 THEN "event" ELSE "attached"
             kind == "event"
             body == "jsep"
             m    == Plugin(n, kind, room)
  <2>1. <<"event", "attached">>[Program[n].of] = room
    BY <1>1 DEF Whose
  <2>2. Right(n) = [m EXCEPT !.body = body]
    BY <1>2, <2>1 DEF Right, Want
  <2>3. room \in Room /\ kind \in Kinds /\ body \in Bodies
    BY DEF Room, Kinds, Bodies
  <2> HIDE DEF room, kind, body
  <2>4. m \in Said /\ m.step = n /\ m.kind = kind /\ m.sender = Whose(n) /\ m.room = room
    BY <2>3, PluginFacts
  <2> HIDE DEF m
  <2>5. /\ Right(n) \in Said /\ Right(n).step = n /\ Right(n).kind = kind
        /\ Right(n).sender = Whose(n) /\ Right(n).body = body /\ Right(n).room = room
    BY <2>2, <2>3, <2>4, BodyExcept
  <2> QED
    BY <2>5, <1>2 DEF room, kind, body
<1>3. CASE want # "jsep"
  <2> DEFINE kind == IF want = "created" THEN "success" ELSE "event"
  <2>1. want \in Room /\ kind \in {"success", "event"} /\ kind \in Kinds
    BY <1>1, <1>3 DEF Room, Kinds
  <2>2. Right(n) = Plugin(n, kind, want)
    <3>1. CASE want = "created"
      BY <3>1 DEF Right, Want
    <3>2. CASE want # "created"
      BY <3>2, <1>3 DEF Right, Want
    <3> QED
      BY <3>1, <3>2
  <2> HIDE DEF kind, want
  <2>3. /\ Right(n) \in Said /\ Right(n).step = n /\ Right(n).kind = kind
        /\ Right(n).sender = Whose(n) /\ Right(n).body = "none" /\ Right(n).room = want
    BY <2>1, <2>2, PluginFacts
  <2> QED
    BY <2>1, <2>3, <1>3 DEF want
<1> QED
  BY <1>2, <1>3

LEMMA WrongFacts ==
  ASSUME matrix.cell \in Cell, NEW n \in 1 .. End, Do(n) = "message"
  PROVE  /\ Wrong(n) \in Said /\ Wrong(n).step = n /\ Wrong(n).kind \in {"success", "event"}
         /\ Wrong(n).sender = Whose(n) /\ Wrong(n).body = "error" /\ Wrong(n).room = "event"
<1> DEFINE kind == Right(n).kind  room == "event"  body == "error"  m == Plugin(n, kind, room)
<1>1. kind \in {"success", "event"} /\ kind \in Kinds /\ room \in Room /\ body \in Bodies
  BY RightFacts DEF Room, Kinds, Bodies
<1>2. Wrong(n) = [m EXCEPT !.body = body]
  BY DEF Wrong
<1> HIDE DEF kind, room, body
<1>3. m \in Said /\ m.step = n /\ m.kind = kind /\ m.sender = Whose(n) /\ m.room = room
  BY <1>1, PluginFacts
<1> HIDE DEF m
<1>4. /\ Wrong(n) \in Said /\ Wrong(n).step = n /\ Wrong(n).kind = kind
      /\ Wrong(n).sender = Whose(n) /\ Wrong(n).body = body /\ Wrong(n).room = room
  BY <1>1, <1>2, <1>3, BodyExcept
<1> QED
  BY <1>1, <1>4 DEF room, body

\* Whatever a plugin says about a step is right or wrong for it.
LEMMA KnownFacts ==
  ASSUME matrix.cell \in Cell, SessionTypes, NEW m, Known(m)
  PROVE  /\ m.step \in Int /\ m.step <= page.at
         /\ m.step > 0 \/ \E k \in 1 .. MaxNotices : m = Notice(k)
         /\ m.sender # 0 /\ m.step > 0 =>
               /\ m.step \in 1 .. End /\ Do(m.step) = "message"
               /\ m = Right(m.step) \/ m = Wrong(m.step)
         /\ m.sender = 0 => m.step > 0 /\ m.kind \in {"ack", "error", "success"}
         /\ m.sender = 0 /\ Do(m.step) = "message" => m.kind \in {"ack", "error"}
<1>0. page.at \in 1 .. End /\ End \in Nat
  BY ProgramFacts DEF SessionTypes
<1>1. CASE \E k \in 1 .. MaxNotices : m = Notice(k)
  <2>1. PICK k \in 1 .. MaxNotices : m = Notice(k)
    BY <1>1
  <2>2. m.step = -k /\ m.sender = 1
    BY <2>1, NoticeFacts
  <2> QED
    BY <1>0, <1>1, <2>2
<1>2. CASE m.step \in 1 .. page.at /\ Do(m.step) \in Asks /\ m \in OfStep(m.step)
  <2> DEFINE n == m.step
  <2>1. n \in 1 .. End /\ n \in Int /\ {"ack", "error", "success"} \subseteq Kinds
    BY <1>0, <1>2 DEF Kinds
  <2>4. /\ Says(n, "ack").sender = 0 /\ Says(n, "ack").kind = "ack"
        /\ Says(n, "error").sender = 0 /\ Says(n, "error").kind = "error"
        /\ Says(n, "success").sender = 0 /\ Says(n, "success").kind = "success"
    BY <2>1, SaysFacts
  <2>2. CASE Do(m.step) = "message"
    <3>1. m \in {Says(m.step, "ack"), Says(m.step, "error"), Right(m.step), Wrong(m.step)}
      BY <1>2, <2>2 DEF OfStep
    <3>2. m \in {Says(m.step, "ack"), Says(m.step, "error")} =>
             m.sender = 0 /\ m.kind \in {"ack", "error"}
      BY <2>4
    <3>3. Whose(m.step) # 0
      BY <2>1, ProgramFacts DEF StepsKnown
    <3>4. Right(m.step).sender # 0 /\ Wrong(m.step).sender # 0
      BY <2>1, <2>2, <3>3, RightFacts, WrongFacts
    <3> QED
      BY <1>0, <1>2, <2>1, <2>2, <3>1, <3>2, <3>4
  <2>3. CASE Do(m.step) # "message"
    <3>1. m \in {Says(m.step, "success"), Says(m.step, "error")}
      BY <1>2, <2>3 DEF OfStep
    <3>2. m.sender = 0 /\ m.kind \in {"success", "error"}
      BY <3>1, <2>4
    <3> QED
      BY <1>0, <1>2, <2>1, <2>3, <3>2
  <2> QED
    BY <2>2, <2>3
<1> QED
  BY <1>1, <1>2 DEF Known

LEMMA Same ==
  ASSUME matrix' = matrix
  PROVE  /\ End' = End
         /\ \A n : Do(n)' = Do(n) /\ Whose(n)' = Whose(n) /\ Want(n)' = Want(n)
         /\ \A n : Right(n)' = Right(n) /\ Wrong(n)' = Wrong(n) /\ OfStep(n)' = OfStep(n)
<1>1. Program' = Program /\ End' = End
  BY DEF Program, End
<1>2. \A n : Right(n)' = Right(n)
  BY <1>1 DEF Right, Plugin, Says
<1>3. \A n : Wrong(n)' = Wrong(n)
  BY <1>1, <1>2 DEF Wrong, Plugin, Says
<1>4. \A n : Do(n)' = Do(n) /\ Whose(n)' = Whose(n) /\ Want(n)' = Want(n)
  BY <1>1 DEF Do, Whose, Want
<1> QED
  BY <1>1, <1>2, <1>3, <1>4 DEF OfStep, Says

\* No message but an answer to the present step passes for one, and an error
\* passes for a response only where an error event is taken for the answer.
LEMMA OwnAnswer ==
  ASSUME matrix.cell \in Cell, SessionTypes, Told, Single, TakenAll, TakenOwn,
         Do(page.at) = "message", NEW m \in server.sent, Event(Now, m)
  PROVE  /\ m.step = page.at /\ m.sender # 0
         /\ m.body = "error" /\ Predicate(Now, m) => Want(page.at) = "event"
<1> DEFINE at == page.at  want == Want(at)
<1>1. /\ at \in 1 .. End /\ End \in Nat /\ Whose(at) \in 1 .. 2
      /\ want \in {"created", "joined", "jsep", "event"} /\ (want = "event" => Whose(at) = 2)
  BY ProgramFacts DEF SessionTypes, StepsKnown
<1>2. m.sender = Whose(at) /\ (Predicate(Now, m) \/ m.body = "error")
  BY DEF Event, IsPluginEvent, Now, Whose
<1>3. Predicate(Now, m) <=> IF want = "jsep" THEN m.body = "jsep"
                            ELSE m.room = want \/ (want = "event" /\ m.room = "started")
  BY DEF Predicate, Now, Want
<1>4. Known(m) /\ m.sender # 0
  BY <1>1, <1>2 DEF Told
<1>5. m.step > 0
  <2> SUFFICES ASSUME NEW k \in 1 .. MaxNotices, m = Notice(k)
               PROVE  FALSE
    BY <1>4, KnownFacts
  <2>1. m.sender = 1 /\ m.room = "event" /\ m.body = "none"
    BY NoticeFacts
  <2> QED
    BY <2>1, <1>1, <1>2, <1>3
<1> DEFINE n == m.step
<1>6. n \in 1 .. End /\ n <= at /\ Do(n) = "message" /\ (m = Right(n) \/ m = Wrong(n))
  BY <1>4, <1>5, KnownFacts
<1>7. Whose(n) \in 1 .. 2 /\ (Want(n) = "event" => Whose(n) = 2)
      /\ Want(n) \in {"created", "joined", "jsep", "event"}
  BY <1>6, ProgramFacts DEF StepsKnown
<1> HIDE DEF n, at, want
<1>8. CASE m = Right(n)
  <2>1. /\ m.sender = Whose(n) /\ m.body # "error"
        /\ Want(n) = "jsep" =>
              m.body = "jsep" /\ m.room = IF Whose(n) = 1 THEN "event" ELSE "attached"
        /\ Want(n) # "jsep" => m.body = "none" /\ m.room = Want(n)
    BY <1>6, <1>8, RightFacts
  <2>2. Whose(n) = Whose(at) /\ Want(n) = want
    BY <2>1, <1>1, <1>2, <1>3, <1>7
  <2>3. n = at
    BY <2>2, <1>1, <1>6, ProgramFacts DEF AnswersDiffer, want, at
  <2> QED
    BY <2>1, <2>3, <1>4 DEF n, at, want
<1>9. CASE m = Wrong(n)
  <2>1. m.sender = Whose(n) /\ m.body = "error" /\ m.room = "event"
    BY <1>6, <1>9, WrongFacts
  <2>2. ASSUME n # at  PROVE  FALSE
    <3>1. n < at
      BY <2>2, <1>1, <1>6
    <3>2. PICK a \in page.taken : a[1] = n
      BY <3>1, <1>6 DEF TakenAll, at
    <3>3. /\ a[2].step = n /\ a[2] \in server.sent /\ a[2].sender # 0
          /\ a[2].body = "error" => Want(n) = "event"
      BY <3>2 DEF TakenOwn
    <3>4. a[2] = m
      BY <3>3, <1>4, <1>5 DEF Single, n
    <3>5. Want(n) = "event"
      BY <3>3, <3>4, <2>1
    <3>6. Do(at) = "message" /\ Whose(at) = Whose(n)
      BY <2>1, <1>2 DEF at
    <3>7. EventIsLast(End)
      BY ProgramFacts
    <3>8. at <= n
      BY <3>5, <3>6, <3>7, <1>1, <1>6 DEF EventIsLast
    <3> QED
      BY <3>1, <3>8, <1>1, <1>6
  <2>3. m.room = want => want = "event"
    BY <2>1, <1>1
  <2> QED
    BY <2>1, <2>2, <2>3, <1>1, <1>3, <1>4 DEF n, at, want
<1> QED
  BY <1>6, <1>8, <1>9

\* The event about the present step, right or wrong, is taken for its answer.
LEMMA OwnFits ==
  ASSUME matrix.cell \in Cell, SessionTypes, Told, Do(page.at) = "message",
         NEW m \in server.sent, m.step = page.at
  PROVE  /\ m.sender = 0 => m.kind \in {"ack", "error"}
         /\ m.sender # 0 => Event(Now, m)
<1> DEFINE at == page.at  want == Want(at)
<1>1. /\ at \in 1 .. End /\ at > 0 /\ Do(at) = "message"
      /\ want \in {"created", "joined", "jsep", "event"}
  BY ProgramFacts DEF SessionTypes, StepsKnown
<1>2. /\ m.sender = 0 => m.kind \in {"ack", "error"}
      /\ m.sender # 0 => m = Right(at) \/ m = Wrong(at)
  <2>1. Known(m)
    BY DEF Told
  <2> QED
    BY <1>1, <2>1, KnownFacts
<1>3. Event(Now, m) <=> /\ m.sender = Whose(at) /\ m.kind \in {"event", "success"}
                        /\ Predicate(Now, m) \/ m.body = "error"
  BY DEF Event, IsPluginEvent, Now, Whose
<1>4. Predicate(Now, m) <=> IF want = "jsep" THEN m.body = "jsep"
                            ELSE m.room = want \/ (want = "event" /\ m.room = "started")
  BY DEF Predicate, Now, Want
<1> HIDE DEF at, want
<1>5. m = Right(at) => /\ m.sender = Whose(at) /\ m.kind \in {"event", "success"}
                       /\ want = "jsep" => m.body = "jsep"
                       /\ want # "jsep" => m.room = want
  BY <1>1, RightFacts DEF want
<1>6. m = Wrong(at) => m.sender = Whose(at) /\ m.kind \in {"event", "success"} /\ m.body = "error"
  BY <1>1, WrongFacts
<1> QED
  BY <1>2, <1>3, <1>4, <1>5, <1>6

-----------------------------------------------------------------------------
(***************************************************************************)
(* How the parts of the invariant are kept.                                *)
(***************************************************************************)
LEMMA AdvanceFacts ==
  ASSUME NEW g \in Page
  PROVE  LET h == Advance(g)
         IN  /\ h \in Page /\ h.at = g.at + 1 /\ h.wait = "none" /\ h.queue = g.queue
             /\ h.taken = g.taken /\ h.status = g.status /\ h.connected = g.connected
<1> DEFINE none == "none"  nothing == Says(0, none)  next == g.at + 1
           h == [g EXCEPT !.at = next, !.wait = none, !.response = nothing]
<1>1. none \in Waits /\ nothing \in Said /\ next \in Nat
  BY SaysFacts DEF Waits, Kinds, Page
<1>2. Advance(g) = h
  BY DEF Advance
<1> HIDE DEF none, nothing, next
<1>3. /\ h \in Page /\ h.at = next /\ h.wait = none /\ h.queue = g.queue
      /\ h.taken = g.taken /\ h.status = g.status /\ h.connected = g.connected
  BY <1>1 DEF Page
<1> QED
  BY <1>2, <1>3 DEF none, next

LEMMA RaiseFacts ==
  ASSUME NEW g \in Page
  PROVE  LET h == Raise(g)
         IN  /\ h \in Page /\ h.at = g.at /\ h.wait = "none" /\ h.queue = << >>
             /\ h.taken = g.taken /\ h.status = "error" /\ h.connected = g.connected
<1> DEFINE none == "none"  broken == "error"  q == << >>
           h == [g EXCEPT !.status = broken, !.wait = none, !.queue = q]
<1>1. none \in Waits /\ broken \in Statuses /\ q \in Seq(Said)
  BY DEF Waits, Statuses
<1>2. Raise(g) = h
  BY DEF Raise
<1> HIDE DEF none, broken, q
<1>3. /\ h \in Page /\ h.at = g.at /\ h.wait = none /\ h.queue = q
      /\ h.taken = g.taken /\ h.status = broken /\ h.connected = g.connected
  BY <1>1 DEF Page
<1> QED
  BY <1>2, <1>3 DEF none, broken, q

LEMMA TakeFacts ==
  ASSUME NEW g \in Page, NEW m \in Said
  PROVE  LET h == Take(g, m)
         IN  /\ h \in Page /\ h.at = g.at + 1 /\ h.wait = "none" /\ h.queue = g.queue
             /\ h.taken = g.taken \cup {<<g.at, m>>} /\ h.status = g.status
             /\ h.connected = g.connected
<1> DEFINE t == g.taken \cup {<<g.at, m>>}  h == [g EXCEPT !.taken = t]
<1>1. t \in SUBSET (Nat \X Said)
  BY DEF Page
<1>2. Take(g, m) = Advance(h)
  BY DEF Take
<1> HIDE DEF t
<1>3. /\ h \in Page /\ h.at = g.at /\ h.queue = g.queue /\ h.taken = t /\ h.status = g.status
      /\ h.connected = g.connected
  BY <1>1 DEF Page
<1> HIDE DEF h
<1> QED
  BY <1>2, <1>3, AdvanceFacts DEF t

LEMMA WaitFacts ==
  ASSUME NEW g \in Page, NEW w \in Waits
  PROVE  LET h == [g EXCEPT !.wait = w]
         IN  /\ h \in Page /\ h.at = g.at /\ h.wait = w /\ h.queue = g.queue /\ h.taken = g.taken
             /\ h.status = g.status /\ h.connected = g.connected
BY DEF Page

LEMMA KnownKept ==
  ASSUME SessionTypes, matrix' = matrix, page'.at \in Nat, page'.at >= page.at, NEW m, Known(m)
  PROVE  Known(m)'
<1>1. CASE \E k \in 1 .. MaxNotices : m = Notice(k)
  BY <1>1 DEF Known, Notice, Says
<1>2. CASE m.step \in 1 .. page.at /\ Do(m.step) \in Asks /\ m \in OfStep(m.step)
  <2>1. m.step \in 1 .. page'.at
    BY <1>2 DEF SessionTypes, Page
  <2> QED
    BY <2>1, <1>2, Same DEF Known
<1> QED
  BY <1>1, <1>2 DEF Known

LEMMA ServerKept ==
  ASSUME SessionTypes, Told, Single, matrix' = matrix, server'.sent = server.sent,
         page'.at \in Nat, page'.at >= page.at
  PROVE  Told' /\ Single'
<1>1. Told'
  BY KnownKept DEF Told
<1>2. Single'
  BY DEF Single
<1> QED
  BY <1>1, <1>2

LEMMA PeersKept ==
  ASSUME Accepted, matrix' = matrix, server.sent \subseteq server'.sent, peer' = peer
  PROVE  Accepted'
<1>1. ASSUME NEW n, NEW p  PROVE  Final(n, p)' <=> Final(n, p)
  BY Same DEF Final
<1> QED
  BY <1>1, Same DEF Accepted

LEMMA TakenKept ==
  ASSUME TakenAll, TakenOwn, matrix' = matrix, server.sent \subseteq server'.sent,
         page'.at = page.at, page'.taken = page.taken
  PROVE  TakenAll' /\ TakenOwn'
<1>1. TakenAll'
  BY Same DEF TakenAll
<1>2. TakenOwn'
  BY Same DEF TakenOwn
<1> QED
  BY <1>1, <1>2

\* An error ends the session.
LEMMA Raises ==
  ASSUME SessionFacts, matrix' = matrix, page.status = "running", NEW g \in Page,
         g.at = page.at, g.taken = page.taken, g.connected = page.connected,
         page' = Raise(g), server'.sent = server.sent
  PROVE  page' \in Page /\ page'.at = page.at /\ Told' /\ Single' /\ PageFacts'
<1>1. /\ page' \in Page /\ page'.at = page.at /\ page'.status = "error" /\ page'.wait = "none"
      /\ page'.queue = << >> /\ page'.taken = page.taken /\ page'.connected = page.connected
  BY RaiseFacts DEF SessionFacts, SessionTypes
<1>2. page.at \in Nat /\ page.connected # TRUE
  BY DEF SessionFacts, SessionTypes, Page, PageFacts, Connected
<1>3. Told' /\ Single'
  BY <1>1, <1>2, ServerKept DEF SessionFacts
<1>4. TakenAll' /\ TakenOwn'
  BY <1>1, TakenKept DEF SessionFacts, PageFacts
<1>5. Waiting' /\ Unasked' /\ Awaited' /\ Resolved' /\ Acknowledged' /\ Queued'
  BY <1>1 DEF Waiting, Unasked, Awaited, Resolved, Acknowledged, Queued
<1>6. Connected'
  BY <1>1, <1>2 DEF Connected
<1> QED
  BY <1>1, <1>3, <1>4, <1>5, <1>6 DEF PageFacts

\* The script goes on to its next step, of which the server has said nothing.
LEMMA MovesOn ==
  ASSUME matrix.cell \in Cell, SessionFacts, matrix' = matrix, page.status = "running",
         page'.at = page.at + 1, page'.wait = "none", page'.status = "running",
         page'.connected = page.connected, server'.sent = server.sent,
         Do(page.at) # "collect"
  PROVE  /\ page'.at \in 1 .. End /\ Told' /\ Single'
         /\ Waiting' /\ Unasked' /\ Awaited' /\ Resolved' /\ Acknowledged' /\ Connected'
<1>1. page.at \in 1 .. End /\ End \in Nat /\ page.connected # TRUE
  BY ProgramFacts DEF SessionFacts, SessionTypes, PageFacts, Connected
<1>2. page.at # End
  BY <1>1, ProgramFacts DEF StepsKnown
<1>3. page'.at \in 1 .. End /\ page'.at >= page.at
  BY <1>1, <1>2
<1>4. Told' /\ Single'
  BY <1>3, ServerKept DEF SessionFacts
<1>5. ASSUME NEW m \in server.sent  PROVE  m.step # page.at + 1
  <2>1. Known(m)
    BY DEF SessionFacts, Told
  <2>2. m.step \in Int /\ m.step <= page.at
    BY <2>1, KnownFacts DEF SessionFacts
  <2> QED
    BY <2>2, <1>1
<1>6. Unasked'
  BY <1>5 DEF Unasked
<1>7. Waiting' /\ Awaited' /\ Resolved' /\ Acknowledged'
  BY DEF Waiting, Awaited, Resolved, Acknowledged
<1>8. Connected'
  BY <1>1 DEF Connected
<1> QED
  BY <1>3, <1>4, <1>6, <1>7, <1>8

\* ... which takes no answer,
LEMMA PassesOn ==
  ASSUME matrix.cell \in Cell, SessionFacts, matrix' = matrix, page.status = "running",
         page' = Advance(page), server' = server, Do(page.at) \notin {"message", "collect"}
  PROVE  page' \in Page /\ page'.at \in 1 .. End /\ Told' /\ Single' /\ PageFacts'
<1>1. page.at \in 1 .. End /\ page \in Page /\ End \in Nat
  BY ProgramFacts DEF SessionFacts, SessionTypes
<1>3. /\ page' \in Page /\ page'.at = page.at + 1 /\ page'.status = "running" /\ page'.wait = "none"
      /\ page'.queue = page.queue /\ page'.taken = page.taken
      /\ page'.connected = page.connected
  BY <1>1, AdvanceFacts
<1>4. /\ page'.at \in 1 .. End /\ Told' /\ Single'
      /\ Waiting' /\ Unasked' /\ Awaited' /\ Resolved' /\ Acknowledged' /\ Connected'
  BY <1>3, MovesOn
<1>5. Queued'
  BY <1>3 DEF SessionFacts, PageFacts, Queued, Arrived
<1>6. \A n \in 1 .. End : Do(n) = "message" => (n < page.at <=> n < page.at + 1)
  BY <1>1
<1>7. TakenAll'
  BY <1>3, <1>6, Same DEF SessionFacts, PageFacts, TakenAll
<1>8. TakenOwn'
  BY <1>3, Same DEF SessionFacts, PageFacts, TakenOwn
<1> QED
  BY <1>3, <1>4, <1>5, <1>7, <1>8 DEF PageFacts

\* ... or has taken one.
LEMMA TakesOn ==
  ASSUME matrix.cell \in Cell, SessionFacts, matrix' = matrix, page.status = "running",
         NEW m \in server.sent, m.step = page.at, m.sender # 0,
         m.body = "error" => Want(page.at) = "event", Do(page.at) = "message",
         NEW g, g \in Page, g.at = page.at, g.taken = page.taken, g.status = "running",
         g.connected = page.connected, page' = Take(g, m), server'.sent = server.sent,
         \A i \in 1 .. Len(g.queue) : g.queue[i] \in Arrived'
  PROVE  page' \in Page /\ page'.at \in 1 .. End /\ Told' /\ Single' /\ PageFacts'
<1>1. page.at \in 1 .. End /\ page \in Page /\ End \in Nat /\ m \in Said
  BY ProgramFacts DEF SessionFacts, SessionTypes
<1>4. /\ page' \in Page /\ page'.at = page.at + 1 /\ page'.status = "running" /\ page'.wait = "none"
      /\ page'.queue = g.queue /\ page'.taken = page.taken \cup {<<page.at, m>>}
      /\ page'.connected = page.connected
  BY <1>1, TakeFacts
<1>5. /\ page'.at \in 1 .. End /\ Told' /\ Single'
      /\ Waiting' /\ Unasked' /\ Awaited' /\ Resolved' /\ Acknowledged' /\ Connected'
  BY <1>4, MovesOn
<1>6. Queued'
  BY <1>4 DEF Queued
<1>7. \A n \in 1 .. End : n < page.at + 1 <=> n < page.at \/ n = page.at
  BY <1>1
<1>8. \A n : (\E a \in page'.taken : a[1] = n) <=> n = page.at \/ \E a \in page.taken : a[1] = n
  <2>1. \A a : a \in page'.taken <=> a \in page.taken \/ a = <<page.at, m>>
    BY <1>4
  <2>2. <<page.at, m>>[1] = page.at
    OBVIOUS
  <2> QED
    BY <2>1, <2>2
<1>9. TakenAll'
  <2>1. \A n \in 1 .. End :
           Do(n) = "message" /\ n < page'.at <=> \E a \in page'.taken : a[1] = n
    BY <1>1, <1>4, <1>7, <1>8 DEF SessionFacts, PageFacts, TakenAll
  <2> QED
    BY <2>1, Same DEF TakenAll
<1>10. TakenOwn'
  <2>1. \A a \in page'.taken :
           /\ a[1] \in 1 .. End /\ a[2].step = a[1] /\ a[2] \in server.sent /\ a[2].sender # 0
           /\ a[2].body = "error" => Want(a[1]) = "event"
    BY <1>1, <1>4 DEF SessionFacts, PageFacts, TakenOwn
  <2> QED
    BY <2>1, Same DEF TakenOwn
<1> QED
  BY <1>4, <1>5, <1>6, <1>9, <1>10 DEF PageFacts

-----------------------------------------------------------------------------
(***************************************************************************)
(* Every step keeps the invariant.                                         *)
(***************************************************************************)
\* At the beginning of a session nothing has been said.
LEMMA Blank ==
  ASSUME matrix.cell \in Cell, page = Fresh, server = Nothing, peer = NoPeers
  PROVE  SessionFacts
<1>1. /\ page \in Page /\ page.at = 1 /\ page.wait = "none" /\ page.queue = << >>
      /\ page.taken = {} /\ page.status = "running" /\ page.connected = FALSE
  <2> DEFINE nothing == Says(0, "none")  none == "none"  running == "running"
  <2>1. nothing \in Said /\ none \in Waits /\ running \in Statuses /\ << >> \in Seq(Said)
    BY SaysFacts DEF Kinds, Waits, Statuses
  <2>2. page = [at |-> 1, wait |-> none, response |-> nothing, queue |-> << >>, taken |-> {},
                status |-> running, connected |-> FALSE]
    BY DEF Fresh
  <2> HIDE DEF nothing, none, running
  <2>3. page \in Page /\ page.at = 1 /\ page.wait = none /\ page.queue = << >>
        /\ page.taken = {} /\ page.status = running /\ page.connected = FALSE
    BY <2>1, <2>2 DEF Page
  <2> QED
    BY <2>3 DEF none, running
<1>2. server = [sent |-> {}, wire |-> {}]
  BY DEF Nothing
<1>3. End \in Nat /\ End >= 1
  BY ProgramFacts
<1>4. peer \in [1 .. 2 -> {"new", "connected", "failed"}] /\ \A p \in 1 .. 2 : peer[p] = "new"
  BY DEF NoPeers
<1>5. SessionTypes
  BY <1>1, <1>2, <1>3, <1>4 DEF SessionTypes
<1>6. Told /\ Unasked /\ Single /\ Queued
  BY <1>1, <1>2 DEF Told, Unasked, Single, Queued
<1>7. Waiting /\ Awaited /\ Resolved /\ Acknowledged
  BY <1>1 DEF Waiting, Awaited, Resolved, Acknowledged
<1>8. Accepted /\ Connected
  BY <1>1, <1>4 DEF Accepted, Connected
<1>9. TakenAll /\ TakenOwn
  BY <1>1, <1>3 DEF TakenAll, TakenOwn
<1> QED
  BY <1>5, <1>6, <1>7, <1>8, <1>9 DEF SessionFacts, PageFacts

LEMMA InitStep == WebRTCInit => SessionIInv
<1> SUFFICES ASSUME WebRTCInit  PROVE  SessionIInv
  OBVIOUS
<1>1. matrix = Off /\ disk = [c \in Cell |-> NoFile]
  BY DEF WebRTCInit
<1>2. MatrixTypes
  BY <1>1 DEF MatrixTypes, Off, Cell, NoFile, File
<1>3. SessionFacts
  BY <1>1, Blank DEF WebRTCInit, Off, Cell
<1>4. Resting
  BY DEF Resting, WebRTCInit
<1>5. Recorded
  BY <1>1 DEF Recorded, Off, NoFile, Validates
<1> QED
  BY <1>2, <1>3, <1>4, <1>5 DEF SessionIInv

\* What all steps of a session have in common.
LEMMA InSessionFacts ==
  ASSUME SessionIInv, InSession
  PROVE  /\ matrix.cell \in Cell /\ matrix.state = "running" /\ page.status = "running"
         /\ page \in Page /\ page.at \in 1 .. End /\ page.at \in Nat /\ End \in Nat
         /\ Do(page.at) = Now.do /\ Whose(page.at) = Now.of
         /\ SessionFacts /\ SessionTypes
<1>1. matrix.cell \in Cell
  BY DEF SessionIInv, MatrixTypes
<1> QED
  BY <1>1, ProgramFacts DEF SessionIInv, InSession, SessionFacts, SessionTypes, Do, Whose, Now

LEMMA OpenOrGatherStep ==
  ASSUME SessionIInv, OpenOrGather
  PROVE  SessionFacts'
<1>1. InSession /\ Do(page.at) \in {"open", "gather"}
  BY InSessionFacts DEF OpenOrGather, Idle
<1>2. matrix' = matrix /\ server' = server /\ peer' = peer
  BY DEF OpenOrGather
<1>3. page' \in Page /\ page'.at \in 1 .. End /\ Told' /\ Single' /\ PageFacts'
  <2>1. CASE page' = Advance(page)
    BY <2>1, <1>1, <1>2, InSessionFacts, PassesOn
  <2>2. CASE page' = Raise(page)
    BY <2>2, <1>1, <1>2, InSessionFacts, Raises
  <2> QED
    BY <2>1, <2>2 DEF OpenOrGather
<1>4. SessionTypes'
  BY <1>1, <1>2, <1>3, InSessionFacts, Same DEF SessionTypes
<1>5. Accepted'
  BY <1>1, <1>2, InSessionFacts, PeersKept DEF SessionFacts
<1> QED
  BY <1>3, <1>4, <1>5 DEF SessionFacts

LEMMA TimerStep ==
  ASSUME SessionIInv, TimerFires
  PROVE  SessionFacts'
<1>1. InSession /\ matrix' = matrix /\ server' = server /\ peer' = peer /\ page' = Raise(page)
  BY DEF TimerFires
<1>3. page' \in Page /\ page'.at \in 1 .. End /\ Told' /\ Single' /\ PageFacts'
  BY <1>1, InSessionFacts, Raises
<1>4. SessionTypes'
  BY <1>1, <1>3, InSessionFacts, Same DEF SessionTypes
<1>5. Accepted'
  BY <1>1, InSessionFacts, PeersKept DEF SessionFacts
<1> QED
  BY <1>3, <1>4, <1>5 DEF SessionFacts

LEMMA ReplyFacts ==
  ASSUME matrix.cell \in Cell, NEW n \in 1 .. End, Do(n) \in Asks, NEW R \in Replies(n)
  PROVE  /\ \A m \in R : m \in Said /\ m.step = n /\ m \in OfStep(n)
         /\ \A m, r \in R : /\ m.kind = "error" => m = r
                            /\ m.sender # 0 /\ r.sender # 0 => m = r
<1> DEFINE ack == Says(n, "ack")  refusal == Says(n, "error")  success == Says(n, "success")
           right == Right(n)  wrong == Wrong(n)
<1>1. /\ ack \in Said /\ ack.step = n /\ ack.kind = "ack" /\ ack.sender = 0
      /\ refusal \in Said /\ refusal.step = n /\ refusal.kind = "error" /\ refusal.sender = 0
      /\ success \in Said /\ success.step = n /\ success.kind = "success" /\ success.sender = 0
  <2>1. n \in Int /\ {"ack", "error", "success"} \subseteq Kinds
    BY ProgramFacts DEF Kinds
  <2> QED
    BY <2>1, SaysFacts
<1>2. Do(n) = Program[n].do
  BY DEF Do
<1>3. CASE Do(n) = "message"
  <2>1. /\ right \in Said /\ right.step = n /\ right.kind # "error"
        /\ wrong \in Said /\ wrong.step = n /\ wrong.kind # "error"
    BY <1>3, RightFacts, WrongFacts
  <2>2. OfStep(n) = {ack, refusal, right, wrong}
    BY <1>3 DEF OfStep
  <2>3. \/ R = {} \/ R = {refusal} \/ R = {ack}
        \/ R = {right} \/ R = {wrong} \/ R = {ack, right} \/ R = {ack, wrong}
    BY <1>2, <1>3 DEF Replies
  <2> HIDE DEF ack, refusal, success, right, wrong
  <2> QED
    BY <1>1, <2>1, <2>2, <2>3
<1>4. CASE Do(n) # "message"
  <2>2. OfStep(n) = {success, refusal}
    BY <1>4 DEF OfStep
  <2>3. R = {} \/ R = {refusal} \/ R = {success}
    BY <1>2, <1>4 DEF Replies
  <2> HIDE DEF ack, refusal, success, right, wrong
  <2> QED
    BY <1>1, <2>2, <2>3
<1> QED
  BY <1>3, <1>4

LEMMA RequestStep ==
  ASSUME SessionIInv, Request
  PROVE  SessionFacts'
<1>1. /\ InSession /\ Do(page.at) \in Asks /\ page.wait = "none"
      /\ page' = [page EXCEPT !.wait = "request"]
  BY InSessionFacts DEF Request, Idle, Asks
<1>2. matrix' = matrix /\ peer' = peer
  BY DEF Request
<1>3. PICK R \in Replies(page.at) :
         server' = [sent |-> server.sent \cup R, wire |-> server.wire \cup R]
  BY DEF Request
<1> DEFINE request == "request"
<1>4. request \in Waits
  BY DEF Waits
<1>5. /\ page' \in Page /\ page'.at = page.at /\ page'.wait = "request" /\ page'.queue = page.queue
      /\ page'.taken = page.taken /\ page'.status = "running" /\ page'.connected = page.connected
  <2> HIDE DEF request
  <2>1. page' = [page EXCEPT !.wait = request]
    BY <1>1 DEF request
  <2>2. /\ page' \in Page /\ page'.at = page.at /\ page'.wait = request
        /\ page'.queue = page.queue /\ page'.taken = page.taken
        /\ page'.status = page.status /\ page'.connected = page.connected
    BY <2>1, <1>1, <1>4, InSessionFacts, WaitFacts
  <2> QED
    BY <2>2, <1>1, InSessionFacts DEF request
<1>6. /\ \A m \in R : m \in Said /\ m.step = page.at /\ m \in OfStep(page.at)
      /\ \A m, r \in R : /\ m.kind = "error" => m = r
                         /\ m.sender # 0 /\ r.sender # 0 => m = r
  BY <1>1, <1>3, InSessionFacts, ReplyFacts
<1>7. \A m \in server.sent : m.step # page.at
  BY <1>1, InSessionFacts DEF SessionFacts, PageFacts, Unasked
<1>8. /\ server'.sent = server.sent \cup R /\ server'.wire = server.wire \cup R
      /\ server.sent \subseteq server'.sent /\ R \cap server.sent = {}
      /\ Arrived' = Arrived /\ Arrived \subseteq server.sent
  BY <1>3, <1>6, <1>7 DEF Arrived
<1>9. SessionTypes'
  BY <1>1, <1>2, <1>3, <1>5, <1>6, <1>8, InSessionFacts, Same DEF SessionTypes
<1>10. Accepted'
  BY <1>1, <1>2, <1>8, InSessionFacts, PeersKept DEF SessionFacts
<1>11. Told'
  <2>1. ASSUME NEW m \in server.sent  PROVE  Known(m)'
    BY <1>1, <1>2, <1>5, InSessionFacts, KnownKept DEF SessionFacts, Told
  <2>2. ASSUME NEW m \in R  PROVE  Known(m)'
    <3>1. m.step = page.at /\ m.step \in 1 .. page'.at
      BY <1>1, <1>5, <1>6, InSessionFacts
    <3>2. Do(m.step) \in Asks /\ m \in OfStep(m.step)
      BY <1>1, <1>6
    <3> QED
      BY <3>1, <3>2, <1>2, Same DEF Known
  <2> QED
    BY <2>1, <2>2, <1>8 DEF Told
<1>12. Single'
  <2>1. ASSUME NEW m \in server.sent \cup R, NEW r \in server.sent \cup R,
               m.step = r.step, m.step > 0
        PROVE  (m.kind = "error" => m = r) /\ (m.sender # 0 /\ r.sender # 0 => m = r)
    BY <2>1, <1>1, <1>6, <1>7, InSessionFacts DEF SessionFacts, Single
  <2> QED
    BY <2>1, <1>8 DEF Single
<1>13. TakenAll' /\ TakenOwn'
  BY <1>1, <1>2, <1>5, <1>8, InSessionFacts, TakenKept DEF SessionFacts, PageFacts
<1>14. Unasked' /\ Resolved' /\ Acknowledged'
  BY <1>5 DEF Unasked, Resolved, Acknowledged
<1>15. Awaited' /\ Queued'
  BY <1>1, <1>5, <1>7, <1>8, InSessionFacts DEF SessionFacts, PageFacts, Awaited, Queued
<1>16. Connected'
  BY <1>1, <1>5, InSessionFacts DEF SessionFacts, PageFacts, Connected
<1>17. Waiting'
  <2>1. Do(page.at)' = Do(page.at)
    BY <1>2, <1>5 DEF Do, Program
  <2> QED
    BY <2>1, <1>1, <1>5 DEF Waiting
<1> QED
  BY <1>9, <1>10, <1>11, <1>12, <1>13, <1>14, <1>15, <1>16, <1>17 DEF SessionFacts, PageFacts

LEMMA TellStep ==
  ASSUME SessionIInv, Tell
  PROVE  SessionFacts'
<1>1. InSession /\ matrix' = matrix /\ page' = page /\ peer' = peer
  BY DEF Tell
<1>2. PICK k \in 1 .. MaxNotices :
         /\ Notice(k) \notin server.sent
         /\ server' = [sent |-> server.sent \cup {Notice(k)}, wire |-> server.wire \cup {Notice(k)}]
  BY DEF Tell
<1> DEFINE m == Notice(k)
<1>3. m \in Said /\ m.step < 0
  BY NoticeFacts
<1>4. Known(m)'
  BY <1>2 DEF Known, Notice, Says
<1> HIDE DEF m
<1>5. /\ server'.sent = server.sent \cup {m} /\ server'.wire = server.wire \cup {m}
      /\ m \notin server.sent /\ server.sent \subseteq server'.sent
      /\ Arrived' = Arrived
  BY <1>2 DEF Arrived, m
<1>6. SessionTypes'
  BY <1>1, <1>2, <1>3, <1>5, InSessionFacts, Same DEF SessionTypes, m
<1>7. Accepted'
  BY <1>1, <1>5, InSessionFacts, PeersKept DEF SessionFacts
<1>8. Told'
  <2>1. ASSUME NEW r \in server.sent  PROVE  Known(r)'
    BY <1>1, InSessionFacts, KnownKept DEF SessionFacts, Told
  <2> QED
    BY <2>1, <1>4, <1>5 DEF Told
<1>9. Single'
  <2>1. ASSUME NEW q \in server.sent \cup {m}, NEW r \in server.sent \cup {m},
               q.step = r.step, q.step > 0
        PROVE  (q.kind = "error" => q = r) /\ (q.sender # 0 /\ r.sender # 0 => q = r)
    <3>1. q # m /\ r # m
      BY <2>1, <1>3 DEF Said
    <3>2. q \in server.sent /\ r \in server.sent
      BY <3>1
    <3>3. Single
      BY <1>1, InSessionFacts DEF SessionFacts
    <3> QED
      BY <2>1, <3>2, <3>3 DEF Single
  <2> QED
    BY <2>1, <1>5 DEF Single
<1>10. TakenAll' /\ TakenOwn'
  BY <1>1, <1>5, InSessionFacts, TakenKept DEF SessionFacts, PageFacts
<1>11. Unasked'
  BY <1>1, <1>3, <1>5, InSessionFacts DEF SessionFacts, PageFacts, Unasked
<1>12. Awaited' /\ Resolved' /\ Acknowledged' /\ Queued'
  BY <1>1, <1>5, InSessionFacts
     DEF SessionFacts, PageFacts, Awaited, Resolved, Acknowledged, Queued
<1>13. Connected'
  BY <1>1, InSessionFacts DEF SessionFacts, PageFacts, Connected
<1>14. Waiting'
  <2>1. Do(page.at)' = Do(page.at)
    BY <1>1 DEF Do, Program
  <2> QED
    BY <2>1, <1>1, InSessionFacts DEF SessionFacts, PageFacts, Waiting
<1> QED
  BY <1>6, <1>7, <1>8, <1>9, <1>10, <1>11, <1>12, <1>13, <1>14 DEF SessionFacts, PageFacts

\* What is delivered joins what has arrived.
LEMMA DeliveredFacts ==
  ASSUME SessionTypes, NEW m \in server.wire, server' = [server EXCEPT !.wire = @ \ {m}]
  PROVE  /\ server' \in [sent : SUBSET Said, wire : SUBSET Said]
         /\ server'.sent = server.sent /\ server'.wire \subseteq server'.sent
         /\ m \in server.sent /\ m \in Said /\ m \notin Arrived /\ Arrived' = Arrived \cup {m}
<1> DEFINE w == server.wire \ {m}
<1>1. /\ server \in [sent : SUBSET Said, wire : SUBSET Said] /\ server.wire \subseteq server.sent
      /\ w \in SUBSET Said
  BY DEF SessionTypes
<1>2. server' = [server EXCEPT !.wire = w]
  OBVIOUS
<1> HIDE DEF w
<1>3. server' \in [sent : SUBSET Said, wire : SUBSET Said] /\ server'.sent = server.sent /\ server'.wire = w
  BY <1>1, <1>2
<1> QED
  BY <1>1, <1>3 DEF Arrived, w

LEMMA QueueFacts ==
  ASSUME NEW g \in Page, NEW m \in Said
  PROVE  LET h == Queue(g, m)
         IN  /\ h \in Page /\ h.at = g.at /\ h.wait = g.wait /\ h.taken = g.taken
             /\ h.status = g.status /\ h.connected = g.connected /\ h.response = g.response
             /\ m.sender # 0 => h.queue = Append(g.queue, m)
             /\ m.sender = 0 => h.queue = g.queue
<1> DEFINE q == IF m.sender = 0 THEN g.queue ELSE Append(g.queue, m)
<1>1. q \in Seq(Said)
  BY DEF Page
<1>2. Queue(g, m) = [g EXCEPT !.queue = q]
  BY DEF Queue
<1>3. (m.sender = 0 => q = g.queue) /\ (m.sender # 0 => q = Append(g.queue, m))
  OBVIOUS
<1> HIDE DEF q
<1>4. LET h == [g EXCEPT !.queue = q]
      IN  /\ h \in Page /\ h.at = g.at /\ h.wait = g.wait /\ h.taken = g.taken
          /\ h.status = g.status /\ h.connected = g.connected /\ h.response = g.response
          /\ h.queue = q
  BY <1>1 DEF Page
<1> QED
  BY <1>2, <1>3, <1>4

\* The queue with the message in it holds it, and what has arrived.
LEMMA QueuedStays ==
  ASSUME SessionTypes, Queued, NEW m \in Said, m \in Arrived', Arrived \subseteq Arrived'
  PROVE  LET q == Queue(page, m).queue
         IN  /\ \A i \in 1 .. Len(q) : q[i] \in Arrived'
             /\ m.sender # 0 => \E i \in 1 .. Len(q) : q[i] = m
<1>1. page \in Page /\ page.queue \in Seq(Said)
  BY DEF SessionTypes, Page
<1>2. CASE m.sender = 0
  BY <1>1, <1>2, QueueFacts DEF Queued
<1>3. CASE m.sender # 0
  <2> DEFINE s == page.queue  q == Append(s, m)
  <2>1. Queue(page, m).queue = q
    BY <1>1, <1>3, QueueFacts
  <2>2. /\ Len(s) \in Nat /\ Len(q) = Len(s) + 1 /\ q[Len(s) + 1] = m
        /\ \A i \in 1 .. Len(s) : q[i] = s[i]
    BY <1>1
  <2>3. \A i \in 1 .. Len(s) : s[i] \in Arrived
    BY DEF Queued
  <2> HIDE DEF q, s
  <2>4. \A i \in 1 .. Len(q) : i \in 1 .. Len(s) \/ i = Len(s) + 1
    BY <2>2
  <2>5. \A i \in 1 .. Len(q) : q[i] \in Arrived'
    BY <2>2, <2>3, <2>4
  <2>6. Len(s) + 1 \in 1 .. Len(q)
    BY <2>2
  <2> QED
    BY <2>1, <2>2, <2>5, <2>6
<1> QED
  BY <1>2, <1>3

LEMMA DeliverStep ==
  ASSUME SessionIInv, Deliver
  PROVE  SessionFacts'
<1>1. InSession /\ matrix' = matrix /\ peer' = peer /\ page.wait # "resumed"
  BY DEF Deliver
<1>2. PICK m \in server.wire :
         page' = Dispatch(page, m) /\ server' = [server EXCEPT !.wire = @ \ {m}]
  BY DEF Deliver
<1>3. /\ server' \in [sent : SUBSET Said, wire : SUBSET Said]
      /\ server'.sent = server.sent /\ server'.wire \subseteq server'.sent
      /\ m \in server.sent /\ m \in Said /\ m \notin Arrived /\ Arrived' = Arrived \cup {m}
  BY <1>1, <1>2, InSessionFacts, DeliveredFacts
<1>4. /\ matrix.cell \in Cell /\ SessionFacts /\ SessionTypes /\ page.status = "running"
      /\ page \in Page /\ page.at \in 1 .. End /\ page.at \in Nat
      /\ Waiting /\ Told /\ Single /\ Queued /\ TakenAll /\ TakenOwn
  BY <1>1, InSessionFacts DEF SessionFacts, PageFacts
<1>5. /\ \A i \in 1 .. Len(Queue(page, m).queue) : Queue(page, m).queue[i] \in Arrived'
      /\ m.sender # 0 =>
            \E i \in 1 .. Len(Queue(page, m).queue) : Queue(page, m).queue[i] = m
  BY <1>3, <1>4, QueuedStays
<1>6. page' \in Page /\ page'.at \in 1 .. End /\ Told' /\ Single' /\ PageFacts'
  <2>1. CASE page.wait = "request" /\ m.step = page.at /\ m.kind = "error"
    <3>1. page' = Raise(page)
      BY <1>2, <2>1 DEF Dispatch
    <3> QED
      BY <3>1, <1>1, <1>3, <1>4, Raises
  <2>2. CASE page.wait = "request" /\ m.step = page.at /\ m.kind # "error"
    <3> DEFINE resumed == "resumed"  q == Queue(page, m).queue
    <3>1. page' = [page EXCEPT !.wait = resumed, !.response = m, !.queue = q]
      BY <1>2, <2>2 DEF Dispatch
    <3>2. resumed \in Waits /\ q \in Seq(Said)
      BY <1>3, <1>4, QueueFacts DEF Waits, Page
    <3> HIDE DEF resumed, q
    <3>3. /\ page' \in Page /\ page'.at = page.at /\ page'.wait = resumed /\ page'.response = m
          /\ page'.queue = q /\ page'.taken = page.taken /\ page'.status = page.status
          /\ page'.connected = page.connected
      BY <3>1, <3>2, <1>3, <1>4 DEF Page
    <3>4. page'.wait = "resumed"
      BY <3>3 DEF resumed
    <3>5. Told' /\ Single'
      BY <3>3, <1>1, <1>3, <1>4, ServerKept
    <3>6. TakenAll' /\ TakenOwn'
      BY <3>3, <1>1, <1>3, <1>4, TakenKept
    <3>7. Unasked' /\ Awaited' /\ Acknowledged'
      BY <3>4 DEF Unasked, Awaited, Acknowledged
    <3>8. Queued'
      BY <3>3, <1>5 DEF Queued, q
    <3>9. Resolved'
      <4>1. \A r \in Arrived : r.step # page.at
        BY <2>2, <1>4 DEF SessionFacts, PageFacts, Awaited
      <4>2. m.sender # 0 => \E i \in 1 .. Len(q) : q[i] = m
        BY <1>5 DEF q
      <4> QED
        BY <3>3, <4>1, <4>2, <2>2, <1>3 DEF Resolved
    <3>10. Connected'
      BY <3>3, <1>4 DEF SessionFacts, PageFacts, Connected
    <3>11. Waiting'
      <4>1. Do(page.at)' = Do(page.at)
        BY <1>1, <3>3 DEF Do, Program
      <4> QED
        BY <4>1, <3>3, <3>4, <2>2, <1>4 DEF Waiting
    <3> QED
      BY <3>3, <3>5, <3>6, <3>7, <3>8, <3>9, <3>10, <3>11, <1>4 DEF PageFacts
  <2>3. CASE page.wait = "event" /\ Event(Now, m)
    <3>1. page' = TakeEvent(page, m)
      BY <1>2, <2>3 DEF Dispatch
    <3>2. Do(page.at) = "message"
      BY <2>3, <1>4 DEF Waiting
    <3>3. m.step = page.at /\ m.sender # 0
      BY <2>3, <3>2, <1>3, <1>4, OwnAnswer
    <3>4. CASE m.body = "error"
      <4>1. page' = Raise(page)
        BY <3>1, <3>4 DEF TakeEvent
      <4> QED
        BY <4>1, <1>1, <1>3, <1>4, Raises
    <3>5. CASE m.body # "error"
      <4>1. page' = Take(page, m)
        BY <3>1, <3>5 DEF TakeEvent
      <4>2. \A i \in 1 .. Len(page.queue) : page.queue[i] \in Arrived'
        BY <1>3, <1>4 DEF Queued
      <4> QED
        BY <4>1, <4>2, <3>2, <3>3, <3>5, <1>1, <1>3, <1>4, TakesOn
    <3> QED
      BY <3>4, <3>5
  <2>4. CASE ~ (page.wait = "request" /\ m.step = page.at) /\ ~ (page.wait = "event" /\ Event(Now, m))
    <3>1. page' = Queue(page, m)
      BY <1>2, <2>4 DEF Dispatch
    <3>2. /\ page' \in Page /\ page'.at = page.at /\ page'.wait = page.wait
          /\ page'.taken = page.taken /\ page'.status = page.status
          /\ page'.connected = page.connected
      BY <3>1, <1>3, <1>4, QueueFacts
    <3>3. Told' /\ Single'
      BY <3>2, <1>1, <1>3, <1>4, ServerKept
    <3>4. TakenAll' /\ TakenOwn'
      BY <3>2, <1>1, <1>3, <1>4, TakenKept
    <3>5. Unasked' /\ Resolved'
      BY <3>2, <1>1, <1>3, <1>4 DEF SessionFacts, PageFacts, Unasked, Resolved
    <3>6. Queued'
      BY <3>1, <1>5 DEF Queued
    <3>7. Awaited'
      BY <3>2, <2>4, <1>3, <1>4 DEF SessionFacts, PageFacts, Awaited
    <3>8. Acknowledged'
      <4> SUFFICES ASSUME page.wait = "event"
                   PROVE  /\ \A r \in Arrived' : r.step = page.at => r.kind = "ack"
                          /\ \E r \in Arrived' : r.step = page.at
        BY <3>2 DEF Acknowledged
      <4>1. PICK r \in Arrived : r.step = page.at
        BY <1>4 DEF SessionFacts, PageFacts, Acknowledged
      <4>2. \A a \in Arrived : a.step = page.at => a.kind = "ack"
        BY <1>4 DEF SessionFacts, PageFacts, Acknowledged
      <4>3. ASSUME m.step = page.at  PROVE  m.kind = "ack"
        <5>1. Do(page.at) = "message"
          BY <1>4 DEF Waiting
        <5>2. m.sender = 0 /\ m.kind \in {"ack", "error"}
          BY <4>3, <5>1, <2>4, <1>3, <1>4, OwnFits
        <5>3. m.kind # "error"
          <6>1. r \in server.sent /\ r # m /\ m.step > 0
            BY <4>1, <4>3, <1>3, <1>4 DEF Arrived
          <6> QED
            BY <6>1, <4>1, <4>3, <1>3, <1>4 DEF Single
        <5> QED
          BY <5>2, <5>3
      <4> QED
        BY <4>1, <4>2, <4>3, <1>3
    <3>9. Connected'
      BY <3>2, <1>4 DEF SessionFacts, PageFacts, Connected
    <3>10. Waiting'
      <4>1. Do(page.at)' = Do(page.at)
        BY <1>1, <3>2 DEF Do, Program
      <4> QED
        BY <4>1, <3>2, <1>4 DEF Waiting
    <3> QED
      BY <3>2, <3>3, <3>4, <3>5, <3>6, <3>7, <3>8, <3>9, <3>10, <1>4 DEF PageFacts
  <2> QED
    BY <2>1, <2>2, <2>3, <2>4
<1>7. SessionTypes'
  BY <1>1, <1>3, <1>4, <1>6, Same DEF SessionTypes
<1>8. Accepted'
  BY <1>1, <1>3, <1>4, PeersKept DEF SessionFacts
<1> QED
  BY <1>6, <1>7, <1>8 DEF SessionFacts

LEMMA Least ==
  ASSUME NEW S \in SUBSET Nat, S # {}
  PROVE  \E x \in S : \A y \in S : x <= y
<1> DEFINE R == OpToRel(<, Nat)
<1>1. IsWellFoundedOn(R, Nat)
  BY NatLessThanWellFounded, Zenon
<1>2. \A x \in S, y \in S : <<y, x>> \in R <=> y < x
  BY DEF OpToRel
<1> HIDE DEF R
<1>3. \E x \in S : \A y \in S : ~ (<<y, x>> \in R)
  BY <1>1, WFMin
<1>4. \A x \in S, y \in S : ~(y < x) => x <= y
  OBVIOUS
<1> QED
  BY <1>2, <1>3, <1>4

LEMMA RemoveAtFacts ==
  ASSUME NEW S, NEW s \in Seq(S), NEW i \in 1 .. Len(s)
  PROVE  /\ RemoveAt(s, i) \in Seq(S)
         /\ \A j \in 1 .. Len(RemoveAt(s, i)) : \E k \in 1 .. Len(s) : RemoveAt(s, i)[j] = s[k]
<1> DEFINE a == SubSeq(s, 1, i - 1)  b == SubSeq(s, i + 1, Len(s))
<1>1. Len(s) \in Nat /\ i \in Nat /\ i >= 1 /\ i <= Len(s)
  OBVIOUS
<1>2. a \in Seq(S) /\ Len(a) = i - 1 /\ \A j \in 1 .. Len(a) : a[j] = s[j]
  BY <1>1
<1>3. b \in Seq(S) /\ Len(b) = Len(s) - i /\ \A j \in 1 .. Len(b) : b[j] = s[i + j]
  BY <1>1
<1>4. RemoveAt(s, i) = a \o b
  BY DEF RemoveAt
<1> HIDE DEF a, b
<1>5. /\ a \o b \in Seq(S) /\ Len(a \o b) = Len(a) + Len(b)
      /\ \A j \in 1 .. Len(a) + Len(b) : (a \o b)[j] = IF j <= Len(a) THEN a[j] ELSE b[j - Len(a)]
  BY <1>2, <1>3, ConcatProperties
<1>6. ASSUME NEW j \in 1 .. Len(a) + Len(b)
      PROVE  \E k \in 1 .. Len(s) : (a \o b)[j] = s[k]
  <2>1. CASE j <= Len(a)
    <3>1. j \in 1 .. Len(a) /\ j \in 1 .. Len(s)
      BY <2>1, <1>1, <1>2
    <3> QED
      BY <3>1, <2>1, <1>2, <1>5
  <2>2. CASE j > Len(a)
    <3>1. j - Len(a) \in 1 .. Len(b) /\ i + (j - Len(a)) \in 1 .. Len(s)
      BY <2>2, <1>1, <1>2, <1>3
    <3>2. (a \o b)[j] = b[j - Len(a)]
      BY <2>2, <1>2, <1>5
    <3> QED
      BY <3>1, <3>2, <1>3
  <2> QED
    BY <2>1, <2>2, <1>1, <1>2
<1> QED
  BY <1>4, <1>5, <1>6

LEMMA ResumeStep ==
  ASSUME SessionIInv, Resume
  PROVE  SessionFacts'
<1>1. /\ InSession /\ matrix' = matrix /\ server' = server /\ peer' = peer
      /\ page.wait = "resumed" /\ page' = Continue(page)
  BY DEF Resume
<1>2. /\ matrix.cell \in Cell /\ SessionFacts /\ SessionTypes /\ page.status = "running"
      /\ page \in Page /\ page.at \in 1 .. End /\ page.at \in Nat /\ Do(page.at) = Now.do
      /\ Waiting /\ Told /\ Single /\ Queued /\ Resolved /\ TakenAll /\ TakenOwn
  BY <1>1, InSessionFacts DEF SessionFacts, PageFacts
<1>3. Arrived' = Arrived /\ Arrived \subseteq server.sent
  BY <1>1 DEF Arrived
<1> DEFINE r == page.response
<1>4. /\ r \in Arrived /\ r.step = page.at /\ r.kind # "error"
      /\ \A m \in Arrived : m.step = page.at => m = r
      /\ r.sender # 0 => \E i \in 1 .. Len(page.queue) : page.queue[i] = r
  BY <1>1, <1>2 DEF Resolved
<1> DEFINE fitting == {i \in 1 .. Len(page.queue) : Event(Now, page.queue[i])}
           first   == CHOOSE i \in fitting : \A j \in fitting : i <= j
<1>5. page' \in Page /\ page'.at \in 1 .. End /\ Told' /\ Single' /\ PageFacts'
  <2>1. CASE Do(page.at) # "message"
    <3>1. Do(page.at) \notin {"message", "collect"}
      BY <2>1, <1>1, <1>2 DEF Waiting, Asks
    <3>2. page' = Advance(page)
      BY <1>1, <1>2, <2>1 DEF Continue
    <3> QED
      BY <3>1, <3>2, <1>1, <1>2, PassesOn
  <2>2. CASE Do(page.at) = "message" /\ Response(Now, r)
    <3>1. page' = Take(page, r)
      BY <1>1, <1>2, <2>2 DEF Continue
    <3>2. r \in server.sent /\ Event(Now, r) /\ Predicate(Now, r)
      BY <1>3, <1>4, <2>2 DEF Response, Event
    <3>3. r.sender # 0 /\ (r.body = "error" => Want(page.at) = "event")
      BY <3>2, <2>2, <1>2, OwnAnswer
    <3>4. \A i \in 1 .. Len(page.queue) : page.queue[i] \in Arrived'
      BY <1>2, <1>3 DEF Queued
    <3> HIDE DEF r
    <3> QED
      BY <3>1, <3>2, <3>3, <3>4, <1>1, <1>2, <1>4, <2>2, TakesOn
  <2>3. CASE Do(page.at) = "message" /\ ~Response(Now, r) /\ fitting # {}
    <3> DEFINE q == RemoveAt(page.queue, first)
               g == [page EXCEPT !.queue = q]
               m == page.queue[first]
    <3>1. page' = TakeEvent(g, m)
      BY <1>1, <1>2, <2>3 DEF Continue
    <3>2. first \in 1 .. Len(page.queue) /\ Event(Now, m)
      <4>1. fitting \in SUBSET Nat
        OBVIOUS
      <4>2. \E i \in fitting : \A j \in fitting : i <= j
        BY <4>1, <2>3, Least
      <4>3. first \in fitting
        BY <4>2
      <4> QED
        BY <4>3
    <3> HIDE DEF fitting, first
    <3>3. page.queue \in Seq(Said)
      BY <1>2 DEF Page
    <3>4. q \in Seq(Said) /\ \A j \in 1 .. Len(q) : \E k \in 1 .. Len(page.queue) : q[j] = page.queue[k]
      BY <3>2, <3>3, RemoveAtFacts
    <3>5. m \in server.sent
      BY <3>2, <1>2, <1>3 DEF Queued
    <3>6. m.step = page.at /\ m.sender # 0
      BY <3>2, <3>5, <2>3, <1>2, OwnAnswer
    <3> HIDE DEF q, m
    <3>7. /\ g \in Page /\ g.at = page.at /\ g.taken = page.taken /\ g.status = page.status
          /\ g.connected = page.connected /\ g.queue = q
      BY <3>4, <1>2 DEF Page
    <3>8. \A j \in 1 .. Len(g.queue) : g.queue[j] \in Arrived'
      BY <3>4, <3>7, <1>2, <1>3 DEF Queued
    <3> HIDE DEF g
    <3>9. CASE m.body = "error"
      <4>1. page' = Raise(g)
        BY <3>1, <3>9 DEF TakeEvent
      <4> QED
        BY <4>1, <3>7, <1>1, <1>2, Raises
    <3>10. CASE m.body # "error"
      <4>1. page' = Take(g, m)
        BY <3>1, <3>10 DEF TakeEvent
      <4> QED
        BY <4>1, <3>5, <3>6, <3>7, <3>8, <3>10, <2>3, <1>1, <1>2, TakesOn
    <3> QED
      BY <3>9, <3>10
  <2>4. CASE Do(page.at) = "message" /\ ~Response(Now, r) /\ fitting = {}
    <3> DEFINE event == "event"  nothing == Says(0, "none")
    <3>1. page' = [page EXCEPT !.wait = event, !.response = nothing]
      BY <1>1, <1>2, <2>4 DEF Continue
    <3>2. event \in Waits /\ nothing \in Said
      BY SaysFacts DEF Waits, Kinds
    <3> HIDE DEF event, nothing
    <3>3. /\ page' \in Page /\ page'.at = page.at /\ page'.wait = event
          /\ page'.queue = page.queue /\ page'.taken = page.taken /\ page'.status = page.status
          /\ page'.connected = page.connected
      BY <3>1, <3>2, <1>2 DEF Page
    <3>4. page'.wait = "event"
      BY <3>3 DEF event
    <3>5. r.sender = 0
      <4> SUFFICES ASSUME r.sender # 0  PROVE  FALSE
        OBVIOUS
      <4>1. Event(Now, r)
        BY <1>2, <1>3, <1>4, <2>4, OwnFits
      <4> QED
        BY <4>1, <1>4, <2>4
    <3>6. r.kind = "ack"
      BY <3>5, <1>2, <1>3, <1>4, <2>4, OwnFits
    <3>7. Told' /\ Single'
      BY <3>3, <1>1, <1>2, ServerKept
    <3>8. TakenAll' /\ TakenOwn'
      BY <3>3, <1>1, <1>2, TakenKept
    <3>9. Unasked' /\ Awaited' /\ Resolved'
      BY <3>4 DEF Unasked, Awaited, Resolved
    <3>10. Queued'
      BY <3>3, <1>2, <1>3 DEF Queued
    <3>11. Acknowledged'
      BY <3>3, <3>6, <1>3, <1>4 DEF Acknowledged
    <3>12. Connected'
      BY <3>3, <1>2 DEF SessionFacts, PageFacts, Connected
    <3>13. Waiting'
      <4>1. Do(page.at)' = Do(page.at)
        BY <1>1, <3>3 DEF Do, Program
      <4> QED
        BY <4>1, <3>3, <3>4, <2>4, <1>2 DEF Waiting
    <3> QED
      BY <3>3, <3>7, <3>8, <3>9, <3>10, <3>11, <3>12, <3>13, <1>2 DEF PageFacts
  <2> QED
    BY <2>1, <2>2, <2>3, <2>4
<1>6. SessionTypes'
  BY <1>1, <1>2, <1>5, Same DEF SessionTypes
<1>7. Accepted'
  BY <1>1, <1>2, PeersKept DEF SessionFacts
<1> QED
  BY <1>5, <1>6, <1>7 DEF SessionFacts

LEMMA PageKept ==
  ASSUME SessionTypes, Told, PageFacts, matrix' = matrix, page' = page, server' = server
  PROVE  PageFacts'
<1>1. Arrived' = Arrived /\ page.at \in Nat
  BY DEF Arrived, SessionTypes, Page
<1>2. TakenAll' /\ TakenOwn'
  BY TakenKept DEF PageFacts
<1>3. Waiting'
  <2>1. Do(page.at)' = Do(page.at)
    BY DEF Do, Program
  <2> QED
    BY <2>1 DEF PageFacts, Waiting
<1>4. Unasked' /\ Awaited' /\ Resolved' /\ Acknowledged' /\ Queued'
  BY <1>1 DEF PageFacts, Unasked, Awaited, Resolved, Acknowledged, Queued
<1>5. Connected'
  <2>1. Sound' <=> Sound
    BY DEF Sound, Program
  <2> QED
    BY <2>1 DEF PageFacts, Connected
<1> QED
  BY <1>2, <1>3, <1>4, <1>5 DEF PageFacts

LEMMA WaitConnectedStep ==
  ASSUME SessionIInv, WaitConnected
  PROVE  SessionFacts'
<1>1. /\ InSession /\ matrix' = matrix /\ server' = server /\ peer' = peer
      /\ Do(page.at) = "connect" /\ page.wait = "none"
  BY InSessionFacts DEF WaitConnected, Idle
<1>2. /\ matrix.cell \in Cell /\ SessionFacts /\ SessionTypes /\ page.status = "running"
      /\ page \in Page /\ page.at \in 1 .. End /\ page.at \in Nat /\ Told /\ Single
  BY <1>1, InSessionFacts DEF SessionFacts
<1>3. page' \in Page /\ page'.at \in 1 .. End /\ Told' /\ Single' /\ PageFacts'
  <2>1. CASE page' = Advance(page)
    BY <2>1, <1>1, <1>2, PassesOn
  <2>2. CASE page' = [page EXCEPT !.wait = "connect"]
    <3> DEFINE connect == "connect"
    <3>1. connect \in Waits /\ page' = [page EXCEPT !.wait = connect]
      BY <2>2 DEF Waits
    <3> HIDE DEF connect
    <3>2. /\ page' \in Page /\ page'.at = page.at /\ page'.wait = connect
          /\ page'.queue = page.queue /\ page'.taken = page.taken
          /\ page'.status = page.status /\ page'.connected = page.connected
      BY <3>1, <1>2, WaitFacts
    <3>3. page'.wait = "connect"
      BY <3>2 DEF connect
    <3>4. Told' /\ Single'
      BY <3>2, <1>1, <1>2, ServerKept
    <3>5. TakenAll' /\ TakenOwn'
      BY <3>2, <1>1, <1>2, TakenKept DEF SessionFacts, PageFacts
    <3>6. Unasked' /\ Awaited' /\ Resolved' /\ Acknowledged'
      BY <3>3 DEF Unasked, Awaited, Resolved, Acknowledged
    <3>7. Queued'
      BY <3>2, <1>1, <1>2 DEF SessionFacts, PageFacts, Queued, Arrived
    <3>8. Connected'
      BY <3>2, <1>2 DEF SessionFacts, PageFacts, Connected
    <3>9. Waiting'
      <4>1. Do(page.at)' = Do(page.at)
        BY <1>1, <3>2 DEF Do, Program
      <4> QED
        BY <4>1, <3>2, <3>3, <1>1, <1>2 DEF Waiting
    <3> QED
      BY <3>2, <3>4, <3>5, <3>6, <3>7, <3>8, <3>9, <1>2 DEF PageFacts
  <2> QED
    BY <2>1, <2>2 DEF WaitConnected
<1>4. SessionTypes'
  BY <1>1, <1>2, <1>3, Same DEF SessionTypes
<1>5. Accepted'
  BY <1>1, <1>2, PeersKept DEF SessionFacts
<1> QED
  BY <1>3, <1>4, <1>5 DEF SessionFacts

\* The server has accepted the last message about a peer that connects.
LEMMA HandshakeIsFinal ==
  ASSUME matrix.cell \in Cell, NEW p \in 1 .. 2, NEW n \in 1 .. End, Whose(n) = p
  PROVE  Handshake(p) \in 1 .. End /\ Final(Handshake(p), p)
<1> DEFINE F(k) == /\ Program[k].do = "message" /\ Program[k].of = p
                   /\ \A j \in k + 1 .. Len(Program) :
                         Program[j].do = "message" => Program[j].of # p
<1>1. p \in 1 .. Whose(End)
  BY ProgramFacts DEF StepsKnown
<1>2. \A k : F(k) <=> Final(k, p)
  BY DEF Final, Do, Whose, End
<1>3. Handshake(p) = CHOOSE k \in 1 .. Len(Program) : F(k)
  BY DEF Handshake
<1> HIDE DEF F
<1>4. \E k \in 1 .. End : F(k)
  BY <1>1, <1>2, ProgramFacts DEF HasFinal, Final
<1> QED
  BY <1>2, <1>3, <1>4 DEF End

LEMMA PeerChangesStep ==
  ASSUME SessionIInv, PeerChanges
  PROVE  SessionFacts'
<1>1. InSession /\ matrix' = matrix /\ server' = server
  BY DEF PeerChanges
<1>2. /\ matrix.cell \in Cell /\ SessionFacts /\ SessionTypes /\ page.status = "running"
      /\ page \in Page /\ page.at \in 1 .. End /\ page.at \in Nat /\ Told /\ Single
      /\ Waiting /\ Accepted /\ PageFacts
  BY <1>1, InSessionFacts DEF SessionFacts, PageFacts
<1>3. PICK p \in 1 .. 2, s \in {"connected", "failed"} :
         /\ \E n \in 1 .. Len(Program) : Program[n].of = p /\ page.at >= Handshake(p)
         /\ \/ peer[p] = "new" /\ (s = "connected" => Right(Handshake(p)) \in server.sent)
            \/ peer[p] = "connected" /\ s = "failed"
         /\ peer' = [peer EXCEPT ![p] = s]
         /\ page' = IF page.wait # "connect" \/ Now.of # p THEN page
                    ELSE IF s = "connected" THEN Advance(page) ELSE Raise(page)
  BY DEF PeerChanges
<1>4. page' \in Page /\ page'.at \in 1 .. End /\ Told' /\ Single' /\ PageFacts'
  <2>1. CASE page' = page
    <3>1. Told' /\ Single'
      BY <2>1, <1>1, <1>2, ServerKept
    <3> QED
      BY <3>1, <2>1, <1>1, <1>2, PageKept
  <2>2. CASE page' = Advance(page) /\ page.wait = "connect"
    <3>1. Do(page.at) = "connect"
      BY <2>2, <1>2 DEF Waiting
    <3> QED
      BY <3>1, <2>2, <1>1, <1>2, PassesOn
  <2>3. CASE page' = Raise(page)
    BY <2>3, <1>1, <1>2, Raises
  <2> QED
    BY <2>1, <2>2, <2>3, <1>3
<1>5. peer \in [1 .. 2 -> {"new", "connected", "failed"}]
  BY <1>2 DEF SessionTypes
<1>6. SessionTypes'
  BY <1>1, <1>2, <1>3, <1>4, <1>5, Same DEF SessionTypes
<1>7. Accepted'
  <2>1. ASSUME NEW q \in 1 .. 2, peer'[q] = "connected"
        PROVE  \E n \in 1 .. End : Final(n, q) /\ Right(n) \in server.sent
    <3>1. CASE q = p
      <4>1. Right(Handshake(p)) \in server.sent
        BY <3>1, <2>1, <1>3, <1>5
      <4>2. \E n \in 1 .. End : Whose(n) = p
        BY <1>3 DEF End, Whose
      <4> QED
        BY <4>1, <4>2, <3>1, <1>2, HandshakeIsFinal
    <3>2. CASE q # p
      BY <3>2, <2>1, <1>2, <1>3, <1>5 DEF Accepted
    <3> QED
      BY <3>1, <3>2
  <2>2. \A n, q : Final(n, q)' <=> Final(n, q)
    BY <1>1, Same DEF Final
  <2> QED
    BY <2>1, <2>2, <1>1, Same DEF Accepted
<1> QED
  BY <1>4, <1>6, <1>7 DEF SessionFacts

\* A session that reaches its end with its peers connected is sound.
LEMMA EndIsSound ==
  ASSUME matrix.cell \in Cell, SessionTypes, Single, TakenAll, TakenOwn, Accepted,
         page.at = End, \A p \in 1 .. Whose(End) : peer[p] = "connected"
  PROVE  Sound
<1>1. /\ End \in Nat /\ End >= 1
      /\ \A n \in 1 .. End : /\ Whose(n) \in 1 .. 2 /\ Whose(n) <= Whose(End)
                             /\ Do(n) = "message" => n # End
                             /\ Want(n) = "event" => Do(n) = "message" /\ Whose(n) = 2
  BY ProgramFacts DEF StepsKnown
<1>2. \A n \in 1 .. End : Do(n) = "message" <=> \E a \in page.taken : a[1] = n
  BY <1>1 DEF TakenAll
<1>3. {a[1] : a \in page.taken} = {n \in 1 .. Len(Program) : Program[n].do = "message"}
  BY <1>2 DEF TakenOwn, End, Do
<1>4. ASSUME NEW a \in page.taken  PROVE  Own(a[1], a[2])
  <2> DEFINE k == a[1]  m == a[2]
  <2>1. /\ k \in 1 .. End /\ m.step = k /\ m \in server.sent /\ m.sender # 0
        /\ m.body = "error" => Want(k) = "event"
    BY DEF TakenOwn
  <2> HIDE DEF k, m
  <2>2. SUFFICES ASSUME m.body = "error"  PROVE  FALSE
    BY <2>1 DEF Own, k, m
  <2>3. Want(k) = "event" /\ Do(k) = "message" /\ Whose(k) = 2 /\ Whose(End) = 2
    BY <1>1, <2>1, <2>2
  <2>4. PICK n \in 1 .. End : Final(n, 2) /\ Right(n) \in server.sent
    BY <2>3 DEF Accepted
  <2>5. Do(n) = "message" /\ Whose(n) = 2
    BY <2>4 DEF Final
  <2>6. n <= k
    BY <2>1, <2>3, <2>5, ProgramFacts DEF EventIsLast
  <2>7. ~ (k \in n + 1 .. End)
    BY <2>3, <2>4 DEF Final
  <2>8. n = k
    BY <2>1, <2>6, <2>7, <1>1
  <2>9. Right(k).step = k /\ Right(k).sender # 0 /\ Right(k).body # "error"
    BY <2>1, <2>3, RightFacts
  <2>10. Right(k) = m
    BY <2>1, <2>4, <2>8, <2>9 DEF Single
  <2> QED
    BY <2>2, <2>9, <2>10
<1> QED
  BY <1>3, <1>4 DEF Sound

LEMMA CollectStep ==
  ASSUME SessionIInv, Collect
  PROVE  SessionFacts'
<1>1. /\ InSession /\ matrix' = matrix /\ server' = server /\ peer' = peer
      /\ Do(page.at) = "collect" /\ page.wait = "none"
  BY InSessionFacts DEF Collect, Idle
<1>2. /\ matrix.cell \in Cell /\ SessionFacts /\ SessionTypes /\ page.status = "running"
      /\ page \in Page /\ page.at \in 1 .. End /\ page.at \in Nat /\ Told /\ Single
      /\ TakenAll /\ TakenOwn /\ Accepted /\ Whose(page.at) = Now.of
  BY <1>1, InSessionFacts DEF SessionFacts, PageFacts
<1>3. page.at = End
  BY <1>1, <1>2, ProgramFacts DEF StepsKnown
<1> DEFINE complete == "complete"  q == << >>
           all == \A p \in 1 .. Now.of : peer[p] = "connected"
<1>4. complete \in Statuses /\ q \in Seq(Said) /\ all \in BOOLEAN
  BY DEF Statuses
<1>5. page' = [page EXCEPT !.status = complete, !.queue = q, !.connected = all]
  BY DEF Collect
<1> HIDE DEF complete, q, all
<1>6. /\ page' \in Page /\ page'.at = page.at /\ page'.wait = page.wait /\ page'.queue = q
      /\ page'.taken = page.taken /\ page'.status = complete /\ page'.connected = all
  BY <1>4, <1>5, <1>2 DEF Page
<1>7. page'.wait = "none" /\ page'.status = "complete" /\ page'.queue = << >>
  BY <1>1, <1>6 DEF complete, q
<1>8. Told' /\ Single'
  BY <1>1, <1>2, <1>6, ServerKept
<1>9. TakenAll' /\ TakenOwn'
  BY <1>1, <1>2, <1>6, TakenKept
<1>10. Waiting' /\ Unasked' /\ Awaited' /\ Resolved' /\ Acknowledged' /\ Queued'
  BY <1>7 DEF Waiting, Unasked, Awaited, Resolved, Acknowledged, Queued
<1>11. Connected'
  <2>1. all = TRUE => Sound
    BY <1>2, <1>3, EndIsSound DEF all
  <2>2. Sound' <=> Sound
    BY <1>1, <1>6 DEF Sound, Program
  <2> QED
    BY <2>1, <2>2, <1>6, <1>7 DEF Connected
<1>12. SessionTypes'
  BY <1>1, <1>2, <1>6, Same DEF SessionTypes
<1>13. Accepted'
  BY <1>1, <1>2, PeersKept
<1> QED
  BY <1>6, <1>8, <1>9, <1>10, <1>11, <1>12, <1>13 DEF SessionFacts, PageFacts

LEMMA SessionStep ==
  ASSUME SessionIInv, Session
  PROVE  SessionIInv'
<1>1. matrix' = matrix /\ disk' = disk /\ matrix.state = "running"
  BY DEF Session, OpenOrGather, Request, Tell, Deliver, Resume, TimerFires, WaitConnected,
         PeerChanges, Collect, InSession, Idle
<1>2. SessionFacts'
  BY OpenOrGatherStep, RequestStep, TellStep, DeliverStep, ResumeStep, TimerStep,
     WaitConnectedStep, PeerChangesStep, CollectStep DEF Session
<1>3. MatrixTypes' /\ Recorded' /\ Resting'
  BY <1>1 DEF SessionIInv, MatrixTypes, Recorded, Resting, Validates
<1> QED
  BY <1>2, <1>3 DEF SessionIInv

-----------------------------------------------------------------------------
(***************************************************************************)
(* The matrix.                                                             *)
(***************************************************************************)
LEMMA BlankImplies ==
  matrix.cell \in Cell /\ page = Fresh /\ server = Nothing /\ peer = NoPeers => SessionFacts
BY Blank

LEMMA BlankThen ==
  (matrix.cell \in Cell /\ page = Fresh /\ server = Nothing /\ peer = NoPeers => SessionFacts)'
BY BlankImplies, PTL

LEMMA BlankNext ==
  ASSUME matrix'.cell \in Cell, page' = Fresh, server' = Nothing, peer' = NoPeers
  PROVE  SessionFacts'
BY BlankThen DEF Fresh, Nothing, NoPeers, Cell, Says

LEMMA LeastCell ==
  ASSUME NEW S \in SUBSET Cell, S # {}
  PROVE  LET c == CHOOSE c \in S : \A d \in S : c <= d
         IN  c \in S /\ c \in Cell /\ \A d \in S : c <= d
<1>1. \E c \in S : \A d \in S : c <= d
  BY Least DEF Cell
<1> QED
  BY <1>1

LEMMA BeginStep ==
  ASSUME SessionIInv, Begin
  PROVE  SessionIInv'
<1>1. PICK S \in {{1}, {2}, Cell} :
         matrix' = [run |-> matrix.run + 1, state |-> "running", selected |-> S,
                    cell |-> CHOOSE c \in S : \A d \in S : c <= d]
  BY DEF Begin
<1>2. S \in SUBSET Cell /\ S # {}
  BY DEF Cell
<1> DEFINE first == CHOOSE c \in S : \A d \in S : c <= d
<1>3. first \in S /\ first \in Cell /\ \A d \in S : first <= d
  BY <1>2, LeastCell
<1>4. matrix' = [run |-> matrix.run + 1, state |-> "running", selected |-> S, cell |-> first]
  BY <1>1
<1> HIDE DEF first
<1>5. /\ matrix'.state = "running" /\ matrix'.cell = first /\ matrix'.selected = S
  BY <1>4
<1>6. disk' = [c \in Cell |-> [disk[c] EXCEPT !.own = FALSE]]
  BY DEF Begin
<1>7. disk \in [Cell -> File]
  BY DEF SessionIInv, MatrixTypes
<1>8. MatrixTypes'
  <2> DEFINE running == "running"  states == {"idle", "running", "ok", "failed"}
  <2>1. matrix' = [run |-> matrix.run + 1, state |-> running, selected |-> S, cell |-> first]
    BY <1>4
  <2>2. running \in states /\ matrix.run + 1 \in Nat
    BY DEF SessionIInv, MatrixTypes
  <2> HIDE DEF running, states
  <2>3. matrix' \in [run : Nat, state : states, cell : Cell, selected : SUBSET Cell]
    BY <2>1, <2>2, <1>2, <1>3
  <2>4. \A c \in Cell : [disk[c] EXCEPT !.own = FALSE] \in File
    BY <1>7 DEF File
  <2>5. disk' \in [Cell -> File]
    BY <2>4, <1>6
  <2> QED
    BY <2>3, <2>5 DEF MatrixTypes, states
<1>9. Recorded'
  <2>1. \A c \in Cell : /\ disk'[c].status = disk[c].status /\ disk'[c].sound = disk[c].sound
                        /\ disk'[c].connected = disk[c].connected
    BY <1>6, <1>7 DEF File
  <2>2. \A c \in Cell : Validates(disk'[c]) => disk'[c].sound
    BY <2>1 DEF SessionIInv, Recorded, Validates
  <2>3. \A c \in S : ~(c < first)
    BY <1>2, <1>3 DEF Cell
  <2> QED
    BY <2>2, <2>3, <1>5 DEF Recorded, Validates
<1>10. page = Fresh /\ server = Nothing /\ peer = NoPeers
  BY DEF SessionIInv, Resting, Begin
<1>11. SessionFacts'
  BY <1>3, <1>5, <1>10, BlankNext DEF Begin
<1> QED
  BY <1>5, <1>8, <1>9, <1>11 DEF SessionIInv, Resting

\* The runner ends, well or not, and the matrix goes on to the next cell.
LEMMA ExitFacts ==
  ASSUME SessionIInv, NEW ok \in BOOLEAN, Exit(ok), matrix.state = "running"
  PROVE  /\ matrix' \in [run : Nat, state : {"idle", "running", "ok", "failed"}, cell : Cell,
                         selected : SUBSET Cell]
         /\ SessionFacts' /\ Resting' /\ matrix'.selected = matrix.selected
         /\ ~ok => matrix'.state = "failed"
         /\ \A c \in matrix.selected :
               matrix'.state = "ok" \/ (matrix'.state = "running" /\ c < matrix'.cell)
               => c <= matrix.cell
<1> DEFINE later == {c \in matrix.selected : c > matrix.cell}
           next  == CHOOSE c \in later : \A d \in later : c <= d
<1>1. matrix \in [run : Nat, state : {"idle", "running", "ok", "failed"}, cell : Cell,
                  selected : SUBSET Cell]
  BY DEF SessionIInv, MatrixTypes
<1>2. page' = Fresh /\ server' = Nothing /\ peer' = NoPeers
  BY DEF Exit
<1>3. \/ ~ok /\ matrix' = [matrix EXCEPT !.state = "failed"]
      \/ ok /\ later = {} /\ matrix' = [matrix EXCEPT !.state = "ok"]
      \/ ok /\ later # {} /\ matrix' = [matrix EXCEPT !.cell = next]
  BY DEF Exit
<1>4. later \in SUBSET Cell /\ later \subseteq matrix.selected
  BY <1>1
<1>5. later # {} => next \in later /\ next \in Cell /\ \A d \in later : next <= d
  BY <1>4, LeastCell
<1>6. \A c \in matrix.selected : c \notin later => c <= matrix.cell
  BY <1>1 DEF Cell
<1> HIDE DEF later, next
<1>7. /\ matrix' \in [run : Nat, state : {"idle", "running", "ok", "failed"}, cell : Cell,
                      selected : SUBSET Cell]
      /\ matrix'.selected = matrix.selected
  BY <1>1, <1>3, <1>5
<1>8. ~ok => matrix'.state = "failed"
  BY <1>1, <1>3
<1>9. ASSUME NEW c \in matrix.selected,
             matrix'.state = "ok" \/ (matrix'.state = "running" /\ c < matrix'.cell)
      PROVE  c \notin later
  <2>1. CASE ~ok
    BY <2>1, <1>8, <1>9
  <2>2. CASE ok /\ later = {}
    BY <2>2
  <2>3. CASE ok /\ later # {}
    <3>1. matrix'.state = "running" /\ matrix'.cell = next
      BY <2>3, <1>1, <1>3
    <3>2. c < next
      BY <3>1, <1>9
    <3>3. c \in Cell
      BY <1>1
    <3> QED
      BY <3>2, <3>3, <2>3, <1>5 DEF Cell
  <2> QED
    BY <2>1, <2>2, <2>3
<1>10. SessionFacts'
  BY <1>2, <1>7, BlankNext
<1>11. Resting'
  BY <1>2 DEF Resting
<1> QED
  BY <1>6, <1>7, <1>8, <1>9, <1>10, <1>11

LEMMA RecordTypes ==
  ASSUME SessionIInv, matrix.state = "running", page.status # "running"
  PROVE  /\ BuildRecord \in File /\ BuildRecord.own = TRUE /\ BuildRecord.status = page.status
         /\ Validates(BuildRecord) => BuildRecord.sound
         /\ Torn \in File /\ ~Validates(Torn)
<1>1. page \in Page /\ Connected
  BY DEF SessionIInv, SessionFacts, SessionTypes, PageFacts
<1>2. page.status \in {"error", "complete"} /\ page.connected \in BOOLEAN
  BY <1>1 DEF Page, Statuses
<1> DEFINE s == page.status = "complete" /\ Sound
<1>3. BuildRecord = [own |-> TRUE, status |-> page.status, connected |-> page.connected, sound |-> s]
  BY DEF BuildRecord
<1>4. s \in BOOLEAN
  OBVIOUS
<1>5. page.connected = TRUE => s
  BY <1>1 DEF Connected
<1> HIDE DEF s
<1>6. /\ BuildRecord \in File /\ BuildRecord.own = TRUE /\ BuildRecord.status = page.status
      /\ BuildRecord.connected = page.connected /\ BuildRecord.sound = s
  BY <1>2, <1>3, <1>4 DEF File
<1>7. Validates(BuildRecord) => BuildRecord.sound
  BY <1>2, <1>5, <1>6 DEF Validates
<1>8. Torn \in File /\ Torn.status = "torn"
  BY DEF Torn, NoFile, File
<1> QED
  BY <1>6, <1>7, <1>8 DEF Validates

LEMMA WriteRecordStep ==
  ASSUME SessionIInv, WriteRecord
  PROVE  SessionIInv'
<1>1. matrix.state = "running" /\ page.status # "running" /\ matrix.cell \in Cell
      /\ disk \in [Cell -> File]
  BY DEF WriteRecord, SessionIInv, MatrixTypes
<1> DEFINE ok == page.status = "complete"
<1>2. PICK r \in File, o \in BOOLEAN :
         /\ disk' = [disk EXCEPT ![matrix.cell] = r] /\ Exit(o)
         /\ (r = BuildRecord /\ o = ok) \/ (r = Torn /\ o = FALSE)
  BY <1>1, RecordTypes DEF WriteRecord
<1>3. r \in File /\ (Validates(r) => r.sound) /\ (o => r.own = TRUE /\ r.status = "complete")
  BY <1>1, <1>2, RecordTypes
<1>4. /\ disk' \in [Cell -> File] /\ disk'[matrix.cell] = r
      /\ \A c \in Cell : c # matrix.cell => disk'[c] = disk[c]
  BY <1>1, <1>2, <1>3
<1>5. MatrixTypes'
  BY <1>1, <1>2, <1>4, ExitFacts DEF MatrixTypes
<1>6. SessionFacts' /\ Resting'
  BY <1>1, <1>2, ExitFacts
<1>7. Recorded'
  <2>1. \A c \in Cell : Validates(disk'[c]) => disk'[c].sound
    BY <1>3, <1>4 DEF SessionIInv, Recorded
  <2>2. ASSUME NEW c \in matrix.selected,
               matrix'.state = "ok" \/ (matrix'.state = "running" /\ c < matrix'.cell)
        PROVE  disk'[c].own /\ disk'[c].status = "complete"
    <3>1. c <= matrix.cell /\ o = TRUE
      BY <2>2, <1>1, <1>2, ExitFacts
    <3>2. c \in Cell
      BY DEF SessionIInv, MatrixTypes
    <3>3. CASE c = matrix.cell
      BY <3>1, <3>3, <1>3, <1>4
    <3>4. CASE c # matrix.cell
      <4>1. c < matrix.cell
        BY <3>1, <3>2, <3>4, <1>1 DEF Cell
      <4> QED
        BY <4>1, <3>2, <3>4, <1>1, <1>4 DEF SessionIInv, Recorded
    <3> QED
      BY <3>3, <3>4
  <2>3. matrix'.selected = matrix.selected
    BY <1>1, <1>2, ExitFacts
  <2> QED
    BY <2>1, <2>2, <2>3 DEF Recorded, Validates
<1> QED
  BY <1>5, <1>6, <1>7 DEF SessionIInv

LEMMA NoRecordStep ==
  ASSUME SessionIInv, NoRecord
  PROVE  SessionIInv'
<1>1. matrix.state = "running" /\ Exit(FALSE) /\ disk' = disk
  BY DEF NoRecord
<1>2. /\ matrix' \in [run : Nat, state : {"idle", "running", "ok", "failed"}, cell : Cell,
                      selected : SUBSET Cell]
      /\ SessionFacts' /\ Resting' /\ matrix'.state = "failed"
  BY <1>1, ExitFacts
<1>3. MatrixTypes'
  BY <1>1, <1>2 DEF SessionIInv, MatrixTypes
<1>4. Recorded'
  BY <1>1, <1>2 DEF SessionIInv, Recorded, Validates
<1> QED
  BY <1>2, <1>3, <1>4 DEF SessionIInv

LEMMA StutterStep ==
  ASSUME SessionIInv, UNCHANGED webRTCVars
  PROVE  SessionIInv'
<1>1. matrix' = matrix /\ page' = page /\ server' = server /\ peer' = peer /\ disk' = disk
  BY DEF webRTCVars
<1>2. SessionTypes /\ Told /\ Single /\ Accepted /\ PageFacts
  BY DEF SessionIInv, SessionFacts
<1>3. page.at \in Nat
  BY <1>2 DEF SessionTypes, Page
<1>4. SessionTypes' /\ Told' /\ Single' /\ Accepted' /\ PageFacts'
  BY <1>1, <1>2, <1>3, ServerKept, PeersKept, PageKept, Same DEF SessionTypes
<1> QED
  BY <1>1, <1>4 DEF SessionIInv, SessionFacts, MatrixTypes, Resting, Recorded, Validates

LEMMA SessionIInvStep ==
  SessionIInv /\ [WebRTCNext]_webRTCVars => SessionIInv'
BY BeginStep, SessionStep, WriteRecordStep, NoRecordStep, StutterStep DEF WebRTCNext

\* The invariant of the sessions and of the matrix that runs them: what the
\* server has said and what of it has arrived, for every state the page waits
\* in; the answers that were taken; the peers; and the records of the matrix.
THEOREM SessionInvariant == WebRTCSpec => []SessionIInv
<1>1. WebRTCInit => SessionIInv
  BY InitStep
<1>2. SessionIInv /\ [WebRTCNext]_webRTCVars => SessionIInv'
  BY SessionIInvStep
<1> QED
  BY <1>1, <1>2, PTL DEF WebRTCSpec

\* While the script waits for the answer to a request nothing about it has
\* arrived, and while it waits for the event only the acknowledgement has:
\* JanusSocket loses no answer, in whatever order responses and events come.
THEOREM AnswersAreSeen == WebRTCSpec => []AnswerIsSeen
<1>1. SessionIInv => AnswerIsSeen
  BY DEF SessionIInv, SessionFacts, PageFacts, Awaited, Acknowledged, Arrived, AnswerIsSeen
<1> QED
  BY <1>1, SessionInvariant, PTL

\* What validate_session accepts is the record of a session in which every
\* message got its own answer, and a matrix that ends well leaves records of
\* its own complete sessions in the files of all its cells.
THEOREM RecordsAreOfSoundSessions == WebRTCSpec => []RecordsAreEvidence
<1>1. SessionIInv => RecordsAreEvidence
  BY DEF SessionIInv, Recorded, RecordsAreEvidence
<1> QED
  BY <1>1, SessionInvariant, PTL

=============================================================================
