--------------------------- MODULE WebRTCSession ---------------------------
(***************************************************************************)
(* The WebRTC laboratory (scripts/webrtc_lab): run_remote_matrix.sh runs   *)
(* browser_runner.py once for every cell, and that runs one session in a   *)
(* browser: requests to a Janus server, of which each is answered by a     *)
(* response and mostly by a later event as well, on one WebSocket, and the *)
(* WebRTC peers that they set up.  The record of a session takes the place *)
(* of an older one in the cell's file.                                     *)
(*                                                                         *)
(* The server is external.  Its threads may send the event of a request    *)
(* before the response; it may answer with an error, in the response or in *)
(* the event, or not at all.                                               *)
(*                                                                         *)
(* The specification has names of its own, WebRTCSpec and its parts, for   *)
(* MeasurementProofs proves about it and about the UDP sessions together.  *)
(***************************************************************************)
EXTENDS Integers, SequencesExt

CONSTANTS
    MaxRuns,    \* bound: times that the matrix is run
    MaxNotices  \* bound: events that the server sends without a request

ASSUME WebRTCAssumption == {MaxRuns, MaxNotices} \subseteq Nat

VARIABLES
    matrix,     \* the shell script
    page,       \* the script in the browser
    server,     \* sent: what the server sends in a session; wire: what is to arrive
    peer,       \* the browser's peer connections
    disk        \* disk[c]: the record in the file of cell c

webRTCVars == <<matrix, page, server, peer, disk>>

-----------------------------------------------------------------------------
(***************************************************************************)
(* The steps of runEcho and runSfu that wait for something, and whose they *)
(* are: of the first handle and peer (the publisher's) or of the second    *)
(* (the subscriber's).  A message has a predicate for its answer.          *)
(***************************************************************************)
Step(does, whose)         == [do |-> does, of |-> whose, want |-> "none"]
Message(whose, predicate) == [do |-> "message", of |-> whose, want |-> predicate]

CreateHandle(h) == << Step("create", h), Step("attach", h) >>

RunEcho ==
    << Step("open", 1) >> \o CreateHandle(1) \o
    << Step("gather", 1), Message(1, "jsep"), Step("connect", 1), Step("collect", 1) >>

RunSfu ==
    << Step("open", 1) >> \o CreateHandle(1) \o
    << Message(1, "created"), Message(1, "joined"), Step("gather", 1), Message(1, "jsep"),
       Step("connect", 1) >> \o CreateHandle(2) \o
    << Message(2, "jsep"), Step("gather", 2), Message(2, "event"), Step("connect", 2),
       Step("collect", 2) >>

Cell    == 1 .. 2       \* direct and both turn modes are runEcho, sfu is runSfu
Program == << RunEcho, RunSfu >>[matrix.cell]
Now     == Program[page.at]

\* What Janus sends: sender is the handle of a plugin's message, room what a
\* plugin says of itself; body tells whether a description (jsep) or an error
\* comes with it.
Says(n, kind)         == [step |-> n, kind |-> kind, sender |-> 0, room |-> "none", body |-> "none"]
Plugin(n, kind, room) == [Says(n, kind) EXCEPT !.sender = Program[n].of, !.room = room]

Right(n) ==
    LET s == Program[n]
    IN  CASE s.want = "created" -> Plugin(n, "success", "created")
          [] s.want = "jsep"    ->
                [Plugin(n, "event", <<"event", "attached">>[s.of]) EXCEPT !.body = "jsep"]
          [] OTHER              -> Plugin(n, "event", s.want)
Wrong(n) == [Plugin(n, Right(n).kind, "event") EXCEPT !.body = "error"]

\* What the server may send in reply to the request of step n.
Replies(n) ==
    LET ack == IF Right(n).kind = "event" THEN {Says(n, "ack")} ELSE {}
    IN  {{}, {Says(n, "error")}} \cup
        IF Program[n].do = "message" THEN {ack, ack \cup {Right(n)}, ack \cup {Wrong(n)}}
        ELSE {{Says(n, "success")}}

Notice(k) == [Says(-k, "event") EXCEPT !.sender = 1, !.room = "event"]
-----------------------------------------------------------------------------
(***************************************************************************)
(* JanusSocket.                                                            *)
(***************************************************************************)
\* The predicates that runEcho and runSfu pass.
Predicate(s, m) == IF s.want = "jsep" THEN m.body = "jsep"
                   ELSE m.room = s.want \/ (s.want = "event" /\ m.room = "started")

\* Mutant: whose message it is is not looked at.
AnyPluginEvent(m, handle) == m.sender # 0 /\ m.kind \in {"event", "success"}

IsPluginEvent(m, handle) == m.sender = handle /\ m.kind \in {"event", "success"}

Response(s, m) == IsPluginEvent(m, s.of) /\ Predicate(s, m)
Event(s, m)    == IsPluginEvent(m, s.of) /\ (Predicate(s, m) \/ m.body = "error")

Fresh == [at |-> 1, wait |-> "none", response |-> Says(0, "none"), queue |-> << >>, taken |-> {},
          status |-> "running", connected |-> FALSE]

Advance(g)   == [g EXCEPT !.at = @ + 1, !.wait = "none", !.response = Says(0, "none")]
Raise(g)     == [g EXCEPT !.status = "error", !.wait = "none", !.queue = << >>]
Take(g, m)   == Advance([g EXCEPT !.taken = @ \cup {<<g.at, m>>}])
TakeEvent(g, m) == IF m.body = "error" THEN Raise(g) ELSE Take(g, m)

\* Messages that are not a plugin's are queued too; they fit no predicate and
\* are left out.
Queue(g, m) == [g EXCEPT !.queue = IF m.sender = 0 THEN @ ELSE Append(@, m)]

\* Mutant: what resolves a request is not queued.
DispatchOnce(g, m) ==
    IF g.wait = "request" /\ m.step = g.at
    THEN IF m.kind = "error" THEN Raise(g)
         ELSE [g EXCEPT !.wait = "resumed", !.response = m]
    ELSE IF g.wait = "event" /\ Event(Now, m) THEN TakeEvent(g, m)
    ELSE Queue(g, m)

\* A message resolves the pending request of its transaction, and whether it
\* does or not, it goes to the waiter or is queued.
Dispatch(g, m) ==
    IF g.wait = "request" /\ m.step = g.at
    THEN IF m.kind = "error" THEN Raise(g)
         ELSE [g EXCEPT !.wait = "resumed", !.response = m, !.queue = Queue(g, m).queue]
    ELSE IF g.wait = "event" /\ Event(Now, m) THEN TakeEvent(g, m)
    ELSE Queue(g, m)

\* The continuation of a request that was resolved: the rest of createHandle,
\* or of messageAndEvent, where next() takes the first event of the queue or
\* waits for one.
Continue(g) ==
    LET fitting == {i \in 1 .. Len(g.queue) : Event(Now, g.queue[i])}
        first   == CHOOSE i \in fitting : \A j \in fitting : i <= j
    IN  IF Now.do # "message" THEN Advance(g)
        ELSE IF Response(Now, g.response) THEN Take(g, g.response)
        ELSE IF fitting # {}
        THEN TakeEvent([g EXCEPT !.queue = RemoveAt(g.queue, first)], g.queue[first])
        ELSE [g EXCEPT !.wait = "event", !.response = Says(0, "none")]
-----------------------------------------------------------------------------
(***************************************************************************)
(* A session.  Between two tasks of the browser's event loop no request is *)
(* resolved without its continuation having run.                           *)
(***************************************************************************)
Off == [run |-> 0, state |-> "idle", cell |-> 1, selected |-> {}]

NoFile  == [own |-> FALSE, status |-> "none", connected |-> FALSE, sound |-> FALSE]
Nothing == [sent |-> {}, wire |-> {}]
NoPeers == << "new", "new" >>

WebRTCInit ==
    /\ matrix = Off /\ page = Fresh /\ server = Nothing /\ peer = NoPeers
    /\ disk = [c \in Cell |-> NoFile]

InSession == matrix.state = "running" /\ page.status = "running"
Idle(does) == InSession /\ page.wait = "none" /\ Now.do = does

\* open, makeMedia, waitGathering.
OpenOrGather ==
    /\ Idle("open") \/ Idle("gather")
    /\ page' \in {Advance(page), Raise(page)}
    /\ UNCHANGED <<matrix, server, peer, disk>>

Request ==
    /\ Idle("create") \/ Idle("attach") \/ Idle("message")
    /\ page' = [page EXCEPT !.wait = "request"]
    /\ \E R \in Replies(page.at) :
          server' = [sent |-> server.sent \cup R, wire |-> server.wire \cup R]
    /\ UNCHANGED <<matrix, peer, disk>>

\* The server tells the publisher what happens in its room.
Tell ==
    /\ InSession /\ matrix.cell = 2
    /\ \E n \in 1 .. Len(Program) : Program[n].want = "joined" /\ Right(n) \in server.sent
    /\ \E k \in 1 .. MaxNotices :
          /\ Notice(k) \notin server.sent
          /\ server' = [sent |-> server.sent \cup {Notice(k)}, wire |-> server.wire \cup {Notice(k)}]
    /\ UNCHANGED <<matrix, page, peer, disk>>

\* The responses that are not a plugin's come in the order of the requests.
Deliver ==
    /\ InSession /\ page.wait # "resumed"
    /\ \E m \in server.wire :
          /\ m.sender = 0 => \A r \in server.wire : r.sender = 0 => m.step <= r.step
          /\ page' = Dispatch(page, m)
          /\ server' = [server EXCEPT !.wire = @ \ {m}]
    /\ UNCHANGED <<matrix, peer, disk>>

Resume ==
    /\ InSession /\ page.wait = "resumed"
    /\ page' = Continue(page)
    /\ UNCHANGED <<matrix, server, peer, disk>>

\* The timer of the request, of next or of waitConnected.
TimerFires ==
    /\ InSession /\ page.wait \in {"request", "event", "connect"}
    /\ page' = Raise(page)
    /\ UNCHANGED <<matrix, server, peer, disk>>

WaitConnected ==
    /\ Idle("connect")
    /\ page' = IF peer[Now.of] = "connected" THEN Advance(page) ELSE [page EXCEPT !.wait = "connect"]
    /\ UNCHANGED <<matrix, server, peer, disk>>

\* The last message about peer p, its offer or its answer; a peer connects
\* only when the server has accepted it.
Handshake(p) == CHOOSE n \in 1 .. Len(Program) :
    /\ Program[n].do = "message" /\ Program[n].of = p
    /\ \A k \in n + 1 .. Len(Program) : Program[k].do = "message" => Program[k].of # p

PeerChanges ==
    /\ InSession /\ page.wait # "resumed"
    /\ \E p \in 1 .. 2, s \in {"connected", "failed"} :
          /\ \E n \in 1 .. Len(Program) : Program[n].of = p /\ page.at >= Handshake(p)
          /\ \/ peer[p] = "new" /\ (s = "connected" => Right(Handshake(p)) \in server.sent)
             \/ peer[p] = "connected" /\ s = "failed"
          /\ peer' = [peer EXCEPT ![p] = s]
          /\ page' = IF page.wait # "connect" \/ Now.of # p THEN page
                     ELSE IF s = "connected" THEN Advance(page) ELSE Raise(page)
    /\ UNCHANGED <<matrix, server, disk>>

\* collect and finalEvidence: the states are those of the last sample.
Collect ==
    /\ Idle("collect")
    /\ page' = [page EXCEPT !.status = "complete", !.queue = << >>,
                            !.connected = \A p \in 1 .. Now.of : peer[p] = "connected"]
    /\ UNCHANGED <<matrix, server, peer, disk>>
-----------------------------------------------------------------------------
(***************************************************************************)
(* browser_runner.py's main, and run_remote_matrix.sh.                     *)
(***************************************************************************)
\* Every message has got its own answer, and none an error.
Own(n, m) == m.step = n /\ m.body # "error"
Sound ==
    /\ {answer[1] : answer \in page.taken} = {n \in 1 .. Len(Program) : Program[n].do = "message"}
    /\ \A answer \in page.taken : Own(answer[1], answer[2])

\* The record in a file: whether this run of the matrix has written it, and
\* whether the session was sound.
BuildRecord == [own |-> TRUE, status |-> page.status, connected |-> page.connected,
                sound |-> page.status = "complete" /\ Sound]
Torn        == [NoFile EXCEPT !.own = TRUE, !.status = "torn"]

\* The runner has ended, and the shell with it if it failed.
Exit(ok) ==
    /\ LET later == {c \in matrix.selected : c > matrix.cell}
       IN  matrix' = IF ~ok THEN [matrix EXCEPT !.state = "failed"]
                     ELSE IF later = {} THEN [matrix EXCEPT !.state = "ok"]
                     ELSE [matrix EXCEPT !.cell = CHOOSE c \in later : \A d \in later : c <= d]
    /\ page' = Fresh /\ server' = Nothing /\ peer' = NoPeers

Begin ==
    /\ matrix.state # "running" /\ matrix.run < MaxRuns
    /\ \E S \in {{1}, {2}, Cell} :
          matrix' = [run |-> matrix.run + 1, state |-> "running", selected |-> S,
                     cell |-> CHOOSE c \in S : \A d \in S : c <= d]
    /\ disk' = [c \in Cell |-> [disk[c] EXCEPT !.own = FALSE]]
    /\ UNCHANGED <<page, server, peer>>

\* Mutant: the runner's exit code does not depend on the status.
WriteRecordAndReturnZero ==
    /\ matrix.state = "running" /\ page.status # "running"
    /\ disk' = [disk EXCEPT ![matrix.cell] = BuildRecord]
    /\ Exit(TRUE)

\* The record is written, also that of a session with an error, for which the
\* runner returns 1; or the runner is stopped while it writes.
WriteRecord ==
    /\ matrix.state = "running" /\ page.status # "running"
    /\ \/ disk' = [disk EXCEPT ![matrix.cell] = BuildRecord] /\ Exit(page.status = "complete")
       \/ disk' = [disk EXCEPT ![matrix.cell] = Torn] /\ Exit(FALSE)

\* The script timeout, or any other exception: the browser is closed and no
\* record is written.
NoRecord ==
    /\ matrix.state = "running"
    /\ Exit(FALSE)
    /\ UNCHANGED disk

Session ==
    \/ OpenOrGather \/ Request \/ Tell \/ Deliver \/ Resume \/ TimerFires
    \/ WaitConnected \/ PeerChanges \/ Collect

WebRTCNext == Begin \/ Session \/ WriteRecord \/ NoRecord

WebRTCSpec == WebRTCInit /\ [][WebRTCNext]_webRTCVars

\* What validate_session asks of the record of a cell.
Validates(r) == r.status = "complete" /\ r.connected

-----------------------------------------------------------------------------
(***************************************************************************)
(* Properties.                                                             *)
(***************************************************************************)
\* No answer is lost on its way to the step that waits for it, in whatever
\* order responses and events arrive: the script never waits for a timer to
\* tell what the server has said.
AnswerIsSeen ==
    InSession /\ page.wait \in {"request", "event"} =>
        \A m \in server.sent \ server.wire : m.step = page.at => m.kind = "ack"

\* A record that validates comes from a session in which every message got
\* its own answer, and none an error: an answer to an earlier message or a
\* message to another handle was never taken for it, and where an error event
\* passes for an answer, to "start", the peer does not connect.  When the
\* matrix ends well, the files of its cells hold records of this matrix, and
\* of complete sessions, although older records were there.
RecordsAreEvidence ==
    /\ \A c \in Cell : Validates(disk[c]) => disk[c].sound
    /\ matrix.state = "ok" =>
          \A c \in matrix.selected : disk[c].own /\ disk[c].status = "complete"

=============================================================================
