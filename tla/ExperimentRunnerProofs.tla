------------------------ MODULE ExperimentRunnerProofs ------------------------
(***************************************************************************)
(* Proofs of the safety properties of ExperimentRunner, for any number of  *)
(* processes on the host, attempts, phases and windows, and any faults;    *)
(* and, after them, of the policies that the runner builds for a run.      *)
(***************************************************************************)
EXTENDS ExperimentRunner, SwitchPolicy, TLAPS

Early   == {"verify_clean", "setup", "build", "undo", "start_server", "impair", "collect",
            "measuring", "stop_server", "capture_status"}
Late    == {"verify_cleanup", "finalise", "retain", "returned"}
Serving == {"impair", "collect", "measuring", "stop_server"}
Closed  == Stage \ Serving

PC     == Stage \cup Handler \cup {"unwind"} \cup Ended
Bundle == {"none", "open", "complete", "incomplete", "quarantined"}

HostOK ==
    /\ lab \in [state : {"clean", "up", "residue"}, by : Owner]
    /\ lab.by = Nobody <=> lab.state = "clean"
    /\ servers \subseteq Attempt /\ lost \subseteq servers /\ silent \subseteq servers
    /\ dirty \subseteq Attempt /\ robbed \subseteq Attempt /\ cut \subseteq Attempt

\* A server is in a namespace without a name only when its attempt has failed
\* to clean up, or another attempt has taken down the lab of this one.
LostHasCause == lost \subseteq dirty \cup robbed

\* Where an attempt is, and whether it has tried to clean up.
Course(r) ==
    /\ run[r].pc # "idle" => run[r].attempt >= 1
    /\ run[r].pc \in Early => ~run[r].attempted
    /\ run[r].pc \in Stage => run[r].bundle = "open"
    /\ run[r].pc \in Late => run[r].attempted
    /\ run[r].swept => run[r].pc \in Cleaning
    /\ run[r].swept /\ run[r].pc \in {"cleanup", "recover"} => run[r].attempted
    /\ run[r].pc = "unwind" => Me(r) \in cut
    /\ run[r].pc = "killed" => Me(r) \in dirty

\* An attempt that has cleaned up has no names on the host, unless its cleanup
\* failed; one that has verified it has none at all.
NoNames(r) ==
    /\ Me(r) \notin dirty /\ (run[r].pc = "raised" \/ (run[r].attempted /\ ~run[r].swept)) =>
          lab.by # Me(r)
    /\ (run[r].pc = "finalise" \/ run[r].bundle = "complete") /\ ~run[r].blind => lab.by # Me(r)

\* The server of an attempt that has not failed to stop or to clean up: the
\* handle of it is there until it is stopped, and its namespace is the
\* attempt's own unless another one has taken that down.
Kept(r) ==
    /\ run[r].pc = "failed" => run[r].started /\ run[r].handle
    /\ run[r].pc # "recover" /\ ~run[r].attempted
    /\ (run[r].pc = "unwind" /\ run[r].swept) \/ run[r].pc = "raised" =>
          Me(r) \in lost /\ Me(r) \in cut
    /\ lab.by = Me(r) \/ Me(r) \in robbed

ServerOf(r) ==
    /\ run[r].pc \in Closed \/ run[r].bundle = "complete" => Me(r) \notin servers
    /\ run[r].pc \in Serving => run[r].started /\ run[r].handle
    /\ Me(r) \in servers /\ Me(r) \notin dirty => Kept(r)
    /\ run[r].pc = "start_server" /\ Me(r) \notin dirty => lab.by = Me(r) \/ Me(r) \in robbed

\* What FailureIsEvidence says of one process, and what the handler finds.
Evident(r) ==
    /\ run[r].pc \in Handler =>
          run[r].bundle = "open" \/ (run[r].bundle = "quarantined" /\ run[r].torn)
    /\ Me(r) \notin cut /\ run[r].pc = "raised" => run[r].torn
    /\ Me(r) \notin cut /\ run[r].pc = "returned" => run[r].bundle \in {"complete", "incomplete"}

\* No server bears the name of an attempt to come.
Unused(r) == \A n \in 1 .. MaxAttempts : n > run[r].attempt => <<r, n>> \notin servers

Fits(r) == Course(r) /\ NoNames(r) /\ ServerOf(r) /\ Evident(r) /\ Unused(r)

IInv == /\ TypeOK /\ ResidueHasCause /\ LostHasCause
        /\ \A r \in Runner : Fits(r)

-----------------------------------------------------------------------------
USE RunnerAssumption

\* Attempts are told apart by process and number.
LEMMA Names ==
  /\ \A r \in Runner, n \in 1 .. MaxAttempts : <<r, n>> \in Attempt
  /\ \A a \in Attempt : a # Nobody
  /\ \A r, n : <<r, n>> # Nobody
  /\ \A r, q, m, n : <<r, m>> = <<q, n>> => r = q /\ m = n
  /\ Nobody \in Owner /\ \A a \in Attempt : a \in Owner
BY DEF Attempt, Nobody, Owner

LEMMA Host == TypeOK <=> HostOK /\ run \in [Runner -> Local]
BY DEF TypeOK, HostOK

LEMMA Parts ==
  ASSUME NEW l \in Local
  PROVE  /\ l.pc \in PC /\ l.attempt \in 0 .. MaxAttempts
         /\ l.started \in BOOLEAN /\ l.handle \in BOOLEAN /\ l.attempted \in BOOLEAN
         /\ l.swept \in BOOLEAN /\ l.phase \in 1 .. Phases /\ l.window \in 1 .. Windows
         /\ l.bundle \in Bundle /\ l.torn \in BOOLEAN
         /\ l.disturbed \in BOOLEAN /\ l.blind \in BOOLEAN
BY DEF Local, PC, Bundle

LEMMA Codes ==
  /\ \A s \in Stage \cup Handler \cup {"unwind"} \cup Ended : s \in PC
  /\ \A s \in {"verify_clean", "setup", "build", "undo", "start_server", "impair", "collect",
               "measuring", "stop_server", "capture_status", "cleanup", "verify_cleanup",
               "finalise", "failed", "recover", "retain", "unwind", "idle", "returned",
               "raised", "killed"} : s \in PC
  /\ \A b \in {"none", "open", "complete", "incomplete", "quarantined"} : b \in Bundle
BY DEF PC, Bundle, Stage, Handler, Ended

LEMMA Updates ==
  ASSUME NEW l \in Local
  PROVE  /\ \A x \in PC : [l EXCEPT !.pc = x] \in Local
         /\ \A x \in PC, b \in Bundle : [l EXCEPT !.pc = x, !.bundle = b] \in Local
         /\ \A x \in PC, b \in Bundle, t \in BOOLEAN :
               [l EXCEPT !.pc = x, !.bundle = b, !.torn = t] \in Local
         /\ \A x \in PC, s, h \in BOOLEAN : [l EXCEPT !.pc = x, !.started = s, !.handle = h] \in Local
         /\ \A d \in BOOLEAN : [l EXCEPT !.disturbed = d] \in Local
         /\ \A x \in PC, d \in BOOLEAN : [l EXCEPT !.pc = x, !.disturbed = d] \in Local
         /\ \A x \in PC, w \in 1 .. Windows : [l EXCEPT !.pc = x, !.window = w] \in Local
         /\ \A x \in PC, p \in 1 .. Phases, w \in 1 .. Windows :
               [l EXCEPT !.pc = x, !.phase = p, !.window = w] \in Local
         /\ \A s, a \in BOOLEAN : [l EXCEPT !.swept = s, !.attempted = a] \in Local
         /\ \A x \in PC, s \in BOOLEAN : [l EXCEPT !.pc = x, !.swept = s] \in Local
         /\ \A x \in PC, b \in BOOLEAN : [l EXCEPT !.pc = x, !.blind = b] \in Local
         /\ \A x \in PC, h \in BOOLEAN : [l EXCEPT !.pc = x, !.handle = h] \in Local
         /\ \A x \in PC, s, a \in BOOLEAN, b \in Bundle :
               [l EXCEPT !.pc = x, !.swept = s, !.attempted = a, !.bundle = b] \in Local
<1>1. /\ \A x \in PC : [l EXCEPT !.pc = x] \in Local
      /\ \A x \in PC, b \in Bundle : [l EXCEPT !.pc = x, !.bundle = b] \in Local
      /\ \A x \in PC, b \in Bundle, t \in BOOLEAN :
            [l EXCEPT !.pc = x, !.bundle = b, !.torn = t] \in Local
  BY DEF Local, PC, Bundle
<1>2. /\ \A x \in PC, s, h \in BOOLEAN : [l EXCEPT !.pc = x, !.started = s, !.handle = h] \in Local
      /\ \A d \in BOOLEAN : [l EXCEPT !.disturbed = d] \in Local
      /\ \A x \in PC, d \in BOOLEAN : [l EXCEPT !.pc = x, !.disturbed = d] \in Local
  BY DEF Local, PC
<1>3. /\ \A x \in PC, w \in 1 .. Windows : [l EXCEPT !.pc = x, !.window = w] \in Local
      /\ \A x \in PC, p \in 1 .. Phases, w \in 1 .. Windows :
            [l EXCEPT !.pc = x, !.phase = p, !.window = w] \in Local
  BY DEF Local, PC
<1>4. /\ \A s, a \in BOOLEAN : [l EXCEPT !.swept = s, !.attempted = a] \in Local
      /\ \A x \in PC, s \in BOOLEAN : [l EXCEPT !.pc = x, !.swept = s] \in Local
  BY DEF Local, PC
<1>5. /\ \A x \in PC, b \in BOOLEAN : [l EXCEPT !.pc = x, !.blind = b] \in Local
      /\ \A x \in PC, h \in BOOLEAN : [l EXCEPT !.pc = x, !.handle = h] \in Local
  BY DEF Local, PC
<1>6. \A x \in PC, s, a \in BOOLEAN, b \in Bundle :
         [l EXCEPT !.pc = x, !.swept = s, !.attempted = a, !.bundle = b] \in Local
  BY DEF Local, PC, Bundle
<1> QED
  BY <1>1, <1>2, <1>3, <1>4, <1>5, <1>6

LEMMA Begun == ASSUME NEW n \in 0 .. MaxAttempts PROVE Fresh(n) \in Local
BY DEF Local, Fresh, Stage

LEMMA InitIInv == Init => IInv
<1> SUFFICES ASSUME Init PROVE IInv
  OBVIOUS
<1> DEFINE l == [Fresh(0) EXCEPT !.pc = "idle", !.bundle = "none"]
<1>1. /\ l \in Local /\ l.pc = "idle" /\ ~l.attempted /\ ~l.swept /\ l.bundle = "none"
      /\ l.attempt = 0
  <2>1. Fresh(0) \in Local
    BY Begun
  <2>2. "idle" \in PC /\ "none" \in Bundle
    BY Codes
  <2>3. l \in Local
    BY <2>1, <2>2, Updates
  <2>4. /\ l.pc = "idle" /\ l.bundle = "none" /\ l.attempted = Fresh(0).attempted
        /\ l.swept = Fresh(0).swept /\ l.attempt = Fresh(0).attempt
    BY <2>1 DEF Local
  <2>5. Fresh(0).attempted = FALSE /\ Fresh(0).swept = FALSE /\ Fresh(0).attempt = 0
    BY DEF Fresh
  <2> QED
    BY <2>3, <2>4, <2>5
<1>2. \A r \in Runner : run[r] = l
  BY DEF Init
<1>3. run \in [Runner -> Local]
  BY <1>1 DEF Init
<1> HIDE DEF l
<1>4. lab.by = Nobody /\ HostOK /\ servers = {} /\ lost = {}
  BY Names DEF Init, Clean, HostOK
<1>5. TypeOK
  BY <1>3, <1>4, Host
<1>6. \A r \in Runner : Fits(r)
  BY <1>1, <1>2, <1>4 DEF Fits, Course, NoNames, ServerOf, Evident, Unused, Early, Late, Stage,
     Handler, Serving, Closed
<1> QED
  BY <1>4, <1>5, <1>6 DEF IInv, ResidueHasCause, LostHasCause

-----------------------------------------------------------------------------
(***************************************************************************)
(* A step of one process, as the others see it.                            *)
(***************************************************************************)
\* Process r takes a step to l.
Takes(r, l) ==
    /\ l \in Local /\ run' = [run EXCEPT ![r] = l]
    /\ l.attempt = run[r].attempt /\ run[r].pc # "idle" /\ l.pc # "idle"

\* What it may do to the host: names and servers are added in its own name
\* only, and what it takes from another attempt is remembered.
Fair(r) ==
    /\ HostOK'
    /\ dirty \subseteq dirty' /\ dirty' \subseteq dirty \cup {Me(r)}
    /\ cut \subseteq cut' /\ cut' \subseteq cut \cup {Me(r)}
    /\ robbed \subseteq robbed'
    /\ lab'.by \in {lab.by, Nobody, Me(r)}
    /\ lab'.by # lab.by => lab.by \in robbed' \cup {Nobody, Me(r)}
    /\ servers' \subseteq servers \cup {Me(r)}
    /\ lost \cap servers' \subseteq lost'
    /\ LostHasCause'

LEMMA Seat ==
  ASSUME IInv, NEW r \in Runner, NEW l, Takes(r, l)
  PROVE  /\ run[r] \in Local /\ run'[r] = l /\ Me(r)' = Me(r)
         /\ Me(r) \in Attempt /\ Me(r) \in Owner /\ Me(r) # Nobody
         /\ HostOK /\ Fits(r)
<1>1. run[r] \in Local /\ run'[r] = l /\ Me(r)' = Me(r)
  BY DEF IInv, TypeOK, Takes, Me
<1>2. Me(r) \in Attempt
  <2>1. run[r].attempt \in 1 .. MaxAttempts
    BY <1>1, Parts DEF IInv, Fits, Course, Takes
  <2> QED
    BY <2>1, Names DEF Me
<1> QED
  BY <1>1, <1>2, Names, Host DEF IInv

LEMMA OneStep ==
  ASSUME IInv, NEW r \in Runner, NEW l, Takes(r, l), Fair(r), Fits(r)'
  PROVE  IInv'
<1>1. run' \in [Runner -> Local] /\ run'[r] = l /\ \A q \in Runner \ {r} : run'[q] = run[q]
  BY DEF IInv, TypeOK, Takes
<1>2. TypeOK'
  BY <1>1 DEF TypeOK, HostOK, Fair
<1>3. Me(r)' = Me(r) /\ \A q \in Runner : Me(q)' = Me(q)
  BY <1>1 DEF Me, Takes
<1>4. ASSUME NEW q \in Runner \ {r} PROVE Fits(q)'
  <2>1. Fits(q) /\ run'[q] = run[q] /\ Me(q)' = Me(q) /\ Me(q) # Me(r) /\ Me(q) # Nobody
    BY <1>1, <1>3, Names DEF IInv, Me
  <2>2. /\ Me(q) \in dirty' <=> Me(q) \in dirty
        /\ Me(q) \in cut' <=> Me(q) \in cut
        /\ Me(q) \in robbed => Me(q) \in robbed'
        /\ Me(q) \in servers' => Me(q) \in servers
        /\ lab'.by = Me(q) => lab.by = Me(q)
        /\ lab.by = Me(q) => lab'.by = Me(q) \/ Me(q) \in robbed'
        /\ Me(q) \in servers' /\ Me(q) \in lost => Me(q) \in lost'
    BY <2>1 DEF Fair
  <2>3. Course(q)' /\ NoNames(q)' /\ Evident(q)'
    BY <2>1, <2>2 DEF Fits, Course, NoNames, Evident
  <2>4. ServerOf(q)'
    BY <2>1, <2>2 DEF Fits, ServerOf, Kept
  <2>5. Unused(q)'
    <3>1. \A n : <<q, n>> # Me(r)
      BY Names DEF Me
    <3> QED
      BY <2>1, <3>1 DEF Fits, Unused, Fair
  <2> QED
    BY <2>3, <2>4, <2>5 DEF Fits
<1>5. \A a : Live(a) /\ a # Me(r) => Live(a)'
  BY <1>1, <1>3 DEF Live
<1>6. \A a : a = Me(r) /\ l.pc \notin Ended => Live(a)'
  BY <1>1, <1>3 DEF Live
<1>7. ASSUME NEW a, a = lab'.by, a # Nobody PROVE Live(a)' \/ a \in dirty'
  <2>1. CASE a = Me(r)
    <3>1. CASE l.pc \in Ended /\ Me(r) \notin dirty'
      BY <1>1, <1>3, <1>7, <2>1, <3>1 DEF Fits, Course, NoNames, Ended, Late, Takes, Cleaning
    <3> QED
      BY <1>6, <2>1, <3>1
  <2>2. CASE a # Me(r)
    <3>1. a = lab.by /\ dirty \subseteq dirty'
      BY <1>7, <2>2 DEF Fair
    <3> QED
      BY <1>5, <1>7, <2>2, <3>1 DEF IInv, ResidueHasCause
  <2> QED
    BY <2>1, <2>2
<1>8. ASSUME NEW a \in servers' PROVE Live(a)' \/ a \in dirty' \/ a \in cut' \cap robbed'
  <2>1. CASE a = Me(r)
    <3>1. CASE l.pc \in Ended /\ Me(r) \notin dirty'
      <4>1. Kept(r)' /\ Course(r)' /\ Evident(r)'
        BY <1>3, <1>8, <2>1, <3>1 DEF Fits, ServerOf
      <4>2. l.pc = "raised" /\ Me(r) \in lost' /\ Me(r) \in cut'
        BY <1>1, <1>3, <3>1, <4>1 DEF Kept, Course, Ended, Late, Takes
      <4> QED
        BY <2>1, <3>1, <4>2 DEF Fair, LostHasCause
    <3> QED
      BY <1>6, <2>1, <3>1
  <2>2. CASE a # Me(r)
    <3>1. a \in servers
      BY <1>8, <2>2 DEF Fair
    <3> QED
      BY <1>5, <2>2, <3>1 DEF IInv, ResidueHasCause, Fair
  <2> QED
    BY <2>1, <2>2
<1>9. ResidueHasCause'
  BY <1>7, <1>8 DEF ResidueHasCause
<1> QED
  BY <1>2, <1>4, <1>9 DEF IInv, Fair

\* A step that leaves the host as it is.
LEMMA Quiet ==
  ASSUME IInv, NEW r \in Runner, NEW l, Takes(r, l), UNCHANGED <<host, past>>
  PROVE  Fair(r)
BY Host DEF IInv, Fair, HostOK, LostHasCause, host, past, Owner, Attempt

\* A step in which at most the server of the process stops.
LEMMA Stopping ==
  ASSUME IInv, NEW r \in Runner, NEW l, Takes(r, l), UNCHANGED <<lab, robbed, cut>>,
         NEW S, S \subseteq servers, Remain(S), dirty' \in {dirty, dirty \cup {Me(r)}}
  PROVE  Fair(r) /\ servers' = S /\ lost' \subseteq lost
<1>1. Me(r) \in Attempt /\ HostOK
  BY Seat
<1>2. servers' = S /\ lost' = lost \cap S /\ silent' = silent \cap S
  BY DEF Remain
<1> QED
  BY <1>1, <1>2 DEF IInv, Fair, HostOK, LostHasCause, Owner, Attempt

\* What a step that goes to another stage changes of its process.
LEMMA Going ==
  ASSUME IInv, NEW r \in Runner, NEW x \in PC, run[r].pc # "idle", x # "idle", Go(r, x)
  PROVE  \E l : /\ Takes(r, l) /\ l.pc = x /\ l.bundle = run[r].bundle
                /\ l.started = run[r].started /\ l.handle = run[r].handle
                /\ l.attempted = run[r].attempted /\ l.swept = run[r].swept
                /\ l.torn = run[r].torn /\ l.blind = run[r].blind
<1>1. run[r] \in Local
  BY DEF IInv, TypeOK
<1> DEFINE l == [run[r] EXCEPT !.pc = x]
<1>2. l \in Local
  BY <1>1, Updates
<1>3. /\ l.pc = x /\ l.attempt = run[r].attempt /\ l.bundle = run[r].bundle
      /\ l.started = run[r].started /\ l.handle = run[r].handle
      /\ l.attempted = run[r].attempted /\ l.swept = run[r].swept
      /\ l.torn = run[r].torn /\ l.blind = run[r].blind
  BY <1>1 DEF Local
<1>4. run' = [run EXCEPT ![r] = l]
  BY DEF Go
<1> HIDE DEF l
<1> QED
  BY <1>2, <1>3, <1>4 DEF Takes

\* A step that leaves the host as it is keeps the invariant when the process
\* keeps what is said of it.
LEMMA QuietStep ==
  ASSUME IInv, NEW r \in Runner, NEW l, Takes(r, l), UNCHANGED <<host, past>>,
         Course(r)', NoNames(r)', ServerOf(r)', Evident(r)'
  PROVE  IInv'
<1>1. Unused(r)'
  BY Seat DEF Fits, Unused, Takes, host
<1> QED
  BY <1>1, Quiet, OneStep DEF Fits

\* Between two stages nothing changes that the invariant speaks of.
LEMMA StageStep ==
  ASSUME IInv, NEW r \in Runner, NEW l, Takes(r, l), UNCHANGED <<host, past>>,
         run[r].pc \in Stage \ Cleaning,
         \/ l.pc = "setup" /\ run[r].pc = "verify_clean"
         \/ l.pc \in Serving /\ run[r].pc \in Serving
         \/ l.pc = "cleanup" /\ run[r].pc = "capture_status"
         \/ l.pc = "failed",
         l.bundle = run[r].bundle, l.started = run[r].started, l.handle = run[r].handle,
         l.attempted = run[r].attempted, l.swept = run[r].swept
  PROVE  IInv'
<1>1. /\ run'[r] = l /\ Me(r)' = Me(r) /\ l.attempt = run[r].attempt
      /\ Fits(r) /\ lab' = lab /\ servers' = servers /\ lost' = lost
      /\ dirty' = dirty /\ robbed' = robbed /\ cut' = cut
  BY Seat DEF Takes, host, past
<1>2. run[r].pc \in Stage /\ run[r].pc \notin Cleaning /\ ~run[r].swept /\ run[r].bundle = "open"
  BY <1>1 DEF Fits, Course
<1>3. Course(r)'
  BY <1>1, <1>2 DEF Fits, Course, Stage, Early, Late, Serving, Cleaning
<1>4. NoNames(r)'
  BY <1>1, <1>2 DEF Fits, NoNames, Serving
<1>5. ServerOf(r)'
  <2>1. l.pc \in Closed => run[r].pc \in Closed
    BY DEF Closed, Stage, Serving
  <2>2. l.pc \in Serving => run[r].pc \in Serving
    BY DEF Serving
  <2>3. run[r].pc \in Closed \/ run[r].pc \in Serving
    BY <1>2 DEF Closed
  <2> QED
    BY <1>1, <1>2, <2>1, <2>2, <2>3 DEF Fits, ServerOf, Kept, Serving
<1>6. Evident(r)'
  BY <1>1, <1>2 DEF Fits, Evident, Handler, Serving
<1> QED
  BY <1>3, <1>4, <1>5, <1>6, QuietStep

LEMMA StepStage ==
  ASSUME IInv, NEW r \in Runner,
         \/ VerifyClean(r) \/ Impair(r) \/ OpenWindow(r) \/ CloseWindow(r)
         \/ CaptureStatus(r) \/ Error(r)
  PROVE  IInv'
<1>0. run[r] \in Local
  BY DEF IInv, TypeOK
<1>1. CASE \E x \in PC \ {"idle"} :
             /\ Go(r, x) /\ UNCHANGED <<host, past>> /\ run[r].pc \in Stage \ Cleaning
             /\ \/ x = "setup" /\ run[r].pc = "verify_clean"
                \/ x \in Serving /\ run[r].pc \in Serving
                \/ x = "cleanup" /\ run[r].pc = "capture_status"
                \/ x = "failed"
  <2>1. PICK x \in PC \ {"idle"} :
             /\ Go(r, x) /\ UNCHANGED <<host, past>> /\ run[r].pc \in Stage \ Cleaning
             /\ \/ x = "setup" /\ run[r].pc = "verify_clean"
                \/ x \in Serving /\ run[r].pc \in Serving
                \/ x = "cleanup" /\ run[r].pc = "capture_status"
                \/ x = "failed"
    BY <1>1
  <2>2. run[r].pc # "idle" /\ x # "idle" /\ x \in PC
    BY <2>1 DEF Stage
  <2>3. PICK l : /\ Takes(r, l) /\ l.pc = x /\ l.bundle = run[r].bundle
                 /\ l.started = run[r].started /\ l.handle = run[r].handle
                 /\ l.attempted = run[r].attempted /\ l.swept = run[r].swept
                 /\ l.torn = run[r].torn /\ l.blind = run[r].blind
    BY <2>1, <2>2, Going
  <2> QED
    BY <2>1, <2>3, StageStep
<1>2. CASE VerifyClean(r)
  BY <1>1, <1>2, Codes DEF VerifyClean, At, Stage, Cleaning
<1>3. CASE Impair(r)
  BY <1>1, <1>3, Codes DEF Impair, At, Stage, Cleaning, Serving
<1>4. CASE OpenWindow(r)
  <2>1. CASE Go(r, "failed")
    BY <1>1, <1>4, <2>1, Codes DEF OpenWindow, At, Stage, Cleaning
  <2>2. CASE ~Go(r, "failed")
    <3> DEFINE d == run[r].disturbed \/ ~Own(r)
               l == [run[r] EXCEPT !.pc = "measuring", !.disturbed = d]
    <3>1. run' = [run EXCEPT ![r] = l] /\ run[r].pc = "collect" /\ UNCHANGED <<host, past>>
      BY <1>0, <1>4, <2>2 DEF OpenWindow, At, IInv, TypeOK
    <3>2. d \in BOOLEAN
      BY <1>0, Parts
    <3> HIDE DEF d
    <3>3. l \in Local
      BY <1>0, <3>2, Updates, Codes
    <3>4. /\ l.pc = "measuring" /\ l.attempt = run[r].attempt /\ l.bundle = run[r].bundle
          /\ l.started = run[r].started /\ l.handle = run[r].handle
          /\ l.attempted = run[r].attempted /\ l.swept = run[r].swept
      BY <1>0 DEF Local
    <3> HIDE DEF l
    <3>5. Takes(r, l)
      BY <3>1, <3>3, <3>4 DEF Takes
    <3> QED
      BY <3>1, <3>4, <3>5, StageStep DEF Stage, Cleaning, Serving
  <2> QED
    BY <2>1, <2>2
<1>5. CASE CloseWindow(r)
  <2> DEFINE d == run[r].disturbed \/ ~Own(r)
             measured == [run[r] EXCEPT !.disturbed = d]
             l == IF measured.window < Windows
                  THEN [measured EXCEPT !.pc = "collect", !.window = @ + 1]
                  ELSE IF measured.phase < Phases
                  THEN [measured EXCEPT !.pc = "impair", !.phase = @ + 1, !.window = 1]
                  ELSE [measured EXCEPT !.pc = "stop_server"]
  <2>1. run' = [run EXCEPT ![r] = l] /\ run[r].pc = "measuring" /\ UNCHANGED <<host, past>>
    BY <1>5 DEF CloseWindow, At
  <2>2. d \in BOOLEAN
    BY <1>0, Parts
  <2> HIDE DEF d
  <2>3. measured \in Local
    BY <1>0, <2>2, Updates
  <2>4. /\ measured.attempt = run[r].attempt /\ measured.bundle = run[r].bundle
        /\ measured.started = run[r].started /\ measured.handle = run[r].handle
        /\ measured.attempted = run[r].attempted /\ measured.swept = run[r].swept
    BY <1>0 DEF Local
  <2> HIDE DEF measured
  <2>5. /\ l \in Local /\ l.pc \in {"collect", "impair", "stop_server"}
        /\ l.attempt = measured.attempt /\ l.bundle = measured.bundle
        /\ l.started = measured.started /\ l.handle = measured.handle
        /\ l.attempted = measured.attempted /\ l.swept = measured.swept
    <3>1. measured.window \in 1 .. Windows /\ measured.phase \in 1 .. Phases
      BY <2>3, Parts
    <3>2. CASE measured.window < Windows
      <4>1. measured.window + 1 \in 1 .. Windows /\ "collect" \in PC
        BY <3>1, <3>2, Codes
      <4>2. l = [measured EXCEPT !.pc = "collect", !.window = measured.window + 1]
        BY <3>2
      <4>3. l \in Local
        BY <2>3, <4>1, <4>2, Updates
      <4> QED
        BY <2>3, <4>2, <4>3 DEF Local
    <3>3. CASE ~(measured.window < Windows) /\ measured.phase < Phases
      <4>1. measured.phase + 1 \in 1 .. Phases /\ 1 \in 1 .. Windows /\ "impair" \in PC
        BY <3>1, <3>3, Codes
      <4>2. l = [measured EXCEPT !.pc = "impair", !.phase = measured.phase + 1, !.window = 1]
        BY <3>3
      <4>3. \A x \in PC, p \in 1 .. Phases, w \in 1 .. Windows :
               [measured EXCEPT !.pc = x, !.phase = p, !.window = w] \in Local
        BY <2>3, Updates
      <4>4. l \in Local
        BY <4>1, <4>2, <4>3
      <4> QED
        BY <2>3, <4>2, <4>4 DEF Local
    <3>4. CASE ~(measured.window < Windows) /\ ~(measured.phase < Phases)
      <4>1. l = [measured EXCEPT !.pc = "stop_server"]
        BY <3>4
      <4>2. l \in Local
        BY <2>3, <4>1, Updates, Codes
      <4> QED
        BY <2>3, <4>1, <4>2 DEF Local
    <3> QED
      BY <3>2, <3>3, <3>4
  <2> HIDE DEF l
  <2>6. Takes(r, l)
    BY <2>1, <2>4, <2>5 DEF Takes
  <2> QED
    BY <2>1, <2>4, <2>5, <2>6, StageStep DEF Stage, Cleaning, Serving
<1>6. CASE CaptureStatus(r)
  BY <1>1, <1>6, Codes DEF CaptureStatus, At, Stage, Cleaning
<1>7. CASE Error(r)
  BY <1>1, <1>7, Codes DEF Error
<1> QED
  BY <1>2, <1>3, <1>4, <1>5, <1>6, <1>7

\* The steps after the cleanup that leave the host as it is.
LEMMA StepVerifyCleanup ==
  ASSUME IInv, NEW r \in Runner, VerifyCleanup(r)
  PROVE  IInv'
<1>0. run[r] \in Local /\ run[r].pc = "verify_cleanup" /\ UNCHANGED <<host, past>>
  BY DEF IInv, TypeOK, VerifyCleanup, At
<1>1. CASE Go(r, "failed")
  <2>1. PICK l : /\ Takes(r, l) /\ l.pc = "failed" /\ l.bundle = run[r].bundle
                 /\ l.started = run[r].started /\ l.handle = run[r].handle
                 /\ l.attempted = run[r].attempted /\ l.swept = run[r].swept
                 /\ l.torn = run[r].torn /\ l.blind = run[r].blind
    BY <1>0, <1>1, Going, Codes
  <2> QED
    BY <1>0, <2>1, StageStep DEF Stage, Cleaning
<1>2. CASE \E b \in BOOLEAN : /\ run' = [run EXCEPT ![r] = [run[r] EXCEPT !.pc = "finalise", !.blind = b]]
                              /\ ~b => lab.by # Me(r)
  <2>1. PICK b \in BOOLEAN :
             /\ run' = [run EXCEPT ![r] = [run[r] EXCEPT !.pc = "finalise", !.blind = b]]
             /\ ~b => lab.by # Me(r)
    BY <1>2
  <2> DEFINE l == [run[r] EXCEPT !.pc = "finalise", !.blind = b]
  <2>2. l \in Local /\ run' = [run EXCEPT ![r] = l]
    BY <1>0, <2>1, Updates, Codes
  <2>3. /\ l.pc = "finalise" /\ l.blind = b /\ l.attempt = run[r].attempt
        /\ l.bundle = run[r].bundle /\ l.started = run[r].started /\ l.handle = run[r].handle
        /\ l.attempted = run[r].attempted /\ l.swept = run[r].swept /\ l.torn = run[r].torn
    BY <1>0 DEF Local
  <2> HIDE DEF l
  <2>4. Takes(r, l)
    BY <1>0, <2>2, <2>3 DEF Takes
  <2>5. /\ run'[r] = l /\ Me(r)' = Me(r) /\ Fits(r) /\ lab' = lab /\ servers' = servers
        /\ lost' = lost /\ dirty' = dirty /\ robbed' = robbed /\ cut' = cut
    BY <1>0, <2>4, Seat DEF host, past
  <2>6. ~run[r].swept /\ run[r].attempted /\ run[r].bundle = "open" /\ Me(r) \notin servers
    BY <1>0, <2>5 DEF Fits, Course, ServerOf, Cleaning, Late, Closed, Stage, Serving
  <2>7. Course(r)'
    BY <1>0, <2>3, <2>5, <2>6 DEF Course, Fits, Early, Late, Cleaning
  <2>8. NoNames(r)'
    BY <2>1, <2>3, <2>5, <2>6, <1>0 DEF NoNames, Fits
  <2>9. ServerOf(r)' /\ Evident(r)'
    BY <2>3, <2>5, <2>6 DEF ServerOf, Evident, Handler, Serving
  <2> QED
    BY <1>0, <2>4, <2>7, <2>8, <2>9, QuietStep
<1>3. CASE lab = Clean /\ Go(r, "finalise")
  <2>1. lab.by # Me(r)
    BY <1>3, Names DEF Clean, Me
  <2>2. run[r].blind \in BOOLEAN
           /\ [run[r] EXCEPT !.pc = "finalise"] = [run[r] EXCEPT !.pc = "finalise", !.blind = run[r].blind]
    BY <1>0 DEF Local
  <2> QED
    BY <1>2, <1>3, <2>1, <2>2 DEF Go
<1>4. CASE Unseen /\ run' = [run EXCEPT ![r].pc = "finalise", ![r].blind = TRUE]
  <2>1. run' = [run EXCEPT ![r] = [run[r] EXCEPT !.pc = "finalise", !.blind = TRUE]]
    BY <1>4 DEF IInv, TypeOK
  <2> QED
    BY <1>2, <2>1
<1> QED
  BY <1>1, <1>3, <1>4 DEF VerifyCleanup

\* Where a bundle is finalised, the handler goes on, or run ends.
LEMMA StepEnd ==
  ASSUME IInv, NEW r \in Runner,
         Finalise(r) \/ Retain(r) \/ HandlerGoesOn(r) \/ Unwind(r)
  PROVE  IInv'
<1> DEFINE Ends(x, b, t) ==
      /\ run' = [run EXCEPT ![r] = [run[r] EXCEPT !.pc = x, !.bundle = b, !.torn = t]]
      /\ \/ run[r].pc = "finalise" /\ x = "returned" /\ b = "complete" /\ t = run[r].torn
         \/ run[r].pc = "finalise" /\ x = "failed" /\ b = "quarantined" /\ t
         \/ run[r].pc = "retain" /\ x = "returned" /\ b = "incomplete" /\ run[r].bundle = "open"
         \/ run[r].pc = "retain" /\ x = "raised" /\ b \in {"open", "quarantined"} /\ t
         \/ /\ run[r].pc = "retain" /\ x = "raised" /\ run[r].bundle # "open"
            /\ b = run[r].bundle /\ t = run[r].torn
         \/ /\ run[r].pc = "recover" /\ run[r].attempted /\ ~run[r].swept /\ x = "retain"
            /\ b = run[r].bundle /\ t = run[r].torn
         \/ /\ run[r].pc = "unwind" /\ run[r].attempted /\ ~run[r].swept /\ x = "raised"
            /\ b = run[r].bundle /\ t = run[r].torn
<1>0. run[r] \in Local /\ UNCHANGED <<host, past>>
  BY DEF IInv, TypeOK, Finalise, Retain, HandlerGoesOn, Unwind
<1>1. ASSUME NEW x \in PC, NEW b \in Bundle, NEW t \in BOOLEAN, Ends(x, b, t)
      PROVE  IInv'
  <2> DEFINE l == [run[r] EXCEPT !.pc = x, !.bundle = b, !.torn = t]
  <2>1. l \in Local /\ run' = [run EXCEPT ![r] = l]
    BY <1>0, <1>1, Updates
  <2>2. /\ l.pc = x /\ l.bundle = b /\ l.torn = t /\ l.attempt = run[r].attempt
        /\ l.started = run[r].started /\ l.handle = run[r].handle
        /\ l.attempted = run[r].attempted /\ l.swept = run[r].swept /\ l.blind = run[r].blind
    BY <1>0 DEF Local
  <2> HIDE DEF l
  <2>3. Takes(r, l)
    BY <1>1, <2>1, <2>2 DEF Takes
  <2>4. /\ run'[r] = l /\ Me(r)' = Me(r) /\ Fits(r) /\ lab' = lab /\ servers' = servers
        /\ lost' = lost /\ dirty' = dirty /\ robbed' = robbed /\ cut' = cut
    BY <1>0, <2>3, Seat DEF host, past
  <2>5. ~run[r].swept /\ run[r].attempted
    BY <1>1, <2>4 DEF Fits, Course, Cleaning, Late
  <2>6. Course(r)'
    BY <1>1, <2>2, <2>4, <2>5 DEF Course, Fits, Early, Late, Stage
  <2>7. NoNames(r)'
    BY <1>1, <2>2, <2>4, <2>5 DEF NoNames, Fits
  <2>8. ServerOf(r)'
    <3>1. run[r].pc = "finalise" => Me(r) \notin servers
      BY <2>4 DEF Fits, ServerOf, Closed, Stage, Serving
    <3>2. x \notin Closed /\ x \notin Serving /\ x # "start_server"
      BY <1>1 DEF Closed, Stage, Serving
    <3>3. ASSUME Me(r) \in servers, Me(r) \notin dirty
          PROVE  /\ ~(run[r].pc # "recover" /\ ~run[r].attempted)
                 /\ Kept(r) /\ run[r].pc # "finalise"
      BY <2>4, <2>5, <3>1, <3>3 DEF Fits, ServerOf
    <3>4. ASSUME Me(r) \in servers, Me(r) \notin dirty PROVE Kept(r)'
      BY <1>1, <2>2, <2>4, <2>5, <3>3, <3>4 DEF Kept
    <3>5. b = "complete" => Me(r) \notin servers
      BY <1>1, <2>4, <3>1 DEF Fits, ServerOf
    <3> QED
      BY <2>2, <2>4, <3>2, <3>4, <3>5 DEF ServerOf
  <2>9. Evident(r)'
    BY <1>1, <2>2, <2>4 DEF Evident, Fits, Course, Handler, Stage
  <2> QED
    BY <1>0, <2>3, <2>6, <2>7, <2>8, <2>9, QuietStep
<1>2. \A x \in PC : Go(r, x) => run' = [run EXCEPT ![r] =
          [run[r] EXCEPT !.pc = x, !.bundle = run[r].bundle, !.torn = run[r].torn]]
  <2> SUFFICES ASSUME NEW x \in PC
               PROVE [run[r] EXCEPT !.pc = x] =
                     [run[r] EXCEPT !.pc = x, !.bundle = run[r].bundle, !.torn = run[r].torn]
    BY DEF Go
  <2> QED
    BY <1>0 DEF Local
<1>3. run[r].bundle \in Bundle /\ run[r].torn \in BOOLEAN
  BY <1>0, Parts
<1>4. CASE Finalise(r)
  <2>1. CASE run' = [run EXCEPT ![r].pc = "returned", ![r].bundle = "complete"]
    <3>1. run' = [run EXCEPT ![r] = [run[r] EXCEPT !.pc = "returned", !.bundle = "complete"]]
      BY <2>1 DEF IInv, TypeOK
    <3>2. [run[r] EXCEPT !.pc = "returned", !.bundle = "complete"]
             = [run[r] EXCEPT !.pc = "returned", !.bundle = "complete", !.torn = run[r].torn]
      BY <1>0 DEF Local
    <3>3. run[r].pc = "finalise"
      BY <1>4 DEF Finalise, At
    <3>4. Ends("returned", "complete", run[r].torn)
      BY <3>1, <3>2, <3>3
    <3> HIDE DEF Ends
    <3> QED
      BY <1>1, <1>3, <3>4, Codes
  <2>2. CASE run' = [run EXCEPT ![r].pc = "failed", ![r].bundle = "quarantined", ![r].torn = TRUE]
    <3>1. run' = [run EXCEPT ![r] =
             [run[r] EXCEPT !.pc = "failed", !.bundle = "quarantined", !.torn = TRUE]]
      BY <2>2 DEF IInv, TypeOK
    <3>2. Ends("failed", "quarantined", TRUE)
      BY <1>4, <3>1 DEF Finalise, At
    <3> HIDE DEF Ends
    <3> QED
      BY <1>1, <3>2, Codes
  <2> QED
    BY <1>4, <2>1, <2>2 DEF Finalise
<1>5. CASE Retain(r)
  <2>1. CASE /\ run[r].bundle = "open"
             /\ run' = [run EXCEPT ![r].pc = "returned", ![r].bundle = "incomplete"]
    <3>1. run' = [run EXCEPT ![r] = [run[r] EXCEPT !.pc = "returned", !.bundle = "incomplete"]]
      BY <2>1 DEF IInv, TypeOK
    <3>2. [run[r] EXCEPT !.pc = "returned", !.bundle = "incomplete"]
             = [run[r] EXCEPT !.pc = "returned", !.bundle = "incomplete", !.torn = run[r].torn]
      BY <1>0 DEF Local
    <3>3. Ends("returned", "incomplete", run[r].torn)
      BY <1>5, <2>1, <3>1, <3>2 DEF Retain, At
    <3> HIDE DEF Ends
    <3> QED
      BY <1>1, <1>3, <3>3, Codes
  <2>2. CASE \E b \in {"open", "quarantined"} :
                run' = [run EXCEPT ![r].pc = "raised", ![r].bundle = b, ![r].torn = TRUE]
    <3>1. PICK b \in {"open", "quarantined"} :
                run' = [run EXCEPT ![r].pc = "raised", ![r].bundle = b, ![r].torn = TRUE]
      BY <2>2
    <3>2. run' = [run EXCEPT ![r] = [run[r] EXCEPT !.pc = "raised", !.bundle = b, !.torn = TRUE]]
      BY <3>1 DEF IInv, TypeOK
    <3>3. Ends("raised", b, TRUE) /\ b \in {"open", "quarantined"}
      BY <1>5, <3>1, <3>2 DEF Retain, At
    <3> HIDE DEF Ends
    <3> QED
      BY <1>1, <3>3, Codes
  <2>3. CASE run[r].bundle # "open" /\ Go(r, "raised")
    <3>1. Ends("raised", run[r].bundle, run[r].torn)
      BY <1>2, <1>5, <2>3, Codes DEF Retain, At
    <3> HIDE DEF Ends
    <3> QED
      BY <1>1, <1>3, <3>1, Codes
  <2> QED
    BY <1>5, <2>1, <2>2, <2>3 DEF Retain
<1>6. CASE HandlerGoesOn(r)
  <2>1. Ends("retain", run[r].bundle, run[r].torn)
    BY <1>2, <1>6, Codes DEF HandlerGoesOn, At
  <2> HIDE DEF Ends
  <2> QED
    BY <1>1, <1>3, <2>1, Codes
<1>7. CASE Unwind(r)
  <2>1. Ends("raised", run[r].bundle, run[r].torn)
    BY <1>2, <1>7, Codes DEF Unwind, At
  <2> HIDE DEF Ends
  <2> QED
    BY <1>1, <1>3, <2>1, Codes
<1> QED
  BY <1>4, <1>5, <1>6, <1>7

\* The steps that stop the server, or fail to.
LEMMA StepStop ==
  ASSUME IInv, NEW r \in Runner,
         StopServer(r) \/ HandlerStop(r) \/ StopFails(r)
  PROVE  IInv'
<1> DEFINE Mine == run[r].pc = "stop_server" \/ (run[r].started /\ run[r].handle)
           Stops(x, s, S) ==
      /\ run' = [run EXCEPT ![r] = [run[r] EXCEPT !.pc = x, !.started = s, !.handle = FALSE]]
      /\ Remain(S) /\ UNCHANGED <<lab, robbed, cut>>
      /\ \/ run[r].pc = "stop_server" /\ x = "capture_status" /\ dirty' = dirty
            /\ S = servers \ {Me(r)}
         \/ /\ run[r].pc = "failed" /\ x = "recover" /\ dirty' = dirty
            /\ S = servers \ {Me(r)} \/ (S = servers /\ ~(run[r].started /\ run[r].handle))
         \/ /\ run[r].pc \in {"stop_server", "failed"}
            /\ x = (IF run[r].pc = "failed" THEN "recover" ELSE "failed")
            /\ dirty' = dirty \cup {Me(r)} /\ S = servers
<1>0. run[r] \in Local /\ HostOK
  BY Host DEF IInv, TypeOK
<1>1. ASSUME NEW x \in PC, NEW s \in BOOLEAN, NEW S, Stops(x, s, S)
      PROVE  IInv'
  <2> DEFINE l == [run[r] EXCEPT !.pc = x, !.started = s, !.handle = FALSE]
  <2>1. l \in Local /\ run' = [run EXCEPT ![r] = l]
    BY <1>0, <1>1, Updates
  <2>2. /\ l.pc = x /\ ~l.handle /\ l.bundle = run[r].bundle /\ l.torn = run[r].torn
        /\ l.attempt = run[r].attempt
        /\ l.attempted = run[r].attempted /\ l.swept = run[r].swept /\ l.blind = run[r].blind
    BY <1>0 DEF Local
  <2> HIDE DEF l
  <2>3. x \in {"capture_status", "recover", "failed"} /\ run[r].pc \in {"stop_server", "failed"}
    BY <1>1
  <2>4. Takes(r, l)
    BY <2>1, <2>2, <2>3 DEF Takes
  <2>5. run'[r] = l /\ Me(r)' = Me(r) /\ Fits(r)
    BY <2>4, Seat
  <2>6. /\ S \subseteq servers /\ Remain(S) /\ UNCHANGED <<lab, robbed, cut>>
        /\ dirty' \in {dirty, dirty \cup {Me(r)}}
    BY <1>1
  <2>7. Fair(r) /\ servers' = S
    BY <2>4, <2>6, Stopping
  <2>8. ~run[r].swept
    BY <2>3, <2>5 DEF Fits, Course, Cleaning
  <2>9. run[r].pc = "stop_server" => run[r].bundle = "open" /\ ~run[r].attempted
    BY <2>5 DEF Fits, Course, Stage, Early
  <2>10. Course(r)'
    BY <2>2, <2>3, <2>5, <2>6, <2>8, <2>9, <1>1 DEF Course, Fits, Early, Late, Stage, Cleaning
  <2>11. NoNames(r)'
    BY <2>2, <2>3, <2>5, <2>6, <2>8, <2>9 DEF NoNames, Fits
  <2>12. ASSUME Me(r) \in servers', Me(r) \notin dirty' PROVE FALSE
    <3>1. /\ Me(r) \in servers /\ Me(r) \notin dirty /\ run[r].pc = "failed"
          /\ ~(run[r].started /\ run[r].handle)
      BY <1>1, <2>5, <2>7, <2>12
    <3> QED
      BY <2>5, <3>1 DEF Fits, ServerOf, Kept
  <2>13. x = "capture_status" => Me(r) \notin servers'
    BY <1>1, <2>7
  <2>14. run[r].bundle = "complete" => Me(r) \notin servers'
    BY <2>5, <2>7, <2>6 DEF Fits, ServerOf
  <2>15. x \in Closed => x = "capture_status"
    BY <2>3 DEF Closed, Stage
  <2>16. x \notin Serving /\ x # "start_server"
    BY <2>3 DEF Serving
  <2>17. ServerOf(r)'
    BY <2>2, <2>5, <2>12, <2>13, <2>14, <2>15, <2>16 DEF ServerOf
  <2>18. Evident(r)'
    BY <2>2, <2>3, <2>5, <2>6, <2>9 DEF Evident, Fits, Handler
  <2>19. Unused(r)'
    BY <2>2, <2>5, <2>6, <2>7 DEF Unused, Fits
  <2> QED
    BY <2>4, <2>7, <2>10, <2>11, <2>17, <2>18, <2>19, OneStep DEF Fits
<1>2. run[r].started \in BOOLEAN
  BY <1>0, Parts
<1>3. \A x \in PC : [run[r] EXCEPT !.pc = x, !.handle = FALSE] =
                    [run[r] EXCEPT !.pc = x, !.started = run[r].started, !.handle = FALSE]
  BY <1>0 DEF Local
<1>4. CASE StopServer(r)
  <2>1. run' = [run EXCEPT ![r] =
           [run[r] EXCEPT !.pc = "capture_status", !.started = FALSE, !.handle = FALSE]]
    BY <1>4 DEF StopServer, IInv, TypeOK
  <2>2. Stops("capture_status", FALSE, servers \ {Me(r)})
    BY <1>4, <2>1 DEF StopServer, At, past
  <2> HIDE DEF Stops
  <2> QED
    BY <1>1, <2>2, Codes
<1>5. CASE HandlerStop(r)
  <2>1. run' = [run EXCEPT ![r] = [run[r] EXCEPT !.pc = "recover", !.handle = FALSE]]
    BY <1>5 DEF HandlerStop, IInv, TypeOK
  <2>2. run' = [run EXCEPT ![r] =
           [run[r] EXCEPT !.pc = "recover", !.started = run[r].started, !.handle = FALSE]]
    BY <1>3, <2>1, Codes
  <2> DEFINE S == IF run[r].started /\ run[r].handle THEN servers \ {Me(r)} ELSE servers
  <2>3. Stops("recover", run[r].started, S)
    BY <1>5, <2>2 DEF HandlerStop, At, past
  <2> HIDE DEF Stops, S
  <2> QED
    BY <1>1, <1>2, <2>3, Codes
<1>6. CASE StopFails(r)
  <2> DEFINE x == IF run[r].pc = "failed" THEN "recover" ELSE "failed"
  <2>1. run[r].pc \in {"stop_server", "failed"} /\ x \in PC
    BY <1>6, Codes DEF StopFails, At
  <2>2. run' = [run EXCEPT ![r] = [run[r] EXCEPT !.pc = x, !.handle = FALSE]]
    BY <1>6 DEF StopFails, IInv, TypeOK
  <2>3. run' = [run EXCEPT ![r] =
           [run[r] EXCEPT !.pc = x, !.started = run[r].started, !.handle = FALSE]]
    BY <1>3, <2>1, <2>2
  <2>4. Remain(servers)
    BY <1>0, <1>6 DEF StopFails, host, Remain, HostOK
  <2>5. Stops(x, run[r].started, servers)
    BY <1>6, <2>1, <2>3, <2>4 DEF StopFails, host
  <2> HIDE DEF Stops, x
  <2> QED
    BY <1>1, <1>2, <2>1, <2>5
<1> QED
  BY <1>4, <1>5, <1>6

LEMMA Leftover ==
  ASSUME HostOK
  PROVE  /\ lab = Clean <=> lab.by = Nobody
         /\ Clean.by = Nobody /\ Clean \in [state : {"clean", "up", "residue"}, by : Owner]
         /\ Clean.state = "clean"
         /\ Residue \in [state : {"clean", "up", "residue"}, by : Owner]
         /\ Residue.by = lab.by /\ (Residue.by = Nobody <=> Residue.state = "clean")
<1>1. Clean.by = Nobody /\ Clean.state = "clean"
      /\ Clean \in [state : {"clean", "up", "residue"}, by : Owner]
  BY Names DEF Clean
<1>2. lab = Clean <=> lab.by = Nobody
  BY <1>1 DEF HostOK, Clean
<1> DEFINE s == IF lab = Clean THEN "clean" ELSE "residue"
<1>3. s \in {"clean", "up", "residue"} /\ (s = "clean" <=> lab = Clean)
  OBVIOUS
<1>4. Residue = [lab EXCEPT !.state = s]
  BY DEF Residue
<1> HIDE DEF s
<1>5. Residue \in [state : {"clean", "up", "residue"}, by : Owner]
      /\ Residue.by = lab.by /\ Residue.state = s
  BY <1>3, <1>4 DEF HostOK
<1> QED
  BY <1>1, <1>2, <1>3, <1>5

\* A server bears the name of the lab that is there, unless its attempt failed
\* to clean up or another one took its lab down.
LEMMA Servers ==
  ASSUME IInv
  PROVE  servers \subseteq dirty \cup robbed \cup {lab.by}
<1> SUFFICES ASSUME NEW a \in servers, a \notin dirty PROVE a \in robbed \/ a = lab.by
  OBVIOUS
<1>1. CASE Live(a)
  <2>1. PICK r \in Runner : a = Me(r) /\ Fits(r)
    BY <1>1 DEF Live, IInv
  <2> QED
    BY <2>1 DEF Fits, ServerOf, Kept
<1> QED
  BY <1>1 DEF IInv, ResidueHasCause

\* Names are removed, in part or all.
LEMMA Dropping ==
  ASSUME IInv, NEW r \in Runner, NEW l, Takes(r, l),
         PartlyRemoved \/ (lab' = Clean /\ lost' = servers),
         robbed' = robbed \cup Others(r), UNCHANGED <<servers, silent>>,
         dirty' \in {dirty, dirty \cup {Me(r)}}, cut' \in {cut, cut \cup {Me(r)}},
         Me(r) \in servers => Me(r) \in dirty' \cup robbed'
  PROVE  /\ Fair(r) /\ lost \subseteq lost' /\ lab'.by \in {lab.by, Nobody}
         /\ PartlyRemoved => lab'.by = lab.by
<1>1. Me(r) \in Attempt /\ HostOK
  BY Seat
<1>2. /\ lab' \in [state : {"clean", "up", "residue"}, by : Owner]
      /\ lab'.by = Nobody <=> lab'.state = "clean"
      /\ lab'.by \in {lab.by, Nobody}
      /\ PartlyRemoved => lab'.by = lab.by
  BY <1>1, Leftover DEF PartlyRemoved, HostOK
<1>3. lost' \in {lost, servers} /\ lost \subseteq servers
  BY <1>1 DEF PartlyRemoved, HostOK
<1>4. Others(r) \subseteq Attempt
  BY <1>1, Names DEF Others, HostOK, Owner
<1>5. HostOK'
  BY <1>1, <1>2, <1>3, <1>4 DEF HostOK
<1>6. lab.by \in robbed' \cup {Nobody, Me(r)}
  BY DEF Others
<1>7. servers \subseteq dirty' \cup robbed'
  <2>1. ASSUME NEW a \in servers PROVE a \in dirty' \cup robbed'
    <3>1. a \in dirty \cup robbed \cup {lab.by} /\ a # Nobody
      BY <2>1, <1>1, Servers, Names DEF HostOK
    <3> QED
      BY <1>6, <2>1, <3>1
  <2> QED
    BY <2>1
<1>8. LostHasCause'
  BY <1>3, <1>7 DEF LostHasCause
<1> QED
  BY <1>2, <1>3, <1>5, <1>6, <1>8 DEF Fair

LEMMA StepSweep ==
  ASSUME IInv, NEW r \in Runner, Sweep(r)
  PROVE  IInv'
<1> DEFINE a == run[r].attempted \/ run[r].pc \in {"cleanup", "recover"}
           l == [run[r] EXCEPT !.swept = TRUE, !.attempted = a]
<1>0. run[r] \in Local /\ run[r].pc \in Cleaning /\ ~run[r].swept
      /\ UNCHANGED <<lab, robbed, cut>>
  BY DEF IInv, TypeOK, Sweep
<1>1. run' = [run EXCEPT ![r] = l] /\ a \in BOOLEAN
  BY <1>0, Parts DEF Sweep, IInv, TypeOK
<1>2. a <=> run[r].attempted \/ run[r].pc \in {"cleanup", "recover"}
  OBVIOUS
<1> HIDE DEF a
<1>3. l \in Local
  BY <1>0, <1>1, Updates
<1>4. /\ l.pc = run[r].pc /\ l.swept /\ l.attempted = a /\ l.attempt = run[r].attempt
      /\ l.bundle = run[r].bundle /\ l.torn = run[r].torn /\ l.blind = run[r].blind
      /\ l.started = run[r].started /\ l.handle = run[r].handle
  BY <1>0, <1>1 DEF Local
<1> HIDE DEF l
<1>5. Takes(r, l)
  BY <1>0, <1>1, <1>3, <1>4 DEF Takes, Cleaning
<1>6. run'[r] = l /\ Me(r)' = Me(r) /\ Fits(r) /\ Me(r) \in Attempt /\ HostOK
  BY <1>5, Seat
<1>7. lost \subseteq servers /\ lost \subseteq dirty \cup robbed
  BY <1>6 DEF HostOK, IInv, LostHasCause
<1>8. /\ servers' \subseteq servers /\ lost' = lost /\ silent' \subseteq silent
      /\ silent' \subseteq servers' /\ lost \subseteq servers'
      /\ \/ servers' = lost /\ dirty' = dirty
         \/ dirty' = dirty \cup {Me(r)}
  BY <1>6, <1>7 DEF Sweep, Remain, HostOK
<1>9. Fair(r)
  BY <1>0, <1>6, <1>7, <1>8 DEF Fair, HostOK, LostHasCause, Owner, Attempt
<1>10. Course(r)'
  BY <1>0, <1>2, <1>4, <1>6, <1>8 DEF Course, Fits, Cleaning, Early, Late, Stage
<1>11. NoNames(r)'
  BY <1>0, <1>4, <1>6, <1>8 DEF NoNames, Fits, Cleaning
<1>12. ASSUME Me(r) \in servers', Me(r) \notin dirty' PROVE Kept(r)'
  <2>1. Me(r) \in lost /\ Me(r) \in servers /\ Me(r) \notin dirty /\ Me(r) \in robbed
    BY <1>7, <1>8, <1>12
  <2>2. Kept(r) /\ Course(r) /\ run[r].pc \notin Closed
    BY <1>6, <2>1 DEF Fits, ServerOf
  <2>3. run[r].pc = "unwind" /\ ~run[r].attempted
    BY <1>0, <2>2 DEF Kept, Cleaning, Closed, Stage, Serving
  <2> QED
    BY <1>0, <1>2, <1>4, <1>6, <1>8, <2>1, <2>2, <2>3 DEF Kept, Course
<1>13. ServerOf(r)'
  BY <1>0, <1>4, <1>6, <1>8, <1>12 DEF ServerOf, Fits, Cleaning, Serving
<1>14. Evident(r)'
  BY <1>0, <1>4, <1>6, <1>8 DEF Evident, Fits, Cleaning, Handler
<1>15. Unused(r)'
  BY <1>4, <1>6, <1>8 DEF Unused, Fits
<1> QED
  BY <1>5, <1>9, <1>10, <1>11, <1>13, <1>14, <1>15, OneStep DEF Fits

LEMMA StepDrop ==
  ASSUME IInv, NEW r \in Runner, Drop(r)
  PROVE  IInv'
<1>0. /\ run[r] \in Local /\ run[r].pc \in Cleaning /\ run[r].swept
      /\ robbed' = robbed \cup Others(r) /\ UNCHANGED <<servers, silent, cut>>
  BY DEF IInv, TypeOK, Drop
<1>1. PICK ok \in BOOLEAN :
         /\ IF ok THEN Removed(r) /\ UNCHANGED dirty
                  ELSE PartlyRemoved /\ dirty' = dirty \cup {Me(r)}
         /\ \E pc \in Return(run[r].pc, ok) :
                run' = [run EXCEPT ![r].pc = pc, ![r].swept = FALSE]
  BY DEF Drop
<1>2. PICK x \in Return(run[r].pc, ok) : run' = [run EXCEPT ![r].pc = x, ![r].swept = FALSE]
  BY <1>1
<1>3. \/ run[r].pc = "setup" /\ x \in {"build", "failed"}
      \/ run[r].pc = "undo" /\ x = "failed"
      \/ run[r].pc = "cleanup" /\ x \in {"verify_cleanup", "failed"}
      \/ run[r].pc = "recover" /\ x = "retain"
      \/ run[r].pc = "unwind" /\ x = "raised"
  BY <1>0, <1>2 DEF Return, Cleaning
<1>4. x \in PC
  BY <1>3, Codes
<1> DEFINE l == [run[r] EXCEPT !.pc = x, !.swept = FALSE]
<1>5. l \in Local /\ run' = [run EXCEPT ![r] = l]
  BY <1>0, <1>2, <1>4, Updates DEF IInv, TypeOK
<1>6. /\ l.pc = x /\ ~l.swept /\ l.attempted = run[r].attempted /\ l.attempt = run[r].attempt
      /\ l.bundle = run[r].bundle /\ l.torn = run[r].torn /\ l.blind = run[r].blind
      /\ l.started = run[r].started /\ l.handle = run[r].handle
  BY <1>0 DEF Local
<1> HIDE DEF l
<1>7. Takes(r, l)
  BY <1>3, <1>5, <1>6 DEF Takes
<1>8. run'[r] = l /\ Me(r)' = Me(r) /\ Fits(r) /\ Me(r) \in Attempt /\ HostOK /\ Me(r) # Nobody
  BY <1>7, Seat
<1>9. ASSUME Me(r) \in servers, Me(r) \notin dirty
      PROVE  run[r].pc = "unwind" /\ ~run[r].attempted /\ Me(r) \in lost \cap robbed \cap cut
  <2>1. Kept(r) /\ run[r].pc \notin Closed
    BY <1>8, <1>9 DEF Fits, ServerOf
  <2> QED
    BY <1>0, <1>3, <1>9, <2>1 DEF Kept, Closed, Stage, Serving, IInv, LostHasCause
<1>10. /\ PartlyRemoved \/ (lab' = Clean /\ lost' = servers)
       /\ dirty' \in {dirty, dirty \cup {Me(r)}} /\ cut' \in {cut, cut \cup {Me(r)}}
       /\ Me(r) \in servers => Me(r) \in dirty' \cup robbed'
  BY <1>0, <1>1, <1>9 DEF Removed
<1>11. /\ Fair(r) /\ lost \subseteq lost' /\ lab'.by \in {lab.by, Nobody}
       /\ PartlyRemoved => lab'.by = lab.by
  BY <1>0, <1>7, <1>10, Dropping
<1>12. Me(r) \notin dirty' => lab'.by # Me(r)
  <2> SUFFICES ASSUME Me(r) \notin dirty' PROVE lab'.by # Me(r)
    OBVIOUS
  <2>1. Removed(r)
    BY <1>1
  <2>2. CASE lab' = Clean
    BY <1>8, <2>2, Leftover
  <2>3. CASE Others(r) # {} /\ PartlyRemoved
    BY <1>11, <2>3 DEF Others
  <2> QED
    BY <2>1, <2>2, <2>3 DEF Removed
<1>13. Course(r)'
  BY <1>0, <1>3, <1>6, <1>8, <1>11 DEF Course, Fits, Fair, Cleaning, Early, Late, Stage
<1>14. NoNames(r)'
  BY <1>3, <1>6, <1>8, <1>11, <1>12 DEF NoNames, Fits
<1>15. ASSUME Me(r) \in servers', Me(r) \notin dirty' PROVE Kept(r)'
  <2>1. Me(r) \in servers /\ Me(r) \notin dirty
    BY <1>0, <1>10, <1>15
  <2>2. /\ x = "raised" /\ ~run[r].attempted
        /\ Me(r) \in lost' /\ Me(r) \in cut' /\ Me(r) \in robbed'
    BY <1>0, <1>3, <1>9, <1>11, <2>1 DEF Fair
  <2> QED
    BY <1>6, <1>8, <2>2 DEF Kept
<1>16. ServerOf(r)'
  <2>1. x \in Closed => run[r].pc \in Closed
    BY <1>3 DEF Closed, Stage, Serving
  <2>2. x \notin Serving /\ x # "start_server"
    BY <1>3 DEF Serving
  <2> QED
    BY <1>0, <1>6, <1>8, <1>15, <2>1, <2>2 DEF ServerOf, Fits
<1>17. Evident(r)'
  BY <1>0, <1>3, <1>6, <1>8 DEF Evident, Fits, Course, Handler, Stage
<1>18. Unused(r)'
  BY <1>0, <1>6, <1>8 DEF Unused, Fits
<1> QED
  BY <1>7, <1>11, <1>13, <1>14, <1>16, <1>17, <1>18, OneStep DEF Fits

LEMMA StepBuild ==
  ASSUME IInv, NEW r \in Runner, Build(r)
  PROVE  IInv'
<1>0. /\ run[r] \in Local /\ run[r].pc = "build" /\ UNCHANGED <<servers, lost, silent, dirty, cut>>
  BY DEF IInv, TypeOK, Build, At
<1>1. PICK x \in {"start_server", "undo"} :
         /\ Go(r, x)
         /\ \/ /\ x = "start_server" /\ lab' = [state |-> "up", by |-> Me(r)]
               /\ robbed' = robbed \cup Others(r)
            \/ /\ x = "undo" /\ robbed' = robbed
               /\ lab' = lab \/ (lab = Clean /\ lab' = Partial(r))
  BY DEF Build
<1>2. PICK l : /\ Takes(r, l) /\ l.pc = x /\ l.bundle = run[r].bundle
               /\ l.started = run[r].started /\ l.handle = run[r].handle
               /\ l.attempted = run[r].attempted /\ l.swept = run[r].swept
               /\ l.torn = run[r].torn /\ l.blind = run[r].blind
  BY <1>0, <1>1, Going, Codes
<1>3. /\ run'[r] = l /\ Me(r)' = Me(r) /\ Fits(r) /\ HostOK
      /\ Me(r) \in Attempt /\ Me(r) # Nobody /\ Me(r) \in Owner
  BY <1>2, Seat
<1>4. /\ lab' \in [state : {"clean", "up", "residue"}, by : Owner]
      /\ lab'.by = Nobody <=> lab'.state = "clean"
      /\ lab'.by \in {lab.by, Me(r)}
      /\ x = "start_server" => lab'.by = Me(r)
      /\ lab'.by # lab.by => lab.by \in robbed' \cup {Nobody, Me(r)}
  <2>1. CASE lab' = [state |-> "up", by |-> Me(r)] /\ robbed' = robbed \cup Others(r)
    <3> DEFINE u == "up"
    <3>1. u \in {"clean", "up", "residue"} /\ u # "clean"
      OBVIOUS
    <3>2. lab' = [state |-> u, by |-> Me(r)]
      BY <2>1
    <3> HIDE DEF u
    <3> QED
      BY <1>3, <2>1, <3>1, <3>2 DEF Others
  <2>2. CASE x = "undo" /\ lab = Clean /\ lab' = Partial(r)
    <3> DEFINE u == "residue"
    <3>1. u \in {"clean", "up", "residue"} /\ u # "clean"
      OBVIOUS
    <3>2. lab' = [state |-> u, by |-> Me(r)]
      BY <2>2 DEF Partial
    <3>3. lab.by = Nobody
      BY <1>3, <2>2, Leftover
    <3> HIDE DEF u
    <3> QED
      BY <1>3, <2>2, <3>1, <3>2, <3>3
  <2>3. CASE x = "undo" /\ lab' = lab
    BY <1>3, <2>3 DEF HostOK
  <2> QED
    BY <1>1, <2>1, <2>2, <2>3
<1>5. Others(r) \subseteq Attempt
  BY <1>3, Names DEF Others, HostOK, Owner
<1>6. HostOK' /\ robbed \subseteq robbed'
  BY <1>0, <1>1, <1>3, <1>4, <1>5 DEF HostOK
<1>7. Fair(r)
  BY <1>0, <1>4, <1>6 DEF Fair, IInv, LostHasCause
<1>8. ~run[r].attempted /\ ~run[r].swept /\ run[r].bundle = "open" /\ Me(r) \notin servers
  BY <1>0, <1>3 DEF Fits, Course, ServerOf, Early, Cleaning, Stage, Closed, Serving
<1>9. Course(r)' /\ Evident(r)'
  BY <1>0, <1>1, <1>2, <1>3, <1>8 DEF Fits, Course, Evident, Early, Late, Cleaning, Handler, Takes
<1>10. NoNames(r)'
  BY <1>1, <1>2, <1>3, <1>8 DEF NoNames
<1>11. ServerOf(r)'
  BY <1>0, <1>1, <1>2, <1>3, <1>4, <1>8 DEF ServerOf, Serving
<1>12. Unused(r)'
  BY <1>0, <1>2, <1>3 DEF Fits, Unused, Takes
<1> QED
  BY <1>2, <1>7, <1>9, <1>10, <1>11, <1>12, OneStep DEF Fits

\* A server that comes up.
LEMMA Launching ==
  ASSUME IInv, NEW r \in Runner, NEW l, Takes(r, l), Launched(r), UNCHANGED <<lab, robbed>>,
         dirty' \in {dirty, dirty \cup {Me(r)}}, cut' \in {cut, cut \cup {Me(r)}}
  PROVE  Fair(r) /\ servers' = servers \cup {Me(r)} /\ lost' = lost
<1>1. Me(r) \in Attempt /\ HostOK
  BY Seat
<1>2. servers' = servers \cup {Me(r)} /\ lost' = lost /\ silent' = silent
  BY DEF Launched
<1> QED
  BY <1>1, <1>2 DEF IInv, Fair, HostOK, LostHasCause, Owner, Attempt

LEMMA StepStartServer ==
  ASSUME IInv, NEW r \in Runner, StartServer(r)
  PROVE  IInv'
<1>0. /\ run[r] \in Local /\ run[r].pc = "start_server" /\ UNCHANGED <<lab, past>>
  BY DEF IInv, TypeOK, StartServer, At
<1>1. CASE Go(r, "failed") /\ UNCHANGED host
  <2>1. PICK l : /\ Takes(r, l) /\ l.pc = "failed" /\ l.bundle = run[r].bundle
                 /\ l.started = run[r].started /\ l.handle = run[r].handle
                 /\ l.attempted = run[r].attempted /\ l.swept = run[r].swept
                 /\ l.torn = run[r].torn /\ l.blind = run[r].blind
    BY <1>0, <1>1, Going, Codes
  <2> QED
    BY <1>0, <1>1, <2>1, StageStep DEF Stage, Cleaning
<1>2. CASE /\ run' = [run EXCEPT ![r].pc = "impair", ![r].started = TRUE, ![r].handle = TRUE]
           /\ Launched(r) \/ UNCHANGED <<servers, lost, silent>>
  <2> DEFINE l == [run[r] EXCEPT !.pc = "impair", !.started = TRUE, !.handle = TRUE]
  <2>1. l \in Local /\ run' = [run EXCEPT ![r] = l]
    BY <1>0, <1>2, Updates, Codes DEF IInv, TypeOK
  <2>2. /\ l.pc = "impair" /\ l.started /\ l.handle /\ l.attempt = run[r].attempt
        /\ l.attempted = run[r].attempted /\ l.swept = run[r].swept
        /\ l.bundle = run[r].bundle /\ l.torn = run[r].torn /\ l.blind = run[r].blind
    BY <1>0 DEF Local
  <2> HIDE DEF l
  <2>3. Takes(r, l)
    BY <1>0, <2>1, <2>2 DEF Takes
  <2>4. run'[r] = l /\ Me(r)' = Me(r) /\ Fits(r) /\ HostOK
    BY <2>3, Seat
  <2>5. /\ Fair(r) /\ lost' = lost
        /\ servers' = servers \/ servers' = servers \cup {Me(r)}
    BY <1>0, <1>2, <2>3, Launching, Quiet DEF past, host
  <2>6. ~run[r].attempted /\ ~run[r].swept /\ run[r].bundle = "open"
    BY <1>0, <2>4 DEF Fits, Course, Early, Cleaning, Stage
  <2>7. Course(r)' /\ Evident(r)' /\ NoNames(r)'
    BY <1>0, <2>2, <2>4, <2>6 DEF Course, Evident, NoNames, Early, Late, Fits, Handler, past
  <2>8. Me(r) \notin dirty => lab.by = Me(r) \/ Me(r) \in robbed
    BY <1>0, <2>4 DEF Fits, ServerOf
  <2>9. "impair" \notin Closed /\ dirty' = dirty /\ robbed' = robbed /\ lab' = lab
    BY <1>0 DEF Closed, Serving, past
  <2>10. ServerOf(r)'
    BY <2>2, <2>4, <2>6, <2>8, <2>9 DEF ServerOf, Kept
  <2>11. Unused(r)'
    <3>1. \A n \in 1 .. MaxAttempts : n > run[r].attempt => <<r, n>> # Me(r)
      <4>1. run[r].attempt \in 0 .. MaxAttempts
        BY <1>0, Parts
      <4> QED
        BY <4>1, Names DEF Me
    <3> QED
      BY <2>2, <2>4, <2>5, <3>1 DEF Unused, Fits
  <2> QED
    BY <2>3, <2>5, <2>7, <2>10, <2>11, OneStep DEF Fits
<1> QED
  BY <1>0, <1>1, <1>2 DEF StartServer, host

\* A step that does not come to its end.
LEMMA Broken ==
  ASSUME IInv, NEW r \in Runner, NEW l, Takes(r, l), PartWay(r),
         dirty' \in {dirty, dirty \cup {Me(r)}}, cut' \in {cut, cut \cup {Me(r)}},
         run[r].swept => Me(r) \in dirty' \/ Me(r) \notin servers \/ Me(r) \in robbed
  PROVE  /\ Fair(r) /\ lost \cap servers \subseteq lost'
         /\ servers' \in {servers, servers \cup {Me(r)}}
         /\ Me(r) \in servers' => Me(r) \in servers \/ run[r].pc = "start_server"
         /\ lab'.by = Me(r) => lab.by = Me(r) \/ (run[r].pc = "build" /\ ~run[r].swept)
         /\ lab.by = Me(r) => lab'.by = Me(r)
<1>1. Me(r) \in Attempt /\ Me(r) \in Owner /\ Me(r) # Nobody /\ HostOK /\ Fits(r)
  BY Seat
<1>2. dirty' \subseteq Attempt /\ cut' \subseteq Attempt
  BY <1>1 DEF HostOK
<1>3. CASE UNCHANGED <<host, robbed>>
  BY <1>1, <1>2, <1>3 DEF Fair, HostOK, IInv, LostHasCause, host
<1>4. CASE /\ run[r].pc = "build" /\ lab = Clean /\ lab' = Partial(r)
           /\ UNCHANGED <<servers, lost, silent, robbed>>
  <2> DEFINE u == "residue"
  <2>1. u \in {"clean", "up", "residue"} /\ u # "clean"
    OBVIOUS
  <2>2. lab' = [state |-> u, by |-> Me(r)] /\ lab.by = Nobody
    BY <1>1, <1>4, Leftover DEF Partial
  <2> HIDE DEF u
  <2>3. HostOK' /\ lab'.by = Me(r)
    BY <1>1, <1>2, <1>4, <2>1, <2>2 DEF HostOK
  <2>4. ~run[r].swept
    BY <1>1, <1>4 DEF Fits, Course, Cleaning
  <2> QED
    BY <1>1, <1>4, <2>2, <2>3, <2>4 DEF Fair, IInv, LostHasCause
<1>5. CASE run[r].pc = "start_server" /\ Launched(r) /\ UNCHANGED <<lab, robbed>>
  <2>1. Fair(r) /\ servers' = servers \cup {Me(r)} /\ lost' = lost
    BY <1>5, Launching
  <2> QED
    BY <1>5, <2>1
<1>6. CASE /\ run[r].swept /\ PartlyRemoved /\ robbed' = robbed \cup Others(r)
           /\ UNCHANGED <<servers, silent>>
  <2>1. /\ Me(r) \in servers => Me(r) \in dirty' \cup robbed'
    BY <1>6
  <2>2. Fair(r) /\ lost \subseteq lost' /\ lab'.by = lab.by
    BY <1>6, <2>1, Dropping
  <2> QED
    BY <1>6, <2>2
<1> QED
  BY <1>3, <1>4, <1>5, <1>6 DEF PartWay, At

LEMMA StepKill ==
  ASSUME IInv, NEW r \in Runner, Kill(r)
  PROVE  IInv'
<1>0. run[r] \in Local /\ run[r].pc \notin Ended /\ PartWay(r) /\ cut' = cut
      /\ dirty' = dirty \cup {Me(r)}
  BY DEF IInv, TypeOK, Kill
<1> DEFINE l == [run[r] EXCEPT !.pc = "killed", !.swept = FALSE]
<1>1. l \in Local /\ run' = [run EXCEPT ![r] = l]
  BY <1>0, Updates, Codes DEF Kill, IInv, TypeOK
<1>2. /\ l.pc = "killed" /\ ~l.swept /\ l.attempted = run[r].attempted
      /\ l.attempt = run[r].attempt /\ l.bundle = run[r].bundle /\ l.torn = run[r].torn
      /\ l.blind = run[r].blind /\ l.started = run[r].started /\ l.handle = run[r].handle
  BY <1>0 DEF Local
<1> HIDE DEF l
<1>3. Takes(r, l)
  BY <1>0, <1>1, <1>2 DEF Takes, Ended
<1>4. run'[r] = l /\ Me(r)' = Me(r) /\ Fits(r)
  BY <1>3, Seat
<1>5. /\ Fair(r)
      /\ servers' \in {servers, servers \cup {Me(r)}}
      /\ Me(r) \in servers' => Me(r) \in servers \/ run[r].pc = "start_server"
      /\ lab'.by = Me(r) => lab.by = Me(r) \/ run[r].pc = "build"
  BY <1>0, <1>3, Broken
<1>6. Me(r) \in dirty' /\ "killed" \notin Stage \cup Handler /\ "killed" \notin Serving
  BY <1>0 DEF Stage, Handler, Serving
<1>7. run[r].pc \in {"build", "start_server"} => run[r].bundle = "open"
  BY <1>4 DEF Fits, Course, Stage
<1>8. Course(r)' /\ Evident(r)' /\ NoNames(r)'
  BY <1>0, <1>2, <1>4, <1>5, <1>6, <1>7
     DEF Course, Evident, NoNames, Fits, Early, Late, Ended
<1>9. ServerOf(r)'
  BY <1>2, <1>4, <1>5, <1>6, <1>7 DEF ServerOf, Fits, Closed
<1>10. Unused(r)'
  <2>1. \A n \in 1 .. MaxAttempts : n > run[r].attempt => <<r, n>> # Me(r)
    <3>1. run[r].attempt \in 0 .. MaxAttempts
      BY <1>0, Parts
    <3> QED
      BY <3>1, Names DEF Me
  <2> QED
    BY <1>2, <1>4, <1>5, <2>1 DEF Unused, Fits
<1> QED
  BY <1>3, <1>5, <1>8, <1>9, <1>10, OneStep DEF Fits

LEMMA StepInterrupt ==
  ASSUME IInv, NEW r \in Runner, Interrupt(r)
  PROVE  IInv'
<1>0. run[r] \in Local /\ run[r].pc \in Stage \cup Handler /\ PartWay(r)
      /\ cut' = cut \cup {Me(r)}
  BY DEF IInv, TypeOK, Interrupt
<1> DEFINE begun == run[r].pc = "cleanup" \/ (run[r].pc = "recover" /\ (run[r].swept \/ ~run[r].attempted))
<1>1. PICK b \in {"open", "quarantined", "complete", "incomplete", run[r].bundle}, tried \in BOOLEAN :
         /\ run[r].attempted => tried
         /\ tried => run[r].attempted \/ begun
         /\ run' = [run EXCEPT ![r].pc = "unwind", ![r].swept = FALSE,
                               ![r].attempted = tried, ![r].bundle = b]
         /\ dirty' = IF begun /\ tried THEN dirty \cup {Me(r)} ELSE dirty
         /\ b = "complete" => run[r].bundle = b \/ run[r].pc = "finalise"
  BY DEF Interrupt, At
<1> DEFINE l == [run[r] EXCEPT !.pc = "unwind", !.swept = FALSE, !.attempted = tried, !.bundle = b]
<1>2. l \in Local /\ run' = [run EXCEPT ![r] = l]
  <2>1. b \in Bundle /\ "unwind" \in PC
    BY <1>0, <1>1, Codes, Parts
  <2>2. l \in Local
    BY <1>0, <2>1, Updates
  <2>3. run' = [run EXCEPT ![r] = l]
    BY <1>1 DEF IInv, TypeOK
  <2> QED
    BY <2>2, <2>3
<1>3. /\ l.pc = "unwind" /\ ~l.swept /\ l.attempted = tried /\ l.bundle = b
      /\ l.attempt = run[r].attempt /\ l.torn = run[r].torn
      /\ l.blind = run[r].blind /\ l.started = run[r].started /\ l.handle = run[r].handle
  BY <1>0, <1>2 DEF Local
<1> HIDE DEF l
<1>4. run[r].pc # "idle"
  BY <1>0 DEF Stage, Handler
<1>5. Takes(r, l)
  BY <1>2, <1>3, <1>4 DEF Takes
<1>6. run'[r] = l /\ Me(r)' = Me(r) /\ Fits(r)
  BY <1>5, Seat
<1>7. run[r].swept => run[r].pc \in {"setup", "undo", "cleanup", "recover"}
  BY <1>0, <1>6 DEF Fits, Course, Cleaning, Stage, Handler
<1>8. run[r].pc \in Closed => Me(r) \notin servers
  BY <1>6 DEF Fits, ServerOf
<1>9. run[r].pc = "recover" => run[r].attempted \/ begun
  OBVIOUS
<1>10. run[r].swept /\ run[r].pc = "recover" /\ Me(r) \in servers => Me(r) \in dirty
  BY <1>6 DEF Fits, Course, ServerOf, Kept
<1>11. dirty \subseteq dirty' /\ dirty' \in {dirty, dirty \cup {Me(r)}}
  BY <1>1
<1>12. run[r].swept => Me(r) \in dirty' \/ Me(r) \notin servers \/ Me(r) \in robbed
  BY <1>7, <1>8, <1>10, <1>11 DEF Closed, Stage, Serving
<1>13. /\ Fair(r) /\ lost \cap servers \subseteq lost'
       /\ servers' \in {servers, servers \cup {Me(r)}}
       /\ Me(r) \in servers' => Me(r) \in servers \/ run[r].pc = "start_server"
       /\ lab'.by = Me(r) => lab.by = Me(r) \/ (run[r].pc = "build" /\ ~run[r].swept)
       /\ lab.by = Me(r) => lab'.by = Me(r)
  BY <1>0, <1>5, <1>11, <1>12, Broken
<1>14. Me(r) \in cut' /\ robbed \subseteq robbed'
  BY <1>0, <1>13 DEF Fair
<1>15. Course(r)'
  BY <1>3, <1>4, <1>6, <1>14 DEF Course, Fits, Stage, Early, Late
<1>16. run[r].pc \in {"build", "start_server"} => ~run[r].attempted /\ run[r].bundle = "open"
  BY <1>6 DEF Fits, Course, Early, Stage
<1>17. NoNames(r)'
  <2>1. ASSUME Me(r) \notin dirty', tried PROVE lab'.by # Me(r)
    <3>1. ~begun /\ run[r].attempted /\ Me(r) \notin dirty
      BY <1>1, <1>11, <2>1
    <3>2. ~run[r].swept
      BY <1>7, <1>6, <3>1 DEF Fits, Course, Early
    <3> QED
      BY <1>6, <1>13, <1>16, <3>1, <3>2 DEF NoNames, Fits
  <2>2. ASSUME b = "complete", ~run[r].blind PROVE lab'.by # Me(r)
    BY <1>1, <1>6, <1>13, <1>16, <2>2 DEF NoNames, Fits
  <2> QED
    BY <1>3, <1>6, <2>1, <2>2 DEF NoNames
<1>18. ServerOf(r)'
  <2>1. ASSUME b = "complete" PROVE Me(r) \notin servers'
    <3>1. run[r].pc = "finalise" \/ run[r].bundle = "complete"
      BY <1>1, <2>1
    <3>2. run[r].pc = "finalise" => run[r].pc \in Closed
      BY DEF Closed, Stage, Serving
    <3>3. Me(r) \notin servers
      BY <1>6, <3>1, <3>2 DEF Fits, ServerOf
    <3> QED
      BY <1>13, <1>16, <3>1, <3>3
  <2>2. ASSUME Me(r) \in servers', Me(r) \notin dirty' PROVE Kept(r)'
    <3>1. CASE run[r].pc = "start_server"
      <4>1. ~begun /\ Me(r) \notin dirty
        BY <1>11, <2>2, <3>1
      <4>2. ~tried
        BY <1>1, <1>16, <3>1, <4>1
      <4>3. lab.by = Me(r) \/ Me(r) \in robbed
        BY <1>6, <3>1, <4>1 DEF Fits, ServerOf
      <4> QED
        BY <1>3, <1>6, <1>13, <1>14, <4>2, <4>3 DEF Kept
    <3>2. CASE run[r].pc # "start_server"
      <4>1. Kept(r) /\ run[r].pc \notin Closed
        BY <1>6, <1>8, <1>11, <1>13, <2>2, <3>2 DEF Fits, ServerOf
      <4>2. ~begun /\ ~tried
        BY <1>1, <4>1 DEF Kept, Closed, Stage, Serving
      <4> QED
        BY <1>3, <1>6, <1>13, <1>14, <4>1, <4>2 DEF Kept
    <3> QED
      BY <3>1, <3>2
  <2>3. "unwind" \notin Closed /\ "unwind" \notin Serving
    BY DEF Closed, Stage, Serving
  <2> QED
    BY <1>3, <1>6, <2>1, <2>2, <2>3 DEF ServerOf
<1>19. Evident(r)'
  BY <1>3, <1>6 DEF Evident, Handler
<1>20. Unused(r)'
  <2>1. \A n \in 1 .. MaxAttempts : n > run[r].attempt => <<r, n>> # Me(r)
    <3>1. run[r].attempt \in 0 .. MaxAttempts
      BY <1>0, Parts
    <3> QED
      BY <3>1, Names DEF Me
  <2> QED
    BY <1>3, <1>6, <1>13, <2>1 DEF Unused, Fits
<1> QED
  BY <1>5, <1>13, <1>15, <1>17, <1>18, <1>19, <1>20, OneStep DEF Fits

\* A new attempt bears a name that nobody has borne: nothing on the host is its own.
LEMMA StepBegin ==
  ASSUME IInv, NEW r \in Runner, Begin(r)
  PROVE  IInv'
<1>0. /\ run[r] \in Local /\ run[r].pc \in Ended /\ UNCHANGED <<host, past>> /\ Fits(r)
      /\ run[r].attempt < MaxAttempts
  BY DEF IInv, TypeOK, Begin
<1> DEFINE n == run[r].attempt + 1
<1>1. n \in 1 .. MaxAttempts /\ run[r].attempt \in 0 .. MaxAttempts
  BY <1>0, Parts
<1>2. run' = [run EXCEPT ![r] = Fresh(n)]
  BY DEF Begin
<1> HIDE DEF n
<1>3. Fresh(n) \in Local
  BY <1>1, Begun
<1>4. run' \in [Runner -> Local] /\ run'[r] = Fresh(n) /\ \A q \in Runner \ {r} : run'[q] = run[q]
  BY <1>2, <1>3 DEF IInv, TypeOK
<1>5. /\ Fresh(n).pc = "verify_clean" /\ Fresh(n).attempt = n /\ ~Fresh(n).attempted
      /\ ~Fresh(n).swept /\ Fresh(n).bundle = "open"
  BY DEF Fresh
<1>6. lab' = lab /\ servers' = servers /\ lost' = lost /\ silent' = silent
      /\ dirty' = dirty /\ robbed' = robbed /\ cut' = cut
  BY <1>0 DEF host, past
<1>7. Me(r)' = <<r, n>> /\ \A q \in Runner \ {r} : Me(q)' = Me(q)
  BY <1>4, <1>5 DEF Me
<1>8. TypeOK'
  BY <1>4, <1>6 DEF IInv, TypeOK
<1>9. Course(r)' /\ NoNames(r)' /\ Evident(r)'
  BY <1>1, <1>4, <1>5 DEF Course, NoNames, Evident, Early, Late, Handler
<1>10. /\ <<r, n>> \notin servers
       /\ \A m \in 1 .. MaxAttempts : m > n => <<r, m>> \notin servers
  <2>1. n > run[r].attempt /\ \A m \in 1 .. MaxAttempts : m > n => m > run[r].attempt
    BY <1>1 DEF n
  <2> QED
    BY <1>0, <1>1, <2>1 DEF Fits, Unused
<1>11. ServerOf(r)'
  BY <1>4, <1>5, <1>6, <1>7, <1>10 DEF ServerOf, Serving
<1>12. Unused(r)'
  BY <1>4, <1>5, <1>6, <1>10 DEF Unused
<1>13. ASSUME NEW q \in Runner \ {r} PROVE Fits(q)'
  <2>1. Fits(q) /\ run'[q] = run[q] /\ Me(q)' = Me(q)
    BY <1>4, <1>7 DEF IInv
  <2> QED
    BY <1>6, <2>1 DEF Fits, Course, NoNames, ServerOf, Kept, Evident, Unused
<1>14. \A a : Live(a) => Live(a)'
  BY <1>0, <1>4, <1>7 DEF Live
<1>15. ResidueHasCause' /\ LostHasCause'
  <2>1. /\ lab'.by # Nobody => Live(lab'.by) \/ lab'.by \in dirty
        /\ \A a \in servers' : Live(a) \/ a \in dirty \/ a \in cut \cap robbed
        /\ lost' \subseteq dirty' \cup robbed'
    BY <1>6 DEF IInv, ResidueHasCause, LostHasCause
  <2>2. ASSUME NEW a, a = lab'.by PROVE Live(lab.by) => Live(a)'
    BY <1>6, <1>14, <2>2
  <2> QED
    BY <1>6, <1>14, <2>1, <2>2 DEF ResidueHasCause, LostHasCause
<1> QED
  BY <1>8, <1>9, <1>11, <1>12, <1>13, <1>15 DEF IInv, Fits

LEMMA StepEchoFails ==
  ASSUME IInv, EchoFails
  PROVE  IInv'
<1>1. /\ UNCHANGED <<lab, run, past>> /\ HostOK
      /\ servers' \subseteq servers /\ lost' = lost \cap servers' /\ silent' \subseteq servers'
  BY Host DEF IInv, EchoFails, Remain, HostOK
<1>2. run' = run /\ lab' = lab /\ dirty' = dirty /\ robbed' = robbed /\ cut' = cut
  BY <1>1 DEF past
<1>3. \A r \in Runner : Me(r)' = Me(r)
  BY <1>2 DEF Me
<1>4. TypeOK' /\ LostHasCause'
  BY <1>1, <1>2 DEF IInv, TypeOK, HostOK, LostHasCause
<1>5. \A a : Live(a) => Live(a)'
  BY <1>2, <1>3 DEF Live
<1>6. ResidueHasCause'
  <2>1. ASSUME NEW a, a = lab'.by PROVE Live(lab.by) => Live(a)'
    BY <1>2, <1>5, <2>1
  <2> QED
    BY <1>1, <1>2, <1>5, <2>1 DEF IInv, ResidueHasCause
<1>7. ASSUME NEW r \in Runner PROVE Fits(r)'
  <2>1. Fits(r) /\ Me(r)' = Me(r)
    BY <1>3 DEF IInv
  <2>2. Course(r)' /\ NoNames(r)' /\ Evident(r)' /\ Unused(r)'
    BY <1>1, <1>2, <2>1 DEF Fits, Course, NoNames, Evident, Unused
  <2>3. ServerOf(r)'
    BY <1>1, <1>2, <2>1 DEF Fits, ServerOf, Kept
  <2> QED
    BY <2>2, <2>3 DEF Fits
<1> QED
  BY <1>4, <1>6, <1>7 DEF IInv

LEMMA StepIInv == IInv /\ [Next]_vars => IInv'
<1> SUFFICES ASSUME IInv, [Next]_vars PROVE IInv'
  OBVIOUS
<1>1. ASSUME NEW r \in Runner,
             \/ VerifyClean(r) \/ Impair(r) \/ OpenWindow(r) \/ CloseWindow(r)
             \/ CaptureStatus(r) \/ Error(r)
      PROVE  IInv'
  BY <1>1, StepStage
<1>2. ASSUME NEW r \in Runner, Finalise(r) \/ Retain(r) \/ HandlerGoesOn(r) \/ Unwind(r)
      PROVE  IInv'
  BY <1>2, StepEnd
<1>3. ASSUME NEW r \in Runner, StopServer(r) \/ HandlerStop(r) \/ StopFails(r)
      PROVE  IInv'
  BY <1>3, StepStop
<1>4. CASE UNCHANGED vars
  <2>1. /\ lab' = lab /\ servers' = servers /\ lost' = lost /\ silent' = silent
        /\ run' = run /\ dirty' = dirty /\ robbed' = robbed /\ cut' = cut
    BY <1>4 DEF vars, host, past
  <2>2. TypeOK' /\ ResidueHasCause' /\ LostHasCause'
    BY <2>1 DEF IInv, TypeOK, ResidueHasCause, LostHasCause, Live, Me
  <2>3. ASSUME NEW r \in Runner PROVE Fits(r)'
    BY <2>1 DEF IInv, Fits, Course, NoNames, ServerOf, Kept, Evident, Unused, Me
  <2> QED
    BY <2>2, <2>3 DEF IInv
<1> QED
  BY <1>1, <1>2, <1>3, <1>4, StepBegin, StepBuild, StepStartServer, StepVerifyCleanup, StepSweep,
     StepDrop, StepInterrupt, StepKill, StepEchoFails DEF Next

-----------------------------------------------------------------------------
\* The inductive invariant: how far an attempt has tried to clean up, what it
\* may have left, where its server is, and why a server is in a namespace that
\* has lost its name.
THEOREM RunnerInvariant == Spec => []IInv
<1> QED
  BY InitIInv, StepIInv, PTL DEF Spec

\* The values of the variables.
THEOREM RunnerTypeCorrect == Spec => []TypeOK
<1>1. IInv => TypeOK
  BY DEF IInv
<1> QED
  BY <1>1, RunnerInvariant, PTL

\* The stages of run, its handler and its finally clause together leave no name
\* on the host without a failed cleanup or a kill, and no server without one of
\* these or an interrupt of an attempt whose lab another one had taken down,
\* with any number of processes on the host and whatever fails.
THEOREM ResidueExplained == Spec => []ResidueHasCause
<1>1. IInv => ResidueHasCause
  BY DEF IInv
<1> QED
  BY <1>1, RunnerInvariant, PTL

\* The check before finalise keeps a complete bundle from being published by
\* an attempt whose cleanup has failed without a word, and no attempt comes to
\* it with its server running.
THEOREM CompleteIsClean == Spec => []CompleteLeavesNothing
<1>1. IInv => CompleteLeavesNothing
  BY DEF IInv, Fits, NoNames, ServerOf, CompleteLeavesNothing
<1> QED
  BY <1>1, RunnerInvariant, PTL

\* The handler finalises what it catches, unless the evidence itself cannot be
\* written or sealed.
THEOREM FailuresRetained == Spec => []FailureIsEvidence
<1>1. IInv => FailureIsEvidence
  BY DEF IInv, Fits, Evident, FailureIsEvidence
<1> QED
  BY <1>1, RunnerInvariant, PTL

-----------------------------------------------------------------------------
(***************************************************************************)
(* What a run decides by: every property of SwitchPolicy, for every number *)
(* of paths, every score, every limit and every sequence of observations.  *)
(***************************************************************************)
\* The switches in order, none of them ahead of the clock.
SwitchesInOrder ==
    /\ \A i, j \in 1 .. Len(switches) : i <= j => switches[i] <= switches[j]
    /\ \A i \in 1 .. Len(switches) : switches[i] <= now

\* What has left the deque is an hour old.
ExpiredIsOld == \A k \in 1 .. expired : switches[k] + Hour <= now

\* A hold began at a decision that found the path degraded, and so did all
\* later ones; no degraded run is older than the hold.
HoldIsRun ==
    /\ since # Never => \E j \in 1 .. Len(log) : DegradedSince(j) /\ log[j].at = since
    /\ \A j \in 1 .. Len(log) : DegradedSince(j) => since # Never /\ log[j].at >= since

PolicyInv ==
    /\ PolicyTypeOK
    /\ SwitchesInOrder
    /\ ExpiredIsOld
    /\ HoldIsRun
    /\ RateLimit
    /\ IntervalKept
    /\ NoStarvation

\* A decision: one of the branches of decide at a later time.
Decision(t, o) ==
    t \in (now + 1) .. (now + MaxGap) /\ o \in [Path -> Observation]
    /\ Decide(t, o) /\ Observed(t, o) /\ UNCHANGED strategy

-----------------------------------------------------------------------------
LEMMA PolicyFacts ==
  /\ Start \in Path
  /\ MinInterval \in Nat /\ MaxPerHour \in Nat \ {0} /\ Hour \in Nat \ {0}
  /\ MaxGap \in Nat /\ Hold \in Nat
<1>1. /\ Start \in Path
      /\ {SustainedDegradation, ThresholdHold, MinInterval} \subseteq Nat
      /\ {MaxPerHour, Hour} \subseteq Nat \ {0} /\ {MaxGap, MaxTime} \subseteq Nat
  BY PolicyAssumption
<1>2. SustainedDegradation \in Nat /\ ThresholdHold \in Nat
  BY <1>1, Zenon
<1> QED
  BY <1>1, <1>2 DEF Hold

LEMMA PolicyStep ==
  ASSUME PolicyNext
  PROVE  \E t, o : Decision(t, o)
  BY DEF PolicyNext, Decision

LEMMA PolicyStarts == PolicyInit => PolicyInv
<1> SUFFICES ASSUME PolicyInit PROVE PolicyInv
  OBVIOUS
<1> USE PolicyFacts DEF PolicyInit
<1>1. PolicyTypeOK
  <2>0. strategy \in Strategies
    OBVIOUS
  <2>1. since \in {Never} \cup 0 .. now /\ now \in Nat /\ active \in Path
    BY DEF Never
  <2>2. switches \in Seq(Nat) /\ log \in Seq(Entry)
    OBVIOUS
  <2>3. Len(switches) = 0 /\ 0 \in 0 .. 0
    OBVIOUS
  <2>4. expired \in 0 .. Len(switches) /\ chance \in BOOLEAN
    BY <2>3, Zenon
  <2> QED
    BY <2>0, <2>1, <2>2, <2>4, Zenon DEF PolicyTypeOK
<1>2. SwitchesInOrder /\ ExpiredIsOld /\ RateLimit /\ IntervalKept
  BY DEF SwitchesInOrder, ExpiredIsOld, RateLimit, IntervalKept
<1>3. HoldIsRun /\ NoStarvation
  BY DEF HoldIsRun, NoStarvation, DegradedSince, Never
<1> QED
  BY <1>1, <1>2, <1>3 DEF PolicyInv

\* The clock advances.
LEMMA DecisionTime ==
  ASSUME PolicyTypeOK, NEW t, NEW o, Decision(t, o)
  PROVE  t \in Nat /\ t > now /\ now' = t
  BY PolicyFacts DEF PolicyTypeOK, Decision, Observed

-----------------------------------------------------------------------------
LEMMA DecisionType ==
  ASSUME PolicyTypeOK, NEW t, NEW o, Decision(t, o)
  PROVE  PolicyTypeOK'
<1>1. t \in Nat /\ t > now /\ now' = t
  BY DecisionTime
<1>2. now' \in Nat /\ now \in Nat
  BY <1>1 DEF PolicyTypeOK
<1>3. HoldStart(t) \in 0 .. t
  BY <1>1, <1>2 DEF PolicyTypeOK, HoldStart, Never
<1>4. /\ active' \in Path
      /\ since' \in {Never} \cup 0 .. t
      /\ switches' \in Seq(Nat)
      /\ expired' \in 0 .. Len(switches')
  <2>1. CASE Healthy(t, o) \/ NotSustained(t, o) \/ NoImprovement(t, o)
    BY <2>1, <1>1, <1>2, <1>3 DEF Healthy, NotSustained, NoImprovement, PolicyTypeOK
  <2>2. CASE Guarded(t, o)
    BY <2>2, <1>1, <1>2, <1>3 DEF Guarded, PolicyTypeOK
  <2>3. CASE Switch(t, o)
    BY <2>3, <1>1, <1>2, <1>3 DEF Switch, PolicyTypeOK
  <2> QED
    BY <2>1, <2>2, <2>3 DEF Decision, Decide
<1>5. chance' \in BOOLEAN
  BY DEF Decision, Observed
<1>6. log' \in Seq(Entry)
  <2> DEFINE entry == [at |-> t, degraded |-> Degraded(o[active])]
  <2>1. Degraded(o[active]) \in BOOLEAN
    BY Zenon DEF Degraded
  <2>2. entry \in Entry
    BY <2>1, <1>1 DEF Entry
  <2>3. log' = IF active' # active THEN <<>> ELSE Append(log, entry)
    BY DEF Decision, Observed
  <2>4. log \in Seq(Entry)
    BY DEF PolicyTypeOK
  <2> HIDE DEF entry
  <2>5. Append(log, entry) \in Seq(Entry)
    BY <2>2, <2>4
  <2> QED
    BY <2>3, <2>5
<1>7. strategy' \in Strategies
  BY DEF Decision, PolicyTypeOK
<1> QED
  BY <1>1, <1>2, <1>4, <1>5, <1>6, <1>7 DEF PolicyTypeOK

-----------------------------------------------------------------------------
\* What the guard has let pass at time t.
LEMMA PoppedIsOld ==
  ASSUME PolicyTypeOK, ExpiredIsOld, NEW t \in Nat, t > now, NEW n, Popped(t, n)
  PROVE  /\ n \in 0 .. Len(switches)
         /\ \A k \in 1 .. n : switches[k] + Hour <= t
<1>1. n \in expired .. Len(switches) /\ expired \in 0 .. Len(switches)
  BY DEF Popped, PolicyTypeOK
<1>2. n \in 0 .. Len(switches)
  BY <1>1
<1>3. ASSUME NEW k \in 1 .. n PROVE switches[k] + Hour <= t
  <2>1. switches[k] \in Nat /\ now \in Nat /\ Hour \in Nat
    BY <1>2, PolicyFacts DEF PolicyTypeOK
  <2>2. CASE k <= expired
    BY <2>1, <2>2, <1>1 DEF ExpiredIsOld
  <2>3. CASE k > expired
    <3>1. switches[k] <= t - Hour
      BY <2>3, <1>1 DEF Popped
    <3> QED
      BY <3>1, <2>1
  <2> QED
    BY <2>2, <2>3, <1>1
<1> QED
  BY <1>2, <1>3

\* A switch at time t is the only decision that completes one.
LEMMA DecisionSwitches ==
  ASSUME PolicyInv, NEW t, NEW o, Decision(t, o)
  PROVE  SwitchesInOrder' /\ ExpiredIsOld' /\ RateLimit' /\ IntervalKept'
<1> USE PolicyFacts
<1>1. t \in Nat /\ now \in Nat /\ t > now /\ now' = t
  BY DecisionTime DEF PolicyInv, PolicyTypeOK
<1>2. switches \in Seq(Nat) /\ expired \in 0 .. Len(switches) /\ Len(switches) \in Nat
  BY DEF PolicyInv, PolicyTypeOK
<1>3. \A i \in 1 .. Len(switches) : switches[i] \in Nat /\ switches[i] <= now
  BY <1>2 DEF PolicyInv, SwitchesInOrder
<1>4. CASE UNCHANGED switches
  <2>1. SwitchesInOrder' /\ RateLimit' /\ IntervalKept'
    BY <1>4, <1>1, <1>3 DEF PolicyInv, SwitchesInOrder, RateLimit, IntervalKept
  <2>2. ExpiredIsOld'
    <3>1. CASE UNCHANGED expired
      BY <3>1, <1>4, <1>1, <1>2, <1>3 DEF PolicyInv, ExpiredIsOld
    <3>2. CASE Guarded(t, o)
      <4>1. PICK n : Popped(t, n) /\ expired' = n
        BY <3>2 DEF Guarded
      <4> QED
        BY <4>1, <1>1, <1>4, PoppedIsOld DEF PolicyInv, ExpiredIsOld
    <3>3. CASE Switch(t, o)
      <4>1. switches' = Append(switches, t)
        BY <3>3 DEF Switch
      <4>2. Len(Append(switches, t)) = Len(switches) + 1
        BY <1>1, <1>2
      <4> QED
        BY <4>1, <4>2, <1>2, <1>4
    <3> QED
      BY <3>1, <3>2, <3>3 DEF Decision, Decide, Healthy, NotSustained, NoImprovement
  <2> QED
    BY <2>1, <2>2
<1>5. CASE Switch(t, o)
  <2>1. PICK n : Popped(t, n) /\ ~Blocked(t, n) /\ expired' = n
    BY <1>5 DEF Switch
  <2>2. switches' = Append(switches, t)
    BY <1>5 DEF Switch
  <2>3. n \in 0 .. Len(switches) /\ \A k \in 1 .. n : switches[k] + Hour <= t
    BY <2>1, <1>1, PoppedIsOld DEF PolicyInv
  <2>4. /\ Len(switches') = Len(switches) + 1
        /\ switches'[Len(switches) + 1] = t
        /\ \A i \in 1 .. Len(switches) : switches'[i] = switches[i]
    BY <2>2, <1>2, <1>1
  <2>5. SwitchesInOrder'
    <3>1. Len(switches) \in Nat /\ now \in Nat /\ t \in Nat /\ now <= t /\ now' = t
      BY <1>1, <1>2, <1>3
    <3>2. /\ \A i, j \in 1 .. Len(switches) : i <= j => switches[i] <= switches[j]
          /\ \A i \in 1 .. Len(switches) : switches[i] \in Nat /\ switches[i] <= now
      BY <1>1, <1>2 DEF PolicyInv, SwitchesInOrder
    <3>3. ASSUME NEW i \in 1 .. Len(switches') PROVE switches'[i] <= t
      BY <2>4, <3>1, <3>2
    <3>4. ASSUME NEW i \in 1 .. Len(switches'), NEW j \in 1 .. Len(switches'), i <= j
          PROVE  switches'[i] <= switches'[j]
      <4>1. CASE j = Len(switches) + 1
        BY <2>4, <3>3, <4>1
      <4>2. CASE j # Len(switches) + 1
        <5>1. i \in 1 .. Len(switches) /\ j \in 1 .. Len(switches)
          BY <2>4, <3>1, <3>4, <4>2
        <5> QED
          BY <2>4, <3>2, <3>4, <5>1
      <4> QED
        BY <4>1, <4>2
    <3> QED
      BY <3>1, <3>3, <3>4 DEF SwitchesInOrder
  <2>6. ExpiredIsOld'
    <3> SUFFICES ASSUME NEW k \in 1 .. n PROVE switches'[k] + Hour <= t
      BY <2>1, <1>1 DEF ExpiredIsOld
    <3>1. switches'[k] = switches[k]
      BY <2>3, <2>4, <1>2
    <3> QED
      BY <3>1, <2>3
  <2>7. RateLimit'
    <3> SUFFICES ASSUME NEW i \in 1 .. Len(switches'), i + MaxPerHour <= Len(switches')
                 PROVE  switches'[i + MaxPerHour] >= switches'[i] + Hour
      BY DEF RateLimit
    <3>1. MaxPerHour \in Nat \ {0}
      OBVIOUS
    <3>2. CASE i + MaxPerHour <= Len(switches)
      BY <3>1, <3>2, <2>4, <1>2 DEF PolicyInv, RateLimit
    <3>3. CASE i + MaxPerHour = Len(switches) + 1
      <4>1. Len(switches) - n < MaxPerHour
        BY <2>1, <2>3, <1>2 DEF Blocked
      <4>2. i \in 1 .. n
        BY <4>1, <3>3, <3>1, <2>3, <1>2
      <4> QED
        <5>0. i \in 1 .. Len(switches)
          BY <4>2, <2>3, <1>2
        <5>1. switches'[i] = switches[i] /\ switches[i] + Hour <= t
          BY <4>2, <5>0, <2>3, <2>4, Zenon
        <5>2. switches'[i + MaxPerHour] = t
          BY <3>3, <3>1, <2>4, <1>2
        <5>3. switches[i] \in Nat
          BY <4>2, <2>3, <1>2, <1>3
        <5> QED
          BY <5>1, <5>2, <5>3, <1>1
    <3>4. i + MaxPerHour <= Len(switches) \/ i + MaxPerHour = Len(switches) + 1
      BY <3>1, <2>4, <1>2
    <3> QED
      BY <3>2, <3>3, <3>4
  <2>8. IntervalKept'
    <3> SUFFICES ASSUME NEW i \in 1 .. Len(switches') - 1
                 PROVE  \/ switches'[i + 1] - switches'[i] >= MinInterval
                        \/ switches'[i + 1] - switches'[i] >= Hour
      BY DEF IntervalKept
    <3>1. CASE i < Len(switches)
      BY <3>1, <2>4, <1>2 DEF PolicyInv, IntervalKept
    <3>2. CASE i = Len(switches)
      <4>1. CASE n < Len(switches)
        BY <4>1, <3>2, <2>1, <2>4, <1>1, <1>2, <1>3 DEF Blocked
      <4>2. CASE n = Len(switches)
        <5>1. switches[i] + Hour <= t /\ switches[i] \in Nat
          BY <4>2, <3>2, <2>3, <1>2, <1>3
        <5>2. switches'[i] = switches[i] /\ switches'[i + 1] = t
          BY <3>2, <2>4, <1>2
        <5> QED
          BY <5>1, <5>2, <1>1
      <4> QED
        BY <4>1, <4>2, <2>3, <1>2
    <3> QED
      BY <3>1, <3>2, <2>4, <1>2
  <2> QED
    BY <2>5, <2>6, <2>7, <2>8
<1> QED
  BY <1>4, <1>5 DEF Decision, Decide, Healthy, NotSustained, NoImprovement, Guarded

-----------------------------------------------------------------------------
\* The log of a decision that does not switch.
LEMMA DecisionLog ==
  ASSUME PolicyTypeOK, NEW t, NEW o, Decision(t, o), active' = active
  PROVE  /\ Len(log) \in Nat /\ Len(log') = Len(log) + 1
         /\ log'[Len(log) + 1] = [at |-> t, degraded |-> Degraded(o[active])]
         /\ \A k \in 1 .. Len(log) : log'[k] = log[k]
<1> DEFINE entry == [at |-> t, degraded |-> Degraded(o[active])]
<1>1. log' = Append(log, entry)
  BY DEF Decision, Observed
<1>2. log \in Seq(Entry)
  BY DEF PolicyTypeOK
<1> HIDE DEF entry
<1>3. /\ Len(log) \in Nat /\ Len(log') = Len(log) + 1
      /\ log'[Len(log) + 1] = entry
      /\ \A k \in 1 .. Len(log) : log'[k] = log[k]
  BY <1>1, <1>2
<1> QED
  BY <1>3 DEF entry

\* A run of degraded decisions after a decision that keeps the path.
LEMMA DecisionRun ==
  ASSUME PolicyTypeOK, NEW t, NEW o, Decision(t, o), active' = active,
         NEW j \in 1 .. Len(log')
  PROVE  DegradedSince(j)' <=>
           Degraded(o[active]) /\ (j = Len(log) + 1 \/ (j \in 1 .. Len(log) /\ DegradedSince(j)))
<1>1. /\ Len(log) \in Nat /\ Len(log') = Len(log) + 1
      /\ log'[Len(log) + 1] = [at |-> t, degraded |-> Degraded(o[active])]
      /\ \A k \in 1 .. Len(log) : log'[k] = log[k]
  BY DecisionLog
<1>2. log'[Len(log) + 1].degraded = Degraded(o[active])
  BY <1>1
<1>3. DegradedSince(j)' <=> \A k \in j .. Len(log') : log'[k].degraded
  BY DEF DegradedSince
<1>4. CASE j = Len(log) + 1
  <2>1. \A k \in j .. Len(log') : k = Len(log) + 1
    BY <1>1, <1>4
  <2>2. Len(log) + 1 \in j .. Len(log')
    BY <1>1, <1>4
  <2> QED
    BY <1>2, <1>3, <1>4, <2>1, <2>2, Zenon
<1>5. CASE j \in 1 .. Len(log)
  <2>1. \A k \in j .. Len(log') : k = Len(log) + 1 \/ k \in j .. Len(log)
    BY <1>1, <1>5
  <2>2. Len(log) + 1 \in j .. Len(log') /\ \A k \in j .. Len(log) : k \in j .. Len(log')
    BY <1>1, <1>5
  <2>3. \A k \in j .. Len(log) : log'[k] = log[k]
    BY <1>1, <1>5
  <2>4. j # Len(log) + 1
    BY <1>1, <1>5
  <2> QED
    BY <1>2, <1>3, <1>5, <2>1, <2>2, <2>3, <2>4, Zenon DEF DegradedSince
<1> QED
  BY <1>1, <1>4, <1>5

\* A hold is the degraded run that is going on.
LEMMA DecisionHold ==
  ASSUME PolicyInv, NEW t, NEW o, Decision(t, o)
  PROVE  HoldIsRun' /\ NoStarvation'
<1>1. t \in Nat /\ now \in Nat /\ t > now /\ now' = t
  BY DecisionTime DEF PolicyInv, PolicyTypeOK
<1>2. PolicyTypeOK /\ HoldIsRun
  BY DEF PolicyInv
<1>0. Hold' = Hold
  BY DEF Decision, Hold
<1>3. CASE active' = active
  <2>1. /\ Len(log) \in Nat /\ Len(log') = Len(log) + 1
        /\ log'[Len(log) + 1].at = t
        /\ \A k \in 1 .. Len(log) : log'[k] = log[k]
    <3>1. /\ Len(log) \in Nat /\ Len(log') = Len(log) + 1
          /\ log'[Len(log) + 1] = [at |-> t, degraded |-> Degraded(o[active])]
          /\ \A k \in 1 .. Len(log) : log'[k] = log[k]
      BY <1>2, <1>3, DecisionLog
    <3>2. [at |-> t, degraded |-> Degraded(o[active])].at = t
      OBVIOUS
    <3> QED
      BY <3>1, <3>2, Zenon
  <2>2. \A j \in 1 .. Len(log') : DegradedSince(j)' <=>
           Degraded(o[active]) /\ (j = Len(log) + 1 \/ (j \in 1 .. Len(log) /\ DegradedSince(j)))
    BY <1>2, <1>3, DecisionRun
  <2>3. Len(log') \in 1 .. Len(log') /\ Len(log) + 1 \in 1 .. Len(log')
    BY <2>1
  <2>4. CASE Healthy(t, o)
    <3>1. since' = Never /\ ~Degraded(o[active])
      BY <2>4 DEF Healthy
    <3>2. \A j \in 1 .. Len(log') : ~DegradedSince(j)'
      BY <2>2, <3>1
    <3> QED
      BY <2>3, <3>1, <3>2 DEF HoldIsRun, NoStarvation
  <2>5. CASE Degraded(o[active]) /\ since' = HoldStart(t)
    <3>1. \A j \in 1 .. Len(log) : DegradedSince(j) => since # Never /\ log[j].at >= since
      BY <1>2 DEF HoldIsRun
    <3>2. HoldStart(t) \in Nat /\ HoldStart(t) # Never /\ HoldStart(t) <= t
      BY <1>1, <1>2 DEF HoldStart, PolicyTypeOK, Never
    <3>3. ASSUME NEW j \in 1 .. Len(log'), DegradedSince(j)'
          PROVE  log'[j].at >= HoldStart(t)
      <4>1. CASE j = Len(log) + 1
        BY <4>1, <2>1, <3>2, <1>1
      <4>2. CASE j \in 1 .. Len(log) /\ DegradedSince(j)
        BY <4>2, <2>1, <3>1 DEF HoldStart
      <4> QED
        BY <2>2, <3>3, <4>1, <4>2
    <3>4. \E j \in 1 .. Len(log') : DegradedSince(j)' /\ log'[j].at = HoldStart(t)
      <4>1. CASE since = Never
        BY <4>1, <2>1, <2>2, <2>3, <2>5 DEF HoldStart
      <4>2. CASE since # Never
        <5>1. PICK j \in 1 .. Len(log) : DegradedSince(j) /\ log[j].at = since
          BY <4>2, <1>2 DEF HoldIsRun
        <5>2. j \in 1 .. Len(log') /\ log'[j] = log[j]
          BY <2>1
        <5>3. DegradedSince(j)'
          BY <5>1, <5>2, <2>2, <2>5
        <5> QED
          BY <4>2, <5>1, <5>2, <5>3 DEF HoldStart
      <4> QED
        BY <4>1, <4>2
    <3>5. HoldIsRun'
      <4>1. since' # Never
        BY <2>5, <3>2
      <4> QED
        BY <2>5, <3>3, <3>4, <4>1 DEF HoldIsRun
    <3>6. NoStarvation'
      <4>1. CASE NotSustained(t, o)
        <5>1. t - HoldStart(t) < Hold
          BY <4>1, <3>2, <1>1, PolicyFacts DEF NotSustained, Sustained
        <5>2. ASSUME NEW j \in 1 .. Len(log'), DegradedSince(j)'
              PROVE  t - log'[j].at < Hold
          <6>1. log'[j].at \in Nat
            <7>1. CASE j = Len(log) + 1
              BY <7>1, <2>1, <1>1
            <7>2. CASE j \in 1 .. Len(log)
              <8>1. log[j] \in Entry
                BY <7>2, <1>2 DEF PolicyTypeOK
              <8>2. log[j].at \in Nat
                BY <8>1 DEF Entry
              <8> QED
                BY <7>2, <8>2, <2>1, Zenon
            <7> QED
              BY <7>1, <7>2, <2>1
          <6> QED
            BY <6>1, <5>1, <5>2, <3>2, <3>3, <1>1, PolicyFacts
        <5> QED
          BY <5>2, <1>0, <1>1 DEF NoStarvation
      <4>2. CASE NoImprovement(t, o)
        <5>1. ~chance'
          BY <4>2 DEF NoImprovement, Decision, Observed
        <5> QED
          BY <5>1 DEF NoStarvation
      <4>3. CASE Guarded(t, o)
        <5>1. PICK n \in 0 .. Len(switches) : Popped(t, n) /\ Blocked(t, n)
          BY <4>3 DEF Guarded
        <5>2. switches' = switches /\ Len(switches) \in Nat
          BY <4>3, <1>2 DEF Guarded, PolicyTypeOK
        <5>3. n < Len(switches)
          BY <5>1, <5>2, PolicyFacts DEF Blocked
        <5>4. n + 1 \in 1 .. Len(switches) /\ switches[n + 1] \in Nat
          BY <5>1, <5>2, <5>3, <1>2 DEF PolicyTypeOK
        <5>5. t - switches[n + 1] < Hour
          BY <5>1, <5>3, <5>4, <1>1, PolicyFacts DEF Popped
        <5> QED
          BY <5>2, <5>4, <5>5, <1>1 DEF NoStarvation
      <4>4. CASE Switch(t, o)
        BY <4>4, <1>3 DEF Switch, Improves, IsBest
      <4>5. CASE Healthy(t, o)
        BY <4>5, <2>5 DEF Healthy
      <4> QED
        BY <4>1, <4>2, <4>3, <4>4, <4>5 DEF Decision, Decide
    <3> QED
      BY <3>5, <3>6
  <2>6. ~Switch(t, o)
    BY <1>3 DEF Switch, Improves, IsBest
  <2>7. NotSustained(t, o) \/ NoImprovement(t, o) \/ Guarded(t, o)
           => Degraded(o[active]) /\ since' = HoldStart(t)
    BY DEF NotSustained, NoImprovement, Guarded, Sustained
  <2> QED
    BY <2>4, <2>5, <2>6, <2>7 DEF Decision, Decide
<1>4. CASE active' # active
  <2>1. log' = <<>> /\ since' = Never
    BY <1>4 DEF Decision, Observed, Decide, Healthy, NotSustained, NoImprovement, Guarded, Switch
  <2>2. Len(log') = 0
    BY <2>1
  <2> QED
    BY <2>1, <2>2 DEF HoldIsRun, NoStarvation
<1> QED
  BY <1>3, <1>4

-----------------------------------------------------------------------------
(***************************************************************************)
(* The theorems.                                                           *)
(***************************************************************************)
\* The inductive invariant: the deque is a suffix of the completed switches
\* that lost only what is an hour old, and a hold is the degraded run.
THEOREM PolicyInvariant == PolicySpec => []PolicyInv
<1>1. PolicyInit => PolicyInv
  BY PolicyStarts
<1>2. PolicyInv /\ [PolicyNext]_policyVars => PolicyInv'
  <2>1. ASSUME PolicyInv, PolicyNext PROVE PolicyInv'
    <3>1. PICK t, o : Decision(t, o)
      BY <2>1, PolicyStep
    <3>2. PolicyTypeOK'
      BY <2>1, <3>1, DecisionType DEF PolicyInv
    <3>3. SwitchesInOrder' /\ ExpiredIsOld' /\ RateLimit' /\ IntervalKept'
      BY <2>1, <3>1, DecisionSwitches
    <3>4. HoldIsRun' /\ NoStarvation'
      BY <2>1, <3>1, DecisionHold
    <3> QED
      BY <3>2, <3>3, <3>4 DEF PolicyInv
  <2>2. ASSUME PolicyInv, UNCHANGED policyVars PROVE PolicyInv'
    BY <2>2 DEF PolicyInv, policyVars, PolicyTypeOK, SwitchesInOrder, ExpiredIsOld,
                HoldIsRun, DegradedSince,
                RateLimit, IntervalKept, NoStarvation, Hold
  <2> QED
    BY <2>1, <2>2
<1> QED
  BY <1>1, <1>2, PTL DEF PolicySpec

\* The values of the variables stay what they are said to be.
THEOREM PolicyTypeCorrect == PolicySpec => []PolicyTypeOK
BY PolicyInvariant, PTL DEF PolicyInv

\* _switch_guard keeps max_switches_per_hour, at the boundary too: the
\* switches it popped are an hour old, and fewer than the limit are left.  It
\* keeps min_switch_interval_s up to an hour.
THEOREM GuardHolds == PolicySpec => []SwitchesSpaced
<1>1. PolicyInv => SwitchesSpaced
  BY DEF PolicyInv, SwitchesSpaced
<1>. QED BY <1>1, PolicyInvariant, PTL

\* A useful switch is held back only by the hold or by a recent switch.
THEOREM NothingStarves == PolicySpec => []NoStarvation
BY PolicyInvariant, PTL DEF PolicyInv

\* A switch follows a degraded run of the hold time.
THEOREM SwitchesAreSustained == PolicySpec => SwitchIsSustained
<1>1. PolicyInv /\ [PolicyNext]_policyVars =>
        [active' # active =>
          \/ Hold = 0
          \/ \E j \in 1 .. Len(log) : DegradedSince(j) /\ now' - log[j].at >= Hold]_policyVars
  <2> SUFFICES ASSUME PolicyInv, PolicyNext, active' # active
               PROVE  \/ Hold = 0
                      \/ \E j \in 1 .. Len(log) : DegradedSince(j) /\ now' - log[j].at >= Hold
    OBVIOUS
  <2>1. PICK t, o : Decision(t, o)
    BY PolicyStep
  <2>2. t \in Nat /\ now' = t /\ Hold \in Nat
    BY <2>1, DecisionTime, PolicyFacts DEF PolicyInv
  <2>3. t - HoldStart(t) >= Hold
    BY <2>1 DEF Decision, Decide, Healthy, NotSustained, NoImprovement, Guarded, Switch, Sustained
  <2>4. CASE since = Never
    BY <2>2, <2>3, <2>4 DEF HoldStart
  <2>5. CASE since # Never
    <3>1. PICK j \in 1 .. Len(log) : DegradedSince(j) /\ log[j].at = since
      BY <2>5 DEF PolicyInv, HoldIsRun
    <3> QED
      BY <3>1, <2>2, <2>3, <2>5 DEF HoldStart
  <2> QED
    BY <2>4, <2>5
<1> QED
  BY <1>1, PolicyInvariant, PTL DEF PolicySpec, SwitchIsSustained

=============================================================================
