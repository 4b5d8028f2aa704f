------------------------ MODULE WindowedExecutorProofs ------------------------
(***************************************************************************)
(* Proofs about WindowedExecutor, for any number of paths, phases and      *)
(* windows, any packets in a window and any run token.                     *)
(*                                                                         *)
(* The rows and events of a phase are local until Return writes them, so   *)
(* the invariant speaks of the bundle and the phase together.              *)
(***************************************************************************)
EXTENDS WindowedExecutor, SequenceTheorems, TLAPS

\* Within a phase rows, events, sequence and active are those of the phase.
InPhase   == stage \notin {"phase", "done"}
AllRows   == IF InPhase THEN bundle.rows \o rows ELSE bundle.rows
AllEvents == IF InPhase THEN bundle.events \o events ELSE bundle.events
Total     == IF InPhase THEN sequence ELSE kept.sequence
Current   == IF InPhase THEN active ELSE kept.active

\* The windows that have been submitted.
Counted ==
    /\ stage # "done" => phase <= Phases
    /\ stage \notin {"phase", "return", "done"} => window <= Windows
    /\ stage = "phase" => probeWindow = (phase - 1) * Windows
    /\ stage = "window" => probeWindow = (phase - 1) * Windows + window - 1
    /\ stage \in {"collect", "leaving", "failed"} => probeWindow = (phase - 1) * Windows + window
    /\ stage = "return" => probeWindow = phase * Windows

\* The rows are numbered from 0, and sequence comes next.
Numbered ==
    /\ Len(AllRows) = Total
    /\ \A i \in 1 .. Len(AllRows) : AllRows[i].sequence = i - 1

\* The event in effect for a row has the path of the row.
Effect(E, n) == {i \in 1 .. Len(E) : E[i].effective <= n}
PathAfter(E, n, p) ==
    \/ Effect(E, n) = {} /\ p = First
    \/ \E i \in Effect(E, n) : (\A j \in Effect(E, n) : j <= i) /\ p = E[i].to
Matches(R, E) == \A r \in 1 .. Len(R) : PathAfter(E, R[r].sequence, R[r].path)

\* All events are in effect for the rows to come, and the active path is
\* that of the last one.
Followed ==
    /\ \A i \in 1 .. Len(AllEvents) : AllEvents[i].effective <= Total
    /\ Len(AllEvents) = 0 => Current = First
    /\ Len(AllEvents) # 0 => Current = AllEvents[Len(AllEvents)].to
    /\ Matches(AllRows, AllEvents)
    /\ Matches(bundle.rows, bundle.events)

\* The rows come from windows in which nothing failed, and the window that is
\* collected has no rows yet.
Untainted ==
    /\ \A i \in 1 .. Len(AllRows) :
          /\ AllRows[i].window \notin tainted /\ AllRows[i].window <= probeWindow
          /\ stage \in {"collect", "leaving"} => AllRows[i].window < probeWindow
    /\ stage = "collect" /\ probeWindow \in tainted =>
          \E s \in Stream : result[s] \in {"bad", "raised"}

\* Token i of the run is i after the run token.
Consecutive ==
    /\ Len(tokens) = probeWindow * (Paths + 1)
    /\ \A i \in 1 .. Len(tokens) : tokens[i] = (RunToken + i) % Tokens

\* The bundle holds the rows of the phases before this one, and what this
\* phase has switched is in effect for none of them.
Grown ==
    /\ Len(bundle.rows) = kept.sequence /\ kept.sequence <= Total
    /\ InPhase => \A i \in 1 .. Len(events) : events[i].effective > kept.sequence

Intact ==
    /\ TypeOK /\ Counted /\ Numbered /\ Followed /\ Untainted /\ Consecutive
    /\ NoProbeLeftBehind /\ Grown

\* After a write that raised nothing happens, and the bundle is what it was.
Torn ==
    /\ stage = "torn"
    /\ TypeOK /\ SequencesContiguous /\ PathsMatchSwitches /\ TokensDistinct
    /\ NoTaintedRow /\ NoProbeLeftBehind

IInv == (stage # "torn" /\ Intact) \/ Torn

\* The steps that write all there is to write, or nothing.
Unfailing == [Next]_vars /\ ~ WriteFails

-----------------------------------------------------------------------------
(***************************************************************************)
(* Facts about the operators.                                              *)
(***************************************************************************)
LEMMA ConstantFacts ==
    /\ Paths \in Nat /\ Paths >= 1 /\ Phases \in Nat /\ Phases >= 1
    /\ Windows \in Nat /\ Windows >= 1 /\ Tokens \in Nat /\ Tokens >= 1
    /\ RunToken \in Nat /\ RunToken < Tokens
    /\ \A n \in Rows : n \in Nat /\ n >= 1
    /\ Stream = 1 .. Paths + 1 /\ Path = 1 .. Paths /\ First \in Path
BY ExecutorAssumption DEF Stream, Path, First

\* p phases of Windows windows are no more than Phases of them.
LEMMA WindowsOfPhases ==
  ASSUME NEW p \in Nat, p <= Phases
  PROVE  /\ p * Windows \in Nat /\ p * Windows <= Phases * Windows
         /\ (p - 1) * Windows = p * Windows - Windows
         /\ (p + 1) * Windows = p * Windows + Windows
<1>1. Phases - p \in Nat /\ Windows \in Nat
  BY ConstantFacts
<1>2. (Phases - p) * Windows >= 0
  BY <1>1
<1>3. (Phases - p) * Windows = Phases * Windows - p * Windows
  BY ConstantFacts
<1> QED
  BY <1>2, <1>3, ConstantFacts

\* Two numbers less than t apart with one remainder are equal.
LEMMA RemainderDistinct ==
  ASSUME NEW t \in Nat, t >= 1, NEW a \in Nat, NEW b \in Nat,
         a <= b, b - a < t, a % t = b % t
  PROVE  a = b
<1> DEFINE p == a \div t
           q == b \div t
<1>1. p \in Int /\ q \in Int /\ a = t * p + (a % t) /\ b = t * q + (b % t)
  <2>1. p \in Int
    OBVIOUS
  <2>2. a = t * p + (a % t)
    OBVIOUS
  <2>3. q \in Int
    OBVIOUS
  <2>4. b = t * q + (b % t)
    OBVIOUS
  <2> QED
    BY <2>1, <2>2, <2>3, <2>4
<1>2. b - a = t * (q - p)
  BY <1>1
<1>3. q - p \in Int /\ q - p >= 0
  <2> SUFFICES ASSUME q - p <= -1 PROVE FALSE
    BY <1>1
  <2>1. t * (q - p) <= t * (-1)
    BY <1>1
  <2> QED
    BY <2>1, <1>2
<1>4. q - p < 1
  <2> SUFFICES ASSUME q - p >= 1 PROVE FALSE
    BY <1>1
  <2>1. t * (q - p) >= t * 1
    BY <1>1
  <2> QED
    BY <2>1, <1>2
<1>5. q - p = 0
  BY <1>3, <1>4
<1> QED
  BY <1>2, <1>5

\* The rows of a window.
LEMMA MeasuredRows ==
  ASSUME TypeOK, NEW n \in Nat
  PROVE  /\ Measured(n) \in Seq(Row) /\ Len(Measured(n)) = n
         /\ \A i \in 1 .. n : /\ Measured(n)[i].sequence = sequence + i - 1
                              /\ Measured(n)[i].path = active
                              /\ Measured(n)[i].window = probeWindow
<1>1. \A i \in 1 .. n : [sequence |-> sequence + i - 1, path |-> active,
                         window |-> probeWindow] \in Row
  BY DEF TypeOK, Row
<1> QED
  BY <1>1 DEF Measured

-----------------------------------------------------------------------------
(***************************************************************************)
(* What the actions do to the rows and events of bundle and phase.         *)
(***************************************************************************)
\* The steps that fail.
Fails == FutureRaises \/ PoolLeft \/ IntegrityFailure

\* No step but Stay and Switch adds rows or events, wherever they are kept.
LEMMA OthersAddNothing ==
  ASSUME TypeOK,
         RunPhase \/ Submit \/ Fails \/ Return \/ (\E s \in Stream : ProbeEnds(s))
  PROVE  /\ AllRows' = AllRows /\ AllEvents' = AllEvents
         /\ Total' = Total /\ Current' = Current
<1> USE DEF InPhase, AllRows, AllEvents, Total, Current
<1>0. /\ bundle.rows \in Seq(Row) /\ bundle.events \in Seq(Event)
      /\ bundle.rows \o <<>> = bundle.rows /\ bundle.events \o <<>> = bundle.events
  BY ConcatEmptySeq DEF TypeOK
<1>1. CASE RunPhase
  BY <1>0, <1>1 DEF RunPhase
<1>2. CASE Submit
  BY <1>2 DEF Submit
<1>3. CASE Fails
  BY <1>3 DEF Fails, FutureRaises, PoolLeft, IntegrityFailure
<1>4. CASE Return
  BY <1>4 DEF Return
<1>5. ASSUME NEW s \in Stream, ProbeEnds(s)
      PROVE  /\ AllRows' = AllRows /\ AllEvents' = AllEvents
             /\ Total' = Total /\ Current' = Current
  BY <1>5 DEF ProbeEnds
<1> QED
  BY <1>1, <1>2, <1>3, <1>4, <1>5

\* A window adds its rows.
LEMMA WindowAddsRows ==
  ASSUME TypeOK, NEW n \in Rows, Stay(n) \/ \E p \in Path : Switch(n, p)
  PROVE  /\ AllRows' = AllRows \o Measured(n)
         /\ Total = sequence /\ Total' = Total + n /\ Current = active
         /\ bundle' = bundle /\ probeWindow' = probeWindow /\ tainted' = tainted
         /\ stage = "collect" /\ stage' \in {"window", "return"}
<1>0. /\ stage = "collect" /\ stage' \in {"window", "return"} /\ UNCHANGED <<bundle, kept>>
      /\ rows' = rows \o Measured(n) /\ sequence' = sequence + n
      /\ probeWindow' = probeWindow /\ tainted' = tainted
  BY DEF Stay, Switch, EndWindow
<1>1. Measured(n) \in Seq(Row) /\ rows \in Seq(Row) /\ bundle.rows \in Seq(Row)
  BY MeasuredRows, ConstantFacts DEF TypeOK
<1>2. \A a, b, c \in Seq(Row) : (a \o b) \o c = a \o (b \o c)
  BY ConcatAssociative
<1>3. (bundle.rows \o rows) \o Measured(n) = bundle.rows \o (rows \o Measured(n))
  BY <1>1, <1>2
<1> QED
  BY <1>0, <1>3 DEF InPhase, AllRows, Total, Current

LEMMA SwitchAddsEvent ==
  ASSUME TypeOK, NEW n \in Rows, NEW p \in Path, Switch(n, p)
  PROVE  /\ AllEvents' = Append(AllEvents, [from |-> active, to |-> p, effective |-> sequence + n])
         /\ Current' = p
<1> DEFINE e == [from |-> active, to |-> p, effective |-> sequence + n]
<1>1. e \in Event
  BY ConstantFacts DEF TypeOK, Event
<1>2. events' = Append(events, e) /\ active' = p /\ bundle' = bundle
      /\ stage = "collect" /\ stage' \in {"window", "return"}
  BY DEF Switch, EndWindow
<1>3. /\ <<e>> \in Seq(Event)
      /\ Append(events, e) = events \o <<e>>
      /\ events \in Seq(Event) /\ bundle.events \in Seq(Event)
      /\ bundle.events \o events \in Seq(Event)
  BY <1>1, AppendIsConcat, ConcatProperties DEF TypeOK
<1> HIDE DEF e
<1>4. (bundle.events \o events) \o <<e>> = bundle.events \o (events \o <<e>>)
  <2>1. \A a, b, c \in Seq(Event) : (a \o b) \o c = a \o (b \o c)
    BY ConcatAssociative
  <2> QED
    BY <1>3, <2>1
<1>5. (bundle.events \o events) \o <<e>> = Append(bundle.events \o events, e)
  BY <1>1, <1>3, AppendIsConcat
<1>6. AllEvents' = Append(AllEvents, e) /\ Current' = p
  BY <1>2, <1>3, <1>4, <1>5 DEF InPhase, AllEvents, Current
<1> QED
  BY <1>6 DEF e

LEMMA StayAddsNoEvent ==
  ASSUME NEW n \in Rows, Stay(n)
  PROVE  AllEvents' = AllEvents /\ Current' = Current
BY DEF Stay, EndWindow, InPhase, AllEvents, Current

\* A failure moves the stage, and nothing else.
LEMMA FailsMovesStage ==
  ASSUME Fails
  PROVE  /\ stage \in {"collect", "leaving"} /\ stage' \in {"leaving", "failed"}
         /\ stage' = "failed" => Running = {}
         /\ UNCHANGED <<phase, window, probeWindow, active, sequence, rows, events, kept,
                        bundle, result, tokens, tainted>>
<1>1. CASE FutureRaises
  BY <1>1, Zenon DEF FutureRaises
<1>2. CASE PoolLeft
  BY <1>2, Zenon DEF PoolLeft
<1>3. CASE IntegrityFailure
  BY <1>3, Zenon DEF IntegrityFailure
<1> QED
  BY <1>1, <1>2, <1>3 DEF Fails

LEMMA AllTyped ==
  ASSUME TypeOK
  PROVE  AllRows \in Seq(Row) /\ AllEvents \in Seq(Event) /\ Total \in Nat /\ Current \in Path
BY ConcatProperties DEF TypeOK, AllRows, AllEvents, Total, Current

-----------------------------------------------------------------------------
(***************************************************************************)
(* The parts of the invariant.                                             *)
(***************************************************************************)
LEMMA InitIInv == Init => IInv
<1> SUFFICES ASSUME Init PROVE IInv
  OBVIOUS
<1> USE ConstantFacts
<1>1. TypeOK
  <2>1. rows \in Seq(Row) /\ events \in Seq(Event) /\ tokens \in Seq(0 .. Tokens - 1)
    BY DEF Init
  <2>2. bundle \in [rows : Seq(Row), events : Seq(Event)]
    BY DEF Init
  <2>3. 0 <= Phases * Windows
    OBVIOUS
  <2> QED
    BY <2>1, <2>2, <2>3 DEF Init, TypeOK, Idle
<1>2. Counted /\ Consecutive
  BY DEF Init, Counted, Consecutive
<1>3. AllRows = <<>> /\ AllEvents = <<>> /\ Total = 0 /\ Current = First
  BY DEF Init, AllRows, AllEvents, Total, Current, InPhase
<1>4. Numbered /\ Untainted
  BY <1>3 DEF Init, Numbered, Untainted
<1>5. Matches(AllRows, AllEvents) /\ Matches(bundle.rows, bundle.events)
  BY <1>3 DEF Init, Matches
<1>6. Followed
  BY <1>3, <1>5 DEF Followed
<1>7. NoProbeLeftBehind
  BY DEF Init, NoProbeLeftBehind, Running, Idle
<1>8. Grown
  BY <1>3 DEF Init, Grown
<1> QED
  BY <1>1, <1>2, <1>4, <1>6, <1>7, <1>8 DEF Init, IInv, Intact

\* Every window is counted once, so there are Phases * Windows of them.
LEMMA StepCounted == TypeOK /\ Counted /\ Unfailing => Counted' /\ probeWindow' \in 0 .. Phases * Windows
<1> SUFFICES ASSUME TypeOK, Counted, Unfailing
             PROVE  Counted' /\ probeWindow' \in 0 .. Phases * Windows
  OBVIOUS
<1> USE ConstantFacts
<1>0. /\ phase \in Nat /\ phase >= 1 /\ window \in Nat /\ window >= 1 /\ probeWindow \in Nat
      /\ stage \in {"phase", "window", "collect", "leaving", "return", "failed", "torn", "done"}
  BY DEF TypeOK
<1>1. stage # "done" =>
         /\ phase * Windows \in Nat /\ phase * Windows <= Phases * Windows
         /\ (phase - 1) * Windows = phase * Windows - Windows
         /\ (phase + 1) * Windows = phase * Windows + Windows
  BY <1>0, WindowsOfPhases DEF Counted
<1>2. CASE RunPhase
  <2>1. (phase' - 1) * Windows = (phase - 1) * Windows
    BY <1>2 DEF RunPhase
  <2> QED
    BY <1>0, <1>1, <1>2, <2>1 DEF RunPhase, Counted
<1>3. CASE Submit
  BY <1>0, <1>1, <1>3 DEF Submit, Counted
<1>4. CASE Fails
  BY <1>0, <1>1, <1>4, FailsMovesStage DEF Counted
<1>5. ASSUME NEW s \in Stream, ProbeEnds(s)
      PROVE  Counted' /\ probeWindow' \in 0 .. Phases * Windows
  BY <1>0, <1>1, <1>5 DEF ProbeEnds, Counted, TypeOK
<1>6. ASSUME NEW n \in Rows, Stay(n) \/ \E p \in Path : Switch(n, p)
      PROVE  Counted' /\ probeWindow' \in 0 .. Phases * Windows
  <2>1. /\ stage = "collect" /\ phase' = phase /\ probeWindow' = probeWindow /\ EndWindow
    BY <1>6 DEF Stay, Switch
  <2> QED
    BY <1>0, <1>1, <2>1 DEF EndWindow, Counted
<1>7. CASE Return
  <2>1. (phase + 1 - 1) * Windows = phase * Windows
    BY <1>0
  <2> QED
    BY <1>0, <1>1, <1>7, <2>1 DEF Return, Counted
<1>8. CASE UNCHANGED vars
  BY <1>8 DEF vars, Counted, TypeOK
<1> QED
  BY <1>2, <1>3, <1>4, <1>5, <1>6, <1>7, <1>8 DEF Unfailing, Next, Fails

\* A window that is collected has been counted.
LEMMA SubmittedWindow ==
  ASSUME TypeOK, Counted, stage \in {"collect", "leaving"}
  PROVE  probeWindow \in Nat /\ probeWindow >= 1
<1>1. phase \in Nat /\ phase >= 1 /\ phase <= Phases /\ window \in Nat /\ window >= 1
  BY DEF TypeOK, Counted
<1>2. (phase - 1) * Windows \in Nat
  BY <1>1, ConstantFacts
<1> QED
  BY <1>1, <1>2 DEF Counted

\* The tokens of a window.
LEMMA WindowTokens ==
  ASSUME NEW w \in Nat
  PROVE  /\ [s \in Stream |-> Token(w, s)] \in Seq(0 .. Tokens - 1)
         /\ Len([s \in Stream |-> Token(w, s)]) = Paths + 1
         /\ \A s \in 1 .. Paths + 1 : [t \in Stream |-> Token(w, t)][s] =
                (RunToken + w * (Paths + 1) + s) % Tokens
<1> USE ConstantFacts
<1>1. \A s \in 1 .. Paths + 1 : Token(w, s) \in 0 .. Tokens - 1
  <2> SUFFICES ASSUME NEW s \in 1 .. Paths + 1 PROVE Token(w, s) \in 0 .. Tokens - 1
    OBVIOUS
  <2>1. w * (Paths + 1) \in Nat
    OBVIOUS
  <2>2. RunToken + w * (Paths + 1) + s \in Nat
    BY <2>1
  <2> HIDE DEF Token
  <2> QED
    BY <2>2 DEF Token
<1> QED
  BY <1>1 DEF Token

LEMMA StepType == TypeOK /\ Counted /\ NoProbeLeftBehind /\ Unfailing => TypeOK'
<1> SUFFICES ASSUME TypeOK, Counted, NoProbeLeftBehind, Unfailing PROVE TypeOK'
  OBVIOUS
<1> USE ConstantFacts
<1>0. /\ probeWindow' \in 0 .. Phases * Windows /\ Phases * Windows \in Nat
      /\ probeWindow \in Nat
  BY StepCounted DEF TypeOK
<1>1. CASE RunPhase
  BY <1>0, <1>1 DEF RunPhase, TypeOK, Counted
<1>2. CASE Submit
  <2>1. tokens' \in Seq(0 .. Tokens - 1)
    BY <1>0, <1>2, WindowTokens, ConcatProperties DEF Submit, TypeOK
  <2>2. tainted' \subseteq 1 .. probeWindow'
    BY <1>0, <1>2 DEF Submit, TypeOK
  <2> QED
    BY <1>0, <1>2, <2>1, <2>2 DEF Submit, TypeOK
<1>3. CASE Fails
  BY <1>0, <1>3, FailsMovesStage DEF TypeOK
<1>4. ASSUME NEW s \in Stream, ProbeEnds(s) PROVE TypeOK'
  <2>1. PICK r \in Outcome :
          /\ result' = [result EXCEPT ![s] = r]
          /\ tainted' = IF r = "ok" THEN tainted ELSE tainted \cup {probeWindow}
    BY <1>4 DEF ProbeEnds
  <2>2. result' \in [Stream -> Outcome \cup {"none", "running"}]
    BY <2>1 DEF TypeOK
  <2>3. stage \in {"collect", "leaving"}
    BY <1>4 DEF ProbeEnds, NoProbeLeftBehind
  <2>4. probeWindow >= 1
    BY <1>0, <2>3, SubmittedWindow
  <2>5. tainted' \subseteq 1 .. probeWindow
    BY <1>0, <2>1, <2>4 DEF TypeOK
  <2> QED
    BY <1>4, <2>2, <2>5 DEF ProbeEnds, TypeOK
<1>5. ASSUME NEW n \in Rows, Stay(n) PROVE TypeOK'
  <2>1. rows' \in Seq(Row)
    BY <1>5, MeasuredRows, ConcatProperties DEF Stay, TypeOK
  <2>2. window' \in 1 .. Windows + 1 /\ stage' \in {"window", "return"}
    <3>1. window \in 1 .. Windows
      BY <1>5 DEF Stay, TypeOK, Counted
    <3>2. window' = window + 1 /\ stage' \in {"window", "return"}
      BY <1>5 DEF Stay, EndWindow
    <3> QED
      BY <3>1, <3>2
  <2>3. result' \in [Stream -> Outcome \cup {"none", "running"}]
    BY <1>5 DEF Stay, Idle
  <2>4. sequence' \in Nat
    BY <1>5 DEF Stay, TypeOK
  <2>5. UNCHANGED <<phase, probeWindow, active, events, kept, bundle, tokens, tainted>>
    BY <1>5 DEF Stay
  <2> QED
    BY <2>1, <2>2, <2>3, <2>4, <2>5 DEF TypeOK
<1>6. ASSUME NEW n \in Rows, NEW p \in Path, Switch(n, p) PROVE TypeOK'
  <2>1. rows' \in Seq(Row)
    BY <1>6, MeasuredRows, ConcatProperties DEF Switch, TypeOK
  <2>2. [from |-> active, to |-> p, effective |-> sequence + n] \in Event
    BY DEF TypeOK, Event
  <2>3. events' \in Seq(Event)
    BY <1>6, <2>2, AppendProperties DEF Switch, TypeOK
  <2>4. window' \in 1 .. Windows + 1 /\ stage' \in {"window", "return"}
    <3>1. window \in 1 .. Windows
      BY <1>6 DEF Switch, TypeOK, Counted
    <3>2. window' = window + 1 /\ stage' \in {"window", "return"}
      BY <1>6 DEF Switch, EndWindow
    <3> QED
      BY <3>1, <3>2
  <2>5. result' \in [Stream -> Outcome \cup {"none", "running"}]
    BY <1>6 DEF Switch, Idle
  <2>6. active' \in Path /\ sequence' \in Nat
    <3>1. active' = p /\ sequence' = sequence + n /\ n \in Nat /\ sequence \in Nat
      BY <1>6 DEF Switch, TypeOK
    <3> QED
      BY <3>1
  <2>7. UNCHANGED <<phase, probeWindow, kept, bundle, tokens, tainted>>
    BY <1>6 DEF Switch
  <2> QED
    BY <2>1, <2>3, <2>4, <2>5, <2>6, <2>7 DEF TypeOK
<1>7. CASE Return
  <2>1. bundle' \in [rows : Seq(Row), events : Seq(Event)]
    BY <1>7, ConcatProperties DEF Return, TypeOK
  <2>2. kept' \in [active : Path, sequence : Nat]
    BY <1>7 DEF Return, TypeOK
  <2>3. phase' \in 1 .. Phases + 1 /\ stage' \in {"phase", "done"}
    <3>1. phase \in 1 .. Phases
      BY <1>7 DEF Return, TypeOK, Counted
    <3>2. phase' = phase + 1 /\ stage' \in {"phase", "done"}
      BY <1>7 DEF Return
    <3> QED
      BY <3>1, <3>2
  <2>4. UNCHANGED <<window, probeWindow, active, sequence, rows, events, result, tokens, tainted>>
    BY <1>7 DEF Return
  <2> QED
    BY <2>1, <2>2, <2>3, <2>4 DEF TypeOK
<1>8. CASE UNCHANGED vars
  BY <1>8 DEF vars, TypeOK
<1> QED
  BY <1>1, <1>2, <1>3, <1>4, <1>5, <1>6, <1>7, <1>8 DEF Unfailing, Next, Fails

LEMMA StepProbes == TypeOK /\ NoProbeLeftBehind /\ Unfailing => NoProbeLeftBehind'
<1> SUFFICES ASSUME TypeOK, NoProbeLeftBehind, Unfailing PROVE NoProbeLeftBehind'
  OBVIOUS
<1> USE DEF NoProbeLeftBehind
<1>1. CASE RunPhase
  BY <1>1 DEF RunPhase, Running
<1>2. CASE Submit
  BY <1>2 DEF Submit
<1>3. CASE Fails
  <2>1. Running' = Running
    BY <1>3, FailsMovesStage DEF Running
  <2> QED
    BY <1>3, <2>1, FailsMovesStage
<1>4. ASSUME NEW s \in Stream, ProbeEnds(s) PROVE NoProbeLeftBehind'
  BY <1>4 DEF ProbeEnds
<1>5. ASSUME NEW n \in Rows, Stay(n) \/ \E p \in Path : Switch(n, p) PROVE NoProbeLeftBehind'
  BY <1>5 DEF Stay, Switch, Running, Idle
<1>6. CASE Return
  BY <1>6 DEF Return, Running
<1>7. CASE UNCHANGED vars
  BY <1>7 DEF vars, Running
<1> QED
  BY <1>1, <1>2, <1>3, <1>4, <1>5, <1>6, <1>7 DEF Unfailing, Next, Fails

LEMMA StepConsecutive == TypeOK /\ Consecutive /\ Unfailing => Consecutive'
<1> SUFFICES ASSUME TypeOK, Consecutive, Unfailing PROVE Consecutive'
  OBVIOUS
<1> USE ConstantFacts
<1>1. CASE Submit
  <2> DEFINE new == [s \in Stream |-> Token(probeWindow, s)]
             k   == probeWindow * (Paths + 1)
  <2>1. k \in Nat /\ probeWindow \in Nat /\ tokens \in Seq(0 .. Tokens - 1) /\ Len(tokens) = k
    <3>1. probeWindow \in Nat /\ tokens \in Seq(0 .. Tokens - 1)
      BY DEF TypeOK
    <3>2. Len(tokens) = k
      BY DEF Consecutive
    <3> QED
      BY <3>1, <3>2
  <2>2. /\ new \in Seq(0 .. Tokens - 1) /\ Len(new) = Paths + 1
        /\ \A s \in 1 .. Paths + 1 : new[s] = (RunToken + k + s) % Tokens
    BY <2>1, WindowTokens
  <2>3. tokens' = tokens \o new /\ probeWindow' = probeWindow + 1
    BY <1>1 DEF Submit
  <2>4. (probeWindow + 1) * (Paths + 1) = k + (Paths + 1)
    BY <2>1
  <2>5. \A i \in 1 .. k : tokens[i] = (RunToken + i) % Tokens
    BY <2>1 DEF Consecutive
  <2> HIDE DEF new, k
  <2>6. /\ Len(tokens \o new) = k + (Paths + 1)
        /\ \A i \in 1 .. k + (Paths + 1) :
              (tokens \o new)[i] = IF i <= k THEN tokens[i] ELSE new[i - k]
    <3>1. \A t, u \in Seq(0 .. Tokens - 1) :
             /\ Len(t \o u) = Len(t) + Len(u)
             /\ \A i \in 1 .. Len(t) + Len(u) :
                   (t \o u)[i] = IF i <= Len(t) THEN t[i] ELSE u[i - Len(t)]
      BY ConcatProperties
    <3>2. /\ Len(tokens \o new) = Len(tokens) + Len(new)
          /\ \A i \in 1 .. Len(tokens) + Len(new) :
                (tokens \o new)[i] = IF i <= Len(tokens) THEN tokens[i] ELSE new[i - Len(tokens)]
      BY <2>1, <2>2, <3>1, Zenon
    <3> QED
      BY <2>1, <2>2, <3>2, Zenon
  <2>7. ASSUME NEW i \in 1 .. k + (Paths + 1)
        PROVE  (tokens \o new)[i] = (RunToken + i) % Tokens
    <3>1. CASE i <= k
      BY <2>1, <2>5, <2>6, <3>1
    <3>2. CASE ~ (i <= k)
      <4>1. i - k \in 1 .. Paths + 1 /\ RunToken + k + (i - k) = RunToken + i
        BY <2>1, <3>2
      <4>2. new[i - k] = (RunToken + k + (i - k)) % Tokens
        BY <2>2, <4>1
      <4> QED
        BY <2>6, <3>2, <4>1, <4>2
    <3> QED
      BY <3>1, <3>2
  <2> QED
    BY <2>3, <2>4, <2>6, <2>7 DEF Consecutive
<1>2. CASE UNCHANGED <<tokens, probeWindow>>
  BY <1>2 DEF Consecutive
<1>3. Submit \/ UNCHANGED <<tokens, probeWindow>>
  BY DEF Unfailing, Next, RunPhase, FutureRaises, PoolLeft, IntegrityFailure, Return, ProbeEnds, Stay,
         Switch, vars
<1> QED
  BY <1>1, <1>2, <1>3

\* Fewer tokens than there are differ.
LEMMA ConsecutiveDistinct == Intact => TokensDistinct
<1> SUFFICES ASSUME Intact, NEW i \in 1 .. Len(tokens), NEW j \in 1 .. Len(tokens),
                    tokens[i] = tokens[j]
             PROVE  i = j
  BY DEF TokensDistinct
<1> USE ConstantFacts
<1>1. /\ probeWindow \in Nat /\ probeWindow <= Phases * Windows
      /\ Len(tokens) = probeWindow * (Paths + 1)
  BY DEF Intact, TypeOK, Consecutive
<1>2. Len(tokens) \in Nat /\ Len(tokens) <= Tokens
  <2>1. Phases * Windows \in Nat
    OBVIOUS
  <2>2. (Phases * Windows - probeWindow) * (Paths + 1) >= 0
    BY <1>1, <2>1
  <2>3. (Phases * Windows - probeWindow) * (Paths + 1)
           = Phases * Windows * (Paths + 1) - probeWindow * (Paths + 1)
    BY <1>1, <2>1
  <2> QED
    BY <1>1, <2>1, <2>2, <2>3, ExecutorAssumption
<1>3. (RunToken + i) % Tokens = (RunToken + j) % Tokens
  BY DEF Intact, Consecutive
<1>4. /\ RunToken + i \in Nat /\ RunToken + j \in Nat
      /\ RunToken + i - (RunToken + j) < Tokens /\ RunToken + j - (RunToken + i) < Tokens
  BY <1>2
<1>5. RunToken + i = RunToken + j
  <2> DEFINE a == RunToken + i
             b == RunToken + j
  <2>0. a \in Nat /\ b \in Nat /\ a - b < Tokens /\ b - a < Tokens /\ a % Tokens = b % Tokens
    BY <1>3, <1>4
  <2> HIDE DEF a, b
  <2>1. ASSUME a <= b PROVE a = b
    BY <2>0, <2>1, RemainderDistinct
  <2>2. ASSUME b <= a PROVE b = a
    BY <2>0, <2>2, RemainderDistinct
  <2>3. a = b
    BY <2>0, <2>1, <2>2
  <2> QED
    BY <2>3 DEF a, b
<1> QED
  BY <1>2, <1>5

-----------------------------------------------------------------------------
(***************************************************************************)
(* The rows and events of the run.                                         *)
(***************************************************************************)
\* The rows after a window: those there were, and those of the window.
LEMMA RowsAfterWindow ==
  ASSUME TypeOK, NEW n \in Rows, Stay(n) \/ \E p \in Path : Switch(n, p)
  PROVE  /\ Len(AllRows) \in Nat /\ Len(AllRows') = Len(AllRows) + n
         /\ \A i \in 1 .. Len(AllRows) : AllRows'[i] = AllRows[i]
         /\ \A i \in Len(AllRows) + 1 .. Len(AllRows) + n :
               /\ AllRows'[i].sequence = sequence + (i - Len(AllRows)) - 1
               /\ AllRows'[i].path = active
               /\ AllRows'[i].window = probeWindow
<1> DEFINE R == AllRows
           M == Measured(n)
<1>1. /\ M \in Seq(Row) /\ Len(M) = n
      /\ \A i \in 1 .. n : /\ M[i].sequence = sequence + i - 1
                           /\ M[i].path = active /\ M[i].window = probeWindow
  BY MeasuredRows, ConstantFacts
<1>2. R \in Seq(Row) /\ Len(R) \in Nat /\ n \in Nat
  <2>1. R \in Seq(Row)
    BY AllTyped
  <2> QED
    BY <2>1, LenProperties, ConstantFacts
<1>3. AllRows' = R \o M
  BY WindowAddsRows
<1> HIDE DEF R, M
<1>4. /\ Len(R \o M) = Len(R) + n
      /\ \A i \in 1 .. Len(R) + n : (R \o M)[i] = IF i <= Len(R) THEN R[i] ELSE M[i - Len(R)]
  <2>1. /\ Len(R \o M) = Len(R) + Len(M)
        /\ \A i \in 1 .. Len(R) + Len(M) : (R \o M)[i] = IF i <= Len(R) THEN R[i] ELSE M[i - Len(R)]
    BY <1>1, <1>2, ConcatProperties
  <2> QED
    BY <1>1, <2>1, Zenon
<1>5. \A i \in 1 .. Len(R) : (R \o M)[i] = R[i]
  BY <1>2, <1>4
<1>6. ASSUME NEW i \in Len(R) + 1 .. Len(R) + n
      PROVE  /\ (R \o M)[i].sequence = sequence + (i - Len(R)) - 1
             /\ (R \o M)[i].path = active /\ (R \o M)[i].window = probeWindow
  <2>1. (R \o M)[i] = M[i - Len(R)] /\ i - Len(R) \in 1 .. n
    BY <1>2, <1>4
  <2> QED
    BY <1>1, <2>1, Zenon
<1>7. /\ Len(R) \in Nat /\ Len(R \o M) = Len(R) + n
      /\ \A i \in 1 .. Len(R) : (R \o M)[i] = R[i]
      /\ \A i \in Len(R) + 1 .. Len(R) + n :
            /\ (R \o M)[i].sequence = sequence + (i - Len(R)) - 1
            /\ (R \o M)[i].path = active /\ (R \o M)[i].window = probeWindow
  BY <1>2, <1>4, <1>5, <1>6, Zenon
<1> QED
  BY <1>3, <1>7, Zenon DEF R

\* Every other step leaves the rows, or keeps all variables.
LEMMA RowsOtherwise ==
  ASSUME TypeOK, Unfailing
  PROVE  \/ \E n \in Rows : Stay(n) \/ \E p \in Path : Switch(n, p)
         \/ /\ AllRows' = AllRows /\ AllEvents' = AllEvents
            /\ Total' = Total /\ Current' = Current
<1>1. CASE RunPhase \/ Submit \/ Fails \/ Return \/ \E s \in Stream : ProbeEnds(s)
  BY <1>1, OthersAddNothing
<1>2. CASE UNCHANGED vars
  BY <1>2 DEF vars, AllRows, AllEvents, Total, Current, InPhase
<1> QED
  BY <1>1, <1>2 DEF Unfailing, Next, Fails

LEMMA StepNumbered == TypeOK /\ Numbered /\ Unfailing => Numbered'
<1> SUFFICES ASSUME TypeOK, Numbered, Unfailing PROVE Numbered'
  OBVIOUS
<1>1. ASSUME NEW n \in Rows, Stay(n) \/ \E p \in Path : Switch(n, p) PROVE Numbered'
  <2> DEFINE k == Len(AllRows)
  <2>1. n \in Nat /\ k \in Nat /\ Total = sequence /\ Total' = Total + n
    BY <1>1, ConstantFacts, RowsAfterWindow, WindowAddsRows
  <2>2. /\ Len(AllRows') = k + n
        /\ \A i \in 1 .. k : AllRows'[i] = AllRows[i]
        /\ \A i \in k + 1 .. k + n : AllRows'[i].sequence = sequence + (i - k) - 1
    BY <1>1, RowsAfterWindow
  <2>3. k = Total /\ \A i \in 1 .. k : AllRows[i].sequence = i - 1
    BY DEF Numbered
  <2> HIDE DEF k
  <2>4. ASSUME NEW i \in 1 .. k + n PROVE AllRows'[i].sequence = i - 1
    <3>1. CASE i <= k
      BY <2>1, <2>2, <2>3, <3>1
    <3>2. CASE i > k
      BY <2>1, <2>2, <2>3, <3>2
    <3> QED
      BY <2>1, <3>1, <3>2
  <2> QED
    BY <2>1, <2>2, <2>3, <2>4 DEF Numbered
<1>2. CASE AllRows' = AllRows /\ Total' = Total
  BY <1>2 DEF Numbered
<1> QED
  BY <1>1, <1>2, RowsOtherwise

LEMMA StepUntainted ==
  TypeOK /\ Counted /\ NoProbeLeftBehind /\ Untainted /\ Unfailing => Untainted'
<1> SUFFICES ASSUME TypeOK, Counted, NoProbeLeftBehind, Untainted, Unfailing
             PROVE  Untainted'
  OBVIOUS
<1>0. /\ probeWindow \in Nat /\ tainted \subseteq 1 .. probeWindow
      /\ AllRows \in Seq(Row) /\ Len(AllRows) \in Nat
      /\ \A i \in 1 .. Len(AllRows) : AllRows[i].window \in Nat
  <2>1. AllRows \in Seq(Row) /\ Len(AllRows) \in Nat
    BY AllTyped, LenProperties
  <2>2. \A i \in 1 .. Len(AllRows) : AllRows[i] \in Row
    BY <2>1, ElementOfSeq
  <2>3. \A i \in 1 .. Len(AllRows) : AllRows[i].window \in Nat
    BY <2>2 DEF Row
  <2>4. probeWindow \in Nat /\ tainted \subseteq 1 .. probeWindow
    BY DEF TypeOK
  <2> QED
    BY <2>1, <2>3, <2>4, Zenon
<1>1. CASE RunPhase \/ Return
  <2>1. AllRows' = AllRows
    BY <1>1, OthersAddNothing
  <2>2. UNCHANGED <<tainted, probeWindow>> /\ stage' \notin {"collect", "leaving"}
    BY <1>1 DEF RunPhase, Return
  <2> QED
    BY <2>1, <2>2 DEF Untainted
<1>2. CASE Submit
  <2>1. AllRows' = AllRows /\ tainted' = tainted /\ probeWindow' = probeWindow + 1
    BY <1>2, OthersAddNothing DEF Submit
  <2>2. probeWindow' \notin tainted'
    BY <1>0, <2>1
  <2>3. \A i \in 1 .. Len(AllRows') :
           /\ AllRows'[i].window \notin tainted' /\ AllRows'[i].window <= probeWindow'
           /\ AllRows'[i].window < probeWindow'
    BY <1>0, <2>1 DEF Untainted
  <2> QED
    BY <2>2, <2>3 DEF Untainted
<1>3. CASE Fails
  <2>1. AllRows' = AllRows
    BY <1>3, OthersAddNothing
  <2> QED
    BY <1>3, <2>1, FailsMovesStage DEF Untainted
<1>4. ASSUME NEW s \in Stream, ProbeEnds(s) PROVE Untainted'
  <2>1. AllRows' = AllRows
    BY <1>4, OthersAddNothing
  <2>2. PICK r \in Outcome :
          /\ result' = [result EXCEPT ![s] = r]
          /\ tainted' = IF r = "ok" THEN tainted ELSE tainted \cup {probeWindow}
    BY <1>4 DEF ProbeEnds
  <2>3. /\ stage \in {"collect", "leaving"} /\ UNCHANGED <<stage, probeWindow>>
        /\ result[s] = "running"
    BY <1>4 DEF ProbeEnds, NoProbeLeftBehind, Running
  <2>4. \A i \in 1 .. Len(AllRows) :
           AllRows[i].window \notin tainted' /\ AllRows[i].window < probeWindow
    BY <1>0, <2>2, <2>3 DEF Untainted
  <2>5. ASSUME stage = "collect", probeWindow \in tainted'
        PROVE  \E t \in Stream : result'[t] \in {"bad", "raised"}
    <3>1. CASE r = "ok"
      <4>1. PICK t \in Stream : result[t] \in {"bad", "raised"}
        BY <2>2, <2>5, <3>1 DEF Untainted
      <4>2. t # s
        BY <2>3, <4>1
      <4> QED
        BY <2>2, <4>1, <4>2 DEF TypeOK
    <3>2. CASE r # "ok"
      BY <2>2, <3>2 DEF TypeOK, Outcome
    <3> QED
      BY <3>1, <3>2
  <2>6. \A i \in 1 .. Len(AllRows') :
           /\ AllRows'[i].window \notin tainted' /\ AllRows'[i].window <= probeWindow'
           /\ AllRows'[i].window < probeWindow'
    BY <1>0, <2>1, <2>3, <2>4
  <2> QED
    BY <2>3, <2>5, <2>6 DEF Untainted
<1>5. ASSUME NEW n \in Rows, Stay(n) \/ \E p \in Path : Switch(n, p) PROVE Untainted'
  <2> DEFINE k == Len(AllRows)
  <2>1. /\ bundle' = bundle /\ probeWindow' = probeWindow /\ tainted' = tainted
        /\ stage = "collect" /\ stage' \in {"window", "return"} /\ n \in Nat
    BY <1>5, WindowAddsRows, ConstantFacts
  <2>2. probeWindow \notin tainted
    <3>1. \A s \in Stream : result[s] = "ok"
      BY <1>5 DEF Stay, Switch, Clean
    <3> QED
      BY <2>1, <3>1 DEF Untainted
  <2>3. /\ Len(AllRows') = k + n /\ k \in Nat
        /\ \A i \in 1 .. k : AllRows'[i] = AllRows[i]
        /\ \A i \in k + 1 .. k + n : AllRows'[i].window = probeWindow
    BY <1>5, RowsAfterWindow
  <2>4. \A i \in 1 .. k : AllRows[i].window \notin tainted /\ AllRows[i].window <= probeWindow
    BY DEF Untainted
  <2> HIDE DEF k
  <2>5. ASSUME NEW i \in 1 .. k + n
        PROVE  AllRows'[i].window \notin tainted /\ AllRows'[i].window <= probeWindow
    <3>1. CASE i <= k
      BY <2>3, <2>4, <3>1
    <3>2. CASE i > k
      <4>1. i \in k + 1 .. k + n
        BY <2>1, <2>3, <3>2
      <4>2. AllRows'[i].window = probeWindow
        BY <2>3, <4>1, Zenon
      <4> QED
        BY <1>0, <2>2, <4>2
    <3> QED
      BY <2>3, <3>1, <3>2
  <2> QED
    BY <2>1, <2>3, <2>5 DEF Untainted
<1>6. CASE UNCHANGED vars
  <2>1. AllRows' = AllRows
    BY <1>6 DEF vars, AllRows, InPhase
  <2> QED
    BY <1>6, <2>1 DEF vars, Untainted
<1> QED
  BY <1>1, <1>2, <1>3, <1>4, <1>5, <1>6 DEF Unfailing, Next, Fails

\* A switch that takes effect after the rows changes nothing for them.
LEMMA LaterSwitch ==
  ASSUME NEW E \in Seq(Event), NEW e \in Event, NEW n \in Nat, NEW p,
         n < e.effective, PathAfter(E, n, p)
  PROVE  PathAfter(Append(E, e), n, p)
<1>1. /\ Len(E) \in Nat /\ Len(Append(E, e)) = Len(E) + 1
      /\ \A i \in 1 .. Len(E) : Append(E, e)[i] = E[i]
      /\ Append(E, e)[Len(E) + 1] = e
  BY AppendProperties, LenProperties
<1>2. ~ (e.effective <= n)
  BY DEF Event
<1>3. Effect(Append(E, e), n) = Effect(E, n)
  <2>1. \A i \in Effect(Append(E, e), n) : i \in Effect(E, n)
    BY <1>1, <1>2 DEF Effect
  <2>2. \A i \in Effect(E, n) : i \in Effect(Append(E, e), n)
    BY <1>1 DEF Effect
  <2> QED
    BY <2>1, <2>2
<1>4. \A i \in Effect(E, n) : Append(E, e)[i].to = E[i].to
  BY <1>1 DEF Effect
<1> QED
  BY <1>3, <1>4, Zenon DEF PathAfter

LEMMA EventsTyped ==
  ASSUME TypeOK
  PROVE  \A i \in 1 .. Len(AllEvents) : AllEvents[i].effective \in Nat
<1>1. AllEvents \in Seq(Event)
  BY AllTyped
<1>2. \A i \in 1 .. Len(AllEvents) : AllEvents[i] \in Event
  BY <1>1, ElementOfSeq
<1> QED
  BY <1>2 DEF Event

\* A packet after all switches goes the way of the last one.
LEMMA AfterAllSwitches ==
  ASSUME TypeOK, Followed, NEW n \in Nat, Total <= n
  PROVE  PathAfter(AllEvents, n, Current)
<1>1. AllEvents \in Seq(Event) /\ Len(AllEvents) \in Nat /\ Total \in Nat
  BY AllTyped, LenProperties
<1>2. \A i \in 1 .. Len(AllEvents) : AllEvents[i].effective \in Nat
  BY EventsTyped
<1>3. Effect(AllEvents, n) = 1 .. Len(AllEvents)
  BY <1>1, <1>2 DEF Followed, Effect
<1>4. CASE Len(AllEvents) = 0
  BY <1>3, <1>4 DEF Followed, PathAfter
<1>5. CASE Len(AllEvents) # 0
  <2>1. Len(AllEvents) \in Effect(AllEvents, n)
    BY <1>1, <1>3, <1>5
  <2>2. \A j \in Effect(AllEvents, n) : j <= Len(AllEvents)
    BY <1>1, <1>3
  <2> QED
    BY <1>5, <2>1, <2>2 DEF Followed, PathAfter
<1> QED
  BY <1>4, <1>5

LEMMA StepFollowed ==
  TypeOK /\ Numbered /\ Followed /\ Unfailing => Followed'
<1> SUFFICES ASSUME TypeOK, Numbered, Followed, Unfailing PROVE Followed'
  OBVIOUS
<1>0. /\ AllEvents \in Seq(Event) /\ Len(AllEvents) \in Nat /\ Total \in Nat
      /\ \A i \in 1 .. Len(AllEvents) : AllEvents[i].effective \in Nat
  BY AllTyped, EventsTyped, LenProperties
<1>1. ASSUME NEW n \in Rows, Stay(n) \/ \E p \in Path : Switch(n, p) PROVE Followed'
  <2>1. /\ n \in Nat /\ n >= 1 /\ bundle' = bundle
        /\ Total = sequence /\ Total' = Total + n /\ Current = active
    BY <1>1, ConstantFacts, WindowAddsRows
  <2> DEFINE k == Len(AllRows)
  <2>2. /\ Len(AllRows') = k + n /\ k \in Nat
        /\ \A i \in 1 .. k : AllRows'[i] = AllRows[i]
        /\ \A i \in k + 1 .. k + n : AllRows'[i].path = active
    BY <1>1, RowsAfterWindow
  <2>3. k = Total /\ Len(AllRows') = Total'
        /\ \A i \in 1 .. k + n : AllRows'[i].sequence = i - 1
    <3>1. Numbered'
      BY StepNumbered
    <3> QED
      BY <2>2, <3>1 DEF Numbered
  <2>4. \A i \in 1 .. k : PathAfter(AllEvents, AllRows[i].sequence, AllRows[i].path)
    BY DEF Followed, Matches
  <2> HIDE DEF k
  <2>5. ASSUME NEW i \in 1 .. k + n
        PROVE  PathAfter(AllEvents, AllRows'[i].sequence, AllRows'[i].path)
    <3>1. CASE i <= k
      <4>1. i \in 1 .. k
        BY <2>2, <3>1
      <4> QED
        BY <2>2, <2>4, <4>1, Zenon
    <3>2. CASE i > k
      <4>1. i \in k + 1 .. k + n /\ i - 1 \in Nat /\ Total <= i - 1
        BY <2>1, <2>2, <2>3, <3>2
      <4>2. AllRows'[i].path = Current /\ AllRows'[i].sequence = i - 1
        BY <2>1, <2>2, <2>3, <4>1, Zenon
      <4>3. PathAfter(AllEvents, i - 1, Current)
        BY <4>1, AfterAllSwitches
      <4> QED
        BY <4>2, <4>3, Zenon
    <3> QED
      BY <2>2, <3>1, <3>2
  <2>6. CASE Stay(n)
    <3>1. AllEvents' = AllEvents /\ Current' = Current
      BY <2>6, StayAddsNoEvent
    <3>2. Matches(AllRows', AllEvents)
      BY <2>2, <2>5, Zenon DEF Matches
    <3>3. \A i \in 1 .. Len(AllEvents) : AllEvents[i].effective <= Total'
      BY <1>0, <2>1 DEF Followed
    <3>4. Matches(AllRows, AllEvents)' /\ Matches(bundle.rows, bundle.events)'
      BY <2>1, <3>1, <3>2, Zenon DEF Followed, Matches
    <3> QED
      BY <3>1, <3>3, <3>4 DEF Followed
  <2>7. ASSUME NEW p \in Path, Switch(n, p) PROVE Followed'
    <3> DEFINE e == [from |-> active, to |-> p, effective |-> sequence + n]
    <3>1. AllEvents' = Append(AllEvents, e) /\ Current' = p
      BY <2>7, SwitchAddsEvent
    <3>2. e \in Event /\ e.effective = Total' /\ e.to = p
      BY <2>1 DEF TypeOK, Event
    <3> HIDE DEF e
    <3>3. /\ Len(AllEvents') = Len(AllEvents) + 1
          /\ \A i \in 1 .. Len(AllEvents) : AllEvents'[i] = AllEvents[i]
          /\ AllEvents'[Len(AllEvents) + 1] = e
      BY <1>0, <3>1, <3>2, AppendProperties
    <3>4. ASSUME NEW i \in 1 .. Len(AllEvents')
          PROVE  AllEvents'[i].effective <= Total'
      <4>1. CASE i <= Len(AllEvents)
        <5>1. i \in 1 .. Len(AllEvents) /\ AllEvents'[i] = AllEvents[i]
          BY <1>0, <3>3, <4>1
        <5>2. AllEvents[i].effective <= Total /\ AllEvents[i].effective \in Nat
          BY <1>0, <5>1 DEF Followed
        <5> QED
          BY <1>0, <2>1, <5>1, <5>2
      <4>2. CASE i = Len(AllEvents) + 1
        BY <1>0, <2>1, <3>2, <3>3, <4>2
      <4> QED
        BY <1>0, <3>3, <4>1, <4>2
    <3>5. ASSUME NEW i \in 1 .. k + n
          PROVE  PathAfter(AllEvents', AllRows'[i].sequence, AllRows'[i].path)
      <4>1. i - 1 \in Nat /\ i - 1 < e.effective /\ AllRows'[i].sequence = i - 1
        BY <2>1, <2>2, <2>3, <3>2
      <4>2. PathAfter(AllEvents, i - 1, AllRows'[i].path)
        BY <2>5, <4>1, Zenon
      <4>3. PathAfter(Append(AllEvents, e), i - 1, AllRows'[i].path)
        BY <1>0, <3>2, <4>1, <4>2, LaterSwitch
      <4> QED
        BY <3>1, <4>1, <4>3, Zenon
    <3>6. Matches(AllRows, AllEvents)'
      BY <2>2, <3>5, Zenon DEF Matches
    <3>7. Matches(bundle.rows, bundle.events)'
      BY <2>1, Zenon DEF Followed, Matches
    <3>8. Len(AllEvents') # 0 /\ Current' = AllEvents'[Len(AllEvents')].to
      BY <1>0, <3>1, <3>2, <3>3
    <3> QED
      BY <3>4, <3>6, <3>7, <3>8 DEF Followed
  <2> QED
    BY <1>1, <2>6, <2>7
<1>2. ASSUME UNCHANGED <<AllRows, AllEvents, Total, Current>> PROVE Followed'
  <2>1. bundle' = bundle \/ (bundle'.rows = AllRows /\ bundle'.events = AllEvents)
    <3>1. CASE Return
      BY <3>1 DEF Return, AllRows, AllEvents, InPhase
    <3>2. CASE Fails
      BY <3>2, FailsMovesStage
    <3>3. CASE ~ Return /\ ~ Fails
      BY <3>3 DEF Unfailing, Next, Fails, RunPhase, Submit, ProbeEnds, Stay, Switch, vars
    <3> QED
      BY <3>1, <3>2, <3>3
  <2>2. Matches(bundle.rows, bundle.events)'
    BY <2>1, Zenon DEF Followed, Matches
  <2>3. Matches(AllRows, AllEvents)'
    BY <1>2, Zenon DEF Followed, Matches
  <2> QED
    BY <1>2, <2>2, <2>3 DEF Followed
<1> QED
  BY <1>1, <1>2, RowsOtherwise

\* Only Return adds to the bundle, and then the phase is over.
LEMMA StepGrown ==
  TypeOK /\ Numbered /\ Grown /\ Unfailing => Grown'
<1> SUFFICES ASSUME TypeOK, Numbered, Grown, Unfailing PROVE Grown'
  OBVIOUS
<1>0. /\ sequence \in Nat /\ kept.sequence \in Nat /\ events \in Seq(Event)
      /\ Len(events) \in Nat
  BY LenProperties DEF TypeOK
<1>1. CASE RunPhase
  BY <1>0, <1>1 DEF RunPhase, Grown, InPhase, Total
<1>2. CASE Submit
  BY <1>2 DEF Submit, Grown, InPhase, Total
<1>3. CASE Fails
  BY <1>3, FailsMovesStage DEF Grown, InPhase, Total
<1>4. ASSUME NEW s \in Stream, ProbeEnds(s) PROVE Grown'
  BY <1>4 DEF ProbeEnds, Grown, InPhase, Total
<1>5. ASSUME NEW n \in Rows, Stay(n) PROVE Grown'
  BY <1>0, <1>5, ConstantFacts DEF Stay, EndWindow, Grown, InPhase, Total
<1>6. ASSUME NEW n \in Rows, NEW p \in Path, Switch(n, p) PROVE Grown'
  <2> DEFINE e == [from |-> active, to |-> p, effective |-> sequence + n]
  <2>1. /\ stage = "collect" /\ stage' \in {"window", "return"} /\ UNCHANGED <<kept, bundle>>
        /\ events' = Append(events, e) /\ sequence' = sequence + n
    BY <1>6 DEF Switch, EndWindow
  <2>2. kept.sequence <= sequence /\ \A i \in 1 .. Len(events) : events[i].effective > kept.sequence
    BY <2>1 DEF Grown, InPhase, Total
  <2>3. n \in Nat /\ n >= 1 /\ e \in Event /\ e.effective = sequence + n
    BY <1>0, ConstantFacts DEF TypeOK, Event
  <2> HIDE DEF e
  <2>4. /\ Len(events') = Len(events) + 1 /\ events'[Len(events) + 1] = e
        /\ \A i \in 1 .. Len(events) : events'[i] = events[i]
    BY <1>0, <2>1, <2>3, AppendProperties
  <2>5. ASSUME NEW i \in 1 .. Len(events') PROVE events'[i].effective > kept.sequence
    <3>1. CASE i = Len(events) + 1
      BY <1>0, <2>2, <2>3, <2>4, <3>1
    <3>2. CASE i # Len(events) + 1
      BY <1>0, <2>2, <2>4, <3>2
    <3> QED
      BY <3>1, <3>2
  <2> QED
    BY <1>0, <2>1, <2>2, <2>3, <2>5 DEF Grown, InPhase, Total
<1>7. CASE Return
  <2>1. /\ stage = "return" /\ stage' \in {"phase", "done"} /\ kept'.sequence = sequence
        /\ bundle'.rows = bundle.rows \o rows
    BY <1>7 DEF Return
  <2>2. Len(bundle.rows \o rows) = sequence
    BY <2>1 DEF Numbered, AllRows, InPhase, Total
  <2> QED
    BY <1>0, <2>1, <2>2 DEF Grown, InPhase, Total
<1>8. CASE UNCHANGED vars
  BY <1>8 DEF vars, Grown, InPhase, Total
<1> QED
  BY <1>1, <1>2, <1>3, <1>4, <1>5, <1>6, <1>7, <1>8 DEF Unfailing, Next, Fails

-----------------------------------------------------------------------------
(***************************************************************************)
(* A write that raises.                                                    *)
(***************************************************************************)
\* a with the first k elements of b behind it.
Behind(a, b, k) == a \o SubSeq(b, 1, k)

LEMMA PrefixBehind ==
  ASSUME NEW S, NEW a \in Seq(S), NEW b \in Seq(S), NEW n \in 0 .. Len(b)
  PROVE  /\ Behind(a, b, n) \in Seq(S) /\ Len(Behind(a, b, n)) = Len(a) + n
         /\ Len(a) \in Nat /\ Len(b) \in Nat
         /\ \A i \in 1 .. Len(Behind(a, b, n)) :
               Behind(a, b, n)[i] = IF i <= Len(a) THEN a[i] ELSE b[i - Len(a)]
         /\ Len(Behind(a, b, n)) <= Len(a \o b)
         /\ \A i \in 1 .. Len(Behind(a, b, n)) : Behind(a, b, n)[i] = (a \o b)[i]
<1> DEFINE c == Behind(a, b, n)
           d == SubSeq(b, 1, n)
<1>1. Len(b) \in Nat /\ Len(a) \in Nat /\ n \in Nat /\ n <= Len(b)
  BY LenProperties
<1>2. d \in Seq(S) /\ Len(d) = n /\ \A i \in 1 .. n : d[i] = b[i]
  BY <1>1, SubSeqProperties
<1>0. c = a \o d
  BY DEF Behind
<1> HIDE DEF c, d
<1>3. /\ c \in Seq(S) /\ Len(c) = Len(a) + n
      /\ \A i \in 1 .. Len(a) + n : c[i] = IF i <= Len(a) THEN a[i] ELSE d[i - Len(a)]
  <2>1. /\ a \o d \in Seq(S) /\ Len(a \o d) = Len(a) + Len(d)
        /\ \A i \in 1 .. Len(a) + Len(d) : (a \o d)[i] = IF i <= Len(a) THEN a[i] ELSE d[i - Len(a)]
    BY <1>2, ConcatProperties
  <2> QED
    BY <1>0, <1>2, <2>1, Zenon
<1>4. /\ Len(a \o b) = Len(a) + Len(b)
      /\ \A i \in 1 .. Len(a) + Len(b) : (a \o b)[i] = IF i <= Len(a) THEN a[i] ELSE b[i - Len(a)]
  BY ConcatProperties
<1>5. ASSUME NEW i \in 1 .. Len(c)
      PROVE  /\ c[i] = IF i <= Len(a) THEN a[i] ELSE b[i - Len(a)]
             /\ c[i] = (a \o b)[i]
  <2>1. i \in 1 .. Len(a) + n /\ i \in 1 .. Len(a) + Len(b) /\ (i <= Len(a) \/ i - Len(a) \in 1 .. n)
    BY <1>1, <1>3
  <2>2. c[i] = IF i <= Len(a) THEN a[i] ELSE b[i - Len(a)]
    BY <1>2, <1>3, <2>1
  <2>3. (a \o b)[i] = IF i <= Len(a) THEN a[i] ELSE b[i - Len(a)]
    BY <1>4, <2>1
  <2> QED
    BY <2>2, <2>3
<1>6. Len(c) <= Len(a \o b)
  BY <1>1, <1>3, <1>4
<1> QED
  BY <1>1, <1>3, <1>5, <1>6 DEF c

\* What a write that raises has written.
LEMMA WrittenSoFar ==
  ASSUME TypeOK, WriteFails
  PROVE  \E n \in 0 .. Len(rows), m \in 0 .. Len(events) :
            bundle' = [rows |-> bundle.rows \o SubSeq(rows, 1, n),
                       events |-> bundle.events \o SubSeq(events, 1, m)]
<1>1. /\ rows \in Seq(Row) /\ events \in Seq(Event) /\ bundle.events \in Seq(Event)
      /\ Len(rows) \in Nat /\ Len(events) \in Nat
      /\ bundle = [rows |-> bundle.rows, events |-> bundle.events]
  BY LenProperties DEF TypeOK
<1>2. CASE \E n \in 0 .. Len(rows) : bundle' = [bundle EXCEPT !.rows = @ \o SubSeq(rows, 1, n)]
  <2>1. PICK n \in 0 .. Len(rows) : bundle' = [bundle EXCEPT !.rows = @ \o SubSeq(rows, 1, n)]
    BY <1>2
  <2>2. bundle' = [rows |-> bundle.rows \o SubSeq(rows, 1, n), events |-> bundle.events]
    BY <1>1, <2>1
  <2>3. SubSeq(events, 1, 0) = << >>
    BY <1>1
  <2>4. bundle.events \o SubSeq(events, 1, 0) = bundle.events
    BY <1>1, <2>3, ConcatEmptySeq
  <2>5. 0 \in 0 .. Len(events)
    BY <1>1
  <2> QED
    BY <2>2, <2>4, <2>5
<1>3. CASE \E n \in 0 .. Len(events) :
             bundle' = [rows |-> bundle.rows \o rows,
                        events |-> bundle.events \o SubSeq(events, 1, n)]
  <2>1. SubSeq(rows, 1, Len(rows)) = rows
    BY <1>1
  <2>2. Len(rows) \in 0 .. Len(rows)
    BY <1>1
  <2> QED
    BY <1>3, <2>1, <2>2
<1> QED
  BY <1>2, <1>3 DEF WriteFails

\* Whatever of a phase was written before a write raised, the bundle tells no
\* lie about the phases before it.
LEMMA WriteFailsTorn == Intact /\ WriteFails => Torn'
<1> SUFFICES ASSUME Intact, WriteFails PROVE Torn'
  OBVIOUS
<1>1. PICK n \in 0 .. Len(rows), m \in 0 .. Len(events) :
        bundle' = [rows |-> bundle.rows \o SubSeq(rows, 1, n),
                   events |-> bundle.events \o SubSeq(events, 1, m)]
  BY WrittenSoFar DEF Intact
<1> DEFINE R == bundle.rows
           E == bundle.events
           K == R \o SubSeq(rows, 1, n)
           F == E \o SubSeq(events, 1, m)
<1>2. R \in Seq(Row) /\ E \in Seq(Event) /\ rows \in Seq(Row) /\ events \in Seq(Event)
  BY DEF Intact, TypeOK
<1>3. /\ bundle'.rows = K /\ bundle'.events = F
      /\ stage = "return" /\ stage' = "torn"
      /\ UNCHANGED <<phase, window, probeWindow, active, sequence, rows, events, kept,
                     result, tokens, tainted>>
  BY <1>1 DEF WriteFails
<1>0. /\ K = Behind(R, rows, n) /\ F = Behind(E, events, m)
      /\ R = bundle.rows /\ E = bundle.events
  BY DEF Behind
<1>7. bundle' = [rows |-> K, events |-> F]
  BY <1>1
<1>4. AllRows = R \o rows /\ InPhase
  BY <1>3 DEF AllRows, InPhase
<1> HIDE DEF R, E, K, F
<1>17. /\ K \in Seq(Row) /\ Len(R) \in Nat /\ Len(rows) \in Nat /\ Len(K) = Len(R) + n
       /\ \A i \in 1 .. Len(K) : K[i] = IF i <= Len(R) THEN R[i] ELSE rows[i - Len(R)]
       /\ Len(K) <= Len(R \o rows)
       /\ \A i \in 1 .. Len(K) : K[i] = (R \o rows)[i]
  <2>1. R \in Seq(Row) /\ rows \in Seq(Row) /\ K = Behind(R, rows, n) /\ n \in 0 .. Len(rows)
    BY <1>0, <1>2
  <2> QED
    BY <2>1, PrefixBehind
<1>6. /\ F \in Seq(Event) /\ Len(E) \in Nat /\ Len(events) \in Nat /\ Len(F) = Len(E) + m
      /\ \A i \in 1 .. Len(F) : F[i] = IF i <= Len(E) THEN E[i] ELSE events[i - Len(E)]
      /\ Len(F) <= Len(E \o events)
      /\ \A i \in 1 .. Len(F) : F[i] = (E \o events)[i]
  <2>1. E \in Seq(Event) /\ events \in Seq(Event) /\ F = Behind(E, events, m) /\ m \in 0 .. Len(events)
    BY <1>0, <1>2
  <2> QED
    BY <2>1, PrefixBehind
<1>5. /\ K \in Seq(Row) /\ Len(R) \in Nat /\ Len(K) = Len(R) + n /\ Len(K) <= Len(AllRows)
  BY <1>4, <1>17
<1>10. \A i \in 1 .. Len(K) : i \in 1 .. Len(AllRows) /\ K[i] = AllRows[i]
  <2>2. Len(AllRows) \in Nat
    <3>1. AllRows \in Seq(Row)
      BY AllTyped DEF Intact
    <3> QED
      BY <3>1, LenProperties
  <2>3. Len(K) \in Nat
    BY <1>5, LenProperties
  <2> QED
    BY <1>4, <1>17, <2>2, <2>3
<1>16. \A i \in 1 .. Len(K) : i <= Len(R) => K[i] = R[i]
  BY <1>17
<1>8. Len(events) \in Nat /\ m <= Len(events) /\ n \in Nat /\ m \in Nat
  BY <1>2, LenProperties
<1>9. TypeOK'
  <2>1. bundle' \in [rows : Seq(Row), events : Seq(Event)]
    BY <1>5, <1>6, <1>7
  <2> QED
    BY <1>3, <2>1 DEF Intact, TypeOK
<1>11. SequencesContiguous' /\ NoTaintedRow'
  BY <1>3, <1>10 DEF Intact, Numbered, Untainted, SequencesContiguous, NoTaintedRow
<1>12. ASSUME NEW r \in 1 .. Len(K), K[r].sequence < kept.sequence
       PROVE  PathAfter(F, K[r].sequence, K[r].path)
  <2>1. K[r].sequence = r - 1 /\ r \in Nat
    BY <1>5, <1>8, <1>10 DEF Intact, Numbered
  <2>2. Len(R) = kept.sequence /\ \A i \in 1 .. Len(events) : events[i].effective > kept.sequence
    BY <1>0, <1>4 DEF Intact, Grown
  <2>3. r \in 1 .. Len(R) /\ K[r] = R[r]
    <3>1. r <= Len(R) /\ r \in 1 .. Len(R)
      BY <1>5, <1>8, <1>12, <2>1, <2>2
    <3> QED
      BY <1>16, <3>1
  <2>4. PathAfter(E, K[r].sequence, K[r].path)
    BY <1>0, <2>3 DEF Intact, Followed, Matches
  <2>5. \A i \in Len(E) + 1 .. Len(F) : ~ (F[i].effective <= K[r].sequence)
    <3> SUFFICES ASSUME NEW i \in Len(E) + 1 .. Len(F)
                 PROVE  ~ (F[i].effective <= K[r].sequence)
      OBVIOUS
    <3>1. i - Len(E) \in 1 .. Len(events) /\ F[i] = events[i - Len(E)]
      BY <1>6, <1>8
    <3>2. F[i].effective \in Nat
      <4>1. F[i] \in Event
        BY <1>2, <3>1, ElementOfSeq
      <4> QED
        BY <4>1 DEF Event
    <3>3. F[i].effective > kept.sequence /\ kept.sequence \in Nat
      BY <2>2, <3>1 DEF Intact, TypeOK
    <3> QED
      BY <1>12, <2>1, <3>2, <3>3
  <2>6. Effect(F, K[r].sequence) = Effect(E, K[r].sequence)
    <3>1. \A i \in 1 .. Len(E) : i \in 1 .. Len(F) /\ F[i] = E[i]
      BY <1>6, <1>8
    <3>2. \A i \in 1 .. Len(F) : i \in 1 .. Len(E) \/ i \in Len(E) + 1 .. Len(F)
      BY <1>6, <1>8
    <3> QED
      BY <2>5, <3>1, <3>2, Zenon DEF Effect
  <2>7. \A i \in Effect(E, K[r].sequence) : F[i].to = E[i].to
    BY <1>6, <1>8 DEF Effect
  <2> QED
    BY <2>4, <2>6, <2>7, Zenon DEF PathAfter
<1>13. PathsMatchSwitches'
  BY <1>3, <1>12, Zenon DEF PathsMatchSwitches, InEffect, PathAfter, Effect
<1>14. NoProbeLeftBehind'
  BY <1>3 DEF Intact, NoProbeLeftBehind, Running
<1>15. TokensDistinct'
  BY <1>3, ConsecutiveDistinct DEF TokensDistinct
<1> QED
  BY <1>3, <1>9, <1>11, <1>13, <1>14, <1>15 DEF Torn

\* Nothing follows a write that raised.
LEMMA TornStays == Torn /\ [Next]_vars => Torn'
<1> SUFFICES ASSUME Torn, [Next]_vars PROVE Torn'
  OBVIOUS
<1>1. stage = "torn" /\ Running = {}
  BY DEF Torn, NoProbeLeftBehind
<1>2. UNCHANGED vars
  BY <1>1 DEF Next, RunPhase, Submit, FutureRaises, PoolLeft, IntegrityFailure, Return,
              WriteFails, ProbeEnds, Stay, Switch
<1>3. UNCHANGED <<stage, phase, window, probeWindow, active, sequence, rows, events, kept,
                  bundle, result, tokens, tainted>>
  BY <1>2 DEF vars
<1>4. TypeOK' /\ SequencesContiguous' /\ TokensDistinct' /\ NoTaintedRow'
  BY <1>3 DEF Torn, TypeOK, SequencesContiguous, TokensDistinct, NoTaintedRow
<1>5. PathsMatchSwitches' /\ NoProbeLeftBehind'
  BY <1>3 DEF Torn, PathsMatchSwitches, InEffect, NoProbeLeftBehind, Running
<1> QED
  BY <1>1, <1>3, <1>4, <1>5 DEF Torn

-----------------------------------------------------------------------------
(***************************************************************************)
(* The theorems.                                                           *)
(***************************************************************************)
LEMMA StepIInv == IInv /\ [Next]_vars => IInv'
<1> SUFFICES ASSUME IInv, [Next]_vars PROVE IInv'
  OBVIOUS
<1>1. CASE Torn
  BY <1>1, TornStays DEF IInv
<1>2. CASE Intact /\ WriteFails
  BY <1>2, WriteFailsTorn DEF IInv
<1>3. CASE stage # "torn" /\ Intact /\ Unfailing
  <2>1. Intact'
    BY <1>3, StepType, StepCounted, StepNumbered, StepFollowed, StepUntainted,
       StepConsecutive, StepProbes, StepGrown DEF Intact
  <2>2. stage' # "torn"
    BY <1>3 DEF Unfailing, Next, RunPhase, Submit, FutureRaises, PoolLeft, IntegrityFailure,
                Return, ProbeEnds, Stay, Switch, EndWindow, vars
  <2> QED
    BY <2>1, <2>2 DEF IInv
<1> QED
  BY <1>1, <1>2, <1>3 DEF IInv, Unfailing

\* The rows of the bundle are the first of all rows.
LEMMA BundleFirst ==
  ASSUME TypeOK, NEW i \in 1 .. Len(bundle.rows)
  PROVE  i \in 1 .. Len(AllRows) /\ AllRows[i] = bundle.rows[i]
<1> DEFINE B == bundle.rows
<1>1. B \in Seq(Row) /\ rows \in Seq(Row) /\ Len(B) \in Nat /\ Len(rows) \in Nat
  <2>1. B \in Seq(Row) /\ rows \in Seq(Row)
    BY DEF TypeOK
  <2> QED
    BY <2>1, LenProperties
<1>2. AllRows = B \/ AllRows = B \o rows
  BY DEF AllRows
<1>3. i \in 1 .. Len(B)
  OBVIOUS
<1> HIDE DEF B
<1>4. i \in 1 .. Len(B \o rows) /\ (B \o rows)[i] = B[i]
  <2>1. /\ Len(B \o rows) = Len(B) + Len(rows)
        /\ \A j \in 1 .. Len(B) + Len(rows) :
              (B \o rows)[j] = IF j <= Len(B) THEN B[j] ELSE rows[j - Len(B)]
    BY <1>1, ConcatProperties
  <2> QED
    BY <1>1, <1>3, <2>1
<1>5. i \in 1 .. Len(AllRows) /\ AllRows[i] = B[i]
  BY <1>2, <1>3, <1>4
<1> QED
  BY <1>5 DEF B

LEMMA IInvImplies ==
  IInv => /\ TypeOK /\ SequencesContiguous /\ PathsMatchSwitches /\ TokensDistinct
          /\ NoTaintedRow /\ NoProbeLeftBehind
<1> SUFFICES ASSUME Intact
             PROVE  /\ SequencesContiguous /\ PathsMatchSwitches /\ TokensDistinct
                    /\ NoTaintedRow
  BY DEF IInv, Intact, Torn
<1>1. SequencesContiguous
  BY BundleFirst DEF Intact, Numbered, SequencesContiguous
<1>2. NoTaintedRow
  BY BundleFirst DEF Intact, Untainted, NoTaintedRow
<1>3. PathsMatchSwitches
  BY DEF Intact, Followed, Matches, PathAfter, Effect, PathsMatchSwitches, InEffect
<1> QED
  BY <1>1, <1>2, <1>3, ConsecutiveDistinct

\* The inductive invariant of the executor and of the runner's loop around it.
THEOREM ExecutorInvariant == Spec => []IInv
<1> QED
  BY InitIInv, StepIInv, PTL DEF Spec

\* The variables keep their ranges, for every number of paths and windows.
THEOREM ExecutorTypeCorrect == Spec => []TypeOK
<1>1. IInv => TypeOK
  BY IInvImplies
<1> QED
  BY <1>1, ExecutorInvariant, PTL

\* The packets in a bundle are numbered without a gap over all its phases.
THEOREM NumberedWithoutGap == Spec => []SequencesContiguous
<1>1. IInv => SequencesContiguous
  BY IInvImplies
<1> QED
  BY <1>1, ExecutorInvariant, PTL

\* The path of every packet follows from the switch events in the bundle.
THEOREM PathsFollowSwitches == Spec => []PathsMatchSwitches
<1>1. IInv => PathsMatchSwitches
  BY IInvImplies
<1> QED
  BY <1>1, ExecutorInvariant, PTL

\* All probes of a run have tokens of their own.
THEOREM TokensNeverRepeat == Spec => []TokensDistinct
<1>1. IInv => TokensDistinct
  BY IInvImplies
<1> QED
  BY <1>1, ExecutorInvariant, PTL

\* No row of a window in which a stream failed reaches a bundle.
THEOREM TaintedRowsDropped == Spec => []NoTaintedRow
<1>1. IInv => NoTaintedRow
  BY IInvImplies
<1> QED
  BY <1>1, ExecutorInvariant, PTL

\* Nobody probes when the executor has returned or raised.
THEOREM ProbesEndFirst == Spec => []NoProbeLeftBehind
<1>1. IInv => NoProbeLeftBehind
  BY IInvImplies
<1> QED
  BY <1>1, ExecutorInvariant, PTL

=============================================================================
