------------------------------ MODULE LabProofs ------------------------------
(***************************************************************************)
(* Proofs about WireGuardLab, for any number of paths, of impairments, of  *)
(* setups and of failing commands.                                         *)
(***************************************************************************)
EXTENDS WireGuardLab, TLAPS

Current == call.setups
Bare(p) == \A s \in Side : link[p][s] = None

\* A pair is in the root namespace, or its client end has been moved, or both
\* have.  A client namespace that has lost its name is gone; a server
\* namespace that has lost it is there only while a process runs in it.
Pairs ==
    \A p \in Path :
        /\ link[p]["server"] \in {link[p]["client"], -link[p]["client"]}
        /\ link[p]["server"] > 0 => link[p]["client"] = link[p]["server"]
        /\ link[p]["client"] > 0 => space["client"] = link[p]["client"]
        /\ link[p]["server"] > 0 => space["server"] = link[p]["server"] \/ link[p]["server"] \in echo

\* Tunnels go with the name of their namespace.
Tunnels == \A s \in Side : space[s] = None => \A p \in Path : tunnel[p][s] = NoTunnel

\* Nothing comes from a later setup than the last one, and nothing from a
\* setup that has not begun to build.
Old(s) == space[s] < Current
OldLink(p) == \A s \in Side : -Current < link[p][s] /\ link[p][s] < Current
Ages ==
    /\ \A s \in Side : space[s] <= Current
    /\ \A p \in Path, s \in Side : -Current <= link[p][s] /\ link[p][s] <= Current
    /\ call.op = "setup" /\ ~call.undo /\ call.stage \in Sweeping \cup {"keys"} =>
          (\A s \in Side : Old(s)) /\ \A p \in Path : OldLink(p)

\* Which calls have which stages, and what they remember of failures.  A call
\* has no outcome before it ends.
Calls ==
    /\ call.stage \in Building => call.op = "setup" /\ ~call.undo
    /\ call.stage \in Sweeping => call.op \in {"setup", "cleanup"}
    /\ call.stage = "impair" => call.op = "impair"
    /\ call.op = "setup" => Current > 0
    /\ ~call.sound \/ call.undo => call.failed
    /\ ~Idle => call.outcome = "none"

\* What a cleanup has removed so far.
Swept ==
    /\ call.stage = "drop" /\ call.sound =>
          /\ space["server"] \notin echo
          /\ call.n = 2 => space["client"] = None
    /\ call.stage \in {"links", "unlink"} /\ call.sound => \A s \in Side : space[s] = None
    /\ call.stage = "links" /\ call.sound => \A p \in Path : 2 * p - 1 < call.n => Bare(p)
    /\ call.stage = "unlink" /\ call.sound => \A p \in Path : Bare(p)
    /\ call.stage = "unlink" =>
          /\ \A p \in Path : 2 * p - 1 < call.n => key[p]["client"] = NoKey
          /\ \A p \in Path : 2 * p < call.n => key[p]["server"] = NoKey

\* What a setup has built so far.
Joined(p, s) == link[p][s] = Current
Knows(p, s)  == tunnel[p][s] = [own |-> <<Current, p, s>>, peer |-> <<Current, p, Other(s)>>,
                                there |-> TRUE]
Bound(p, s)  == tunnel[p][s] = [NoTunnel EXCEPT !.there = TRUE]
Made(p)      == \A s \in Side : Joined(p, s) /\ Knows(p, s) /\ netem[p][s] = 0
Unmade(p)    == /\ OldLink(p) /\ (call.sound => Bare(p))
                /\ \A s \in Side : tunnel[p][s] = NoTunnel

Nth == ((call.n - 1) % 9) + 1
Partial(p, k) ==
    /\ k = 1 => Unmade(p)
    /\ k = 2 => \A s \in Side : link[p][s] = -Current
    /\ k = 3 => Joined(p, "client") /\ link[p]["server"] = -Current
    /\ k > 3 => \A s \in Side : Joined(p, s)
    /\ k \in 2 .. 4 => tunnel[p]["client"] = NoTunnel
    /\ k \in 2 .. 5 => tunnel[p]["server"] = NoTunnel
    /\ k \in 5 .. 6 => Bound(p, "client")
    /\ k \in 6 .. 7 => Bound(p, "server")
    /\ k > 6 => Knows(p, "client")
    /\ k > 7 => Knows(p, "server")
    /\ k > 8 => netem[p]["client"] = 0
    /\ k > 9 => netem[p]["server"] = 0

Built ==
    /\ call.stage = "keys" =>
          /\ call.sound => \A s \in Side : space[s] = None
          /\ call.sound => \A p \in Path : Bare(p)
          /\ \A p \in Path : 2 * p - 1 < call.n => key[p]["client"] = <<Current, p, "client">>
          /\ \A p \in Path : 2 * p < call.n => key[p]["server"] = <<Current, p, "server">>
    /\ call.stage \in {"spaces", "path"} => \A p \in Path, s \in Side : key[p][s] = <<Current, p, s>>
    /\ call.stage = "spaces" =>
          /\ call.n = 1 => Old("client") /\ (call.sound => space["client"] = None)
          /\ call.n = 2 => space["client"] = Current /\ \A p \in Path : tunnel[p]["client"] = NoTunnel
          /\ Old("server") /\ (call.sound => space["server"] = None)
          /\ \A p \in Path : OldLink(p) /\ (call.sound => Bare(p))
    /\ call.stage = "path" =>
          /\ \A s \in Side : space[s] = Current
          /\ \A p \in Path : p < Of => Made(p)
          /\ \A p \in Path : p > Of => Unmade(p)
          /\ Partial(Of, Nth)

\* What callers have been told is so.
Told ==
    /\ \A p \in Path : told[p] # Unset =>
          \A s \in Side : Reachable(p, s) /\ netem[p][s] = told[p]
    /\ call.stage \in Sweeping \cup Building => \A p \in Path : told[p] = Unset
    /\ call.stage = "impair" =>
          /\ told[call.path] = Unset
          /\ call.n = 2 /\ Reachable(call.path, "server") =>
                Reachable(call.path, "client") /\ netem[call.path]["client"] = call.level

\* No process is left in a nameless namespace, as long as no command failed.
Faultless ==
    faults = 0 => echo \subseteq {space["server"]} /\ (call.stage = "drop" => echo = {})

\* What a call that has ended promises.
Ends == SetupIsAllOrNothing /\ VerifiedIsClean

IInv == /\ TypeOK /\ Pairs /\ Tunnels /\ Ages /\ Calls /\ Swept /\ Built /\ Told /\ Faultless
        /\ Ends

-----------------------------------------------------------------------------
(***************************************************************************)
(* The course of a call.                                                   *)
(***************************************************************************)
LEMMA Lengths ==
    /\ Paths \in Nat /\ Paths >= 1 /\ Levels \in Nat /\ MaxSetups \in Nat /\ MaxFaults \in Nat
    /\ Last("stop") = 1 /\ Last("drop") = 2 /\ Last("spaces") = 2 /\ Last("impair") = 2
    /\ Last("links") = 2 * Paths /\ Last("unlink") = 2 * Paths /\ Last("keys") = 2 * Paths
    /\ Last("path") = 9 * Paths /\ Last("idle") = 1
BY LabAssumption DEF Last

LEMMA StageNames ==
    /\ Stage = {"idle", "impair", "stop", "drop", "links", "unlink", "keys", "spaces", "path"}
    /\ Sweeping = {"stop", "drop", "links", "unlink"} /\ Building = {"keys", "spaces", "path"}
    /\ \A s \in Stage : Last(s) \in Nat /\ Last(s) >= 1
<1>1. /\ Stage = {"idle", "impair", "stop", "drop", "links", "unlink", "keys", "spaces", "path"}
      /\ Sweeping = {"stop", "drop", "links", "unlink"} /\ Building = {"keys", "spaces", "path"}
  BY DEF Stage, Sweeping, Building
<1>2. 2 * Paths \in Nat /\ 9 * Paths \in Nat /\ 2 * Paths >= 1 /\ 9 * Paths >= 1
  BY Lengths
<1> QED
  BY <1>1, <1>2, Lengths

\* The n-th end of all pairs.
LEMMA EndPlace ==
  ASSUME NEW n \in Nat, 1 <= n, n <= 2 * Paths
  PROVE  /\ PathOf(n) \in Path /\ SideOf(n) \in Side
         /\ SideOf(n) = "client" => n = 2 * PathOf(n) - 1
         /\ SideOf(n) = "server" => n = 2 * PathOf(n)
BY Lengths DEF SideOf, PathOf, Side, Path

\* The n-th command for all paths, and the one after it.
LEMMA CommandPlace ==
  ASSUME NEW n \in Nat, 1 <= n, n <= 9 * Paths
  PROVE  /\ BuiltBy(n) \in Path /\ ((n - 1) % 9) + 1 \in 1 .. 9
         /\ n = 9 * (BuiltBy(n) - 1) + ((n - 1) % 9) + 1
         /\ ((n - 1) % 9) + 1 < 9 => BuiltBy(n + 1) = BuiltBy(n)
                                     /\ ((n + 1 - 1) % 9) + 1 = ((n - 1) % 9) + 2
         /\ ((n - 1) % 9) + 1 = 9 => BuiltBy(n + 1) = BuiltBy(n) + 1 /\ ((n + 1 - 1) % 9) + 1 = 1
         /\ n = 9 * Paths => BuiltBy(n) = Paths /\ ((n - 1) % 9) + 1 = 9
         /\ n < 9 * Paths /\ ((n - 1) % 9) + 1 = 9 => BuiltBy(n) < Paths
BY Lengths DEF BuiltBy, Path

\* Which command is which.
LEMMA Commands ==
  ASSUME NEW n \in Nat, 1 <= n, n <= 9 * Paths
  PROVE  LET k == ((n - 1) % 9) + 1
             c == StepOf(n)
         IN  /\ c[1] = "wire" <=> k = 1
             /\ c[1] = "move" <=> k \in {2, 3}
             /\ c[1] = "tunnel" <=> k \in {4, 5}
             /\ c[1] = "peer" <=> k \in {6, 7}
             /\ c[1] = "netem" <=> k \in {8, 9}
             /\ c[2] = (IF k \in {3, 5, 7, 9} THEN "server" ELSE "client")
<1> DEFINE k == ((n - 1) % 9) + 1
<1>1. k \in {1, 2, 3, 4, 5, 6, 7, 8, 9}
  BY CommandPlace
<1>2. StepOf(n) = PathSteps[k]
  BY DEF StepOf
<1> HIDE DEF k
<1>3. /\ PathSteps[1] = <<"wire", "client">> /\ PathSteps[2] = <<"move", "client">>
      /\ PathSteps[3] = <<"move", "server">> /\ PathSteps[4] = <<"tunnel", "client">>
      /\ PathSteps[5] = <<"tunnel", "server">> /\ PathSteps[6] = <<"peer", "client">>
      /\ PathSteps[7] = <<"peer", "server">> /\ PathSteps[8] = <<"netem", "client">>
      /\ PathSteps[9] = <<"netem", "server">>
  BY DEF PathSteps
<1>4. /\ StepOf(n)[1] = "wire" <=> k = 1
      /\ StepOf(n)[1] = "move" <=> k \in {2, 3}
      /\ StepOf(n)[1] = "tunnel" <=> k \in {4, 5}
      /\ StepOf(n)[1] = "peer" <=> k \in {6, 7}
      /\ StepOf(n)[1] = "netem" <=> k \in {8, 9}
      /\ StepOf(n)[2] = (IF k \in {3, 5, 7, 9} THEN "server" ELSE "client")
  BY <1>1, <1>2, <1>3
<1> QED
  BY <1>4 DEF k

\* What a call keeps from one command to the next.
Same(c, d) == /\ d.op = c.op /\ d.setups = c.setups /\ d.undo = c.undo /\ d.failed = c.failed
              /\ d.sound = c.sound /\ d.blind = c.blind /\ d.path = c.path /\ d.level = c.level

LEMMA AdvanceIs ==
  ASSUME NEW c
  PROVE  /\ c.n < Last(c.stage) => Advance(c) = [c EXCEPT !.n = c.n + 1]
         /\ ~(c.n < Last(c.stage)) =>
            /\ c.stage = "stop"   => Advance(c) = [c EXCEPT !.stage = "drop", !.n = 1]
            /\ c.stage = "drop"   => Advance(c) = [c EXCEPT !.stage = "links", !.n = 1]
            /\ c.stage = "links"  => Advance(c) = [c EXCEPT !.stage = "unlink", !.n = 1]
            /\ c.stage = "unlink" => Advance(c) =
                  (IF c.op = "cleanup" THEN Ended(c, "returned")
                   ELSE IF c.undo THEN Ended(c, "raised")
                   ELSE [c EXCEPT !.stage = "keys", !.n = 1])
            /\ c.stage = "keys"   => Advance(c) = [c EXCEPT !.stage = "spaces", !.n = 1]
            /\ c.stage = "spaces" => Advance(c) = [c EXCEPT !.stage = "path", !.n = 1]
            /\ c.stage \in {"path", "impair"} => Advance(c) = Ended(c, "returned")
BY DEF Advance

Outcomes == {"none", "returned", "raised", "stopped"}
Ops == {"setup", "impair", "cleanup", "verify"}

\* A call with other values in some of its fields is a call.
LEMMA Positions ==
  ASSUME NEW c \in Call
  PROVE  /\ \A n \in Nat \ {0} : [c EXCEPT !.n = n] \in Call
         /\ \A s \in Stage, n \in Nat \ {0} : [c EXCEPT !.stage = s, !.n = n] \in Call
         /\ \A s \in Stage, n \in Nat \ {0}, o \in Outcomes :
               [c EXCEPT !.stage = s, !.n = n, !.outcome = o] \in Call
         /\ \A p \in Ops, s \in Stage, n \in Nat \ {0}, o \in Outcomes :
               [c EXCEPT !.op = p, !.stage = s, !.n = n, !.outcome = o] \in Call
BY DEF Call, Outcomes, Ops

LEMMA Flags ==
  ASSUME NEW c \in Call
  PROVE  /\ \A f \in BOOLEAN : [c EXCEPT !.failed = f] \in Call /\ [c EXCEPT !.blind = f] \in Call
         /\ \A u, f, x, b \in BOOLEAN :
               [c EXCEPT !.undo = u, !.failed = f, !.sound = x, !.blind = b] \in Call
         /\ \A f, x \in BOOLEAN : [c EXCEPT !.failed = f, !.sound = x] \in Call
         /\ \A s \in Stage, n \in Nat \ {0}, u, x \in BOOLEAN :
               [c EXCEPT !.stage = s, !.n = n, !.undo = u, !.sound = x] \in Call
BY DEF Call

LEMMA Arguments ==
  ASSUME NEW c \in Call
  PROVE  /\ \A k \in 0 .. MaxSetups : [c EXCEPT !.setups = k] \in Call
         /\ \A p \in Path, l \in 0 .. Levels : [c EXCEPT !.path = p, !.level = l] \in Call
BY DEF Call

\* The next command: of the same stage, or the first of the stage that follows.
LEMMA Advanced ==
  ASSUME NEW c \in Call, c.n <= Last(c.stage), c.stage # "idle", NEW d, d = Advance(c)
  PROVE  /\ d \in Call /\ d.n <= Last(d.stage) /\ Same(c, d)
         /\ d.stage # "idle" => d.outcome = c.outcome
         /\ c.n < Last(c.stage) => d.stage = c.stage /\ d.n = c.n + 1 /\ d.outcome = c.outcome
         /\ c.n = Last(c.stage) =>
            /\ d.n = 1
            /\ c.stage = "stop"   => d.stage = "drop"
            /\ c.stage = "drop"   => d.stage = "links"
            /\ c.stage = "links"  => d.stage = "unlink"
            /\ c.stage = "unlink" =>
                  \/ c.op = "cleanup" /\ d.stage = "idle" /\ d.outcome = "returned"
                  \/ c.op # "cleanup" /\ c.undo /\ d.stage = "idle" /\ d.outcome = "raised"
                  \/ c.op # "cleanup" /\ ~c.undo /\ d.stage = "keys"
            /\ c.stage = "keys"   => d.stage = "spaces"
            /\ c.stage = "spaces" => d.stage = "path"
            /\ c.stage \in {"path", "impair"} => d.stage = "idle" /\ d.outcome = "returned"
<1>0. c.stage \in Stage \ {"idle"} /\ c.n \in Nat /\ c.n >= 1
  BY DEF Call
<1>one. 1 \in Nat \ {0}
  OBVIOUS
<1>1. CASE c.n < Last(c.stage)
  <2>1. d = [c EXCEPT !.n = c.n + 1]
    BY <1>1, AdvanceIs
  <2>2. c.n + 1 \in Nat \ {0} /\ Last(c.stage) \in Nat
    BY <1>0, StageNames
  <2>3. d \in Call
    BY <2>1, <2>2, Positions
  <2>4. d.n = c.n + 1 /\ d.stage = c.stage /\ d.outcome = c.outcome /\ Same(c, d)
    BY <2>1 DEF Call, Same
  <2> QED
    BY <1>0, <1>1, <2>2, <2>3, <2>4
<1>2. CASE c.n = Last(c.stage)
  <2>0. ~(c.n < Last(c.stage))
    BY <1>0, <1>2, StageNames
  <2>3. {"idle", "drop", "links", "unlink", "keys", "spaces", "path"} \subseteq Stage
    BY StageNames
  <2>1. ASSUME NEW s \in Stage, d = [c EXCEPT !.stage = s, !.n = 1]
        PROVE  d \in Call /\ d.n <= Last(d.stage) /\ Same(c, d) /\ d.n = 1 /\ d.stage = s
               /\ d.outcome = c.outcome
    <3>0. [c EXCEPT !.stage = s, !.n = 1] \in Call
      BY <1>one, Positions
    <3>1. d \in Call
      BY <2>1, <3>0
    <3>2. d.n = 1 /\ d.stage = s /\ Same(c, d) /\ d.outcome = c.outcome
      BY <2>1 DEF Call, Same
    <3> QED
      BY <3>1, <3>2, StageNames
  <2>2. ASSUME NEW o \in {"returned", "raised"}, d = Ended(c, o)
        PROVE  d \in Call /\ d.n <= Last(d.stage) /\ Same(c, d) /\ d.n = 1 /\ d.stage = "idle"
               /\ d.outcome = o
    <3>1. d = [c EXCEPT !.stage = "idle", !.n = 1, !.outcome = o]
      BY <2>2 DEF Ended
    <3>o. o \in Outcomes /\ "idle" \in Stage
      BY <2>3 DEF Outcomes
    <3>0. [c EXCEPT !.stage = "idle", !.n = 1, !.outcome = o] \in Call
      BY <1>one, <3>o, Positions
    <3>2. d \in Call
      BY <3>0, <3>1
    <3>3. d.n = 1 /\ d.stage = "idle" /\ d.outcome = o /\ Same(c, d)
      BY <3>1 DEF Call, Same
    <3> QED
      BY <3>2, <3>3, Lengths
  <2> HIDE DEF Stage
  <2>4. CASE c.stage = "stop"
    BY <1>2, <2>0, <2>1, <2>3, <2>4, AdvanceIs
  <2>5. CASE c.stage = "drop"
    BY <1>2, <2>0, <2>1, <2>3, <2>5, AdvanceIs
  <2>6. CASE c.stage = "links"
    BY <1>2, <2>0, <2>1, <2>3, <2>6, AdvanceIs
  <2>7. CASE c.stage = "unlink"
    <3>1. CASE c.op = "cleanup"
      BY <1>2, <2>0, <2>2, <2>7, <3>1, AdvanceIs
    <3>2. CASE c.op # "cleanup" /\ c.undo
      BY <1>2, <2>0, <2>2, <2>7, <3>2, AdvanceIs
    <3>3. CASE c.op # "cleanup" /\ ~c.undo
      BY <1>2, <2>0, <2>1, <2>3, <2>7, <3>3, AdvanceIs
    <3> QED
      BY <3>1, <3>2, <3>3
  <2>8. CASE c.stage = "keys"
    BY <1>2, <2>0, <2>1, <2>3, <2>8, AdvanceIs
  <2>9. CASE c.stage = "spaces"
    BY <1>2, <2>0, <2>1, <2>3, <2>9, AdvanceIs
  <2>10. CASE c.stage \in {"path", "impair"}
    BY <1>2, <2>0, <2>2, <2>10, AdvanceIs
  <2> QED
    BY <1>0, <2>4, <2>5, <2>6, <2>7, <2>8, <2>9, <2>10, StageNames
<1>3. c.n \in Nat /\ Last(c.stage) \in Nat
  BY <1>0, StageNames
<1> QED
  BY <1>1, <1>2, <1>3

\* Other ways for a call to begin and end.
LEMMA BegunIs ==
  ASSUME call \in Call, NEW op \in Ops, NEW stage \in Stage
  PROVE  LET d == Begun(op, stage) IN
         /\ d \in Call /\ d.n = 1 /\ d.op = op /\ d.stage = stage /\ d.outcome = "none"
         /\ d.undo = FALSE /\ d.failed = FALSE /\ d.sound = TRUE /\ d.blind = FALSE
         /\ d.setups = call.setups /\ d.path = call.path /\ d.level = call.level
<1> DEFINE d == Begun(op, stage)
           c == [call EXCEPT !.op = op, !.stage = stage, !.n = 1, !.outcome = "none"]
<1>1. 1 \in Nat \ {0} /\ "none" \in Outcomes
  BY DEF Outcomes
<1>2. c \in Call
  BY <1>1, Positions
<1>3. d = [c EXCEPT !.undo = FALSE, !.failed = FALSE, !.sound = TRUE, !.blind = FALSE]
  BY DEF Begun
<1>4. c.n = 1 /\ c.op = op /\ c.stage = stage /\ c.outcome = "none"
      /\ c.setups = call.setups /\ c.path = call.path /\ c.level = call.level
  BY DEF Call
<1> HIDE DEF c, d
<1>5. d \in Call
  BY <1>2, <1>3, Flags
<1>6. d.n = c.n /\ d.op = c.op /\ d.stage = c.stage /\ d.outcome = c.outcome
       /\ d.undo = FALSE /\ d.failed = FALSE /\ d.sound = TRUE /\ d.blind = FALSE
         /\ d.setups = c.setups /\ d.path = c.path /\ d.level = c.level
  BY <1>2, <1>3 DEF Call
<1> QED
  BY <1>4, <1>5, <1>6 DEF d

LEMMA EndedIs ==
  ASSUME NEW c \in Call, NEW o \in {"returned", "raised", "stopped"}, NEW d, d = Ended(c, o)
  PROVE  d \in Call /\ d.n = 1 /\ d.stage = "idle" /\ d.outcome = o /\ Same(c, d)
<1>1. d = [c EXCEPT !.stage = "idle", !.n = 1, !.outcome = o]
  BY DEF Ended
<1>2. o \in Outcomes /\ "idle" \in Stage /\ 1 \in Nat \ {0}
  BY StageNames DEF Outcomes
<1>3. [c EXCEPT !.stage = "idle", !.n = 1, !.outcome = o] \in Call
  BY <1>2, Positions
<1>4. d \in Call
  BY <1>1, <1>3
<1> QED
  BY <1>1, <1>4 DEF Call, Same

LEMMA RaisedIs ==
  ASSUME NEW c \in Call, NEW d, d = Raised(c)
  PROVE  /\ d \in Call /\ d.n = 1 /\ d.op = c.op /\ d.setups = c.setups /\ d.failed = c.failed
         /\ c.stage \in Building => d.stage = "stop" /\ d.undo /\ d.sound /\ d.outcome = c.outcome
         /\ c.stage \notin Building => /\ d.stage = "idle" /\ d.outcome = "raised"
                                       /\ d.undo = c.undo /\ d.sound = c.sound
<1>1. CASE c.stage \in Building
  <2>1. d = [c EXCEPT !.stage = "stop", !.n = 1, !.undo = TRUE, !.sound = TRUE]
    BY <1>1 DEF Raised
  <2>2. "stop" \in Stage /\ 1 \in Nat \ {0} /\ TRUE \in BOOLEAN
    BY StageNames
  <2>3. [c EXCEPT !.stage = "stop", !.n = 1, !.undo = TRUE, !.sound = TRUE] \in Call
    BY <2>2, Flags
  <2>4. d \in Call
    BY <2>1, <2>3
  <2> QED
    BY <1>1, <2>1, <2>4 DEF Call
<1>2. CASE c.stage \notin Building
  <2>1. d = Ended(c, "raised")
    BY <1>2 DEF Raised
  <2> QED
    BY <1>2, <2>1, EndedIs DEF Same
<1> QED
  BY <1>1, <1>2

-----------------------------------------------------------------------------
(***************************************************************************)
(* What the steps do to the call.                                          *)
(***************************************************************************)
CallOK == call \in Call /\ call.n <= Last(call.stage)

\* After a command that has done its work, or one that is not checked.
LEMMA Onward ==
  ASSUME CallOK, ~Idle, call' = Advance(call)
  PROVE  /\ CallOK' /\ Same(call, call') /\ (~Idle' => call'.outcome = call.outcome)
         /\ call.n < Last(call.stage) =>
               call'.stage = call.stage /\ call'.n = call.n + 1 /\ call'.outcome = call.outcome
         /\ call.n = Last(call.stage) =>
            /\ call'.n = 1
            /\ call.stage = "stop"   => call'.stage = "drop"
            /\ call.stage = "drop"   => call'.stage = "links"
            /\ call.stage = "links"  => call'.stage = "unlink"
            /\ call.stage = "unlink" =>
                  \/ call.op = "cleanup" /\ call'.stage = "idle" /\ call'.outcome = "returned"
                  \/ call.op # "cleanup" /\ call.undo /\ call'.stage = "idle" /\ call'.outcome = "raised"
                  \/ call.op # "cleanup" /\ ~call.undo /\ call'.stage = "keys"
            /\ call.stage = "keys"   => call'.stage = "spaces"
            /\ call.stage = "spaces" => call'.stage = "path"
            /\ call.stage \in {"path", "impair"} => call'.stage = "idle" /\ call'.outcome = "returned"
BY Advanced DEF CallOK, Idle

\* setup, cleanup and impair begin.
Starts == StartSetup \/ StartCleanup \/ \E p \in Path, level \in 0 .. Levels : StartImpair(p, level)

LEMMA StartsEffect ==
  ASSUME TypeOK, Starts
  PROVE  /\ CallOK' /\ Idle /\ call'.n = 1 /\ call'.outcome = "none"
         /\ ~call'.undo /\ ~call'.failed /\ call'.sound
         /\ \/ call'.op = "setup" /\ call'.stage = "stop" /\ Current' = Current + 1
            \/ call'.op = "cleanup" /\ call'.stage = "stop" /\ Current' = Current
            \/ call'.op = "impair" /\ call'.stage = "impair" /\ Current' = Current
         /\ UNCHANGED <<space, link, netem, tunnel, key, echo, faults>>
         /\ told' \in [Path -> 0 .. Levels \cup {Unset}]
         /\ \A p \in Path : told'[p] \in {told[p], Unset}
         /\ call'.stage = "stop" => \A p \in Path : told'[p] = Unset
         /\ call'.stage = "impair" => told'[call'.path] = Unset
<1>0. call \in Call /\ 1 <= Last("stop") /\ 1 <= Last("impair")
  BY Lengths DEF TypeOK
<1>1. CASE StartSetup
  <2> DEFINE c == Begun("setup", "stop")
  <2>o. call \in Call /\ "setup" \in Ops /\ "stop" \in Stage
    BY <1>0, StageNames DEF Ops
  <2>a. c \in Call /\ c.n = 1 /\ c.op = "setup" /\ c.stage = "stop" /\ c.outcome = "none"
    BY <2>o, BegunIs
  <2>b. c.undo = FALSE /\ c.failed = FALSE /\ c.sound = TRUE /\ c.setups = call.setups
    BY <2>o, BegunIs
  <2>2. call' = [c EXCEPT !.setups = c.setups + 1] /\ c.setups + 1 \in 0 .. MaxSetups
    BY <1>0, <1>1, <2>a, <2>b, Lengths DEF StartSetup, Call
  <2> HIDE DEF c
  <2>3. [c EXCEPT !.setups = c.setups + 1] \in Call
    BY <2>a, <2>b, <2>2, Arguments
  <2>4. call' \in Call
    BY <2>2, <2>3
  <2>5. /\ call'.n = c.n /\ call'.op = c.op /\ call'.stage = c.stage /\ call'.outcome = c.outcome
        /\ call'.undo = c.undo /\ call'.failed = c.failed /\ call'.sound = c.sound
        /\ call'.setups = c.setups + 1
    BY <2>a, <2>b, <2>2 DEF Call
  <2> QED
    BY <1>0, <1>1, <2>a, <2>b, <2>4, <2>5 DEF StartSetup, CallOK, Current, network
<1>2. CASE StartCleanup
  <2> DEFINE c == Begun("cleanup", "stop")
  <2>o. call \in Call /\ "cleanup" \in Ops /\ "stop" \in Stage
    BY <1>0, StageNames DEF Ops
  <2>a. c \in Call /\ c.n = 1 /\ c.op = "cleanup" /\ c.stage = "stop" /\ c.outcome = "none"
    BY <2>o, BegunIs
  <2>b. c.undo = FALSE /\ c.failed = FALSE /\ c.sound = TRUE /\ c.setups = call.setups
    BY <2>o, BegunIs
  <2>c. call' = c
    BY <1>2 DEF StartCleanup
  <2> HIDE DEF c
  <2> QED
    BY <1>0, <1>2, <2>a, <2>b, <2>c DEF StartCleanup, CallOK, Current, network
<1>3. ASSUME NEW p \in Path, NEW level \in 0 .. Levels, StartImpair(p, level)
      PROVE  /\ CallOK' /\ Idle /\ call'.n = 1 /\ call'.outcome = "none"
             /\ ~call'.undo /\ ~call'.failed /\ call'.sound
             /\ call'.op = "impair" /\ call'.stage = "impair" /\ Current' = Current /\ call'.path = p
             /\ UNCHANGED <<space, link, netem, tunnel, key, echo, faults>>
             /\ told' = [told EXCEPT ![p] = Unset]
  <2> DEFINE c == Begun("impair", "impair")
  <2>o. call \in Call /\ "impair" \in Ops /\ "impair" \in Stage
    BY <1>0, StageNames DEF Ops
  <2>a. c \in Call /\ c.n = 1 /\ c.op = "impair" /\ c.stage = "impair" /\ c.outcome = "none"
    BY <2>o, BegunIs
  <2>b. c.undo = FALSE /\ c.failed = FALSE /\ c.sound = TRUE /\ c.setups = call.setups
    BY <2>o, BegunIs
  <2>2. call' = [c EXCEPT !.path = p, !.level = level]
    BY <1>3 DEF StartImpair
  <2> HIDE DEF c
  <2>3. [c EXCEPT !.path = p, !.level = level] \in Call
    BY <2>a, <2>b, Arguments
  <2>4. call' \in Call
    BY <2>2, <2>3
  <2>5. /\ call'.n = c.n /\ call'.op = c.op /\ call'.stage = c.stage /\ call'.outcome = c.outcome
        /\ call'.undo = c.undo /\ call'.failed = c.failed /\ call'.sound = c.sound
        /\ call'.setups = c.setups /\ call'.path = p
    BY <2>a, <2>b, <2>2 DEF Call
  <2> QED
    BY <1>0, <1>3, <2>a, <2>b, <2>4, <2>5 DEF StartImpair, CallOK, Current, network
<1>4. CASE \E p \in Path, level \in 0 .. Levels : StartImpair(p, level)
  <2>1. PICK p \in Path, level \in 0 .. Levels : StartImpair(p, level)
    BY <1>4
  <2>2. told' = [told EXCEPT ![p] = Unset] /\ told \in [Path -> 0 .. Levels \cup {Unset}]
    BY <1>3, <2>1 DEF TypeOK
  <2>3. told' \in [Path -> 0 .. Levels \cup {Unset}] /\ told'[p] = Unset
        /\ \A q \in Path : told'[q] \in {told[q], Unset}
    BY <2>2
  <2> QED
    BY <1>3, <2>1, <2>3
<1> QED
  BY <1>1, <1>2, <1>4 DEF Starts

LEMMA AssertCleanEffect ==
  ASSUME TypeOK, AssertClean
  PROVE  /\ CallOK' /\ Idle /\ Idle' /\ call'.op = "verify" /\ Current' = Current
         /\ ~call'.undo /\ ~call'.failed /\ call'.sound
         /\ UNCHANGED <<space, link, netem, tunnel, key, echo, told>>
         /\ faults' \in 0 .. MaxFaults /\ faults <= faults'
         /\ call'.outcome = "returned" /\ ~call'.blind => ~Named /\ ~Loose /\ ~Keyed
<1>1. call \in Call /\ 1 <= Last("idle") /\ faults \in 0 .. MaxFaults
  BY Lengths DEF TypeOK
<1>o. "verify" \in Ops /\ "idle" \in Stage /\ call \in Call
  BY StageNames DEF Ops, TypeOK
<1> DEFINE b == Begun("verify", "idle")
<1>b. b \in Call /\ b.op = "verify" /\ b.undo = FALSE
  BY <1>o, BegunIs
<1>c. b.failed = FALSE /\ b.sound = TRUE /\ b.setups = call.setups
  BY <1>o, BegunIs
<1>2. PICK listed \in SUBSET {"netns", "links"} :
        LET blind == listed # {"netns", "links"}
            residue == ("netns" \in listed /\ Named) \/ ("links" \in listed /\ Loose) \/ Keyed
        IN  /\ faults' = IF blind THEN faults + 1 ELSE faults
            /\ call' = Ended([Begun("verify", "idle") EXCEPT !.blind = blind],
                             IF residue THEN "raised" ELSE "returned")
  BY DEF AssertClean
<1> DEFINE blind == listed # {"netns", "links"}
           residue == ("netns" \in listed /\ Named) \/ ("links" \in listed /\ Loose) \/ Keyed
           c == [b EXCEPT !.blind = blind]
           o == IF residue THEN "raised" ELSE "returned"
<1>4. call' = Ended(c, o) /\ o \in {"returned", "raised"}
  BY <1>2
<1>5. blind \in BOOLEAN /\ (o = "returned" /\ ~blind => ~Named /\ ~Loose /\ ~Keyed)
  OBVIOUS
<1> HIDE DEF b, o, blind, residue
<1>6. c \in Call
  BY <1>b, <1>5, Flags
<1>7. c.op = b.op /\ c.undo = b.undo /\ c.failed = b.failed /\ c.sound = b.sound
      /\ c.setups = b.setups /\ c.blind = blind
  BY <1>b DEF Call
<1> HIDE DEF c
<1>8. call' \in Call /\ call'.n = 1 /\ call'.stage = "idle" /\ call'.outcome = o /\ Same(c, call')
  BY <1>4, <1>6, EndedIs
<1>9. faults' \in 0 .. MaxFaults /\ faults <= faults'
  BY <1>1, <1>2, Lengths DEF AssertClean, blind
<1> QED
  BY <1>1, <1>b, <1>c, <1>5, <1>7, <1>8, <1>9 DEF AssertClean, CallOK, Current, Idle, Same, network


\* A command of cleanup that fails without a word.
LEMMA MissedEffect ==
  ASSUME TypeOK, Missed
  PROVE  /\ CallOK' /\ call.stage \in {"stop", "drop", "links"} /\ Current' = Current
         /\ call'.op = call.op /\ call'.undo = call.undo /\ call'.failed /\ ~call'.sound
         /\ call'.stage = call.stage \/ (call'.stage \in {"drop", "links", "unlink"} /\ call'.n = 1)
         /\ call'.outcome = call.outcome
         /\ UNCHANGED <<space, link, netem, tunnel, key, echo, told>>
         /\ faults' \in 0 .. MaxFaults /\ faults' > 0
<1> DEFINE c == [call EXCEPT !.failed = TRUE, !.sound = FALSE]
<1>1. call \in Call /\ call.n <= Last(call.stage) /\ call.stage \in {"stop", "drop", "links"}
      /\ call.n \in Nat \ {0}
  BY DEF TypeOK, Missed, Call
<1>2. [call EXCEPT !.failed = TRUE, !.sound = FALSE] \in Call
  BY <1>1, Flags
<1>3. /\ c.op = call.op /\ c.undo = call.undo /\ c.failed = TRUE /\ c.sound = FALSE
      /\ c.setups = call.setups /\ c.stage = call.stage /\ c.n = call.n /\ c.outcome = call.outcome
  BY <1>1 DEF Call
<1>4. call' = Advance(c) /\ c \in Call
  BY <1>2 DEF Missed
<1> HIDE DEF c
<1>5. c.n <= Last(c.stage) /\ c.stage # "idle" /\ (c.n < Last(c.stage) \/ c.n = Last(c.stage))
  BY <1>1, <1>3, Lengths
<1>6. /\ call' \in Call /\ call'.n <= Last(call'.stage) /\ Same(c, call')
      /\ call'.stage = c.stage \/ (call'.stage \in {"drop", "links", "unlink"} /\ call'.n = 1)
      /\ call'.outcome = c.outcome
  BY <1>1, <1>3, <1>4, <1>5, Advanced
<1>7. faults' \in 0 .. MaxFaults /\ faults' > 0
  BY Lengths DEF Missed, TypeOK
<1> QED
  BY <1>1, <1>3, <1>6, <1>7 DEF Missed, CallOK, Current, Same, network

\* A call that ends before its last command.
Breaks ==
    \/ CleanupRaises \/ Stopped
    \/ (CommandRefused \/ CommandFails) /\ At("impair")

LEMMA BreaksEffect ==
  ASSUME TypeOK, Breaks, call.stage = "impair" => call.op = "impair"
  PROVE  /\ CallOK' /\ ~Idle /\ Idle' /\ Current' = Current
         /\ call'.op = call.op /\ call'.undo = call.undo
         /\ \/ /\ call'.outcome = "stopped"
               /\ call'.failed = call.failed /\ call'.sound = call.sound
            \/ call'.outcome = "raised" /\ call'.failed /\ ~call'.sound
            \/ /\ call'.outcome = "raised" /\ call'.op = "impair"
               /\ (call.failed => call'.failed) /\ call'.sound = call.sound
         /\ UNCHANGED <<space, link, netem, tunnel, key, echo, told>>
         /\ faults' \in 0 .. MaxFaults /\ faults <= faults'
<1>1. call \in Call /\ faults \in 0 .. MaxFaults /\ 1 <= Last("idle") /\ "idle" \notin Sweeping
      /\ "impair" \notin Building /\ call.failed \in BOOLEAN
  BY Lengths, StageNames DEF TypeOK, Call
<1>2. CASE CleanupRaises
  <2> DEFINE c == [call EXCEPT !.failed = TRUE, !.sound = FALSE]
  <2>1. [call EXCEPT !.failed = TRUE, !.sound = FALSE] \in Call
    BY <1>1, Flags
  <2>2. /\ c.op = call.op /\ c.undo = call.undo /\ c.failed = TRUE /\ c.sound = FALSE
        /\ c.setups = call.setups
    BY <1>1 DEF Call
  <2>3. c \in Call /\ call' = Ended(c, "raised")
    BY <1>2, <2>1 DEF CleanupRaises
  <2> HIDE DEF c
  <2>4. /\ call' \in Call /\ call'.n = 1 /\ call'.stage = "idle" /\ call'.outcome = "raised"
        /\ Same(c, call')
    BY <2>3, EndedIs
  <2>5. faults' \in 0 .. MaxFaults /\ faults <= faults'
    BY <1>1, <1>2, Lengths DEF CleanupRaises
  <2> QED
    BY <1>1, <1>2, <2>2, <2>4, <2>5 DEF CleanupRaises, CallOK, Current, Same, network, Idle
<1>3. CASE Stopped
  <2>1. /\ call' \in Call /\ call'.n = 1 /\ call'.stage = "idle" /\ call'.outcome = "stopped"
        /\ Same(call, call')
    BY <1>1, <1>3, EndedIs DEF Stopped
  <2> QED
    BY <1>1, <1>3, <2>1 DEF Stopped, CallOK, Current, Same, network, Idle
<1>4. CASE CommandRefused /\ At("impair")
  <2>1. call' = Raised(call) /\ call.stage \notin Building
    BY <1>1, <1>4 DEF CommandRefused, At
  <2>2. /\ call' \in Call /\ call'.n = 1 /\ call'.stage = "idle" /\ call'.outcome = "raised"
        /\ call'.op = call.op
        /\ call'.setups = call.setups /\ call'.failed = call.failed
        /\ call'.undo = call.undo /\ call'.sound = call.sound
    BY <1>1, <2>1, RaisedIs
  <2> QED
    BY <1>1, <1>4, <2>2 DEF CommandRefused, CallOK, Current, network, Idle, At
<1>5. CASE CommandFails /\ At("impair")
  <2> DEFINE c == [call EXCEPT !.failed = TRUE]
  <2>1. [call EXCEPT !.failed = TRUE] \in Call
    BY <1>1, Flags
  <2>2. /\ c.op = call.op /\ c.undo = call.undo /\ c.failed = TRUE /\ c.sound = call.sound
        /\ c.setups = call.setups /\ c.stage = call.stage
    BY <1>1 DEF Call
  <2>3. c \in Call /\ call' = Raised(c)
    BY <1>5, <2>1 DEF CommandFails
  <2> HIDE DEF c
  <2>4. c.stage \notin Building
    BY <1>1, <1>5, <2>2 DEF At
  <2>5. /\ call' \in Call /\ call'.n = 1 /\ call'.stage = "idle" /\ call'.outcome = "raised"
        /\ call'.op = c.op
        /\ call'.setups = c.setups /\ call'.failed = c.failed
        /\ call'.undo = c.undo /\ call'.sound = c.sound
    BY <2>3, <2>4, RaisedIs
  <2>6. faults' \in 0 .. MaxFaults /\ faults <= faults'
    BY <1>1, <1>5, Lengths DEF CommandFails
  <2> QED
    BY <1>1, <1>5, <2>2, <2>5, <2>6 DEF CommandFails, CallOK, Current, network, Idle, At
<1> QED
  BY <1>2, <1>3, <1>4, <1>5 DEF Breaks

\* A command of setup raises: its clean-up begins.
Undoes == (CommandRefused \/ CommandFails) /\ call.stage \in Building

LEMMA UndoesEffect ==
  ASSUME TypeOK, Undoes
  PROVE  /\ CallOK' /\ call'.stage = "stop" /\ call'.n = 1 /\ Current' = Current
         /\ call'.op = call.op /\ call'.undo /\ call'.sound /\ call'.outcome = call.outcome
         /\ call'.failed \/ (CommandRefused /\ call'.failed = call.failed)
         /\ UNCHANGED <<space, link, netem, tunnel, key, echo, told>>
         /\ faults' \in 0 .. MaxFaults /\ faults <= faults'
<1>1. call \in Call /\ faults \in 0 .. MaxFaults /\ 1 <= Last("stop") /\ call.stage \in Building
  BY Lengths DEF TypeOK, Undoes
<1>2. CASE CommandRefused
  <2>1. call' = Raised(call)
    BY <1>2 DEF CommandRefused
  <2>2. /\ call' \in Call /\ call'.n = 1 /\ call'.stage = "stop" /\ call'.undo /\ call'.sound
        /\ call'.outcome = call.outcome /\ call'.op = call.op
        /\ call'.setups = call.setups /\ call'.failed = call.failed
    BY <1>1, <2>1, RaisedIs
  <2> QED
    BY <1>1, <1>2, <2>2 DEF CommandRefused, CallOK, Current, network
<1>3. CASE CommandFails
  <2> DEFINE c == [call EXCEPT !.failed = TRUE]
  <2>1. [call EXCEPT !.failed = TRUE] \in Call
    BY <1>1, Flags
  <2>2. /\ c.op = call.op /\ c.failed = TRUE /\ c.setups = call.setups /\ c.stage = call.stage
        /\ c.outcome = call.outcome
    BY <1>1 DEF Call
  <2>3. c \in Call /\ call' = Raised(c)
    BY <1>3, <2>1 DEF CommandFails
  <2> HIDE DEF c
  <2>4. /\ call' \in Call /\ call'.n = 1 /\ call'.stage = "stop" /\ call'.undo /\ call'.sound
        /\ call'.outcome = c.outcome /\ call'.op = c.op
        /\ call'.setups = c.setups /\ call'.failed = c.failed
    BY <1>1, <2>2, <2>3, RaisedIs
  <2>5. faults' \in 0 .. MaxFaults /\ faults <= faults'
    BY <1>1, <1>3, Lengths DEF CommandFails
  <2> QED
    BY <1>1, <1>3, <2>2, <2>4, <2>5 DEF CommandFails, CallOK, Current, network
<1> QED
  BY <1>2, <1>3 DEF Undoes

-----------------------------------------------------------------------------
(***************************************************************************)
(* What the steps do to the network.                                       *)
(***************************************************************************)
LEMMA Shapes ==
  ASSUME TypeOK
  PROVE  /\ \A s \in Side : space[s] \in Setup \cup {None}
         /\ \A p \in Path, s \in Side : link[p][s] \in -MaxSetups .. MaxSetups
         /\ \A p \in Path : link[p]["client"] = None <=> link[p]["server"] = None
         /\ Side = {"client", "server"} /\ None = 0 /\ None \notin echo
         /\ call.setups \in Nat /\ call.setups <= MaxSetups
BY Lengths DEF TypeOK, Side, None, Setup, Call

LEMMA UnlinkEffect ==
  ASSUME TypeOK, NEW P, Unlink(P)
  PROVE  /\ link' \in [Path -> [Side -> -MaxSetups .. MaxSetups]]
         /\ netem' \in [Path -> [Side -> 0 .. Levels \cup {Unset}]]
         /\ \A p \in Path, s \in Side :
               /\ link'[p][s] = IF p \in P THEN None ELSE link[p][s]
               /\ netem'[p][s] = IF p \in P THEN Unset ELSE netem[p][s]
<1>1. None \in -MaxSetups .. MaxSetups
  BY Lengths DEF None
<1> QED
  BY <1>1 DEF Unlink, TypeOK


\* The steps that leave the network, the keys and the processes alone.
Quiet == Starts \/ AssertClean \/ Missed \/ Breaks \/ Undoes

\* The steps that are commands of a call.
Works == \/ StopProcesses \/ DropNamespace \/ DeleteLink \/ UnlinkKey
         \/ PrepareKey \/ AddNamespace \/ AddWire \/ MoveEnd \/ AddTunnel \/ ConfigurePeer
         \/ ImpairFresh \/ ImpairEnd

LEMMA Steps ==
  ASSUME [Next]_vars
  PROVE  \/ Quiet \/ Works \/ Serve \/ Exit
         \/ UNCHANGED <<space, link, netem, tunnel, key, echo, call, told, faults>>
<1>1. CASE CommandRefused
  <2>1. call.stage \in {"spaces", "path", "impair"}
    BY <1>1 DEF CommandRefused, Refused, At, Doing
  <2> QED
    BY <1>1, <2>1, StageNames DEF Quiet, Breaks, Undoes, At
<1>2. CASE CommandFails
  <2>1. call.stage \in Building \cup {"impair"}
    BY <1>2 DEF CommandFails
  <2> QED
    BY <1>2, <2>1 DEF Quiet, Breaks, Undoes, At
<1>3. CASE Next /\ ~CommandRefused /\ ~CommandFails
  BY <1>3 DEF Next, Quiet, Works, Starts, Breaks
<1>4. CASE UNCHANGED vars
  BY <1>4 DEF vars, network
<1> QED
  BY <1>1, <1>2, <1>3, <1>4

LEMMA QuietEffect ==
  ASSUME TypeOK, Quiet, call.stage = "impair" => call.op = "impair"
  PROVE  /\ CallOK' /\ call'.setups \in {Current, Current + 1}
         /\ UNCHANGED <<space, link, netem, tunnel, key, echo>>
         /\ told' \in [Path -> 0 .. Levels \cup {Unset}]
         /\ \A p \in Path : told'[p] \in {told[p], Unset}
         /\ faults' \in 0 .. MaxFaults
<1>1. faults \in 0 .. MaxFaults /\ told \in [Path -> 0 .. Levels \cup {Unset}]
  BY DEF TypeOK
<1>2. CASE Starts
  BY <1>1, <1>2, StartsEffect DEF Current
<1>3. CASE AssertClean
  BY <1>1, <1>3, AssertCleanEffect DEF Current
<1>4. CASE Missed
  BY <1>1, <1>4, MissedEffect DEF Current
<1>5. CASE Breaks
  BY <1>1, <1>5, BreaksEffect DEF Current
<1>6. CASE Undoes
  BY <1>1, <1>6, UndoesEffect DEF Current
<1> QED
  BY <1>2, <1>3, <1>4, <1>5, <1>6 DEF Quiet

LEMMA WorksEffect ==
  ASSUME TypeOK, Works
  PROVE  call' = Advance(call) /\ ~Idle /\ CallOK /\ faults' = faults
<1>1. CallOK
  BY DEF TypeOK, CallOK
<1>2. At("stop") \/ At("drop") \/ At("links") \/ At("unlink") \/ At("keys") \/ At("spaces")
      \/ At("path") \/ At("impair") => ~Idle
  BY DEF At, Idle
<1>3. CASE StopProcesses
  BY <1>1, <1>2, <1>3 DEF StopProcesses
<1>4. CASE DropNamespace
  BY <1>1, <1>2, <1>4 DEF DropNamespace
<1>5. CASE DeleteLink
  BY <1>1, <1>2, <1>5 DEF DeleteLink
<1>6. CASE UnlinkKey
  BY <1>1, <1>2, <1>6 DEF UnlinkKey
<1>7. CASE PrepareKey
  BY <1>1, <1>2, <1>7 DEF PrepareKey
<1>8. CASE AddNamespace
  BY <1>1, <1>2, <1>8 DEF AddNamespace
<1>9. CASE AddWire \/ MoveEnd
  BY <1>1, <1>2, <1>9 DEF AddWire, MoveEnd, Doing
<1>10. CASE AddTunnel \/ ConfigurePeer
  BY <1>1, <1>2, <1>10 DEF AddTunnel, ConfigurePeer, Doing
<1>11. CASE ImpairFresh \/ ImpairEnd
  BY <1>1, <1>2, <1>11 DEF ImpairFresh, ImpairEnd, Doing
<1> QED
  BY <1>3, <1>4, <1>5, <1>6, <1>7, <1>8, <1>9, <1>10, <1>11 DEF Works

\* Where a command of a building or sweeping stage is.
LEMMA Places ==
  ASSUME TypeOK
  PROVE  /\ call.stage \in {"links", "unlink", "keys"} =>
              /\ PathOf(call.n) \in Path /\ SideOf(call.n) \in Side
              /\ SideOf(call.n) = "client" => call.n = 2 * PathOf(call.n) - 1
              /\ SideOf(call.n) = "server" => call.n = 2 * PathOf(call.n)
         /\ call.stage \in {"drop", "spaces", "impair"} =>
              /\ call.n \in {1, 2}
              /\ SideOf(call.n) = IF call.n = 1 THEN "client" ELSE "server"
         /\ call.stage = "path" =>
              /\ Of \in Path /\ On \in Side /\ Nth \in 1 .. 9
              /\ On = IF Nth \in {3, 5, 7, 9} THEN "server" ELSE "client"
              /\ Doing("wire") <=> Nth = 1
              /\ Doing("move") <=> Nth \in {2, 3}
              /\ Doing("tunnel") <=> Nth \in {4, 5}
              /\ Doing("peer") <=> Nth \in {6, 7}
              /\ Doing("netem") <=> Nth \in {8, 9}
         /\ call.path \in Path /\ call.level \in 0 .. Levels /\ call.n \in Nat /\ call.n >= 1
<1>1. call.n \in Nat /\ call.n >= 1 /\ call.n <= Last(call.stage)
      /\ call.path \in Path /\ call.level \in 0 .. Levels
  BY DEF TypeOK, Call
<1>2. CASE call.stage \in {"links", "unlink", "keys"}
  <2>1. call.n <= 2 * Paths
    BY <1>1, <1>2, Lengths
  <2> QED
    BY <1>1, <1>2, <2>1, EndPlace
<1>3. CASE call.stage \in {"drop", "spaces", "impair"}
  <2>1. call.n \in {1, 2}
    BY <1>1, <1>3, Lengths
  <2> QED
    BY <1>1, <1>3, <2>1 DEF SideOf
<1>4. CASE call.stage = "path"
  <2>1. call.n <= 9 * Paths
    BY <1>1, <1>4, Lengths
  <2>2. Of \in Path /\ Nth \in 1 .. 9
    BY <1>1, <2>1, CommandPlace DEF Of, Nth
  <2>3. /\ On = IF Nth \in {3, 5, 7, 9} THEN "server" ELSE "client"
        /\ Doing("wire") <=> Nth = 1
        /\ Doing("move") <=> Nth \in {2, 3}
        /\ Doing("tunnel") <=> Nth \in {4, 5}
        /\ Doing("peer") <=> Nth \in {6, 7}
        /\ Doing("netem") <=> Nth \in {8, 9}
    BY <1>1, <1>4, <2>1, Commands DEF On, Nth, Doing, At
  <2> QED
    BY <1>1, <1>4, <2>2, <2>3 DEF Side
<1> QED
  BY <1>1, <1>2, <1>3, <1>4


-----------------------------------------------------------------------------
(***************************************************************************)
(* The inductive invariant is kept, part by part.                          *)
(***************************************************************************)
LEMMA InSetup ==
  ASSUME IInv, call.stage \in Building
  PROVE  /\ call.op = "setup" /\ ~call.undo /\ Current > 0 /\ Current \in Setup
         /\ Current = call.setups
         /\ \A p \in Path, s \in Side : <<Current, p, s>> \in Key /\ Other(s) \in Side
BY Shapes DEF IInv, Calls, Current, Setup, Key, Other, Side

LEMMA StepType ==
  ASSUME IInv, [Next]_vars
  PROVE  TypeOK'
<1>1. TypeOK /\ (call.stage = "impair" => call.op = "impair")
  BY DEF IInv, Calls
<1>2. CASE Quiet
  BY <1>1, <1>2, QuietEffect DEF TypeOK, CallOK
<1>3. CASE Works
  <2>1. /\ call' \in Call /\ call'.n <= Last(call'.stage) /\ faults' \in 0 .. MaxFaults
    BY <1>1, <1>3, WorksEffect, Onward DEF CallOK, TypeOK
  <2>2. CASE StopProcesses
    BY <1>1, <2>1, <2>2 DEF StopProcesses, TypeOK, network
  <2>3. CASE DropNamespace
    <3> DEFINE s == SideOf(call.n)
               held == s = "server" /\ space[s] \in echo
               gone == {p \in Path : ~held /\ space[s] # None /\ link[p][s] = space[s]}
    <3>1. /\ space' = [space EXCEPT ![s] = None] /\ Unlink(gone)
          /\ tunnel' = [p \in Path |-> [tunnel[p] EXCEPT ![s] = NoTunnel]]
          /\ UNCHANGED <<key, echo, told>>
      BY <2>3 DEF DropNamespace
    <3>2. NoTunnel \in [own : Key \cup {NoKey}, peer : Key \cup {NoKey}, there : BOOLEAN]
      BY DEF NoTunnel
    <3> HIDE DEF s, gone
    <3>3. /\ link' \in [Path -> [Side -> -MaxSetups .. MaxSetups]]
          /\ netem' \in [Path -> [Side -> 0 .. Levels \cup {Unset}]]
          /\ \A p \in Path : link'[p]["client"] = None <=> link'[p]["server"] = None
      BY <1>1, <3>1, UnlinkEffect, Shapes
    <3> QED
      BY <1>1, <2>1, <3>1, <3>2, <3>3 DEF TypeOK
  <2>4. CASE DeleteLink
    <3> DEFINE P == {p \in {PathOf(call.n)} : InRoot(p, SideOf(call.n))}
    <3>1. Unlink(P) /\ UNCHANGED <<space, tunnel, key, echo, told>>
      BY <2>4 DEF DeleteLink
    <3> HIDE DEF P
    <3>2. /\ link' \in [Path -> [Side -> -MaxSetups .. MaxSetups]]
          /\ netem' \in [Path -> [Side -> 0 .. Levels \cup {Unset}]]
          /\ \A p \in Path : link'[p]["client"] = None <=> link'[p]["server"] = None
      BY <1>1, <3>1, UnlinkEffect, Shapes
    <3> QED
      BY <1>1, <2>1, <3>1, <3>2 DEF TypeOK
  <2>5. CASE UnlinkKey
    BY <1>1, <2>1, <2>5 DEF UnlinkKey, TypeOK, network
  <2>6. CASE PrepareKey
    <3>1. call.stage \in Building /\ call.stage = "keys"
      BY <2>6, StageNames DEF PrepareKey, At
    <3>2. PathOf(call.n) \in Path /\ SideOf(call.n) \in Side
      BY <1>1, <3>1, Places
    <3>3. key' = [key EXCEPT ![PathOf(call.n)][SideOf(call.n)] =
                     <<call.setups, PathOf(call.n), SideOf(call.n)>>]
      BY <2>6 DEF PrepareKey
    <3>4. <<call.setups, PathOf(call.n), SideOf(call.n)>> \in Key
      BY <3>1, <3>2, InSetup
    <3>5. key' \in [Path -> [Side -> Key \cup {NoKey}]]
      BY <1>1, <3>2, <3>3, <3>4 DEF TypeOK
    <3> QED
      BY <1>1, <2>1, <2>6, <3>5 DEF PrepareKey, TypeOK, network
  <2>7. CASE AddNamespace
    <3>1. call.stage \in Building /\ call.setups \in Setup
      BY <2>7, StageNames, InSetup DEF AddNamespace, At
    <3> QED
      BY <1>1, <2>1, <2>7, <3>1 DEF AddNamespace, TypeOK
  <2>8. CASE AddWire \/ MoveEnd \/ AddTunnel \/ ConfigurePeer \/ ImpairFresh
    <3>1. call.stage = "path" /\ call.stage \in Building
      BY <2>8, StageNames DEF AddWire, MoveEnd, AddTunnel, ConfigurePeer, ImpairFresh, Doing, At
    <3>2. Of \in Path /\ On \in Side /\ call.setups \in Setup /\ <<call.setups, Of, Other(On)>> \in Key
          /\ call.setups > 0
      BY <1>1, <3>1, Places, InSetup
    <3>3. CASE AddWire
      <4>1. -call.setups \in -MaxSetups .. MaxSetups
        BY <1>1, <3>2, Shapes, Lengths
      <4>2. link' \in [Path -> [Side -> -MaxSetups .. MaxSetups]]
        BY <1>1, <3>2, <3>3, <4>1 DEF AddWire, TypeOK
      <4>3. \A p \in Path : link'[p]["client"] = None <=> link'[p]["server"] = None
        BY <1>1, <3>2, <3>3, Shapes DEF AddWire, TypeOK
      <4> QED
        BY <1>1, <2>1, <3>3, <4>2, <4>3 DEF AddWire, TypeOK
    <3>4. CASE MoveEnd
      <4>1. space[On] \in -MaxSetups .. MaxSetups
        BY <1>1, <3>2, Shapes, Lengths DEF Setup
      <4>2. link' \in [Path -> [Side -> -MaxSetups .. MaxSetups]]
        BY <1>1, <3>2, <3>4, <4>1 DEF MoveEnd, TypeOK
      <4>3. \A p \in Path : link'[p]["client"] = None <=> link'[p]["server"] = None
        BY <1>1, <3>2, <3>4, Shapes DEF MoveEnd, TypeOK, InRoot
      <4> QED
        BY <1>1, <2>1, <3>4, <4>2, <4>3 DEF MoveEnd, TypeOK
    <3>5. CASE AddTunnel \/ ConfigurePeer
      <4> DEFINE Tunnel == [own : Key \cup {NoKey}, peer : Key \cup {NoKey}, there : BOOLEAN]
      <4>1. PICK t \in Tunnel : tunnel' = [tunnel EXCEPT ![Of][On] = t]
        <5>1. [NoTunnel EXCEPT !.there = TRUE] \in Tunnel
          BY DEF NoTunnel
        <5>2. key[Of][On] \in Key \cup {NoKey}
          BY <1>1, <3>2 DEF TypeOK
        <5>3. [own |-> key[Of][On], there |-> TRUE, peer |-> <<call.setups, Of, Other(On)>>] \in Tunnel
          BY <3>2, <5>2
        <5> QED
          BY <3>5, <5>1, <5>3 DEF AddTunnel, ConfigurePeer
      <4>2. tunnel' \in [Path -> [Side -> Tunnel]]
        BY <1>1, <3>2, <4>1 DEF TypeOK
      <4> QED
        BY <1>1, <2>1, <3>5, <4>2 DEF AddTunnel, ConfigurePeer, TypeOK
    <3>6. CASE ImpairFresh
      <4>1. netem' \in [Path -> [Side -> 0 .. Levels \cup {Unset}]]
        BY <1>1, <3>2, <3>6, Lengths DEF ImpairFresh, TypeOK
      <4>2. told' \in [Path -> 0 .. Levels \cup {Unset}]
        BY <1>1, <3>6, Lengths DEF ImpairFresh, TypeOK
      <4> QED
        BY <1>1, <2>1, <3>6, <4>1, <4>2 DEF ImpairFresh, TypeOK
    <3> QED
      BY <2>8, <3>3, <3>4, <3>5, <3>6
  <2>9. CASE ImpairEnd
    <3>1. /\ call.path \in Path /\ call.level \in 0 .. Levels /\ SideOf(call.n) \in Side
      BY <1>1, <2>9, Places DEF ImpairEnd, At, Side
    <3>2. netem' \in [Path -> [Side -> 0 .. Levels \cup {Unset}]]
      BY <1>1, <2>9, <3>1 DEF ImpairEnd, TypeOK
    <3>3. told' \in [Path -> 0 .. Levels \cup {Unset}]
      BY <1>1, <2>9, <3>1 DEF ImpairEnd, TypeOK
    <3> QED
      BY <1>1, <2>1, <2>9, <3>2, <3>3 DEF ImpairEnd, TypeOK
  <2> QED
    BY <1>3, <2>2, <2>3, <2>4, <2>5, <2>6, <2>7, <2>8, <2>9 DEF Works
<1>4. CASE Serve
  <2>1. space["server"] \in Setup
    BY <1>1, <1>4, Shapes DEF Serve
  <2> QED
    BY <1>1, <1>4, <2>1 DEF Serve, TypeOK, network
<1>5. CASE Exit
  <2>1. PICK e \in echo : echo' = echo \ {e}
                          /\ Unlink({p \in Path : link[p]["server"] = e /\ space["server"] # e})
    BY <1>5 DEF Exit
  <2> DEFINE P == {p \in Path : link[p]["server"] = e /\ space["server"] # e}
  <2>2. Unlink(P)
    BY <2>1
  <2> HIDE DEF P
  <2>3. /\ link' \in [Path -> [Side -> -MaxSetups .. MaxSetups]]
        /\ netem' \in [Path -> [Side -> 0 .. Levels \cup {Unset}]]
        /\ \A p \in Path : link'[p]["client"] = None <=> link'[p]["server"] = None
    BY <1>1, <2>2, UnlinkEffect, Shapes
  <2> QED
    BY <1>1, <1>5, <2>1, <2>3 DEF Exit, TypeOK
<1>6. CASE UNCHANGED <<space, link, netem, tunnel, key, echo, call, told, faults>>
  BY <1>1, <1>6 DEF TypeOK
<1> QED
  BY <1>2, <1>3, <1>4, <1>5, <1>6, Steps


\* The points at which the network changes.
LEMMA DropEffect ==
  ASSUME TypeOK, DropNamespace
  PROVE  LET s == SideOf(call.n)
             held == s = "server" /\ space[s] \in echo
         IN  /\ call.stage = "drop" /\ call.n \in {1, 2} /\ s = IF call.n = 1 THEN "client" ELSE "server"
             /\ \A t \in Side : space'[t] = IF t = s THEN None ELSE space[t]
             /\ \A p \in Path, t \in Side :
                   /\ tunnel'[p][t] = IF t = s THEN NoTunnel ELSE tunnel[p][t]
                   /\ IF ~held /\ space[s] # None /\ link[p][s] = space[s]
                      THEN link'[p][t] = None /\ netem'[p][t] = Unset
                      ELSE link'[p][t] = link[p][t] /\ netem'[p][t] = netem[p][t]
             /\ UNCHANGED <<key, echo, told>>
<1> DEFINE s == SideOf(call.n)
           held == s = "server" /\ space[s] \in echo
           gone == {p \in Path : ~held /\ space[s] # None /\ link[p][s] = space[s]}
<1>1. call.stage = "drop" /\ call.n \in {1, 2} /\ s = IF call.n = 1 THEN "client" ELSE "server"
  BY Places DEF DropNamespace, At
<1>2. /\ space' = [space EXCEPT ![s] = None] /\ Unlink(gone)
      /\ tunnel' = [p \in Path |-> [tunnel[p] EXCEPT ![s] = NoTunnel]]
      /\ UNCHANGED <<key, echo, told>>
  BY DEF DropNamespace
<1>3. \A p \in Path : p \in gone <=> ~held /\ space[s] # None /\ link[p][s] = space[s]
  OBVIOUS
<1> HIDE DEF s, held, gone
<1>4. \A p \in Path, t \in Side : /\ link'[p][t] = IF p \in gone THEN None ELSE link[p][t]
                                  /\ netem'[p][t] = IF p \in gone THEN Unset ELSE netem[p][t]
  BY <1>2, UnlinkEffect
<1>5. /\ \A t \in Side : space'[t] = IF t = s THEN None ELSE space[t]
      /\ \A p \in Path, t \in Side : tunnel'[p][t] = IF t = s THEN NoTunnel ELSE tunnel[p][t]
  BY <1>2 DEF TypeOK
<1> QED
  BY <1>1, <1>2, <1>3, <1>4, <1>5 DEF s, held

LEMMA DeleteEffect ==
  ASSUME TypeOK, DeleteLink
  PROVE  /\ call.stage = "links" /\ PathOf(call.n) \in Path /\ SideOf(call.n) \in Side
         /\ \A p \in Path, t \in Side :
               IF p = PathOf(call.n) /\ link[p][SideOf(call.n)] < 0
               THEN link'[p][t] = None /\ netem'[p][t] = Unset
               ELSE link'[p][t] = link[p][t] /\ netem'[p][t] = netem[p][t]
         /\ UNCHANGED <<space, tunnel, key, echo, told>>
<1> DEFINE P == {p \in {PathOf(call.n)} : InRoot(p, SideOf(call.n))}
<1>1. Unlink(P) /\ UNCHANGED <<space, tunnel, key, echo, told>> /\ call.stage = "links"
  BY DEF DeleteLink, At
<1>2. PathOf(call.n) \in Path /\ SideOf(call.n) \in Side
  BY <1>1, Places
<1>3. \A p \in Path : p \in P <=> p = PathOf(call.n) /\ link[p][SideOf(call.n)] < 0
  BY DEF InRoot
<1> HIDE DEF P
<1>4. \A p \in Path, t \in Side : /\ link'[p][t] = IF p \in P THEN None ELSE link[p][t]
                                  /\ netem'[p][t] = IF p \in P THEN Unset ELSE netem[p][t]
  BY <1>1, UnlinkEffect
<1> QED
  BY <1>1, <1>2, <1>3, <1>4

LEMMA ExitEffect ==
  ASSUME TypeOK, Exit
  PROVE  \E e \in echo :
         /\ echo' = echo \ {e} /\ e > 0
         /\ \A p \in Path, t \in Side :
               IF link[p]["server"] = e /\ space["server"] # e
               THEN link'[p][t] = None /\ netem'[p][t] = Unset
               ELSE link'[p][t] = link[p][t] /\ netem'[p][t] = netem[p][t]
         /\ UNCHANGED <<space, tunnel, key, call, told, faults>>
<1>1. PICK e \in echo : echo' = echo \ {e}
                        /\ Unlink({p \in Path : link[p]["server"] = e /\ space["server"] # e})
  BY DEF Exit
<1> DEFINE P == {p \in Path : link[p]["server"] = e /\ space["server"] # e}
<1>2. Unlink(P) /\ \A p \in Path : p \in P <=> link[p]["server"] = e /\ space["server"] # e
  BY <1>1
<1>3. e > 0
  BY <1>1, Lengths DEF TypeOK, Setup
<1> HIDE DEF P
<1>4. \A p \in Path, t \in Side : /\ link'[p][t] = IF p \in P THEN None ELSE link[p][t]
                                  /\ netem'[p][t] = IF p \in P THEN Unset ELSE netem[p][t]
  BY <1>2, UnlinkEffect
<1>5. UNCHANGED <<space, tunnel, key, call, told, faults>>
  BY DEF Exit
<1> QED
  BY <1>1, <1>2, <1>3, <1>4, <1>5

LEMMA WireEffect ==
  ASSUME TypeOK, AddWire
  PROVE  /\ call.stage = "path" /\ Nth = 1 /\ Of \in Path /\ Bare(Of)
         /\ \A p \in Path, s \in Side : link'[p][s] = IF p = Of THEN -Current ELSE link[p][s]
         /\ UNCHANGED <<space, netem, tunnel, key, echo, told>>
<1>1. call.stage = "path" /\ Doing("wire")
  BY DEF AddWire, Doing, At
<1>2. Nth = 1 /\ Of \in Path
  BY <1>1, Places
<1>3. \A p \in Path, s \in Side : link'[p][s] = IF p = Of THEN -Current ELSE link[p][s]
  BY <1>2 DEF AddWire, TypeOK, Current
<1> QED
  BY <1>1, <1>2, <1>3 DEF AddWire, Bare

LEMMA MoveEffect ==
  ASSUME TypeOK, MoveEnd
  PROVE  /\ call.stage = "path" /\ Nth \in {2, 3} /\ Of \in Path
         /\ On = IF Nth = 3 THEN "server" ELSE "client"
         /\ link[Of][On] < 0 /\ space[On] # None
         /\ \A p \in Path, s \in Side :
               link'[p][s] = IF p = Of /\ s = On THEN space[On] ELSE link[p][s]
         /\ UNCHANGED <<space, netem, tunnel, key, echo, told>>
<1>1. call.stage = "path" /\ Doing("move")
  BY DEF MoveEnd, Doing, At
<1>2. Nth \in {2, 3} /\ Of \in Path /\ On = (IF Nth = 3 THEN "server" ELSE "client") /\ On \in Side
  BY <1>1, Places
<1>3. \A p \in Path, s \in Side :
         link'[p][s] = IF p = Of /\ s = On THEN space[On] ELSE link[p][s]
  BY <1>2 DEF MoveEnd, TypeOK
<1> QED
  BY <1>1, <1>2, <1>3 DEF MoveEnd, InRoot

LEMMA TunnelEffect ==
  ASSUME TypeOK, AddTunnel
  PROVE  /\ call.stage = "path" /\ Nth \in {4, 5} /\ Of \in Path
         /\ On = IF Nth = 5 THEN "server" ELSE "client"
         /\ space[On] # None
         /\ \A p \in Path, s \in Side :
               tunnel'[p][s] = IF p = Of /\ s = On THEN [NoTunnel EXCEPT !.there = TRUE] ELSE tunnel[p][s]
         /\ UNCHANGED <<space, link, netem, key, echo, told>>
<1>1. call.stage = "path" /\ Doing("tunnel")
  BY DEF AddTunnel, Doing, At
<1>2. Nth \in {4, 5} /\ Of \in Path /\ On = (IF Nth = 5 THEN "server" ELSE "client") /\ On \in Side
  BY <1>1, Places
<1> DEFINE fresh == [NoTunnel EXCEPT !.there = TRUE]
<1>3. tunnel' = [tunnel EXCEPT ![Of][On] = fresh] /\ tunnel \in [Path -> [Side ->
         [own : Key \cup {NoKey}, peer : Key \cup {NoKey}, there : BOOLEAN]]]
  BY DEF AddTunnel, TypeOK
<1> HIDE DEF fresh
<1>4. \A p \in Path, s \in Side : tunnel'[p][s] = IF p = Of /\ s = On THEN fresh ELSE tunnel[p][s]
  BY <1>2, <1>3
<1> QED
  BY <1>1, <1>2, <1>4 DEF AddTunnel, fresh

LEMMA PeerEffect ==
  ASSUME TypeOK, ConfigurePeer
  PROVE  /\ call.stage = "path" /\ Nth \in {6, 7} /\ Of \in Path
         /\ On = IF Nth = 7 THEN "server" ELSE "client"
         /\ tunnel[Of][On].there
         /\ \A p \in Path, s \in Side :
               tunnel'[p][s] = IF p = Of /\ s = On
                               THEN [own |-> key[Of][On], there |-> TRUE,
                                     peer |-> <<Current, Of, Other(On)>>]
                               ELSE tunnel[p][s]
         /\ UNCHANGED <<space, link, netem, key, echo, told>>
<1>1. call.stage = "path" /\ Doing("peer")
  BY DEF ConfigurePeer, Doing, At
<1>2. Nth \in {6, 7} /\ Of \in Path /\ On = (IF Nth = 7 THEN "server" ELSE "client") /\ On \in Side
  BY <1>1, Places
<1> DEFINE peered == [own |-> key[Of][On], there |-> TRUE, peer |-> <<Current, Of, Other(On)>>]
<1>3. tunnel' = [tunnel EXCEPT ![Of][On] = peered] /\ tunnel \in [Path -> [Side ->
         [own : Key \cup {NoKey}, peer : Key \cup {NoKey}, there : BOOLEAN]]]
  BY DEF ConfigurePeer, TypeOK, Current
<1> HIDE DEF peered
<1>4. \A p \in Path, s \in Side : tunnel'[p][s] = IF p = Of /\ s = On THEN peered ELSE tunnel[p][s]
  BY <1>2, <1>3
<1> QED
  BY <1>1, <1>2, <1>4 DEF ConfigurePeer, peered

LEMMA FreshEffect ==
  ASSUME TypeOK, ImpairFresh
  PROVE  /\ call.stage = "path" /\ Nth \in {8, 9} /\ Of \in Path
         /\ On = IF Nth = 9 THEN "server" ELSE "client"
         /\ Reachable(Of, On)
         /\ \A p \in Path, s \in Side : netem'[p][s] = IF p = Of /\ s = On THEN 0 ELSE netem[p][s]
         /\ \A p \in Path : told'[p] = IF call'.outcome = "returned" THEN 0 ELSE told[p]
         /\ UNCHANGED <<space, link, tunnel, key, echo>>
<1>1. call.stage = "path" /\ Doing("netem")
  BY DEF ImpairFresh, Doing, At
<1>2. Nth \in {8, 9} /\ Of \in Path /\ On = (IF Nth = 9 THEN "server" ELSE "client") /\ On \in Side
  BY <1>1, Places
<1>3. \A p \in Path, s \in Side : netem'[p][s] = IF p = Of /\ s = On THEN 0 ELSE netem[p][s]
  BY <1>2 DEF ImpairFresh, TypeOK
<1> QED
  BY <1>1, <1>2, <1>3 DEF ImpairFresh

LEMMA ImpairEffect ==
  ASSUME TypeOK, ImpairEnd
  PROVE  /\ call.stage = "impair" /\ call.n \in {1, 2} /\ call.path \in Path
         /\ SideOf(call.n) = IF call.n = 1 THEN "client" ELSE "server"
         /\ Reachable(call.path, SideOf(call.n))
         /\ \A p \in Path, s \in Side :
               netem'[p][s] = IF p = call.path /\ s = SideOf(call.n) THEN call.level ELSE netem[p][s]
         /\ \A p \in Path : told'[p] = IF call'.outcome = "returned" /\ p = call.path
                                       THEN call.level ELSE told[p]
         /\ UNCHANGED <<space, link, tunnel, key, echo>>
<1>1. call.stage = "impair"
  BY DEF ImpairEnd, At
<1>2. /\ call.n \in {1, 2} /\ call.path \in Path
      /\ SideOf(call.n) = (IF call.n = 1 THEN "client" ELSE "server") /\ SideOf(call.n) \in Side
  BY <1>1, Places DEF Side
<1>3. \A p \in Path, s \in Side :
         netem'[p][s] = IF p = call.path /\ s = SideOf(call.n) THEN call.level ELSE netem[p][s]
  BY <1>2 DEF ImpairEnd, TypeOK
<1>4. \A p \in Path : told'[p] = IF call'.outcome = "returned" /\ p = call.path
                                 THEN call.level ELSE told[p]
  BY <1>2 DEF ImpairEnd, TypeOK
<1> QED
  BY <1>1, <1>2, <1>3, <1>4 DEF ImpairEnd


LEMMA StepPairs ==
  ASSUME IInv, [Next]_vars
  PROVE  Pairs'
<1>1. TypeOK /\ Pairs /\ (call.stage = "impair" => call.op = "impair")
  BY DEF IInv, Calls
<1>2. Side = {"client", "server"} /\ None = 0 /\ (\A p \in Path, s \in Side : link[p][s] \in Int)
      /\ \A s \in Side : space[s] \in Nat
  BY <1>1, Shapes, Lengths DEF Setup
<1>3. CASE UNCHANGED <<space, link, echo>>
  BY <1>1, <1>3 DEF Pairs
<1>4. CASE StopProcesses
  BY <1>1, <1>2, <1>4 DEF StopProcesses, Pairs, network
<1>5. CASE DropNamespace
  BY <1>1, <1>2, <1>5, DropEffect DEF Pairs
<1>6. CASE DeleteLink
  <2>1. SUFFICES ASSUME NEW p \in Path
                 PROVE  /\ link'[p]["server"] \in {link'[p]["client"], -link'[p]["client"]}
                        /\ link'[p]["server"] > 0 => link'[p]["client"] = link'[p]["server"]
                        /\ link'[p]["client"] > 0 => space'["client"] = link'[p]["client"]
                        /\ link'[p]["server"] > 0 =>
                             space'["server"] = link'[p]["server"] \/ link'[p]["server"] \in echo'
    BY DEF Pairs
  <2>2. UNCHANGED <<space, echo>> /\ \/ \A t \in Side : link'[p][t] = 0
                                     \/ \A t \in Side : link'[p][t] = link[p][t]
    BY <1>1, <1>2, <1>6, DeleteEffect
  <2> QED
    BY <1>1, <1>2, <2>2 DEF Pairs
<1>7. CASE AddNamespace
  <2>1. UNCHANGED <<link, echo>> /\ \A s \in Side : space[s] = None \/ space'[s] = space[s]
    BY <1>1, <1>7 DEF AddNamespace, TypeOK
  <2> QED
    BY <1>1, <1>2, <2>1 DEF Pairs
<1>8. CASE AddWire
  <2>1. Current \in Nat
    BY <1>1, Shapes DEF Current
  <2>2. UNCHANGED <<space, echo>>
        /\ \A p \in Path : \/ link'[p]["server"] = -Current /\ link'[p]["client"] = -Current
                           \/ \A t \in Side : link'[p][t] = link[p][t]
    BY <1>1, <1>2, <1>8, WireEffect
  <2> QED
    BY <1>1, <1>2, <2>1, <2>2 DEF Pairs
<1>9. CASE MoveEnd
  <2>1. call.stage = "path" /\ Nth \in {2, 3} /\ Of \in Path
    BY <1>1, <1>9, MoveEffect
  <2>2. /\ \A s \in Side : space[s] = Current
        /\ Nth = 2 => \A s \in Side : link[Of][s] = -Current
        /\ Nth = 3 => link[Of]["client"] = Current /\ link[Of]["server"] = -Current
    BY <2>1 DEF IInv, Built, Partial, Joined
  <2>3. Current \in Nat /\ UNCHANGED <<space, echo>>
    BY <1>1, <1>9, Shapes, MoveEffect DEF Current
  <2>4. link'[Of]["client"] = Current /\ link'[Of]["server"] \in {Current, -Current}
        /\ \A p \in Path \ {Of}, t \in Side : link'[p][t] = link[p][t]
    BY <1>1, <1>2, <1>9, <2>1, <2>2, MoveEffect
  <2>5. ASSUME NEW p \in Path
        PROVE  /\ link'[p]["server"] \in {link'[p]["client"], -link'[p]["client"]}
               /\ link'[p]["server"] > 0 => link'[p]["client"] = link'[p]["server"]
               /\ link'[p]["client"] > 0 => space'["client"] = link'[p]["client"]
               /\ link'[p]["server"] > 0 =>
                    space'["server"] = link'[p]["server"] \/ link'[p]["server"] \in echo'
    <3>1. CASE p = Of
      BY <1>2, <2>2, <2>3, <2>4, <3>1
    <3>2. CASE p # Of
      BY <1>1, <1>2, <2>3, <2>4, <3>2 DEF Pairs
    <3> QED
      BY <3>1, <3>2
  <2> QED
    BY <2>5 DEF Pairs
<1>10. CASE Serve
  BY <1>1, <1>10 DEF Serve, Pairs, network
<1>11. CASE Exit
  <2>1. PICK e \in echo :
           /\ echo' = echo \ {e}
           /\ \A p \in Path, t \in Side :
                 IF link[p]["server"] = e /\ space["server"] # e
                 THEN link'[p][t] = None /\ netem'[p][t] = Unset
                 ELSE link'[p][t] = link[p][t] /\ netem'[p][t] = netem[p][t]
           /\ UNCHANGED <<space, tunnel, key, call, told, faults>>
    BY <1>1, <1>11, ExitEffect
  <2>2. \A p \in Path : \/ \A t \in Side : link'[p][t] = 0
                        \/ /\ \A t \in Side : link'[p][t] = link[p][t]
                           /\ link[p]["server"] # e \/ space["server"] = e
    BY <1>2, <2>1
  <2> QED
    BY <1>1, <1>2, <2>1, <2>2 DEF Pairs
<1>12. CASE Quiet
  BY <1>1, <1>3, <1>12, QuietEffect
<1>13. CASE UnlinkKey \/ PrepareKey \/ AddTunnel \/ ConfigurePeer \/ ImpairFresh \/ ImpairEnd
  BY <1>3, <1>13 DEF UnlinkKey, PrepareKey, AddTunnel, ConfigurePeer, ImpairFresh, ImpairEnd,
     network
<1> QED
  BY <1>3, <1>4, <1>5, <1>6, <1>7, <1>8, <1>9, <1>10, <1>11, <1>12, <1>13, Steps DEF Works

LEMMA StepTunnels ==
  ASSUME IInv, [Next]_vars
  PROVE  Tunnels'
<1>1. TypeOK /\ Tunnels /\ (call.stage = "impair" => call.op = "impair")
  BY DEF IInv, Calls
<1>2. CASE UNCHANGED <<space, tunnel>>
  BY <1>1, <1>2 DEF Tunnels
<1>3. CASE DropNamespace
  BY <1>1, <1>3, DropEffect DEF Tunnels
<1>4. CASE AddNamespace
  <2>1. UNCHANGED tunnel /\ \A s \in Side : space[s] = None \/ space'[s] = space[s]
    BY <1>1, <1>4 DEF AddNamespace, TypeOK
  <2> QED
    BY <1>1, <2>1 DEF Tunnels
<1>5. CASE AddTunnel
  BY <1>1, <1>5, TunnelEffect DEF Tunnels
<1>6. CASE ConfigurePeer
  <2>1. ASSUME tunnel[Of][On] = NoTunnel PROVE FALSE
    BY <1>1, <1>6, <2>1, PeerEffect DEF NoTunnel
  <2> QED
    BY <1>1, <1>6, <2>1, PeerEffect DEF Tunnels
<1>7. CASE Quiet
  BY <1>1, <1>2, <1>7, QuietEffect
<1>8. CASE StopProcesses \/ DeleteLink \/ UnlinkKey \/ PrepareKey \/ AddWire \/ MoveEnd
           \/ ImpairFresh \/ ImpairEnd \/ Serve \/ Exit
  BY <1>2, <1>8 DEF StopProcesses, DeleteLink, UnlinkKey, PrepareKey, AddWire, MoveEnd,
                    ImpairFresh, ImpairEnd, Serve, Exit, network
<1> QED
  BY <1>2, <1>3, <1>4, <1>5, <1>6, <1>7, <1>8, Steps DEF Works


\* The stages a command leads from and to.
LEMMA Course ==
  ASSUME TypeOK, Works
  PROVE  /\ Same(call, call') /\ CallOK' /\ ~Idle /\ (~Idle' => call'.outcome = call.outcome)
         /\ call'.stage \in Sweeping => call.stage \in Sweeping
         /\ call'.stage = "keys" => call.stage \in {"unlink", "keys"}
         /\ call'.stage \in Building => call.stage \in Building \/ (call.stage = "unlink" /\ call.op # "cleanup"
                                                                   /\ ~call.undo)
         /\ call'.stage = "impair" => call.stage = "impair"
         /\ call'.stage # "stop"
         /\ call'.stage = "drop" => call.stage \in {"stop", "drop"}
         /\ call'.stage = "idle" /\ call.stage = "unlink" =>
               \/ call.op = "cleanup" /\ call'.outcome = "returned"
               \/ call.op # "cleanup" /\ call.undo /\ call'.outcome = "raised"
         /\ call'.stage = "idle" => call.stage \in {"unlink", "path", "impair"}
         /\ call'.stage = "idle" /\ call.stage # "unlink" => call'.outcome = "returned"
<1>1. call' = Advance(call) /\ ~Idle /\ CallOK
  BY WorksEffect
<1>2. call.stage \in Stage \ {"idle"} /\ call.n \in Nat \ {0} /\ call.n <= Last(call.stage)
      /\ Last(call.stage) \in Nat
  BY <1>1, StageNames DEF CallOK, Call, Idle
<1>3. call.n < Last(call.stage) \/ call.n = Last(call.stage)
  BY <1>2
<1>4. call.stage = "stop" => call.n = Last(call.stage)
  BY <1>2, Lengths
<1>5. CASE call.n < Last(call.stage)
  <2>1. call'.stage = call.stage /\ Same(call, call') /\ CallOK' /\ call'.outcome = call.outcome
    BY <1>1, <1>5, Onward DEF Idle
  <2> QED
    BY <1>1, <1>2, <1>4, <1>5, <2>1, StageNames DEF Idle
<1>6. CASE call.n = Last(call.stage)
  BY <1>1, <1>2, <1>6, Onward, StageNames
<1> QED
  BY <1>3, <1>5, <1>6

LEMMA StepAges ==
  ASSUME IInv, [Next]_vars
  PROVE  Ages'
<1>1. TypeOK /\ Ages /\ Calls /\ (call.stage = "impair" => call.op = "impair")
  BY DEF IInv, Calls
<1>2. /\ Side = {"client", "server"} /\ None = 0 /\ \A p \in Path, s \in Side : link[p][s] \in Int
      /\ \A s \in Side : space[s] \in Nat
      /\ Current \in Nat
  BY <1>1, Shapes, Lengths DEF Setup, Current
<1>3. "idle" \notin Sweeping \cup {"keys"} /\ "impair" \notin Sweeping \cup {"keys"}
      /\ "path" \notin Sweeping \cup {"keys"} /\ "spaces" \notin Sweeping \cup {"keys"}
      /\ {"stop", "drop", "links", "unlink"} = Sweeping /\ "keys" \notin Sweeping
  BY StageNames
<1>4. CASE Quiet
  <2>1. CASE Starts
    BY <1>1, <1>2, <1>3, <2>1, StartsEffect DEF Ages, Old, OldLink
  <2>2. CASE AssertClean
    BY <1>1, <1>2, <1>3, <2>2, AssertCleanEffect DEF Ages, Idle
  <2>3. CASE Missed
    BY <1>1, <1>2, <1>3, <2>3, MissedEffect DEF Ages, Old, OldLink
  <2>4. CASE Breaks
    BY <1>1, <1>2, <1>3, <2>4, BreaksEffect DEF Ages, Idle
  <2>5. CASE Undoes
    BY <1>1, <1>2, <1>3, <2>5, UndoesEffect DEF Ages
  <2> QED
    BY <1>4, <2>1, <2>2, <2>3, <2>4, <2>5 DEF Quiet
<1>5. CASE Works
  <2>1. Current' = Current
    BY <1>1, <1>5, Course DEF Same, Current
  <2>2. /\ \A s \in Side : space'[s] \in {space[s], None, Current}
        /\ \A p \in Path, s \in Side :
              link'[p][s] \in {link[p][s], None, -Current} \cup {space[t] : t \in Side}
        /\ call.stage \in Sweeping \cup {"keys"} =>
              /\ \A s \in Side : space'[s] \in {space[s], None}
              /\ \A p \in Path, s \in Side : link'[p][s] \in {link[p][s], None}
    <3>1. CASE UNCHANGED <<space, link>>
      BY <3>1
    <3>2. CASE DropNamespace
      BY <1>1, <3>2, DropEffect
    <3>3. CASE DeleteLink
      BY <1>1, <3>3, DeleteEffect
    <3>4. CASE AddNamespace
      BY <1>1, <1>3, <3>4 DEF AddNamespace, At, TypeOK, Current
    <3>5. CASE AddWire
      BY <1>1, <1>3, <3>5, WireEffect
    <3>6. CASE MoveEnd
      <4>1. On \in Side
        BY <1>1, <1>2, <3>6, MoveEffect
      <4> QED
        BY <1>1, <1>3, <3>6, <4>1, MoveEffect
    <3>7. CASE StopProcesses \/ UnlinkKey \/ PrepareKey \/ AddTunnel \/ ConfigurePeer
               \/ ImpairFresh \/ ImpairEnd
      BY <3>1, <3>7 DEF StopProcesses, UnlinkKey, PrepareKey, AddTunnel, ConfigurePeer,
                        ImpairFresh, ImpairEnd, network
    <3> QED
      BY <1>5, <3>2, <3>3, <3>4, <3>5, <3>6, <3>7 DEF Works
  <2>3. /\ \A s \in Side : space'[s] <= Current
        /\ \A p \in Path, s \in Side : -Current <= link'[p][s] /\ link'[p][s] <= Current
    BY <1>1, <1>2, <2>2 DEF Ages
  <2>4. ASSUME call'.op = "setup", ~call'.undo, call'.stage \in Sweeping \cup {"keys"}
        PROVE  (\A s \in Side : space'[s] < Current) /\
               \A p \in Path, s \in Side : -Current < link'[p][s] /\ link'[p][s] < Current
    <3>1. call.op = "setup" /\ ~call.undo /\ call.stage \in Sweeping \cup {"keys"}
      BY <1>1, <1>3, <1>5, <2>4, Course DEF Same
    <3>2. (\A s \in Side : Old(s)) /\ (\A p \in Path : OldLink(p)) /\ Current > 0
      BY <1>1, <3>1 DEF Ages, Calls
    <3> QED
      BY <1>2, <2>2, <3>1, <3>2 DEF Old, OldLink
  <2> QED
    BY <2>1, <2>3, <2>4 DEF Ages, Old, OldLink
<1>6. CASE Serve
  BY <1>1, <1>6 DEF Serve, Ages, Old, OldLink, Current, network
<1>7. CASE Exit
  <2>1. UNCHANGED <<space, call>> /\ \A p \in Path, s \in Side : link'[p][s] \in {link[p][s], 0}
    BY <1>1, <1>2, <1>7, ExitEffect
  <2> QED
    BY <1>1, <1>2, <2>1 DEF Ages, Calls, Old, OldLink, Current
<1>8. CASE UNCHANGED <<space, link, netem, tunnel, key, echo, call, told, faults>>
  BY <1>1, <1>8 DEF Ages, Old, OldLink, Current
<1> QED
  BY <1>4, <1>5, <1>6, <1>7, <1>8, Steps

\* As long as no command of its last cleanup failed, a setup is refused nothing.
LEMMA NotRefused ==
  ASSUME IInv, call.stage \in Building, call.sound
  PROVE  ~Refused
<1>1. TypeOK /\ Built /\ Current > 0 /\ Current = call.setups /\ Side = {"client", "server"} /\ None = 0
      /\ Current \in Nat
  BY InSetup, Shapes DEF IInv
<1>2. CASE call.stage = "keys"
  BY <1>2 DEF Refused, Doing, At
<1>3. CASE call.stage = "spaces"
  <2>1. call.n \in {1, 2} /\ SideOf(call.n) = IF call.n = 1 THEN "client" ELSE "server"
    BY <1>1, <1>3, Places
  <2>2. space[SideOf(call.n)] = None
    BY <1>1, <1>3, <2>1 DEF Built
  <2> QED
    BY <1>3, <2>2 DEF Refused, Doing, At
<1>4. CASE call.stage = "path"
  <2>1. /\ Of \in Path /\ Nth \in 1 .. 9
        /\ On = IF Nth \in {3, 5, 7, 9} THEN "server" ELSE "client"
        /\ Doing("wire") <=> Nth = 1
        /\ Doing("move") <=> Nth \in {2, 3}
        /\ Doing("tunnel") <=> Nth \in {4, 5}
        /\ Doing("peer") <=> Nth \in {6, 7}
        /\ Doing("netem") <=> Nth \in {8, 9}
    BY <1>1, <1>4, Places
  <2>2. (\A s \in Side : space[s] = Current) /\ Partial(Of, Nth)
    BY <1>4 DEF Built, IInv
  <2>3. Nth = 1 => \A s \in Side : link[Of][s] = None
    BY <2>2 DEF Partial, Unmade, Bare
  <2>4. Nth \in {2, 3} => link[Of][On] < 0
    BY <1>1, <2>1, <2>2 DEF Partial, Joined
  <2>5. Nth \in {4, 5} => ~tunnel[Of][On].there
    <3>1. Nth = 4 => tunnel[Of]["client"] = NoTunnel
      BY <2>2 DEF Partial
    <3>2. Nth = 5 => tunnel[Of]["server"] = NoTunnel
      BY <2>2 DEF Partial
    <3> QED
      BY <2>1, <3>1, <3>2 DEF NoTunnel
  <2>6. Nth \in {6, 7} => tunnel[Of][On].there
    <3>1. Nth = 6 => tunnel[Of]["client"] = [NoTunnel EXCEPT !.there = TRUE]
      BY <2>2 DEF Partial, Bound
    <3>2. Nth = 7 => tunnel[Of]["server"] = [NoTunnel EXCEPT !.there = TRUE]
      BY <2>2 DEF Partial, Bound
    <3> QED
      BY <2>1, <3>1, <3>2 DEF NoTunnel
  <2>7. Nth \in {8, 9} => Reachable(Of, On)
    BY <1>1, <2>1, <2>2 DEF Partial, Joined, Reachable
  <2>8. On \in Side /\ space[On] = Current
    BY <1>1, <2>1, <2>2
  <2> QED
    BY <1>1, <1>4, <2>1, <2>3, <2>4, <2>5, <2>6, <2>7, <2>8 DEF Refused, InRoot, At
<1> QED
  BY <1>2, <1>3, <1>4, StageNames

LEMMA StepCalls ==
  ASSUME IInv, [Next]_vars
  PROVE  Calls'
<1>1. TypeOK /\ Calls /\ (call.stage = "impair" => call.op = "impair")
  BY DEF IInv, Calls
<1>2. /\ Building = {"keys", "spaces", "path"} /\ Sweeping = {"stop", "drop", "links", "unlink"}
      /\ Current \in Nat
  BY <1>1, StageNames, Shapes DEF Current
<1>3. CASE Starts
  BY <1>1, <1>2, <1>3, StartsEffect DEF Calls
<1>4. CASE AssertClean
  BY <1>1, <1>2, <1>4, AssertCleanEffect DEF Calls, Idle
<1>5. CASE Missed
  BY <1>1, <1>2, <1>5, MissedEffect DEF Calls, Idle
<1>6. CASE Breaks
  BY <1>1, <1>2, <1>6, BreaksEffect DEF Calls, Idle
<1>7. CASE Undoes
  <2>1. call'.failed
    <3>1. CASE CommandRefused /\ call'.failed = call.failed
      <4>1. ~call.sound
        BY <1>7, <3>1, NotRefused DEF Undoes, CommandRefused
      <4> QED
        BY <1>1, <3>1, <4>1 DEF Calls
    <3> QED
      BY <1>1, <1>7, <3>1, UndoesEffect
  <2> QED
    BY <1>1, <1>2, <1>7, <2>1, UndoesEffect DEF Calls, Undoes, Idle
<1>8. CASE Works
  BY <1>1, <1>2, <1>8, Course DEF Calls, Same, Current
<1>9. CASE UNCHANGED call
  BY <1>1, <1>9 DEF Calls, Current, Idle
<1>10. CASE Serve \/ Exit
  BY <1>9, <1>10 DEF Serve, Exit
<1> QED
  BY <1>3, <1>4, <1>5, <1>6, <1>7, <1>8, <1>9, <1>10, Steps DEF Quiet


LEMMA StepSwept ==
  ASSUME IInv, [Next]_vars
  PROVE  Swept'
<1>1. TypeOK /\ Pairs /\ Calls /\ Swept /\ (call.stage = "impair" => call.op = "impair")
  BY DEF IInv, Calls
<1>2. /\ Side = {"client", "server"} /\ None = 0 /\ \A p \in Path, s \in Side : link[p][s] \in Int
      /\ \A p \in Path : link[p]["client"] = None <=> link[p]["server"] = None
      /\ \A p \in Path : p \in 1 .. Paths
      /\ call.n \in Nat /\ call.n >= 1 /\ Paths \in Nat
  BY <1>1, Shapes, Lengths, Places DEF Path
<1>3. CASE call'.stage \notin {"drop", "links", "unlink"}
  BY <1>3 DEF Swept
<1>4. CASE Missed
  <2>1. ~call'.sound /\ (call'.stage = "unlink" => call'.n = 1)
    BY <1>1, <1>4, MissedEffect
  <2> QED
    BY <1>2, <2>1 DEF Swept
<1>5. CASE Works /\ call'.stage \in {"drop", "links", "unlink"}
  <2>1. /\ call' = Advance(call) /\ ~Idle /\ CallOK
    BY <1>1, <1>5, WorksEffect
  <2>2. /\ Same(call, call') /\ call.stage \in {"stop", "drop", "links", "unlink"}
    BY <1>1, <1>5, Course, StageNames
  <2>3. \/ call.n < Last(call.stage) /\ call'.stage = call.stage /\ call'.n = call.n + 1
        \/ /\ call.n = Last(call.stage) /\ call'.n = 1
           /\ call.stage = "stop"   => call'.stage = "drop"
           /\ call.stage = "drop"   => call'.stage = "links"
           /\ call.stage = "links"  => call'.stage = "unlink"
           /\ call.stage = "unlink" => call'.stage \in {"idle", "keys"}
    <3>1. Last(call.stage) \in Nat /\ call.n <= Last(call.stage)
      BY <2>1, <2>2, Lengths DEF CallOK
    <3> QED
      BY <1>2, <2>1, <3>1, Onward
  <2>4. CASE StopProcesses
    <3>1. /\ call.stage = "stop" /\ echo' = echo \ {space["server"]} /\ UNCHANGED <<space, link, key>>
      BY <2>4 DEF StopProcesses, At, network
    <3>2. call'.stage = "drop" /\ call'.n = 1
      BY <1>2, <2>3, <3>1, Lengths
    <3> QED
      BY <3>1, <3>2 DEF Swept
  <2>5. CASE DropNamespace
    <3>1. /\ call.stage = "drop" /\ call.n \in {1, 2} /\ UNCHANGED <<key, echo>>
          /\ call.n = 1 => space'["client"] = None /\ space'["server"] = space["server"]
          /\ call.n = 2 => space'["server"] = None /\ space'["client"] = space["client"]
      BY <1>1, <1>2, <2>5, DropEffect
    <3>2. CASE call.n = 1
      <4>1. call'.stage = "drop" /\ call'.n = 2 /\ call'.sound = call.sound
        BY <2>2, <2>3, <3>1, <3>2, Lengths DEF Same
      <4> QED
        BY <1>1, <3>1, <3>2, <4>1 DEF Swept
    <3>3. CASE call.n = 2
      <4>1. call'.stage = "links" /\ call'.n = 1 /\ call'.sound = call.sound
        BY <2>2, <2>3, <3>1, <3>3, Lengths DEF Same
      <4>2. \A p \in Path : ~(2 * p - 1 < 1)
        BY <1>2
      <4> QED
        BY <1>1, <1>2, <3>1, <3>3, <4>1, <4>2 DEF Swept
    <3> QED
      BY <3>1, <3>2, <3>3
  <2>6. CASE DeleteLink
    <3>1. call.stage = "links" /\ UNCHANGED <<space, key, echo>>
      BY <1>1, <2>6, DeleteEffect
    <3>2. call.sound => (\A s \in Side : space[s] = None) /\ \A p \in Path : 2 * p - 1 < call.n => Bare(p)
      BY <1>1, <3>1 DEF Swept
    <3>3. ASSUME call.sound, NEW p \in Path, 2 * p - 1 < call.n + 1 PROVE \A s \in Side : link'[p][s] = None
      <4>1. CASE 2 * p - 1 < call.n
        <5>1. \A s \in Side : link[p][s] = None
          BY <3>2, <3>3, <4>1 DEF Bare
        <5> QED
          BY <1>1, <1>2, <2>6, <5>1, DeleteEffect
      <4>2. CASE 2 * p - 1 = call.n
        <5>1. PathOf(call.n) = p /\ SideOf(call.n) = "client"
          BY <1>1, <1>2, <3>1, <4>2, Places DEF Path
        <5>2. link[p]["client"] <= 0
          BY <1>1, <1>2, <3>2, <3>3 DEF Pairs
        <5>3. CASE link[p]["client"] < 0
          BY <1>1, <1>2, <2>6, <5>1, <5>3, DeleteEffect
        <5>4. CASE link[p]["client"] = None
          <6>1. \A s \in Side : link[p][s] = None
            BY <1>2, <5>4
          <6> QED
            BY <1>1, <1>2, <2>6, <6>1, DeleteEffect
        <5> QED
          BY <1>2, <5>2, <5>3, <5>4
      <4> QED
        BY <1>2, <3>3, <4>1, <4>2
    <3>4. call'.sound = call.sound
      BY <2>2 DEF Same
    <3>5. CASE call.n < Last(call.stage)
      <4>1. call'.stage = "links" /\ call'.n = call.n + 1
        BY <1>2, <2>3, <3>1, <3>5, Lengths
      <4> QED
        BY <3>1, <3>2, <3>3, <3>4, <4>1 DEF Swept, Bare
    <3>6. CASE call.n = Last(call.stage)
      <4>1. call'.stage = "unlink" /\ call'.n = 1 /\ call.n = 2 * Paths
        BY <1>2, <2>3, <3>1, <3>6, Lengths
      <4>2. \A p \in Path : 2 * p - 1 < call.n + 1 /\ ~(2 * p - 1 < 1) /\ ~(2 * p < 1)
        BY <1>2, <4>1
      <4> QED
        BY <3>1, <3>2, <3>3, <3>4, <4>1, <4>2 DEF Swept, Bare
    <3> QED
      BY <2>3, <3>5, <3>6
  <2>7. CASE UnlinkKey
    <3>1. call.stage = "unlink" /\ UNCHANGED <<space, link, echo>>
          /\ key' = [key EXCEPT ![PathOf(call.n)][SideOf(call.n)] = NoKey]
      BY <2>7 DEF UnlinkKey, At, network
    <3>2. call'.stage = "unlink" /\ call'.n = call.n + 1 /\ call'.sound = call.sound
      BY <1>5, <2>2, <2>3, <3>1 DEF Same
    <3>3. /\ PathOf(call.n) \in Path /\ SideOf(call.n) \in Side
          /\ SideOf(call.n) = "client" => call.n = 2 * PathOf(call.n) - 1
          /\ SideOf(call.n) = "server" => call.n = 2 * PathOf(call.n)
      BY <1>1, <3>1, Places
    <3>4. \A p \in Path, s \in Side :
             key'[p][s] = IF p = PathOf(call.n) /\ s = SideOf(call.n) THEN NoKey ELSE key[p][s]
      BY <1>1, <3>1, <3>3 DEF TypeOK
    <3>5. /\ \A p \in Path : 2 * p - 1 < call.n => key[p]["client"] = NoKey
          /\ \A p \in Path : 2 * p < call.n => key[p]["server"] = NoKey
      BY <1>1, <3>1 DEF Swept
    <3>6. ASSUME NEW p \in Path, 2 * p - 1 < call.n + 1 PROVE key'[p]["client"] = NoKey
      <4>1. CASE 2 * p - 1 < call.n
        BY <1>2, <3>4, <3>5, <4>1
      <4>2. CASE 2 * p - 1 = call.n
        <5>1. PathOf(call.n) = p /\ SideOf(call.n) = "client"
          BY <1>2, <3>3, <4>2 DEF Path
        <5> QED
          BY <1>2, <3>4, <5>1
      <4> QED
        BY <1>2, <3>6, <4>1, <4>2
    <3>7. ASSUME NEW p \in Path, 2 * p < call.n + 1 PROVE key'[p]["server"] = NoKey
      <4>1. CASE 2 * p < call.n
        BY <1>2, <3>4, <3>5, <4>1
      <4>2. CASE 2 * p = call.n
        <5>1. PathOf(call.n) = p /\ SideOf(call.n) = "server"
          BY <1>2, <3>3, <4>2 DEF Path
        <5> QED
          BY <1>2, <3>4, <5>1
      <4> QED
        BY <1>2, <3>7, <4>1, <4>2
    <3> QED
      BY <1>1, <3>1, <3>2, <3>6, <3>7 DEF Swept, Bare
  <2>8. CASE PrepareKey \/ AddNamespace \/ AddWire \/ MoveEnd \/ AddTunnel \/ ConfigurePeer
             \/ ImpairFresh \/ ImpairEnd
    BY <2>2, <2>8 DEF PrepareKey, AddNamespace, AddWire, MoveEnd, AddTunnel, ConfigurePeer,
                      ImpairFresh, ImpairEnd, Doing, At
  <2> QED
    BY <1>5, <2>4, <2>5, <2>6, <2>7, <2>8 DEF Works
<1>6. CASE Exit
  <2>1. UNCHANGED <<space, key, call>> /\ echo' \subseteq echo
        /\ \A p \in Path, s \in Side : link'[p][s] \in {link[p][s], None}
    BY <1>1, <1>6, ExitEffect
  <2> QED
    BY <1>1, <2>1 DEF Swept, Bare
<1>7. CASE UNCHANGED <<space, link, netem, tunnel, key, echo, call, told, faults>>
  BY <1>1, <1>7 DEF Swept, Bare
<1>8. CASE Starts \/ AssertClean \/ Breaks \/ Undoes \/ Serve
  <2>1. call'.stage \in {"stop", "impair", "idle"}
    BY <1>1, <1>8, StartsEffect, AssertCleanEffect, BreaksEffect, UndoesEffect DEF Idle, Serve
  <2> QED
    BY <1>3, <2>1
<1> QED
  BY <1>3, <1>4, <1>5, <1>6, <1>7, <1>8, Steps DEF Quiet


\* From one command on the paths to the next.
LEMMA PathCourse ==
  ASSUME TypeOK, call.stage = "path", Works
  PROVE  /\ Of \in Path /\ Nth \in 1 .. 9
         /\ \/ Nth < 9 /\ call'.stage = "path" /\ Of' = Of /\ Nth' = Nth + 1
            \/ Nth = 9 /\ call'.stage = "path" /\ Of' = Of + 1 /\ Of < Paths /\ Nth' = 1
            \/ Nth = 9 /\ call'.stage = "idle" /\ Of = Paths /\ call'.outcome = "returned"
<1>1. call' = Advance(call) /\ ~Idle /\ CallOK /\ call.n \in Nat /\ call.n >= 1 /\ call.n <= 9 * Paths
      /\ Last(call.stage) = 9 * Paths
  BY WorksEffect, Places, Lengths DEF TypeOK
<1>2. /\ BuiltBy(call.n) \in Path /\ ((call.n - 1) % 9) + 1 \in 1 .. 9
      /\ ((call.n - 1) % 9) + 1 < 9 => BuiltBy(call.n + 1) = BuiltBy(call.n)
                                     /\ ((call.n + 1 - 1) % 9) + 1 = ((call.n - 1) % 9) + 2
      /\ ((call.n - 1) % 9) + 1 = 9 => BuiltBy(call.n + 1) = BuiltBy(call.n) + 1
                                     /\ ((call.n + 1 - 1) % 9) + 1 = 1
      /\ call.n = 9 * Paths => BuiltBy(call.n) = Paths /\ ((call.n - 1) % 9) + 1 = 9
      /\ call.n < 9 * Paths /\ ((call.n - 1) % 9) + 1 = 9 => BuiltBy(call.n) < Paths
  BY <1>1, CommandPlace
<1>3. CASE call.n < 9 * Paths
  <2>1. call'.stage = "path" /\ call'.n = call.n + 1
    BY <1>1, <1>3, Onward
  <2>2. Of' = BuiltBy(call.n + 1) /\ Nth' = ((call.n + 1 - 1) % 9) + 1
    BY <1>1, <2>1 DEF Of, Nth, BuiltBy
  <2>3. Nth = ((call.n - 1) % 9) + 1 /\ Of = BuiltBy(call.n)
    BY DEF Of, Nth
  <2> QED
    <3> DEFINE k == ((call.n - 1) % 9) + 1
               m == ((call.n + 1 - 1) % 9) + 1
               b == BuiltBy(call.n)
               d == BuiltBy(call.n + 1)
    <3>1. /\ b \in Path /\ k \in 1 .. 9 /\ (k < 9 => d = b /\ m = k + 1)
          /\ k = 9 => d = b + 1 /\ m = 1 /\ b < Paths
      BY <1>1, <1>2, <1>3
    <3>2. Of = b /\ Nth = k /\ Of' = d /\ Nth' = m
      BY <2>2, <2>3
    <3> HIDE DEF k, m, b, d
    <3> QED
      BY <2>1, <3>1, <3>2
<1>4. CASE call.n = 9 * Paths
  <2>1. call'.stage = "idle" /\ call'.outcome = "returned"
    BY <1>1, <1>4, Onward
  <2> QED
    BY <1>2, <1>4, <2>1 DEF Of, Nth
<1> QED
  BY <1>1, <1>3, <1>4, Lengths

\* A command for one path leaves the others as they are.
Elsewhere ==
    /\ UNCHANGED <<space, key>>
    /\ \A p \in Path, s \in Side : p # Of =>
          link'[p][s] = link[p][s] /\ tunnel'[p][s] = tunnel[p][s] /\ netem'[p][s] = netem[p][s]

LEMMA Further ==
  ASSUME IInv, call.stage = "path", Works, Elsewhere,
         \A p \in Path, k \in 1 .. 10 : p = Of /\ k = Nth + 1 => Partial(p, k)'
  PROVE  Built' /\ (call'.stage = "idle" => \A p \in Path : Made(p)')
<1>1. /\ TypeOK /\ Same(call, call') /\ Of \in Path /\ Nth \in 1 .. 9 /\ Path = 1 .. Paths /\ Paths \in Nat
      /\ \A p \in Path : p \in Nat
  BY PathCourse, Course, Lengths DEF IInv, Path
<1>2. /\ \A p \in Path, s \in Side : key[p][s] = <<Current, p, s>>
      /\ \A s \in Side : space[s] = Current
      /\ \A p \in Path : p < Of => Made(p)
      /\ \A p \in Path : p > Of => Unmade(p)
  BY DEF IInv, Built
<1>3. Current' = Current /\ call'.sound = call.sound
  BY <1>1 DEF Same, Current
<1>4. ASSUME NEW p \in Path, p # Of
      PROVE  (Made(p) => Made(p)') /\ (Unmade(p) => Unmade(p)')
  BY <1>3, <1>4 DEF Elsewhere, Made, Unmade, Joined, Knows, OldLink, Bare
<1>5. ASSUME NEW p \in Path, p = Of, Nth = 9 PROVE Made(p)'
  <2>1. Partial(p, 10)'
    BY <1>5
  <2> QED
    BY <2>1 DEF Partial, Made, Side
<1>7. /\ \A p \in Path, s \in Side : key'[p][s] = <<Current, p, s>>'
      /\ \A s \in Side : space'[s] = Current'
  BY <1>2, <1>3 DEF Elsewhere
<1>8. CASE Nth < 9 /\ call'.stage = "path" /\ Of' = Of /\ Nth' = Nth + 1
  <2>1. Partial(Of, Nth)'
    <3>1. PICK p \in Path, k \in 1 .. 10 : p = Of /\ k = Nth + 1
      BY <1>1
    <3>2. Partial(p, k)'
      BY <3>1
    <3> QED
      BY <1>8, <3>1, <3>2
  <2>2. /\ \A p \in Path : p < Of' => Made(p)'
        /\ \A p \in Path : p > Of' => Unmade(p)'
    BY <1>1, <1>2, <1>4, <1>8
  <2> QED
    BY <1>7, <1>8, <2>1, <2>2 DEF Built
<1>9. CASE Nth = 9 /\ call'.stage = "path" /\ Of' = Of + 1 /\ Of < Paths /\ Nth' = 1
  <2>1. /\ \A p \in Path : p < Of' => Made(p)'
        /\ \A p \in Path : p > Of => Unmade(p)'
    BY <1>1, <1>2, <1>4, <1>5, <1>9
  <2>2. \A p \in Path : p > Of' => Unmade(p)'
    BY <1>1, <1>9, <2>1
  <2>3. Partial(Of, Nth)'
    <3>1. PICK p \in Path : p = Of + 1
      BY <1>1, <1>9
    <3>2. Unmade(p)'
      BY <1>1, <2>1, <3>1
    <3>3. Partial(p, 1)'
      BY <3>2 DEF Partial
    <3> QED
      BY <1>9, <3>1, <3>3
  <2> QED
    BY <1>7, <1>9, <2>1, <2>2, <2>3 DEF Built
<1>10. CASE Nth = 9 /\ call'.stage = "idle" /\ Of = Paths
  <2>1. \A p \in Path : Made(p)'
    BY <1>1, <1>2, <1>4, <1>5, <1>10
  <2> QED
    BY <1>10, <2>1 DEF Built
<1> QED
  BY <1>1, <1>8, <1>9, <1>10, PathCourse


\* The nine commands, each for the next.
OnPath == AddWire \/ MoveEnd \/ AddTunnel \/ ConfigurePeer \/ ImpairFresh

LEMMA PathCommand ==
  ASSUME IInv, OnPath
  PROVE  /\ call.stage = "path" /\ Works /\ Elsewhere
         /\ \A p \in Path, k \in 1 .. 10 : p = Of /\ k = Nth + 1 => Partial(p, k)'
<1>1. TypeOK /\ Side = {"client", "server"} /\ Works
  BY Shapes DEF IInv, OnPath, Works
<1>2. call.stage = "path"
  BY DEF OnPath, AddWire, MoveEnd, AddTunnel, ConfigurePeer, ImpairFresh, Doing, At
<1>3. /\ Of \in Path /\ Nth \in 1 .. 9 /\ Partial(Of, Nth) /\ \A s \in Side : space[s] = Current
      /\ \A p \in Path, s \in Side : key[p][s] = <<Current, p, s>>
  BY <1>1, <1>2, Places DEF IInv, Built
<1>4. Current' = Current /\ call'.sound = call.sound
  BY <1>1, Course DEF Same, Current
<1>5. Nth \in {1, 2, 3, 4, 5, 6, 7, 8, 9}
  BY <1>3
<1>6. ASSUME NEW p \in Path, NEW k \in 1 .. 10, p = Of, k = Nth + 1
      PROVE  Elsewhere /\ Partial(p, k)'
  <2>0. Partial(p, Nth) /\ \A s \in Side : key[p][s] = <<Current, p, s>>
    BY <1>3, <1>6
  <2>1. CASE AddWire
    <3>1. /\ Nth = 1 /\ k = 2 /\ UNCHANGED <<space, netem, tunnel, key>>
          /\ \A q \in Path, s \in Side : link'[q][s] = IF q = p THEN -Current ELSE link[q][s]
      BY <1>1, <1>6, <2>1, WireEffect
    <3>2. \A s \in Side : tunnel[p][s] = NoTunnel
      BY <2>0, <3>1 DEF Partial, Unmade
    <3>3. Partial(p, k)'
      BY <1>1, <1>4, <3>1, <3>2 DEF Partial
    <3> QED
      BY <1>6, <3>1, <3>3 DEF Elsewhere
  <2>2. CASE MoveEnd
    <3>1. /\ Nth \in {2, 3} /\ On = (IF Nth = 3 THEN "server" ELSE "client")
          /\ UNCHANGED <<space, netem, tunnel, key>> /\ space[On] = Current
          /\ \A q \in Path, s \in Side : link'[q][s] = IF q = p /\ s = On THEN space[On] ELSE link[q][s]
      BY <1>1, <1>3, <1>6, <2>2, MoveEffect
    <3>2. CASE Nth = 2
      <4>1. k = 3 /\ link[p]["server"] = -Current /\ \A s \in Side : tunnel[p][s] = NoTunnel
        BY <1>1, <1>6, <2>0, <3>2 DEF Partial
      <4>2. link'[p]["client"] = Current /\ link'[p]["server"] = -Current
        BY <1>1, <3>1, <3>2, <4>1
      <4> QED
        BY <1>1, <1>4, <1>6, <3>1, <4>1, <4>2 DEF Partial, Joined, Elsewhere
    <3>3. CASE Nth = 3
      <4>1. k = 4 /\ link[p]["client"] = Current /\ \A s \in Side : tunnel[p][s] = NoTunnel
        BY <1>1, <1>6, <2>0, <3>3 DEF Partial, Joined
      <4>2. link'[p]["client"] = Current /\ link'[p]["server"] = Current
        BY <1>1, <3>1, <3>3, <4>1
      <4> QED
        BY <1>1, <1>4, <1>6, <3>1, <4>1, <4>2 DEF Partial, Joined, Elsewhere
    <3> QED
      BY <3>1, <3>2, <3>3
  <2>3. CASE AddTunnel
    <3> DEFINE fresh == [NoTunnel EXCEPT !.there = TRUE]
    <3>1. /\ Nth \in {4, 5} /\ On = (IF Nth = 5 THEN "server" ELSE "client")
          /\ UNCHANGED <<space, link, netem, key>>
          /\ \A q \in Path, s \in Side : tunnel'[q][s] = IF q = p /\ s = On THEN fresh ELSE tunnel[q][s]
      BY <1>1, <1>6, <2>3, TunnelEffect
    <3> HIDE DEF fresh
    <3>2. \A s \in Side : link[p][s] = Current
      BY <2>0, <3>1 DEF Partial, Joined
    <3>3. CASE Nth = 4
      <4>1. k = 5 /\ tunnel[p]["server"] = NoTunnel
        BY <1>6, <2>0, <3>3 DEF Partial
      <4>2. tunnel'[p]["client"] = fresh /\ tunnel'[p]["server"] = NoTunnel
        BY <1>1, <3>1, <3>3, <4>1
      <4>3. Partial(p, k)'
        BY <1>1, <1>4, <3>1, <3>2, <4>1, <4>2 DEF Partial, Joined, Bound, fresh
      <4> QED
        BY <1>6, <3>1, <4>3 DEF Elsewhere
    <3>4. CASE Nth = 5
      <4>1. k = 6 /\ tunnel[p]["client"] = fresh
        BY <1>6, <2>0, <3>4 DEF Partial, Bound, fresh
      <4>2. tunnel'[p]["client"] = fresh /\ tunnel'[p]["server"] = fresh
        BY <1>1, <3>1, <3>4, <4>1
      <4>3. Partial(p, k)'
        BY <1>1, <1>4, <3>1, <3>2, <4>1, <4>2 DEF Partial, Joined, Bound, fresh
      <4> QED
        BY <1>6, <3>1, <4>3 DEF Elsewhere
    <3> QED
      BY <3>1, <3>3, <3>4
  <2>4. CASE ConfigurePeer
    <3> DEFINE keyed(s) == [own |-> <<Current, p, s>>, peer |-> <<Current, p, Other(s)>>, there |-> TRUE]
    <3>1. /\ Nth \in {6, 7} /\ On = (IF Nth = 7 THEN "server" ELSE "client")
          /\ UNCHANGED <<space, link, netem, key>>
          /\ \A q \in Path, s \in Side :
                tunnel'[q][s] = IF q = p /\ s = On
                                THEN [own |-> key[p][On], there |-> TRUE, peer |-> <<Current, p, Other(On)>>]
                                ELSE tunnel[q][s]
      BY <1>1, <1>6, <2>4, PeerEffect
    <3>2. [own |-> key[p][On], there |-> TRUE, peer |-> <<Current, p, Other(On)>>] = keyed(On)
      BY <1>1, <2>0, <3>1
    <3> HIDE DEF keyed
    <3>3. \A q \in Path, s \in Side : tunnel'[q][s] = IF q = p /\ s = On THEN keyed(On) ELSE tunnel[q][s]
      BY <3>1, <3>2
    <3>4. \A s \in Side : link[p][s] = Current
      BY <2>0, <3>1 DEF Partial, Joined
    <3>5. \A s \in Side : keyed(s) = [own |-> <<Current, p, s>>', peer |-> <<Current, p, Other(s)>>',
                                      there |-> TRUE]
      BY <1>4 DEF keyed, Other
    <3>6. CASE Nth = 6
      <4>1. k = 7 /\ tunnel[p]["server"] = [NoTunnel EXCEPT !.there = TRUE]
        BY <1>6, <2>0, <3>6 DEF Partial, Bound
      <4>2. tunnel'[p]["client"] = keyed("client")
            /\ tunnel'[p]["server"] = [NoTunnel EXCEPT !.there = TRUE]
        BY <1>1, <3>1, <3>3, <3>6, <4>1
      <4>3. Partial(p, k)'
        BY <1>1, <1>4, <3>1, <3>4, <3>5, <4>1, <4>2 DEF Partial, Joined, Bound, Knows, Other
      <4> QED
        BY <1>6, <3>1, <3>3, <4>3 DEF Elsewhere
    <3>7. CASE Nth = 7
      <4>1. k = 8 /\ tunnel[p]["client"] = keyed("client")
        BY <1>6, <2>0, <3>7 DEF Partial, Knows, keyed
      <4>2. tunnel'[p]["client"] = keyed("client") /\ tunnel'[p]["server"] = keyed("server")
        BY <1>1, <3>1, <3>3, <3>7, <4>1
      <4>3. Partial(p, k)'
        BY <1>1, <1>4, <3>1, <3>4, <3>5, <4>1, <4>2 DEF Partial, Joined, Knows, Other
      <4> QED
        BY <1>6, <3>1, <3>3, <4>3 DEF Elsewhere
    <3> QED
      BY <3>1, <3>6, <3>7
  <2>5. CASE ImpairFresh
    <3>1. /\ Nth \in {8, 9} /\ On = (IF Nth = 9 THEN "server" ELSE "client")
          /\ UNCHANGED <<space, link, tunnel, key>>
          /\ \A q \in Path, s \in Side : netem'[q][s] = IF q = p /\ s = On THEN 0 ELSE netem[q][s]
      BY <1>1, <1>6, <2>5, FreshEffect
    <3>2. (\A s \in Side : Joined(p, s)) /\ Knows(p, "client") /\ Knows(p, "server")
      BY <2>0, <3>1 DEF Partial
    <3>3. Joined(p, "client")' /\ Joined(p, "server")' /\ Knows(p, "client")' /\ Knows(p, "server")'
      BY <1>1, <1>4, <3>1, <3>2 DEF Joined, Knows, Other
    <3>4. CASE Nth = 8
      <4>1. k = 9 /\ netem'[p]["client"] = 0
        BY <1>1, <1>6, <3>1, <3>4
      <4> QED
        BY <1>1, <1>6, <3>1, <3>3, <4>1 DEF Partial, Elsewhere
    <3>5. CASE Nth = 9
      <4>1. k = 10 /\ netem[p]["client"] = 0
        BY <1>6, <2>0, <3>5 DEF Partial
      <4>2. netem'[p]["client"] = 0 /\ netem'[p]["server"] = 0
        BY <1>1, <3>1, <3>5, <4>1
      <4> QED
        BY <1>1, <1>6, <3>1, <3>3, <4>1, <4>2 DEF Partial, Elsewhere
    <3> QED
      BY <3>1, <3>4, <3>5
  <2> QED
    BY <2>1, <2>2, <2>3, <2>4, <2>5 DEF OnPath
<1>7. Nth + 1 \in 1 .. 10
  BY <1>5
<1>8. Elsewhere
  BY <1>3, <1>6, <1>7
<1>9. \A p \in Path, k \in 1 .. 10 : p = Of /\ k = Nth + 1 => Partial(p, k)'
  BY <1>6
<1> QED
  BY <1>1, <1>2, <1>8, <1>9


LEMMA StepBuilt ==
  ASSUME IInv, [Next]_vars
  PROVE  Built'
<1>1. TypeOK /\ Pairs /\ Tunnels /\ Ages /\ Calls /\ Swept /\ Built
      /\ (call.stage = "impair" => call.op = "impair")
  BY DEF IInv, Calls
<1>2. /\ Side = {"client", "server"} /\ None = 0 /\ Building = {"keys", "spaces", "path"}
      /\ Sweeping = {"stop", "drop", "links", "unlink"}
      /\ call.n \in Nat /\ call.n >= 1 /\ Paths \in Nat /\ Paths >= 1 /\ Path = 1 .. Paths
      /\ Current \in Nat /\ Current = call.setups
  BY <1>1, StageNames, Shapes, Lengths, Places DEF Path, Current
<1>3. CASE call'.stage \notin Building
  BY <1>2, <1>3 DEF Built
<1>4. CASE Works /\ call'.stage \in Building
  <2>1. /\ call' = Advance(call) /\ ~Idle /\ CallOK
    BY <1>1, <1>4, WorksEffect
  <2>2. /\ Same(call, call') /\ call.stage \in {"unlink", "keys", "spaces", "path"}
    BY <1>1, <1>2, <1>4, Course
  <2>3. \/ call.n < Last(call.stage) /\ call'.stage = call.stage /\ call'.n = call.n + 1
        \/ /\ call.n = Last(call.stage) /\ call'.n = 1
           /\ call.stage = "unlink" => call'.stage \in {"idle", "keys"}
           /\ call.stage = "keys"   => call'.stage = "spaces"
           /\ call.stage = "spaces" => call'.stage = "path"
    <3>1. Last(call.stage) \in Nat /\ call.n <= Last(call.stage)
      BY <2>1, <2>2, StageNames DEF CallOK
    <3> QED
      BY <1>2, <2>1, <3>1, Onward
  <2>4. Current' = Current /\ call'.sound = call.sound
    BY <2>2 DEF Same, Current
  <2>5. CASE UnlinkKey
    <3>1. call.stage = "unlink" /\ UNCHANGED <<space, link>>
      BY <2>5 DEF UnlinkKey, At, network
    <3>2. call'.stage = "keys" /\ call'.n = 1
      BY <1>2, <1>4, <2>3, <3>1
    <3>3. call.sound => (\A s \in Side : space[s] = None) /\ \A p \in Path : Bare(p)
      BY <1>1, <3>1 DEF Swept
    <3>4. \A p \in Path : ~(2 * p - 1 < 1) /\ ~(2 * p < 1)
      BY <1>2
    <3> QED
      BY <2>4, <3>1, <3>2, <3>3, <3>4 DEF Built, Bare
  <2>6. CASE PrepareKey
    <3>1. call.stage = "keys" /\ UNCHANGED <<space, link, tunnel>>
          /\ key' = [key EXCEPT ![PathOf(call.n)][SideOf(call.n)] =
                        <<call.setups, PathOf(call.n), SideOf(call.n)>>]
      BY <2>6 DEF PrepareKey, At, network
    <3>2. /\ PathOf(call.n) \in Path /\ SideOf(call.n) \in Side
          /\ SideOf(call.n) = "client" => call.n = 2 * PathOf(call.n) - 1
          /\ SideOf(call.n) = "server" => call.n = 2 * PathOf(call.n)
      BY <1>1, <3>1, Places
    <3>3. \A p \in Path, s \in Side :
             key'[p][s] = IF p = PathOf(call.n) /\ s = SideOf(call.n) THEN <<Current, p, s>> ELSE key[p][s]
      BY <1>1, <1>2, <3>1, <3>2 DEF TypeOK
    <3>4. /\ call.sound => \A s \in Side : space[s] = None
          /\ call.sound => \A p \in Path : Bare(p)
          /\ \A p \in Path : 2 * p - 1 < call.n => key[p]["client"] = <<Current, p, "client">>
          /\ \A p \in Path : 2 * p < call.n => key[p]["server"] = <<Current, p, "server">>
      BY <1>1, <3>1 DEF Built
    <3>5. ASSUME NEW p \in Path, 2 * p - 1 < call.n + 1 PROVE key'[p]["client"] = <<Current, p, "client">>
      <4>1. CASE 2 * p - 1 < call.n
        BY <1>2, <3>3, <3>4, <4>1
      <4>2. CASE 2 * p - 1 = call.n
        <5>1. PathOf(call.n) = p /\ SideOf(call.n) = "client"
          BY <1>2, <3>2, <4>2
        <5> QED
          BY <1>2, <3>3, <5>1
      <4> QED
        BY <1>2, <3>5, <4>1, <4>2
    <3>6. ASSUME NEW p \in Path, 2 * p < call.n + 1 PROVE key'[p]["server"] = <<Current, p, "server">>
      <4>1. CASE 2 * p < call.n
        BY <1>2, <3>3, <3>4, <4>1
      <4>2. CASE 2 * p = call.n
        <5>1. PathOf(call.n) = p /\ SideOf(call.n) = "server"
          BY <1>2, <3>2, <4>2
        <5> QED
          BY <1>2, <3>3, <5>1
      <4> QED
        BY <1>2, <3>6, <4>1, <4>2
    <3>7. CASE call.n < Last(call.stage)
      <4>1. call'.stage = "keys" /\ call'.n = call.n + 1
        BY <1>2, <2>3, <3>1, <3>7, Lengths
      <4>2. /\ \A p \in Path : 2 * p - 1 < call'.n => key'[p]["client"] = <<Current, p, "client">>'
            /\ \A p \in Path : 2 * p < call'.n => key'[p]["server"] = <<Current, p, "server">>'
        BY <2>4, <3>5, <3>6, <4>1
      <4> QED
        BY <2>4, <3>1, <3>4, <4>1, <4>2 DEF Built, Bare
    <3>8. CASE call.n = Last(call.stage)
      <4>1. call'.stage = "spaces" /\ call'.n = 1 /\ call.n = 2 * Paths
        BY <1>2, <2>3, <3>1, <3>8, Lengths
      <4>2. \A p \in Path : 2 * p - 1 < call.n + 1 /\ 2 * p < call.n + 1
        BY <1>2, <4>1
      <4>3. \A p \in Path, s \in Side : key'[p][s] = <<Current, p, s>>'
        BY <1>2, <2>4, <3>5, <3>6, <4>2
      <4>4. (\A s \in Side : Old(s)) /\ \A p \in Path : OldLink(p)
        BY <1>1, <1>2, <3>1 DEF Ages, Calls
      <4>5. (\A s \in Side : Old(s)') /\ (\A p \in Path : OldLink(p)')
        BY <2>4, <3>1, <4>4 DEF Old, OldLink
      <4>6. /\ call'.sound => \A s \in Side : space'[s] = None
            /\ call'.sound => \A p \in Path : Bare(p)'
        BY <2>4, <3>1, <3>4 DEF Bare
      <4> QED
        BY <1>2, <4>1, <4>3, <4>5, <4>6 DEF Built
    <3> QED
      BY <2>3, <3>7, <3>8
  <2>7. CASE AddNamespace
    <3>1. /\ call.stage = "spaces" /\ UNCHANGED <<link, tunnel, netem, key>>
          /\ space[SideOf(call.n)] = None /\ space' = [space EXCEPT ![SideOf(call.n)] = Current]
      BY <1>2, <2>7 DEF AddNamespace, At
    <3>2. call.n \in {1, 2} /\ SideOf(call.n) = (IF call.n = 1 THEN "client" ELSE "server")
      BY <1>1, <3>1, Places
    <3>3. /\ \A p \in Path, s \in Side : key'[p][s] = <<Current, p, s>>'
          /\ Old("server") /\ (call.sound => space["server"] = None)
          /\ \A p \in Path : OldLink(p)' /\ (call'.sound => Bare(p)')
          /\ call.n = 2 => space["client"] = Current /\ \A p \in Path : tunnel[p]["client"] = NoTunnel
      BY <1>1, <2>4, <3>1 DEF Built, OldLink, Bare
    <3>4. \A p \in Path : tunnel[p][SideOf(call.n)] = NoTunnel
      BY <1>1, <1>2, <3>1, <3>2 DEF Tunnels
    <3>5. \A s \in Side : space'[s] = IF s = SideOf(call.n) THEN Current ELSE space[s]
      BY <1>1, <1>2, <3>1 DEF TypeOK
    <3>6. CASE call.n = 1
      <4>1. call'.stage = "spaces" /\ call'.n = 2
        BY <2>3, <3>1, <3>6, Lengths
      <4>2. space'["client"] = Current' /\ \A p \in Path : tunnel'[p]["client"] = NoTunnel
        BY <1>2, <2>4, <3>1, <3>2, <3>4, <3>5, <3>6
      <4>3. Old("server")' /\ (call'.sound => space'["server"] = None)
        BY <1>2, <2>4, <3>2, <3>3, <3>5, <3>6 DEF Old
      <4> QED
        BY <3>3, <4>1, <4>2, <4>3 DEF Built
    <3>7. CASE call.n = 2
      <4>1. call'.stage = "path" /\ call'.n = 1
        BY <2>3, <3>1, <3>7, Lengths
      <4>2. Of' = 1 /\ Nth' = 1
        BY <4>1 DEF Of, Nth, BuiltBy
      <4>3. \A s \in Side : space'[s] = Current'
        BY <1>2, <2>4, <3>2, <3>3, <3>5, <3>7
      <4>4. \A p \in Path, s \in Side : tunnel'[p][s] = NoTunnel
        BY <1>2, <3>1, <3>2, <3>3, <3>4, <3>7
      <4>5. \A p \in Path : Unmade(p)' /\ Partial(p, 1)'
        BY <3>3, <4>4 DEF Unmade, Partial
      <4>6. \A p \in Path : ~(p < 1) /\ 1 \in Path
        BY <1>2
      <4>7. Partial(Of, Nth)'
        <5>1. 1 \in Path
          BY <1>2
        <5>2. PICK p \in Path : p = 1
          BY <5>1
        <5> QED
          BY <4>2, <4>5, <5>2 DEF Partial
      <4> QED
        BY <3>3, <4>1, <4>2, <4>3, <4>5, <4>6, <4>7 DEF Built
    <3> QED
      BY <3>2, <3>6, <3>7
  <2>8. CASE OnPath
    BY <2>8, PathCommand, Further
  <2>9. CASE StopProcesses \/ DropNamespace \/ DeleteLink \/ ImpairEnd
    BY <2>2, <2>9 DEF StopProcesses, DropNamespace, DeleteLink, ImpairEnd, At
  <2> QED
    BY <1>4, <2>5, <2>6, <2>7, <2>8, <2>9 DEF Works, OnPath
<1>5. CASE Exit /\ call'.stage \in Building
  <2>1. PICK e \in echo :
           /\ echo' = echo \ {e} /\ e > 0
           /\ \A p \in Path, t \in Side :
                 IF link[p]["server"] = e /\ space["server"] # e
                 THEN link'[p][t] = None /\ netem'[p][t] = Unset
                 ELSE link'[p][t] = link[p][t] /\ netem'[p][t] = netem[p][t]
           /\ UNCHANGED <<space, tunnel, key, call, told, faults>>
    BY <1>1, <1>5, ExitEffect
  <2>2. Current > 0 /\ Current' = Current /\ call.stage \in Building
    BY <1>1, <1>5, <2>1 DEF Calls, Current
  <2>3. ASSUME NEW p \in Path
        PROVE  (OldLink(p) => OldLink(p)') /\ (Bare(p) => Bare(p)')
    <3>1. \A t \in Side : link'[p][t] \in {link[p][t], 0}
      BY <1>2, <2>1
    <3> QED
      BY <1>2, <2>2, <3>1 DEF OldLink, Bare
  <2>4. CASE call.stage \in {"keys", "spaces"}
    BY <1>1, <2>1, <2>2, <2>3, <2>4 DEF Built, Old
  <2>5. CASE call.stage = "path"
    <3>1. /\ \A s \in Side : space[s] = Current
          /\ \A p \in Path : p < Of => Made(p)
          /\ \A p \in Path : p > Of => Unmade(p)
          /\ Partial(Of, Nth) /\ Of \in Path /\ Nth \in 1 .. 9
      BY <1>1, <2>5, Places DEF Built
    <3>2. ASSUME NEW p \in Path, link[p]["server"] \in {Current, -Current}
          PROVE  \A t \in Side : link'[p][t] = link[p][t] /\ netem'[p][t] = netem[p][t]
      BY <1>2, <2>1, <2>2, <3>1, <3>2
    <3>3. ASSUME NEW p \in Path, p < Of PROVE Made(p)'
      <4>1. Made(p)
        BY <3>1, <3>3
      <4>2. link[p]["server"] = Current
        BY <1>2, <4>1 DEF Made, Joined
      <4>3. \A t \in Side : link'[p][t] = link[p][t] /\ netem'[p][t] = netem[p][t]
        BY <3>2, <4>2
      <4> QED
        BY <2>1, <2>2, <4>1, <4>3 DEF Made, Joined, Knows
    <3>4. \A p \in Path : Unmade(p) => Unmade(p)'
      BY <2>1, <2>3 DEF Unmade
    <3>5. ASSUME NEW p \in Path, NEW k \in 1 .. 9, Partial(p, k) PROVE Partial(p, k)'
      <4>1. CASE k = 1
        BY <3>4, <3>5, <4>1 DEF Partial
      <4>2. CASE k > 1
        <5>1. link[p]["server"] \in {Current, -Current}
          BY <1>2, <3>5, <4>2 DEF Partial, Joined
        <5>2. \A t \in Side : link'[p][t] = link[p][t] /\ netem'[p][t] = netem[p][t]
          BY <3>2, <5>1
        <5> QED
          BY <1>2, <2>1, <2>2, <3>5, <4>2, <5>2 DEF Partial, Joined, Knows, Bound
      <4> QED
        BY <4>1, <4>2
    <3>6. Of' = Of /\ Nth' = Nth
      BY <2>1 DEF Of, Nth, BuiltBy
    <3>7. Partial(Of, Nth)'
      <4>1. PICK p \in Path, k \in 1 .. 9 : p = Of /\ k = Nth
        BY <3>1
      <4> QED
        BY <3>1, <3>5, <3>6, <4>1
    <3>8. \A p \in Path, s \in Side : key'[p][s] = <<Current, p, s>>'
      BY <1>1, <2>1, <2>2, <2>5 DEF Built
    <3> QED
      BY <2>1, <2>2, <2>5, <3>1, <3>3, <3>4, <3>6, <3>7, <3>8 DEF Built
  <2> QED
    BY <1>2, <2>2, <2>4, <2>5
<1>6. CASE UNCHANGED <<space, link, netem, tunnel, key, echo, call, told, faults>>
  <2>1. Of' = Of /\ Nth' = Nth /\ Current' = Current
    BY <1>6 DEF Of, Nth, BuiltBy, Current
  <2>2. Partial(Of, Nth) => Partial(Of, Nth)'
    BY <1>6, <2>1 DEF Partial, Unmade, OldLink, Bare, Joined, Knows, Bound
  <2> QED
    BY <1>1, <1>6, <2>1, <2>2 DEF Built, Made, Unmade, OldLink, Old, Bare, Joined, Knows
<1>7. CASE Quiet \/ Serve
  <2>1. call'.stage \notin Building
    BY <1>1, <1>2, <1>7, StartsEffect, AssertCleanEffect, MissedEffect, BreaksEffect, UndoesEffect
       DEF Quiet, Idle, Serve
  <2> QED
    BY <1>3, <2>1
<1> QED
  BY <1>3, <1>4, <1>5, <1>6, <1>7, Steps


LEMMA StepTold ==
  ASSUME IInv, [Next]_vars
  PROVE  Told'
<1>1. TypeOK /\ Told /\ Calls /\ (call.stage = "impair" => call.op = "impair")
  BY DEF IInv, Calls
<1>2. /\ Side = {"client", "server"} /\ None = 0 /\ Building = {"keys", "spaces", "path"}
      /\ Sweeping = {"stop", "drop", "links", "unlink"}
      /\ call.n \in Nat /\ call.n >= 1 /\ call.path \in Path /\ \A s \in Side : space[s] \in Nat
  BY <1>1, StageNames, Shapes, Lengths, Places DEF Setup
<1>3. ASSUME UNCHANGED <<space, link, netem>>, \A p \in Path : told'[p] \in {told[p], Unset}
      PROVE  \A p \in Path : told'[p] # Unset =>
             \A s \in Side : Reachable(p, s)' /\ netem'[p][s] = told'[p]
  BY <1>1, <1>3 DEF Told, Reachable
<1>4. CASE Quiet
  <2>1. \A p \in Path : told'[p] # Unset =>
             \A s \in Side : Reachable(p, s)' /\ netem'[p][s] = told'[p]
    BY <1>1, <1>3, <1>4, QuietEffect
  <2>2. CASE Starts
    <3>1. /\ call'.n = 1 /\ call'.stage \in {"stop", "impair"}
          /\ call'.stage = "stop" => \A p \in Path : told'[p] = Unset
          /\ call'.stage = "impair" => told'[call'.path] = Unset
      BY <1>1, <2>2, StartsEffect
    <3> QED
      BY <1>2, <2>1, <3>1 DEF Told
  <2>3. CASE AssertClean \/ Breaks
    <3>1. call'.stage = "idle"
      BY <1>1, <2>3, AssertCleanEffect, BreaksEffect DEF Idle
    <3> QED
      BY <1>2, <2>1, <3>1 DEF Told
  <2>4. CASE Missed \/ Undoes
    <3>1. /\ call'.stage \in {"stop", "drop", "links", "unlink"} /\ told' = told
          /\ call.stage \in Sweeping \cup Building
      BY <1>1, <1>2, <2>4, MissedEffect, UndoesEffect DEF Undoes
    <3> QED
      BY <1>1, <1>2, <2>1, <3>1 DEF Told
  <2> QED
    BY <1>4, <2>2, <2>3, <2>4 DEF Quiet
<1>5. CASE Works
  <2>1. /\ Same(call, call') /\ (call'.stage # "idle" => call'.outcome = "none")
        /\ call'.stage = "impair" => call.stage = "impair"
        /\ call'.stage \in Sweeping \cup Building => call.stage \in Sweeping \cup Building
    BY <1>1, <1>2, <1>5, Course DEF Calls, Idle
  <2>2. CASE ImpairEnd
    <3>1. PICK q \in Path : q = call.path
      BY <1>2
    <3>2. /\ call.stage = "impair" /\ call.n \in {1, 2}
          /\ SideOf(call.n) = IF call.n = 1 THEN "client" ELSE "server"
          /\ Reachable(q, SideOf(call.n))
          /\ \A p \in Path, s \in Side :
                netem'[p][s] = IF p = q /\ s = SideOf(call.n) THEN call.level ELSE netem[p][s]
          /\ \A p \in Path : told'[p] = IF call'.outcome = "returned" /\ p = q THEN call.level ELSE told[p]
          /\ UNCHANGED <<space, link>>
      BY <1>1, <2>2, <3>1, ImpairEffect
    <3>3. /\ told[q] = Unset
          /\ call.n = 2 /\ Reachable(q, "server") => Reachable(q, "client") /\ netem[q]["client"] = call.level
      BY <1>1, <3>1, <3>2 DEF Told
    <3>4. call'.path = q /\ call'.level = call.level
      BY <1>1, <1>5, <3>1, Course DEF Same
    <3>5. \A p \in Path, s \in Side : Reachable(p, s)' <=> Reachable(p, s)
      BY <3>2 DEF Reachable
    <3>6. ASSUME NEW p \in Path, p # q, told'[p] # Unset
          PROVE  \A s \in Side : Reachable(p, s)' /\ netem'[p][s] = told'[p]
      <4>1. told'[p] = told[p] /\ \A s \in Side : netem'[p][s] = netem[p][s]
        BY <3>2, <3>6
      <4> QED
        BY <1>1, <3>5, <3>6, <4>1 DEF Told
    <3>7. CASE call.n = 1
      <4>1. call'.stage = "impair" /\ call'.n = 2
        <5>1. call' = Advance(call) /\ ~Idle /\ CallOK /\ call.n < Last(call.stage)
          BY <1>1, <1>5, <3>2, <3>7, WorksEffect, Lengths
        <5> QED
          BY <3>2, <3>7, <5>1, Onward
      <4>2. told'[q] = Unset /\ netem'[q]["client"] = call.level /\ Reachable(q, "client")'
        BY <1>2, <2>1, <3>2, <3>3, <3>5, <3>7, <4>1
      <4>3. \A p \in Path : told'[p] # Unset =>
             \A s \in Side : Reachable(p, s)' /\ netem'[p][s] = told'[p]
        BY <3>6, <4>2
      <4>4. told'[call'.path] = Unset /\ netem'[call'.path]["client"] = call'.level
            /\ Reachable(call.path, "client")'
        BY <3>4, <4>2 DEF Reachable
      <4>5. "impair" \notin Sweeping \cup Building
        BY <1>2
      <4> QED
        BY <4>1, <4>3, <4>4, <4>5 DEF Told
    <3>8. CASE call.n = 2
      <4>1. call'.stage = "idle" /\ call'.outcome = "returned"
        <5>1. call' = Advance(call) /\ ~Idle /\ CallOK /\ call.n = Last(call.stage)
          BY <1>1, <1>5, <3>2, <3>8, WorksEffect, Lengths
        <5> QED
          BY <3>2, <3>8, <5>1, Onward
      <4>2. told'[q] = call.level /\ \A s \in Side : Reachable(q, s) /\ netem'[q][s] = call.level
        BY <1>2, <3>2, <3>3, <3>8, <4>1
      <4>3. \A p \in Path : told'[p] # Unset =>
             \A s \in Side : Reachable(p, s)' /\ netem'[p][s] = told'[p]
        BY <3>5, <3>6, <4>2
      <4> QED
        BY <1>2, <4>1, <4>3 DEF Told
    <3> QED
      BY <3>2, <3>7, <3>8
  <2>3. CASE ~ImpairEnd
    <3>1. call.stage \in Sweeping \cup Building
      BY <1>2, <1>5, <2>3 DEF Works, StopProcesses, DropNamespace, DeleteLink, UnlinkKey,
         PrepareKey,
            AddNamespace, AddWire, MoveEnd, AddTunnel, ConfigurePeer, ImpairFresh, Doing, At
    <3>2. \A p \in Path : told[p] = Unset
      BY <1>1, <3>1 DEF Told
    <3>3. call'.stage # "impair"
      BY <1>2, <2>1, <3>1
    <3>4. CASE ImpairFresh
      <4>1. /\ call.stage = "path" /\ OnPath
            /\ \A p \in Path : told'[p] = IF call'.outcome = "returned" THEN 0 ELSE told[p]
        BY <1>1, <3>4, FreshEffect DEF OnPath
      <4>2. call'.stage = "idle" => \A p \in Path : Made(p)'
        BY <4>1, PathCommand, Further
      <4>3. CASE call'.stage = "idle"
        <5>1. ASSUME NEW p \in Path, NEW s \in Side
              PROVE  Reachable(p, s)' /\ netem'[p][s] = 0
          <6>1. Joined(p, s)' /\ netem'[p][s] = 0 /\ space'[s] = Current' /\ Current' > 0
            <7>1. space[s] = Current /\ Current > 0 /\ UNCHANGED space /\ Current' = Current
              BY <1>1, <1>2, <1>5, <3>4, <4>1, FreshEffect, Course DEF IInv, Built, Calls, Same,
                 Current
            <7> QED
              BY <4>2, <4>3, <7>1 DEF Made
          <6> QED
            BY <1>2, <6>1, StepType DEF Reachable, Joined, None, Current, TypeOK, Call
        <5>2. \A p \in Path : told'[p] \in {0, Unset}
          BY <3>2, <4>1
        <5>3. \A p \in Path : told'[p] # Unset => told'[p] = 0
          BY <5>2
        <5> QED
          BY <1>2, <4>3, <5>1, <5>3 DEF Told
      <4>4. CASE call'.stage # "idle"
        <5>1. \A p \in Path : told'[p] = Unset
          BY <2>1, <3>2, <4>1, <4>4
        <5> QED
          BY <3>3, <5>1 DEF Told
      <4> QED
        BY <4>3, <4>4
    <3>5. CASE ~ImpairFresh
      <4>1. told' = told
        BY <1>5, <2>3, <3>5 DEF Works, StopProcesses, DropNamespace, DeleteLink, UnlinkKey,
           PrepareKey,
              AddNamespace, AddWire, MoveEnd, AddTunnel, ConfigurePeer
      <4> QED
        BY <3>2, <3>3, <4>1 DEF Told
    <3> QED
      BY <3>4, <3>5
  <2> QED
    BY <2>2, <2>3
<1>6. CASE Serve
  <2>1. UNCHANGED <<space, link, netem, told, call>> /\ call.stage = "idle"
    BY <1>6 DEF Serve, network, Idle
  <2> QED
    BY <1>1, <2>1 DEF Told, Reachable
<1>7. CASE Exit
  <2>1. PICK e \in echo :
           /\ echo' = echo \ {e} /\ e > 0
           /\ \A p \in Path, t \in Side :
                 IF link[p]["server"] = e /\ space["server"] # e
                 THEN link'[p][t] = None /\ netem'[p][t] = Unset
                 ELSE link'[p][t] = link[p][t] /\ netem'[p][t] = netem[p][t]
           /\ UNCHANGED <<space, tunnel, key, call, told, faults>>
    BY <1>1, <1>7, ExitEffect
  <2>2. ASSUME NEW p \in Path, Reachable(p, "server")
        PROVE  \A t \in Side : link'[p][t] = link[p][t] /\ netem'[p][t] = netem[p][t]
    BY <1>2, <2>1, <2>2 DEF Reachable
  <2>3. ASSUME NEW p \in Path, Reachable(p, "server")'
        PROVE  Reachable(p, "server")
    BY <1>2, <2>1, <2>3 DEF Reachable
  <2>4. ASSUME NEW p \in Path, told'[p] # Unset
        PROVE  \A s \in Side : Reachable(p, s)' /\ netem'[p][s] = told'[p]
    <3>1. \A s \in Side : Reachable(p, s) /\ netem[p][s] = told[p]
      BY <1>1, <2>1, <2>4 DEF Told
    <3> QED
      BY <1>2, <2>1, <2>2, <3>1 DEF Reachable
  <2>5. ASSUME call.stage = "impair", call.n = 2, Reachable(call.path, "server")'
        PROVE  Reachable(call.path, "client")' /\ netem'[call.path]["client"] = call.level
    <3>1. PICK p \in Path : p = call.path
      BY <1>2
    <3>2. Reachable(p, "server")'
      BY <2>5, <2>1, <3>1 DEF Reachable
    <3>3. Reachable(p, "server")
      BY <2>3, <3>2
    <3>4. Reachable(p, "client") /\ netem[p]["client"] = call.level
      BY <1>1, <2>5, <3>1, <3>3 DEF Told
    <3> QED
      BY <1>2, <2>1, <2>2, <3>1, <3>3, <3>4 DEF Reachable
  <2> QED
    BY <1>1, <2>1, <2>4, <2>5 DEF Told, Reachable
<1>8. CASE UNCHANGED <<space, link, netem, tunnel, key, echo, call, told, faults>>
  BY <1>1, <1>8 DEF Told, Reachable
<1> QED
  BY <1>4, <1>5, <1>6, <1>7, <1>8, Steps


LEMMA StepFaultless ==
  ASSUME IInv, [Next]_vars
  PROVE  Faultless'
<1>1. TypeOK /\ Faultless /\ (call.stage = "impair" => call.op = "impair")
  BY DEF IInv, Calls
<1>2. Side = {"client", "server"} /\ None = 0 /\ None \notin echo /\ faults \in Nat
  BY <1>1, Shapes, Lengths DEF TypeOK
<1>3. CASE Quiet
  <2>1. CASE Starts
    BY <1>1, <2>1, StartsEffect DEF Faultless
  <2>2. CASE AssertClean
    BY <1>1, <1>2, <2>2, AssertCleanEffect DEF Faultless, Idle
  <2>3. CASE Missed
    BY <1>1, <2>3, MissedEffect DEF Faultless
  <2>4. CASE Breaks
    BY <1>1, <1>2, <2>4, BreaksEffect DEF Faultless, Idle
  <2>5. CASE Undoes
    BY <1>1, <1>2, <2>5, UndoesEffect DEF Faultless
  <2> QED
    BY <1>3, <2>1, <2>2, <2>3, <2>4, <2>5 DEF Quiet
<1>4. CASE Works
  <2>1. faults' = faults /\ (call'.stage = "drop" => call.stage \in {"stop", "drop"})
    BY <1>1, <1>4, WorksEffect, Course
  <2>2. CASE StopProcesses
    <3>1. echo' = echo \ {space["server"]} /\ space' = space
      BY <2>2 DEF StopProcesses, network
    <3> QED
      BY <1>1, <2>1, <3>1 DEF Faultless
  <2>3. CASE DropNamespace
    <3>1. echo' = echo /\ call.stage = "drop"
      BY <1>1, <2>3, DropEffect
    <3> QED
      BY <1>1, <2>1, <3>1 DEF Faultless
  <2>4. CASE AddNamespace
    <3>1. /\ echo' = echo /\ call.stage = "spaces"
          /\ space["server"] = None \/ space'["server"] = space["server"]
      BY <1>1, <1>2, <2>4 DEF AddNamespace, At, TypeOK
    <3> QED
      BY <1>1, <1>2, <2>1, <3>1 DEF Faultless
  <2>5. CASE ~StopProcesses /\ ~DropNamespace /\ ~AddNamespace
    <3>1. UNCHANGED <<space, echo>> /\ call.stage \notin {"stop", "drop"}
      BY <1>4, <2>5 DEF Works, DeleteLink, UnlinkKey, PrepareKey, AddWire, MoveEnd, AddTunnel,
            ConfigurePeer, ImpairFresh, ImpairEnd, Doing, At, network
    <3> QED
      BY <1>1, <2>1, <3>1 DEF Faultless
  <2> QED
    BY <2>2, <2>3, <2>4, <2>5
<1>5. CASE Serve
  BY <1>1, <1>5 DEF Serve, Faultless, Idle, network
<1>6. CASE Exit
  <2>1. echo' \subseteq echo /\ UNCHANGED <<space, call, faults>>
    BY <1>1, <1>6, ExitEffect
  <2> QED
    BY <1>1, <2>1 DEF Faultless
<1>7. CASE UNCHANGED <<space, link, netem, tunnel, key, echo, call, told, faults>>
  BY <1>1, <1>7 DEF Faultless
<1> QED
  BY <1>3, <1>4, <1>5, <1>6, <1>7, Steps

-----------------------------------------------------------------------------
(***************************************************************************)
(* How calls end.                                                          *)
(***************************************************************************)
\* What has been built for all paths is a whole laboratory.
LEMMA MadeIsWhole ==
  ASSUME TypeOK, Current > 0, \A s \in Side : space[s] = Current, \A p \in Path : Made(p)
  PROVE  Whole /\ \A p \in Path : netem[p]["client"] = 0 /\ netem[p]["server"] = 0
<1>1. Side = {"client", "server"} /\ None = 0 /\ Current \in Nat
  BY Shapes DEF Current
<1>2. ASSUME NEW p \in Path, NEW s \in Side
      PROVE  /\ Reachable(p, s) /\ tunnel[p][s].there /\ tunnel[p][s].own # NoKey
             /\ tunnel[p][s].peer = tunnel[p][Other(s)].own
  <2>1. Reachable(p, s)
    BY <1>1 DEF Made, Joined, Reachable
  <2>2. Other(s) \in Side
    BY <1>1 DEF Other
  <2>3. /\ tunnel[p][s] = [own |-> <<Current, p, s>>, peer |-> <<Current, p, Other(s)>>, there |-> TRUE]
        /\ tunnel[p][Other(s)] = [own |-> <<Current, p, Other(s)>>,
                                  peer |-> <<Current, p, Other(Other(s))>>, there |-> TRUE]
    BY <2>2 DEF Made, Knows
  <2>4. <<Current, p, s>> # NoKey
    BY DEF NoKey
  <2> QED
    BY <2>1, <2>3, <2>4
<1> QED
  BY <1>1, <1>2 DEF Whole, Made

\* The same of the next state.
LEMMA MadeIsWholeNext ==
  (TypeOK /\ Current > 0 /\ (\A s \in Side : space[s] = Current) /\ (\A p \in Path : Made(p))
    => Whole /\ \A p \in Path : netem[p]["client"] = 0 /\ netem[p]["server"] = 0)'
<1>1. TypeOK /\ Current > 0 /\ (\A s \in Side : space[s] = Current) /\ (\A p \in Path : Made(p))
        => Whole /\ \A p \in Path : netem[p]["client"] = 0 /\ netem[p]["server"] = 0
  BY MadeIsWhole
<1> QED
  BY <1>1, PTL

\* An exit takes nothing from a whole laboratory, and nothing of one is left
\* where there was nothing.
LEMMA ExitKeeps ==
  ASSUME TypeOK, Exit
  PROVE  /\ Whole => Whole' /\ netem' = netem
         /\ Nothing => Nothing'
<1>1. PICK e \in echo :
         /\ echo' = echo \ {e} /\ e > 0
         /\ \A p \in Path, t \in Side :
               IF link[p]["server"] = e /\ space["server"] # e
               THEN link'[p][t] = None /\ netem'[p][t] = Unset
               ELSE link'[p][t] = link[p][t] /\ netem'[p][t] = netem[p][t]
         /\ UNCHANGED <<space, tunnel, key, call, told, faults>>
  BY ExitEffect
<1>2. Side = {"client", "server"}
  BY Shapes
<1>3. ASSUME Whole PROVE Whole' /\ netem' = netem
  <2>1. \A p \in Path : Reachable(p, "server")
    BY <1>2, <1>3 DEF Whole
  <2>2. \A p \in Path, t \in Side : link'[p][t] = link[p][t] /\ netem'[p][t] = netem[p][t]
    BY <1>1, <2>1 DEF Reachable
  <2>3. netem \in [Path -> [Side -> 0 .. Levels \cup {Unset}]]
        /\ netem' \in [Path -> [Side -> 0 .. Levels \cup {Unset}]]
    <3>1. PICK P : Unlink(P)
      BY DEF Exit
    <3> QED
      BY <3>1, UnlinkEffect DEF TypeOK
  <2>4. netem' = netem
    BY <2>2, <2>3
  <2> QED
    BY <1>1, <1>3, <2>2, <2>4 DEF Whole, Reachable
<1>4. ASSUME Nothing PROVE Nothing'
  BY <1>1, <1>4 DEF Nothing, Named, Keyed
<1> QED
  BY <1>3, <1>4

LEMMA StepEnds ==
  ASSUME IInv, [Next]_vars
  PROVE  Ends'
<1>1. TypeOK /\ Pairs /\ Calls /\ Swept /\ Built /\ Ends /\ (call.stage = "impair" => call.op = "impair")
  BY DEF IInv, Calls
<1>2. /\ Side = {"client", "server"} /\ None = 0 /\ \A p \in Path, s \in Side : link[p][s] \in Int
      /\ \A p \in Path : link[p]["client"] = None <=> link[p]["server"] = None
      /\ Paths \in Nat /\ Path = 1 .. Paths /\ Current \in Nat /\ call.n \in Nat
  BY <1>1, Shapes, Lengths, Places DEF Path, Current
<1>3. echo' \subseteq {space'["server"]} \/ faults' > 0
  <2>1. Faultless' /\ faults' \in Nat
    BY StepFaultless, StepType, Lengths DEF TypeOK
  <2> QED
    BY <2>1 DEF Faultless
<1>4. ASSUME ~Idle' PROVE Ends'
  BY <1>3, <1>4 DEF Ends, SetupIsAllOrNothing, VerifiedIsClean
<1>5. ASSUME call'.op \in {"cleanup", "impair"} PROVE Ends'
  BY <1>3, <1>5 DEF Ends, SetupIsAllOrNothing, VerifiedIsClean
<1>6. CASE AssertClean
  <2>1. /\ call'.op = "verify" /\ UNCHANGED <<space, link, key>>
        /\ call'.outcome = "returned" /\ ~call'.blind => ~Named /\ ~Loose /\ ~Keyed
    BY <1>1, <1>6, AssertCleanEffect
  <2>2. ASSUME ~Named, ~Loose, ~Keyed PROVE Nothing
    <3>1. ASSUME NEW p \in Path, NEW s \in Side PROVE link[p][s] = None
      <4>1. ~(link[p]["client"] < 0) /\ ~(link[p]["server"] < 0) /\ space["client"] = None
        BY <1>2, <2>2 DEF Loose, InRoot, Named
      <4>2. link[p]["client"] <= 0
        BY <1>1, <1>2, <4>1 DEF Pairs
      <4> QED
        BY <1>2, <4>1, <4>2
    <3> QED
      BY <2>2, <3>1 DEF Nothing
  <2>3. Nothing => Nothing'
    BY <2>1 DEF Nothing, Named, Keyed
  <2> QED
    BY <1>3, <2>1, <2>2, <2>3 DEF Ends, SetupIsAllOrNothing, VerifiedIsClean
<1>7. CASE Starts \/ Missed \/ Undoes
  <2>1. ~Idle'
    BY <1>1, <1>7, StartsEffect, MissedEffect, UndoesEffect DEF Idle
  <2> QED
    BY <1>4, <2>1
<1>8. CASE Breaks
  <2>1. /\ ~Idle /\ call'.op = call.op
        /\ \/ call'.outcome = "stopped"
           \/ call'.outcome = "raised" /\ call'.failed /\ ~call'.sound
           \/ call'.outcome = "raised" /\ call'.op = "impair"
    BY <1>1, <1>8, BreaksEffect
  <2>2. call.op \in {"setup", "cleanup", "impair"}
    BY <1>1, <2>1, StageNames DEF Calls, Idle, TypeOK, Call
  <2> QED
    BY <1>3, <2>1, <2>2 DEF Ends, SetupIsAllOrNothing, VerifiedIsClean
<1>9. CASE Works /\ Idle'
  <2>1. /\ Same(call, call') /\ ~Idle /\ call.stage \in {"unlink", "path", "impair"}
        /\ call.stage = "unlink" => \/ call.op = "cleanup" /\ call'.outcome = "returned"
                                    \/ call.op # "cleanup" /\ call.undo /\ call'.outcome = "raised"
        /\ call.stage # "unlink" => call'.outcome = "returned"
    BY <1>1, <1>9, Course DEF Idle
  <2>2. CASE call.stage = "impair"
    BY <1>1, <1>5, <2>1, <2>2 DEF Same
  <2>3. CASE call.stage = "path"
    <3>1. OnPath
      BY <1>9, <2>3 DEF Works, OnPath, StopProcesses, DropNamespace, DeleteLink, UnlinkKey,
         PrepareKey,
            AddNamespace, ImpairEnd, At
    <3>2. Built' /\ \A p \in Path : Made(p)'
      BY <1>9, <3>1, PathCommand, Further DEF Idle
    <3>3. /\ Current' = Current /\ Current > 0 /\ call'.op = "setup"
          /\ \A s \in Side : space'[s] = Current'
      <4>1. space' = space /\ \A s \in Side : space[s] = Current
        BY <1>1, <2>3, <3>1, PathCommand DEF Elsewhere, Built
      <4>2. call.op = "setup" /\ Current > 0
        BY <2>3, InSetup, StageNames
      <4> QED
        BY <2>1, <4>1, <4>2 DEF Same, Current
    <3>4. Whole' /\ \A p \in Path : netem'[p]["client"] = 0 /\ netem'[p]["server"] = 0
      <4>1. TypeOK' /\ Current' > 0 /\ (\A s \in Side : space'[s] = Current') /\ (\A p \in Path : Made(p)')
        BY <3>2, <3>3, StepType
      <4> QED
        BY <4>1, MadeIsWholeNext
    <3> QED
      BY <1>2, <1>3, <2>1, <2>3, <3>3, <3>4 DEF Ends, SetupIsAllOrNothing, VerifiedIsClean, Current
  <2>4. CASE call.stage = "unlink"
    <3>1. CASE call.op = "cleanup"
      BY <1>5, <2>1, <3>1 DEF Same
    <3>2. CASE call.op # "cleanup"
      <4>1. call.op = "setup" /\ call.undo /\ call'.outcome = "raised" /\ call'.op = "setup"
            /\ call'.failed /\ call'.sound = call.sound
        BY <1>1, <2>1, <2>4, <3>2, StageNames DEF Calls, Same
      <4>2. UnlinkKey /\ UNCHANGED <<space, link>>
            /\ key' = [key EXCEPT ![PathOf(call.n)][SideOf(call.n)] = NoKey]
        BY <1>9, <2>4 DEF Works, StopProcesses, DropNamespace, DeleteLink, UnlinkKey, PrepareKey,
              AddNamespace, AddWire, MoveEnd, AddTunnel, ConfigurePeer, ImpairFresh, ImpairEnd,
              Doing, At, network
      <4>3. call.n = 2 * Paths
        <5>1. call' = Advance(call) /\ CallOK
          BY <1>1, <1>9, WorksEffect
        <5>2. call.n <= 2 * Paths
          BY <2>4, <5>1, Lengths DEF CallOK
        <5>3. CASE call.n < 2 * Paths
          BY <1>9, <2>1, <2>4, <5>1, <5>3, Onward, Lengths DEF Idle
        <5> QED
          BY <1>2, <5>2, <5>3
      <4>4. PathOf(call.n) \in Path /\ SideOf(call.n) \in Side
            /\ (SideOf(call.n) = "client" => call.n = 2 * PathOf(call.n) - 1)
            /\ (SideOf(call.n) = "server" => call.n = 2 * PathOf(call.n))
        BY <1>1, <2>4, Places
      <4>5. \A p \in Path, s \in Side :
               key'[p][s] = IF p = PathOf(call.n) /\ s = SideOf(call.n) THEN NoKey ELSE key[p][s]
        BY <1>1, <4>2, <4>4 DEF TypeOK
      <4>6. \A p \in Path : 2 * p - 1 < call.n
                            /\ (2 * p < call.n \/ (p = PathOf(call.n) /\ SideOf(call.n) = "server"))
        BY <1>2, <4>3, <4>4
      <4>7. \A p \in Path : key[p]["client"] = NoKey /\ (key[p]["server"] = NoKey
                                              \/ (p = PathOf(call.n) /\ SideOf(call.n) = "server"))
        BY <1>1, <2>4, <4>6 DEF Swept
      <4>8. \A p \in Path, s \in Side : key'[p][s] = NoKey
        BY <1>2, <4>5, <4>7
      <4>9. call.sound => Nothing'
        BY <1>1, <2>4, <4>2, <4>8 DEF Swept, Bare, Nothing, Named, Keyed
      <4> QED
        BY <1>3, <4>1, <4>9 DEF Ends, SetupIsAllOrNothing, VerifiedIsClean
    <3> QED
      BY <3>1, <3>2
  <2> QED
    BY <2>1, <2>2, <2>3, <2>4
<1>10. CASE Serve
  <2>1. UNCHANGED <<space, link, netem, tunnel, key, call>>
    BY <1>10 DEF Serve, network
  <2> QED
    BY <1>1, <1>3, <2>1 DEF Ends, SetupIsAllOrNothing, VerifiedIsClean, Idle, Whole, Nothing, Named,
       Keyed,
                            Reachable
<1>11. CASE Exit
  <2>1. UNCHANGED <<space, call>> /\ (Whole => Whole' /\ netem' = netem) /\ (Nothing => Nothing')
    BY <1>1, <1>11, ExitKeeps DEF Exit
  <2> QED
    BY <1>1, <1>3, <2>1 DEF Ends, SetupIsAllOrNothing, VerifiedIsClean, Idle
<1>12. CASE UNCHANGED <<space, link, netem, tunnel, key, echo, call, told, faults>>
  BY <1>1, <1>12 DEF Ends, SetupIsAllOrNothing, VerifiedIsClean, Idle, Whole, Nothing, Named, Keyed,
     Reachable
<1> QED
  BY <1>4, <1>6, <1>7, <1>8, <1>9, <1>10, <1>11, <1>12, Steps DEF Quiet


-----------------------------------------------------------------------------
(***************************************************************************)
(* The theorems.                                                           *)
(***************************************************************************)
LEMMA InitInvariant ==
  ASSUME Init
  PROVE  IInv
<1>1. Side = {"client", "server"} /\ "idle" \notin Sweeping /\ "idle" \notin Building /\ "idle" \in Stage
      /\ 1 \in Path /\ 0 \in 0 .. Levels /\ 0 \in 0 .. MaxSetups /\ 0 \in 0 .. MaxFaults
      /\ 0 \in -MaxSetups .. MaxSetups /\ Last("idle") = 1
  BY StageNames, Lengths DEF Side, Path
<1>2. call.stage = "idle" /\ call.op = "cleanup" /\ call.sound = TRUE /\ call.undo = FALSE
      /\ call.setups = 0 /\ faults = 0 /\ echo = {} /\ call.n = 1
  BY DEF Init
<1>3. TypeOK
  <2>1. call \in Call
    BY <1>1 DEF Init, Call
  <2>2. NoTunnel \in [own : Key \cup {NoKey}, peer : Key \cup {NoKey}, there : BOOLEAN]
    BY DEF NoTunnel
  <2>3. /\ space \in [Side -> Setup \cup {None}]
        /\ link \in [Path -> [Side -> -MaxSetups .. MaxSetups]]
        /\ \A p \in Path : link[p]["client"] = None <=> link[p]["server"] = None
        /\ netem \in [Path -> [Side -> 0 .. Levels \cup {Unset}]]
        /\ key \in [Path -> [Side -> Key \cup {NoKey}]]
        /\ told \in [Path -> 0 .. Levels \cup {Unset}]
    BY <1>1 DEF Init, None
  <2>4. tunnel \in [Path -> [Side -> [own : Key \cup {NoKey}, peer : Key \cup {NoKey}, there : BOOLEAN]]]
    BY <2>2 DEF Init
  <2> QED
    BY <1>1, <1>2, <2>1, <2>3, <2>4 DEF TypeOK
<1>4. Pairs /\ Ages
  BY <1>1, <1>2 DEF Init, Pairs, Ages, Current, None
<1>5. Tunnels
  BY DEF Init, Tunnels
<1>6. Calls /\ Swept /\ Built /\ Faultless
  BY <1>1, <1>2 DEF Calls, Swept, Built, Faultless, Idle
<1>7. Told
  BY <1>1, <1>2 DEF Init, Told
<1>8. Ends
  BY <1>2 DEF Ends, SetupIsAllOrNothing, VerifiedIsClean
<1> QED
  BY <1>3, <1>4, <1>5, <1>6, <1>7, <1>8 DEF IInv

\* The inductive invariant: whatever the calls, the failures and the kills,
\* the laboratory is what the cleanup or the setup under way has got to.
THEOREM LabInvariant == Spec => []IInv
<1>1. Init => IInv
  BY InitInvariant
<1>2. IInv /\ [Next]_vars => IInv'
  BY StepType, StepPairs, StepTunnels, StepAges, StepCalls, StepSwept, StepBuilt, StepTold,
     StepFaultless, StepEnds DEF IInv
<1> QED
  BY <1>1, <1>2, PTL DEF Spec

\* SetupIsAllOrNothing: a setup that returns has built a whole laboratory of
\* its own, one that raises leaves nothing, and none is refused because of
\* what an earlier one left behind (setup, cleanup and their except clause).
THEOREM SetupAllOrNothing == Spec => []SetupIsAllOrNothing
<1>1. IInv => SetupIsAllOrNothing
  BY DEF IInv, Ends
<1> QED
  BY <1>1, LabInvariant, PTL

\* VerifiedIsClean: what assert_clean passes is clean, and no echo server
\* outlives the name of its namespace unless a command failed.
THEOREM VerifiedClean == Spec => []VerifiedIsClean
<1>1. IInv => VerifiedIsClean
  BY DEF IInv, Ends
<1> QED
  BY <1>1, LabInvariant, PTL

\* ToldIsApplied: an impairment that setup or impair has reported is on both
\* ends of the path until the next call that is about the path.
THEOREM ToldApplied == Spec => []ToldIsApplied
<1>1. IInv => ToldIsApplied
  BY DEF IInv, Told, ToldIsApplied
<1> QED
  BY <1>1, LabInvariant, PTL


-----------------------------------------------------------------------------
(***************************************************************************)
(* The laboratory implements its life cycle.                               *)
(***************************************************************************)
\* All there is was made by the setup that is under way.
Own ==
    /\ call.stage \in Building
    /\ \A s \in Side : space[s] \in {None, Current}
    /\ \A p \in Path, s \in Side : link[p][s] \in {None, -Current, Current}

\* Steps that leave the parts of the laboratory alone.
Apart == Quiet \/ StopProcesses \/ ImpairFresh \/ ImpairEnd \/ Serve
         \/ UNCHANGED <<space, link, netem, tunnel, key, echo, call, told, faults>>

LEMMA ApartEffect ==
  ASSUME IInv, Apart
  PROVE  /\ Nothing' <=> Nothing
         /\ Whole' <=> Whole
         /\ Own' => Own
<1>1. TypeOK /\ (call.stage = "impair" => call.op = "impair")
  BY DEF IInv, Calls
<1>2. Building = {"keys", "spaces", "path"}
  BY StageNames
<1>3. UNCHANGED <<space, link, tunnel, key>>
  BY <1>1, QuietEffect DEF Apart, StopProcesses, ImpairFresh, ImpairEnd, Serve, network
<1>4. call'.stage \in Building => call.stage \in Building /\ Current' = Current
  <2>1. CASE Quiet
    BY <1>1, <1>2, <2>1, StartsEffect, AssertCleanEffect, MissedEffect, BreaksEffect, UndoesEffect
       DEF Quiet, Idle
  <2>2. CASE StopProcesses \/ ImpairFresh \/ ImpairEnd
    <3>1. Works /\ call.stage # "unlink"
      BY <2>2 DEF Works, StopProcesses, ImpairFresh, ImpairEnd, Doing, At
    <3> QED
      BY <1>1, <3>1, Course DEF Same, Current
  <2>3. CASE UNCHANGED call
    BY <2>3 DEF Current
  <2> QED
    BY <2>1, <2>2, <2>3 DEF Apart, Serve
<1>5. Nothing' <=> Nothing
  BY <1>3 DEF Nothing, Named, Keyed
<1>6. Whole' <=> Whole
  BY <1>3 DEF Whole, Reachable
<1>7. Own' => Own
  BY <1>3, <1>4 DEF Own
<1> QED
  BY <1>5, <1>6, <1>7

LEMMA LifeSteps ==
  ASSUME [Next]_vars
  PROVE  \/ Apart \/ DropNamespace \/ DeleteLink \/ UnlinkKey \/ Exit
         \/ PrepareKey \/ AddNamespace \/ AddWire \/ MoveEnd \/ AddTunnel \/ ConfigurePeer
BY Steps DEF Apart, Works

\* What holds of the laboratory at the commands that build one path.
LEMMA AtPath ==
  ASSUME IInv, call.stage = "path"
  PROVE  /\ Of \in Path /\ Nth \in 1 .. 9 /\ Partial(Of, Nth) /\ call.stage \in Building
         /\ \A s \in Side : space[s] = Current /\ space[s] # None
         /\ Current > 0 /\ Current \in Nat /\ ~Nothing
         /\ \A p \in Path : p < Of => Made(p)
         /\ \A p \in Path : p > Of => Unmade(p)
<1>1. call.stage \in Building /\ TypeOK
  BY StageNames DEF IInv
<1>2. /\ Of \in Path /\ Nth \in 1 .. 9 /\ Partial(Of, Nth) /\ \A s \in Side : space[s] = Current
      /\ \A p \in Path : p < Of => Made(p)
      /\ \A p \in Path : p > Of => Unmade(p)
  BY <1>1, Places DEF IInv, Built
<1>3. Current > 0 /\ Current \in Nat /\ None = 0 /\ "client" \in Side
  BY <1>1, InSetup, Shapes DEF Current
<1> QED
  BY <1>1, <1>2, <1>3 DEF Nothing, Named

\* A path that is not done makes a laboratory less than whole.
LEMMA NotWhole ==
  ASSUME TypeOK, NEW p \in Path,
         \E s \in Side : \/ link[p][s] <= 0 \/ space[s] = None \/ ~tunnel[p][s].there
                         \/ tunnel[p][s].own = NoKey
  PROVE  ~Whole
<1>1. None = 0 /\ \A s \in Side : space[s] \in Nat
  BY Shapes, Lengths DEF Setup
<1> QED
  BY <1>1 DEF Whole, Reachable

LEMMA NotWholeNext ==
  (TypeOK /\ (\E p \in Path, s \in Side : \/ link[p][s] <= 0 \/ space[s] = None \/ ~tunnel[p][s].there
                                          \/ tunnel[p][s].own = NoKey)
    => ~Whole)'
<1>1. TypeOK /\ (\E p \in Path, s \in Side : \/ link[p][s] <= 0 \/ space[s] = None \/ ~tunnel[p][s].there
                                             \/ tunnel[p][s].own = NoKey)
        => ~Whole
  BY NotWhole
<1> QED
  BY <1>1, PTL

\* The laboratory is absent until a setup begins to build.
LEMMA FromNothing ==
  ASSUME IInv, [Next]_vars, Nothing
  PROVE  Nothing' \/ (Own' /\ ~Whole')
<1>1. TypeOK /\ TypeOK' /\ Side = {"client", "server"} /\ None = 0 /\ 1 \in Path
      /\ Building = {"keys", "spaces", "path"}
  BY StepType, Shapes, StageNames, Lengths DEF IInv, Path
<1>2. /\ \A s \in Side : space[s] = None
      /\ \A p \in Path, s \in Side : link[p][s] = None /\ key[p][s] = NoKey
  BY DEF Nothing, Named, Keyed
<1>3. CASE Apart
  BY <1>3, ApartEffect
<1>4. CASE DropNamespace
  BY <1>1, <1>2, <1>4, DropEffect DEF Nothing, Named, Keyed
<1>5. CASE DeleteLink
  BY <1>1, <1>2, <1>5, DeleteEffect DEF Nothing, Named, Keyed
<1>6. CASE UnlinkKey
  <2>1. /\ key' = [key EXCEPT ![PathOf(call.n)][SideOf(call.n)] = NoKey] /\ UNCHANGED <<space, link>>
        /\ PathOf(call.n) \in Path /\ SideOf(call.n) \in Side
    BY <1>1, <1>6, Places DEF UnlinkKey, At, network
  <2>2. \A p \in Path, s \in Side : key'[p][s] = NoKey
    BY <1>1, <1>2, <2>1 DEF TypeOK
  <2> QED
    BY <1>2, <2>1, <2>2 DEF Nothing, Named, Keyed
<1>7. CASE Exit
  BY <1>1, <1>7, ExitKeeps
<1>8. CASE PrepareKey
  <2>1. call.stage = "keys" /\ UNCHANGED <<space, link>> /\ Works
    BY <1>8 DEF PrepareKey, At, network, Works
  <2>2. call'.stage \in Building
    <3>1. call' = Advance(call) /\ ~Idle /\ CallOK
      BY <1>1, <2>1, WorksEffect
    <3>2. call.n < Last(call.stage) \/ call.n = Last(call.stage)
      BY <1>1, <2>1, <3>1, Lengths, Places DEF CallOK
    <3> QED
      BY <1>1, <2>1, <3>1, <3>2, Onward
  <2>3. Own'
    BY <1>2, <2>1, <2>2 DEF Own
  <2>4. \E p \in Path, s \in Side : space'[s] = None
    BY <1>1, <1>2, <2>1
  <2> QED
    BY <1>1, <2>3, <2>4, NotWholeNext
<1>9. CASE AddNamespace
  <2>1. call.stage = "spaces" /\ UNCHANGED <<link, key, tunnel>> /\ Works
        /\ space' = [space EXCEPT ![SideOf(call.n)] = Current]
    BY <1>9 DEF AddNamespace, At, Works, Current
  <2>2. call'.stage \in Building /\ Current' = Current
    <3>1. call' = Advance(call) /\ ~Idle /\ CallOK
      BY <1>1, <2>1, WorksEffect
    <3>2. call.n < Last(call.stage) \/ call.n = Last(call.stage)
      BY <1>1, <2>1, <3>1, Lengths, Places DEF CallOK
    <3> QED
      BY <1>1, <2>1, <3>1, <3>2, Onward DEF Same, Current
  <2>3. \A s \in Side : space'[s] \in {None, Current}
    BY <1>1, <1>2, <2>1 DEF TypeOK
  <2>4. Own'
    BY <1>2, <2>1, <2>2, <2>3 DEF Own
  <2>5. \E p \in Path, s \in Side : link'[p][s] <= 0
    BY <1>1, <1>2, <2>1
  <2> QED
    BY <1>1, <2>4, <2>5, NotWholeNext
<1>10. CASE AddWire \/ MoveEnd \/ AddTunnel \/ ConfigurePeer
  <2>1. call.stage = "path"
    BY <1>10 DEF AddWire, MoveEnd, AddTunnel, ConfigurePeer, Doing, At
  <2> QED
    BY <2>1, AtPath
<1> QED
  BY <1>3, <1>4, <1>5, <1>6, <1>7, <1>8, <1>9, <1>10, LifeSteps

\* Nothing is taken for the work of the setup under way that was there before.
LEMMA ToOwn ==
  ASSUME IInv, [Next]_vars, Own'
  PROVE  Own \/ Nothing \/ Nothing'
<1>1. TypeOK /\ TypeOK' /\ Pairs /\ Ages /\ Calls /\ Swept
      /\ Side = {"client", "server"} /\ None = 0 /\ Building = {"keys", "spaces", "path"}
      /\ Path = 1 .. Paths /\ Paths \in Nat /\ Current \in Nat /\ call.n \in Nat
      /\ \A p \in Path, s \in Side : link[p][s] \in Int
  BY StepType, Shapes, StageNames, Lengths, Places DEF IInv, Path, Current
<1>2. /\ call'.stage \in Building
      /\ \A s \in Side : space'[s] \in {None, Current'}
      /\ \A p \in Path, s \in Side : link'[p][s] \in {None, -Current', Current'}
  BY DEF Own
<1>3. CASE Apart
  BY <1>3, ApartEffect
<1>4. ASSUME Works
      PROVE  /\ Current' = Current
             /\ (call.stage \in Building \/ (call.stage = "unlink" /\ call.op = "setup" /\ ~call.undo))
  BY <1>1, <1>2, <1>4, Course, StageNames DEF Same, Current, Calls
<1>5. CASE DropNamespace \/ DeleteLink
  <2>1. Works /\ call.stage \in {"drop", "links"}
    BY <1>5 DEF Works, DropNamespace, DeleteLink, At
  <2> QED
    BY <1>1, <1>4, <2>1
<1>6. CASE UnlinkKey
  <2>1. Works /\ call.stage = "unlink" /\ UNCHANGED <<space, link>>
        /\ key' = [key EXCEPT ![PathOf(call.n)][SideOf(call.n)] = NoKey]
    BY <1>6 DEF UnlinkKey, At, Works, network
  <2>2. Current' = Current /\ call.op = "setup" /\ ~call.undo
    BY <1>1, <1>4, <2>1
  <2>3. (\A s \in Side : Old(s)) /\ \A p \in Path : OldLink(p)
    BY <1>1, <2>1, <2>2, StageNames DEF Ages
  <2>4. (\A s \in Side : space[s] = None) /\ \A p \in Path, s \in Side : link[p][s] = None
    BY <1>1, <1>2, <2>1, <2>2, <2>3 DEF Old, OldLink
  <2>5. call.n = 2 * Paths
    <3>1. call' = Advance(call) /\ ~Idle /\ CallOK
      BY <1>1, <2>1, WorksEffect
    <3>2. call.n <= 2 * Paths
      BY <2>1, <3>1, Lengths DEF CallOK
    <3>3. CASE call.n < 2 * Paths
      BY <1>1, <1>2, <2>1, <3>1, <3>3, Onward, Lengths
    <3> QED
      BY <1>1, <3>2, <3>3
  <2>6. PathOf(call.n) \in Path /\ SideOf(call.n) \in Side
        /\ (SideOf(call.n) = "client" => call.n = 2 * PathOf(call.n) - 1)
        /\ (SideOf(call.n) = "server" => call.n = 2 * PathOf(call.n))
    BY <1>1, <2>1, Places
  <2>7. \A p \in Path, s \in Side :
           key'[p][s] = IF p = PathOf(call.n) /\ s = SideOf(call.n) THEN NoKey ELSE key[p][s]
    BY <1>1, <2>1, <2>6 DEF TypeOK
  <2>8. \A p \in Path : 2 * p - 1 < call.n
                        /\ (2 * p < call.n \/ (p = PathOf(call.n) /\ SideOf(call.n) = "server"))
    BY <1>1, <2>5, <2>6
  <2>9. \A p \in Path : key[p]["client"] = NoKey /\ (key[p]["server"] = NoKey
                                          \/ (p = PathOf(call.n) /\ SideOf(call.n) = "server"))
    BY <1>1, <2>1, <2>8 DEF Swept
  <2>10. \A p \in Path, s \in Side : key'[p][s] = NoKey
    BY <1>1, <2>7, <2>9
  <2> QED
    BY <2>1, <2>4, <2>10 DEF Nothing, Named, Keyed
<1>7. CASE Exit
  <2>1. PICK e \in echo :
           /\ echo' = echo \ {e} /\ e > 0
           /\ \A p \in Path, t \in Side :
                 IF link[p]["server"] = e /\ space["server"] # e
                 THEN link'[p][t] = None /\ netem'[p][t] = Unset
                 ELSE link'[p][t] = link[p][t] /\ netem'[p][t] = netem[p][t]
           /\ UNCHANGED <<space, tunnel, key, call, told, faults>>
    BY <1>1, <1>7, ExitEffect
  <2>2. Current' = Current /\ call.stage \in Building /\ \A s \in Side : space[s] \in {None, Current}
    BY <1>2, <2>1 DEF Current
  <2>3. ASSUME NEW p \in Path, NEW s \in Side PROVE link[p][s] \in {None, -Current, Current}
    <3>1. CASE link[p]["server"] = e /\ space["server"] # e
      <4>1. link[p]["client"] = e /\ space["client"] = e
        BY <1>1, <2>1, <3>1 DEF Pairs
      <4>2. e = Current
        BY <1>1, <2>1, <2>2, <4>1
      <4> QED
        BY <1>1, <3>1, <4>1, <4>2
    <3>2. CASE ~(link[p]["server"] = e /\ space["server"] # e)
      <4>1. link'[p][s] = link[p][s]
        BY <2>1, <3>2
      <4> QED
        BY <1>2, <2>2, <4>1
    <3> QED
      BY <3>1, <3>2
  <2> QED
    BY <2>2, <2>3 DEF Own
<1>8. CASE PrepareKey \/ AddTunnel \/ ConfigurePeer
  <2>1. Works /\ UNCHANGED <<space, link>> /\ call.stage \in {"keys", "path"}
    BY <1>8 DEF PrepareKey, AddTunnel, ConfigurePeer, Doing, At, Works, network
  <2> QED
    BY <1>1, <1>2, <1>4, <2>1 DEF Own
<1>9. CASE AddNamespace
  <2>1. Works /\ UNCHANGED link /\ call.stage = "spaces"
        /\ \A s \in Side : space[s] = None \/ space'[s] = space[s]
    BY <1>1, <1>9 DEF AddNamespace, At, Works, TypeOK
  <2> QED
    BY <1>1, <1>2, <1>4, <2>1 DEF Own
<1>10. CASE AddWire
  <2>1. Works /\ UNCHANGED space /\ call.stage = "path"
        /\ \A p \in Path, s \in Side : link[p][s] = None \/ link'[p][s] = link[p][s]
    BY <1>1, <1>10, WireEffect DEF Works, Bare
  <2> QED
    BY <1>1, <1>2, <1>4, <2>1 DEF Own
<1>11. CASE MoveEnd
  <2>1. /\ Works /\ UNCHANGED space /\ call.stage = "path" /\ Nth \in {2, 3}
        /\ On = IF Nth = 3 THEN "server" ELSE "client"
        /\ \A p \in Path, s \in Side :
              link'[p][s] = IF p = Of /\ s = On THEN space[On] ELSE link[p][s]
    BY <1>1, <1>11, MoveEffect DEF Works
  <2>2. Partial(Of, Nth)
    BY <2>1, AtPath
  <2>3. link[Of][On] = -Current
    BY <1>1, <2>1, <2>2 DEF Partial
  <2>4. \A p \in Path, s \in Side : link[p][s] = -Current \/ link'[p][s] = link[p][s]
    BY <2>1, <2>3
  <2> QED
    BY <1>1, <1>2, <1>4, <2>1, <2>4 DEF Own
<1> QED
  BY <1>3, <1>5, <1>6, <1>7, <1>8, <1>9, <1>10, <1>11, LifeSteps


\* A laboratory that is up is not rebuilt in place.
LEMMA FromWhole ==
  ASSUME IInv, [Next]_vars, Whole
  PROVE  Whole' \/ ~Own'
<1>1. TypeOK /\ Side = {"client", "server"} /\ None = 0 /\ Building = {"keys", "spaces", "path"}
      /\ 1 \in Path
  BY Shapes, StageNames, Lengths DEF IInv, Path
<1>2. CASE Apart
  BY <1>2, ApartEffect
<1>3. CASE DropNamespace \/ DeleteLink
  <2>1. Works /\ call.stage \in {"drop", "links"}
    BY <1>3 DEF Works, DropNamespace, DeleteLink, At
  <2> QED
    BY <1>1, <2>1, Course DEF Own
<1>4. CASE UnlinkKey \/ PrepareKey
  BY <1>4 DEF UnlinkKey, PrepareKey, network, Whole, Reachable
<1>5. CASE Exit
  BY <1>1, <1>5, ExitKeeps
<1>6. CASE AddNamespace
  <2>1. space[SideOf(call.n)] = None /\ SideOf(call.n) \in Side
    BY <1>1, <1>6, Places DEF AddNamespace, At
  <2> QED
    BY <1>1, <2>1 DEF Whole, Reachable
<1>7. CASE AddWire
  BY <1>1, <1>7, WireEffect DEF Whole, Reachable, Bare
<1>8. CASE MoveEnd
  <2>1. Of \in Path /\ On \in Side /\ link[Of][On] < 0
    BY <1>1, <1>8, MoveEffect
  <2>2. PICK p \in Path, s \in Side : link[p][s] < 0
    BY <2>1
  <2>3. space[s] \in Nat
    BY <1>1 DEF TypeOK, Setup
  <2> QED
    BY <2>2, <2>3 DEF Whole, Reachable
<1>9. CASE AddTunnel
  <2>1. Of \in Path /\ On \in Side /\ ~tunnel[Of][On].there
    BY <1>1, <1>9, TunnelEffect DEF AddTunnel
  <2>2. PICK p \in Path, s \in Side : ~tunnel[p][s].there
    BY <2>1
  <2> QED
    BY <2>2 DEF Whole
<1>10. CASE ConfigurePeer
  <2>1. Of \in Path /\ Nth \in {6, 7} /\ Bound(Of, "server")
    <3>1. call.stage = "path" /\ Of \in Path /\ Nth \in {6, 7}
      BY <1>1, <1>10, PeerEffect
    <3> QED
      BY <3>1, AtPath DEF Partial
  <2>2. tunnel[Of]["server"].own = NoKey
    BY <2>1 DEF Bound, NoTunnel
  <2>3. PICK p \in Path : tunnel[p]["server"].own = NoKey
    BY <2>1, <2>2
  <2> QED
    BY <1>1, <2>3 DEF Whole
<1> QED
  BY <1>2, <1>3, <1>4, <1>5, <1>6, <1>7, <1>8, <1>9, <1>10, LifeSteps

\* What becomes whole was made by the setup under way.
LEMMA ToWhole ==
  ASSUME IInv, [Next]_vars, Whole'
  PROVE  Whole \/ Own
<1>1. TypeOK /\ TypeOK' /\ Side = {"client", "server"} /\ None = 0 /\ Building = {"keys", "spaces", "path"}
      /\ 1 \in Path /\ Path = 1 .. Paths /\ Paths \in Nat
  BY StepType, Shapes, StageNames, Lengths DEF IInv, Path
<1>2. \A p \in Path, s \in Side :
         /\ space'[s] # None /\ link'[p][s] = space'[s]
         /\ tunnel'[p][s].there /\ tunnel'[p][s].own # NoKey
  BY DEF Whole, Reachable
<1>3. \A p \in Path, s \in Side : link'[p][s] > 0
  <2>1. \A s \in Side : space'[s] \in Nat
    BY <1>1, Lengths DEF TypeOK, Setup
  <2> QED
    BY <1>1, <1>2, <2>1
<1>4. CASE Apart
  BY <1>4, ApartEffect
<1>5. CASE DropNamespace
  BY <1>1, <1>2, <1>5, DropEffect
<1>6. CASE DeleteLink
  <2>1. UNCHANGED <<space, tunnel>> /\ \A p \in Path, t \in Side : link'[p][t] = link[p][t]
    BY <1>1, <1>3, <1>6, DeleteEffect
  <2> QED
    BY <2>1 DEF Whole, Reachable
<1>7. CASE UnlinkKey \/ PrepareKey
  BY <1>7 DEF UnlinkKey, PrepareKey, network, Whole, Reachable
<1>8. CASE Exit
  <2>1. UNCHANGED <<space, tunnel>> /\ \A p \in Path, t \in Side : link'[p][t] = link[p][t]
    <3>1. PICK e \in echo :
             /\ \A p \in Path, t \in Side :
                   IF link[p]["server"] = e /\ space["server"] # e
                   THEN link'[p][t] = None /\ netem'[p][t] = Unset
                   ELSE link'[p][t] = link[p][t] /\ netem'[p][t] = netem[p][t]
             /\ UNCHANGED <<space, tunnel, key, call, told, faults>>
      BY <1>1, <1>8, ExitEffect
    <3> QED
      BY <1>1, <1>3, <3>1
  <2> QED
    BY <2>1 DEF Whole, Reachable
<1>9. CASE AddNamespace
  <2>1. call.stage = "spaces" /\ UNCHANGED link /\ SideOf(call.n) \in Side
        /\ space' = [space EXCEPT ![SideOf(call.n)] = Current]
    BY <1>1, <1>9, Places DEF AddNamespace, At, Current
  <2>2. OldLink(1)
    BY <1>1, <2>1 DEF IInv, Built
  <2>3. space'[SideOf(call.n)] = Current
    BY <1>1, <2>1 DEF TypeOK
  <2>4. Current \in Nat /\ link[1][SideOf(call.n)] \in Int
    BY <1>1, <2>1, Shapes, Lengths DEF Current
  <2> QED
    BY <1>1, <1>2, <2>1, <2>2, <2>3, <2>4 DEF OldLink
<1>10. CASE AddWire \/ MoveEnd \/ AddTunnel \/ ConfigurePeer
  <2>1. call.stage = "path"
    BY <1>10 DEF AddWire, MoveEnd, AddTunnel, ConfigurePeer, Doing, At
  <2>2. /\ Of \in Path /\ Nth \in 1 .. 9 /\ Partial(Of, Nth) /\ call.stage \in Building
        /\ \A s \in Side : space[s] = Current
        /\ Current > 0 /\ Current \in Nat
        /\ \A p \in Path : p < Of => Made(p)
        /\ \A p \in Path : p > Of => Unmade(p)
    BY <2>1, AtPath
  <2>3. CASE AddWire
    BY <1>1, <1>3, <2>2, <2>3, WireEffect
  <2>4. CASE MoveEnd
    <3>1. Nth \in {2, 3} /\ UNCHANGED tunnel
      BY <1>1, <2>4, MoveEffect
    <3>2. tunnel[Of]["server"] = NoTunnel
      BY <2>2, <3>1 DEF Partial
    <3> QED
      BY <1>1, <1>2, <2>2, <3>1, <3>2 DEF NoTunnel
  <2>5. CASE AddTunnel
    <3>1. On \in Side /\ tunnel'[Of][On] = [NoTunnel EXCEPT !.there = TRUE]
      BY <1>1, <2>2, <2>5, TunnelEffect
    <3> QED
      BY <1>2, <2>2, <3>1 DEF NoTunnel
  <2>6. CASE ConfigurePeer
    <3>1. /\ Nth \in {6, 7} /\ UNCHANGED <<space, link>> /\ On = IF Nth = 7 THEN "server" ELSE "client"
          /\ \A p \in Path, s \in Side : tunnel'[p][s] = tunnel[p][s] \/ (p = Of /\ s = On)
      BY <1>1, <2>6, PeerEffect
    <3>2. Nth = 7
      <4>1. CASE Nth = 6
        <5>1. tunnel'[Of]["server"] = tunnel[Of]["server"] /\ Bound(Of, "server")
          BY <1>1, <2>2, <3>1, <4>1 DEF Partial
        <5> QED
          BY <1>1, <1>2, <2>2, <5>1 DEF Bound, NoTunnel
      <4> QED
        BY <3>1, <4>1
    <3>3. ASSUME NEW p \in Path, p > Of PROVE FALSE
      <4>1. tunnel[p]["client"] = NoTunnel /\ tunnel'[p]["client"] = tunnel[p]["client"]
        BY <1>1, <2>2, <3>1, <3>3 DEF Unmade
      <4> QED
        BY <1>1, <1>2, <4>1 DEF NoTunnel
    <3>4. ASSUME NEW p \in Path, NEW s \in Side PROVE link[p][s] = Current
      <4>1. CASE p = Of
        BY <2>2, <3>2, <4>1 DEF Partial, Joined
      <4>2. CASE p < Of
        BY <2>2, <4>2 DEF Made, Joined
      <4> QED
        BY <1>1, <2>2, <3>3, <4>1, <4>2
    <3> QED
      BY <2>2, <3>4 DEF Own
  <2> QED
    BY <1>10, <2>3, <2>4, <2>5, <2>6
<1> QED
  BY <1>4, <1>5, <1>6, <1>7, <1>8, <1>9, <1>10, LifeSteps

\* LifecycleSpec: what a failed or killed setup left behind is never completed
\* by a later one, and an impairment or a cleanup never rebuilds: the
\* laboratory steps as LabLifecycle does.
THEOREM ImplementsLifecycle == Spec => LifecycleSpec
<1>1. ASSUME IInv PROVE ~(Nothing /\ Whole)
  <2>1. 1 \in Path /\ "client" \in Side
    BY Lengths DEF Path, Side
  <2> QED
    BY <2>1 DEF Nothing, Named, Whole, Reachable
<1>2. LifeStage = IF Nothing THEN "absent" ELSE IF Whole THEN "up" ELSE IF Own THEN "building" ELSE "leftover"
  BY DEF LifeStage, Own, Current
<1>3. LifeStage' = IF Nothing' THEN "absent" ELSE IF Whole' THEN "up" ELSE IF Own' THEN "building"
                   ELSE "leftover"
  BY DEF LifeStage, Own, Current
<1>4. Init => Lifecycle!Init
  <2>1. ASSUME Init PROVE Nothing
    BY <2>1 DEF Init, Nothing, Named, Keyed
  <2> QED
    BY <1>2, <2>1 DEF Lifecycle!Init
<1>5. IInv /\ [Next]_vars => [Lifecycle!Next]_LifeStage
  <2>1. SUFFICES ASSUME IInv, [Next]_vars PROVE [Lifecycle!Next]_LifeStage
    OBVIOUS
  <2>2. /\ Nothing => Nothing' \/ (Own' /\ ~Whole')
        /\ Own' => Own \/ Nothing \/ Nothing'
        /\ Whole => Whole' \/ ~Own'
        /\ Whole' => Whole \/ Own
    BY <2>1, FromNothing, ToOwn, FromWhole, ToWhole
  <2> QED
    BY <1>1, <1>2, <1>3, <2>1, <2>2
       DEF Lifecycle!Next, Lifecycle!Begin, Lifecycle!Complete, Lifecycle!Break, Lifecycle!Remove
<1> QED
  BY <1>4, <1>5, LabInvariant, PTL DEF Spec, LifecycleSpec, Lifecycle!Spec

=============================================================================
