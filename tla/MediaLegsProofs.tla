--------------------------- MODULE MediaLegsProofs ---------------------------
(***************************************************************************)
(* Proofs of the safety properties of MediaLegs, for any number of legs,   *)
(* tries, lives of the script and processes that are left behind.          *)
(***************************************************************************)
EXTENDS MediaLegs, TLAPS

Working == main.pc \in {"start", "listen", "sending", "read", "got"}

\* Whether p belongs to this life, to an earlier leg of it, to an earlier
\* attempt at this leg.
Now(p)     == p.attempt[1] = main.life
Earlier(p) == p.attempt[2] < main.leg
Before(p)  == p.attempt[2] = main.leg /\ p.attempt[3] < main.attempt

\* Where the processes of this life are: those of earlier legs and attempts
\* on lower ports, those of this attempt on its port.
Placed(p) ==
    /\ p.attempt[1] <= main.life
    /\ Now(p) /\ main.pc = "next"  => Earlier(p) /\ p.port < main.port
    /\ Now(p) /\ main.pc = "write" => p.attempt[2] <= main.leg /\ p.port < main.port
    /\ Now(p) /\ Working =>
          \/ (Earlier(p) \/ Before(p)) /\ p.port < main.port
          \/ p.attempt = Me /\ p.port = main.port

Places == (\A p \in receivers : Placed(p)) /\ (\A s \in senders : Placed(s))

\* While nothing of an earlier life is alive, this attempt's receivers have
\* heard its own sender only, and so has whoever printed what is to be read.
OfThis(r) == r # None => r.by = Me /\ r.got \subseteq {"own"}
Calm ==
    Working /\ ~main.haunted =>
        /\ \A p \in receivers : Now(p) /\ (p.attempt = Me => p.got \subseteq {"own"})
        /\ \A s \in senders : Now(s)
        /\ OfThis(file.result) /\ OfThis(main.result)

Untouched == main.pc # "got" => main.result = None

\* What is kept was accepted for good reason, in this life or before.
Accepted(kept) ==
    \A l \in Leg :
        kept[l] # None /\ kept[l].got # {} /\ ~kept[l].haunted =>
            kept[l].own /\ kept[l].got = {"own"}

\* The script remembers what is on the disk, and works on what is not there.
Remembered ==
    main.pc # "off" => \A l \in Leg : disk[l] # None => main.kept[l] = disk[l]
AtWork ==
    /\ main.leg >= 1
    /\ Working \/ main.pc = "write" => main.leg \in Leg /\ disk[main.leg] = None

IInv == /\ TypeOK /\ Places /\ Calm /\ Untouched
        /\ Accepted(main.kept) /\ Accepted(disk) /\ Remembered /\ AtWork

-----------------------------------------------------------------------------
USE MediaAssumption

LEMMA Fields ==
  ASSUME NEW m \in Main
  PROVE  /\ m.pc \in PC /\ m.life \in Nat /\ m.leg \in Nat /\ m.attempt \in Nat
         /\ m.tries \in Nat /\ m.port \in Nat /\ m.result \in Results
         /\ m.haunted \in BOOLEAN /\ m.kept \in Kept
BY DEF Main

LEMMA Changes ==
  ASSUME NEW m \in Main
  PROVE  /\ \A x \in PC : [m EXCEPT !.pc = x] \in Main
         /\ \A n, o \in Nat : [m EXCEPT !.leg = n, !.port = o] \in Main
         /\ \A x \in PC, b \in BOOLEAN : [m EXCEPT !.pc = x, !.haunted = b] \in Main
         /\ \A x \in PC, n \in Nat : [m EXCEPT !.pc = x, !.tries = n] \in Main
         /\ \A n \in Nat : [m EXCEPT !.tries = n] \in Main
         /\ \A x \in PC, r \in Results : [m EXCEPT !.pc = x, !.result = r] \in Main
         /\ \A x \in PC, n, o \in Nat, r \in Results, b \in BOOLEAN :
               [m EXCEPT !.pc = x, !.attempt = n, !.result = r, !.port = o, !.haunted = b] \in Main
         /\ \A x \in PC, o \in Nat, r \in Results, b \in BOOLEAN, k \in Kept :
               [m EXCEPT !.pc = x, !.result = r, !.haunted = b, !.kept = k, !.port = o] \in Main
         /\ \A x \in PC, n, o \in Nat : [m EXCEPT !.pc = x, !.leg = n, !.attempt = o] \in Main
BY DEF Main

LEMMA Codes == \A s \in {"off", "next", "start", "listen", "sending", "read", "got", "write"} : s \in PC
BY DEF PC

LEMMA Begun ==
  /\ Off \in Main
  /\ \A kept \in Kept, n \in Nat :
        [Off EXCEPT !.pc = "next", !.life = n, !.kept = kept] \in Main
  /\ \A n \in Nat : [Off EXCEPT !.life = n] \in Main
  /\ Nothing \in File /\ None \in Results /\ None \in Keeps /\ 0 \in Nat
<1>1. None \in Results /\ None \in Keeps
  BY DEF Results, Keeps
<1>2. [l \in Leg |-> None] \in Kept
  BY <1>1 DEF Kept
<1> QED
  BY <1>1, <1>2 DEF Off, Main, PC, Nothing, File

LEMMA InitIInv == Init => IInv
<1> SUFFICES ASSUME Init PROVE IInv
  OBVIOUS
<1>1. TypeOK
  <2>1. [l \in Leg |-> None] \in Kept
    BY Begun DEF Kept
  <2> QED
    BY <2>1, Begun DEF Init, TypeOK
<1>2. main.pc = "off" /\ main.result = None /\ main.kept = [l \in Leg |-> None]
  BY DEF Init, Off
<1>5. main.leg = 1
  BY DEF Init, Off
<1>3. Places /\ Calm /\ Untouched /\ Remembered /\ AtWork
  BY <1>2, <1>5 DEF Init, Places, Calm, Untouched, Remembered, AtWork, Working
<1>4. Accepted(main.kept) /\ Accepted(disk)
  BY <1>2 DEF Init, Accepted
<1> QED
  BY <1>1, <1>3, <1>4 DEF IInv

-----------------------------------------------------------------------------
LEMMA Types == TypeOK /\ [Next]_vars => TypeOK'
<1> SUFFICES ASSUME TypeOK, [Next]_vars PROVE TypeOK'
  OBVIOUS
<1> USE DEF TypeOK
<1>0. Me \in Attempts
  BY Fields DEF Me, Attempts
<1>1. CASE Begin
  <2> DEFINE n == main.life + 1
  <2>1. n \in Nat
    BY Fields
  <2>2. main' = [Off EXCEPT !.pc = "next", !.life = n, !.kept = disk]
    BY <1>1 DEF Begin
  <2> HIDE DEF n
  <2>3. [Off EXCEPT !.pc = "next", !.life = n, !.kept = disk] \in Main
    BY <2>1, Begun
  <2> QED
    BY <1>1, <2>2, <2>3 DEF Begin
<1>2. CASE Skip
  <2> DEFINE n == main.leg + 1
             o == main.port + 1
  <2>1. n \in Nat /\ o \in Nat
    BY Fields
  <2>2. main' = [main EXCEPT !.leg = n, !.port = o]
    BY <1>2 DEF Skip
  <2> HIDE DEF n, o
  <2>3. main' \in Main
    BY <2>1, <2>2, Changes
  <2> QED
    BY <1>2, <2>3 DEF Skip
<1>3. CASE RunLeg
  <2> DEFINE e == \E a \in Alive : a[1] < main.life
  <2>1. e \in BOOLEAN
    OBVIOUS
  <2> HIDE DEF e
  <2>2. main' = [main EXCEPT !.pc = "start", !.haunted = e]
    BY <1>3 DEF RunLeg, e
  <2> QED
    <3>1. [main EXCEPT !.pc = "start", !.haunted = e] \in Main
      BY <2>1, Changes, Codes
    <3> QED
      BY <1>3, <2>2, <3>1, Begun DEF RunLeg
<1>4. CASE StartReceiver
  <2>1. PICK ok \in BOOLEAN, ran \in BOOLEAN : StartReceiver!2!(ok, ran)
    BY <1>4 DEF StartReceiver
  <2>2. main' \in Main
    <3> DEFINE n == main.tries + 1
    <3>1. n \in Nat
      BY Fields
    <3>2. \/ main' = [main EXCEPT !.pc = "listen", !.tries = 0]
          \/ main' = [main EXCEPT !.pc = "got", !.tries = 0]
          \/ main' = [main EXCEPT !.tries = n]
      BY <2>1 DEF Failed
    <3> HIDE DEF n
    <3>3. /\ [main EXCEPT !.pc = "listen", !.tries = 0] \in Main
          /\ [main EXCEPT !.pc = "got", !.tries = 0] \in Main
          /\ [main EXCEPT !.tries = n] \in Main
      BY <3>1, Begun, Changes, Codes
    <3> QED
      BY <3>2, <3>3
  <2>3. [attempt |-> Me, try |-> main.tries, leg |-> main.leg, port |-> main.port,
         bound |-> FALSE, got |-> {}] \in Receiver
    BY <1>0, Fields DEF Receiver
  <2> QED
    BY <1>4, <2>1, <2>2, <2>3 DEF StartReceiver
<1>5. CASE AwaitListening
  <2>1. [attempt |-> Me, port |-> main.port] \in Sender
    BY <1>0, Fields DEF Sender
  <2>2. main' \in Main
    <3>1. [main EXCEPT !.pc = "sending"] \in Main /\ [main EXCEPT !.pc = "got", !.tries = 0] \in Main
      BY Begun, Changes, Codes
    <3> QED
      BY <1>5, <3>1 DEF AwaitListening, Go, Failed
  <2> QED
    BY <1>5, <2>1, <2>2 DEF AwaitListening
<1>6. CASE SenderReturns
  <2>1. main' \in Main
    <3>1. [main EXCEPT !.pc = "read"] \in Main /\ [main EXCEPT !.pc = "got", !.tries = 0] \in Main
      BY Begun, Changes, Codes
    <3> QED
      BY <1>6, <3>1 DEF SenderReturns, Go, Failed
  <2> QED
    BY <1>6, <2>1 DEF SenderReturns
<1>7. CASE AwaitResult
  <2>1. PICK r \in {Shown, None} : main' = [main EXCEPT !.pc = "got", !.result = r]
    BY <1>7 DEF AwaitResult
  <2>2. r \in Results
    BY Begun DEF Shown, File
  <2> QED
    BY <1>7, <2>1, <2>2, Changes, Codes DEF AwaitResult
<1>8. CASE Retry
  <2> DEFINE e == \E a \in Alive : a[1] < main.life
             o == main.port + 1
  <2>1. e \in BOOLEAN /\ o \in Nat
    BY Fields
  <2>2. main' = [main EXCEPT !.pc = "start", !.attempt = 2, !.result = None, !.port = o,
                             !.haunted = e]
    BY <1>8 DEF Retry
  <2> HIDE DEF e, o
  <2>3. main' \in Main
    BY <2>1, <2>2, Begun, Changes, Codes
  <2> QED
    BY <1>8, <2>3, Begun DEF Retry
<1>9. CASE Keep
  <2> DEFINE e == main.result.by = Me
             r == IF main.result = None THEN None
                  ELSE [own |-> e, got |-> main.result.got, haunted |-> main.haunted]
             kept == [main.kept EXCEPT ![main.leg] = r]
             o == main.port + (IF Something(main.result) THEN 1 ELSE 2)
  <2>1. e \in BOOLEAN /\ o \in Nat
    BY Fields
  <2>2. r \in Keeps
    <3> HIDE DEF e
    <3>1. CASE main.result = None
      BY <3>1, Begun
    <3>2. CASE main.result # None
      <4>1. main.result.got \in SUBSET Whose
        BY <3>2, Fields DEF Results
      <4>2. r = [own |-> e, got |-> main.result.got, haunted |-> main.haunted]
        BY <3>2
      <4> QED
        BY <2>1, <4>1, <4>2, Fields DEF Keeps
    <3> QED
      BY <3>1, <3>2
  <2>3. main' = [main EXCEPT !.pc = "write", !.result = None, !.haunted = FALSE,
                             !.kept = kept, !.port = o]
    BY <1>9 DEF Keep
  <2> HIDE DEF r, o
  <2>4. kept \in Kept
    BY <2>2, Fields DEF Kept
  <2> HIDE DEF kept
  <2>5. main' \in Main
    BY <2>1, <2>3, <2>4, Begun, Changes, Codes
  <2> QED
    BY <1>9, <2>5 DEF Keep
<1>10. CASE Checkpoint
  <2> DEFINE n == main.leg + 1
  <2>1. n \in Nat
    BY Fields
  <2>2. main' = [main EXCEPT !.pc = "next", !.leg = n, !.attempt = 1]
    BY <1>10 DEF Checkpoint
  <2> HIDE DEF n
  <2>3. main' \in Main
    BY <2>1, <2>2, Changes, Codes
  <2> QED
    BY <1>10, <2>3, Fields DEF Checkpoint
<1>11. CASE Finish
  BY <1>11, Begun, Fields DEF Finish, Stop
<1>12. CASE Kill
  BY <1>12, Begun, Fields DEF Kill, Stop
<1>13. CASE SenderEnds
  BY <1>13 DEF SenderEnds
<1>14. ASSUME NEW p \in receivers, ComeUp(p) PROVE TypeOK'
  <2>1. [p EXCEPT !.bound = TRUE] \in Receiver
    BY DEF Receiver
  <2>2. [Nothing EXCEPT !.head = "error"] \in File /\ [Nothing EXCEPT !.head = "listening"] \in File
    BY Begun DEF File
  <2> QED
    BY <1>14, <2>1, <2>2 DEF ComeUp, Becomes, Prints
<1>15. ASSUME NEW p \in receivers, Arrive(p) PROVE TypeOK'
  <2>1. \A s \in senders :
          [p EXCEPT !.got = @ \cup {IF s.attempt = p.attempt THEN "own" ELSE "other"}] \in Receiver
    BY DEF Receiver, Whose
  <2> QED
    BY <1>15, <2>1 DEF Arrive, Becomes
<1>16. ASSUME NEW p \in receivers, PrintResult(p) PROVE TypeOK'
  <2>1. Result(p) \in Results
    BY DEF Result, Results, Receiver
  <2>2. [file EXCEPT !.result = Result(p)] \in File
    BY <2>1 DEF File
  <2> QED
    BY <1>16, <2>2 DEF PrintResult, Prints
<1>17. CASE UNCHANGED vars
  BY <1>17 DEF vars
<1> QED
  BY <1>1, <1>2, <1>3, <1>4, <1>5, <1>6, <1>7, <1>8, <1>9, <1>10, <1>11, <1>12, <1>13, <1>14,
     <1>15, <1>16, <1>17 DEF Next, Script

-----------------------------------------------------------------------------
\* What a step leaves of the script's place.
Stays == /\ main'.life = main.life /\ main'.leg = main.leg
         /\ main'.attempt = main.attempt /\ main'.port = main.port
         /\ main'.kept = main.kept /\ main'.haunted = main.haunted

LEMMA Seats ==
  ASSUME TypeOK
  PROVE  /\ \A p \in receivers : p.attempt \in Attempts /\ p.port \in Nat
         /\ \A s \in senders : s.attempt \in Attempts /\ s.port \in Nat
         /\ main \in Main
BY DEF TypeOK, Receiver, Sender

\* A step that leaves the script where it is, and adds no process.
LEMMA StayingIsSafe ==
  ASSUME IInv, Stays, Working, main'.pc \in {"start", "listen", "sending", "read", "got"},
         \A s \in senders' : s \in senders \/ (s.attempt = Me /\ s.port = main.port),
         \A p \in receivers' : p \in receivers \/ (p.attempt = Me /\ p.port = main.port /\ p.got = {}),
         main'.result \in {None, main.result, file.result},
         main'.pc # "got" => main'.result = None,
         UNCHANGED <<disk, file>>, TypeOK'
  PROVE  IInv'
<1>0. Me' = Me /\ Working' /\ main'.pc # "next" /\ main'.pc # "write" /\ main.life \in Nat
  BY Fields DEF Me, Stays, Working, IInv, TypeOK
<1>1. Places'
  <2>1. ASSUME NEW p, Placed(p) PROVE Placed(p)'
    BY <1>0, <2>1 DEF Placed, Stays, Now, Earlier, Before
  <2>2. ASSUME NEW p, p.attempt = Me, p.port = main.port PROVE Placed(p)'
    <3>1. p.attempt[1] = main.life
      BY <2>2 DEF Me
    <3> QED
      BY <1>0, <2>2, <3>1 DEF Placed, Stays, Now, Earlier, Before
  <2> QED
    BY <2>1, <2>2 DEF IInv, Places
<1>2. Calm'
  <2> SUFFICES ASSUME Working', ~main'.haunted PROVE Calm!2'
    BY DEF Calm
  <2>1. Calm!2
    BY DEF IInv, Calm, Stays
  <2>2. Me' = Me
    BY DEF Me, Stays
  <2> QED
    BY <2>1, <2>2 DEF Now, Me, OfThis, Stays
<1>3. Untouched'
  BY DEF Untouched
<1>4. Accepted(main.kept)' /\ Accepted(disk)'
  BY DEF IInv, Accepted, Stays
<1>5. Remembered' /\ AtWork'
  BY DEF IInv, Remembered, AtWork, Stays, Working
<1> QED
  BY <1>1, <1>2, <1>3, <1>4, <1>5 DEF IInv

\* The script is over.
LEMMA StoppingIsSafe ==
  ASSUME IInv, Stop, receivers' \subseteq receivers, senders' \subseteq senders,
         UNCHANGED <<disk, file>>, TypeOK'
  PROVE  IInv'
<1>1. /\ main'.life = main.life /\ main'.pc = "off" /\ main'.leg = 1 /\ main'.result = None
      /\ main'.kept = [l \in Leg |-> None]
  BY DEF Stop, Off
<1>2. ~Working' /\ Untouched'
  BY <1>1 DEF Working, Untouched
<1>3. Places'
  BY <1>1, <1>2 DEF IInv, Places, Placed
<1>4. Calm' /\ Remembered' /\ AtWork'
  BY <1>1, <1>2 DEF Calm, Remembered, AtWork
<1>5. Accepted(main.kept)' /\ Accepted(disk)'
  BY <1>1 DEF IInv, Accepted
<1> QED
  BY <1>2, <1>3, <1>4, <1>5 DEF IInv

\* An attempt begins: nothing is on its port that is not of an earlier life.
LEMMA BeginningIsSafe ==
  ASSUME IInv, main'.life = main.life, main'.leg = main.leg, main'.kept = main.kept,
         main'.pc = "start", main'.result = None,
         \/ main.pc = "next" /\ main'.attempt = main.attempt /\ main'.port = main.port
         \/ Working /\ main.attempt = 1 /\ main'.attempt = 2 /\ main'.port = main.port + 1,
         ~main'.haunted => \A a \in Alive : ~(a[1] < main.life),
         main.leg \in Leg, disk[main.leg] = None,
         file' = Nothing, UNCHANGED <<disk, receivers, senders>>, TypeOK'
  PROVE  IInv'
<1>1. /\ TypeOK /\ main \in Main /\ main.port \in Nat /\ main.life \in Nat /\ main.leg \in Nat
      /\ main.attempt \in Nat /\ main.pc # "write"
  BY Seats, Fields DEF IInv, Working
<1>2. Working' /\ main'.pc = "start"
  BY DEF Working
<1>3. ASSUME NEW p, Placed(p), p.port \in Nat, p.attempt \in Attempts
      PROVE  Placed(p)' /\ (Now(p) => p.attempt # Me')
  <2>0. p.attempt[1] \in Nat /\ p.attempt[2] \in Nat /\ p.attempt[3] \in Nat
    BY <1>3 DEF Attempts
  <2>1. CASE main.pc = "next"
    <3>1. p.attempt = Me' => p.attempt[2] = main.leg
      BY DEF Me
    <3>2. Now(p) => Earlier(p) /\ p.port < main'.port
      BY <1>3, <2>1 DEF Placed, Working
    <3> QED
      BY <1>1, <1>2, <1>3, <2>0, <2>1, <3>1, <3>2 DEF Placed, Now, Earlier, Before, Working
  <2>2. CASE Working /\ main.attempt = 1 /\ main'.attempt = 2 /\ main'.port = main.port + 1
    <3>1. p.attempt = Me => p.attempt[2] = main.leg /\ p.attempt[3] = main.attempt
      BY DEF Me
    <3>2. p.attempt = Me' => p.attempt[2] = main.leg /\ p.attempt[3] = 2
      BY <2>2 DEF Me
    <3>3. Now(p) => /\ \/ Earlier(p)
                       \/ p.attempt[2] = main.leg /\ p.attempt[3] <= 1
                    /\ p.port < main'.port
      <4>1. Now(p) => \/ (Earlier(p) \/ Before(p)) /\ p.port < main.port
                      \/ p.attempt = Me /\ p.port = main.port
        BY <1>3, <2>2 DEF Placed
      <4> QED
        BY <1>1, <1>3, <2>0, <2>2, <3>1, <4>1 DEF Before
    <3> QED
      BY <1>1, <1>2, <1>3, <2>0, <2>2, <3>2, <3>3 DEF Placed, Now, Earlier, Before, Working
  <2> QED
    BY <2>1, <2>2
<1>4. Places'
  BY <1>1, <1>3, Seats DEF IInv, Places
<1>5. Calm'
  <2> SUFFICES ASSUME ~main'.haunted PROVE Calm!2'
    BY DEF Calm
  <2>1. \A p \in receivers : Now(p)
    BY <1>1, Seats DEF Alive, IInv, Places, Placed, Now, Attempts
  <2>2. \A s \in senders : Now(s)
    BY <1>1, Seats DEF Alive, IInv, Places, Placed, Now, Attempts
  <2>3. file'.result = None
    BY DEF Nothing
  <2> QED
    BY <1>1, <1>3, <2>1, <2>2, <2>3, Seats DEF IInv, Places, Now, OfThis
<1>6. Untouched' /\ Accepted(main.kept)' /\ Accepted(disk)'
  BY DEF Untouched, IInv, Accepted
<1>7. Remembered' /\ AtWork'
  BY DEF IInv, Remembered, AtWork, Working
<1> QED
  BY <1>4, <1>5, <1>6, <1>7 DEF IInv

\* A step of the node moves no process, and what is heard and printed while
\* nothing of an earlier life is alive is this attempt's.
LEMMA NodeIsSafe ==
  ASSUME IInv, TypeOK', UNCHANGED <<main, disk>>, senders' \subseteq senders,
         \A q \in receivers' : \E p \in receivers :
            /\ q.attempt = p.attempt /\ q.port = p.port
            /\ q.got = p.got
                 \/ \E s \in senders : /\ s.port = p.port
                                      /\ (s.attempt = p.attempt => q.got = p.got \cup {"own"}),
         \/ file' = file \/ file'.result = None
         \/ \E p \in receivers : p.port = main.port /\ file'.result = Result(p)
  PROVE  IInv'
<1>1. Me' = Me /\ Working' = Working /\ (\A p : Now(p)' = Now(p) /\ Placed(p)' = Placed(p))
  BY DEF Me, Working, Now, Placed, Earlier, Before
<1>2. Places'
  <2>1. ASSUME NEW p, NEW q, Placed(p), q.attempt = p.attempt, q.port = p.port PROVE Placed(q)
    BY <2>1 DEF Placed, Now, Earlier, Before
  <2> QED
    BY <1>1, <2>1 DEF IInv, Places
<1>3. ASSUME Working, NEW p, Placed(p), Now(p), p.port = main.port, main.port \in Nat
      PROVE  p.attempt = Me
  BY <1>3 DEF Placed
<1>4. Calm'
  <2> SUFFICES ASSUME Working, ~main.haunted PROVE Calm!2'
    BY <1>1 DEF Calm
  <2>1. Calm!2 /\ main.port \in Nat /\ main.leg \in Nat /\ main.attempt \in Nat /\ Places
    BY Fields DEF IInv, Calm, TypeOK
  <2>2. \A s \in senders' : Now(s)'
    BY <1>1, <2>1
  <2>3. ASSUME NEW q \in receivers' PROVE Now(q) /\ (q.attempt = Me => q.got \subseteq {"own"})
    <3>1. PICK p \in receivers :
            /\ q.attempt = p.attempt /\ q.port = p.port
            /\ q.got = p.got
                 \/ \E s \in senders : /\ s.port = p.port
                                      /\ (s.attempt = p.attempt => q.got = p.got \cup {"own"})
      OBVIOUS
    <3>2. Now(q)
      BY <2>1, <3>1 DEF Now
    <3>3. ASSUME q.attempt = Me PROVE q.got \subseteq {"own"}
      <4>1. p.got \subseteq {"own"} /\ Now(p) /\ Placed(p)
        BY <2>1, <3>1, <3>3 DEF Places
      <4>2. p.port = main.port
        <5>1. p.attempt[2] = main.leg /\ p.attempt[3] = main.attempt
          BY <3>1, <3>3 DEF Me
        <5>2. ~Earlier(p) /\ ~Before(p)
          BY <5>1, <2>1 DEF Earlier, Before
        <5> QED
          BY <4>1, <5>2 DEF Placed
      <4>3. \A s \in senders : s.port = p.port => s.attempt = p.attempt
        BY <1>3, <2>1, <3>1, <3>3, <4>2 DEF Places
      <4>4. CASE q.got = p.got
        BY <4>1, <4>4
      <4>5. ASSUME NEW s \in senders, s.port = p.port, s.attempt = p.attempt => q.got = p.got \cup {"own"}
            PROVE  q.got \subseteq {"own"}
        BY <4>1, <4>3, <4>5
      <4>6. CASE \E s \in senders : /\ s.port = p.port
                                     /\ (s.attempt = p.attempt => q.got = p.got \cup {"own"})
        BY <4>5, <4>6
      <4> QED
        BY <3>1, <4>4, <4>6
    <3> QED
      BY <3>2, <3>3
  <2>4. OfThis(file'.result)
    <3>1. CASE file' = file \/ file'.result = None
      BY <2>1, <3>1 DEF OfThis
    <3>2. CASE \E p \in receivers : p.port = main.port /\ file'.result = Result(p)
      BY <1>3, <2>1, <3>2 DEF OfThis, Result, Places
    <3> QED
      BY <3>1, <3>2
  <2> QED
    BY <1>1, <2>1, <2>2, <2>3, <2>4 DEF OfThis
<1>5. /\ Untouched' /\ Accepted(main.kept)' /\ Accepted(disk)'
      /\ Remembered' /\ AtWork'
  BY DEF IInv, Untouched, Accepted, Remembered, AtWork, Working
<1> QED
  BY <1>2, <1>4, <1>5 DEF IInv

-----------------------------------------------------------------------------
LEMMA StepIInv == IInv /\ [Next]_vars => IInv'
<1> SUFFICES ASSUME IInv, [Next]_vars PROVE IInv'
  OBVIOUS
<1>0. /\ TypeOK /\ TypeOK' /\ main \in Main /\ main.leg \in Nat /\ main.port \in Nat /\ main.life \in Nat
      /\ main.leg >= 1
  BY Types, Fields DEF IInv, TypeOK, AtWork
<1>1. CASE Begin
  <2>1. /\ main'.life = main.life + 1 /\ main'.pc = "next" /\ main'.leg = 1 /\ main'.result = None
        /\ main'.kept = disk
    BY <1>1 DEF Begin, Off
  <2>2. UNCHANGED <<disk, receivers, senders>>
    BY <1>1 DEF Begin
  <2>3. ASSUME NEW p, Placed(p), p.attempt \in Attempts PROVE Placed(p)'
    BY <1>0, <2>1, <2>3 DEF Placed, Now, Working, Attempts
  <2>4. Places'
    BY <1>0, <2>2, <2>3, Seats DEF IInv, Places
  <2>5. Calm' /\ Untouched' /\ Remembered' /\ AtWork'
    BY <2>1, <2>2 DEF Calm, Untouched, Remembered, AtWork, Working
  <2>6. Accepted(main.kept)' /\ Accepted(disk)'
    BY <2>1, <2>2 DEF IInv, Accepted
  <2> QED
    BY <1>0, <2>4, <2>5, <2>6 DEF IInv
<1>2. CASE Skip
  <2>1. /\ main'.life = main.life /\ main'.pc = "next" /\ main.pc = "next" /\ main'.leg = main.leg + 1
        /\ main'.port = main.port + 1 /\ main'.result = main.result /\ main'.kept = main.kept
        /\ UNCHANGED <<disk, receivers, senders>>
    BY <1>0, <1>2 DEF Skip, At, Main
  <2>2. ASSUME NEW p, Placed(p), p.attempt \in Attempts, p.port \in Nat PROVE Placed(p)'
    BY <1>0, <2>1, <2>2 DEF Placed, Now, Earlier, Working, Attempts
  <2>3. Places'
    BY <1>0, <2>1, <2>2, Seats DEF IInv, Places
  <2>4. Calm' /\ Untouched' /\ Remembered' /\ AtWork'
    BY <1>0, <2>1 DEF Calm, IInv, Untouched, Remembered, AtWork, Working
  <2>5. Accepted(main.kept)' /\ Accepted(disk)'
    BY <2>1 DEF IInv, Accepted
  <2> QED
    BY <1>0, <2>3, <2>4, <2>5 DEF IInv
<1>3. CASE RunLeg
  <2>1. /\ main'.life = main.life /\ main'.leg = main.leg /\ main'.kept = main.kept
        /\ main'.pc = "start" /\ main.pc = "next" /\ main'.attempt = main.attempt
        /\ main'.port = main.port /\ main'.result = main.result
        /\ main'.haunted = (\E a \in Alive : a[1] < main.life)
        /\ file' = Nothing /\ UNCHANGED <<disk, receivers, senders>>
    BY <1>0, <1>3 DEF RunLeg, At, Main
  <2>2. main.result = None /\ main.leg \in Leg /\ disk[main.leg] = None
    BY <1>0, <1>3, <2>1 DEF IInv, Untouched, Remembered, RunLeg, Leg
  <2> QED
    BY <1>0, <2>1, <2>2, BeginningIsSafe
<1>4. CASE StartReceiver
  <2>1. PICK ok \in BOOLEAN, ran \in BOOLEAN : StartReceiver!2!(ok, ran)
    BY <1>4 DEF StartReceiver
  <2>2. Working /\ UNCHANGED <<disk, senders, file>>
    BY <1>4 DEF StartReceiver, At, Working
  <2>3. /\ Stays /\ main'.pc \in {"start", "listen", "got"} /\ main'.result = main.result
    BY <1>0, <1>4, <2>1 DEF StartReceiver, At, Stays, Failed, Main
  <2>4. main.result = None
    BY <1>4 DEF IInv, Untouched, StartReceiver, At
  <2>5. \A p \in receivers' : p \in receivers \/ (p.attempt = Me /\ p.port = main.port /\ p.got = {})
    BY <2>1
  <2> QED
    BY <1>0, <2>2, <2>3, <2>4, <2>5, StayingIsSafe
<1>5. CASE AwaitListening
  <2>1. /\ Working /\ Stays /\ main'.pc \in {"sending", "got"} /\ main'.result = main.result
        /\ main.result = None
        /\ UNCHANGED <<disk, receivers, file>>
    BY <1>0, <1>5 DEF AwaitListening, At, Go, Stays, Failed, Main, Working, IInv, Untouched
  <2>2. \A s \in senders' : s \in senders \/ (s.attempt = Me /\ s.port = main.port)
    BY <1>5 DEF AwaitListening
  <2> QED
    BY <1>0, <2>1, <2>2, StayingIsSafe
<1>6. CASE SenderReturns
  <2>1. /\ Working /\ Stays /\ main'.pc \in {"read", "got"} /\ main'.result = main.result
        /\ main.result = None
        /\ UNCHANGED <<disk, receivers, file>>
    BY <1>0, <1>6 DEF SenderReturns, At, Go, Stays, Failed, Main, Working, IInv, Untouched
  <2>2. senders' \subseteq senders
    BY <1>6 DEF SenderReturns
  <2> QED
    BY <1>0, <2>1, <2>2, StayingIsSafe
<1>7. CASE AwaitResult
  <2>1. PICK r \in {Shown, None} : main' = [main EXCEPT !.pc = "got", !.result = r]
    BY <1>7 DEF AwaitResult
  <2>2. /\ Working /\ Stays /\ main'.pc = "got" /\ main'.result = r
        /\ UNCHANGED <<disk, receivers, senders, file>>
    BY <1>0, <1>7, <2>1 DEF AwaitResult, At, Stays, Main, Working
  <2>3. r \in {None, main.result, file.result}
    BY <2>1 DEF Shown
  <2> QED
    BY <1>0, <2>2, <2>3, StayingIsSafe
<1>8. CASE Retry
  <2>1. /\ main'.life = main.life /\ main'.leg = main.leg /\ main'.kept = main.kept
        /\ main'.pc = "start" /\ main.pc = "got" /\ main.attempt = 1 /\ main'.attempt = 2
        /\ main'.port = main.port + 1 /\ main'.result = None
        /\ main'.haunted = (\E a \in Alive : a[1] < main.life)
        /\ file' = Nothing /\ UNCHANGED <<disk, receivers, senders>>
    BY <1>0, <1>8 DEF Retry, At, Main
  <2>2. Working /\ main.leg \in Leg /\ disk[main.leg] = None
    BY <2>1 DEF IInv, AtWork, Working
  <2> QED
    BY <1>0, <2>1, <2>2, BeginningIsSafe
<1>9. CASE Keep
  <2> DEFINE r == IF main.result = None THEN None
                  ELSE [own |-> main.result.by = Me, got |-> main.result.got, haunted |-> main.haunted]
  <2>1. /\ main'.life = main.life /\ main'.leg = main.leg /\ main'.pc = "write" /\ main.pc = "got"
        /\ main'.result = None /\ main'.port >= main.port + 1 /\ main'.port \in Nat
        /\ main'.kept = [main.kept EXCEPT ![main.leg] = r]
        /\ UNCHANGED <<disk, receivers, senders, file>>
    BY <1>0, <1>9 DEF Keep, At, Main
  <2>2. Working /\ main.leg \in Leg /\ disk[main.leg] = None /\ main.kept \in Kept
    BY <1>0, <2>1, Fields DEF IInv, AtWork, Working
  <2>3. ASSUME NEW p, Placed(p), p.attempt \in Attempts, p.port \in Nat PROVE Placed(p)'
    <3>1. p.attempt = Me => p.attempt[2] = main.leg
      BY DEF Me
    <3> QED
      BY <1>0, <2>1, <2>2, <2>3, <3>1 DEF Placed, Now, Earlier, Before, Working, Attempts
  <2>4. Places'
    BY <1>0, <2>1, <2>3, Seats DEF IInv, Places
  <2>5. Calm' /\ Untouched' /\ AtWork'
    BY <1>0, <2>1, <2>2 DEF Calm, Untouched, AtWork, Working
  <2>6. Accepted(main.kept)'
    <3>1. ~main.haunted => OfThis(main.result)
      BY <2>2 DEF IInv, Calm
    <3>2. main.result # None /\ r.got # {} /\ ~main.haunted => r.own /\ r.got = {"own"}
      BY <3>1 DEF OfThis
    <3>3. r # None => main.result # None /\ r.haunted = main.haunted
      OBVIOUS
    <3> HIDE DEF r
    <3>4. main'.kept[main.leg] = r /\ \A l \in Leg : l # main.leg => main'.kept[l] = main.kept[l]
      BY <2>1, <2>2 DEF Kept
    <3> QED
      BY <3>2, <3>3, <3>4 DEF IInv, Accepted
  <2> HIDE DEF r
  <2>7. Accepted(disk)' /\ Remembered'
    BY <1>0, <2>1, <2>2 DEF IInv, Accepted, Remembered, Kept
  <2> QED
    BY <1>0, <2>4, <2>5, <2>6, <2>7 DEF IInv
<1>10. CASE Checkpoint
  <2>1. /\ main'.life = main.life /\ main'.leg = main.leg + 1 /\ main'.pc = "next" /\ main.pc = "write"
        /\ main'.result = main.result /\ main'.port = main.port /\ main'.kept = main.kept
        /\ disk' = main.kept /\ UNCHANGED <<receivers, senders, file>>
    BY <1>0, <1>10 DEF Checkpoint, At, Main
  <2>2. ASSUME NEW p, Placed(p), p.attempt \in Attempts PROVE Placed(p)'
    BY <1>0, <2>1, <2>2 DEF Placed, Now, Earlier, Working, Attempts
  <2>3. Places'
    BY <1>0, <2>1, <2>2, Seats DEF IInv, Places
  <2>4. Calm' /\ Untouched' /\ Remembered' /\ AtWork'
    BY <1>0, <2>1 DEF IInv, Calm, Untouched, Remembered, AtWork, Working
  <2>5. Accepted(main.kept)' /\ Accepted(disk)'
    BY <2>1 DEF IInv, Accepted
  <2> QED
    BY <1>0, <2>3, <2>4, <2>5 DEF IInv
<1>11. CASE Finish
  BY <1>0, <1>11, StoppingIsSafe DEF Finish
<1>12. CASE Kill
  <2>1. Stop /\ senders' \subseteq senders /\ UNCHANGED <<disk, receivers, file>>
    BY <1>12 DEF Kill
  <2> QED
    BY <1>0, <2>1, StoppingIsSafe
<1>13. CASE SenderEnds
  BY <1>0, <1>13, NodeIsSafe DEF SenderEnds
<1>14. ASSUME NEW p \in receivers, ComeUp(p) PROVE IInv'
  <2>1. file' = file \/ file'.result = None
    BY <1>14 DEF ComeUp, Prints, Nothing
  <2>2. \A q \in receivers' : \E o \in receivers :
           q.attempt = o.attempt /\ q.port = o.port /\ q.got = o.got
    <3>1. LET q == [p EXCEPT !.bound = TRUE]
          IN  q.attempt = p.attempt /\ q.port = p.port /\ q.got = p.got
      BY <1>0 DEF TypeOK, Receiver
    <3> QED
      BY <1>14, <3>1 DEF ComeUp, Becomes
  <2>3. UNCHANGED <<main, disk, senders>>
    BY <1>14 DEF ComeUp
  <2> QED
    BY <1>0, <2>1, <2>2, <2>3, NodeIsSafe
<1>15. ASSUME NEW p \in receivers, Arrive(p) PROVE IInv'
  <2>1. PICK s \in senders :
          /\ s.port = p.port
          /\ Becomes(p, [p EXCEPT !.got = @ \cup {IF s.attempt = p.attempt THEN "own" ELSE "other"}])
    BY <1>15 DEF Arrive
  <2> DEFINE q == [p EXCEPT !.got = @ \cup {IF s.attempt = p.attempt THEN "own" ELSE "other"}]
  <2>2. /\ q.attempt = p.attempt /\ q.port = p.port
        /\ s.attempt = p.attempt => q.got = p.got \cup {"own"}
    BY <1>0 DEF TypeOK, Receiver
  <2>3. receivers' = (receivers \ {p}) \cup {q}
    BY <2>1 DEF Becomes
  <2> HIDE DEF q
  <2>4. UNCHANGED <<main, disk, senders, file>>
    BY <1>15 DEF Arrive
  <2>5. \A o \in receivers' : \E n \in receivers :
            /\ o.attempt = n.attempt /\ o.port = n.port
            /\ o.got = n.got
                 \/ \E t \in senders : /\ t.port = n.port
                                      /\ (t.attempt = n.attempt => o.got = n.got \cup {"own"})
    BY <2>1, <2>2, <2>3
  <2> QED
    BY <1>0, <2>4, <2>5, NodeIsSafe
<1>16. ASSUME NEW p \in receivers, PrintResult(p) PROVE IInv'
  <2>1. file' = file \/ (p.port = main.port /\ file'.result = Result(p))
    BY <1>0, <1>16 DEF PrintResult, Prints, TypeOK, File
  <2>2. receivers' \subseteq receivers /\ UNCHANGED <<main, disk, senders>>
    BY <1>16 DEF PrintResult
  <2> QED
    BY <1>0, <2>1, <2>2, NodeIsSafe
<1>17. CASE UNCHANGED vars
  BY <1>17 DEF vars, IInv, TypeOK, Places, Placed, Calm, Untouched, Accepted, Remembered, AtWork,
               Working, Now, Earlier, Before, Me, OfThis
<1> QED
  BY <1>1, <1>2, <1>3, <1>4, <1>5, <1>6, <1>7, <1>8, <1>9, <1>10, <1>11, <1>12, <1>13, <1>14,
     <1>15, <1>16, <1>17 DEF Next, Script

-----------------------------------------------------------------------------
\* The inductive invariant: where the processes of a life are, what they have
\* heard, and what the script remembers of the disk.
THEOREM IInvHolds == Spec => []IInv
<1> QED
  BY InitIInv, StepIInv, PTL DEF Spec

\* The values of the variables, whatever is left behind on the node.
THEOREM TypesHold == Spec => []TypeOK
<1>1. IInv => TypeOK
  BY DEF IInv
<1> QED
  BY <1>1, IInvHolds, PTL

\* Retrying on the next port keeps a result from counting the packets of
\* attempts that were given up: main and measure_leg of run_media_allpairs.py.
THEOREM AcceptedIsOwnHolds == Spec => []AcceptedIsOwn
<1>1. IInv => AcceptedIsOwn
  BY DEF IInv, Accepted, AcceptedIsOwn
<1> QED
  BY <1>1, IInvHolds, PTL

\* So does what checkpoint has written: it holds what the script remembers,
\* which is never less than the output file held.
THEOREM KeptForGoodHolds == Spec => KeptForGood
<1>1. IInv /\ [Next]_vars => [\A l \in Leg : disk[l] # None => disk'[l] = disk[l]]_vars
  <2> SUFFICES ASSUME IInv, Next, NEW l \in Leg, disk[l] # None PROVE disk'[l] = disk[l]
    OBVIOUS
  <2>1. CASE Checkpoint
    BY <2>1 DEF Checkpoint, At, IInv, Remembered
  <2>2. CASE disk' = disk
    BY <2>2
  <2>3. Checkpoint \/ disk' = disk
    BY DEF Next, Script, Begin, Skip, RunLeg, StartReceiver, AwaitListening, SenderReturns,
           AwaitResult, Retry, Keep, Finish, Kill, SenderEnds, ComeUp, Arrive, PrintResult
  <2> QED
    BY <2>1, <2>2, <2>3
<1> QED
  BY <1>1, IInvHolds, PTL DEF Spec, KeptForGood

=============================================================================
