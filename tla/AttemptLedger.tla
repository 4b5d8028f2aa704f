--------------------------- MODULE AttemptLedger ---------------------------
(***************************************************************************)
(* What a registered campaign promises about its evidence, with processes, *)
(* locks, staging directories and crashes left out: every cell of the      *)
(* frozen schedule owns an append-only list of attempt statuses.  A cell   *)
(* gets a new attempt only while it has no complete one and its budget     *)
(* lasts, and only when every earlier cell of the schedule is complete.    *)
(***************************************************************************)
EXTENDS Integers, Sequences

CONSTANTS CellCount,    \* cells of the frozen schedule, in ordinal order
          MaxAttempts   \* max_attempts_per_cell of the frozen plan

VARIABLE ledger         \* ledger[c]: attempt statuses of cell c, oldest first

Status == {"complete", "incomplete"}
Cell == 1 .. CellCount

Complete(c) == ledger[c] # <<>> /\ ledger[c][Len(ledger[c])] = "complete"

Init == ledger = [c \in Cell |-> <<>>]

Retain(c, status) ==
    /\ ~ Complete(c)
    /\ Len(ledger[c]) < MaxAttempts
    /\ \A b \in 1 .. c - 1 : Complete(b)
    /\ ledger' = [ledger EXCEPT ![c] = Append(@, status)]

Next == \E c \in Cell, status \in Status : Retain(c, status)

Spec == Init /\ [][Next]_ledger

=============================================================================
