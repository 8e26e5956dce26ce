---------------------------- MODULE FileTransfer ----------------------------
(***************************************************************************)
(* What the reception of big files promises when no two transfers carry    *)
(* the same identifier: a file is reported at most once, files are         *)
(* reported in the order in which they were sent, and a reported file has  *)
(* the contents of its own transfer, every fragment that was announced and *)
(* nothing else.                                                           *)
(***************************************************************************)
EXTENDS Naturals, Sequences

CONSTANT Counts         \* how many fragments a transfer may announce

VARIABLES
  begun,                \* what the transfers begun announced, in order
  reported              \* the files reported: [transfer, pieces]

vars == <<begun, reported>>

\* A fragment is named by its transfer and its number, counted from 0.
Contents(k) == [j \in 1..begun[k] |-> <<k, j - 1>>]

Init == begun = << >> /\ reported = << >>

Begin(n) ==
  /\ begun' = Append(begun, n)
  /\ UNCHANGED reported

Report ==
  LET k == Len(begun) IN
  /\ k > 0
  /\ \A i \in 1..Len(reported) : reported[i].transfer < k
  /\ reported' = Append(reported, [transfer |-> k, pieces |-> Contents(k)])
  /\ UNCHANGED begun

Next == (\E n \in Counts : Begin(n)) \/ Report

Spec == Init /\ [][Next]_vars
=============================================================================
