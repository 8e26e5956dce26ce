------------------------------ MODULE ByteStream ------------------------------
(***************************************************************************)
(* What recv promises of one socket: each call that returns data returns   *)
(* the next bytes of the stream, at most as many as have arrived.  A byte  *)
(* is its position in the stream.                                          *)
(***************************************************************************)
EXTENDS Naturals

CONSTANT Lens           \* how many bytes a call may ask for

VARIABLES
  arrived,              \* bytes of the stream that have arrived
  taken,                \* bytes that calls have returned
  last                  \* the bytes that the last one returned

vars == <<arrived, taken, last>>

Init == arrived = 0 /\ taken = 0 /\ last = << >>

Arrive(k) == arrived' = arrived + k /\ UNCHANGED <<taken, last>>

Take(k) ==
  /\ k <= arrived - taken
  /\ taken' = taken + k
  /\ last' = [i \in 1..k |-> taken + i]
  /\ UNCHANGED arrived

Next == \/ arrived' > arrived /\ Arrive(arrived' - arrived)
        \/ \E k \in Lens : \E n \in 1..k : Take(n)

Spec == Init /\ [][Next]_vars /\ WF_vars(\E k \in Lens : \E n \in 1..k : Take(n))
===============================================================================
