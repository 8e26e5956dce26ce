---------------------------- MODULE FrameDelivery ----------------------------
(***************************************************************************)
(* What the tcp_packet3 receive path promises on one TCP connection,       *)
(* whatever the sizes of the segments and of the reads that carry it: the  *)
(* packets are handed to the application whole, in the order in which the  *)
(* peer sent them and at most once; the only packets skipped are those for *)
(* which no memory could be allocated.                                     *)
(***************************************************************************)
EXTENDS Naturals, Sequences

CONSTANT Packets        \* the packets a peer may send

VARIABLES
  sent,                 \* packets the peer has sent on this connection
  delivered,            \* packets handed to the application
  dropped               \* packets skipped for want of memory

vars == <<sent, delivered, dropped>>

\* The packets accounted for: delivered or skipped.
Consumed == Len(delivered) + dropped

Init ==
  /\ sent = << >>
  /\ delivered = << >>
  /\ dropped = 0

\* A new connection starts with nothing sent.
Open ==
  /\ sent' = << >>
  /\ delivered' = << >>
  /\ dropped' = 0

Send(p) ==
  /\ sent' = Append(sent, p)
  /\ UNCHANGED <<delivered, dropped>>

Deliver ==
  /\ Consumed < Len(sent)
  /\ delivered' = Append(delivered, sent[Consumed + 1])
  /\ UNCHANGED <<sent, dropped>>

Skip ==
  /\ Consumed < Len(sent)
  /\ dropped' = dropped + 1
  /\ UNCHANGED <<sent, delivered>>

Next == Open \/ (\E p \in Packets : Send(p)) \/ Deliver \/ Skip

Spec == Init /\ [][Next]_vars
=============================================================================
