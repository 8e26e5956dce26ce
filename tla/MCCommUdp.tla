----------------------------- MODULE MCCommUdp -----------------------------
(* Small instances of CommUdp. *)
EXTENDS CommUdp

CONSTANTS host1, host2

Answered == [kind |-> "answered", arg |-> 0]
Con(port) == [kind |-> "con", arg |-> port]
Delay(ticks) == [kind |-> "delay", arg |-> ticks]
Ignored == [kind |-> "ignored", arg |-> 0]

From(h, chunks) == [from |-> h, chunks |-> chunks]

MCHosts == {host1, host2}
MCDatagrams ==
  {From(host1, << >>), From(host1, <<Answered>>), From(host1, <<Con(1)>>),
   From(host2, <<Con(65538)>>), From(host2, <<Con(65536)>>), From(host2, <<Con(-1)>>),
   From(host2, <<Answered, Con(1)>>), From(host1, <<Ignored, Answered>>),
   From(host2, <<Delay(1)>>), From(host2, <<Delay(-1)>>)}
=============================================================================
