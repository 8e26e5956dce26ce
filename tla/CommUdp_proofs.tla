--------------------------- MODULE CommUdp_proofs ---------------------------
(***************************************************************************)
(* recvfrom stays in step with the chip's datagrams, and connect goes to   *)
(* the address and port of the last request, whatever the datagrams are.   *)
(*                                                                         *)
(* InStep is not inductive: that what is left of a datagram can still be   *)
(* read, and that a socket that is closed holds nothing, must be added.    *)
(***************************************************************************)
EXTENDS CommUdp, TLAPS, SequenceTheorems

\* What is left of a begun datagram is there to be read.
BegunIsHeld ==
  begun => sr = "UDP" /\ rx # << >> /\ Head(rx).chunks # << >>

\* comm.operation asks for a connection only after an "ew con", and comm.host
\* is what that asked for, in 16 bits, if its sender was known.
RequestIsAsked ==
  operation = "CONNECT_HOST" =>
    /\ asked.ip \in Hosts
    /\ asked.whole => host = [ip |-> asked.ip, port |-> asked.port % Ports]

\* What a uint16_t keeps of a number.
LEMMA PortOf ==
  ASSUME NEW n \in Int
  PROVE  n % Ports \in 0..Ports - 1
  BY DEF Ports

Invariant == TypeOK /\ InStep /\ BegunIsHeld /\ RequestIsAsked

-----------------------------------------------------------------------------
\* The first datagram, if there is one.
LEMMA First ==
  ASSUME TypeOK, rx # << >>
  PROVE  /\ Head(rx) \in Datagram /\ Tail(rx) \in Seq(Datagram)
         /\ Head(rx).from \in Hosts
         /\ Head(rx).chunks \in Seq(Chunk)
         /\ Len(Head(rx).chunks) \in Nat
         /\ Head(rx).chunks # << >> => Len(Head(rx).chunks) \in Nat \ {0}
  <1>1. rx \in Seq(Datagram)  BY DEF TypeOK
  <1>2. Head(rx) \in Datagram /\ Tail(rx) \in Seq(Datagram)
    BY <1>1, HeadTailProperties
  <1>3. Head(rx).from \in Hosts /\ Head(rx).chunks \in Seq(Chunk)
    BY <1>2 DEF Datagram
  <1>4. Len(Head(rx).chunks) \in Nat  BY <1>3, LenProperties
  <1> QED  BY <1>2, <1>3, <1>4, EmptySeq

\* A datagram that stays in the memory has lost its first chunk.
LEMMA Consumed ==
  ASSUME TypeOK, rx # << >>, Consume
  PROVE  /\ rx' \in Seq(Datagram) /\ begun' \in BOOLEAN
         /\ begun' <=> Len(Head(rx).chunks) > 1
         /\ begun' => /\ rx' # << >> /\ Head(rx').chunks # << >>
                      /\ Len(Head(rx').chunks) = Len(Head(rx).chunks) - 1
  <1> DEFINE d == Head(rx)
             c == d.chunks
             e == [d EXCEPT !.chunks = Tail(c)]
  <1>1. /\ d \in Datagram /\ Tail(rx) \in Seq(Datagram) /\ c \in Seq(Chunk)
        /\ Len(c) \in Nat
    BY First
  <1>2. CASE Len(c) <= 1
    <2>1. rx' = Tail(rx) /\ begun' = FALSE  BY <1>2 DEF Consume
    <2>2. ~(Len(c) > 1)  BY <1>1, <1>2
    <2> QED  BY <1>1, <2>1, <2>2
  <1>3. CASE ~(Len(c) <= 1)
    <2>1. rx' = <<e>> \o Tail(rx) /\ begun' = TRUE  BY <1>3 DEF Consume
    <2>2. Len(c) > 1  BY <1>1, <1>3
    <2>3. c # << >>
      <3>1. Len(<< >>) = 0  BY EmptySeq
      <3>2. ~(0 > 1)  OBVIOUS
      <3> QED  BY <2>2, <3>1, <3>2, Zenon
    <2>4. Tail(c) \in Seq(Chunk) /\ Len(Tail(c)) = Len(c) - 1
      BY <1>1, <2>3, HeadTailProperties
    <2>5. Tail(c) # << >>
      <3>1. Len(<< >>) = 0  BY EmptySeq
      <3>2. \A k \in Nat : k > 1 => k - 1 # 0  OBVIOUS
      <3>3. Len(c) - 1 # 0  BY <1>1, <2>2, <3>2, Zenon
      <3> QED  BY <2>4, <3>1, <3>3, Zenon
    <2>6. e \in Datagram /\ e.chunks = Tail(c)
      BY <1>1, <2>4 DEF Datagram
    <2> HIDE DEF e
    <2>7. <<e>> \in Seq(Datagram) /\ Len(<<e>>) = 1 /\ <<e>>[1] = e
      BY <2>6
    <2>8. Len(Tail(rx)) \in Nat  BY <1>1, LenProperties
    <2>9. /\ rx' \in Seq(Datagram) /\ Len(rx') = 1 + Len(Tail(rx))
          /\ rx'[1] = e
      <3>1. 1 \in 1..1 + Len(Tail(rx)) /\ 1 <= 1  BY <2>8
      <3> QED  BY <1>1, <2>1, <2>7, <3>1, ConcatProperties
    <2>10. rx' # << >>
      <3>1. Len(<< >>) = 0  BY EmptySeq
      <3>2. 1 + Len(Tail(rx)) # 0  BY <2>8
      <3> QED  BY <2>9, <3>1, <3>2, Zenon
    <2>11. Head(rx') = e  BY <2>9, <2>10
    <2> QED  BY <2>1, <2>2, <2>4, <2>5, <2>6, <2>9, <2>10, <2>11, Zenon
  <1> QED  BY <1>2, <1>3

\* A call of recvfrom leaves the count right, and a datagram's first part
\* with its true sender.
LEMMA Received ==
  ASSUME Invariant, recvfrom
  PROVE  /\ rx # << >> /\ sr = "UDP" /\ Head(rx).from \in Hosts
         /\ sender' \in Addresses /\ remained' \in Nat
         /\ rx' \in Seq(Datagram) /\ begun' \in BOOLEAN
         /\ remained' = IF begun' THEN Len(Head(rx').chunks) ELSE 0
         /\ begun' => rx' # << >> /\ Head(rx').chunks # << >>
         /\ ~begun => sender' = Head(rx).from
  <1> DEFINE n == Len(Head(rx).chunks)
  <1>1. TypeOK /\ sr = "UDP" /\ rx # << >> /\ Consume
    BY DEF Invariant, recvfrom
  <1>2. /\ n \in Nat /\ Head(rx).from \in Hosts
        /\ Head(rx).chunks # << >> => n \in Nat \ {0}
    BY <1>1, First
  <1>3. /\ rx' \in Seq(Datagram) /\ begun' \in BOOLEAN
        /\ begun' <=> n > 1
        /\ begun' => /\ rx' # << >> /\ Head(rx').chunks # << >>
                     /\ Len(Head(rx').chunks) = n - 1
    BY <1>1, Consumed
  <1>4. /\ remained = (IF begun THEN n ELSE 0)
        /\ begun \in BOOLEAN
        /\ begun => Head(rx).chunks # << >>
    BY <1>1 DEF Invariant, InStep, BegunIsHeld, TypeOK
  <1>5. sender' \in Addresses /\ (~begun => sender' = Head(rx).from)
    BY <1>2, <1>4 DEF recvfrom, Addresses
  <1>6. remained' = Remaining(n)
    <2>1. CASE begun
      <3>1. remained = n /\ n # 0  BY <1>2, <1>4, <2>1
      <3> QED  BY <3>1 DEF recvfrom
    <2>2. CASE ~begun
      BY <1>4, <2>2 DEF recvfrom
    <2> QED  BY <2>1, <2>2
  <1> HIDE DEF n
  <1>7. Remaining(n) \in Nat /\ Remaining(n) = (IF n > 1 THEN n - 1 ELSE 0)
    BY <1>2 DEF Remaining
  <1>8. remained' = IF begun' THEN Len(Head(rx').chunks) ELSE 0
    <2>1. CASE begun'
      BY <1>3, <1>6, <1>7, <2>1
    <2>2. CASE ~begun'
      BY <1>3, <1>6, <1>7, <2>2
    <2> QED  BY <2>1, <2>2
  <1> QED  BY <1>1, <1>2, <1>3, <1>5, <1>6, <1>7, <1>8

\* A datagram that arrives does not change the first one.
LEMMA Arrived ==
  ASSUME TypeOK, NEW d \in Datagrams, rx' = Append(rx, d)
  PROVE  /\ rx' \in Seq(Datagram)
         /\ rx # << >> => rx' # << >> /\ Head(rx') = Head(rx)
  <1>1. rx \in Seq(Datagram) /\ d \in Datagram
    BY DatagramsAssumption DEF TypeOK
  <1>2. /\ rx' \in Seq(Datagram) /\ rx' # << >>
        /\ \A i \in 1..Len(rx) : rx'[i] = rx[i]
    BY <1>1, AppendProperties
  <1>3. ASSUME rx # << >> PROVE Head(rx') = Head(rx)
    <2>1. Len(rx) \in Nat \ {0}  BY <1>1, <1>3, EmptySeq
    <2>2. 1 \in 1..Len(rx)  BY <2>1
    <2>3. rx'[1] = rx[1]  BY <1>2, <2>2
    <2> QED  BY <1>1, <1>2, <1>3, <2>3
  <1> QED  BY <1>2, <1>3

\* The chunk that is received is one.
LEMMA PartType ==
  ASSUME TypeOK, NEW k, HasPart(k)
  PROVE  Part.arg \in Int
  <1>1. rx # << >> /\ Head(rx).chunks # << >>  BY DEF HasPart
  <1>2. Head(rx).chunks \in Seq(Chunk)  BY <1>1, First
  <1>3. Head(Head(rx).chunks) \in Chunk
    BY <1>1, <1>2, HeadTailProperties
  <1> QED  BY <1>3 DEF Part, Chunk

-----------------------------------------------------------------------------
LEMMA InitInvariant == Init => Invariant
  <1> SUFFICES ASSUME Init PROVE Invariant  OBVIOUS
  <1>1. rx \in Seq(Datagram)  BY EmptySeq DEF Init
  <1>2. /\ host \in [ip : Addresses, port : 0..Ports - 1]
        /\ asked \in [ip : Addresses, port : Int, whole : BOOLEAN]
        /\ answered \in [from : Addresses, to : Addresses]
    BY DEF Init, NoHost, NotAsked, NotAnswered, Addresses, Ports
  <1>3. datagrams \in 0..MaxDatagrams /\ resets \in 0..MaxResets
    BY BoundsAssumption DEF Init
  <1>4. sender \in Addresses /\ state \in States
    BY DEF Init, Addresses, States
  <1>5. /\ sr \in {"CLOSED", "UDP"} /\ client_sr \in {"CLOSED", "INIT", "BUSY"}
        /\ begun \in BOOLEAN /\ haveIp \in BOOLEAN
        /\ operation \in {"DHCP", "WAIT", "CONNECT_HOST"}
        /\ pc \in {"handler", "server", "sendto", "wait", "client", "switch"}
    BY DEF Init
  <1>6. remained \in Nat /\ event_loop_delay \in Int  BY DEF Init
  <1>7. TypeOK
    BY <1>1, <1>2, <1>3, <1>4, <1>5, <1>6 DEF TypeOK
  <1>8. InStep /\ BegunIsHeld /\ RequestIsAsked
    BY DEF Init, InStep, BegunIsHeld, RequestIsAsked
  <1> QED  BY <1>7, <1>8 DEF Invariant

\* recvfrom of a part that is not a request.
LEMMA ReceiveKeeps ==
  ASSUME Invariant, recvfrom, pc' \in {"sendto", "client"},
         event_loop_delay' \in Int,
         answered' \in [from : Addresses, to : Addresses],
         UNCHANGED <<sr, client_sr, haveIp, operation, host, state,
                     datagrams, resets, asked>>
  PROVE  Invariant'
  <1>1. /\ sender' \in Addresses /\ remained' \in Nat
        /\ rx' \in Seq(Datagram) /\ begun' \in BOOLEAN
        /\ remained' = IF begun' THEN Len(Head(rx').chunks) ELSE 0
        /\ begun' => rx' # << >> /\ Head(rx').chunks # << >>
        /\ sr = "UDP"
    BY Received
  <1>2. TypeOK'
    BY <1>1 DEF Invariant, TypeOK
  <1>3. InStep' /\ BegunIsHeld'
    BY <1>1 DEF InStep, BegunIsHeld
  <1>4. RequestIsAsked'
    BY DEF Invariant, RequestIsAsked
  <1> QED  BY <1>2, <1>3, <1>4 DEF Invariant

\* The firmware's steps that only move on, or change comm.operation to
\* something else than a request.
LEMMA MoveOn ==
  ASSUME Invariant,
         UNCHANGED <<sr, rx, begun, remained, host, event_loop_delay, sender,
                     datagrams, resets, answered>>,
         client_sr' \in {"CLOSED", "INIT", "BUSY"}, haveIp' \in BOOLEAN,
         pc' \in {"handler", "server", "sendto", "wait", "client", "switch"},
         state' \in States,
         \/ operation' = operation /\ asked' = asked
         \/ /\ operation' \in {"DHCP", "WAIT"}
            /\ asked' \in [ip : Addresses, port : Int, whole : BOOLEAN]
  PROVE  Invariant'
  <1>1. TypeOK'
    BY DEF Invariant, TypeOK
  <1>2. InStep' /\ BegunIsHeld'
    BY DEF Invariant, InStep, BegunIsHeld
  <1>3. RequestIsAsked'
    BY DEF Invariant, RequestIsAsked
  <1> QED  BY <1>1, <1>2, <1>3 DEF Invariant

\* "ew con": what becomes the request is what was asked for.
LEMMA ConnectKept ==
  ASSUME Invariant, ReceiveConnect
  PROVE  Invariant'
  <1>1. /\ sender' \in Addresses /\ remained' \in Nat
        /\ rx' \in Seq(Datagram) /\ begun' \in BOOLEAN
        /\ remained' = IF begun' THEN Len(Head(rx').chunks) ELSE 0
        /\ begun' => rx' # << >> /\ Head(rx').chunks # << >>
        /\ sr = "UDP" /\ Head(rx).from \in Hosts
        /\ ~begun => sender' = Head(rx).from
    BY Received DEF ReceiveConnect
  <1>2. Part.arg \in Int
    BY PartType DEF ReceiveConnect, Invariant
  <1>9. Part.arg % Ports \in 0..Ports - 1
    BY <1>2, PortOf
  <1>3. /\ host' = [ip |-> sender', port |-> Part.arg % Ports]
        /\ asked' = [ip |-> Head(rx).from, port |-> Part.arg, whole |-> ~begun]
    BY DEF ReceiveConnect, HostOf
  <1>4. begun \in BOOLEAN /\ Head(rx).from \in Addresses
    BY <1>1 DEF Invariant, TypeOK, Addresses
  <1>5. /\ host' \in [ip : Addresses, port : 0..Ports - 1]
        /\ asked' \in [ip : Addresses, port : Int, whole : BOOLEAN]
    BY <1>1, <1>2, <1>3, <1>4, <1>9
  <1>6. TypeOK'
    BY <1>1, <1>5 DEF Invariant, TypeOK, ReceiveConnect
  <1>7. InStep' /\ BegunIsHeld'
    BY <1>1 DEF InStep, BegunIsHeld, ReceiveConnect
  <1>8. RequestIsAsked'
    BY <1>1, <1>3, <1>4 DEF RequestIsAsked
  <1> QED  BY <1>6, <1>7, <1>8 DEF Invariant

LEMMA NextInvariant ==
  ASSUME Invariant, [Next]_vars
  PROVE  Invariant'
  <1>t. TypeOK /\ sr \in States /\ client_sr \in States
    BY DEF Invariant, TypeOK, States
  <1> USE DEF chip, loop, history
  <1>1. CASE SetDhcpIp
    BY <1>1, <1>t, MoveOn DEF SetDhcpIp, Turn, TypeOK
  <1>2. CASE PollServer
    BY <1>2, <1>t, MoveOn DEF PollServer, TypeOK
  <1>3. CASE ServerClosed
    <2>1. rx' \in Seq(Datagram)  BY <1>3, EmptySeq DEF ServerClosed
    <2>2. TypeOK'  BY <1>3, <1>t, <2>1 DEF ServerClosed, TypeOK, Reopened
    <2>3. InStep' /\ BegunIsHeld'
      BY <1>3 DEF ServerClosed, InStep, BegunIsHeld, Reopened
    <2>4. RequestIsAsked'
      BY <1>3 DEF ServerClosed, RequestIsAsked, Invariant
    <2> QED  BY <2>2, <2>3, <2>4 DEF Invariant
  <1>4. CASE ReceiveNothing
    BY <1>4, <1>t, MoveOn DEF ReceiveNothing, TypeOK
  <1>5. CASE Receive
    <2>1. CASE ReceiveEmpty
      BY <2>1, <1>t, ReceiveKeeps DEF ReceiveEmpty, TypeOK
    <2>2. CASE ReceiveAnswered
      <3>1. Head(rx).from \in Addresses /\ sender' \in Addresses
        BY <2>2, Received DEF ReceiveAnswered, Addresses
      <3>2. answered' \in [from : Addresses, to : Addresses]
        BY <2>2, <3>1 DEF ReceiveAnswered
      <3> QED  BY <2>2, <1>t, <3>2, ReceiveKeeps DEF ReceiveAnswered, TypeOK
    <2>3. CASE ReceiveConnect
      BY <2>3, ConnectKept
    <2>4. CASE ReceiveDelay
      <3>1. event_loop_delay' \in Int
        BY <2>4, <1>t, PartType DEF ReceiveDelay
      <3> QED  BY <2>4, <1>t, <3>1, ReceiveKeeps DEF ReceiveDelay, TypeOK
    <2>5. CASE ReceiveIgnored
      BY <2>5, <1>t, ReceiveKeeps DEF ReceiveIgnored, TypeOK
    <2> QED  BY <1>5, <2>1, <2>2, <2>3, <2>4, <2>5 DEF Receive
  <1>6. CASE SendTo
    BY <1>6, <1>t, MoveOn DEF SendTo, TypeOK
  <1>7. CASE SendDone
    BY <1>7, <1>t, MoveOn DEF SendDone, TypeOK
  <1>8. CASE PollClient
    BY <1>8, <1>t, MoveOn DEF PollClient, TypeOK
  <1>9. CASE ClientClosed
    BY <1>9, <1>t, MoveOn DEF ClientClosed, AfterOpen, TypeOK
  <1>10. CASE Connect
    <2>1. NotAsked \in [ip : Addresses, port : Int, whole : BOOLEAN]
      BY DEF NotAsked, Addresses
    <2> QED  BY <1>10, <1>t, <2>1, MoveOn DEF Connect, TypeOK
  <1>11. CASE ClientOther
    BY <1>11, <1>t, MoveOn DEF ClientOther, TypeOK
  <1>12. CASE \E d \in Datagrams : Arrive(d)
    <2>1. PICK d \in Datagrams : Arrive(d)  BY <1>12
    <2>2. /\ rx' \in Seq(Datagram)
          /\ rx # << >> => rx' # << >> /\ Head(rx') = Head(rx)
      BY <2>1, <1>t, Arrived DEF Arrive
    <2>3. datagrams' \in 0..MaxDatagrams
      <3>1. datagrams \in 0..MaxDatagrams /\ datagrams < MaxDatagrams
        BY <2>1, <1>t DEF Arrive, TypeOK
      <3> QED  BY <2>1, <3>1, BoundsAssumption DEF Arrive
    <2>4. TypeOK'  BY <2>1, <2>2, <2>3, <1>t DEF Arrive, TypeOK
    <2>5. InStep' /\ BegunIsHeld'
      BY <2>1, <2>2 DEF Arrive, InStep, BegunIsHeld, Invariant
    <2>6. RequestIsAsked'
      BY <2>1 DEF Arrive, RequestIsAsked, Invariant
    <2> QED  BY <2>4, <2>5, <2>6 DEF Invariant
  <1>13. CASE ConnectionEnds
    BY <1>13, <1>t, MoveOn DEF ConnectionEnds, TypeOK
  <1>14. CASE ChipReset
    <2>1. rx' \in Seq(Datagram)  BY <1>14, EmptySeq DEF ChipReset
    <2>2. resets' \in 0..MaxResets
      <3>1. resets \in 0..MaxResets /\ resets < MaxResets
        BY <1>14, <1>t DEF ChipReset, TypeOK
      <3> QED  BY <1>14, <3>1, BoundsAssumption DEF ChipReset
    <2>3. TypeOK'  BY <1>14, <1>t, <2>1, <2>2 DEF ChipReset, TypeOK
    <2>4. InStep' /\ BegunIsHeld' /\ RequestIsAsked'
      BY <1>14 DEF ChipReset, InStep, BegunIsHeld, RequestIsAsked, Invariant
    <2> QED  BY <2>3, <2>4 DEF Invariant
  <1>15. CASE UNCHANGED vars
    BY <1>15, <1>t, MoveOn DEF vars, TypeOK
  <1> QED
    BY <1>1, <1>2, <1>3, <1>4, <1>5, <1>6, <1>7, <1>8, <1>9, <1>10, <1>11,
       <1>12, <1>13, <1>14, <1>15 DEF Next, Firmware, Environment

-----------------------------------------------------------------------------
THEOREM InvariantHolds == Spec => []Invariant
  BY InitInvariant, NextInvariant, PTL DEF Spec

\* TypeOK: comm_udp_server, recvfrom and the part of comm_tcp_client modelled
\* keep the types of their variables; the count of what remains of a datagram
\* never goes below zero, for datagrams of all lengths.
THEOREM TypeCorrect == Spec => []TypeOK
  <1>1. Invariant => TypeOK  BY DEF Invariant
  <1> QED  BY InvariantHolds, <1>1, PTL

\* InStep: recvfrom reads a header where a datagram starts and nowhere else.
THEOREM StaysInStep == Spec => []InStep
  <1>1. Invariant => InStep  BY DEF Invariant
  <1> QED  BY InvariantHolds, <1>1, PTL

\* ConnectsAsAsked: comm_tcp_client connects once for a request, to the
\* address that made it in a datagram's first part, and to a port that is the
\* one asked for, or its lowest 16 bits where what was asked for is not a port.
THEOREM ConnectsToAsker == Spec => ConnectsAsAsked
  <1> DEFINE Goes ==
        /\ asked # NotAsked
        /\ host.port \in 1..Ports - 1
        /\ asked.whole => host = [ip |-> asked.ip, port |-> asked.port % Ports]
             Step == client_sr = "INIT" /\ client_sr' = "BUSY" => Goes
  <1> HIDE DEF Goes
  <1>1. ASSUME Invariant, [Next]_vars PROVE [Step]_vars
    <2> SUFFICES ASSUME client_sr = "INIT", client_sr' = "BUSY" PROVE Goes
      OBVIOUS
    <2>1. Connect
      BY <1>1 DEF vars, chip, loop, history, Next, Firmware, Environment,
         SetDhcpIp, PollServer, ServerClosed, ReceiveNothing, Receive,
         ReceiveEmpty, ReceiveAnswered, ReceiveConnect, ReceiveDelay,
         ReceiveIgnored, SendTo, SendDone, PollClient, ClientClosed,
         ClientOther, Arrive, ConnectionEnds, ChipReset
    <2>2. /\ asked.ip \in Hosts
          /\ asked.whole => host = [ip |-> asked.ip, port |-> asked.port % Ports]
      BY <1>1, <2>1 DEF Connect, Invariant, RequestIsAsked
    <2>3. NotAsked.ip = Nowhere  BY DEF NotAsked
    <2>4. asked # NotAsked  BY <2>2, <2>3, DatagramsAssumption
    <2>5. host \in [ip : Addresses, port : 0..Ports - 1] /\ host.port # 0
      BY <1>1, <2>1 DEF Connect, Invariant, TypeOK
    <2>6. host.port \in 1..Ports - 1
      <3>1. host.port \in 0..Ports - 1 /\ host.port # 0  BY <2>5
      <3>2. \A n \in 0..Ports - 1 : n # 0 => n \in 1..Ports - 1  BY DEF Ports
      <3> QED  BY <3>1, <3>2
    <2> QED  BY <2>2, <2>4, <2>6 DEF Goes
  <1> QED  BY InvariantHolds, <1>1, PTL DEF Spec, ConnectsAsAsked, Goes
-----------------------------------------------------------------------------
(***************************************************************************)
(* What DatagramsTaken needs of the states: whenever the server polls a    *)
(* socket that holds a datagram, it takes a part of it.                    *)
(***************************************************************************)

\* recvfrom's choice to read is right: where its count or Sn_RX_RSR says so,
\* a datagram is there, and the count's datagram has bytes left.
ReadsOnlyHeld ==
  sr = "UDP" /\ Readable =>
    /\ rx # << >>
    /\ remained > 0 =>
         begun /\ Head(rx).chunks # << >> /\ remained = Len(Head(rx).chunks)

\* recvfrom with a count of what remains does not look at Sn_RX_RSR: it never
\* reads bytes that are not there, and a datagram that was begun never waits
\* behind a count of zero.
THEOREM NeverReadsNothing == Spec => []ReadsOnlyHeld
  <1>1. Invariant => ReadsOnlyHeld
    <2> SUFFICES ASSUME Invariant, sr = "UDP", Readable
                 PROVE  /\ rx # << >>
                        /\ remained > 0 => /\ begun /\ Head(rx).chunks # << >>
                                           /\ remained = Len(Head(rx).chunks)
      BY DEF ReadsOnlyHeld
    <2>1. /\ remained = (IF begun THEN Len(Head(rx).chunks) ELSE 0)
          /\ begun => rx # << >> /\ Head(rx).chunks # << >>
          /\ begun \in BOOLEAN
      BY DEF Invariant, TypeOK, InStep, BegunIsHeld
    <2>2. CASE begun
      BY <2>1, <2>2
    <2>3. CASE ~begun
      <3>1. remained = 0 /\ ~(remained > 0)  BY <2>1, <2>3
      <3>2. rx # << >>  BY <3>1 DEF Readable
      <3> QED  BY <3>1, <3>2
    <2> QED  BY <2>1, <2>2, <2>3
  <1> QED  BY InvariantHolds, <1>1, PTL

\* The first datagram is gone, or has one part less and is the first still.
OnePartTaken ==
  \/ Len(Head(rx).chunks) <= 1 /\ rx' = Tail(rx)
  \/ /\ Len(Head(rx).chunks) > 1
     /\ rx' = <<[Head(rx) EXCEPT !.chunks = Tail(Head(rx).chunks)]>> \o Tail(rx)

\* A poll of an open socket that holds a datagram.
Takes ==
  Serving /\ sr = "UDP" /\ rx # << >> /\ pc' # "server" => OnePartTaken

\* comm_udp_server never passes a datagram by: each poll takes one part of the
\* first datagram, in order, whatever the parts say and whoever sent them.
THEOREM EachPollTakesOne == Spec => [][Takes]_vars
  <1>1. ASSUME [Next]_vars PROVE [Takes]_vars
    <2> SUFFICES ASSUME Serving, sr = "UDP", rx # << >>, pc' # "server"
                 PROVE  OnePartTaken
      BY DEF Takes
    <2>1. Receive
      BY <1>1 DEF Serving, Readable, vars, chip, loop, history, Next, Firmware,
         Environment, SetDhcpIp, Turn, PollServer, ServerClosed, ReceiveNothing,
         SendTo, SendDone, PollClient, ClientClosed, Connect, ClientOther,
         Arrive, ConnectionEnds, ChipReset
    <2>2. Consume
      BY <2>1 DEF Receive, ReceiveEmpty, ReceiveAnswered, ReceiveConnect,
         ReceiveDelay, ReceiveIgnored, recvfrom
    <2> QED  BY <2>2 DEF Consume, OnePartTaken
  <1> QED  BY <1>1, PTL DEF Spec
-----------------------------------------------------------------------------
(***************************************************************************)
(* What RequestServed needs of the states: comm.operation holds one        *)
(* request, and three functions write it.                                  *)
(***************************************************************************)

\* OP_DHCP is what comm_handler does next: neither comm_udp_server nor
\* comm_tcp_client runs while it stands.
DhcpIsNext == operation = "DHCP" => pc = "handler"

\* OP_DHCP ends with an address in the chip, a request for a connection with
\* the call of connect, or with OP_DHCP when the chip has no address to connect
\* from; a second request may only take the place of the first.
RequestEnds ==
  /\ operation = "DHCP" /\ operation' # operation =>
       operation' = "WAIT" /\ haveIp'
  /\ operation = "CONNECT_HOST" /\ operation' # operation =>
       \/ operation' = "WAIT" /\ state = "INIT"
       \/ operation' = "DHCP" /\ state = "CLOSED" /\ ~haveIp

\* No request is lost to another one: comm_tcp_client's OP_DHCP is not
\* overwritten by an "ew con", nor an "ew con" by anything but the want of an
\* address, although both write the one comm.operation.
THEOREM RequestsAreNotLost == Spec => []DhcpIsNext /\ [][RequestEnds]_vars
  <1>1. Init => DhcpIsNext  BY DEF Init, DhcpIsNext
  <1>2. DhcpIsNext /\ [Next]_vars => DhcpIsNext'
    BY DEF DhcpIsNext, vars, chip, loop, history, Next, Firmware, Environment,
       SetDhcpIp, Turn, PollServer, ServerClosed, Serving, ReceiveNothing, Receive,
       ReceiveEmpty, ReceiveAnswered, ReceiveConnect, ReceiveDelay, ReceiveIgnored,
       SendTo, SendDone, PollClient, ClientClosed, Connect, ClientOther, Arrive,
       ConnectionEnds, ChipReset
  <1>3. DhcpIsNext /\ [Next]_vars => [RequestEnds]_vars
    <2> SUFFICES ASSUME DhcpIsNext, Next, operation' # operation
                 PROVE  RequestEnds
      BY DEF RequestEnds
    <2>1. SetDhcpIp \/ ReceiveConnect \/ ClientClosed \/ Connect
      BY DEF vars, chip, loop, history, Next, Firmware, Environment, PollServer,
         ServerClosed, ReceiveNothing, Receive, ReceiveEmpty, ReceiveAnswered,
         ReceiveDelay, ReceiveIgnored, SendTo, SendDone, PollClient, ClientOther,
         Arrive, ConnectionEnds, ChipReset
    <2>2. CASE SetDhcpIp
      BY <2>2 DEF SetDhcpIp, RequestEnds
    <2>3. CASE ReceiveConnect
      BY <2>3 DEF ReceiveConnect, Serving, DhcpIsNext, RequestEnds
    <2>4. CASE ClientClosed
      BY <2>4 DEF ClientClosed, AfterOpen, DhcpIsNext, RequestEnds
    <2>5. CASE Connect
      BY <2>5 DEF Connect, DhcpIsNext, RequestEnds
    <2> QED  BY <2>1, <2>2, <2>3, <2>4, <2>5
  <1> QED  BY <1>1, <1>2, <1>3, PTL DEF Spec
=============================================================================
