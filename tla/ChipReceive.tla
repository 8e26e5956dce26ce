----------------------------- MODULE ChipReceive -----------------------------
(***************************************************************************)
(* The receive memory of a W5500 socket and the program's way to it, one   *)
(* register access at a time: recv of socket.c with getSn_RX_RSR and       *)
(* wiz_recv_data of w5500.c.  Data arrive between any two accesses, so     *)
(* that the two bytes of a register may be of different values.  An access *)
(* itself is whole (SpiTransfer).                                          *)
(*                                                                         *)
(* A byte of a register counts to Base (256 in the chip), so a register of *)
(* two bytes is a number modulo Base * Base.  A byte of data is its        *)
(* position in the stream.                                                 *)
(***************************************************************************)
EXTENDS Integers

CONSTANTS
  Base,         \* values of a byte of a register
  Size,         \* bytes of the receive memory
  Lens,         \* lengths that recv is called with
  Starts,       \* values of the pointer registers at the beginning
  MaxArrived    \* bound: bytes that arrive

Wide == Base * Base

\* The memory divides the range of the pointers, and its size can be told.
ASSUME SizesAssumption ==
  /\ Base \in Nat \ {0} /\ Size \in Nat \ {0}
  /\ Size < Wide /\ Wide % Size = 0
ASSUME InputsAssumption ==
  Lens \subseteq 1..Size /\ Starts \subseteq 0..(Wide - 1) /\ MaxArrived \in Nat

VARIABLES
  start,        \* where in the memory the stream began
  arrived,      \* bytes that have arrived
  freed,        \* bytes that RECV commands have freed
  RX_RD,        \* the register Sn_RX_RD
  CR,           \* the command register Sn_CR; "NONE" once executed
  pc,           \* the next access of the program
  len,          \* the parameter of recv
  val1, val,    \* local variables of getSn_RX_RSR
  ptr,          \* local variable of wiz_recv_data
  taken,        \* bytes that calls of recv have read
  last,         \* the bytes that the last one has read
  held          \* history: what Sn_RX_RSR has been since getSn_RX_RSR began

chip == <<start, arrived, freed, RX_RD, CR>>
recvVars == <<len, val1, val, ptr>>
stream == <<taken, last>>
vars == <<chip, pc, recvVars, stream, held>>

Hi(v) == v \div Base
Lo(v) == v % Base

\* The register Sn_RX_RSR: what has arrived and not been freed.
RX_RSR == arrived - freed

\* The receive memory: at each address the last byte that was put there.
Memory(a) == CHOOSE p \in (arrived - Size + 1)..arrived :
               (start + p - 1) % Size = a

Init ==
  /\ start \in Starts /\ RX_RD = start
  /\ arrived = 0 /\ freed = 0 /\ CR = "NONE"
  /\ pc = "idle" /\ len = 0 /\ val1 = 0 /\ val = 0 /\ ptr = 0
  /\ taken = 0 /\ last = << >>
  /\ held = {}

(***************************************************************************)
(* The chip.                                                               *)
(***************************************************************************)
InRead == pc \in {"hi1", "lo1", "hi2", "lo2", "compare"}
Seen(size) == IF InRead THEN held \cup {size} ELSE held

\* A segment of k bytes that fits arrives.
Arrive(k) ==
  /\ k <= Size - RX_RSR /\ arrived + k <= MaxArrived
  /\ arrived' = arrived + k
  /\ held' = Seen(RX_RSR + k)
  /\ UNCHANGED <<start, freed, RX_RD, CR, pc, recvVars, stream>>

\* RECV: what lies before the program's pointer is free.
ExecuteRecv ==
  /\ CR = "RECV"
  /\ CR' = "NONE"
  /\ freed' = freed + ((RX_RD - (start + freed)) % Wide)
  /\ held' = Seen(arrived - freed')
  /\ UNCHANGED <<start, arrived, RX_RD, pc, recvVars, stream>>

(***************************************************************************)
(* getSn_RX_RSR.                                                           *)
(***************************************************************************)
Call(l) ==
  /\ pc = "idle"
  /\ pc' = "hi1" /\ len' = l
  /\ held' = {RX_RSR}
  /\ UNCHANGED <<chip, val1, val, ptr, stream>>

ReadHi1 ==
  /\ pc = "hi1" /\ pc' = "lo1"
  /\ val1' = Hi(RX_RSR)
  /\ UNCHANGED <<chip, len, val, ptr, stream, held>>

\* A size of 0 is not read again, but compared with the last val.
ReadLo1 ==
  /\ pc = "lo1"
  /\ val1' = val1 * Base + Lo(RX_RSR)
  /\ pc' = IF val1' # 0 THEN "hi2" ELSE "compare"
  /\ UNCHANGED <<chip, len, val, ptr, stream, held>>

ReadHi2 ==
  /\ pc = "hi2" /\ pc' = "lo2"
  /\ val' = Hi(RX_RSR)
  /\ UNCHANGED <<chip, len, val1, ptr, stream, held>>

ReadLo2 ==
  /\ pc = "lo2" /\ pc' = "compare"
  /\ val' = val * Base + Lo(RX_RSR)
  /\ UNCHANGED <<chip, len, val1, ptr, stream, held>>

\* Mutant of Settled: one reading is enough.
SettledAtOnce == TRUE

Settled == val = val1

Compare ==
  /\ pc = "compare"
  /\ pc' = IF Settled THEN "sized" ELSE "hi1"
  /\ UNCHANGED <<chip, recvVars, stream, held>>

(***************************************************************************)
(* recv and wiz_recv_data.                                                 *)
(***************************************************************************)
\* Mutant of Length: what was asked for, whether it has arrived or not.
LengthAsked == len

Length == IF val < len THEN val ELSE len

\* Nothing to read is SOCK_BUSY.  The locals of getSn_RX_RSR are gone.
Sized ==
  /\ pc = "sized"
  /\ pc' = IF val = 0 THEN "idle" ELSE "ptrHi"
  /\ len' = Length /\ val1' = 0 /\ val' = 0 /\ held' = {}
  /\ UNCHANGED <<chip, ptr, stream>>

PtrHi ==
  /\ pc = "ptrHi" /\ pc' = "ptrLo"
  /\ ptr' = Hi(RX_RD) * Base
  /\ UNCHANGED <<chip, len, val1, val, stream, held>>

PtrLo ==
  /\ pc = "ptrLo" /\ pc' = "data"
  /\ ptr' = ptr + Lo(RX_RD)
  /\ UNCHANGED <<chip, len, val1, val, stream, held>>

\* WIZCHIP_READ_BUF: the chip wraps the address within the socket's memory.
Data ==
  /\ pc = "data" /\ pc' = "setHi"
  /\ last' = [i \in 1..len |-> Memory((ptr + i - 1) % Size)]
  /\ taken' = taken + len
  /\ ptr' = (ptr + len) % Wide
  /\ UNCHANGED <<chip, len, val1, val, held>>

SetHi ==
  /\ pc = "setHi" /\ pc' = "setLo"
  /\ RX_RD' = Hi(ptr) * Base + Lo(RX_RD)
  /\ UNCHANGED <<start, arrived, freed, CR, recvVars, stream, held>>

SetLo ==
  /\ pc = "setLo" /\ pc' = "command"
  /\ RX_RD' = Hi(RX_RD) * Base + Lo(ptr)
  /\ UNCHANGED <<start, arrived, freed, CR, recvVars, stream, held>>

Command ==
  /\ pc = "command" /\ pc' = "wait"
  /\ CR' = "RECV"
  /\ UNCHANGED <<start, arrived, freed, RX_RD, recvVars, stream, held>>

\* Mutant of Executed: the command is not waited for.
ExecutedSoon == TRUE

Executed == CR = "NONE"

Wait ==
  /\ pc = "wait" /\ pc' = "idle"
  /\ Executed
  /\ len' = 0 /\ ptr' = 0
  /\ UNCHANGED <<chip, val1, val, stream, held>>

Read == ReadHi1 \/ ReadLo1 \/ ReadHi2 \/ ReadLo2 \/ Compare
Program == \/ \E l \in Lens : Call(l)
           \/ Read
           \/ Sized \/ PtrHi \/ PtrLo \/ Data \/ SetHi \/ SetLo \/ Command \/ Wait

Next == Program \/ ExecuteRecv \/ \E k \in 1..Size : Arrive(k)

\* The program calls recv again and again; the chip executes its commands.
Spec == Init /\ [][Next]_vars /\ WF_vars(Program) /\ WF_vars(ExecuteRecv)

(***************************************************************************)
(* Properties.                                                             *)
(***************************************************************************)
\* Each variable has its type; the memory never holds more than its size.
TypeOK ==
  /\ start \in 0..(Wide - 1)
  /\ arrived \in Nat /\ freed \in 0..arrived /\ RX_RSR <= Size
  /\ RX_RD \in 0..(Wide - 1) /\ CR \in {"NONE", "RECV"}
  /\ pc \in {"idle", "hi1", "lo1", "hi2", "lo2", "compare", "sized", "ptrHi",
             "ptrLo", "data", "setHi", "setLo", "command", "wait"}
  /\ len \in 0..Size /\ ptr \in 0..(Wide - 1)
  /\ val1 \in Nat /\ val \in Nat /\ taken \in 0..arrived

\* A size that getSn_RX_RSR returns, if not 0, was the register's value at some
\* moment of the call: the two bytes are not of different values.  (A 0 may be
\* put together of two: then data wait for the next call.)
SizeWasTrue == pc = "sized" /\ val # 0 => val \in held

\* recv takes the next bytes of the stream, never more than have arrived,
\* wherever the pointers wrap; and as long as there are some it takes some.
Stream == INSTANCE ByteStream
StreamSpec == Stream!Spec
===============================================================================
