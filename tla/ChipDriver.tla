----------------------------- MODULE ChipDriver -----------------------------
(***************************************************************************)
(* recv over SPI: each access of ChipReceive to the chip is one transfer   *)
(* of SpiTransfer.  Data arrive and commands are executed at any moment of *)
(* a transfer; the access happens when its last byte is exchanged, and the *)
(* program goes on when the transfer has ended.                            *)
(***************************************************************************)
EXTENDS ChipReceive, SpiTransfer

\* A register access has three address bytes and one of data.
Address == 3
ASSUME AccessAssumption == (Address + 1)..(Address + Size) \subseteq Lengths

driverVars == <<vars, busVars>>

DriverInit == Init /\ BusInit /\ bus_len = Address + 1

(***************************************************************************)
(* The accesses: where the program is, what it does, and how.              *)
(***************************************************************************)
Reads == {"hi1", "lo1", "hi2", "lo2", "ptrHi", "ptrLo", "data", "wait"}
Writes == {"setHi", "setLo", "command"}

\* while (getSn_CR(sn)): the command is still being executed.
Poll == pc = "wait" /\ ~Executed /\ UNCHANGED vars

Access == \/ ReadHi1 \/ ReadLo1 \/ ReadHi2 \/ ReadLo2
          \/ PtrHi \/ PtrLo \/ Data \/ SetHi \/ SetLo \/ Command
          \/ Wait \/ Poll

AccessKind == IF pc \in Writes THEN "write" ELSE "read"
AccessLength == Address + (IF pc = "data" THEN len ELSE 1)

\* WIZCHIP_READ, _WRITE or _READ_BUF is called.
AccessBegins ==
  /\ pc \in Reads \cup Writes
  /\ Begin
  /\ kind' = AccessKind /\ bus_len' = AccessLength
  /\ UNCHANGED vars

\* The program between two accesses.
Between ==
  /\ bus_pc = "idle"
  /\ (\E l \in Lens : Call(l)) \/ Compare \/ Sized
  /\ UNCHANGED busVars

\* Another byte is exchanged; the last one is the access.
Exchange ==
  /\ Store
  /\ IF got + 1 = bus_len THEN Access ELSE UNCHANGED vars

Transfer ==
  /\ Start \/ Finish \/ Feed \/ Interrupt
  /\ UNCHANGED vars

Failure ==
  /\ Overrun \/ RxError \/ TxError
  /\ UNCHANGED vars

Chip ==
  /\ ExecuteRecv \/ \E k \in 1..Size : Arrive(k)
  /\ UNCHANGED busVars

DriverNext ==
  AccessBegins \/ Between \/ Exchange \/ Transfer \/ Failure \/ Chip

\* The program runs, interrupts are served, the hardware moves bytes, and the
\* chip executes its commands.
DriverSpec ==
  /\ DriverInit /\ [][DriverNext]_driverVars
  /\ WF_driverVars(AccessBegins \/ Between)
  /\ WF_driverVars(Transfer) /\ WF_driverVars(Exchange)
  /\ WF_driverVars(ExecuteRecv /\ UNCHANGED busVars)

(***************************************************************************)
(* Properties, besides those of the two modules.                           *)
(***************************************************************************)
\* recv returns the next bytes of the stream, whatever fails; and it goes on
\* returning some as long as there are some, unless the hardware fails.
StreamKept ==
  /\ Stream!Init /\ [][Stream!Next]_(Stream!vars)
  /\ \/ <>fault
     \/ WF_(Stream!vars)(\E k \in Lens : \E n \in 1..k : Stream!Take(n))
==============================================================================
