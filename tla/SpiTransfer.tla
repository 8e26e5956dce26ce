----------------------------- MODULE SpiTransfer -----------------------------
(***************************************************************************)
(* One access to the W5500 over SPI2 with DMA: WIZCHIP_READ, _WRITE,       *)
(* _READ_BUF and _WRITE_BUF (w5500.c) through W5500_ReadBuff and           *)
(* W5500_WriteBuff (hal_w5500.c), the HAL's SPI and DMA drivers, their     *)
(* interrupts, and the callbacks of main.c that end the program's wait on  *)
(* spi2_cs.                                                                *)
(*                                                                         *)
(* Three actors: the main program; the two DMA streams and the SPI, which  *)
(* move bytes by themselves; and the interrupts, which all have priority 0 *)
(* and so never interrupt one another, but always the main program: it     *)
(* takes a step only when no interrupt is pending.  A byte is only         *)
(* counted.  A DMA stream's lock is held exactly while it is not READY and *)
(* is left out.                                                            *)
(***************************************************************************)
EXTENDS Integers

CONSTANTS
  Lengths,      \* lengths of a transfer, its three address bytes included
  FifoDepth     \* bytes that are on the way through the SPI at most

ASSUME LengthsAssumption ==
  Lengths \subseteq {n \in Nat : n > 3} /\ FifoDepth \in Nat \ {0}

VARIABLES
  bus_pc,       \* the main program: between accesses, before or in the wait
  kind,         \* which burst function the access uses
  bus_len,      \* its length
  spi2_cs,      \* 0 begun, 1 half complete, 2 complete
  selected,     \* the chip select pin
  State,        \* hspi2.State
  ErrorCode,    \* hspi2.ErrorCode
  rx_state,     \* hdma_spi2_rx.State
  tx_state,     \* hdma_spi2_tx.State
  requests,     \* CR2: RXDMAEN and TXDMAEN
  rx_isr,       \* interrupt flags of DMA1 stream 1
  tx_isr,       \* interrupt flags of DMA1 stream 4
  ovr,          \* the SPI's overrun flag
  fed,          \* bytes the tx stream has taken from memory
  fifo,         \* bytes on the way
  got,          \* bytes the rx stream has put into memory
  fault         \* history: the hardware has failed

program == <<bus_pc, kind, bus_len, spi2_cs, selected>>
driver == <<State, ErrorCode, rx_state, tx_state, requests>>
hardware == <<rx_isr, tx_isr, ovr, fed, fifo, got>>
busVars == <<program, driver, hardware, fault>>

BusInit ==
  /\ bus_pc = "idle" /\ kind = "read" /\ bus_len \in Lengths
  /\ spi2_cs = 1 /\ selected = FALSE
  /\ State = "READY" /\ ErrorCode = {}
  /\ rx_state = "READY" /\ tx_state = "READY" /\ requests = FALSE
  /\ rx_isr = {} /\ tx_isr = {} /\ ovr = FALSE
  /\ fed = 0 /\ fifo = 0 /\ got = 0
  /\ fault = FALSE

(***************************************************************************)
(* The main program.                                                       *)
(***************************************************************************)
InterruptPending == rx_isr # {} \/ tx_isr # {} \/ ovr

\* An access begins: the flag is cleared and the chip is selected.
Begin ==
  /\ bus_pc = "idle" /\ ~InterruptPending
  /\ bus_pc' = "start"
  /\ kind' \in {"read", "write"} /\ bus_len' \in Lengths
  /\ spi2_cs' = 0 /\ selected' = TRUE
  /\ UNCHANGED <<driver, hardware, fault>>

\* A stream is started only when it is READY; the answer HAL_BUSY is ignored.
StreamStarts(state) == IF state = "READY" THEN "BUSY" ELSE state

\* Mutant of SetConfig: the rx stream is set up for one byte less.
SetConfigShort == fed' = 0 /\ fifo' = 0 /\ got' = 1

\* DMA_SetConfig: both streams have all the bytes before them.
SetConfig == fed' = 0 /\ fifo' = 0 /\ got' = 0

\* HAL_SPI_TransmitReceive_DMA of all the bytes; BUSY_RX never occurs here.
TransmitReceive_DMA ==
  IF State = "READY"
  THEN /\ State' = "BUSY_TX_RX" /\ ErrorCode' = {} /\ requests' = TRUE
       /\ rx_state' = StreamStarts(rx_state)
       /\ tx_state' = StreamStarts(tx_state)
       /\ SetConfig
       /\ rx_isr' = {} /\ tx_isr' = {} /\ ovr' = ovr
  ELSE UNCHANGED <<driver, hardware>>

\* W5500_WriteBuff waits for the SPI to be READY, W5500_ReadBuff does not.
Start ==
  /\ bus_pc = "start" /\ ~InterruptPending
  /\ kind = "write" => State = "READY"
  /\ bus_pc' = "wait"
  /\ TransmitReceive_DMA
  /\ UNCHANGED <<kind, bus_len, spi2_cs, selected, fault>>

\* Mutant of WaitOver: the wait ends at half of the transfer.
WaitOverAtHalf == spi2_cs >= 1

\* The condition on which the loops "while (spi2_cs < 2)" end.
WaitOver == spi2_cs >= 2

\* The access ends: the bytes are taken and the chip is deselected.
Finish ==
  /\ bus_pc = "wait" /\ ~InterruptPending
  /\ WaitOver
  /\ bus_pc' = "idle" /\ selected' = FALSE
  /\ UNCHANGED <<kind, bus_len, spi2_cs, driver, hardware, fault>>

(***************************************************************************)
(* The hardware.                                                           *)
(***************************************************************************)
Moves(state, isr) == requests /\ state = "BUSY" /\ isr \cap {"TC", "TE"} = {}

\* The tx stream feeds a byte to the SPI; only its end raises an interrupt.
Feed ==
  /\ Moves(tx_state, tx_isr)
  /\ fed < bus_len /\ fifo < FifoDepth
  /\ fed' = fed + 1 /\ fifo' = fifo + 1
  /\ tx_isr' = IF fed + 1 = bus_len THEN {"TC"} ELSE {}
  /\ UNCHANGED <<program, driver, rx_isr, ovr, got, fault>>

\* The rx stream stores a byte; the half and the end raise an interrupt.
Store ==
  /\ Moves(rx_state, rx_isr)
  /\ fifo > 0
  /\ fifo' = fifo - 1 /\ got' = got + 1
  /\ rx_isr' = rx_isr \cup (IF got + 1 = bus_len \div 2 THEN {"HT"} ELSE {})
                      \cup (IF got + 1 = bus_len THEN {"TC"} ELSE {})
  /\ UNCHANGED <<program, driver, tx_isr, ovr, fed, fault>>

\* A byte is lost in the SPI before the rx stream took it.
Overrun ==
  /\ State = "BUSY_TX_RX" /\ fifo > 0
  /\ fifo' = fifo - 1 /\ ovr' = TRUE /\ fault' = TRUE
  /\ UNCHANGED <<program, driver, rx_isr, tx_isr, fed, got>>

\* A stream stops with a transfer error.
RxError ==
  /\ Moves(rx_state, rx_isr)
  /\ rx_isr' = rx_isr \cup {"TE"} /\ fault' = TRUE
  /\ UNCHANGED <<program, driver, tx_isr, ovr, fed, fifo, got>>

TxError ==
  /\ Moves(tx_state, tx_isr)
  /\ tx_isr' = tx_isr \cup {"TE"} /\ fault' = TRUE
  /\ UNCHANGED <<program, driver, rx_isr, ovr, fed, fifo, got>>

(***************************************************************************)
(* The interrupts, in the order of their numbers: stream 1 (rx), stream 4  *)
(* (tx), SPI2.                                                             *)
(***************************************************************************)
\* Mutant of Completes: an interrupt for half and end together counts for
\* half only.
CompletesHalfMissed == rx_isr = {"TC"} /\ rx_state = "BUSY"

Completes == "TC" \in rx_isr /\ rx_state = "BUSY"

\* Mutant of AfterCallbacks: the half-complete callback called last.
AfterCallbacksHalfLast(ok) ==
  IF "HT" \in rx_isr THEN 1 ELSE IF Completes /\ ok THEN 2 ELSE spi2_cs

\* What the callbacks of one interrupt of the rx stream leave in spi2_cs: half
\* complete comes before complete.
AfterCallbacks(ok) ==
  IF Completes /\ ok THEN 2 ELSE IF "HT" \in rx_isr THEN 1 ELSE spi2_cs

\* HAL_DMA_IRQHandler for the rx stream.  A complete transfer, or a transfer
\* error, makes the SPI READY; ok says whether the SPI was found empty in time.
RxInterrupt(ok) ==
  /\ rx_isr # {}
  /\ rx_isr' = {}
  /\ spi2_cs' = AfterCallbacks(ok)
  /\ rx_state' = IF rx_isr \cap {"TC", "TE"} # {} THEN "READY" ELSE rx_state
  /\ IF Completes \/ "TE" \in rx_isr
     THEN /\ State' = "READY" /\ requests' = FALSE
          /\ ErrorCode' = ErrorCode
                \cup (IF "TE" \in rx_isr THEN {"DMA"} ELSE {})
                \cup (IF ok THEN {} ELSE {"FLAG"})
     ELSE UNCHANGED <<State, requests, ErrorCode>>
  /\ fault' = (fault \/ ~ok)
  /\ ok \/ Completes
  /\ UNCHANGED <<bus_pc, kind, bus_len, selected, tx_state, tx_isr, ovr, fed,
                 fifo, got>>

\* HAL_DMA_IRQHandler for the tx stream, which has no callbacks.
TxInterrupt ==
  /\ tx_isr # {} /\ rx_isr = {}
  /\ tx_isr' = {} /\ tx_state' = "READY"
  /\ UNCHANGED <<program, State, ErrorCode, rx_state, requests, rx_isr, ovr,
                 fed, fifo, got, fault>>

\* Aborting a busy stream disables it, which raises its complete interrupt.
Aborts(state) == requests /\ state = "BUSY"
Aborted(state) == IF Aborts(state) THEN "ABORT" ELSE state
AbortFlags(state, isr) == IF Aborts(state) THEN isr \cup {"TC"} ELSE isr

\* HAL_SPI_IRQHandler: an overrun aborts the streams that it finds in use.
SpiInterrupt ==
  /\ ovr /\ rx_isr = {} /\ tx_isr = {}
  /\ ovr' = FALSE /\ ErrorCode' = ErrorCode \cup {"OVR"} /\ State' = "READY"
  /\ requests' = FALSE
  /\ rx_state' = Aborted(rx_state) /\ rx_isr' = AbortFlags(rx_state, rx_isr)
  /\ tx_state' = Aborted(tx_state) /\ tx_isr' = AbortFlags(tx_state, tx_isr)
  /\ UNCHANGED <<program, fed, fifo, got, fault>>

Interrupt == \/ \E ok \in BOOLEAN : RxInterrupt(ok)
             \/ TxInterrupt
             \/ SpiInterrupt

BusNext == \/ Begin \/ Start \/ Finish
           \/ Feed \/ Store
           \/ Overrun \/ RxError \/ TxError
           \/ Interrupt

\* The main program runs, interrupts are served, and the hardware moves bytes;
\* nothing makes it fail.
BusSpec == /\ BusInit /\ [][BusNext]_busVars
           /\ WF_busVars(Begin \/ Start \/ Finish) /\ WF_busVars(Interrupt)
           /\ WF_busVars(Feed) /\ WF_busVars(Store)

(***************************************************************************)
(* Properties.                                                             *)
(***************************************************************************)
\* Each variable has its type, and during a transfer no more bytes are stored
\* or on the way than were fed, and no more fed than asked for.
BusTypeOK ==
  /\ bus_pc \in {"idle", "start", "wait"} /\ kind \in {"read", "write"}
  /\ bus_len \in Lengths /\ spi2_cs \in 0..2 /\ selected \in BOOLEAN
  /\ State \in {"READY", "BUSY_TX_RX"}
  /\ ErrorCode \subseteq {"OVR", "DMA", "FLAG"}
  /\ rx_state \in {"READY", "BUSY", "ABORT"}
  /\ tx_state \in {"READY", "BUSY", "ABORT"}
  /\ requests \in BOOLEAN /\ ovr \in BOOLEAN /\ fault \in BOOLEAN
  /\ rx_isr \subseteq {"HT", "TC", "TE"} /\ tx_isr \subseteq {"TC", "TE"}
  /\ fed \in Nat /\ fifo \in 0..FifoDepth /\ got \in Nat
  /\ bus_pc # "start" => fed <= bus_len /\ got + fifo <= fed

\* Whenever the program starts a transfer, the SPI and both streams are READY:
\* W5500_ReadBuff does not wait for it, and nobody looks at the HAL's answer.
\* (The interrupt of the tx stream may be served after the one that ends the
\* program's wait, but not after the program has gone on.)
StartsReady ==
  bus_pc = "start" =>
    State = "READY" /\ rx_state = "READY" /\ tx_state = "READY"

\* The chip is deselected, and the bytes are used, only when all bytes have
\* been sent and stored and nothing failed on the way.
WholeTransfer ==
  [][selected /\ ~selected' => got = bus_len /\ fed = bus_len /\ ~fault]_busVars

\* Every access ends, unless the hardware fails: the half-complete callback
\* never comes after the other, and no wait for the SPI is in vain.  (After a
\* failure the program waits for ever: no error callback touches spi2_cs.)
AccessEnds == bus_pc # "idle" ~> (bus_pc = "idle" \/ fault)
==============================================================================
