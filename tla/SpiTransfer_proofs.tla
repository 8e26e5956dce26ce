------------------------- MODULE SpiTransfer_proofs -------------------------
(***************************************************************************)
(* Proofs about SpiTransfer, for every set of lengths and every depth of   *)
(* the SPI's buffers: no transfer is started before the SPI and both       *)
(* streams are READY, and the chip is deselected only after a whole and    *)
(* faultless transfer.                                                     *)
(***************************************************************************)
EXTENDS ChipDriver, TLAPS

\* Between two accesses, and before the transfer of one, all is quiet.
Quiet ==
  /\ bus_pc = "start" => spi2_cs = 0
  /\ bus_pc \in {"idle", "start"} =>
       /\ ~fault /\ ~requests /\ ~ovr /\ rx_isr = {} /\ tx_isr = {}
       /\ State = "READY" /\ rx_state = "READY" /\ tx_state = "READY"

\* While nothing has failed, a transfer that the program waits for is under
\* way: no byte is lost, and each stream has its end before it or pending.
Underway ==
  bus_pc = "wait" /\ ~fault /\ spi2_cs # 2 =>
    /\ State = "BUSY_TX_RX" /\ requests /\ ~ovr
    /\ got + fifo = fed
    /\ rx_state = "BUSY" /\ "TE" \notin rx_isr
    /\ ("TC" \in rx_isr <=> got = bus_len)
    /\ \/ /\ tx_state = "BUSY"
          /\ "TE" \notin tx_isr /\ ("TC" \in tx_isr <=> fed = bus_len)
       \/ tx_state = "READY" /\ tx_isr = {} /\ fed = bus_len

\* When the flag says complete, it is, but for the interrupt of the tx stream.
Complete ==
  bus_pc = "wait" /\ spi2_cs = 2 =>
    /\ ~fault /\ ~requests /\ ~ovr
    /\ State = "READY" /\ got = bus_len /\ fed = bus_len
    /\ rx_state = "READY" /\ rx_isr = {}
    /\ "TE" \notin tx_isr
    /\ \/ tx_state = "BUSY" /\ "TC" \in tx_isr
       \/ tx_state = "READY" /\ tx_isr = {}

\* The tx stream will feed no more.
Dry == ~requests \/ tx_state # "BUSY" \/ "TE" \in tx_isr

\* After a failure the rx stream can no longer reach its end: it has stopped,
\* or a byte is lost, or one will not be fed.
Failed ==
  bus_pc = "wait" /\ fault =>
    /\ spi2_cs # 2
    /\ tx_state = "BUSY" /\ fed = bus_len => tx_isr # {}
    /\ rx_state = "BUSY" =>
         /\ "TC" \notin rx_isr
         /\ "TE" \in rx_isr \/ got + fifo < fed \/ (fed < bus_len /\ Dry)

\* The inductive invariant.
IInv == BusTypeOK /\ Quiet /\ Underway /\ Complete /\ Failed

LEMMA InitHolds == BusInit => IInv
<1> SUFFICES ASSUME BusInit PROVE IInv
  OBVIOUS
<1>1. BusTypeOK
  <2>1. bus_len \in Nat /\ 0 <= bus_len /\ 0 \in 0..FifoDepth
    BY LengthsAssumption DEF BusInit
  <2>2. ErrorCode \subseteq {"OVR", "DMA", "FLAG"} /\ rx_isr \subseteq {"HT",
  "TC", "TE"}
        /\ tx_isr \subseteq {"TC", "TE"}
    BY DEF BusInit
  <2>3. /\ selected \in BOOLEAN /\ requests \in BOOLEAN
        /\ ovr \in BOOLEAN /\ fault \in BOOLEAN
    BY Zenon DEF BusInit
  <2> QED
    BY <2>1, <2>2, <2>3 DEF BusInit, BusTypeOK
<1>2. Quiet
  BY LengthsAssumption DEF BusInit, Quiet
<1>3. Underway
  BY LengthsAssumption DEF BusInit, Underway
<1>4. Complete
  BY LengthsAssumption DEF BusInit, Complete
<1>5. Failed
  BY LengthsAssumption DEF BusInit, Failed
<1> QED BY <1>1, <1>2, <1>3, <1>4, <1>5 DEF IInv

LEMMA BeginKeeps == IInv /\ Begin => IInv'
<1> SUFFICES ASSUME IInv, Begin PROVE IInv'
  OBVIOUS
<1>1. BusTypeOK'
  BY DEF Begin, InterruptPending, IInv, BusTypeOK, driver, hardware
<1>2. Quiet'
  BY DEF Begin, InterruptPending, IInv, Quiet, driver, hardware
<1>3. Underway'
  BY DEF Begin, InterruptPending, IInv, Underway
<1>4. Complete'
  BY DEF Begin, InterruptPending, IInv, Complete
<1>5. Failed'
  BY DEF Begin, InterruptPending, IInv, Failed
<1> QED BY <1>1, <1>2, <1>3, <1>4, <1>5 DEF IInv

LEMMA StartKeeps == IInv /\ Start => IInv'
<1> SUFFICES ASSUME IInv, Start PROVE IInv'
  OBVIOUS
<1>1. BusTypeOK'
  BY LengthsAssumption DEF Start, InterruptPending, TransmitReceive_DMA,
                           SetConfig, StreamStarts, IInv, BusTypeOK, Quiet
<1>2. Quiet'
  BY DEF Start, InterruptPending, TransmitReceive_DMA, SetConfig, StreamStarts,
         IInv, Quiet
<1>3. Underway'
  BY LengthsAssumption DEF Start, InterruptPending, TransmitReceive_DMA,
                           SetConfig, StreamStarts, IInv, BusTypeOK, Quiet,
                           Underway
<1>4. Complete'
  BY DEF Start, InterruptPending, TransmitReceive_DMA, SetConfig, StreamStarts,
         IInv, Quiet, Complete
<1>5. Failed'
  BY DEF Start, InterruptPending, TransmitReceive_DMA, SetConfig, StreamStarts,
         IInv, Quiet, Failed
<1> QED BY <1>1, <1>2, <1>3, <1>4, <1>5 DEF IInv

LEMMA FinishKeeps == IInv /\ Finish => IInv'
<1> SUFFICES ASSUME IInv, Finish PROVE IInv'
  OBVIOUS
<1>1. BusTypeOK'
  BY DEF Finish, InterruptPending, WaitOver, IInv, BusTypeOK, driver, hardware
<1>2. Quiet'
  BY DEF Finish, InterruptPending, WaitOver, IInv, BusTypeOK, Quiet, Complete,
         driver, hardware
<1>3. Underway'
  BY DEF Finish, InterruptPending, WaitOver, IInv, Underway
<1>4. Complete'
  BY DEF Finish, InterruptPending, WaitOver, IInv, Complete
<1>5. Failed'
  BY DEF Finish, InterruptPending, WaitOver, IInv, Failed
<1> QED BY <1>1, <1>2, <1>3, <1>4, <1>5 DEF IInv

LEMMA FeedKeeps == IInv /\ Feed => IInv'
<1> SUFFICES ASSUME IInv, Feed PROVE IInv'
  OBVIOUS
<1>1. BusTypeOK'
  BY LengthsAssumption DEF Feed, Moves, IInv, BusTypeOK, program, driver
<1>2. Quiet'
  BY DEF Feed, Moves, IInv, Quiet, program
<1>3. Underway'
  BY DEF Feed, Moves, IInv, BusTypeOK, Underway, program, driver
<1>4. Complete'
  BY DEF Feed, Moves, IInv, Complete, program
<1>5. Failed'
  BY DEF Feed, Moves, IInv, BusTypeOK, Failed, program, driver, Dry
<1> QED BY <1>1, <1>2, <1>3, <1>4, <1>5 DEF IInv

LEMMA StoreKeeps == IInv /\ Store => IInv'
<1> SUFFICES ASSUME IInv, Store PROVE IInv'
  OBVIOUS
<1>1. BusTypeOK'
  BY LengthsAssumption DEF Store, Moves, IInv, BusTypeOK, program, driver
<1>2. Quiet'
  BY DEF Store, Moves, IInv, Quiet, program
<1>3. Underway'
  BY DEF Store, Moves, IInv, BusTypeOK, Underway, program, driver
<1>4. Complete'
  BY DEF Store, Moves, IInv, Complete, program
<1>5. Failed'
  BY DEF Store, Moves, IInv, BusTypeOK, Failed, program, driver, Dry
<1> QED BY <1>1, <1>2, <1>3, <1>4, <1>5 DEF IInv

LEMMA OverrunKeeps == IInv /\ Overrun => IInv'
<1> SUFFICES ASSUME IInv, Overrun PROVE IInv'
  OBVIOUS
<1>1. BusTypeOK'
  BY LengthsAssumption DEF Overrun, IInv, BusTypeOK, program, driver
<1>2. Quiet'
  BY DEF Overrun, IInv, Quiet, program
<1>3. Underway'
  BY DEF Overrun, IInv, Underway
<1>4. Complete'
  BY DEF Overrun, IInv, Complete, program
<1>5. Failed'
  BY DEF Overrun, IInv, BusTypeOK, Underway, Complete, Failed, program, driver
<1> QED BY <1>1, <1>2, <1>3, <1>4, <1>5 DEF IInv

LEMMA RxErrorKeeps == IInv /\ RxError => IInv'
<1> SUFFICES ASSUME IInv, RxError PROVE IInv'
  OBVIOUS
<1>1. BusTypeOK'
  BY DEF RxError, Moves, IInv, BusTypeOK, program, driver
<1>2. Quiet'
  BY DEF RxError, Moves, IInv, Quiet, program
<1>3. Underway'
  BY DEF RxError, Moves, IInv, Underway
<1>4. Complete'
  BY DEF RxError, Moves, IInv, Complete, program
<1>5. Failed'
  BY DEF RxError, Moves, IInv, Underway, Complete, Failed, program, driver
<1> QED BY <1>1, <1>2, <1>3, <1>4, <1>5 DEF IInv

LEMMA TxErrorKeeps == IInv /\ TxError => IInv'
<1> SUFFICES ASSUME IInv, TxError PROVE IInv'
  OBVIOUS
<1>1. BusTypeOK'
  BY DEF TxError, Moves, IInv, BusTypeOK, program, driver
<1>2. Quiet'
  BY DEF TxError, Moves, IInv, Quiet, program
<1>3. Underway'
  BY DEF TxError, Moves, IInv, Underway
<1>4. Complete'
  BY DEF TxError, Moves, IInv, Complete, program
<1>5. Failed'
  BY LengthsAssumption DEF TxError, Moves, IInv, BusTypeOK, Underway, Complete,
                           Failed, program, driver, Dry
<1> QED BY <1>1, <1>2, <1>3, <1>4, <1>5 DEF IInv

LEMMA RxInterruptKeeps ==
  ASSUME NEW ok \in BOOLEAN, IInv, RxInterrupt(ok) PROVE IInv'
<1>1. BusTypeOK'
  <2>1. ErrorCode' \subseteq {"OVR", "DMA", "FLAG"}
    BY DEF RxInterrupt, IInv, BusTypeOK
  <2>2. rx_isr' \subseteq {"HT", "TC", "TE"} /\ tx_isr' \subseteq {"TC", "TE"}
    BY DEF RxInterrupt, IInv, BusTypeOK
  <2>3. /\ State' \in {"READY", "BUSY_TX_RX"}
        /\ rx_state' \in {"READY", "BUSY", "ABORT"}
    BY DEF RxInterrupt, Completes, IInv, BusTypeOK
  <2>4. spi2_cs' \in 0..2
    BY DEF RxInterrupt, Completes, AfterCallbacks, IInv, BusTypeOK
  <2>5. requests' \in BOOLEAN
    BY Zenon DEF RxInterrupt, IInv, BusTypeOK
  <2>6. fault' \in BOOLEAN
    BY Zenon DEF RxInterrupt
  <2>7. QED
    BY <2>1, <2>2, <2>3, <2>4, <2>5, <2>6 DEF RxInterrupt, IInv, BusTypeOK
<1>2. Quiet'
  BY DEF RxInterrupt, Completes, AfterCallbacks, IInv, Quiet
<1>3. Underway'
  BY DEF RxInterrupt, Completes, AfterCallbacks, IInv, Underway, Complete
<1>4. Complete'
  BY DEF RxInterrupt, Completes, AfterCallbacks, IInv, BusTypeOK, Underway,
         Complete, Failed
<1>5. Failed'
  BY DEF RxInterrupt, Completes, AfterCallbacks, IInv, BusTypeOK, Underway,
         Complete, Failed, Dry
<1> QED BY <1>1, <1>2, <1>3, <1>4, <1>5 DEF IInv

LEMMA TxInterruptKeeps == IInv /\ TxInterrupt => IInv'
<1> SUFFICES ASSUME IInv, TxInterrupt PROVE IInv'
  OBVIOUS
<1>1. BusTypeOK'
  BY DEF TxInterrupt, IInv, BusTypeOK, program
<1>2. Quiet'
  BY DEF TxInterrupt, IInv, Quiet, program
<1>3. Underway'
  BY DEF TxInterrupt, IInv, BusTypeOK, Underway, program
<1>4. Complete'
  BY DEF TxInterrupt, IInv, Complete, program
<1>5. Failed'
  BY DEF TxInterrupt, IInv, Failed, program, Dry
<1> QED BY <1>1, <1>2, <1>3, <1>4, <1>5 DEF IInv

LEMMA SpiInterruptKeeps == IInv /\ SpiInterrupt => IInv'
<1> SUFFICES ASSUME IInv, SpiInterrupt PROVE IInv'
  OBVIOUS
<1>1. BusTypeOK'
  BY DEF SpiInterrupt, Aborts, Aborted, AbortFlags, IInv, BusTypeOK, program
<1>2. Quiet'
  BY DEF SpiInterrupt, Aborts, Aborted, AbortFlags, IInv, Quiet, program
<1>3. Underway'
  BY DEF SpiInterrupt, Aborts, Aborted, AbortFlags, IInv, BusTypeOK, Quiet,
         Underway, Complete
<1>4. Complete'
  BY DEF SpiInterrupt, Aborts, Aborted, AbortFlags, IInv, Complete, program
<1>5. Failed'
  BY DEF SpiInterrupt, Aborts, Aborted, AbortFlags, IInv, Failed, program, Dry
<1> QED BY <1>1, <1>2, <1>3, <1>4, <1>5 DEF IInv

\* Every step keeps the invariant.
LEMMA StepKeeps == IInv /\ [BusNext]_busVars => IInv'
<1> SUFFICES ASSUME IInv, [BusNext]_busVars PROVE IInv'
  OBVIOUS
<1>1. CASE Begin BY <1>1, BeginKeeps
<1>2. CASE Start BY <1>2, StartKeeps
<1>3. CASE Finish BY <1>3, FinishKeeps
<1>4. CASE Feed BY <1>4, FeedKeeps
<1>5. CASE Store BY <1>5, StoreKeeps
<1>6. CASE Overrun BY <1>6, OverrunKeeps
<1>7. CASE RxError BY <1>7, RxErrorKeeps
<1>8. CASE TxError BY <1>8, TxErrorKeeps
<1>9. CASE Interrupt
  BY <1>9, RxInterruptKeeps, TxInterruptKeeps, SpiInterruptKeeps DEF Interrupt
<1>10. CASE UNCHANGED busVars
  BY <1>10 DEF busVars, program, driver, hardware, IInv, BusTypeOK, Quiet,
               Underway, Complete, Failed, Dry
<1> QED
  BY <1>1, <1>2, <1>3, <1>4, <1>5, <1>6, <1>7, <1>8, <1>9, <1>10 DEF BusNext

LEMMA Invariance == BusSpec => []IInv
  BY InitHolds, StepKeeps, PTL DEF BusSpec

\* Every variable keeps its type.
THEOREM TypeCorrect == BusSpec => []BusTypeOK
<1>1. IInv => BusTypeOK
  BY DEF IInv
<1> QED BY <1>1, Invariance, PTL

\* W5500_ReadBuff and W5500_WriteBuff find the SPI and both streams READY, so
\* that the HAL's answer, which nobody reads, is always HAL_OK.
THEOREM TransfersStartReady == BusSpec => []StartsReady
<1>1. IInv => StartsReady
  BY DEF IInv, Quiet, StartsReady
<1> QED BY <1>1, Invariance, PTL

\* What a step of the program may do to the chip select.
Whole == selected /\ ~selected' => got = bus_len /\ fed = bus_len /\ ~fault

LEMMA StepIsWhole == IInv /\ [BusNext]_busVars => [Whole]_busVars
<1> SUFFICES ASSUME IInv, BusNext PROVE Whole
  OBVIOUS
<1>1. CASE Finish
  BY <1>1 DEF Finish, WaitOver, IInv, BusTypeOK, Complete, Whole
<1>2. CASE Begin
  BY <1>2 DEF Begin, Whole
<1>3. CASE ~Begin /\ ~Finish
  <2>1. selected' = selected
    BY <1>3 DEF BusNext, Start, Feed, Store, Overrun, RxError, TxError,
                Interrupt, RxInterrupt, TxInterrupt, SpiInterrupt, program
  <2> QED BY <2>1 DEF Whole
<1> QED BY <1>1, <1>2, <1>3

\* The chip is deselected only after all bytes were sent and stored and nothing
\* failed: what WIZCHIP_READ and WIZCHIP_READ_BUF return is what the chip sent.
THEOREM TransfersAreWhole == BusSpec => WholeTransfer
<1> QED BY StepIsWhole, Invariance, PTL DEF BusSpec, WholeTransfer, Whole

(***************************************************************************)
(* What AccessEnds needs of the states and the steps: until the hardware   *)
(* fails, an access under way has a step to take, and only finitely many.  *)
(* That they are taken is fairness, which TLC adds.                        *)
(***************************************************************************)
Raised(isr) == IF isr = {} THEN 0 ELSE 1

\* Steps that an access can still take: each byte is fed and stored, and each
\* may raise an interrupt.
StepsLeft ==
  IF bus_pc = "idle" THEN 0
  ELSE IF bus_pc = "start" THEN 4 * bus_len + 2
  ELSE 2 * (bus_len - fed) + 2 * (bus_len - got)
         + Raised(rx_isr) + Raised(tx_isr) + 1

\* Something can be done: an interrupt is served, the transfer is started or
\* the wait ends, a byte is stored or fed.
CanGoOn ==
  \/ InterruptPending
  \/ bus_pc = "start" /\ State = "READY"
  \/ bus_pc = "wait" /\ WaitOver
  \/ Moves(rx_state, rx_isr) /\ fifo > 0
  \/ Moves(tx_state, tx_isr) /\ fed < bus_len /\ fifo < FifoDepth

NeverHangs == bus_pc # "idle" /\ ~fault => CanGoOn

\* A step of an access during which nothing fails.
GoesOn ==
  bus_pc # "idle" /\ ~fault' => StepsLeft' \in Nat /\ StepsLeft' < StepsLeft

LEMMA GoOn == IInv => NeverHangs
<1> SUFFICES ASSUME IInv, bus_pc # "idle", ~fault, ~InterruptPending
             PROVE  CanGoOn
  BY DEF NeverHangs, CanGoOn
<1>1. BusTypeOK /\ Quiet /\ Underway
  BY DEF IInv
<1>2. CASE bus_pc = "start"
  BY <1>1, <1>2 DEF Quiet, CanGoOn
<1>3. CASE bus_pc = "wait" /\ spi2_cs = 2
  BY <1>3 DEF CanGoOn, WaitOver
<1>4. CASE bus_pc = "wait" /\ spi2_cs # 2
  <2>1. /\ requests /\ rx_state = "BUSY" /\ got + fifo = fed
        /\ got # bus_len
        /\ tx_state = "BUSY" \/ fed = bus_len
        /\ rx_isr = {} /\ tx_isr = {}
    BY <1>1, <1>4 DEF Underway, InterruptPending
  <2>2. /\ fed \in Nat /\ got \in Nat /\ fifo \in 0..FifoDepth /\ bus_len \in Nat
        /\ fed <= bus_len /\ FifoDepth \in Nat \ {0}
    BY <1>1, <1>4, LengthsAssumption DEF BusTypeOK
  <2>3. CASE fifo > 0
    BY <2>1, <2>3 DEF CanGoOn, Moves
  <2>4. CASE fifo = 0
    <3>1. fed < bus_len /\ fifo < FifoDepth
      BY <2>1, <2>2, <2>4
    <3> QED BY <2>1, <2>2, <3>1 DEF CanGoOn, Moves
  <2> QED BY <2>2, <2>3, <2>4
<1> QED BY <1>1, <1>2, <1>3, <1>4 DEF BusTypeOK

LEMMA Counts ==
  ASSUME BusTypeOK
  PROVE  /\ bus_len \in Nat /\ bus_len > 3
         /\ fed \in Nat /\ got \in Nat /\ fifo \in Nat
         /\ bus_pc = "wait" => got + fifo <= fed /\ fed <= bus_len
         /\ Raised(rx_isr) \in 0..1 /\ Raised(tx_isr) \in 0..1
  BY LengthsAssumption DEF BusTypeOK, Raised

LEMMA StepShortens == IInv /\ [BusNext]_busVars => [GoesOn]_busVars
<1> SUFFICES ASSUME IInv, BusNext, bus_pc # "idle", ~fault'
             PROVE  StepsLeft' \in Nat /\ StepsLeft' < StepsLeft
  BY DEF GoesOn
<1>1. BusTypeOK /\ Quiet /\ Underway /\ Complete
  BY DEF IInv
<1>2. IInv'
  BY StepKeeps
<1>3. BusTypeOK'
  BY <1>2 DEF IInv
<1>4. CASE Start
  <2>1. /\ bus_pc = "start" /\ bus_pc' = "wait" /\ bus_len' = bus_len
        /\ fed' = 0 /\ got' = 0 /\ rx_isr' = {} /\ tx_isr' = {}
    BY <1>1, <1>4 DEF Start, TransmitReceive_DMA, SetConfig, Quiet
  <2> QED BY <1>1, <2>1, Counts DEF StepsLeft, Raised
<1>5. CASE Finish
  BY <1>1, <1>5, Counts DEF Finish, StepsLeft
<1>6. CASE Feed
  <2>1. /\ bus_pc = "wait" /\ bus_pc' = bus_pc /\ UNCHANGED <<bus_len, got, rx_isr>>
        /\ fed' = fed + 1 /\ fed < bus_len
    BY <1>1, <1>6 DEF Feed, Moves, Quiet, program, BusTypeOK
  <2>2. Raised(rx_isr') = Raised(rx_isr) /\ Raised(tx_isr') \in 0..1
    BY <1>3, <2>1 DEF Raised
  <2>3. Raised(tx_isr) = 0 \/ Raised(tx_isr) = 1
    BY DEF Raised
  <2> QED BY <1>1, <2>1, <2>2, <2>3, Counts DEF StepsLeft
<1>7. CASE Store
  <2>1. /\ bus_pc = "wait" /\ bus_pc' = bus_pc /\ UNCHANGED <<bus_len, fed, tx_isr>>
        /\ got' = got + 1 /\ fifo > 0
    BY <1>1, <1>7 DEF Store, Moves, Quiet, program, BusTypeOK
  <2>2. Raised(tx_isr') = Raised(tx_isr) /\ Raised(rx_isr') \in 0..1
    BY <1>3, <2>1 DEF Raised
  <2> QED BY <1>1, <2>1, <2>2, Counts DEF StepsLeft
<1>8. ASSUME NEW ok \in BOOLEAN, RxInterrupt(ok)
      PROVE  StepsLeft' \in Nat /\ StepsLeft' < StepsLeft
  <2>1. /\ bus_pc = "wait" /\ bus_pc' = bus_pc
        /\ rx_isr # {} /\ rx_isr' = {} /\ UNCHANGED <<bus_len, fed, got, tx_isr>>
    BY <1>1, <1>8 DEF RxInterrupt, Quiet, BusTypeOK
  <2> QED BY <1>1, <2>1, Counts DEF StepsLeft, Raised
<1>9. CASE TxInterrupt
  <2>1. /\ bus_pc = "wait" /\ bus_pc' = bus_pc
        /\ tx_isr # {} /\ tx_isr' = {} /\ UNCHANGED <<bus_len, fed, got, rx_isr>>
    BY <1>1, <1>9 DEF TxInterrupt, Quiet, BusTypeOK, program
  <2> QED BY <1>1, <2>1, Counts DEF StepsLeft, Raised
<1>10. ~Begin /\ ~Overrun /\ ~RxError /\ ~TxError
  BY DEF Begin, Overrun, RxError, TxError
<1>11. ~SpiInterrupt
  <2>1. SpiInterrupt => ~fault /\ ovr
    BY DEF SpiInterrupt
  <2> QED BY <1>1, <2>1 DEF Quiet, Underway, Complete, BusTypeOK
<1> QED
  BY <1>4, <1>5, <1>6, <1>7, <1>8, <1>9, <1>10, <1>11 DEF BusNext, Interrupt

\* Every access whose hardware does not fail can always go on, whatever the
\* order of bytes and interrupts: no wait of the program is in vain.
THEOREM AccessNeverHangs == BusSpec => []NeverHangs
<1> QED BY GoOn, Invariance, PTL

\* And it ends within StepsLeft steps: a DMA stream or an interrupt cannot
\* keep the program waiting by something else than its bytes.
THEOREM AccessIsBounded == BusSpec => [][GoesOn]_busVars
<1> QED BY StepShortens, Invariance, PTL DEF BusSpec

(***************************************************************************)
(* ChipDriver implements SpiTransfer but for its fairness: the program     *)
(* asks for lengths that SpiTransfer has.                                  *)
(***************************************************************************)
LEMMA DriverSteps == [DriverNext]_driverVars => [BusNext]_busVars
<1>1. AccessBegins => BusNext
  BY DEF AccessBegins, BusNext
<1>2. Between \/ Chip => UNCHANGED busVars
  BY DEF Between, Chip
<1>3. Exchange \/ Transfer \/ Failure => BusNext
  BY DEF Exchange, Transfer, Failure, BusNext
<1>4. UNCHANGED driverVars => UNCHANGED busVars
  BY DEF driverVars
<1> QED BY <1>1, <1>2, <1>3, <1>4 DEF DriverNext

LEMMA DriverInvariance == DriverSpec => []IInv
<1>1. DriverInit => IInv
  BY InitHolds DEF DriverInit
<1>2. IInv /\ [DriverNext]_driverVars => IInv'
  BY StepKeeps, DriverSteps
<1> QED BY <1>1, <1>2, PTL DEF DriverSpec

\* The same of the accesses that getSn_RX_RSR, wiz_recv_data and recv make, in
\* their order and with their lengths: no transfer is started on a busy driver.
THEOREM DriverStartsReady == DriverSpec => []StartsReady
<1>1. IInv => StartsReady
  BY DEF IInv, Quiet, StartsReady
<1> QED BY <1>1, DriverInvariance, PTL

\* And none of their values is used before its transfer is whole.
THEOREM DriverTransfersAreWhole == DriverSpec => WholeTransfer
<1>1. IInv /\ [DriverNext]_driverVars => [Whole]_busVars
  BY StepIsWhole, DriverSteps
<1> QED BY <1>1, DriverInvariance, PTL DEF DriverSpec, WholeTransfer, Whole

\* Nor can the accesses of recv hang, or take more steps than that.
THEOREM DriverNeverHangs == DriverSpec => []NeverHangs /\ [][GoesOn]_busVars
<1>1. IInv /\ [DriverNext]_driverVars => [GoesOn]_busVars
  BY StepShortens, DriverSteps
<1> QED BY <1>1, GoOn, DriverInvariance, PTL DEF DriverSpec

(***************************************************************************)
(* The composition of the two: from the moment the chip is selected to its *)
(* last byte, a transfer has the kind and the length of the access that    *)
(* the program is at.  The program has not gone on before its bytes, and   *)
(* neither a command that is executed nor data that arrive change the      *)
(* access under way.                                                       *)
(***************************************************************************)
UnderWay == bus_pc = "start" \/ (bus_pc = "wait" /\ got < bus_len)

TransferIsAccess ==
  UnderWay =>
    pc \in Reads \cup Writes /\ kind = AccessKind /\ bus_len = AccessLength

LEMMA TransferStaysAccess ==
  IInv /\ TransferIsAccess /\ [DriverNext]_driverVars => TransferIsAccess'
<1> SUFFICES ASSUME IInv, TransferIsAccess, [DriverNext]_driverVars, UnderWay'
             PROVE  /\ pc' \in Reads \cup Writes /\ kind' = AccessKind'
                    /\ bus_len' = AccessLength'
  BY DEF TransferIsAccess
<1> USE DEF AccessKind, AccessLength
<1>1. ASSUME UnderWay, UNCHANGED <<pc, len, kind, bus_len>>
      PROVE  /\ pc' \in Reads \cup Writes /\ kind' = AccessKind'
             /\ bus_len' = AccessLength'
  BY <1>1 DEF TransferIsAccess
<1>2. /\ bus_len \in Nat /\ got \in Nat /\ bus_pc \in {"idle", "start", "wait"}
      /\ bus_pc \in {"idle", "start"} => ~requests
  BY Counts DEF IInv, BusTypeOK, Quiet
<1>3. CASE AccessBegins
  <2>1. /\ pc \in Reads \cup Writes /\ UNCHANGED <<pc, len>>
        /\ kind' = AccessKind /\ bus_len' = AccessLength
    BY <1>3 DEF AccessBegins, vars, recvVars
  <2> QED BY <2>1
<1>4. CASE Between
  BY <1>4 DEF Between, busVars, program, UnderWay
<1>5. CASE Exchange
  <2>1. /\ UNCHANGED <<bus_pc, kind, bus_len>> /\ got' = got + 1
        /\ bus_pc = "wait"
    BY <1>2, <1>5 DEF Exchange, Store, Moves, program
  <2>2. got + 1 < bus_len
    BY <1>2, <2>1 DEF UnderWay
  <2>3. UNCHANGED <<pc, len>>
    BY <1>2, <1>5, <2>2 DEF Exchange, vars, recvVars
  <2>4. UnderWay
    BY <1>2, <2>1, <2>2 DEF UnderWay
  <2> QED BY <1>1, <2>1, <2>3, <2>4
<1>6. CASE Transfer
  <2>1. UNCHANGED <<pc, len>>
    BY <1>6 DEF Transfer, vars, recvVars
  <2>2. CASE Start
    BY <1>1, <2>1, <2>2 DEF Start, UnderWay
  <2>3. CASE Finish
    BY <2>3 DEF Finish, UnderWay
  <2>4. CASE Feed \/ Interrupt
    <3>1. UNCHANGED <<bus_pc, kind, bus_len, got>>
      BY <2>4 DEF Feed, Interrupt, RxInterrupt, TxInterrupt, SpiInterrupt, program
    <3> QED BY <1>1, <2>1, <3>1 DEF UnderWay
  <2> QED BY <1>6, <2>2, <2>3, <2>4 DEF Transfer
<1>7. CASE Failure
  BY <1>1, <1>7 DEF Failure, Overrun, RxError, TxError, program, UnderWay,
                    vars, recvVars
<1>8. CASE Chip
  BY <1>1, <1>8 DEF Chip, ExecuteRecv, Arrive, busVars, program, hardware,
                    UnderWay, recvVars
<1>9. CASE UNCHANGED driverVars
  BY <1>1, <1>9 DEF driverVars, vars, recvVars, busVars, program, hardware, UnderWay
<1> QED
  BY <1>3, <1>4, <1>5, <1>6, <1>7, <1>8, <1>9 DEF DriverNext

\* Each transfer is the access that getSn_RX_RSR, wiz_recv_data or recv is at,
\* with as many bytes as it asked for.
THEOREM TransfersAreAccesses == DriverSpec => []TransferIsAccess
<1>1. DriverInit => TransferIsAccess
  BY DEF DriverInit, BusInit, TransferIsAccess, UnderWay
<1> QED BY <1>1, TransferStaysAccess, DriverInvariance, PTL DEF DriverSpec
=============================================================================
