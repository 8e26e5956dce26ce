# Verification of nucleo_w5500

TLA+ models of the firmware in `src/w5500_udp_test`: a NUCLEO-F767ZI that talks
TCP and UDP through a WIZnet W5500 over SPI. One super-loop (`tester/event_loop.c`)
calls `comm_handler` (`comm/comm_base.c`) for ever; nothing is multi-threaded, but
the chip, the peers and the network move between any two register reads, the SysTick
interrupt counts, DMA interrupts end the program's waits, and almost every function keeps its progress in static variables
from call to call. That is where the models look.

Paths below are relative to `src/w5500_udp_test`.

## 1. Inventory

| Component | State it keeps | Operations | Interaction |
|---|---|---|---|
| main loop: `event_loop.c`, `comm_base.c` | `comm.operation`, `comm.host`, `event_loop_delay` | one turn: DHCP, or UDP server then TCP client then packet handler | all others are called from here |
| TCP client and receive path: `comm_tcp3.c` 173-349, 1149-1217, `socket.c` `recv` | statics `header`, `received_size`, `recv_mode`, `packet`; `packet_list`; chip: `Sn_SR`, receive memory | `comm_tcp_client`, `recv_tcp_packet3`, `contains_tcp_packet3_fragment`, `eat_tcp_data` | reads the socket of the chip; sets `OP_DHCP`; consumes `OP_CONNECT_HOST` |
| replies: `comm_tcp3.c` 635-656, 1053-1140, `wiz_appl.c` `wiz_sendb`, `socket.c` `send` | `sent_size`, `sock_is_sending`; chip: transmit memory, SEND, SENDOK | `tcp_packet3_processor`, `send_tcp_packet3`, `wiz_sendb`, `send` | blocks the loop until the chip has taken everything |
| big files: `comm_tcp3.c` 737-1051 | statics `p_big`, `remain_size`, `remain_count`, `p_contents`, the heap | `receive_bigfile_from_packet`, `alloc_bigfile_info_from_packet`, `extract_bigfile` | called by the packet processor |
| small files and codec: `comm_tcp3.c` 63-150, 351-735 | none; the heap | `create_tcp_packet3`, `extract_packet_contents`, `get_file_from_packet`, checksum, encryption | called by the packet processor |
| tick macros: `support/tick.h` | `end_tick` against the wrapping `uwTick` | `TIME_LOOP_START`, `TIME_LOOP_END` | bounds the DHCP attempt |
| periodic tasks: `support/tick.c` | `*prev`, for which 0 means none | `run_per_x_seconds`, `run_per_x_ticks` | main loop, after each `comm_handler` |
| UDP server: `comm_udp.c`, `socket.c` `sendto`, `recvfrom` | `sock_remained_size`, the uninitialised local `sender` | `comm_udp_server` | sets `comm.host`, `OP_CONNECT_HOST`, the loop's delay |
| DHCP client: `dhcp.c`, `wiz_appl.c` 60-111 | `dhcp_state`, lease variables, `dhcp_tick_1s`, `dhcp_tick_next`, retry count | `DHCP_run`, `parseDHCPMSG`, `DHCP_time_handler` | ticked from SysTick (`hal_w5500.c` 79-89) |
| SPI transfers: `w5500.c` 70-195, `hal_w5500.c`, `main.c` 121-130, the HAL's `stm32f7xx_hal_spi.c`, `_dma.c` | `spi2_cs`, chip select, the SPI's and the streams' handles, flags, error code | the four `WIZCHIP_...` access functions, `HAL_SPI_TransmitReceive_DMA`, three interrupts and their callbacks | the program waits in a loop for a variable that a callback sets |
| register access: `w5500.c` 225-330, `w5500.h`, `socket.c` `recv` | chip: `Sn_RX_RSR`, `Sn_RX_RD`, `Sn_CR`, the receive memory | `getSn_RX_RSR`, `wiz_recv_data`, RECV | a transfer per access, data arriving between any two |
| chip set-up, lists, random port, newlib stubs | | | see `PROJECT.json` |

`comm_tcp.c` and `comm_tcp2.c` are compiled out, `ssl_token.c` and the echo programs
in `tester/` are never called, `Drivers/`, the other protocols of `ioLibrary_Driver`
and `openocd/` are third-party or generated.

What makes each part correct:

* receive path: whatever the segmentation, every packet a peer sends on a connection
  is delivered whole, once and in order; a rejected one is skipped exactly; the
  receiver never waits while a complete packet is in the chip; a closed socket is
  opened again, through DHCP if the chip lost its address.
* replies: the bytes on the wire are the replies, in order, each once; `send` respects
  the transmit memory and the SEND under way; the loop does not wait for ever.
* big files: fragments are copied inside the block of their own file, next to each
  other; what is reported was received whole; what was received whole is reported;
  memory is owned by exactly one pointer.
* tick macros: a `TIME_LOOP` lasts its seconds and ends.
* UDP server: an answer goes to who asked; a connect request is served or replaced.
* DHCP: what is reported was requested, found to be nobody else's and set in the chip;
  the retry timer and the five-second window do not lose an answer; the attempt ends.
* periodic tasks: a period that is over is reported at the next call, none early.
* SPI transfers: no transfer is started on a busy driver, none is taken to be over
  before its last byte, and the program's wait ends.
* register access: a size read a byte at a time was the register's; `recv` takes the
  next bytes of the stream, each once.

Hard behaviours: state that outlives a connection, a file or a failed call; any
segmentation of a byte stream; reads of a chip register that go out of date before
they are used; failed allocations; a chip that loses its registers; blocking sends
against a blocking peer; a wrapping counter; interrupts between a variable's reset and
its next use; registers read a byte at a time. `PROJECT.json` lists each at its line
under "hazards".

## 2. The modules

### TcpClient and FrameDelivery

`TcpClient` is `comm_handler`, `comm_tcp_client`, `recv_tcp_packet3` and the part of
`recv` they see, with the peer's stream as bytes. Program variables keep their names.
`pc` marks the points between two accesses to the chip where something else may
happen: `"handler"` (before `Sn_SR` is read), `"client"` (between that read and the
switch's call), `"eat"` (inside `eat_tcp_data`'s loop), `"process"` (a packet was
returned), `"undefined"` (after `memmove` from `header[-1]`: the model says nothing
of the firmware from there).

* `ReceivePartOfHeader`, `ReceiveRestOfHeader` and `ReceiveData` are the three ways
  through one call of `recv_tcp_packet3`; the rest of a header ends in
  `AcceptHeader`, `RejectHeader` (allocation failed, the data is eaten) or
  `Resynchronise` (no header: the search for a fragment). `ReceiveError` is `recv`
  closing the socket.
* `ClientClosed`, `ClientInit`, `ClientCloseWait`, `ClientOther` are the other cases
  of the switch; `SetDhcpIp` is the `OP_DHCP` turn.
* `PeerSend`, `Arrive(n)`, `PeerClose`, `SocketCloses`, `ChipReset`, `Established`
  are the environment. Bytes arrive in segments of every length.

The bytes are kept, because the receiver's behaviour on them (is this a header? where
does one start?) is what the properties are about. `FrameDelivery` is the promise:
sent packets are delivered in order or skipped, nothing else. `DeliverySpec` is the
refinement. It speaks of the connections that begin with an idle receiver: the code
does not reset its statics at the end of a connection, so one cut off inside a packet
spoils the next (`FragmentIndexDocumented`, section 4).

### TcpSend

The replies, in bytes counted, not kept. `ReceiveBytes` is the whole receive path
(TcpClient says how it works), `Replies` which packets `tcp_packet3_processor` sends
for one received: the plain contents of an encrypted one if memory allows, and the
echo of a command line. `Send`, `SendBusy` and `SendError` are the iterations of
`wiz_sendb` over the three results of `send`; an iteration that finds nothing to do is
a stutter. The peer writes a batch and reads what comes back, either while it writes
(a batch in `ReadsEarly`) or after. A packet's `plain` is its `org_size`, which the
firmware takes from the packet without comparing it with the data (`comm_tcp3.c` 81) and
uses as the length of the echo (1085), so that a small packet may have a long reply.
`wire` is history: of each byte given to the chip its reply, its place in it, and the
length of the reply.

### BigFile and FileTransfer

`receive_bigfile_from_packet` as one action per way through it, named for what the
packet brings (`ReceiveStart`, `CopyFragment`, `RejectFragment`, `EndTooEarly`, ...). A
block is identified by a number, `remain_size` and `remain_count` keep the widths and
signs of the code, and `p_contents` is a pair of a block and an offset, which may
dangle. The sender reads files that grow, shrink, or disagree with their
announcement; packets may be lost, identifiers used again, allocations fail.
The announced size and count are whatever `atoi` makes of their text. They are kept
modulo `Word` (2^32), and so is `mem_size`, calculated from the size (`Needed`, `MemSize`,
line 781): `room` is what the block has for the contents, which is less than the
announced size when the calculation wraps, and below zero when not even the record
and the name fit. A copy that leaves its block sets `undefined`, and the model says
nothing of what comes after. `Record` and `Slack` are the layout of
`struct bigfile_recv_rec` (21, and 24 + 4 - 21 - 1 in the build), `Heap` is the
greatest block malloc has.
`FileTransfer` is the promise: a file is reported once, files come in the order in which
they were sent, and a reported one is every fragment its own transfer announced and
nothing else. `TransferSpec` is the refinement. It ends at the first identifier used
again (`Reused`): the byte in the packets is all that ties a fragment to its file, and
with the same byte a fragment of one transfer is copied into the block of another.
Contents of a packet are abstracted to the fields read from it: `malloc` failing,
the decryption failing and a malformed text are one case where the code treats them
alike.

### CommUdp

`comm_udp_server` over `recvfrom` and `sendto`, and the part of `comm_tcp_client` that
shares `comm.operation` with it; what the client does once connected is TcpClient's
subject, so its socket is only closed, open, or busy. A datagram is a sender and a
sequence of chunks of `MAX_EW_DGRAM` bytes, each named for what the server makes of it.
The `Receive...` actions are one call of `recvfrom` with each of those branches;
`SendTo` and `SendDone` are `sendto` up to and after its wait for SENDOK or TIMEOUT.
`comm.host.port` is a `uint16_t` (`helper.h` 19): `HostOf` keeps `atoi`'s number modulo
65536, and `connect` sees that. `sender` is the local variable: after a part that is not a datagram's first it may be
any address, since `recvfrom` did not write it. `asked` and `answered` are history.
One call of `recvfrom` is a step: a chip that loses its registers inside it is taken
to have lost them before or after.

### TimeLoop and EventLoop

`TIME_LOOP_START(5)` as `wiz_get_dhcp_ip` uses it, over a counter that wraps at
`Modulus`; the body takes one of `BodyTicks` (a `DHCP_run` and `HAL_Delay(100)`), the rest
of a turn of the main loop one of `TurnTicks`. A turn may well be longer than the five
seconds of the loop ("ew delay N" goes to HAL_Delay, `wiz_sendb` waits for a peer); both
are only taken to be less than a round of the counter, 49 days.

`EventLoop` extends it with `event_loop`: a turn is short or stays in TIME_LOOP, and then
`run_per_x_seconds` is called. Its three branches (no previous tick, a counter below the
previous tick, the period over) are `Unset`, `Overflowed` and `Passed`; `since` and
`wrapped` are history.

### DhcpClient

`wiz_get_dhcp_ip`'s loop around `DHCP_run`, with an action for each thing a call of it
does: `Discover`, `TakeOffer`, `TakeAck`, `TakeNak`, `Wait`, `Resend`, `GiveUp`, `KeepLease`,
`Renew`, `Renewed`. `Second` is the SysTick interrupt at every thousandth tick; it may
fall between the two assignments of `check_DHCP_timeout` (`pc = "timer"`), in the wait of
`check_DHCP_leasedIP` for ARP (`"arp"`) and in the wait after a decline (`"declined"`).
`AddressUnique`, `AddressInUse` and `Declined` are the ends of those waits; `Start` and `End`
are `DHCP_init` and `DHCP_stop`.

The network delays, repeats and loses: once the client has sent something, each server's
answer to it may be read at any later call (`Answers`), so no queue is kept. An address
is named by the server that offers it, and the gateway, mask, name server and lease time
of a message by the server that sent it (`options`). A message with another `chaddr` or
port changes nothing and is left out. Reading the lease first and the type after it is
kept, since that is where messages of two servers mix. The window's length is one of
`Windows`: the loop of TIME_LOOP that does not run (0), the regular one (5), one that
missed its end by a turn (6). The unicast renewal's own ARP wait, and a call of
`wiz_get_dhcp_ip` that finds no closed socket and returns at once, are left out.

What the code does, found while modelling and pinned in the properties' conditions:
the second repetition is not followed by a wait, the next call gives up (`GiveUp`); the
timer is not restarted when the OFFER comes; a repeated REQUEST names the server heard
last, which need not be the one whose address it asks for; an OFFER read while LEASED
leaves another server's options in `netinfo` (`dhcp.c` 198, 575); a lease that begins in
the last second of the window is in the chip but is not reported; nothing renews a lease
after `DHCP_stop`.

### SpiTransfer

One access to the chip, from `WIZCHIP_READ_BUF` down to the DMA streams. The program
(`Begin`, `Start`, `Finish`) runs only when no interrupt is pending. `Feed` and `Store` are
the streams' bytes, `FifoDepth` of them on the way; bytes are counted, not kept. `RxInterrupt`,
`TxInterrupt` and `SpiInterrupt` are `HAL_DMA_IRQHandler` on the two streams and
`HAL_SPI_IRQHandler`, with the HAL's and `main.c`'s callbacks. The handlers are whole steps
because all of them have priority 0 (`main.c` 489-493, `stm32f7xx_hal_msp.c`) and none
interrupts another. `RxInterrupt(ok)` has `SPI_EndRxTxTransaction` time out or not.
`Overrun`, `RxError` and `TxError` are failures of the hardware, at any byte.

After any failure `spi2_cs` stays below 2 and the program waits for ever; an error of the
transmit stream does not even leave an error code, since its callback is not set by
`HAL_SPI_TransmitReceive_DMA`. The properties say what holds all the same: bytes that
were lost are never used.

### ChipReceive, ByteStream and ChipDriver

`ChipReceive` is `recv` with an action for each register access. A register's byte counts to
`Base`, a pointer to `Base * Base`, and the memory has `Size` bytes, so that the pointer and
the address wrap at different places. Data (`Arrive`) and the chip's execution of RECV
(`ExecuteRecv`) come between any two accesses. A byte of data is its position in the
stream, which makes `ByteStream`, the abstract specification, short: a call takes the next
bytes. This is what lets TcpClient take `recv` as one step.

`ChipDriver` composes the two: an access of ChipReceive is a transfer of SpiTransfer and
takes effect with its last byte; data arrive, commands are executed and the hardware
fails at any byte of it. Its steps are conjunctions of steps of the two modules, so each
is a step of one and a step or a stutter of the other, and what is proved of them holds
of the composition.

## 3. Runs

"Pass" runs:

| Run | Question | Bounds |
|---|---|---|
| `tcp_client` | does the receiver stay in step, never ask `recv` for no bytes, and refine FrameDelivery over two connections? | packets without data, with a byte that looks like a header's start, with two such bytes; two per connection |
| `tcp_client_failures` | when an allocation fails or the chip loses its registers, is every packet sent taken, a closed socket opened again? (that the receiver still refines FrameDelivery then is proved, section 5) | two packets on one connection, one failure |
| `tcp_send` | is the wire the replies, without overrun or overlapping SEND? when do firmware and peer wait for each other? does `wiz_sendb` return when the peer reads? | replies of up to four transmit memories, batches that fit and that do not, one with an `org_size` beyond its data, two connections (16,695 states) |
| `big_file` | copies, reports, ownership, and FileTransfer as long as identifiers are new | three transfers of twelve kinds, two identifiers (symmetric: they are only compared), one lost packet, one failure; words of 32 values, a heap of 12 bytes, sizes of -1, -3 and -20 (2.5 million states, two minutes) |
| `comm_udp` | is `recvfrom` in step? does connect go where the last request says? is every request and datagram taken? | three datagrams of ten kinds from two peers, with ports of 1, 65536, 65538 and -1, one reset (106,400 states) |
| `time_loop` | duration and end of TIME_LOOP; are periods reported when they are over, and not before? | counter of 32 ticks, loop of 10, body of 3 or 4, turns of 0, 1 and 25, period of 20 (177,044 states) |
| `dhcp_client` | is what is reported tested? do the retries, the window and the interrupt leave answers their time? does the attempt end? | two servers, leases of 1000 and of 2 seconds, windows of 0, 5 and 6 seconds, one second of ARP, any number of attempts (587,176 states) |
| `chip_driver` | are sizes true, transfers whole, and the bytes of `recv` the stream's? does each access end? | bytes of four values, memory of 8, five bytes arriving, calls for four, pointers from 13 (they wrap at 16), one byte in the SPI (721,086 states, two minutes) |

The "violation" runs are in section 4. `chip_driver` is both modules at once: the runs of
either alone would visit projections of its behaviours.

Why the bounds suffice. The receiver's state is the header and the packet under way,
so two packets show every way one can follow another, and two connections every way
state survives one; three data bytes are enough for a false start of a header inside
data and at its end. A batch longer than the receive memory and replies longer than
the transmit memory reach every limit of TcpSend. Two transfers show what one leaves
to the next, and a third meets an identifier used again; a fragment more or less than
announced is the boundary of each counter. Of the sizes announced, -20 is refused by
malloc, and -1 and -3 wrap: with room for one byte, for no fragment, and not even for the
record. 32 is the least power of two with a word for each of these.
In TimeLoop every start tick is an initial state, and a body that does and does not
divide the room before the wrap is in `BodyTicks`; a turn of 25 ticks is longer than the
loop and the period, and two of them more than a round. For CommUdp two datagrams, one after
another or both in the memory, are every way one can follow another; the third
meets what a reset left. DhcpClient's state is finite without a bound on attempts or
messages; a lease of two seconds is renewed within the loop, one of a thousand is not,
and the two servers are the least that can mix. In ChipDriver a memory larger than a
register's byte counts makes both bytes of a size change, and four bytes taken of five
leave one behind and wrap the pointer and the address. The proofs of section 5 remove
these bounds for most of the properties.

Runs that do not check deadlock end where the bound on connections, transfers or
arriving bytes is used up, where the hardware of `chip_driver` failed and the program
waits for ever, where a peer of TcpSend has nothing left to do, or where CommUdp's loop is
stuck: `sendto` waits for a chip that lost its registers, or a negative "ew delay"
became 49 days of HAL_Delay.

### Fairness

* TcpClient: the loop runs (`Firmware`), sent bytes arrive while the connection lasts.
  Nothing is assumed of peers opening, sending or closing, nor of failures. A
  processed packet's replies are taken to be sent: TcpSend says when they are.
* TcpSend: the loop runs; the chip transmits what the peer's window takes and
  completes SEND; the peer goes on writing, and reading when it may. No fairness on
  connections ending.
* CommUdp: the loop runs and the chip ends its SEND commands, unless it lost its
  registers; nothing is assumed of peers, or of the client's connection ending.
* TimeLoop, EventLoop: the body returns and the processor goes on. `DHCP_run` and
  `HAL_Delay` return while SysTick runs.
* ChipDriver: the program runs, interrupts are served, the hardware moves bytes, the chip
  executes its commands. Nothing makes the hardware fail or not fail; `AccessEnds` and
  `StreamKept` say what holds unless it does.
* DhcpClient: none; its properties are of safety. `AttemptBounded` counts seconds instead.

All are weak: each action stays enabled until it is taken or the connection ends.

### What is assumed of an environment

W5500 registers hold what the data sheet says; TCP delivers bytes in order, once, or
closes the connection; `malloc` may fail at any call. TcpClient, TcpSend and CommUdp take
a call of `recv`, `send` or `recvfrom` for one access to the chip: for `recv` ChipReceive and
ChipDriver show it, for the others it is assumed. A DHCP server may answer with an offer,
an acknowledgement or a refusal, acknowledges only its own address and only when asked
for it.

## 4. Where the code and its comments differ

* `tcp_client_fragment` - `contains_tcp_packet3_fragment` documents 0 or 1-7, and returns
  -1 when no header starts in the eight bytes; the caller copies from `header[-1]` and
  goes on with a `received_size` of 9. TLC reaches it with honest peers: a connection
  lost inside a packet, then a new one.
* `big_file_leak` - the buffer of every accepted fragment is leaked.
* `comm_udp_answer` - `recvfrom` documents its `addr` as valid for the first part of a
  datagram only; `comm_udp_server` answers every part at it.
* `time_loop_forever` - no comparison falls between `end_tick` and the wrap, turn after
  turn: the loop does not end.

Not a contradiction of a comment, so no violation run, but shown by the models:
a file without fragments that follows one given up part-way is refused at its BIGFILE_END
by the counters of that file, which only a first fragment sets (`comm_tcp3.c` 852, 949;
`IntactReported` is about files with fragments); a peer
that writes more than the buffers hold before it reads stops the firmware for as long
as the connection lasts (`MutualWait` is reachable in `tcp_send`), and so does one whose
packet claims more plain contents than it has data, with a small batch; a TIME_LOOP whose
`end_tick` wraps does not run its body at all (`LoopLastsUnlessWrap` excludes it);
a file whose announced size makes `mem_size` wrap (-1, for one) gets a block smaller than
its fragments are allowed to be, and they are copied outside it (`comm_tcp3.c` 781, 1025;
`CopiesInside` names the wrap as the only way there, and TLC reaches it); "ew con 65537"
connects to port 1 and "ew con -1" to port 65535, since nothing compares the number with
a port (`comm_udp.c` 76; `ConnectsAsAsked` says modulo); and after an error of `recv`
`eat_tcp_data` waits and tries again for ever (`comm_tcp3.c` 225), so that a connection that
ends inside a rejected packet stops the firmware.

## 5. Proofs

Checked by TLAPS, for all values of the constants under the named assumptions
(`PacketsAssumption`, `BoundsAssumption`, `BatchesAssumption`, ...), which TLC evaluates on
every run.

* `TcpClient_proofs`: `TypeCorrect`, `StaysInStep`, `DeliversFrames`, `AlwaysAsksForBytes`,
  `NeverHoldsBack`. The inductive invariant
  says, for each value of `received_size` and `recv_mode`, which bytes of the stream
  `header` and `packet` hold and where `rpos` stands in the packet that was sent. `InStep`
  alone is not inductive: that the next header is accepted needs the bytes already
  collected to be the packet's. Refinement follows step by step: consuming a packet
  maps to `Deliver` or `Skip`, everything else stutters. `AsksForBytes` speaks of every
  connection, in step or not, and has a strengthening of its own (`Asking`): a header is
  full nowhere but in `eat_tcp_data`, and the search for a fragment keeps fewer bytes
  than a header has. `NothingStuck` then says that a packet that is not taken
  has bytes on the way or in the chip, or is complete.
* `BigFile_proofs`: `TypeCorrect` (the unsigned counters never go below zero),
  `CopiesStayInside`, `ReportsAreWhole`, `BlocksAreOwned`, `IntactFilesAreReported`,
  `ImplementsTransfer`, `NamesLeftByFailures`. The invariant ties `remain_size`, `remain_count` and `p_contents` to
  the fragments accepted since the START, and says they may only be out of date while
  `next` is 0. `CopiesStayInside` is of every announced size: a block whose `mem_size` did not
  wrap has room for the announced size (`RoomForSize`), which the fragments stay below; with
  a wrap the theorem leaves the copies open, as the code does. The refinement needs besides that `p_big` and the fragments in it are of one
  transfer while identifiers are new (`OwnTransfer`), and that what was reported came
  before it (`InOrder`); a report then maps to `Report`, everything else stutters.
* `TcpSend_proofs`: `TypeCorrect`, `WaitsOnlyIfOversized`, `RepliesInOrder`, `SendsOneAtATime`,
  `SendWaitsForChipOrPeer`, `RepliesPaidOff`.
  The invariant keeps accounts: bytes in the peer's buffer and the transmit memory were
  given to the chip, and those given plus those still to give are at most twice what was
  taken from the receive memory, since a packet has two replies at most, neither larger
  than itself. The latter is a condition of the account and of the theorem, not an
  assumption (`NoneLonger`): it is up to the peer. For `WireIsReplies` it says where the wire
  ends: at the last byte of a reply, or `sent_size` bytes into the one under way (`WireInv`). `OneSendAtATime` rests on `Flags`: a
  SENDOK that nobody has seen is that of the last SEND. `SendWaits` rests on the reverse
  (`Owed`): a set `sock_is_sending` has a SEND or its SENDOK behind it. `Pays` is the account
  of one reply: each byte given to the chip makes `Rest` one less. `BatchesAssumption` states that
  the size of a batch is a natural number, which is a fact about a recursive function
  that these provers cannot derive.
* `CommUdp_proofs`: `TypeCorrect`, `StaysInStep`, `ConnectsToAsker`, `NeverReadsNothing`,
  `EachPollTakesOne`, `RequestsAreNotLost`. `InStep` needs besides
  that a datagram that was begun is still there to be read; `ConnectsAsAsked` that
  `OP_CONNECT_HOST` stands only while `comm.host` is what the last request asked for. That
  no request overwrites OP_DHCP rests on `DhcpIsNext`: while it stands `comm_handler` calls
  neither of the two functions that write `comm.operation`.
* `TimeLoop_proofs`: `TypeCorrect`, `LastsUnlessWrap`, `LoopIsNotCutShort`,
  `WideLoopIsBounded`, from an invariant (`LoopShown`) that ties the counter and `end_tick`
  to the time the loop has lasted, before and after a wrap; of EventLoop `ReportsAreInTime` and
  `ReportsAreNotEarly`, for every width, period and length of a turn below a round: the counter is
  behind the previous tick by `since`, or by `since` less a round when it has wrapped.
* `DhcpClient_proofs`: `LeasedAddressIsTested`, `RetriesOutlastWindow`, `AttemptIsBounded`,
  `DiscoverIsPatient`, `LeaseIsReported`, `DhcpSetsAddress`, `TypeCorrect`. One invariant: every repetition has
  taken three seconds of the window (`RetriesTakeTime`), each wait adds its own seconds
  (`WaitsBounded`), the counter is at most a second ahead of the age of the last DISCOVER
  (`DiscoverAge`), the address is the one requested and, once leased, the chip's
  (`AddressKnown`), LEASED is not left under long leases (`LeaseStays`) and is seen by the
  next body (`LeaseSeen`). `LeasedIsTested` is not inductive without all of the last three.
  `DhcpSetsAddress` adds `AddressSet`: `netinfo` never holds 0.0.0.0 and is in the chip after
  an attempt. Its condition, leases longer than twice the window, is needed: with a lease
  that is reported, then refused at its renewal and found in use within the window, TLC
  finds 0.0.0.0 in `netinfo`.
* `ChipReceive_proofs`: `TypeCorrect`, `SizeIsTrue`, `UndisturbedSizeIsTrue`,
  `ReceivesStream`. While a size is read it
  only grows, so a value put together of two has a lower high byte than the next reading
  and does not agree with it (`Readings`); `freed`, `taken` and the pointer differ only
  between the data and the end of RECV (`Positions`, `Pointers`). Lemmas about quotients and
  remainders carry the arithmetic of the wrapping pointers.
* `SpiTransfer_proofs`: `TypeCorrect`, `TransfersStartReady`, `TransfersAreWhole`,
  `AccessNeverHangs`, `AccessIsBounded`. Between two
  accesses all is quiet (`Quiet`), in a faultless one nothing is lost and each stream has
  its end before it or pending (`Underway`), the flag's 2 means all is there (`Complete`), and
  after a failure the receive stream can no longer reach its end (`Failed`). From `Underway`
  follows that a faultless access can always go on (`NeverHangs`); `StepsLeft` counts the bytes
  to feed and to store, each with its interrupt, and every step makes it smaller.
* The composition: every step of ChipDriver is a step or a stutter of ChipReceive and of
  SpiTransfer (`DriverSteps` in either module), which gives `DriverSizeIsTrue`,
  `DriverUndisturbedSizeIsTrue`, `DriverReceivesStream`, `DriverStartsReady`,
  `DriverTransfersAreWhole` and `DriverNeverHangs`. `TransfersAreAccesses` relates the two: a
  transfer has the kind and length of the access the program is at, to its last byte.

Only model-checked: liveness (`EventuallyTaken`, `SocketReopens`, `RepliesRead`,
`LoopEndsIfWide`, `RequestServed`, `DatagramsTaken`, `AccessEnds`, and the second half of
`StreamKept`), which needs fairness and ENABLED. What it needs of the states and the steps
is proved for all but two of these, for all constants: that something can be done, or that
what is done brings the end nearer.

| Liveness, checked by TLC | Its half without fairness, proved |
|---|---|
| `EventuallyTaken` | `NeverHoldsBack`: a packet not taken has bytes on the way or in the chip, or is complete; `AlwaysAsksForBytes`: and `recv` is asked for some |
| `RepliesRead`, that `wiz_sendb` returns | `SendWaitsForChipOrPeer`: it waits for the chip or the peer only; `RepliesPaidOff`: what it has left gets less |
| `LoopEndsIfWide` | `WideLoopIsBounded`: every turn brings `end_tick` nearer |
| `RequestServed` | `RequestsAreNotLost`: a request stands until it is served or overtaken |
| `DatagramsTaken` | `NeverReadsNothing`, `EachPollTakesOne`: every poll takes one part |
| `AccessEnds` | `AccessNeverHangs`, `AccessIsBounded`: something can be done, and only so often |

Of `SocketReopens` and the second half of `StreamKept` nothing more is proved. That the peer
of TcpSend has read every reply in the end, the rest of `RepliesRead`, compares bytes read
with sums over the packets of a batch; such a sum is a recursive function, of which these
provers can show nothing by induction.

## 6. Not modelled

* The encoding of packets (`create_tcp_packet3`, `extract_packet_contents`, checksum,
  encryption), small files, and with them the checksum of empty contents, which is
  written by one rule and verified by another (`comm_tcp3.c` 557), and the names that small
  files leave allocated (`comm_tcp3.c` 718).
* A BIGFILE_FRAG whose number has no terminator: line 1007 tests `p_cur` where `p_next` is
  meant, and the code goes on at address 1. Only that the statics were set before it, by a
  first fragment, is in the model (`RejectFragment`).
* The transmit direction and the socket's registers at the level of single accesses, and a
  reset of the chip inside a `recv`: TcpSend, CommUdp and TcpClient take a call as one step.
* The end of a lease after `DHCP_stop`: the code keeps none.
* `DHCP_run` inside TcpClient and CommUdp is one step that ends with the address set, since
  `wiz_set_dhcp_ip` sets an address whether DHCP succeeds or not (`DhcpSetsAddress`); that the
  attempt ends is DhcpClient's and TimeLoop's subject. DHCP's use of a socket number the loop owns
  (`wiz_appl.c` 46) is not composed.
* Console output; the sleep of HAL_Delay except in TimeLoop; `run_per_x_ticks`, which is the
  same code on ticks and has no caller.
* Most of the repository's lines: register definitions, CMSIS, HAL drivers for peripherals
  the firmware does not use, and ioLibrary's unused protocols and chips carry none of this
  program's own state. Of the HAL only the SPI and DMA functions of the transfers are
  modelled. Components without a module are in `PROJECT.json` with the reason.

## 7. Plan

Done: the receive path (`TcpClient`), files (`BigFile`), `TimeLoop` and `EventLoop`, replies
(`TcpSend`), the UDP server (`CommUdp`), DHCP (`DhcpClient`), SPI and the receive registers
(`SpiTransfer`, `ChipReceive`, `ChipDriver`), each with its proofs.

What is left, in order of importance:

1. The composition of TCP client, UDP server and DHCP on `comm.operation` and on the
   sockets' numbers.
2. The transmit direction at the level of registers: `getSn_TX_FSR`, `wiz_send_data`, SEND.
3. `PacketCodec` - `create_tcp_packet3` against `extract_packet_contents` and the checksum,
   as operators over bounded inputs.
4. `PacketProcessor` - what small and big files leave allocated.
