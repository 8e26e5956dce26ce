----------------------------- MODULE DhcpClient -----------------------------
(***************************************************************************)
(* wiz_set_dhcp_ip and wiz_get_dhcp_ip (tester/wiz_appl.c) over the DHCP   *)
(* client of ioLibrary (Internet/DHCP/dhcp.c): DHCP_run in a TIME_LOOP of  *)
(* a few seconds, the SysTick interrupt that counts dhcp_tick_1s, and      *)
(* several servers on a network that delays, repeats and loses messages.   *)
(*                                                                         *)
(* An address is named by the server whose it is: a server offers this     *)
(* client one address.  The subnet mask, gateway, name server and lease    *)
(* time of a message are named by the server that sent it, too.  Since a   *)
(* message, once caused, may arrive at any time and again, what the client *)
(* may read is a function of what it has ever sent; the socket's receive   *)
(* memory needs no variable.                                               *)
(***************************************************************************)
EXTENDS Integers, FiniteSets

CONSTANTS
  Servers,          \* the DHCP servers that may answer
  Lease,            \* the lease time each of them gives, in seconds
  Windows,          \* seconds TIME_LOOP_START(5) may last, see TimeLoop
  ArpTicks          \* bound: seconds an ARP request may take to time out

Zero == "0.0.0.0"
Static == "static"  \* what netinfo in comm_base.c is initialised with

ASSUME ServersAssumption ==
  /\ Zero \notin Servers /\ Static \notin Servers
  /\ Lease \in [Servers -> Nat]
  /\ Windows \subseteq Nat
  /\ ArpTicks \in Nat

MAX_DHCP_RETRY == 2
DHCP_WAIT_TIME == 2

VARIABLES
  pc,                   \* "main", in the loop of wiz_get_dhcp_ip, or waiting
  window,               \* how many seconds this loop will last
  elapsed,              \* seconds since it began
  turned,               \* the body ran since the last second began
  dhcp_state,
  dhcp_retry_count,
  dhcp_tick_1s,
  dhcp_tick_next,
  DHCP_allocated_ip,
  DHCP_SIP,             \* the server of the last message
  options,              \* the server DHCP_allocated_gw, _sn, _dns and
                        \* dhcp_lease_time were last read from
  ret,                  \* check_DHCP_leasedIP's local variable: dhcp_tick_1s when
                        \* it began to wait, 0 when it does not
  leased,               \* wiz_get_dhcp_ip's local variable
  SIPR,                 \* the chip's address
  netinfo,              \* [ip, options] of netinfo in comm_base.c
  requests,             \* history: [ip, server] of every DHCP_REQUEST
  discovered,           \* history: a DHCP_DISCOVER was sent
  heard,                \* history: the servers of the messages read
  sinceDiscover,        \* history: seconds since the last DHCP_DISCOVER
  leasedAt              \* history: elapsed when the lease began

timer == <<dhcp_retry_count, dhcp_tick_1s, dhcp_tick_next>>
parsed == <<DHCP_SIP, options, heard>>
sent == <<requests, discovered, sinceDiscover>>
caller == <<window, leased, netinfo>>
vars == <<pc, elapsed, turned, dhcp_state, timer, DHCP_allocated_ip, parsed, ret,
          SIPR, sent, caller, leasedAt>>

Init ==
  /\ pc = "main" /\ window = 0 /\ elapsed = 0 /\ turned = FALSE
  /\ dhcp_state = "INIT"
  /\ dhcp_retry_count = 0 /\ dhcp_tick_1s = 0 /\ dhcp_tick_next = DHCP_WAIT_TIME
  /\ DHCP_allocated_ip = Zero /\ DHCP_SIP = Zero /\ options = Zero
  /\ ret = 0 /\ leased = FALSE
  /\ SIPR = Zero
  /\ netinfo = [ip |-> Static, options |-> Static]
  /\ requests = {} /\ discovered = FALSE /\ heard = {}
  /\ sinceDiscover = 0 /\ leasedAt = 0

-----------------------------------------------------------------------------
(***************************************************************************)
(* Time.                                                                   *)
(***************************************************************************)

\* A bound on sinceDiscover, which is not counted further.
Long == DHCP_WAIT_TIME + 1

\* Seconds pass in the loop, where the body runs at least once in each, and
\* while check_DHCP_leasedIP waits for ARP and after a decline.  Between the two
\* assignments of check_DHCP_timeout there is room for one interrupt.
SecondMayPass ==
  \/ pc = "loop" /\ turned /\ elapsed < window
  \/ pc = "arp" /\ dhcp_tick_1s - ret < ArpTicks
  \/ pc = "declined" /\ dhcp_tick_1s - ret < 2
  \/ pc = "timer" /\ dhcp_tick_1s = 0 /\ elapsed < window

\* Mutant of DHCP_time_handler: the interrupt does not count.
DHCP_time_handler_Dead == UNCHANGED dhcp_tick_1s
DHCP_time_handler == dhcp_tick_1s' = dhcp_tick_1s + 1

\* HAL_SYSTICK_Callback, at every thousandth call.
Second ==
  /\ SecondMayPass
  /\ DHCP_time_handler
  /\ elapsed' = elapsed + 1
  /\ turned' = FALSE
  /\ sinceDiscover' = IF sinceDiscover < Long THEN sinceDiscover + 1 ELSE Long
  /\ UNCHANGED <<pc, dhcp_state, dhcp_retry_count, dhcp_tick_next,
                 DHCP_allocated_ip, parsed, ret, SIPR, requests, discovered,
                 caller, leasedAt>>

-----------------------------------------------------------------------------
(***************************************************************************)
(* Messages.                                                               *)
(***************************************************************************)

\* What the servers may have answered to the client's messages.  A server asked
\* for its own address may refuse it; asked for another's it can but refuse.
Answers ==
  {[type |-> "OFFER", server |-> s] : s \in IF discovered THEN Servers ELSE {}}
    \cup {[type |-> "ACK", server |-> s] :
            s \in {t \in Servers : [ip |-> t, server |-> t] \in requests}}
    \cup {[type |-> "NAK", server |-> s] :
            s \in {t \in Servers : \E r \in requests : r.server = t}}

Nothing == [type |-> "none", server |-> Zero]

\* parseDHCPMSG: the message's options are stored before its type is looked at,
\* and whoever it is from.  A DHCPNAK has a server identifier only.
parseDHCPMSG(m) ==
  /\ m \in Answers \cup {Nothing}
  /\ IF m = Nothing
       THEN UNCHANGED parsed
       ELSE /\ DHCP_SIP' = m.server
            /\ options' = IF m.type = "NAK" THEN options ELSE m.server
            /\ heard' = heard \cup {m.server}

send_DHCP_DISCOVER ==
  /\ discovered' = TRUE
  /\ sinceDiscover' = 0
  /\ UNCHANGED requests

\* With the address ip; the server is whichever wrote DHCP_SIP last, in this very
\* call of DHCP_run if need be.  A renewal has no server identifier, but is sent
\* to DHCP_SIP.
send_DHCP_REQUEST(ip) ==
  /\ requests' = requests \cup {[ip |-> ip, server |-> DHCP_SIP']}
  /\ UNCHANGED <<discovered, sinceDiscover>>

-----------------------------------------------------------------------------
(***************************************************************************)
(* wiz_get_dhcp_ip.                                                        *)
(***************************************************************************)
\* Mutant of reset_DHCP_timeout: the counter goes on.
reset_DHCP_timeout_Retries ==
  /\ dhcp_tick_next' = DHCP_WAIT_TIME
  /\ dhcp_retry_count' = 0
  /\ UNCHANGED dhcp_tick_1s

reset_DHCP_timeout ==
  /\ dhcp_tick_1s' = 0
  /\ dhcp_tick_next' = DHCP_WAIT_TIME
  /\ dhcp_retry_count' = 0

\* comm_handler serves OP_DHCP: DHCP_init and TIME_LOOP_START.  What earlier
\* attempts left in the lease variables stays.
Start(seconds) ==
  /\ pc = "main"
  /\ pc' = "loop"
  /\ window' = seconds /\ elapsed' = 0 /\ turned' = FALSE
  /\ leased' = FALSE
  /\ SIPR' = Zero
  /\ reset_DHCP_timeout
  /\ dhcp_state' = "INIT"
  /\ leasedAt' = 0
  /\ UNCHANGED <<DHCP_allocated_ip, parsed, ret, sent, netinfo>>

\* The condition of the loop: a body that begins before the last second is over.
Runs == pc = "loop" /\ window # 0 /\ elapsed <= window

\* One call of DHCP_run, which returns in the state given; m is what
\* parseDHCPMSG finds.
DHCP_run(m, state) ==
  /\ Runs
  /\ parseDHCPMSG(m)
  /\ dhcp_state' = state
  /\ turned' = TRUE
  /\ UNCHANGED <<elapsed, window, netinfo>>

Discover(m) ==
  /\ dhcp_state = "INIT"
  /\ DHCP_run(m, "DISCOVER")
  /\ DHCP_allocated_ip' = Zero
  /\ send_DHCP_DISCOVER
  /\ UNCHANGED <<pc, timer, ret, leased, SIPR, leasedAt>>

\* The timer goes on from DHCP_DISCOVER.
TakeOffer(m) ==
  /\ dhcp_state = "DISCOVER" /\ m.type = "OFFER"
  /\ DHCP_run(m, "REQUEST")
  /\ DHCP_allocated_ip' = m.server
  /\ send_DHCP_REQUEST(m.server)
  /\ UNCHANGED <<pc, timer, ret, leased, SIPR, leasedAt>>

\* Any server's DHCPACK will do.  check_DHCP_leasedIP sends to the address.
TakeAck(m) ==
  /\ dhcp_state = "REQUEST" /\ m.type = "ACK"
  /\ DHCP_run(m, "REQUEST")
  /\ pc' = "arp"
  /\ ret' = dhcp_tick_1s
  /\ UNCHANGED <<DHCP_allocated_ip, timer, leased, SIPR, sent, leasedAt>>

\* DHCP_DISCOVER is not sent, but waited out.
TakeNak(m) ==
  /\ dhcp_state \in {"REQUEST", "REREQUEST"} /\ m.type = "NAK"
  /\ DHCP_run(m, "DISCOVER")
  /\ reset_DHCP_timeout
  /\ leased' = (leased \/ dhcp_state = "REREQUEST")
  /\ UNCHANGED <<pc, DHCP_allocated_ip, ret, SIPR, sent, leasedAt>>

\* What the state waits for.
Awaited(m) ==
  \/ dhcp_state = "DISCOVER" /\ m.type = "OFFER"
  \/ dhcp_state \in {"REQUEST", "REREQUEST"} /\ m.type \in {"ACK", "NAK"}

\* Mutant of Expired: a second too early.
ExpiredEarly == dhcp_tick_next <= dhcp_tick_1s

Expired == dhcp_tick_next < dhcp_tick_1s

RetriesLeft == dhcp_retry_count < MAX_DHCP_RETRY

\* DHCP_run comes to check_DHCP_timeout.
check_DHCP_timeout(m, state) ==
  /\ dhcp_state \in {"DISCOVER", "REQUEST", "REREQUEST"} /\ ~Awaited(m)
  /\ DHCP_run(m, state)
  /\ UNCHANGED <<DHCP_allocated_ip, ret, leased, SIPR, leasedAt>>

Wait(m) ==
  /\ check_DHCP_timeout(m, dhcp_state)
  /\ RetriesLeft /\ ~Expired
  /\ UNCHANGED <<pc, timer, sent>>

\* The message is sent again and the counter set to zero ...
Resend(m) ==
  /\ check_DHCP_timeout(m, dhcp_state)
  /\ RetriesLeft /\ Expired
  /\ IF dhcp_state = "DISCOVER" THEN send_DHCP_DISCOVER
                                ELSE send_DHCP_REQUEST(DHCP_allocated_ip)
  /\ dhcp_tick_1s' = 0
  /\ pc' = "timer"
  /\ UNCHANGED <<dhcp_retry_count, dhcp_tick_next>>

\* Mutant of NextTime: counted from the last time, not from the counter.
NextTimeAddsUp == dhcp_tick_next + DHCP_WAIT_TIME

NextTime == dhcp_tick_1s + DHCP_WAIT_TIME

\* ... and read again for the time of the next.
SetTimer ==
  /\ pc = "timer"
  /\ dhcp_tick_next' = NextTime
  /\ dhcp_retry_count' = dhcp_retry_count + 1
  /\ pc' = "loop"
  /\ UNCHANGED <<elapsed, turned, dhcp_state, dhcp_tick_1s, DHCP_allocated_ip,
                 parsed, ret, SIPR, sent, caller, leasedAt>>

\* After the second repetition the next DHCP_run gives up, without waiting.
GiveUp(m) ==
  /\ check_DHCP_timeout(m, IF dhcp_state = "DISCOVER" THEN "INIT" ELSE "DISCOVER")
  /\ ~RetriesLeft
  /\ IF dhcp_state = "DISCOVER" THEN UNCHANGED sent ELSE send_DHCP_DISCOVER
  /\ reset_DHCP_timeout
  /\ UNCHANGED pc

-----------------------------------------------------------------------------
(***************************************************************************)
(* check_DHCP_leasedIP.                                                    *)
(***************************************************************************)

\* Nobody has the address (SOCKERR_TIMEOUT): dhcp_ip_assign.
AddressUnique ==
  /\ pc = "arp"
  /\ pc' = "loop"
  /\ SIPR' = DHCP_allocated_ip
  /\ reset_DHCP_timeout
  /\ dhcp_state' = "LEASED"
  /\ leasedAt' = elapsed
  /\ ret' = 0
  /\ UNCHANGED <<elapsed, turned, DHCP_allocated_ip, parsed, sent, caller>>

\* Somebody answers: DHCP_DECLINE, and two seconds for it to be sent.
AddressInUse ==
  /\ pc = "arp"
  /\ pc' = "declined"
  /\ ret' = dhcp_tick_1s
  /\ UNCHANGED <<elapsed, turned, dhcp_state, timer, DHCP_allocated_ip, parsed,
                 SIPR, sent, caller, leasedAt>>

\* Mutant of StateAfterConflict: the client goes on as if it had the address.
StateAfterConflictLeased == "LEASED"

StateAfterConflict == "INIT"

\* dhcp_ip_conflict resets the chip.
Declined ==
  /\ pc = "declined"
  /\ dhcp_tick_1s - ret >= 2
  /\ pc' = "loop"
  /\ SIPR' = Zero
  /\ reset_DHCP_timeout
  /\ dhcp_state' = StateAfterConflict
  /\ ret' = 0
  /\ UNCHANGED <<elapsed, turned, DHCP_allocated_ip, parsed, sent, caller, leasedAt>>

-----------------------------------------------------------------------------
(***************************************************************************)
(* The lease.                                                              *)
(***************************************************************************)

\* dhcp_lease_time, which this call of DHCP_run may just have written; at first
\* it is infinite.
RenewalDue ==
  /\ options' \in Servers
  /\ Lease[options'] \div 2 < dhcp_tick_1s

\* Mutant of ReportLease: wiz_get_dhcp_ip waits for DHCP_IP_ASSIGN only.
ReportLeaseAssigned == UNCHANGED leased

\* DHCP_run says DHCP_IP_LEASED.
ReportLease == leased' = TRUE

KeepLease(m) ==
  /\ dhcp_state = "LEASED"
  /\ DHCP_run(m, "LEASED")
  /\ ~RenewalDue
  /\ ReportLease
  /\ UNCHANGED <<pc, timer, DHCP_allocated_ip, ret, SIPR, sent, leasedAt>>

Renew(m) ==
  /\ dhcp_state = "LEASED"
  /\ DHCP_run(m, "REREQUEST")
  /\ RenewalDue
  /\ send_DHCP_REQUEST(DHCP_allocated_ip)
  /\ reset_DHCP_timeout
  /\ ReportLease
  /\ UNCHANGED <<pc, DHCP_allocated_ip, ret, SIPR, leasedAt>>

\* The address is the old one: nothing has written it since it was copied to
\* OLD_allocated_ip, and dhcp_ip_update is not called.
Renewed(m) ==
  /\ dhcp_state = "REREQUEST" /\ m.type = "ACK"
  /\ DHCP_run(m, "LEASED")
  /\ reset_DHCP_timeout
  /\ ReportLease
  /\ UNCHANGED <<pc, DHCP_allocated_ip, ret, SIPR, sent, leasedAt>>

-----------------------------------------------------------------------------

\* The time is over: DHCP_stop.  wiz_set_dhcp_ip sets netinfo in the chip, the
\* new one or the one before.
End ==
  /\ pc = "loop" /\ elapsed >= window
  /\ pc' = "main"
  /\ dhcp_state' = "STOP"
  /\ netinfo' = IF leased THEN [ip |-> DHCP_allocated_ip, options |-> options]
                          ELSE netinfo
  /\ SIPR' = netinfo'.ip
  /\ UNCHANGED <<window, elapsed, turned, timer, DHCP_allocated_ip, parsed, ret,
                 leased, sent, leasedAt>>

Messages == [type : {"OFFER", "ACK", "NAK"}, server : Servers] \cup {Nothing}

Body ==
  \E m \in Messages :
    \/ Discover(m) \/ TakeOffer(m) \/ TakeAck(m) \/ TakeNak(m)
    \/ Wait(m) \/ Resend(m) \/ GiveUp(m)
    \/ KeepLease(m) \/ Renew(m) \/ Renewed(m)

\* What the firmware and the chip do within an attempt.
Work == Body \/ SetTimer \/ AddressUnique \/ AddressInUse \/ Declined

Next ==
  \/ Second
  \/ \E seconds \in Windows : Start(seconds)
  \/ Work
  \/ End

Spec == Init /\ [][Next]_vars

-----------------------------------------------------------------------------
(***************************************************************************)
(* Properties.                                                             *)
(***************************************************************************)

\* The variables keep their types; the time of the next repetition is at most the
\* one interrupt late that fits between the two assignments of the timer.
TypeOK ==
  /\ pc \in {"main", "loop", "timer", "arp", "declined"}
  /\ window \in Windows \cup {0} /\ elapsed \in Nat /\ turned \in BOOLEAN
  /\ dhcp_state \in {"STOP", "INIT", "DISCOVER", "REQUEST", "LEASED", "REREQUEST"}
  /\ dhcp_retry_count \in 0..MAX_DHCP_RETRY
  /\ dhcp_tick_1s \in Nat /\ ret \in Nat
  /\ dhcp_tick_next \in DHCP_WAIT_TIME..DHCP_WAIT_TIME + 1
  /\ DHCP_allocated_ip \in Servers \cup {Zero}
  /\ DHCP_SIP \in Servers \cup {Zero} /\ options \in Servers \cup {Zero}
  /\ leased \in BOOLEAN
  /\ SIPR \in Servers \cup {Zero, Static}
  /\ netinfo \in [ip : Servers \cup {Zero, Static},
                  options : Servers \cup {Zero, Static}]
  /\ requests \subseteq [ip : Servers \cup {Zero}, server : Servers \cup {Zero}]
  /\ discovered \in BOOLEAN /\ heard \subseteq Servers
  /\ sinceDiscover \in 0..Long /\ leasedAt \in Nat

\* Every lease time the client has seen is long against the loop, as those of
\* real servers are: half of it does not pass within.
LongLeases == \A s \in heard : Lease[s] \div 2 > window

\* With such leases wiz_get_dhcp_ip reports an address only if that very address
\* was requested, acknowledged, found to be nobody else's and set in the chip -
\* and neither a later message, a refusal nor a conflict has taken it back.
LeasedIsTested ==
  leased /\ LongLeases =>
    /\ DHCP_allocated_ip # Zero
    /\ pc # "main" => DHCP_allocated_ip = SIPR
    /\ \E r \in requests : r.ip = DHCP_allocated_ip

\* The five seconds of TIME_LOOP are over before the second repetition: within
\* them DHCP_run never gives up (GiveUp), and answers are awaited to the end.
RetriesLast ==
  pc # "main" /\ window < MAX_DHCP_RETRY * (DHCP_WAIT_TIME + 1)
    => dhcp_retry_count < MAX_DHCP_RETRY

\* DHCP_DISCOVER is repeated by the timer only when the servers had DHCP_WAIT_TIME
\* seconds to answer, wherever the interrupt falls and whatever ran before: a
\* refusal, a conflict, an attempt that was given up.
PatientDiscover ==
  [][pc' = "timer" /\ pc # "timer" /\ dhcp_state = "DISCOVER"
       => sinceDiscover >= DHCP_WAIT_TIME]_vars

\* A lease that began with more than a second left is reported: one more DHCP_run
\* finds the state LEASED.
LeaseReported ==
  [][pc = "loop" /\ pc' = "main" /\ dhcp_state = "LEASED" /\ leasedAt + 1 < window
       => leased]_vars

\* An attempt outlasts its window by an ARP request and the wait after a decline
\* at most, although that wait is for an interrupt to count to a number that
\* check_DHCP_leasedIP fixed before: comm_handler gets its turn again.
AttemptBounded == elapsed <= window + ArpTicks + 2
=============================================================================
