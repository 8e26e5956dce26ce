------------------------- MODULE DhcpClient_proofs -------------------------
(***************************************************************************)
(* What wiz_get_dhcp_ip keeps, for any servers, lease times and windows.   *)
(***************************************************************************)
EXTENDS DhcpClient, TLAPS

(***************************************************************************)
(* The inductive invariant.                                                *)
(***************************************************************************)
InAttempt == pc # "main"

\* Every repetition took more than DHCP_WAIT_TIME seconds, which were before the
\* end of the window.
RetriesTakeTime ==
  /\ InAttempt =>
       /\ dhcp_tick_1s + 3 * dhcp_retry_count <= elapsed
       /\ 3 * dhcp_retry_count <= window
  /\ pc = "timer" =>
       /\ dhcp_retry_count < 2
       /\ dhcp_tick_1s <= 1
       /\ dhcp_tick_1s + 3 * (dhcp_retry_count + 1) <= elapsed
       /\ 3 * (dhcp_retry_count + 1) <= window

\* The window is exceeded by no more than the waits.
WaitsBounded ==
  /\ pc \in {"loop", "timer"} => elapsed <= window + ArpTicks + 2
  /\ pc = "arp" =>
       /\ dhcp_tick_1s - ret \in 0..ArpTicks
       /\ elapsed <= window + (dhcp_tick_1s - ret)
  /\ pc = "declined" =>
       /\ dhcp_tick_1s - ret \in 0..2
       /\ elapsed <= window + ArpTicks + (dhcp_tick_1s - ret)
  /\ pc = "main" => elapsed <= window + ArpTicks + 2

\* The counter of a DHCP_DISCOVER is ahead of its age by one second at most.
DiscoverAge ==
  /\ pc = "loop" /\ dhcp_state = "INIT" =>
       dhcp_tick_1s <= 1 /\ (turned => dhcp_tick_1s = 0)
  /\ pc \in {"loop", "timer"} /\ dhcp_state = "DISCOVER" =>
       sinceDiscover = Long \/ dhcp_tick_1s <= sinceDiscover + 1

Requested(ip) == \E r \in requests : r.ip = ip

\* Where the address comes from, and the chip's address once it is leased.
AddressKnown ==
  /\ pc \in {"arp", "declined"} => dhcp_state = "REQUEST"
  /\ pc = "timer" => dhcp_state \in {"DISCOVER", "REQUEST", "REREQUEST"}
  /\ InAttempt /\ dhcp_state \in {"REQUEST", "LEASED", "REREQUEST"} =>
       DHCP_allocated_ip \in Servers /\ Requested(DHCP_allocated_ip)
  /\ InAttempt /\ dhcp_state \in {"LEASED", "REREQUEST"} =>
       DHCP_allocated_ip = SIPR
  /\ options \in Servers => options \in heard

\* With long leases the state LEASED is not left.
LeaseStays ==
  /\ InAttempt /\ dhcp_state = "REREQUEST" => ~LongLeases
  /\ leased /\ LongLeases =>
       /\ InAttempt => dhcp_state = "LEASED" /\ pc = "loop"
       /\ DHCP_allocated_ip \in Servers /\ Requested(DHCP_allocated_ip)

\* A lease is seen by the next body.
LeaseSeen ==
  pc = "loop" /\ dhcp_state = "LEASED" /\ ~leased =>
    elapsed <= leasedAt + 1 /\ (turned => elapsed = leasedAt)

IInv ==
  /\ TypeOK
  /\ RetriesTakeTime
  /\ WaitsBounded
  /\ DiscoverAge
  /\ AddressKnown
  /\ LeaseStays
  /\ LeaseSeen

-----------------------------------------------------------------------------
(***************************************************************************)
(* Types.                                                                  *)
(***************************************************************************)

\* What the assumption says of the numbers.
LEMMA Numbers ==
  /\ \A w \in Windows : w \in Nat
  /\ ArpTicks \in Nat
  /\ \A x \in Servers : Lease[x] \in Nat /\ x # Zero /\ x # Static
  BY ServersAssumption

LEMMA InitType == Init => TypeOK
  <1> SUFFICES ASSUME Init PROVE TypeOK  OBVIOUS
  <1>1. netinfo \in [ip : Servers \cup {Zero, Static},
                   options : Servers \cup {Zero, Static}]
    BY DEF Init
  <1>2. /\ dhcp_retry_count \in 0..MAX_DHCP_RETRY
        /\ dhcp_tick_next \in DHCP_WAIT_TIME..DHCP_WAIT_TIME + 1
        /\ sinceDiscover \in 0..Long
    BY DEF Init, MAX_DHCP_RETRY, DHCP_WAIT_TIME, Long
  <1>3. requests \subseteq [ip : Servers \cup {Zero}, server : Servers \cup {Zero}]
        /\ heard \subseteq Servers
    BY DEF Init
  <1> QED  BY <1>1, <1>2, <1>3 DEF Init, TypeOK

\* What every call of DHCP_run does.
LEMMA RunFacts ==
  ASSUME TypeOK, NEW m \in Messages, NEW state, DHCP_run(m, state)
  PROVE  /\ pc = "loop" /\ window # 0 /\ elapsed <= window
         /\ elapsed' = elapsed /\ window' = window /\ netinfo' = netinfo
         /\ dhcp_state' = state /\ turned' = TRUE
         /\ DHCP_SIP' \in Servers \cup {Zero}
         /\ options' \in Servers \cup {Zero}
         /\ heard \subseteq heard' /\ heard' \subseteq Servers
         /\ options' = options \/ options' \in heard'
  <1>1. m \in Answers \cup {Nothing} /\ m \in Messages
    BY DEF DHCP_run, parseDHCPMSG
  <1>2. CASE m = Nothing
    BY <1>2 DEF DHCP_run, parseDHCPMSG, Runs, parsed, TypeOK
  <1>3. CASE m # Nothing
    <2>1. m.server \in Servers  BY <1>1, <1>3 DEF Messages
    <2> QED  BY <1>3, <2>1 DEF DHCP_run, parseDHCPMSG, Runs, TypeOK
  <1> QED  BY <1>2, <1>3

\* The messages a state takes are a server's.
LEMMA ServerMessages ==
  ASSUME NEW m \in Messages
  PROVE  m.type \in {"OFFER", "ACK", "NAK"} => m.server \in Servers
  BY DEF Messages, Nothing

\* The steps a body consists of, one by one.
LEMMA BodyCases ==
  ASSUME Body
  PROVE  \E m \in Messages :
           \/ Discover(m) \/ TakeOffer(m) \/ TakeAck(m) \/ TakeNak(m)
           \/ Wait(m) \/ Resend(m) \/ GiveUp(m)
           \/ KeepLease(m) \/ Renew(m) \/ Renewed(m)
  BY DEF Body

\* What every body does.
LEMMA BodyFacts ==
  ASSUME TypeOK, Body
  PROVE  /\ pc = "loop" /\ elapsed <= window
         /\ elapsed' = elapsed /\ window' = window /\ turned' = TRUE
         /\ heard \subseteq heard'
         /\ options' \in Servers \cup {Zero}
         /\ options' = options \/ options' \in heard'
  <1>1. PICK m \in Messages : \E state : DHCP_run(m, state)
    BY DEF Body, Discover, TakeOffer, TakeAck, TakeNak, Wait, Resend, GiveUp,
       KeepLease,
           Renew, Renewed, check_DHCP_timeout
  <1>2. PICK state : DHCP_run(m, state)  BY <1>1
  <1> QED  BY <1>2, RunFacts

\* The type of the timer, and of what was sent.
TimerType ==
  /\ dhcp_retry_count \in 0..MAX_DHCP_RETRY
  /\ dhcp_tick_1s \in Nat
  /\ dhcp_tick_next \in DHCP_WAIT_TIME..DHCP_WAIT_TIME + 1

SentType ==
  /\ requests \subseteq [ip : Servers \cup {Zero}, server : Servers \cup {Zero}]
  /\ discovered \in BOOLEAN
  /\ sinceDiscover \in 0..Long

LEMMA ResetType == reset_DHCP_timeout => TimerType'
  BY DEF reset_DHCP_timeout, TimerType, MAX_DHCP_RETRY, DHCP_WAIT_TIME

LEMMA DiscoverType == TypeOK /\ send_DHCP_DISCOVER => SentType'
  BY DEF send_DHCP_DISCOVER, SentType, TypeOK, Long, DHCP_WAIT_TIME

LEMMA RequestType ==
  ASSUME TypeOK, NEW ip \in Servers \cup {Zero}, send_DHCP_REQUEST(ip),
         DHCP_SIP' \in Servers \cup {Zero}
  PROVE  SentType'
  BY DEF send_DHCP_REQUEST, SentType, TypeOK

\* The rest of a body: what DHCP_run does not fix.
LEMMA BodyType ==
  ASSUME TypeOK, NEW m \in Messages, NEW state, DHCP_run(m, state),
         state \in {"INIT", "DISCOVER", "REQUEST", "LEASED", "REREQUEST"},
         pc' \in {"loop", "timer", "arp"},
         TimerType', SentType', ret' \in Nat,
         DHCP_allocated_ip' \in Servers \cup {Zero},
         leased' \in BOOLEAN, SIPR' = SIPR, leasedAt' = leasedAt
  PROVE  TypeOK'
  <1>1. /\ elapsed' = elapsed /\ window' = window /\ netinfo' = netinfo
        /\ dhcp_state' = state /\ turned' = TRUE
        /\ DHCP_SIP' \in Servers \cup {Zero}
        /\ options' \in Servers \cup {Zero}
        /\ heard' \subseteq Servers
    BY RunFacts
  <1> QED  BY <1>1 DEF TypeOK, TimerType, SentType

LEMMA BodyKeepsType ==
  ASSUME TypeOK, Body
  PROVE  TypeOK'
  <1>0. TimerType /\ SentType  BY DEF TypeOK, TimerType, SentType
  <1>1. UNCHANGED timer => TimerType'  BY <1>0 DEF timer, TimerType
  <1>2. UNCHANGED sent => SentType'  BY <1>0 DEF sent, SentType
  <1>3. ret \in Nat /\ dhcp_tick_1s \in Nat /\ leased \in BOOLEAN
        /\ DHCP_allocated_ip \in Servers \cup {Zero}
    BY DEF TypeOK
  <1>4. PICK m \in Messages :
           \/ Discover(m) \/ TakeOffer(m) \/ TakeAck(m) \/ TakeNak(m)
           \/ Wait(m) \/ Resend(m) \/ GiveUp(m)
           \/ KeepLease(m) \/ Renew(m) \/ Renewed(m)
    BY BodyCases
  <1>5. ASSUME NEW state, DHCP_run(m, state)
        PROVE  pc = "loop" /\ DHCP_SIP' \in Servers \cup {Zero}
    BY <1>5, RunFacts
  <1>a. CASE Discover(m)
    BY <1>a, <1>1, <1>3, <1>5, BodyType, DiscoverType DEF Discover
  <1>b. CASE TakeOffer(m)
    <2>1. m.server \in Servers  BY <1>b, ServerMessages DEF TakeOffer
    <2>2. SentType'  BY <1>b, <1>5, <2>1, RequestType DEF TakeOffer
    <2> QED  BY <1>b, <1>1, <1>3, <1>5, <2>1, <2>2, BodyType DEF TakeOffer
  <1>c. CASE TakeAck(m)
    BY <1>c, <1>1, <1>2, <1>3, BodyType DEF TakeAck
  <1>d. CASE TakeNak(m)
    BY <1>d, <1>2, <1>3, <1>5, ResetType, BodyType DEF TakeNak
  <1>e. CASE Wait(m)
    BY <1>e, <1>1, <1>2, <1>3, <1>5, BodyType DEF Wait, check_DHCP_timeout
  <1>f. CASE Resend(m)
    <2>1. SentType'
      BY <1>f, <1>3, <1>5, DiscoverType, RequestType DEF Resend, check_DHCP_timeout
    <2>2. TimerType'
      BY <1>f, <1>0 DEF Resend, TimerType
    <2> QED  BY <1>f, <1>3, <2>1, <2>2, BodyType DEF Resend, check_DHCP_timeout
  <1>g. CASE GiveUp(m)
    <2>1. SentType'  BY <1>g, <1>2, DiscoverType DEF GiveUp
    <2> QED  BY <1>g, <1>3, <1>5, <2>1, ResetType, BodyType DEF GiveUp,
                check_DHCP_timeout
  <1>h. CASE KeepLease(m)
    BY <1>h, <1>1, <1>2, <1>3, <1>5, BodyType DEF KeepLease, ReportLease
  <1>i. CASE Renew(m)
    <2>1. SentType'  BY <1>i, <1>3, <1>5, RequestType DEF Renew
    <2> QED  BY <1>i, <1>3, <1>5, <2>1, ResetType, BodyType DEF Renew, ReportLease
  <1>j. CASE Renewed(m)
    BY <1>j, <1>2, <1>3, <1>5, ResetType, BodyType DEF Renewed, ReportLease
  <1> QED
    BY <1>4, <1>a, <1>b, <1>c, <1>d, <1>e, <1>f, <1>g, <1>h, <1>i, <1>j

LEMMA TypePreserved ==
  ASSUME TypeOK, RetriesTakeTime, [Next]_vars
  PROVE  TypeOK'
  <1>1. CASE Second
    <2>1. /\ dhcp_tick_1s' \in Nat /\ elapsed' \in Nat
          /\ sinceDiscover' \in 0..Long
      BY <1>1 DEF Second, DHCP_time_handler, TypeOK, Long, DHCP_WAIT_TIME
    <2>2. /\ turned' = FALSE
          /\ UNCHANGED <<pc, dhcp_state, DHCP_allocated_ip, ret, SIPR, requests,
                         discovered, leasedAt, DHCP_SIP, options, heard>>
      BY <1>1 DEF Second, parsed
    <2>3. UNCHANGED <<window, leased, netinfo, dhcp_retry_count, dhcp_tick_next>>
      BY <1>1 DEF Second, caller
    <2>4. TimerType'  BY <2>1, <2>3 DEF TypeOK, TimerType
    <2>5. SentType'  BY <2>1, <2>2 DEF TypeOK, SentType
    <2>6. turned' \in BOOLEAN /\ leased' \in BOOLEAN
      BY <2>2, <2>3 DEF TypeOK
    <2>7. ret' \in Nat /\ leasedAt' \in Nat /\ heard' \subseteq Servers
          /\ window' \in Windows \cup {0}
      BY <2>2, <2>3 DEF TypeOK
    <2>8. /\ DHCP_allocated_ip' \in Servers \cup {Zero}
          /\ DHCP_SIP' \in Servers \cup {Zero} /\ options' \in Servers \cup {Zero}
          /\ SIPR' \in Servers \cup {Zero, Static}
          /\ netinfo' \in [ip : Servers \cup {Zero, Static},
                           options : Servers \cup {Zero, Static}]
      BY <2>2, <2>3 DEF TypeOK
    <2>9. /\ pc' \in {"main", "loop", "timer", "arp", "declined"}
          /\ dhcp_state' \in {"STOP", "INIT", "DISCOVER", "REQUEST", "LEASED",
                             "REREQUEST"}
      BY <2>2 DEF TypeOK
    <2> QED
      BY <2>1, <2>4, <2>5, <2>6, <2>7, <2>8, <2>9 DEF TypeOK, TimerType, SentType
  <1>2. CASE \E seconds \in Windows : Start(seconds)
    <2>1. PICK seconds \in Windows : Start(seconds)  BY <1>2
    <2>2. TimerType'  BY <2>1, ResetType DEF Start
    <2> QED  BY <2>1, <2>2 DEF Start, TimerType, TypeOK, parsed, sent
  <1>3. CASE Body
    BY <1>3, BodyKeepsType
  <1>4. CASE SetTimer
    <2>1. TimerType'
      BY <1>4 DEF SetTimer, NextTime, TypeOK, TimerType, RetriesTakeTime,
                  MAX_DHCP_RETRY, DHCP_WAIT_TIME
    <2> QED  BY <1>4, <2>1 DEF SetTimer, TimerType, TypeOK, parsed, sent, caller
  <1>5. CASE AddressUnique
    <2>1. TimerType'  BY <1>5, ResetType DEF AddressUnique
    <2> QED  BY <1>5, <2>1 DEF AddressUnique, TimerType, TypeOK, parsed, sent, caller
  <1>6. CASE AddressInUse
    BY <1>6 DEF AddressInUse, TypeOK, timer, parsed, sent, caller
  <1>7. CASE Declined
    <2>1. TimerType'  BY <1>7, ResetType DEF Declined
    <2> QED
      BY <1>7, <2>1 DEF Declined, StateAfterConflict, TimerType, TypeOK, parsed, sent,
                        caller
  <1>8. CASE End
    <2>1. netinfo' \in [ip : Servers \cup {Zero, Static},
                        options : Servers \cup {Zero, Static}]
      BY <1>8 DEF End, TypeOK
    <2>2. SIPR' \in Servers \cup {Zero, Static}
      BY <1>8, <2>1 DEF End
    <2> QED  BY <1>8, <2>1, <2>2 DEF End, TypeOK, timer, parsed, sent
  <1>9. CASE UNCHANGED vars
    BY <1>9 DEF vars, TypeOK, timer, parsed, sent, caller
  <1> QED
    BY <1>1, <1>2, <1>3, <1>4, <1>5, <1>6, <1>7, <1>8, <1>9 DEF Next, Work

-----------------------------------------------------------------------------
(***************************************************************************)
(* Time.                                                                   *)
(***************************************************************************)

\* A repetition needs a counter above DHCP_WAIT_TIME, which took that long.
LEMMA RetriesTakeTimePreserved ==
  ASSUME IInv, [Next]_vars
  PROVE  RetriesTakeTime'
  <1>0. /\ TypeOK /\ RetriesTakeTime
        /\ elapsed \in Nat /\ window \in Nat /\ dhcp_tick_1s \in Nat
        /\ dhcp_retry_count \in 0..2 /\ dhcp_tick_next \in 2..3
    BY Numbers DEF IInv, TypeOK, MAX_DHCP_RETRY, DHCP_WAIT_TIME
  <1>1. CASE Second
    BY <1>1, <1>0 DEF Second, SecondMayPass, DHCP_time_handler, caller, parsed,
       RetriesTakeTime, InAttempt, MAX_DHCP_RETRY, DHCP_WAIT_TIME
  <1>2. CASE \E seconds \in Windows : Start(seconds)
    <2>1. PICK seconds \in Windows : Start(seconds)  BY <1>2
    <2> QED  BY <2>1, <1>0, Numbers DEF Start, reset_DHCP_timeout, parsed, sent,
                RetriesTakeTime, InAttempt, MAX_DHCP_RETRY, DHCP_WAIT_TIME
  <1>3. CASE Body
    <2>1. PICK m \in Messages :
             \/ Discover(m) \/ TakeOffer(m) \/ TakeAck(m) \/ TakeNak(m)
             \/ Wait(m) \/ Resend(m) \/ GiveUp(m)
             \/ KeepLease(m) \/ Renew(m) \/ Renewed(m)
      BY <1>3, BodyCases
    <2>2. /\ pc = "loop" /\ elapsed <= window
          /\ elapsed' = elapsed /\ window' = window /\ turned' = TRUE
          /\ heard \subseteq heard'
          /\ options' \in Servers \cup {Zero}
          /\ options' = options \/ options' \in heard'
      BY <1>3, <1>0, BodyFacts
    <2>a. CASE Discover(m)
      BY <2>a, <2>2, <1>0 DEF Discover, DHCP_run, timer, RetriesTakeTime, InAttempt,
         MAX_DHCP_RETRY, DHCP_WAIT_TIME
    <2>b. CASE TakeOffer(m)
      BY <2>b, <2>2, <1>0 DEF TakeOffer, DHCP_run, timer, RetriesTakeTime,
         InAttempt, MAX_DHCP_RETRY, DHCP_WAIT_TIME
    <2>c. CASE TakeAck(m)
      BY <2>c, <2>2, <1>0 DEF TakeAck, DHCP_run, timer, RetriesTakeTime, InAttempt,
         MAX_DHCP_RETRY, DHCP_WAIT_TIME
    <2>d. CASE TakeNak(m)
      BY <2>d, <2>2, <1>0 DEF TakeNak, DHCP_run, reset_DHCP_timeout,
         RetriesTakeTime, InAttempt, MAX_DHCP_RETRY, DHCP_WAIT_TIME
    <2>e. CASE Wait(m)
      BY <2>e, <2>2, <1>0 DEF Wait, check_DHCP_timeout, DHCP_run, timer,
         RetriesTakeTime, InAttempt, MAX_DHCP_RETRY, DHCP_WAIT_TIME
    <2>f. CASE Resend(m)
      BY <2>f, <2>2, <1>0 DEF Resend, check_DHCP_timeout, DHCP_run, RetriesLeft,
         Expired, RetriesTakeTime, InAttempt, MAX_DHCP_RETRY, DHCP_WAIT_TIME
    <2>g. CASE GiveUp(m)
      BY <2>g, <2>2, <1>0 DEF GiveUp, check_DHCP_timeout, DHCP_run,
         reset_DHCP_timeout, RetriesTakeTime, InAttempt, MAX_DHCP_RETRY,
         DHCP_WAIT_TIME
    <2>h. CASE KeepLease(m)
      BY <2>h, <2>2, <1>0 DEF KeepLease, ReportLease, DHCP_run, timer,
         RetriesTakeTime, InAttempt, MAX_DHCP_RETRY, DHCP_WAIT_TIME
    <2>i. CASE Renew(m)
      BY <2>i, <2>2, <1>0 DEF Renew, ReportLease, DHCP_run, reset_DHCP_timeout,
         RetriesTakeTime, InAttempt, MAX_DHCP_RETRY, DHCP_WAIT_TIME
    <2>j. CASE Renewed(m)
      BY <2>j, <2>2, <1>0 DEF Renewed, ReportLease, DHCP_run, reset_DHCP_timeout,
         RetriesTakeTime, InAttempt, MAX_DHCP_RETRY, DHCP_WAIT_TIME
    <2> QED
      BY <2>1, <2>a, <2>b, <2>c, <2>d, <2>e, <2>f, <2>g, <2>h, <2>i, <2>j
  <1>4. CASE SetTimer
    BY <1>4, <1>0 DEF SetTimer, NextTime, caller, parsed, sent, RetriesTakeTime,
       InAttempt, MAX_DHCP_RETRY, DHCP_WAIT_TIME
  <1>5. CASE AddressUnique
    BY <1>5, <1>0 DEF AddressUnique, reset_DHCP_timeout, caller, parsed, sent,
       RetriesTakeTime, InAttempt, MAX_DHCP_RETRY, DHCP_WAIT_TIME
  <1>6. CASE AddressInUse
    BY <1>6, <1>0 DEF AddressInUse, timer, caller, parsed, sent, RetriesTakeTime,
       InAttempt, MAX_DHCP_RETRY, DHCP_WAIT_TIME
  <1>7. CASE Declined
    BY <1>7, <1>0 DEF Declined, reset_DHCP_timeout, StateAfterConflict, caller,
       parsed, sent, RetriesTakeTime, InAttempt, MAX_DHCP_RETRY, DHCP_WAIT_TIME
  <1>8. CASE End
    BY <1>8, <1>0 DEF End, timer, parsed, sent, RetriesTakeTime, InAttempt,
       MAX_DHCP_RETRY, DHCP_WAIT_TIME
  <1>9. CASE UNCHANGED vars
    BY <1>9, <1>0 DEF vars, timer, caller, parsed, sent, RetriesTakeTime, InAttempt,
       MAX_DHCP_RETRY, DHCP_WAIT_TIME
  <1> QED
    BY <1>1, <1>2, <1>3, <1>4, <1>5, <1>6, <1>7, <1>8, <1>9 DEF Next, Work

\* The waits begin within the window, and count with the interrupt.
LEMMA WaitsBoundedPreserved ==
  ASSUME IInv, [Next]_vars
  PROVE  WaitsBounded'
  <1>0. /\ TypeOK /\ WaitsBounded
        /\ elapsed \in Nat /\ window \in Nat /\ dhcp_tick_1s \in Nat /\ ret \in Nat
        /\ ArpTicks \in Nat
    BY Numbers DEF IInv, TypeOK
  <1>1. CASE Second
    BY <1>1, <1>0 DEF Second, SecondMayPass, DHCP_time_handler, caller, parsed,
       WaitsBounded
  <1>2. CASE \E seconds \in Windows : Start(seconds)
    <2>1. PICK seconds \in Windows : Start(seconds)  BY <1>2
    <2> QED  BY <2>1, <1>0, Numbers DEF Start, reset_DHCP_timeout, parsed, sent,
                WaitsBounded
  <1>3. CASE Body
    <2>1. PICK m \in Messages :
             \/ Discover(m) \/ TakeOffer(m) \/ TakeAck(m) \/ TakeNak(m)
             \/ Wait(m) \/ Resend(m) \/ GiveUp(m)
             \/ KeepLease(m) \/ Renew(m) \/ Renewed(m)
      BY <1>3, BodyCases
    <2>2. /\ pc = "loop" /\ elapsed <= window
          /\ elapsed' = elapsed /\ window' = window /\ turned' = TRUE
          /\ heard \subseteq heard'
          /\ options' \in Servers \cup {Zero}
          /\ options' = options \/ options' \in heard'
      BY <1>3, <1>0, BodyFacts
    <2>a. CASE Discover(m)
      BY <2>a, <2>2, <1>0 DEF Discover, DHCP_run, timer, WaitsBounded
    <2>b. CASE TakeOffer(m)
      BY <2>b, <2>2, <1>0 DEF TakeOffer, DHCP_run, timer, WaitsBounded
    <2>c. CASE TakeAck(m)
      BY <2>c, <2>2, <1>0 DEF TakeAck, DHCP_run, timer, WaitsBounded
    <2>d. CASE TakeNak(m)
      BY <2>d, <2>2, <1>0 DEF TakeNak, DHCP_run, reset_DHCP_timeout, WaitsBounded
    <2>e. CASE Wait(m)
      BY <2>e, <2>2, <1>0 DEF Wait, check_DHCP_timeout, DHCP_run, timer, WaitsBounded
    <2>f. CASE Resend(m)
      BY <2>f, <2>2, <1>0 DEF Resend, check_DHCP_timeout, DHCP_run, WaitsBounded
    <2>g. CASE GiveUp(m)
      BY <2>g, <2>2, <1>0 DEF GiveUp, check_DHCP_timeout, DHCP_run,
         reset_DHCP_timeout, WaitsBounded
    <2>h. CASE KeepLease(m)
      BY <2>h, <2>2, <1>0 DEF KeepLease, ReportLease, DHCP_run, timer, WaitsBounded
    <2>i. CASE Renew(m)
      BY <2>i, <2>2, <1>0 DEF Renew, ReportLease, DHCP_run, reset_DHCP_timeout,
         WaitsBounded
    <2>j. CASE Renewed(m)
      BY <2>j, <2>2, <1>0 DEF Renewed, ReportLease, DHCP_run, reset_DHCP_timeout,
         WaitsBounded
    <2> QED
      BY <2>1, <2>a, <2>b, <2>c, <2>d, <2>e, <2>f, <2>g, <2>h, <2>i, <2>j
  <1>4. CASE SetTimer
    BY <1>4, <1>0 DEF SetTimer, NextTime, caller, parsed, sent, WaitsBounded
  <1>5. CASE AddressUnique
    BY <1>5, <1>0 DEF AddressUnique, reset_DHCP_timeout, caller, parsed, sent,
       WaitsBounded
  <1>6. CASE AddressInUse
    BY <1>6, <1>0 DEF AddressInUse, timer, caller, parsed, sent, WaitsBounded
  <1>7. CASE Declined
    BY <1>7, <1>0 DEF Declined, reset_DHCP_timeout, StateAfterConflict, caller,
       parsed, sent, WaitsBounded
  <1>8. CASE End
    BY <1>8, <1>0 DEF End, timer, parsed, sent, WaitsBounded
  <1>9. CASE UNCHANGED vars
    BY <1>9, <1>0 DEF vars, timer, caller, parsed, sent, WaitsBounded
  <1> QED
    BY <1>1, <1>2, <1>3, <1>4, <1>5, <1>6, <1>7, <1>8, <1>9 DEF Next, Work

\* The counter is at most one second old when DHCP_DISCOVER is sent.
LEMMA DiscoverAgePreserved ==
  ASSUME IInv, [Next]_vars
  PROVE  DiscoverAge'
  <1>0. /\ TypeOK /\ DiscoverAge /\ AddressKnown
        /\ elapsed \in Nat /\ window \in Nat /\ dhcp_tick_1s \in Nat
        /\ sinceDiscover \in 0..3
    BY Numbers DEF IInv, TypeOK, Long, DHCP_WAIT_TIME
  <1>1. CASE Second
    BY <1>1, <1>0 DEF Second, SecondMayPass, DHCP_time_handler, caller, parsed,
       DiscoverAge, AddressKnown, Long, DHCP_WAIT_TIME
  <1>2. CASE \E seconds \in Windows : Start(seconds)
    <2>1. PICK seconds \in Windows : Start(seconds)  BY <1>2
    <2> QED  BY <2>1, <1>0, Numbers DEF Start, reset_DHCP_timeout, parsed, sent,
                DiscoverAge, AddressKnown, Long, DHCP_WAIT_TIME
  <1>3. CASE Body
    <2>1. PICK m \in Messages :
             \/ Discover(m) \/ TakeOffer(m) \/ TakeAck(m) \/ TakeNak(m)
             \/ Wait(m) \/ Resend(m) \/ GiveUp(m)
             \/ KeepLease(m) \/ Renew(m) \/ Renewed(m)
      BY <1>3, BodyCases
    <2>2. /\ pc = "loop" /\ elapsed <= window
          /\ elapsed' = elapsed /\ window' = window /\ turned' = TRUE
          /\ heard \subseteq heard'
          /\ options' \in Servers \cup {Zero}
          /\ options' = options \/ options' \in heard'
      BY <1>3, <1>0, BodyFacts
    <2>a. CASE Discover(m)
      BY <2>a, <2>2, <1>0 DEF Discover, DHCP_run, timer, send_DHCP_DISCOVER,
         DiscoverAge, AddressKnown, Long, DHCP_WAIT_TIME
    <2>b. CASE TakeOffer(m)
      BY <2>b, <2>2, <1>0 DEF TakeOffer, DHCP_run, timer, DiscoverAge, AddressKnown,
         Long, DHCP_WAIT_TIME
    <2>c. CASE TakeAck(m)
      BY <2>c, <2>2, <1>0 DEF TakeAck, DHCP_run, timer, DiscoverAge, AddressKnown,
         Long, DHCP_WAIT_TIME
    <2>d. CASE TakeNak(m)
      BY <2>d, <2>2, <1>0 DEF TakeNak, DHCP_run, reset_DHCP_timeout, sent,
         DiscoverAge, AddressKnown, Long, DHCP_WAIT_TIME
    <2>e. CASE Wait(m)
      BY <2>e, <2>2, <1>0 DEF Wait, check_DHCP_timeout, DHCP_run, timer, sent,
         DiscoverAge, AddressKnown, Long, DHCP_WAIT_TIME
    <2>f. CASE Resend(m)
      BY <2>f, <2>2, <1>0 DEF Resend, check_DHCP_timeout, DHCP_run,
         send_DHCP_DISCOVER, DiscoverAge, AddressKnown, Long, DHCP_WAIT_TIME
    <2>g. CASE GiveUp(m)
      BY <2>g, <2>2, <1>0 DEF GiveUp, check_DHCP_timeout, DHCP_run,
         reset_DHCP_timeout, send_DHCP_DISCOVER, sent, DiscoverAge, AddressKnown,
         Long, DHCP_WAIT_TIME
    <2>h. CASE KeepLease(m)
      BY <2>h, <2>2, <1>0 DEF KeepLease, ReportLease, DHCP_run, timer, DiscoverAge,
         AddressKnown, Long, DHCP_WAIT_TIME
    <2>i. CASE Renew(m)
      BY <2>i, <2>2, <1>0 DEF Renew, ReportLease, DHCP_run, reset_DHCP_timeout,
         DiscoverAge, AddressKnown, Long, DHCP_WAIT_TIME
    <2>j. CASE Renewed(m)
      BY <2>j, <2>2, <1>0 DEF Renewed, ReportLease, DHCP_run, reset_DHCP_timeout,
         DiscoverAge, AddressKnown, Long, DHCP_WAIT_TIME
    <2> QED
      BY <2>1, <2>a, <2>b, <2>c, <2>d, <2>e, <2>f, <2>g, <2>h, <2>i, <2>j
  <1>4. CASE SetTimer
    BY <1>4, <1>0 DEF SetTimer, NextTime, caller, parsed, sent, DiscoverAge,
       AddressKnown, Long, DHCP_WAIT_TIME
  <1>5. CASE AddressUnique
    BY <1>5, <1>0 DEF AddressUnique, reset_DHCP_timeout, caller, parsed, sent,
       DiscoverAge, AddressKnown, Long, DHCP_WAIT_TIME
  <1>6. CASE AddressInUse
    BY <1>6, <1>0 DEF AddressInUse, timer, caller, parsed, sent, DiscoverAge,
       AddressKnown, Long, DHCP_WAIT_TIME
  <1>7. CASE Declined
    BY <1>7, <1>0 DEF Declined, reset_DHCP_timeout, StateAfterConflict, caller,
       parsed, sent, DiscoverAge, AddressKnown, Long, DHCP_WAIT_TIME
  <1>8. CASE End
    BY <1>8, <1>0 DEF End, timer, parsed, sent, DiscoverAge, AddressKnown, Long,
       DHCP_WAIT_TIME
  <1>9. CASE UNCHANGED vars
    BY <1>9, <1>0 DEF vars, timer, caller, parsed, sent, DiscoverAge, AddressKnown,
       Long, DHCP_WAIT_TIME
  <1> QED
    BY <1>1, <1>2, <1>3, <1>4, <1>5, <1>6, <1>7, <1>8, <1>9 DEF Next, Work

-----------------------------------------------------------------------------
(***************************************************************************)
(* The address.                                                            *)
(***************************************************************************)

\* A DHCP_REQUEST is remembered.
LEMMA RequestRemembered ==
  ASSUME NEW ip, send_DHCP_REQUEST(ip)
  PROVE  Requested(ip)' /\ requests \subseteq requests'
  <1>1. [ip |-> ip, server |-> DHCP_SIP'] \in requests'
    BY DEF send_DHCP_REQUEST
  <1>2. Requested(ip)'
    <2>1. [ip |-> ip, server |-> DHCP_SIP'].ip = ip  OBVIOUS
    <2> QED  BY <1>1, <2>1 DEF Requested
  <1> QED  BY <1>2 DEF send_DHCP_REQUEST

\* What was requested stays so.
LEMMA RequestedStays ==
  ASSUME [Next]_vars
  PROVE  requests \subseteq requests'
  <1>1. CASE Body
    BY <1>1 DEF Body, Discover, TakeOffer, TakeAck, TakeNak, Wait, Resend, GiveUp,
       KeepLease,
                Renew, Renewed, send_DHCP_REQUEST, send_DHCP_DISCOVER, sent
  <1>2. CASE ~Body
    BY <1>2 DEF Next, Work, vars, sent, Second, Start, SetTimer, AddressUnique,
       AddressInUse,
                Declined, End
  <1> QED  BY <1>1, <1>2

\* The address is an offer's, and only AddressUnique gives it to the chip.
LEMMA AddressKnownPreserved ==
  ASSUME IInv, [Next]_vars
  PROVE  AddressKnown'
  <1>0. /\ TypeOK /\ AddressKnown
        /\ \A ip : Requested(ip) => Requested(ip)'
        /\ \A x \in Servers : x # Zero
    <2>1. requests \subseteq requests'  BY RequestedStays
    <2> QED  BY <2>1, Numbers DEF IInv, Requested
  <1>1. CASE Second
    BY <1>1, <1>0 DEF Second, SecondMayPass, DHCP_time_handler, caller, parsed,
       AddressKnown, InAttempt
  <1>2. CASE \E seconds \in Windows : Start(seconds)
    <2>1. PICK seconds \in Windows : Start(seconds)  BY <1>2
    <2> QED  BY <2>1, <1>0, Numbers DEF Start, reset_DHCP_timeout, parsed, sent,
                AddressKnown, InAttempt
  <1>3. CASE Body
    <2>1. PICK m \in Messages :
             \/ Discover(m) \/ TakeOffer(m) \/ TakeAck(m) \/ TakeNak(m)
             \/ Wait(m) \/ Resend(m) \/ GiveUp(m)
             \/ KeepLease(m) \/ Renew(m) \/ Renewed(m)
      BY <1>3, BodyCases
    <2>2. /\ pc = "loop" /\ elapsed <= window
          /\ elapsed' = elapsed /\ window' = window /\ turned' = TRUE
          /\ heard \subseteq heard'
          /\ options' \in Servers \cup {Zero}
          /\ options' = options \/ options' \in heard'
      BY <1>3, <1>0, BodyFacts
    <2>3. m.type \in {"OFFER", "ACK", "NAK"} => m.server \in Servers
      BY ServerMessages
    <2>4. \A ip : send_DHCP_REQUEST(ip) => Requested(ip)'
      BY RequestRemembered
    <2>a. CASE Discover(m)
      BY <2>a, <2>2, <1>0 DEF Discover, DHCP_run, AddressKnown, InAttempt
    <2>b. CASE TakeOffer(m)
      BY <2>b, <2>2, <1>0, <2>3, <2>4 DEF TakeOffer, DHCP_run, AddressKnown, InAttempt
    <2>c. CASE TakeAck(m)
      BY <2>c, <2>2, <1>0 DEF TakeAck, DHCP_run, AddressKnown, InAttempt
    <2>d. CASE TakeNak(m)
      BY <2>d, <2>2, <1>0 DEF TakeNak, DHCP_run, AddressKnown, InAttempt
    <2>e. CASE Wait(m)
      BY <2>e, <2>2, <1>0 DEF Wait, check_DHCP_timeout, DHCP_run, AddressKnown,
         InAttempt
    <2>f. CASE Resend(m)
      BY <2>f, <2>2, <1>0 DEF Resend, check_DHCP_timeout, DHCP_run, AddressKnown,
         InAttempt
    <2>g. CASE GiveUp(m)
      BY <2>g, <2>2, <1>0 DEF GiveUp, check_DHCP_timeout, DHCP_run, AddressKnown,
         InAttempt
    <2>h. CASE KeepLease(m)
      BY <2>h, <2>2, <1>0 DEF KeepLease, ReportLease, DHCP_run, AddressKnown,
         InAttempt
    <2>i. CASE Renew(m)
      BY <2>i, <2>2, <1>0 DEF Renew, ReportLease, DHCP_run, AddressKnown, InAttempt
    <2>j. CASE Renewed(m)
      BY <2>j, <2>2, <1>0 DEF Renewed, ReportLease, DHCP_run, AddressKnown, InAttempt
    <2> QED
      BY <2>1, <2>a, <2>b, <2>c, <2>d, <2>e, <2>f, <2>g, <2>h, <2>i, <2>j
  <1>4. CASE SetTimer
    BY <1>4, <1>0 DEF SetTimer, NextTime, caller, parsed, sent, AddressKnown,
       InAttempt
  <1>5. CASE AddressUnique
    BY <1>5, <1>0 DEF AddressUnique, reset_DHCP_timeout, caller, parsed, sent,
       AddressKnown, InAttempt
  <1>6. CASE AddressInUse
    BY <1>6, <1>0 DEF AddressInUse, timer, caller, parsed, sent, AddressKnown,
       InAttempt
  <1>7. CASE Declined
    BY <1>7, <1>0 DEF Declined, reset_DHCP_timeout, StateAfterConflict, caller,
       parsed, sent, AddressKnown, InAttempt
  <1>8. CASE End
    BY <1>8, <1>0 DEF End, timer, parsed, sent, AddressKnown, InAttempt
  <1>9. CASE UNCHANGED vars
    BY <1>9, <1>0 DEF vars, timer, caller, parsed, sent, AddressKnown, InAttempt
  <1> QED
    BY <1>1, <1>2, <1>3, <1>4, <1>5, <1>6, <1>7, <1>8, <1>9 DEF Next, Work

\* RenewalDue contradicts long leases, and nothing else ends the state LEASED.
LEMMA LeaseStaysPreserved ==
  ASSUME IInv, [Next]_vars
  PROVE  LeaseStays'
  <1>0. /\ TypeOK /\ AddressKnown /\ LeaseStays /\ RetriesTakeTime
        /\ \A ip : Requested(ip) => Requested(ip)'
        /\ elapsed \in Nat /\ window \in Nat /\ dhcp_tick_1s \in Nat
        /\ dhcp_retry_count \in Nat
        /\ leased \in BOOLEAN
        /\ \A x \in Servers : Lease[x] \div 2 \in Int
        /\ heard' = heard /\ window' = window => (LongLeases' => LongLeases)
    <2>1. requests \subseteq requests'  BY RequestedStays
    <2> QED  BY <2>1, Numbers DEF IInv, Requested, TypeOK, MAX_DHCP_RETRY, LongLeases
  <1>1. CASE Second
    BY <1>1, <1>0 DEF Second, SecondMayPass, DHCP_time_handler, caller, parsed,
       LeaseStays, AddressKnown, InAttempt
  <1>2. CASE \E seconds \in Windows : Start(seconds)
    <2>1. PICK seconds \in Windows : Start(seconds)  BY <1>2
    <2> QED  BY <2>1, <1>0, Numbers DEF Start, reset_DHCP_timeout, parsed, sent,
                LeaseStays, AddressKnown, InAttempt
  <1>3. CASE Body
    <2>1. PICK m \in Messages :
             \/ Discover(m) \/ TakeOffer(m) \/ TakeAck(m) \/ TakeNak(m)
             \/ Wait(m) \/ Resend(m) \/ GiveUp(m)
             \/ KeepLease(m) \/ Renew(m) \/ Renewed(m)
      BY <1>3, BodyCases
    <2>2. /\ pc = "loop" /\ elapsed <= window
          /\ elapsed' = elapsed /\ window' = window /\ turned' = TRUE
          /\ heard \subseteq heard'
          /\ options' \in Servers \cup {Zero}
          /\ options' = options \/ options' \in heard'
      BY <1>3, <1>0, BodyFacts
    <2>3. LongLeases' => LongLeases
      BY <2>2 DEF LongLeases
    <2>4. RenewalDue /\ dhcp_state = "LEASED" => ~LongLeases'
      <3>1. SUFFICES ASSUME RenewalDue, LongLeases'  PROVE FALSE
        OBVIOUS
      <3>2. options' \in heard'
        BY <3>1, <2>2, <1>0 DEF RenewalDue, AddressKnown
      <3>3. Lease[options'] \div 2 > window
        BY <3>1, <3>2, <2>2 DEF LongLeases
      <3>4. dhcp_tick_1s <= elapsed
        BY <2>2, <1>0 DEF RetriesTakeTime, InAttempt
      <3> QED  BY <3>1, <3>3, <3>4, <2>2, <1>0 DEF RenewalDue
    <2>a. CASE Discover(m)
      BY <2>a, <2>2, <1>0, <2>3, <2>4 DEF Discover, DHCP_run, LeaseStays,
         AddressKnown, InAttempt
    <2>b. CASE TakeOffer(m)
      BY <2>b, <2>2, <1>0, <2>3, <2>4 DEF TakeOffer, DHCP_run, LeaseStays,
         AddressKnown, InAttempt
    <2>c. CASE TakeAck(m)
      BY <2>c, <2>2, <1>0, <2>3, <2>4 DEF TakeAck, DHCP_run, LeaseStays,
         AddressKnown, InAttempt
    <2>d. CASE TakeNak(m)
      BY <2>d, <2>2, <1>0, <2>3, <2>4 DEF TakeNak, DHCP_run, LeaseStays,
         AddressKnown, InAttempt
    <2>e. CASE Wait(m)
      BY <2>e, <2>2, <1>0, <2>3, <2>4 DEF Wait, check_DHCP_timeout, DHCP_run,
         LeaseStays, AddressKnown, InAttempt
    <2>f. CASE Resend(m)
      BY <2>f, <2>2, <1>0, <2>3, <2>4 DEF Resend, check_DHCP_timeout, DHCP_run,
         LeaseStays, AddressKnown, InAttempt
    <2>g. CASE GiveUp(m)
      BY <2>g, <2>2, <1>0, <2>3, <2>4 DEF GiveUp, check_DHCP_timeout, DHCP_run,
         LeaseStays, AddressKnown, InAttempt
    <2>h. CASE KeepLease(m)
      BY <2>h, <2>2, <1>0, <2>3, <2>4 DEF KeepLease, ReportLease, DHCP_run,
         LeaseStays, AddressKnown, InAttempt
    <2>i. CASE Renew(m)
      BY <2>i, <2>2, <1>0, <2>3, <2>4 DEF Renew, ReportLease, DHCP_run, LeaseStays,
         AddressKnown, InAttempt
    <2>j. CASE Renewed(m)
      BY <2>j, <2>2, <1>0, <2>3, <2>4 DEF Renewed, ReportLease, DHCP_run,
         LeaseStays, AddressKnown, InAttempt
    <2> QED
      BY <2>1, <2>a, <2>b, <2>c, <2>d, <2>e, <2>f, <2>g, <2>h, <2>i, <2>j
  <1>4. CASE SetTimer
    BY <1>4, <1>0 DEF SetTimer, NextTime, caller, parsed, sent, LeaseStays,
       AddressKnown, InAttempt
  <1>5. CASE AddressUnique
    BY <1>5, <1>0 DEF AddressUnique, reset_DHCP_timeout, caller, parsed, sent,
       LeaseStays, AddressKnown, InAttempt
  <1>6. CASE AddressInUse
    BY <1>6, <1>0 DEF AddressInUse, timer, caller, parsed, sent, LeaseStays,
       AddressKnown, InAttempt
  <1>7. CASE Declined
    BY <1>7, <1>0 DEF Declined, reset_DHCP_timeout, StateAfterConflict, caller,
       parsed, sent, LeaseStays, AddressKnown, InAttempt
  <1>8. CASE End
    BY <1>8, <1>0 DEF End, timer, parsed, sent, LeaseStays, AddressKnown, InAttempt
  <1>9. CASE UNCHANGED vars
    BY <1>9, <1>0 DEF vars, timer, caller, parsed, sent, LeaseStays, AddressKnown,
       InAttempt
  <1> QED
    BY <1>1, <1>2, <1>3, <1>4, <1>5, <1>6, <1>7, <1>8, <1>9 DEF Next, Work

\* No two seconds pass without a body, which reports the lease.
LEMMA LeaseSeenPreserved ==
  ASSUME IInv, [Next]_vars
  PROVE  LeaseSeen'
  <1>0. /\ TypeOK /\ LeaseSeen /\ AddressKnown
        /\ elapsed \in Nat /\ leasedAt \in Nat
        /\ leased \in BOOLEAN /\ turned \in BOOLEAN
    BY DEF IInv, TypeOK
  <1>1. CASE Second
    BY <1>1, <1>0 DEF Second, SecondMayPass, DHCP_time_handler, caller, parsed,
       LeaseSeen, AddressKnown
  <1>2. CASE \E seconds \in Windows : Start(seconds)
    <2>1. PICK seconds \in Windows : Start(seconds)  BY <1>2
    <2> QED  BY <2>1, <1>0, Numbers DEF Start, reset_DHCP_timeout, parsed, sent,
                LeaseSeen, AddressKnown
  <1>3. CASE Body
    <2>1. PICK m \in Messages :
             \/ Discover(m) \/ TakeOffer(m) \/ TakeAck(m) \/ TakeNak(m)
             \/ Wait(m) \/ Resend(m) \/ GiveUp(m)
             \/ KeepLease(m) \/ Renew(m) \/ Renewed(m)
      BY <1>3, BodyCases
    <2>2. /\ pc = "loop" /\ elapsed <= window
          /\ elapsed' = elapsed /\ window' = window /\ turned' = TRUE
          /\ heard \subseteq heard'
          /\ options' \in Servers \cup {Zero}
          /\ options' = options \/ options' \in heard'
      BY <1>3, <1>0, BodyFacts
    <2>a. CASE Discover(m)
      BY <2>a, <2>2, <1>0 DEF Discover, DHCP_run, LeaseSeen, AddressKnown
    <2>b. CASE TakeOffer(m)
      BY <2>b, <2>2, <1>0 DEF TakeOffer, DHCP_run, LeaseSeen, AddressKnown
    <2>c. CASE TakeAck(m)
      BY <2>c, <2>2, <1>0 DEF TakeAck, DHCP_run, LeaseSeen, AddressKnown
    <2>d. CASE TakeNak(m)
      BY <2>d, <2>2, <1>0 DEF TakeNak, DHCP_run, LeaseSeen, AddressKnown
    <2>e. CASE Wait(m)
      BY <2>e, <2>2, <1>0 DEF Wait, check_DHCP_timeout, DHCP_run, LeaseSeen,
         AddressKnown
    <2>f. CASE Resend(m)
      BY <2>f, <2>2, <1>0 DEF Resend, check_DHCP_timeout, DHCP_run, LeaseSeen,
         AddressKnown
    <2>g. CASE GiveUp(m)
      BY <2>g, <2>2, <1>0 DEF GiveUp, check_DHCP_timeout, DHCP_run, LeaseSeen,
         AddressKnown
    <2>h. CASE KeepLease(m)
      BY <2>h, <2>2, <1>0 DEF KeepLease, ReportLease, DHCP_run, LeaseSeen,
         AddressKnown
    <2>i. CASE Renew(m)
      BY <2>i, <2>2, <1>0 DEF Renew, ReportLease, DHCP_run, LeaseSeen, AddressKnown
    <2>j. CASE Renewed(m)
      BY <2>j, <2>2, <1>0 DEF Renewed, ReportLease, DHCP_run, LeaseSeen, AddressKnown
    <2> QED
      BY <2>1, <2>a, <2>b, <2>c, <2>d, <2>e, <2>f, <2>g, <2>h, <2>i, <2>j
  <1>4. CASE SetTimer
    BY <1>4, <1>0 DEF SetTimer, NextTime, caller, parsed, sent, LeaseSeen,
       AddressKnown
  <1>5. CASE AddressUnique
    BY <1>5, <1>0 DEF AddressUnique, reset_DHCP_timeout, caller, parsed, sent,
       LeaseSeen, AddressKnown
  <1>6. CASE AddressInUse
    BY <1>6, <1>0 DEF AddressInUse, timer, caller, parsed, sent, LeaseSeen,
       AddressKnown
  <1>7. CASE Declined
    BY <1>7, <1>0 DEF Declined, reset_DHCP_timeout, StateAfterConflict, caller,
       parsed, sent, LeaseSeen, AddressKnown
  <1>8. CASE End
    BY <1>8, <1>0 DEF End, timer, parsed, sent, LeaseSeen, AddressKnown
  <1>9. CASE UNCHANGED vars
    BY <1>9, <1>0 DEF vars, timer, caller, parsed, sent, LeaseSeen, AddressKnown
  <1> QED
    BY <1>1, <1>2, <1>3, <1>4, <1>5, <1>6, <1>7, <1>8, <1>9 DEF Next, Work

LEMMA Preserved ==
  ASSUME IInv, [Next]_vars
  PROVE  IInv'
  <1>1. TypeOK'  BY TypePreserved DEF IInv
  <1> QED
    BY <1>1, RetriesTakeTimePreserved, WaitsBoundedPreserved, DiscoverAgePreserved,
       AddressKnownPreserved, LeaseStaysPreserved, LeaseSeenPreserved DEF IInv

LEMMA InitInvariant == Init => IInv
  <1> SUFFICES ASSUME Init PROVE IInv  OBVIOUS
  <1>1. TypeOK  BY InitType
  <1>2. RetriesTakeTime /\ WaitsBounded /\ DiscoverAge
    BY Numbers DEF Init, RetriesTakeTime, WaitsBounded, DiscoverAge, InAttempt
  <1>3. AddressKnown /\ LeaseStays /\ LeaseSeen
    BY Numbers DEF Init, AddressKnown, LeaseStays, LeaseSeen, InAttempt
  <1> QED  BY <1>1, <1>2, <1>3 DEF IInv

LEMMA Invariance == Spec => []IInv
  BY InitInvariant, Preserved, PTL DEF Spec

-----------------------------------------------------------------------------
(***************************************************************************)
(* Theorems.                                                               *)
(***************************************************************************)

\* The variables of the client keep their types; dhcp_tick_next is at most one
\* interrupt late.
THEOREM TypeCorrect == Spec => []TypeOK
  <1>1. IInv => TypeOK  BY DEF IInv
  <1> QED  BY <1>1, Invariance, PTL

\* With leases longer than twice the window, the address wiz_get_dhcp_ip reports
\* was requested, and is the one that was tested and set in the chip.
THEOREM LeasedAddressIsTested == Spec => []LeasedIsTested
  <1>1. ASSUME IInv PROVE LeasedIsTested
    <2> SUFFICES ASSUME leased, LongLeases
                 PROVE  /\ DHCP_allocated_ip # Zero
                        /\ pc # "main" => DHCP_allocated_ip = SIPR
                        /\ \E r \in requests : r.ip = DHCP_allocated_ip
      BY DEF LeasedIsTested
    <2>1. DHCP_allocated_ip \in Servers /\ Requested(DHCP_allocated_ip)
      BY <1>1 DEF IInv, LeaseStays
    <2>2. pc # "main" => DHCP_allocated_ip = SIPR
      BY <1>1 DEF IInv, LeaseStays, AddressKnown, InAttempt
    <2> QED  BY <2>1, <2>2, Numbers DEF Requested
  <1> QED  BY <1>1, Invariance, PTL

\* A window shorter than the repetitions take ends before they are used up.
THEOREM RetriesOutlastWindow == Spec => []RetriesLast
  <1>1. ASSUME IInv PROVE RetriesLast
    <2>1. dhcp_retry_count \in 0..2 /\ window \in Nat
      BY <1>1, Numbers DEF IInv, TypeOK, MAX_DHCP_RETRY
    <2> QED
      BY <1>1, <2>1 DEF IInv, RetriesLast, RetriesTakeTime, InAttempt, MAX_DHCP_RETRY,
                        DHCP_WAIT_TIME
  <1> QED  BY <1>1, Invariance, PTL

\* wiz_get_dhcp_ip outlasts its window by the waits of one conflict at most.
THEOREM AttemptIsBounded == Spec => []AttemptBounded
  <1>1. ASSUME IInv PROVE AttemptBounded
    <2>1. elapsed \in Nat /\ window \in Nat /\ ArpTicks \in Nat
      BY <1>1, Numbers DEF IInv, TypeOK
    <2> QED  BY <1>1, <2>1 DEF IInv, AttemptBounded, WaitsBounded, TypeOK
  <1> QED  BY <1>1, Invariance, PTL

\* DHCP_DISCOVER is repeated after DHCP_WAIT_TIME seconds at the earliest.
THEOREM DiscoverIsPatient == Spec => PatientDiscover
  <1> DEFINE Step == pc' = "timer" /\ pc # "timer" /\ dhcp_state = "DISCOVER"
                       => sinceDiscover >= DHCP_WAIT_TIME
  <1>1. ASSUME IInv, [Next]_vars PROVE [Step]_vars
    <2> SUFFICES ASSUME pc' = "timer", pc # "timer", dhcp_state = "DISCOVER"
                 PROVE  sinceDiscover >= DHCP_WAIT_TIME
      OBVIOUS
    <2>1. Body
      BY <1>1 DEF Next, Work, Second, Start, SetTimer, AddressUnique, AddressInUse,
         Declined,
                  End, vars
    <2>2. PICK m \in Messages : Resend(m)
      BY <2>1 DEF Body, Discover, TakeOffer, TakeAck, TakeNak, Wait, GiveUp,
         KeepLease, Renew,
                  Renewed, DHCP_run, check_DHCP_timeout, Runs
    <2>3. pc = "loop" /\ dhcp_tick_next < dhcp_tick_1s
      BY <2>2 DEF Resend, check_DHCP_timeout, DHCP_run, Runs, Expired
    <2> QED
      BY <1>1, <2>3 DEF IInv, TypeOK, DiscoverAge, Long, DHCP_WAIT_TIME
  <1> QED  BY <1>1, Invariance, PTL DEF Spec, PatientDiscover

\* A lease that began with more than a second left is reported.
THEOREM LeaseIsReported == Spec => LeaseReported
  <1> DEFINE Step == pc = "loop" /\ pc' = "main" /\ dhcp_state = "LEASED"
                       /\ leasedAt + 1 < window => leased
  <1>1. ASSUME IInv, [Next]_vars PROVE [Step]_vars
    <2> SUFFICES ASSUME pc = "loop", pc' = "main", dhcp_state = "LEASED",
                        leasedAt + 1 < window
                 PROVE  leased
      OBVIOUS
    <2>1. End
      BY <1>1 DEF Next, Work, Body, Second, Start, SetTimer, AddressUnique,
         AddressInUse,
                  Declined, Discover, TakeOffer, TakeAck, TakeNak, Wait, Resend, GiveUp,
                  KeepLease, Renew, Renewed, check_DHCP_timeout, vars
    <2>2. elapsed \in Nat /\ window \in Nat /\ leasedAt \in Nat
      BY <1>1, Numbers DEF IInv, TypeOK
    <2> QED  BY <1>1, <2>1, <2>2 DEF End, IInv, LeaseSeen
  <1> QED  BY <1>1, Invariance, PTL DEF Spec, LeaseReported
-----------------------------------------------------------------------------
(***************************************************************************)
(* What the caller of wiz_set_dhcp_ip may rely on (CommUdp and TcpClient   *)
(* take it that the chip has an address after OP_DHCP).                    *)
(***************************************************************************)

\* Every lease time seen so far is long against all the windows there may be.
LeasesLong == \A s \in heard, w \in Windows : Lease[s] \div 2 > w

\* netinfo keeps the static address until a lease is reported, and after that an
\* address that was asked for; 0.0.0.0 never gets into it.
NetinfoUsable ==
  LeasesLong =>
    /\ netinfo.ip # Zero
    /\ netinfo.ip # Static => netinfo.ip \in Servers /\ Requested(netinfo.ip)

\* An attempt that is over left netinfo's address in the chip, whether or not
\* it found a server.
ChipHasNetinfo == pc = "main" /\ dhcp_state = "STOP" => SIPR = netinfo.ip

WindowChosen == InAttempt => window \in Windows

AddressSet == NetinfoUsable /\ ChipHasNetinfo /\ WindowChosen

LEMMA AddressSetPreserved ==
  ASSUME IInv, AddressSet, [Next]_vars
  PROVE  AddressSet'
  <1>h. heard \subseteq heard'
    BY DEF Next, Work, Body, Discover, TakeOffer, TakeAck, TakeNak, Wait, Resend,
       GiveUp, check_DHCP_timeout, KeepLease, Renew, Renewed, DHCP_run, parseDHCPMSG,
       Second, Start, SetTimer, AddressUnique, AddressInUse, Declined, End, parsed,
       vars
  <1>l. LeasesLong' => LeasesLong
    BY <1>h DEF LeasesLong
  <1>r. requests \subseteq requests'
    BY DEF Next, Work, Body, Discover, TakeOffer, TakeAck, TakeNak, Wait, Resend,
       GiveUp, check_DHCP_timeout, KeepLease, Renew, Renewed, DHCP_run, sent,
       send_DHCP_DISCOVER, send_DHCP_REQUEST,
       Second, Start, SetTimer, AddressUnique, AddressInUse, Declined, End, vars
  <1>1. CASE End
    <2>1. SIPR' = netinfo'.ip /\ pc' = "main" /\ UNCHANGED <<heard, window>>
      BY <1>1 DEF End, parsed
    <2>2. ASSUME leased, LeasesLong' PROVE NetinfoUsable'
      <3>1. window \in Windows
        BY <1>1 DEF AddressSet, WindowChosen, InAttempt, End
      <3>2. LongLeases
        BY <1>l, <2>2, <3>1 DEF LeasesLong, LongLeases
      <3>3. DHCP_allocated_ip \in Servers /\ Requested(DHCP_allocated_ip)
        BY <2>2, <3>2 DEF IInv, LeaseStays
      <3>4. netinfo'.ip = DHCP_allocated_ip
        BY <1>1, <2>2 DEF End
      <3> QED  BY <1>r, <3>3, <3>4, Numbers DEF NetinfoUsable, Requested
    <2>3. CASE ~leased
      <3>1. netinfo' = netinfo  BY <1>1, <2>3 DEF End
      <3> QED
        BY <1>l, <1>r, <2>1, <3>1 DEF AddressSet, NetinfoUsable, ChipHasNetinfo,
           WindowChosen, InAttempt, Requested
    <2> QED
      BY <2>1, <2>2, <2>3 DEF AddressSet, NetinfoUsable, ChipHasNetinfo,
         WindowChosen, InAttempt
  <1>2. CASE ~End
    <2>1. netinfo' = netinfo
      BY <1>2 DEF Next, Work, Body, Discover, TakeOffer, TakeAck, TakeNak, Wait,
         Resend, GiveUp, check_DHCP_timeout, KeepLease, Renew, Renewed, DHCP_run,
         Second, Start, SetTimer, AddressUnique, AddressInUse, Declined, caller, vars
    <2>2. NetinfoUsable'
      BY <1>l, <1>r, <2>1 DEF AddressSet, NetinfoUsable, Requested
    <2>3. pc' = "main" => UNCHANGED <<pc, dhcp_state, SIPR>>
      BY <1>2 DEF Next, Work, Body, Discover, TakeOffer, TakeAck, TakeNak, Wait,
         Resend, GiveUp, check_DHCP_timeout, KeepLease, Renew, Renewed, DHCP_run,
         Runs, Second, SecondMayPass, Start, SetTimer, AddressUnique, AddressInUse,
         Declined, vars
    <2>4. WindowChosen'
      <3>1. CASE \E seconds \in Windows : Start(seconds)
        BY <3>1 DEF Start, WindowChosen
      <3>2. CASE ~\E seconds \in Windows : Start(seconds)
        <4>1. window' = window /\ (InAttempt' => InAttempt)
          BY <1>2, <3>2 DEF InAttempt, Next, Work, Body, Discover, TakeOffer,
             TakeAck, TakeNak, Wait, Resend, GiveUp, check_DHCP_timeout, KeepLease,
             Renew, Renewed, DHCP_run, Runs, Second, SecondMayPass, SetTimer,
             AddressUnique, AddressInUse, Declined, caller, vars
        <4> QED  BY <4>1 DEF AddressSet, WindowChosen
      <3> QED  BY <3>1, <3>2
    <2> QED
      BY <2>1, <2>2, <2>3, <2>4 DEF AddressSet, ChipHasNetinfo
  <1> QED  BY <1>1, <1>2

\* After OP_DHCP the chip has an address that is not 0.0.0.0: the one just leased,
\* the one of an earlier lease, or the static one - with leases longer than twice
\* the window, whatever the servers say and whenever they say it.
THEOREM DhcpSetsAddress ==
  Spec => [](LeasesLong /\ pc = "main" /\ dhcp_state = "STOP" =>
               SIPR # Zero /\ (SIPR # Static => Requested(SIPR)))
  <1>1. Init => AddressSet
    BY Numbers DEF Init, AddressSet, NetinfoUsable, ChipHasNetinfo, WindowChosen,
       InAttempt, Zero, Static
  <1>2. AddressSet =>
          (LeasesLong /\ pc = "main" /\ dhcp_state = "STOP" =>
             SIPR # Zero /\ (SIPR # Static => Requested(SIPR)))
    BY DEF AddressSet, NetinfoUsable, ChipHasNetinfo
  <1> QED  BY <1>1, <1>2, Invariance, AddressSetPreserved, PTL DEF Spec
=============================================================================
