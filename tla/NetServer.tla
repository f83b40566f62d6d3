----------------------------- MODULE NetServer -----------------------------
(***************************************************************************)
(* Task NET of 25-osfs11 (net/main.c) with the protocols it speaks: ARP    *)
(* (net/arp.c), IP and ICMP echo (net/ip.c), UDP and DNS (net/dns.c).      *)
(*                                                                         *)
(* A turn of a wait loop (the condition, net_poll(), the deadline, the     *)
(* delay) takes one unit of time.  An answer that is on the wire may come  *)
(* in any later turn, or never.                                            *)
(***************************************************************************)
EXTENDS Integers, Sequences, FiniteSets

CONSTANTS
  Host, NET_GW, NET_DNS,  \* the addresses of the subnet
  Outside,                \* one behind the gateway
  NoIp,
  Answering,              \* hosts that are up
  PingTo,                 \* the addresses the client pings
  Client, TASK_TTY,       \* the task that calls NET; process 0
  ARP_TABLE_MAX, ARP_RETRY_TICKS, ARP_TIMEOUT, PING_TIMEOUT, DNS_TIMEOUT, PING_MAX

ALL_ONES == 3             \* 0xFFFF
ASSUME NetAssumption ==
  /\ {NET_GW, NET_DNS} \cup Answering \subseteq Host /\ PingTo \subseteq Host \cup {Outside} /\ {NoIp, Outside} \cap Host = {}
  /\ ARP_TABLE_MAX \in Nat \ {0} /\ PING_MAX \in Nat \ {0}
  /\ ARP_RETRY_TICKS \in Nat /\ ARP_TIMEOUT \in Nat /\ PING_TIMEOUT \in Nat /\ DNS_TIMEOUT \in Nat
  \* HZ / 2 (arp.c:20) and 2 * HZ (main.c:32): a wait is longer than two retry times
  /\ ARP_TIMEOUT > 2 * ARP_RETRY_TICKS

VARIABLES
  arp_table,           \* the address in each entry
  pending, pending_ip, \* the outstanding ARP request
  age,                 \* now - pending_since, up to the retry time
  srvPc, netReq,       \* where NET is, and the request it serves
  left,                \* units to the deadline of the wait loop
  seq, received,       \* icmp_seq, and the replies counted
  ping, dns,           \* flags set by ip_input(): ping_replied, ping_reply_seq; dns_done, dns_ok
  resent,
  wire,                \* frames that may still arrive
  waitsFor, answer,    \* Client is in sendrec(); to whom NET replied last, and what
  sends                \* requests or queries sent for the wait that is on
netSrvVars == <<arp_table, pending, pending_ip, age, srvPc, netReq, left, seq, received,
                ping, dns, resent, wire, waitsFor, answer, sends>>

NetRequests == [type : {"PING"}, to : PingTo, count : {PING_MAX}]
               \cup [type : {"RESOLVE"}, to : {NET_DNS}, count : {0}]
NoNetReq == [type |-> "none", to |-> NoIp, count |-> 0]
NoAnswer == [to |-> NoIp, value |-> 0]
ip_next_hop(dst) == IF dst \in Host THEN dst ELSE NET_GW
Hop == ip_next_hop(netReq.to)
Known(ip) == \E i \in 1 .. ARP_TABLE_MAX : arp_table[i] = ip

(***************************************************************************)
(* ARP.  A free entry is taken, or else the first one.                     *)
(***************************************************************************)
arp_learn(ip) ==
  LET free == {i \in 1 .. ARP_TABLE_MAX : arp_table[i] = NoIp}
      victim == IF free = {} THEN 1 ELSE CHOOSE i \in free : \A j \in free : i <= j
  IN  IF Known(ip) THEN arp_table ELSE [arp_table EXCEPT ![victim] = ip]

\* Mutation: while a request is pending no other is sent.
MayAskOnce == ~ pending
MayAsk == ~ pending \/ age > ARP_RETRY_TICKS
ArpReply(ip) == [kind |-> "arp", from |-> ip, seq |-> 0]
Echo(ip, k)  == [kind |-> "echo", from |-> ip, seq |-> k]
DnsAnswer    == [kind |-> "dns", from |-> NET_DNS, seq |-> 0]
FromUp(frame) == IF frame.from \in Answering \cup {Outside} THEN {frame} ELSE {}

\* arp_lookup(ip) that misses: ask, unless another request is too young
ArpMiss(ip) ==
  IF MayAsk
    THEN /\ pending' = TRUE /\ pending_ip' = ip /\ age' = 0
         /\ wire' = wire \cup FromUp(ArpReply(ip))
    ELSE UNCHANGED <<pending, pending_ip, age, wire>>
Asked(ip) == IF MayAsk THEN 1 ELSE 0

\* ip_send(): nothing leaves if the next hop is not known
ip_send(dst, reply) ==
  IF Known(ip_next_hop(dst))
    THEN wire' = wire \cup FromUp(reply) /\ UNCHANGED <<pending, pending_ip, age>>
    ELSE ArpMiss(ip_next_hop(dst))

(***************************************************************************)
(* Requests.                                                               *)
(***************************************************************************)
ReceiveNet(r) ==
  /\ srvPc = "receive" /\ ~ waitsFor
  /\ waitsFor' = TRUE /\ netReq' = r /\ seq' = 0 /\ received' = 0 /\ sends' = 0
  /\ answer' = NoAnswer /\ srvPc' = IF r.type = "PING" THEN "arp_lookup" ELSE "dns_resolve"
  /\ UNCHANGED <<arp_table, pending, pending_ip, age, left, ping, dns, resent, wire>>

Finish(value) == srvPc' = "reply" /\ answer' = [to |-> NoIp, value |-> value]
\* Mutation: a wait loop does not look at its deadline.
ExpiredNever == FALSE
Expired == left < 0

\* net_do_ping(): the next hop first
arp_lookup ==
  /\ srvPc = "arp_lookup"
  /\ IF Known(Hop) THEN srvPc' = "icmp_ping" /\ UNCHANGED <<pending, pending_ip, age, wire, left, sends>>
     ELSE ArpMiss(Hop) /\ sends' = sends + Asked(Hop) /\ left' = ARP_TIMEOUT /\ srvPc' = "cond_arp"
  /\ UNCHANGED <<arp_table, netReq, seq, received, ping, dns, resent, waitsFor, answer>>
cond_arp ==
  /\ srvPc = "cond_arp"
  /\ IF Known(Hop) THEN srvPc' = "icmp_ping" /\ UNCHANGED <<pending, pending_ip, age, wire, sends>>
     ELSE ArpMiss(Hop) /\ sends' = sends + Asked(Hop) /\ srvPc' = "poll"
  /\ UNCHANGED <<arp_table, netReq, left, seq, received, ping, dns, resent, waitsFor, answer>>

icmp_ping ==
  /\ srvPc = "icmp_ping"
  /\ IF seq = netReq.count
       THEN Finish(received) /\ UNCHANGED <<pending, pending_ip, age, wire, seq, left, ping>>
       ELSE /\ seq' = seq + 1 /\ ping' = [replied |-> FALSE, seq |-> 0]
            /\ ip_send(netReq.to, Echo(netReq.to, seq + 1))
            /\ left' = PING_TIMEOUT /\ srvPc' = "cond_ping" /\ UNCHANGED answer
  /\ UNCHANGED <<arp_table, netReq, received, dns, resent, waitsFor, sends>>
cond_ping ==
  /\ srvPc = "cond_ping"
  /\ IF ping.replied
       THEN srvPc' = "icmp_ping" /\ received' = received + IF ping.seq = seq THEN 1 ELSE 0
       ELSE srvPc' = "poll" /\ UNCHANGED received
  /\ UNCHANGED <<arp_table, pending, pending_ip, age, netReq, left, seq, ping, dns, resent, wire,
                 waitsFor, answer, sends>>

dns_resolve ==
  /\ srvPc = "dns_resolve"
  /\ dns' = [done |-> FALSE, ok |-> FALSE] /\ resent' = FALSE /\ left' = DNS_TIMEOUT
  /\ ip_send(NET_DNS, DnsAnswer)
  /\ IF Known(NET_DNS) THEN srvPc' = "cond_dns" /\ sends' = 1 /\ UNCHANGED answer
     ELSE Finish(-1) /\ UNCHANGED sends
  /\ UNCHANGED <<arp_table, netReq, seq, received, ping, waitsFor>>
cond_dns ==
  /\ srvPc = "cond_dns"
  /\ IF dns.done THEN Finish(IF dns.ok THEN 0 ELSE -1) ELSE srvPc' = "poll" /\ UNCHANGED answer
  /\ UNCHANGED <<arp_table, pending, pending_ip, age, netReq, left, seq, received, ping, dns,
                 resent, wire, waitsFor, sends>>

(***************************************************************************)
(* net_poll(): frames are dispatched.  checksum() gives the complement of  *)
(* the folded sum; a header that is intact sums to all ones.               *)
(***************************************************************************)
checksum(sum) == ALL_ONES - sum
HeaderAccepted(sum) == checksum(sum) = ALL_ONES
icmp_input(f) == [replied |-> TRUE, seq |-> f.seq]
dns_input(f, ok) == [done |-> TRUE, ok |-> ok]
ip_input(f, ok) ==
  IF ~ HeaderAccepted(ALL_ONES) THEN UNCHANGED <<ping, dns>>
  ELSE /\ ping' = IF f.kind = "echo" THEN icmp_input(f) ELSE ping
       /\ dns' = IF f.kind = "dns" THEN dns_input(f, ok) ELSE dns

ArpInput(f) ==    \* a reply
  /\ srvPc = "poll" /\ f \in wire /\ f.kind = "arp" /\ wire' = wire \ {f}
  /\ arp_table' = arp_learn(f.from) /\ pending' = (pending /\ f.from # pending_ip)
  /\ UNCHANGED <<pending_ip, age, srvPc, netReq, left, seq, received, ping, dns, resent, waitsFor, answer, sends>>
ArpRequest(ip) == \* somebody asks for our address, and is told
  /\ srvPc = "poll" /\ ip \in Answering /\ arp_table' = arp_learn(ip)
  /\ UNCHANGED <<pending, pending_ip, age, srvPc, netReq, left, seq, received, ping, dns, resent, wire,
                 waitsFor, answer, sends>>
IpInput(f, ok) ==
  /\ srvPc = "poll" /\ f \in wire /\ f.kind # "arp" /\ (f.kind = "echo" => ok) /\ wire' = wire \ {f}
  /\ ip_input(f, ok)
  /\ UNCHANGED <<arp_table, pending, pending_ip, age, srvPc, netReq, left, seq, received, resent,
                 waitsFor, answer, sends>>

Waiting == IF netReq.type = "RESOLVE" THEN "cond_dns" ELSE IF seq = 0 THEN "cond_arp" ELSE "cond_ping"
Later == IF age > ARP_RETRY_TICKS THEN age ELSE age + 1
\* the deadline, the query repeated at half time, and the delay
NetTurn ==
  /\ srvPc = "poll"
  /\ IF Expired
       THEN /\ IF Waiting = "cond_ping" THEN srvPc' = "icmp_ping" /\ UNCHANGED answer ELSE Finish(-1)
            /\ UNCHANGED <<pending, pending_ip, age, wire, left, resent, sends>>
       ELSE /\ srvPc' = Waiting /\ left' = (IF left < 0 THEN left ELSE left - 1) /\ UNCHANGED answer
            /\ IF Waiting = "cond_dns" /\ ~ resent /\ left <= DNS_TIMEOUT \div 2
                 THEN /\ ip_send(NET_DNS, DnsAnswer) /\ resent' = TRUE
                      /\ sends' = sends + IF Known(NET_DNS) THEN 1 ELSE 0
                 ELSE age' = Later /\ UNCHANGED <<pending, pending_ip, wire, resent, sends>>
  /\ UNCHANGED <<arp_table, netReq, seq, received, ping, dns, waitsFor>>

\* net_do_resolve()'s answer is cleared with the rest of the message before
\* it is sent, and with it the source it is sent to
Replied == IF netReq.type = "RESOLVE" THEN [to |-> TASK_TTY, value |-> 0] ELSE [answer EXCEPT !.to = Client]
ReplyNet ==
  /\ srvPc = "reply" /\ srvPc' = "receive" /\ netReq' = NoNetReq
  /\ answer' = Replied /\ waitsFor' = (Replied.to # Client)
  /\ UNCHANGED <<arp_table, pending, pending_ip, age, left, seq, received, ping, dns, resent, wire, sends>>

NetInit ==
  /\ arp_table = [i \in 1 .. ARP_TABLE_MAX |-> NoIp]
  /\ pending = FALSE /\ pending_ip = NoIp /\ age = 0
  /\ srvPc = "receive" /\ netReq = NoNetReq /\ left = 0 /\ seq = 0 /\ received = 0
  /\ ping = [replied |-> FALSE, seq |-> 0] /\ dns = [done |-> FALSE, ok |-> FALSE] /\ resent = FALSE
  /\ wire = {} /\ waitsFor = FALSE /\ answer = NoAnswer /\ sends = 0
NetTask == arp_lookup \/ cond_arp \/ icmp_ping \/ cond_ping \/ dns_resolve \/ cond_dns \/ ReplyNet
NetNext ==
  \/ \E r \in NetRequests : ReceiveNet(r)
  \/ NetTask \/ NetTurn
  \/ \E f \in wire : ArpInput(f)
  \/ \E f \in wire, ok \in BOOLEAN : IpInput(f, ok)
  \/ \E ip \in Host : ArpRequest(ip)
\* NET is scheduled, and the frames of a turn come to an end
NetFairness == WF_netSrvVars(NetTask) /\ SF_netSrvVars(NetTurn)
NetSpec == NetInit /\ [][NetNext]_netSrvVars /\ NetFairness
-----------------------------------------------------------------------------
(* Properties *)

(* The ARP table holds no address twice, whoever spoke first: a request    *)
(* that came, an answer, an answer to a request that was repeated.         *)
OneEntryPerHost ==
  \A i, j \in 1 .. ARP_TABLE_MAX : i # j /\ arp_table[i] = arp_table[j] => arp_table[i] = NoIp

(* A lost frame cannot wedge a look-up (arp.c:124): NET gives up only      *)
(* after it asked for this very address twice, although there is one       *)
(* pending request for all addresses and it may have been for another.  A  *)
(* query that left and timed out has been tried again (dns.c:243-248).     *)
GivesUpAfterRetry ==
  srvPc = "reply" /\ answer.value = -1 =>
    IF netReq.type = "PING" THEN sends >= 2 ELSE sends = 0 \/ resent \/ dns.done

(* A look-up does not give up too early, and leaves the table in order     *)
(* (arp.c:100-140, dns.c:243-248).                                         *)
RequestsServed == OneEntryPerHost /\ GivesUpAfterRetry

(* Every request is served in the end, whatever is lost.                   *)
NetReturns == srvPc # "receive" ~> srvPc = "receive"
=============================================================================
