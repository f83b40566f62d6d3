------------------------------- MODULE NoxisNet -------------------------------
(* The network of noxis (23-fixes): the NE2000 driver and its interrupt       *)
(* (net/ne2000.c), ARP, IP and ICMP (net/arp.c, ip.c, net.c), and the shell   *)
(* command PING, which does the polling.  PING runs inside the keyboard       *)
(* interrupt, so with interrupts off until ne2000_send()'s sti; keys typed    *)
(* meanwhile are not modelled.  A frame is <<kind, host, number>>; frames     *)
(* with bad lengths or checksums count as "stray".                            *)
(* External: the card, and the hosts, which answer late, twice or not at all. *)
EXTENDS Naturals, Sequences

CONSTANTS
  NxHost,        \* the hosts of our subnet
  net_gw,        \* the gateway, one of them
  NxFar,         \* addresses elsewhere
  NxAsking,      \* hosts that ask for our MAC and ping us
  NX_CARD,       \* frames the card's ring holds
  NX_SW_RING,    \* slots of the software ring
  NX_DRAIN,      \* frames drained per interrupt (32)
  NX_ARP_MAX,    \* slots of the ARP table
  NX_RETRY,      \* ticks before a request is repeated (25)
  NX_ARP_WAIT,   \* ticks PING waits for a MAC (100)
  NX_ECHO_WAIT,  \* ticks PING waits for an answer (50)
  NX_SEQS,       \* echoes per PING (4)
  MaxCommands, MaxArrivals

ASSUME NoxisNetAssumption ==
  /\ net_gw \in NxHost /\ NxHost \cap NxFar = {} /\ NxAsking \subseteq NxHost
  /\ {NX_CARD, NX_DRAIN, NX_ARP_MAX, NX_RETRY, NX_ARP_WAIT, NX_ECHO_WAIT, NX_SEQS,
      MaxCommands, MaxArrivals} \subseteq Nat \ {0}
  /\ NX_SW_RING \in Nat \ {0, 1}
  /\ "none" \notin NxHost

VARIABLES
  nic_present,
  air,           \* frames that hosts may still send us, once or more
  card,          \* the card's ring: <<arrival number, frame>>
  prx,           \* ISR_PRX
  irq,           \* 0: not in ne2000_irq(); n > 0: its n-th turn
  sw_ring, sw_head, sw_tail,
  arp,           \* [table, pending, ip, age]: arp.c's variables, the age in ticks
  ifl,           \* the interrupt flag
  nxPc, target, seq, ticks_left, sent, recv,    \* cmd_ping()
  got_reply, reply_seq,                               \* ping_got_reply, ping_reply_seq
  arrived, rx_packets, rx_dropped, polled,      \* polled, ...
  fresh, transmitted, asked, commands           \* ... and these: history

cardVars == <<air, card, prx, arrived>>
ringVars == <<sw_ring, sw_head, sw_tail, rx_packets, rx_dropped, irq>>
replyVars == <<got_reply, reply_seq, fresh>>
pingVars == <<nxPc, target, seq, ticks_left, sent, recv>>
sendVars == <<arp, ifl, transmitted, asked>>
noxisNetVars == <<nic_present, cardVars, ringVars, replyVars, pingVars, sendVars,
                  polled, commands>>

NoFrame == <<"none", net_gw, 0>>
NxAddress == NxHost \cup NxFar

NoxisNetInit ==
  /\ nic_present \in BOOLEAN
  /\ air = {<<"stray", net_gw, 0>>} \cup {<<k, h, 0>> : k \in {"who-has", "echo"}, h \in NxAsking}
  /\ card = <<>> /\ prx = FALSE /\ irq = 0 /\ arrived = 0
  /\ sw_ring = [i \in 0..(NX_SW_RING - 1) |-> <<0, NoFrame>>]
  /\ sw_head = 0 /\ sw_tail = 0 /\ rx_packets = 0 /\ rx_dropped = 0 /\ polled = 0
  /\ arp = [table |-> [i \in 1..NX_ARP_MAX |-> "none"], pending |-> FALSE,
            ip |-> "none", age |-> 0]
  /\ ifl = TRUE /\ nxPc = "prompt" /\ target = net_gw /\ seq = 1 /\ ticks_left = 0
  /\ sent = 0 /\ recv = 0 /\ got_reply = FALSE /\ reply_seq = 0
  /\ fresh = FALSE /\ transmitted = 0 /\ asked = {} /\ commands = 0

-------------------------------------------------------------------------------
(* Where the code goes on after an interrupt: a hlt is over.                  *)
Woken == CASE nxPc = "arp_hlt" -> "arp" [] nxPc = "echo_hlt" -> "echo" [] OTHER -> nxPc

(* The card and ne2000_irq().                                                 *)
nx_arrives ==
  /\ nic_present /\ arrived < MaxArrivals /\ Len(card) < NX_CARD
  /\ \E f \in air : card' = Append(card, <<arrived + 1, f>>)
  /\ arrived' = arrived + 1 /\ prx' = TRUE
  /\ UNCHANGED <<nic_present, air, ringVars, replyVars, pingVars, sendVars, polled, commands>>

ne2000_irq ==
  /\ prx /\ ifl /\ irq = 0
  /\ irq' = 1
  /\ UNCHANGED <<nic_present, cardVars, sw_ring, sw_head, sw_tail, rx_packets, rx_dropped,
                 replyVars, pingVars, sendVars, polled, commands>>

NextSlot(i) == (i + 1) % NX_SW_RING

RingFull == NextSlot(sw_head) = sw_tail

(* A turn of the loop of drain_card_ring().                                   *)
drain_card_ring ==
  /\ irq \in 1..NX_DRAIN /\ card # <<>>
  /\ IF RingFull
     THEN rx_dropped' = rx_dropped + 1 /\ UNCHANGED <<sw_ring, sw_head, rx_packets>>
     ELSE /\ sw_ring' = [sw_ring EXCEPT ![sw_head] = Head(card)]
          /\ sw_head' = NextSlot(sw_head) /\ rx_packets' = rx_packets + 1
          /\ UNCHANGED rx_dropped
  /\ card' = Tail(card) /\ irq' = irq + 1
  /\ UNCHANGED <<nic_present, air, prx, arrived, sw_tail, replyVars, pingVars, sendVars,
                 polled, commands>>

(* The end of the loop; the bits that were set on entry are acknowledged,     *)
(* also for a frame that has come since.                                      *)
irq_returns ==
  /\ irq > 0 /\ (card = <<>> \/ irq > NX_DRAIN)
  /\ irq' = 0 /\ prx' = FALSE
  /\ nxPc' = Woken
  /\ UNCHANGED <<nic_present, air, card, arrived, sw_ring, sw_head, sw_tail, rx_packets,
                 rx_dropped, replyVars, target, seq, ticks_left, sent, recv, sendVars,
                 polled, commands>>

-------------------------------------------------------------------------------
(* arp.c                                                                      *)
Known(a, ip) == \E i \in DOMAIN a.table : a.table[i] = ip

LearnSlot(a) == IF Known(a, "none")
                THEN CHOOSE i \in DOMAIN a.table :
                       a.table[i] = "none" /\ \A j \in 1..(i - 1) : a.table[j] # "none"
                ELSE 1

Learn(a, ip) == IF Known(a, ip) THEN a ELSE [a EXCEPT !.table[LearnSlot(a)] = ip]

\* Mutation: it is not asked whether a request is in flight at all.
MayAskWhenOld(a) == a.age > NX_RETRY

MayAsk(a) == ~a.pending \/ a.age > NX_RETRY
Asking(a, ip) == IF MayAsk(a) THEN [a EXCEPT !.pending = TRUE, !.ip = ip, !.age = 0] ELSE a

(* The frame is copied to the card between cli and sti, and waited for.       *)
ne2000_send == ifl' = TRUE

(* arp_lookup() that fails: the request goes out, or one is in flight.        *)
AsksArp(a, ip) ==
  /\ arp' = Asking(a, ip)
  /\ IF MayAsk(a) THEN ne2000_send ELSE UNCHANGED ifl
  /\ asked' = IF MayAsk(a) THEN asked \cup {ip} ELSE asked
  /\ air' = IF MayAsk(a) /\ ip \in NxHost THEN air \cup {<<"is-at", ip, 0>>} ELSE air

NextHop(dst) == IF dst \in NxFar THEN net_gw ELSE dst

(* ip_send(); an answer to what is sent may come.                             *)
ip_send(dst, answers) ==
  IF Known(arp, NextHop(dst))
  THEN ne2000_send /\ air' = air \cup answers /\ UNCHANGED <<arp, asked>>
  ELSE AsksArp(arp, NextHop(dst))

arp_input(f) ==
  LET a == Learn(arp, f[2])
  IN /\ \/ f[1] = "who-has" /\ arp' = a /\ ne2000_send
        \/ /\ f[1] = "is-at" /\ UNCHANGED ifl
           /\ arp' = IF a.ip = f[2] THEN [a EXCEPT !.pending = FALSE] ELSE a
     /\ UNCHANGED <<air, asked, replyVars>>

icmp_input(f) ==
  \/ f[1] = "echo" /\ ip_send(f[2], {}) /\ UNCHANGED replyVars
  \/ /\ f[1] = "reply" /\ got_reply' = TRUE /\ reply_seq' = f[3] /\ fresh' = TRUE
     /\ UNCHANGED <<arp, air, asked, ifl>>

ip_input(f) ==
  \/ icmp_input(f)
  \/ f[1] = "stray" /\ UNCHANGED <<arp, air, asked, ifl, replyVars>>

(* A turn of the loop of net_poll().                                          *)
net_poll ==
  /\ irq = 0 /\ nxPc \in {"arp", "echo", "show"} /\ sw_tail # sw_head
  /\ sw_tail' = NextSlot(sw_tail) /\ polled' = sw_ring[sw_tail][1]
  /\ arp_input(sw_ring[sw_tail][2]) \/ ip_input(sw_ring[sw_tail][2])
  /\ UNCHANGED <<nic_present, card, prx, arrived, sw_ring, sw_head, rx_packets, rx_dropped,
                 irq, pingVars, transmitted, commands>>

Polled(l) == irq = 0 /\ nxPc = l /\ sw_tail = sw_head

-------------------------------------------------------------------------------
(* cmd_ping(), typed at the prompt.                                           *)
cmd_ping(ip) ==
  /\ irq = 0 /\ nxPc = "prompt" /\ commands < MaxCommands
  /\ commands' = commands + 1
  /\ IF nic_present
     THEN /\ ifl' = FALSE
          /\ nxPc' = "arp" /\ target' = ip /\ seq' = 1 /\ ticks_left' = NX_ARP_WAIT
          /\ sent' = 0 /\ recv' = 0 /\ transmitted' = 0
     ELSE UNCHANGED <<ifl, pingVars, transmitted>>
  /\ UNCHANGED <<nic_present, cardVars, ringVars, replyVars, arp, asked, polled>>

(* cmd_arp() polls too.                                                       *)
cmd_arp ==
  /\ irq = 0 /\ nxPc = "prompt" /\ commands < MaxCommands /\ nic_present
  /\ commands' = commands + 1 /\ ifl' = FALSE /\ nxPc' = "show"
  /\ UNCHANGED <<nic_present, cardVars, ringVars, replyVars, arp, asked, transmitted, polled,
                 target, seq, ticks_left, sent, recv>>
arp_dump ==
  /\ Polled("show") /\ nxPc' = "prompt" /\ ifl' = TRUE
  /\ UNCHANGED <<nic_present, cardVars, ringVars, replyVars, arp, asked, transmitted, polled,
                 target, seq, ticks_left, sent, recv, commands>>

(* The next turn of the outer loop, or the summary line and the iret.         *)
NextEcho ==
  IF seq = NX_SEQS
  THEN nxPc' = "prompt" /\ ifl' = TRUE /\ UNCHANGED <<seq, ticks_left>>
  ELSE nxPc' = "arp" /\ seq' = seq + 1 /\ ticks_left' = NX_ARP_WAIT /\ UNCHANGED ifl

Hop == IF target \in NxFar THEN net_gw ELSE target

ClearsReply == got_reply' = FALSE /\ fresh' = FALSE /\ UNCHANGED reply_seq

icmp_ping == ip_send(target, {<<"reply", target, seq>>})

(* The MAC is there: the flag is cleared and the echo request goes out, if    *)
(* icmp_ping()'s ip_send() finds the MAC as well.                             *)
ping_sends ==
  /\ Polled("arp") /\ ticks_left > 0 /\ Known(arp, Hop)
  /\ ClearsReply
  /\ icmp_ping
  /\ transmitted' = IF Known(arp, NextHop(target)) THEN transmitted + 1 ELSE transmitted
  /\ sent' = sent + 1 /\ nxPc' = "echo" /\ ticks_left' = NX_ECHO_WAIT
  /\ UNCHANGED <<nic_present, card, prx, arrived, ringVars, target, seq, recv, polled, commands>>

(* No MAC: ask, and hlt.                                                      *)
ping_asks ==
  /\ Polled("arp") /\ ticks_left > 0 /\ ~Known(arp, Hop)
  /\ AsksArp(arp, Hop)
  /\ nxPc' = "arp_hlt"
  /\ UNCHANGED <<nic_present, card, prx, arrived, ringVars, replyVars, transmitted, target,
                 seq, ticks_left, sent, recv, polled, commands>>

Answered == got_reply /\ reply_seq = seq

ping_waits ==
  /\ Polled("echo") /\ ticks_left > 0 /\ ~Answered
  /\ nxPc' = "echo_hlt"
  /\ UNCHANGED <<nic_present, cardVars, ringVars, replyVars, sendVars, target, seq,
                 ticks_left, sent, recv, polled, commands>>

(* "16 bytes from" or "request timeout"; "no ARP response".                   *)
ping_prints ==
  /\ irq = 0
  /\ \/ Polled("echo") /\ (Answered \/ ticks_left = 0)
     \/ nxPc = "arp" /\ ticks_left = 0
  /\ recv' = IF nxPc = "echo" /\ Answered THEN recv + 1 ELSE recv
  /\ NextEcho
  /\ UNCHANGED <<nic_present, cardVars, ringVars, replyVars, arp, asked, transmitted, target,
                 sent, polled, commands>>

(* The timer, where it makes a difference: in hlt and at the prompt.          *)
nx_tick ==
  /\ ifl /\ irq = 0 /\ nxPc \in {"arp_hlt", "echo_hlt", "prompt"}
  /\ arp' = IF arp.age <= NX_RETRY THEN [arp EXCEPT !.age = @ + 1] ELSE arp
  /\ IF nxPc = "prompt" THEN UNCHANGED <<nxPc, ticks_left>>
     ELSE /\ ticks_left' = ticks_left - 1
          /\ nxPc' = Woken
  /\ UNCHANGED <<nic_present, cardVars, ringVars, replyVars, ifl, asked, transmitted, target,
                 seq, sent, recv, polled, commands>>

NoxisNetNext ==
  \/ nx_arrives \/ ne2000_irq \/ drain_card_ring \/ irq_returns \/ net_poll
  \/ (\E ip \in NxAddress : cmd_ping(ip)) \/ cmd_arp \/ arp_dump
  \/ ping_sends \/ ping_asks \/ ping_waits \/ ping_prints \/ nx_tick

-------------------------------------------------------------------------------
Waiting == (sw_head + NX_SW_RING - sw_tail) % NX_SW_RING

(* Every frame the card took is counted as received or dropped or still on    *)
(* the card, and those the stack has yet to see are in the ring, in the order *)
(* of their arrival and after those it has seen, though the interrupt fills   *)
(* the ring while net_poll() empties it (ne2000.c:63-65).                     *)
NxFramesAccounted ==
  /\ arrived = Len(card) + rx_packets + rx_dropped
  /\ Waiting = 0 => sw_ring[(sw_head + NX_SW_RING - 1) % NX_SW_RING][1] = polled
  /\ \A k \in 1..Waiting :
       LET at == (sw_tail + k - 1) % NX_SW_RING
           before == IF k = 1 THEN polled ELSE sw_ring[(sw_tail + k - 2) % NX_SW_RING][1]
       IN before < sw_ring[at][1]

(* No address has two entries, however the table fills and slot 0 is          *)
(* overwritten (arp.c:25-40).                                                 *)
NxOneEntry ==
  \A i, j \in DOMAIN arp.table :
    arp.table[i] = arp.table[j] /\ arp.table[i] # "none" => i = j

(* A request PING counts as transmitted did go out, although icmp_ping()      *)
(* ignores what ip_send() returns (shell.c:385-386, ip.c:152).                *)
SentIsTransmitted == nxPc # "prompt" => sent = transmitted

(* An answer is counted only if it came after the request, also when an       *)
(* earlier PING has left its flags set (shell.c:383, 388-393).                *)
CountedIsFresh == nxPc = "echo" /\ Answered => fresh

(* Only hosts of our own subnet are asked for their MAC (shell.c:364-368).    *)
AsksNeighbours == asked \subseteq NxHost

(* A PING can be left in hlt with interrupts off, for ever, only behind the   *)
(* request of an earlier one (shell.c:374, arp.c:105).                        *)
StuckBehindRequest ==
  nxPc \in {"arp_hlt", "echo_hlt"} /\ ~ifl => arp.pending /\ commands > 1

(* PING counts what went out and what came back, the ring and the table      *)
(* under it lose and repeat nothing, and it hangs in one case only           *)
(* (shell.c:364-393, ne2000.c:63-65, arp.c:25-40).                           *)
PingAccounted ==
  /\ NxFramesAccounted /\ NxOneEntry
  /\ SentIsTransmitted /\ CountedIsFresh /\ AsksNeighbours /\ StuckBehindRequest
===============================================================================
