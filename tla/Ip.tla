--------------------------------- MODULE Ip ---------------------------------
(***************************************************************************)
(* IP (net/ip.c): packets for this host go to UDP or ICMP, others to the   *)
(* next hop, whose Ethernet address ARP has to find; the output process    *)
(* does this for the answers to pings.                                     *)
(***************************************************************************)
EXTENDS Arp, Udp, Icmp

CONSTANT IP_OQSIZ

ASSUME IpAssumption == IP_OQSIZ \in Nat \ {0}

VARIABLES ipoqueue,  \* the output queue: iqbuf, iqhead, iqtail
          iqsem      \* the semaphore that counts it

ipvars == <<arpcache, udptab, icmptab, icstray, ipoqueue, iqsem>>

IqPlaces == 0 .. IP_OQSIZ - 1
IqNext(i) == IF i + 1 >= IP_OQSIZ THEN 0 ELSE i + 1

(* A place of the ring is NoPacket again once ipout has fetched from it;   *)
(* iqbuf keeps the stale pointer. lost counts the packets that others have *)
(* overwritten; stray: ipout has fetched a stale pointer.                  *)
IpInit == /\ ipoqueue = [buf |-> [i \in IqPlaces |-> NoPacket], head |-> 0, tail |-> 0,
                         lost |-> 0, stray |-> FALSE]
          /\ iqsem = Sema(0)
IqUnfetched == Cardinality({i \in IqPlaces : ipoqueue.buf[i] # NoPacket})

(* ip_enqueue: no room, by the count of the semaphore, which does not      *)
(* include the packet that ipout has waited for and not fetched yet        *)
IpFull == iqsem.n >= IP_OQSIZ

IpEnqueue(packet) ==
  LET t == ipoqueue.tail IN
  /\ ipoqueue' = [ipoqueue EXCEPT !.buf[t] = packet, !.tail = IqNext(t),
                    !.lost = @ + IF ipoqueue.buf[t] = NoPacket THEN 0 ELSE 1]
  /\ iqsem' = Up(iqsem)

(* icmp_in on an echo request, when there is a buffer for the answer *)
IcmpAnswer(p, s, packet) ==
  /\ IF IpFull THEN Free(s, 2) /\ UNCHANGED <<ipoqueue, iqsem>>
     ELSE IpEnqueue(IcAnswer(packet)) /\ Free(s, 1)
  /\ Return(p)
  /\ UNCHANGED <<mail, arpcache, udptab, icmptab, icstray>>

IcmpEcho(p, s, packet) ==
  IF Blocks(s) THEN /\ nbsem' = Down(s, p) /\ Goto(p, "answer", -1, packet)
                    /\ UNCHANGED <<mail, ipvars>>
               ELSE IcmpAnswer(p, Down(s, p), packet)

IcmpAnswerLater(p) == NtRuns(p, "answer") /\ IcmpAnswer(p, nbsem, ntproc[p].packet)

(* ip_local *)
IpLocal(p, s, packet) ==
  \/ /\ packet.proto = "udp" /\ UdpIn(s, packet)
     /\ Return(p) /\ UNCHANGED <<arpcache, icmptab, icstray, ipoqueue, iqsem>>
  \/ /\ packet.proto = "reply" /\ IcmpReply(s, packet)
     /\ Return(p) /\ UNCHANGED <<arpcache, udptab, ipoqueue, iqsem>>
  \/ /\ packet.proto = "echo" /\ IcmpEcho(p, s, packet)

NextHop(dst) == IF dst \in LocalHosts THEN dst ELSE Router

(* the packet is given to the Ethernet driver, or dropped; either way its  *)
(* buffer is freed                                                         *)
IpOut(p, s) == Free(s, 1) /\ Return(p) /\ UNCHANGED <<mail, ipvars>>

(* ip_send *)
IpSend(p, s, packet) ==
  LET hop == NextHop(packet.dst)
      out == \/ packet.dst = Broadcast \/ hop = NoHost
             \/ ArpKnown(hop) \/ ArpFails(hop) IN
  IF packet.dst = Me THEN IpLocal(p, s, packet)
  ELSE IF out THEN IpOut(p, s)
  ELSE /\ ArpAsk(p, hop)
       /\ mail' = mail \ {p} /\ nbsem' = s
       /\ Goto(p, "arp", -1, packet)
       /\ UNCHANGED <<udptab, icmptab, icstray, ipoqueue, iqsem>>

(* behind arp_resolve: it was told that the address is known, or has asked *)
(* often enough                                                            *)
IpResolved(p) ==
  /\ NtRuns(p, "arp")
  /\ p \in mail \/ ntproc[p].try = ARP_RETRY
  /\ IF p \in mail THEN UNCHANGED arpcache ELSE ArpGiveUp(p)
  /\ mail' = mail \ {p}
  /\ Free(nbsem, 1) /\ Return(p)
  /\ UNCHANGED <<udptab, icmptab, icstray, ipoqueue, iqsem>>

(* a program gets a buffer, then sends *)
AppSend(p, packet) ==
  IF Blocks(nbsem) THEN /\ nbsem' = Down(nbsem, p) /\ Goto(p, "buffer", -1, packet)
                        /\ UNCHANGED <<mail, ipvars>>
                   ELSE IpSend(p, Down(nbsem, p), packet)

AppSendLater(p) == NtRuns(p, "buffer") /\ IpSend(p, nbsem, ntproc[p].packet)

(* udp_send, udp_sendto, icmp_send *)
UdSend(p, i) == UdUses(p, i) /\ udptab[i].rem # AnyHost /\ AppSend(p, UdPacket(i, udptab[i].rem))
UdSendto(p, i, dst) == UdUses(p, i) /\ AppSend(p, UdPacket(i, dst))
IcSend(p, i) == IcUses(p, i) /\ AppSend(p, IcPacket(i))

(* the process ipout, with interrupts enabled: wait for a packet; fetch    *)
(* it, while others may run in between; do what ip_send does. A stale      *)
(* pointer would be sent and freed a second time: the model ends there.    *)
IpoutNext ==
  /\ NtRuns(IPOUT, "next")
  /\ iqsem' = Down(iqsem, IPOUT)
  /\ Goto(IPOUT, "fetch", -1, NoPacket)
  /\ UNCHANGED <<mail, nbsem, arpcache, udptab, icmptab, icstray, ipoqueue>>

IpoutFetch ==
  LET h == ipoqueue.head
      packet == ipoqueue.buf[h] IN
  /\ NtRuns(IPOUT, "fetch") /\ IPOUT \notin Waiters(iqsem)
  /\ IF packet = NoPacket
     THEN ipoqueue' = [ipoqueue EXCEPT !.stray = TRUE] /\ UNCHANGED ntproc
     ELSE /\ ipoqueue' = [ipoqueue EXCEPT !.buf[h] = NoPacket, !.head = IqNext(h)]
          /\ Goto(IPOUT, "send", -1, packet)
  /\ UNCHANGED <<mail, nbsem, arpcache, udptab, icmptab, icstray, iqsem>>

IpoutSend == NtRuns(IPOUT, "send") /\ IpSend(IPOUT, nbsem, ntproc[IPOUT].packet)
=============================================================================
