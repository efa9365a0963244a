-------------------------------- MODULE Net ---------------------------------
(***************************************************************************)
(* The protocol stack put together (net/net.c): the input process reads    *)
(* frames into buffers of the pool and hands them on; programs register    *)
(* endpoints, send, wait with a time limit, and ping. What arrives, and    *)
(* whether anything does, is up to the network.                            *)
(***************************************************************************)
EXTENDS Ip

CONSTANTS NtFrames,  \* bound: frames that arrive
          NtKinds    \* what arrives: kinds of frames

ASSUME NtAssumption == NtFrames \in Nat

VARIABLE ntarrived   \* frames so far

ntvars == <<netbasevars, ipvars, ntarrived>>

(* net_init, and netstart, which makes the address valid *)
NtInit == /\ NetBaseInit /\ ArpInit /\ UdpInit /\ IcmpInit /\ IpInit
          /\ ntarrived = 0

(* netin: get a buffer, with interrupts enabled *)
NetinNext ==
  /\ NtRuns(NETIN, "next")
  /\ nbsem' = Down(nbsem, NETIN)
  /\ Goto(NETIN, "read", -1, NoPacket)
  /\ UNCHANGED <<mail, ipvars, ntarrived>>

NetinReads == NtRuns(NETIN, "read") /\ ntarrived < NtFrames /\ ntarrived' = ntarrived + 1

(* an ARP frame from a host *)
NetinArp(kind, src) ==
  /\ NetinReads
  /\ ArpIn(kind, src)
  /\ Free(nbsem, 1) /\ Return(NETIN)
  /\ UNCHANGED <<udptab, icmptab, icstray, ipoqueue, iqsem>>

(* ip_in: a packet for this host *)
NetinIp(packet) == NetinReads /\ IpLocal(NETIN, nbsem, packet)

(* anything else, or a packet whose header is bad *)
NetinDrop == NetinReads /\ IpOut(NETIN, nbsem)

(* the calls that programs make, and how those go on that had to wait *)
UdpCall(p) ==
  \/ \E rem \in Hosts \cup {AnyHost}, port \in UdPorts : UdRegister(p, rem, port)
  \/ \E i \in UdSlots : UdRecv(p, i) \/ UdRelease(p, i)
  \/ UdWake(p)

IcmpCall(p) ==
  \/ \E rem \in Hosts \cup {Me} : IcRegister(p, rem)
  \/ \E i \in IcSlots : IcRecv(p, i) \/ IcRelease(p, i)
  \/ IcWake(p)

SendCall(p) ==
  \/ \E i \in UdSlots : UdSend(p, i)
  \/ \E i \in UdSlots, dst \in Hosts \cup {Me, Broadcast} : UdSendto(p, i, dst)
  \/ \E i \in IcSlots : IcSend(p, i)
  \/ AppSendLater(p)

NtPacket(src) == {Packet("udp", src, Me, port) : port \in UdPorts}
                  \cup {Packet("reply", src, Me, i) : i \in IcSlots \cup {ICMP_SLOTS}}
                  \cup {Packet("echo", src, Me, 0)}

NtArrival == \E src \in Hosts :
  \/ \E kind \in {"arp request", "arp reply"} : NetinArp(kind, src)
  \/ \E packet \in NtPacket(src) : packet.proto \in NtKinds /\ NetinIp(packet)
  \/ NetinDrop

(* The model ends where a queue of echo replies is read or written outside *)
(* its array, and where ipout has fetched a packet for the second time.    *)
NtNext ==
  /\ ~icstray /\ ~ipoqueue.stray
  /\ \/ NtArrival \/ NetinNext
     \/ (IpoutNext \/ IpoutFetch \/ IpoutSend) /\ UNCHANGED ntarrived
     \/ \E p \in Procs :
          /\ \/ IcmpAnswerLater(p)
             \/ ArpAgain(p) /\ UNCHANGED <<udptab, icmptab, icstray, ipoqueue, iqsem>>
             \/ IpResolved(p)
          /\ UNCHANGED ntarrived
     \/ \E p \in Apps :
          /\ \/ UdpCall(p) /\ UNCHANGED <<arpcache, icmptab, icstray, ipoqueue, iqsem>>
             \/ IcmpCall(p) /\ UNCHANGED <<arpcache, udptab, ipoqueue, iqsem>>
             \/ SendCall(p)
          /\ UNCHANGED ntarrived

NtSpec == NtInit /\ [][NtNext]_ntvars

-----------------------------------------------------------------------------

NtTypeOK ==
  /\ mail \subseteq Procs /\ SemaOK(nbsem) /\ SemaOK(iqsem)
  /\ DOMAIN ntproc = Procs
  /\ iqsem.n <= IP_OQSIZ /\ {ipoqueue.head, ipoqueue.tail} \subseteq IqPlaces
  /\ \A i \in UdSlots : Len(udptab[i].queue) <= UDP_QSIZ
  /\ ~icstray => \A i \in IcSlots : icmptab[i].count \in 0 .. ICMP_QSIZ
  /\ \A i \in ArpSlots : arpcache[i].state \in {"free", "pending", "resolved"}

(* sums over a table *)
NtSums(n, f) == LET sum[k \in 0 .. n] == IF k = 0 THEN 0 ELSE sum[k - 1] + f[k - 1] IN sum
NtSum(n, f) == NtSums(n, f)[n]

(* the buffers a process holds by where it is; one that waits in getbuf *)
(* does not have the buffer yet                                         *)
NtHeld(p) ==
  LET at == ntproc[p].at
      got == IF p \in Waiters(nbsem) THEN 0 ELSE 1 IN
  CASE at \in {"arp", "send"} -> 1
    [] at \in {"read", "buffer"} -> got
    [] at = "answer" -> 1 + got
    [] OTHER -> 0

(* ip_send, ip_recv, arp_resolve, udp_in, icmp_in and their error paths:   *)
(* whatever fails, is dropped, answered, looped back or timed out, every   *)
(* packet buffer is in the pool, in one queue, or in the hands of one      *)
(* process: none is freed twice and none forgotten, but for those that     *)
(* ip_enqueue has overwritten. The semaphore of the output queue counts    *)
(* the packets that are there or overwritten, less the one that ipout has  *)
(* waited for and not fetched: that is how one more comes to be accepted   *)
(* than the ring has room for. Unless that has happened no packet is       *)
(* fetched twice.                                                          *)
NtBuffersKept ==
  /\ ~icstray /\ ~ipoqueue.stray =>
       /\ NBufs = Available(nbsem) + IqUnfetched + ipoqueue.lost
                   + Cardinality({p \in Procs : NtHeld(p) > 0})
                   + Cardinality({p \in Procs : NtHeld(p) > 1})
                   + NtSum(UDP_SLOTS, [i \in UdSlots |-> Len(udptab[i].queue)])
                   + NtSum(ICMP_SLOTS, [i \in IcSlots |-> icmptab[i].count])
       /\ IqUnfetched + ipoqueue.lost = iqsem.n + IF ntproc[IPOUT].at = "fetch" THEN 1 ELSE 0
  /\ ipoqueue.stray => ipoqueue.lost > 0

(* udp_recv, icmp_recv and the handlers udp_in and icmp_in: a process that *)
(* waits on an endpoint while packets are queued there has been told, and  *)
(* one that was told finds a packet, even if its time ran out first; a     *)
(* slot that is marked as receiving has a process waiting.                 *)
NtWaitersTold ==
  /\ \A i \in UdSlots : udptab[i].state = "receiving" =>
       udptab[i].queue = <<>> /\ ntproc[udptab[i].owner].at = "udp"
  /\ \A i \in IcSlots : icmptab[i].state = "receiving" =>
       icmptab[i].count = 0 /\ ntproc[icmptab[i].owner].at = "icmp"
  /\ \A p \in Apps : LET i == ntproc[p].slot IN
       /\ ntproc[p].at = "udp" => (p \in mail <=> udptab[i].queue # <<>>)
       /\ ntproc[p].at = "icmp" => (p \in mail <=> icmptab[i].count > 0)

(* arp_resolve and arp_in: every pending ARP entry has a process that      *)
(* waits for it and will resolve it or give it up, so no address stays     *)
(* unreachable; and who waits has such an entry or has been told.          *)
NtPendingOwned ==
  /\ \A i \in ArpSlots : arpcache[i].state = "pending" =>
       LET p == arpcache[i].pid IN
       /\ ntproc[p].at = "arp" /\ p \notin mail
       /\ NextHop(ntproc[p].packet.dst) = arpcache[i].addr
  /\ \A p \in Procs : ntproc[p].at = "arp" =>
       p \in mail \/ \E i \in ArpSlots : arpcache[i].state = "pending" /\ arpcache[i].pid = p
=============================================================================
