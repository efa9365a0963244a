-------------------------------- MODULE Udp ---------------------------------
(***************************************************************************)
(* The UDP endpoints (net/udp.c): a table of slots, each with a queue of   *)
(* packets and at most one process that waits for one. As everywhere in    *)
(* src/, a slot is used and released by the process that registered it.    *)
(***************************************************************************)
EXTENDS NetBase

CONSTANTS UDP_SLOTS, UDP_QSIZ, UdPorts  \* the local ports that programs use

ASSUME UdpAssumption == UDP_SLOTS \in Nat \ {0} /\ UDP_QSIZ \in Nat \ {0}

VARIABLE udptab

UdSlots == 0 .. UDP_SLOTS - 1
UdFree == [state |-> "free", rem |-> AnyHost, port |-> 0, queue |-> <<>>, owner |-> NoProc]

(* udp_init *)
UdpInit == udptab = [i \in UdSlots |-> UdFree]

BugUdMatches(packet) ==
  {i \in UdSlots : /\ udptab[i].state # "free" /\ udptab[i].port = packet.id
                   /\ udptab[i].rem \in {AnyHost, packet.src}
                   /\ Len(udptab[i].queue) <= UDP_QSIZ}

(* udp_in: the slots that take a packet *)
UdMatches(packet) ==
  {i \in UdSlots : /\ udptab[i].state # "free" /\ udptab[i].port = packet.id
                   /\ udptab[i].rem \in {AnyHost, packet.src}
                   /\ Len(udptab[i].queue) < UDP_QSIZ}

BugUdpIn(s, packet) ==
  LET i == CHOOSE i \in UdMatches(packet) : \A j \in UdMatches(packet) : i <= j IN
  IF UdMatches(packet) = {} THEN Free(s, 1) /\ UNCHANGED <<udptab, mail>>
  ELSE /\ udptab' = [udptab EXCEPT ![i].queue = Append(@, packet), ![i].state = "used"]
       /\ Free(s, 0)
       /\ IF udptab[i].state = "used" THEN Post(udptab[i].owner) ELSE UNCHANGED mail

(* udp_in: queue the packet and tell the process that waits, or drop it *)
UdpIn(s, packet) ==
  LET i == CHOOSE i \in UdMatches(packet) : \A j \in UdMatches(packet) : i <= j IN
  IF UdMatches(packet) = {} THEN Free(s, 1) /\ UNCHANGED <<udptab, mail>>
  ELSE /\ udptab' = [udptab EXCEPT ![i].queue = Append(@, packet), ![i].state = "used"]
       /\ Free(s, 0)
       /\ IF udptab[i].state = "receiving" THEN Post(udptab[i].owner) ELSE UNCHANGED mail

(* udp_register *)
UdRegister(p, rem, port) ==
  LET free == {i \in UdSlots : udptab[i].state = "free"} IN
  /\ NtRuns(p, "user")
  /\ ~ \E i \in UdSlots \ free : udptab[i].rem = rem /\ udptab[i].port = port
  /\ free # {}
  /\ udptab' = [udptab EXCEPT ![CHOOSE i \in free : \A j \in free : i <= j] =
                  [UdFree EXCEPT !.state = "used", !.rem = rem, !.port = port, !.owner = p]]
  /\ UNCHANGED netbasevars

UdUses(p, i) == NtRuns(p, "user") /\ udptab[i].state # "free" /\ udptab[i].owner = p

(* udp_recv, udp_recvaddr: take the first packet, or wait for one *)
UdDequeue(i) == /\ udptab' = [udptab EXCEPT ![i].queue = Tail(@), ![i].state = "used"]
                /\ Free(nbsem, 1)

UdRecv(p, i) ==
  /\ UdUses(p, i) /\ udptab[i].state = "used"
  /\ IF udptab[i].queue # <<>> THEN UdDequeue(i) /\ UNCHANGED <<mail, ntproc>>
     ELSE /\ udptab' = [udptab EXCEPT ![i].state = "receiving"]
          /\ mail' = mail \ {p}
          /\ Goto(p, "udp", i, NoPacket)
          /\ UNCHANGED nbsem

(* it was told of a packet, or its time is over *)
UdWake(p) ==
  LET i == ntproc[p].slot IN
  /\ NtRuns(p, "udp")
  /\ IF p \in mail THEN UdDequeue(i)
     ELSE udptab' = [udptab EXCEPT ![i].state = "used"] /\ UNCHANGED nbsem
  /\ mail' = mail \ {p}
  /\ Return(p)

(* what udp_send and udp_sendto send, from and to the same port *)
UdPacket(i, dst) == Packet("udp", Me, dst, udptab[i].port)

BugUdRelease(p, i) ==
  UdUses(p, i) /\ udptab' = [udptab EXCEPT ![i] = UdFree] /\ UNCHANGED netbasevars

(* udp_release: the packets in the queue are freed *)
UdRelease(p, i) ==
  /\ UdUses(p, i)
  /\ udptab' = [udptab EXCEPT ![i] = UdFree]
  /\ Free(nbsem, Len(udptab[i].queue))
  /\ UNCHANGED <<mail, ntproc>>
=============================================================================
