-------------------------------- MODULE Icmp --------------------------------
(***************************************************************************)
(* Ping (net/icmp.c): the table of processes that wait for echo replies.   *)
(* Requests from other hosts are answered by the input process through     *)
(* the output queue of IP, so that it never waits for ARP itself.          *)
(***************************************************************************)
EXTENDS NetBase

CONSTANTS ICMP_SLOTS, ICMP_QSIZ

ASSUME IcmpAssumption == ICMP_SLOTS \in Nat \ {0} /\ ICMP_QSIZ \in Nat \ {0}

VARIABLES icmptab,
          icstray  \* a queue has overflowed, or is read outside its array

IcSlots == 0 .. ICMP_SLOTS - 1
IcFree == [state |-> "free", rem |-> NoHost, head |-> 0, count |-> 0, owner |-> NoProc]

(* icmp_init *)
IcmpInit == icmptab = [i \in IcSlots |-> IcFree] /\ icstray = FALSE

(* icmp_in on an echo reply: nothing checks that the queue has room *)
IcAccepts(packet) == packet.id \in IcSlots /\ icmptab[packet.id].state # "free"
                     /\ icmptab[packet.id].rem = packet.src

IcmpReply(s, packet) ==
  LET i == packet.id IN
  IF ~IcAccepts(packet) THEN Free(s, 1) /\ UNCHANGED <<icmptab, icstray, mail>>
  ELSE /\ icmptab' = [icmptab EXCEPT ![i].count = @ + 1, ![i].state = "used"]
       /\ icstray' = (icmptab[i].count = ICMP_QSIZ)
       /\ IF icmptab[i].state = "receiving" THEN Post(icmptab[i].owner) ELSE UNCHANGED mail
       /\ Free(s, 0)

(* icmp_register *)
IcRegister(p, rem) ==
  LET free == {i \in IcSlots : icmptab[i].state = "free"} IN
  /\ NtRuns(p, "user") /\ free # {}
  /\ ~ \E i \in IcSlots \ free : icmptab[i].rem = rem
  /\ icmptab' = [icmptab EXCEPT ![CHOOSE i \in free : \A j \in free : i <= j] =
                   [IcFree EXCEPT !.state = "used", !.rem = rem, !.owner = p]]
  /\ UNCHANGED <<netbasevars, icstray>>

IcUses(p, i) == NtRuns(p, "user") /\ icmptab[i].state # "free" /\ icmptab[i].owner = p

(* the first packet is taken: the head is wrapped at the number of slots *)
IcDequeue(i) ==
  /\ icmptab' = [icmptab EXCEPT ![i].state = "used", ![i].count = @ - 1,
                                ![i].head = (@ + 1) % ICMP_SLOTS]
  /\ icstray' = (icmptab[i].head >= ICMP_QSIZ)
  /\ Free(nbsem, 1)

(* icmp_recv *)
IcRecv(p, i) ==
  /\ IcUses(p, i) /\ icmptab[i].state = "used"
  /\ IF icmptab[i].count > 0 THEN IcDequeue(i) /\ UNCHANGED <<mail, ntproc>>
     ELSE /\ icmptab' = [icmptab EXCEPT ![i].state = "receiving"]
          /\ mail' = mail \ {p}
          /\ Goto(p, "icmp", i, NoPacket)
          /\ UNCHANGED <<nbsem, icstray>>

IcWake(p) ==
  LET i == ntproc[p].slot IN
  /\ NtRuns(p, "icmp")
  /\ IF p \in mail THEN IcDequeue(i)
     ELSE icmptab' = [icmptab EXCEPT ![i].state = "used"] /\ UNCHANGED <<nbsem, icstray>>
  /\ mail' = mail \ {p}
  /\ Return(p)

(* icmp_mkpkt for icmp_send, and for the answer to a request *)
IcPacket(i) == Packet("echo", Me, icmptab[i].rem, i)
IcAnswer(packet) == Packet("reply", Me, packet.src, packet.id)

(* icmp_release *)
IcRelease(p, i) ==
  /\ IcUses(p, i) /\ icmptab[i].state = "used"
  /\ icmptab' = [icmptab EXCEPT ![i] = IcFree]
  /\ Free(nbsem, icmptab[i].count)
  /\ UNCHANGED <<mail, ntproc, icstray>>
=============================================================================
