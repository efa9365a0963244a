------------------------------ MODULE NetBase -------------------------------
(***************************************************************************)
(* What the parts of the protocol stack share (net): the addresses, the    *)
(* buffer pool all packets come from, the messages by which a process that *)
(* waits is told of an arrival, and where each process is. The pool is its *)
(* semaphore here (module BufPool has its list); the only message is OK,   *)
(* which the stack itself sends.                                           *)
(***************************************************************************)
EXTENDS Semas

CONSTANTS NETIN, IPOUT,   \* the two processes of the stack
          Hosts,          \* hosts other than this one
          LocalHosts,     \* those on the local network
          Router,         \* the default router, or NoHost
          Me, NoHost, Broadcast, AnyHost,
          NBufs           \* buffers in netbufpool

ASSUME NetAssumption == /\ {NETIN, IPOUT} \subseteq Procs /\ NETIN # IPOUT
                        /\ LocalHosts \subseteq Hosts /\ NBufs \in Nat \ {0}

VARIABLES mail,    \* the processes that hold an unread message
          nbsem,   \* the semaphore of netbufpool
          ntproc   \* [p -> where it is, with which slot, packet and attempt]

netbasevars == <<mail, nbsem, ntproc>>

Apps == Procs \ {NETIN, IPOUT}
NoPacket == <<>>
Idle == [at |-> "user", slot |-> -1, packet |-> NoPacket, try |-> 0]

(* packets: protocol, the two ends, and the port or the slot asked for *)
Packet(proto, src, dst, id) == [proto |-> proto, src |-> src, dst |-> dst, id |-> id]

NtRuns(p, at) == ntproc[p].at = at /\ p \notin Waiters(nbsem)
Goto(p, at, slot, packet) ==
  ntproc' = [ntproc EXCEPT ![p] = [at |-> at, slot |-> slot, packet |-> packet, try |-> 1]]
Return(p) == ntproc' = [ntproc EXCEPT ![p] = IF p \in Apps THEN Idle ELSE [Idle EXCEPT !.at = "next"]]

(* freebuf, n times, when s is what a call has made of the semaphore so far *)
Free(s, n) == nbsem' = UpN(s, n)

(* send(p, OK): a message that is not read yet is not replaced *)
Post(p) == mail' = mail \cup {p}

NetBaseInit == /\ mail = {} /\ nbsem = Sema(NBufs)
               /\ ntproc = [p \in Procs |-> IF p \in Apps THEN Idle ELSE [Idle EXCEPT !.at = "next"]]
=============================================================================
