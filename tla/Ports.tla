------------------------------- MODULE Ports -------------------------------
(***************************************************************************)
(* Ports (pt*.c): bounded queues of messages with a semaphore that counts  *)
(* free places and one that counts messages. All ports share one list of   *)
(* message nodes. Reset and delete release everybody who waits while the   *)
(* port is in the state limbo; a released process finds out by the state   *)
(* and by the accession number ptseq.                                      *)
(***************************************************************************)
EXTENDS Semas

CONSTANTS NPORTS,     \* entries of porttab
          PTMSGS,     \* nodes that ptinit makes
          PtCounts,   \* sizes that ptcreate is called with
          PtMaxSeq    \* bound: no port is created or cleared beyond it

ASSUME PortsAssumption == NPORTS \in Nat \ {0} /\ PTMSGS \in Nat /\ PtCounts \subseteq Nat

VARIABLES porttab, ptfree, ptnextid, ptcall, ptpanic

ptvars == <<porttab, ptfree, ptnextid, ptcall, ptpanic>>

Portids == 0 .. NPORTS - 1

PtStates == {"free", "limbo", "alloc"}

(* Who is where: the local variables of a process's call. A message is the *)
(* accession number its sender saw, so that it tells whose life it is of.  *)
PtIdle == [at |-> "user", port |-> 0, seq |-> 0, msg |-> 0]

(* ptinit: a list of nodes, and every port free *)
PtInit ==
  /\ porttab = [d \in Portids |-> [state |-> "free", seq |-> 0, maxcnt |-> 0, msgs |-> <<>>,
                                   ssem |-> Sema(0), rsem |-> Sema(0)]]
  /\ ptfree = PTMSGS
  /\ ptnextid = 0
  /\ ptcall = [p \in Procs |-> PtIdle]
  /\ ptpanic = FALSE

PtBlocked == UNION {Waiters(porttab[d].ssem) \cup Waiters(porttab[d].rsem) : d \in Portids}

PtRuns(p, at) == ~ptpanic /\ ptcall[p].at = at /\ p \notin PtBlocked

PtSet(p, c) == ptcall' = [ptcall EXCEPT ![p] = c]

(* the ports ptcreate looks at, in the order it does *)
PtScan(i) == (ptnextid + i) % NPORTS

PtCreate(p, count) ==
  \E i \in 0 .. NPORTS - 1 :
    LET d == PtScan(i) IN
    /\ PtRuns(p, "user")
    /\ porttab[d].state = "free" /\ porttab[d].seq < PtMaxSeq
    /\ \A j \in 0 .. i - 1 : porttab[PtScan(j)].state # "free"
    /\ porttab' = [porttab EXCEPT ![d] = [state |-> "alloc", seq |-> @.seq + 1, maxcnt |-> count,
                                          msgs |-> <<>>, ssem |-> Sema(count), rsem |-> Sema(0)]]
    /\ ptnextid' = (d + 1) % NPORTS
    /\ UNCHANGED <<ptfree, ptcall, ptpanic>>

(* The port a process that was released still finds as it left it *)
PtUnchanged(c) == porttab[c.port].state = "alloc" /\ porttab[c.port].seq = c.seq

(* ptsend behind its wait, the port's entry being e: take a node, append *)
PtEnqueue(p, c, e) ==
  \/ ptfree = 0 /\ ptpanic' = TRUE /\ UNCHANGED <<porttab, ptfree, ptcall>>
  \/ /\ ptfree > 0
     /\ porttab' = [porttab EXCEPT ![c.port] = [e EXCEPT !.msgs = Append(@, c.msg), !.rsem = Up(@)]]
     /\ ptfree' = ptfree - 1
     /\ PtSet(p, PtIdle)
     /\ UNCHANGED ptpanic

BugPtDequeue(p, c, e) ==
  /\ porttab' = [porttab EXCEPT ![c.port] = [e EXCEPT !.msgs = Tail(@), !.ssem = Up(@)]]
  /\ PtSet(p, [c EXCEPT !.at = "received", !.msg = Head(e.msgs)])
  /\ UNCHANGED <<ptpanic, ptfree>>

(* ptrecv behind its wait: the first message, its node back on the list *)
PtDequeue(p, c, e) ==
  /\ porttab' = [porttab EXCEPT ![c.port] = [e EXCEPT !.msgs = Tail(@), !.ssem = Up(@)]]
  /\ ptfree' = ptfree + 1
  /\ PtSet(p, [c EXCEPT !.at = "received", !.msg = Head(e.msgs)])
  /\ UNCHANGED ptpanic

PtBlock(p, c, e) == /\ porttab' = [porttab EXCEPT ![c.port] = e]
                    /\ PtSet(p, c)
                    /\ UNCHANGED <<ptfree, ptpanic>>

PtSend(p, d) ==
  LET e == porttab[d]
      c == [at |-> "send", port |-> d, seq |-> e.seq, msg |-> e.seq]
      w == [e EXCEPT !.ssem = Down(@, p)]
  IN /\ PtRuns(p, "user") /\ e.state = "alloc"
     /\ IF Blocks(e.ssem) THEN PtBlock(p, c, w) ELSE PtEnqueue(p, c, w)
     /\ UNCHANGED ptnextid

PtRecv(p, d) ==
  LET e == porttab[d]
      c == [at |-> "recv", port |-> d, seq |-> e.seq, msg |-> 0]
      w == [e EXCEPT !.rsem = Down(@, p)]
  IN /\ PtRuns(p, "user") /\ e.state = "alloc"
     /\ IF Blocks(e.rsem) THEN PtBlock(p, c, w) ELSE PtDequeue(p, c, w)
     /\ UNCHANGED ptnextid

(* a process that was released from a semaphore: SYSERR if the port changed *)
PtResume(p) ==
  LET c == ptcall[p] IN
  /\ \/ PtRuns(p, "send") /\ PtUnchanged(c) /\ PtEnqueue(p, c, porttab[c.port])
     \/ PtRuns(p, "recv") /\ PtUnchanged(c) /\ PtDequeue(p, c, porttab[c.port])
     \/ /\ PtRuns(p, "send") \/ PtRuns(p, "recv")
        /\ ~PtUnchanged(c)
        /\ PtSet(p, PtIdle) /\ UNCHANGED <<porttab, ptfree, ptpanic>>
  /\ UNCHANGED ptnextid

PtReturn(p) == PtRuns(p, "received") /\ PtSet(p, PtIdle)
               /\ UNCHANGED <<porttab, ptfree, ptnextid, ptpanic>>

(* ptreset and ptdelete as far as the caller's dispose function, which may *)
(* give up the processor at every message                                  *)
PtClear(p, d, how) ==
  LET e == porttab[d] IN
  /\ PtRuns(p, "user")
  /\ e.state = "alloc" /\ e.seq < PtMaxSeq
  /\ porttab' = [porttab EXCEPT ![d] = [e EXCEPT !.state = "limbo", !.seq = @ + 1]]
  /\ PtSet(p, [at |-> how, port |-> d, seq |-> 0, msg |-> Len(e.msgs)])
  /\ UNCHANGED <<ptfree, ptnextid, ptpanic>>

PtDispose(p) ==
  /\ PtRuns(p, "reset") \/ PtRuns(p, "delete")
  /\ ptcall[p].msg > 0
  /\ PtSet(p, [ptcall[p] EXCEPT !.msg = @ - 1])
  /\ UNCHANGED <<porttab, ptfree, ptnextid, ptpanic>>

(* _ptclear behind the walk: the nodes go back to the list, and semreset   *)
(* or semdelete of ptssem releases the senders                             *)
PtClearSenders(p) ==
  LET d == ptcall[p].port
      e == porttab[d]
      n == IF ptcall[p].at = "reset" THEN e.maxcnt ELSE 0
  IN /\ PtRuns(p, "reset") \/ PtRuns(p, "delete")
     /\ ptcall[p].msg = 0
     /\ ptfree' = ptfree + Len(e.msgs)
     /\ porttab' = [porttab EXCEPT ![d] = [e EXCEPT !.msgs = <<>>, !.ssem = Sema(n)]]
     /\ PtSet(p, [ptcall[p] EXCEPT !.at = IF @ = "reset" THEN "reset2" ELSE "delete2"])
     /\ UNCHANGED <<ptnextid, ptpanic>>

(* then ptrsem releases the receivers, who may run first: still in limbo *)
PtClearReceivers(p) ==
  LET d == ptcall[p].port IN
  /\ PtRuns(p, "reset2") \/ PtRuns(p, "delete2")
  /\ porttab' = [porttab EXCEPT ![d].rsem = Sema(0)]
  /\ PtSet(p, [ptcall[p] EXCEPT !.at = IF @ = "reset2" THEN "reset3" ELSE "delete3"])
  /\ UNCHANGED <<ptfree, ptnextid, ptpanic>>

PtClearEnd(p) ==
  LET d == ptcall[p].port IN
  /\ PtRuns(p, "reset3") \/ PtRuns(p, "delete3")
  /\ porttab' = [porttab EXCEPT ![d].state = IF ptcall[p].at = "reset3" THEN "alloc" ELSE "free"]
  /\ ptnextid' = IF ptcall[p].at = "delete3" THEN d ELSE ptnextid
  /\ PtSet(p, PtIdle)
  /\ UNCHANGED <<ptfree, ptpanic>>

PtNext ==
  \E p \in Procs :
    \/ \E n \in PtCounts : PtCreate(p, n)
    \/ \E d \in Portids : PtSend(p, d) \/ PtRecv(p, d)
                          \/ \E how \in {"reset", "delete"} : PtClear(p, d, how)
    \/ PtResume(p) \/ PtReturn(p)
    \/ PtDispose(p) \/ PtClearSenders(p) \/ PtClearReceivers(p) \/ PtClearEnd(p)

PtSpec == PtInit /\ [][PtNext]_ptvars

----------------------------------------------------------------------------

(* Every variable keeps its type; ptfree stays between 0 and PTMSGS. *)
PtTypeOK ==
  /\ \A d \in Portids :
       /\ porttab[d].state \in PtStates /\ porttab[d].seq \in 0 .. PtMaxSeq
       /\ porttab[d].msgs \in Seq(1 .. PtMaxSeq)
       /\ SemaOK(porttab[d].ssem) /\ SemaOK(porttab[d].rsem)
  /\ ptfree \in 0 .. PTMSGS /\ ptnextid \in Portids /\ ptpanic \in BOOLEAN

PtGranted(d, at) == {p \in Procs \ PtBlocked :
                       ptcall[p].at = at /\ ptcall[p].port = d /\ ptcall[p].seq = porttab[d].seq}

(* A message never crosses a reset or a deletion: what ptrecv returns was  *)
(* sent to the port in the life of the port in which the receiver called,  *)
(* although both may have waited while the port was cleared and made again.*)
PtSameLife == \A p \in Procs : ptcall[p].at = "received" => ptcall[p].msg = ptcall[p].seq

(* A process that was let through by a semaphore finds what the semaphore  *)
(* promised - a first message (ptrecv follows pthead without a test) or a  *)
(* free place - however many others were let through or thrown out.        *)
PtPromisesKept ==
  \A d \in Portids : porttab[d].state = "alloc" =>
    LET e == porttab[d] IN
    /\ Len(e.msgs) = Available(e.rsem) + Cardinality(PtGranted(d, "recv"))
    /\ e.maxcnt = Len(e.msgs) + Available(e.ssem) + Cardinality(PtGranted(d, "send"))

(* Nodes are neither lost nor made, and ptsend panics for want of a node   *)
(* only when the ports together promise more places than ptinit made.      *)
PtSums(f) == LET S[n \in 0 .. NPORTS] == IF n = 0 THEN 0 ELSE S[n - 1] + f[n - 1] IN S
PtSum(f) == PtSums(f)[NPORTS]
PtNodesKept ==
  /\ ptfree + PtSum([d \in Portids |-> Len(porttab[d].msgs)]) = PTMSGS
  /\ ptpanic => PtSum([d \in Portids |->
                  IF porttab[d].state = "free" THEN 0 ELSE porttab[d].maxcnt]) > PTMSGS

(* The three together: what ptsend and ptrecv rely on *)
PortsKept == PtSameLife /\ PtPromisesKept /\ PtNodesKept
============================================================================
