-------------------------------- MODULE Rds --------------------------------
(***************************************************************************)
(* The remote disk (device/rds). A buffer is free, a request in the queue, *)
(* an entry of the cache, or in the hands of the process that has taken    *)
(* it. rdsprocess takes the requests one by one to the server; it runs at  *)
(* priority 200, above its clients, and is not interrupted by them. What a *)
(* block holds is the number of the write that put it there.               *)
(* The server is external: it answers at once, late, or never.             *)
(***************************************************************************)
EXTENDS Semas, SequencesExt

CONSTANTS RdComproc,            \* rdsprocess; the callers are Procs
          RD_BUFFS, RD_RETRIES,
          RdBlocks,             \* block numbers, 0 for a number nobody wrote
          RdWrites, RdExchanges \* bounds: writes, exchanges with the server

ASSUME RdsAssumption == /\ RdComproc \notin Procs
                        /\ RD_BUFFS \in Nat \ {0} /\ RD_RETRIES \in Nat \ {0}
                        /\ RdBlocks \subseteq Nat \ {0}

VARIABLES rdstate,
          rdfree, rdqueue, rdcache,  \* the lists, first to last
          rdbuf,                     \* struct rdbuff
          rdavail, rdreq,            \* rd_availsem, the count of rd_reqsem
          rdproc,                    \* [p -> where it is, for which request]
          rdmail,                    \* [p -> the buffer sent to it]
          rdseq, rdmsg,           \* rd_seq, block in rdsprocess's msg
          rdxch,                     \* [process -> its exchange in rdscomm]
          rdinbox, rdair,            \* replies in the UDP slot, and on the way
          rddisk,                    \* the server's blocks
          rdwritten, rdlast,         \* writes accepted, the last one of a block
          rdstale,                   \* a read has given a wrong or an old block
          rdsyncs,                   \* sync requests
          rdpanic,  \* rdsbufalloc has found no buffer
          rdbroken  \* a corrupt list, a count that is wrong, or no answer to rdsprocess

rdlists == <<rdfree, rdqueue, rdcache, rdbuf>>
rdcomm == <<rdseq, rdmsg, rdxch, rdinbox, rdair, rddisk>>
rdghost == <<rdwritten, rdlast, rdstale, rdsyncs>>
rdvars == <<rdstate, rdlists, rdavail, rdreq, rdproc, rdmail, rdcomm, rdghost, rdpanic,
           rdbroken>>

RdBuffers == 1 .. RD_BUFFS
RdActors == Procs \cup {RdComproc}
RdIdle == [at |-> "user", op |-> "none", blk |-> 0, floor |-> 0]
NoExchange == [at |-> "none", op |-> "none", seq |-> 0, tries |-> 0]
Content(b, v) == [blk |-> b, by |-> v]

(* rdsinit *)
RdInit ==
  /\ rdstate = "free" /\ rdqueue = <<>> /\ rdcache = <<>>
  /\ rdfree = [i \in RdBuffers |-> i]
  /\ rdbuf = [b \in RdBuffers |-> [op |-> "none", blk |-> 0, ref |-> 0, valid |-> FALSE,
                                   pid |-> NoProc, data |-> Content(0, 0)]]
  /\ rdavail = Sema(RD_BUFFS) /\ rdreq = 0
  /\ rdproc = [p \in Procs |-> RdIdle] /\ rdmail = [p \in Procs |-> 0]
  /\ rdseq = 1 /\ rdmsg = Content(0, 0) /\ rdxch = [a \in RdActors |-> NoExchange]
  /\ rdinbox = <<>> /\ rdair = {} /\ rddisk = [b \in RdBlocks \cup {0} |-> 0]
  /\ rdwritten = 0 /\ rdlast = [b \in RdBlocks |-> 0]
  /\ rdstale = FALSE /\ rdsyncs = 0 /\ rdpanic = FALSE /\ rdbroken = FALSE

RdGoesOn == ~rdpanic /\ ~rdbroken
RdRuns(p, at) == RdGoesOn /\ rdproc[p].at = at /\ p \notin Waiters(rdavail)
RdReturn(p) == rdproc' = [rdproc EXCEPT ![p] = RdIdle]
Drop(list, b) == RemoveAt(list, CHOOSE i \in DOMAIN list : list[i] = b)
FirstIn(list, P(_)) == list[CHOOSE i \in DOMAIN list :
                              P(list[i]) /\ \A j \in 1 .. i - 1 : ~P(list[j])]
LastIn(list, P(_)) == list[CHOOSE i \in DOMAIN list :
                             P(list[i]) /\ \A j \in i + 1 .. Len(list) : ~P(list[j])]
Has(list, P(_)) == \E i \in DOMAIN list : P(list[i])

-----------------------------------------------------------------------------
(* Requests *)

(* a read of the block, called when the last write of it had the number    *)
(* floor, gives the data                                                   *)
RdGot(blk, floor, data) == rdstale' = (rdstale \/ data.blk # blk \/ data.by < floor)

(* the new request goes to the end of the queue, in the buffer b; a sync   *)
(* resumes rdsprocess instead of signalling it, which fails                *)
RdRequest(p, op, blk, b) ==
  /\ rdqueue' = Append(rdqueue, b)
  /\ rdbuf' = [rdbuf EXCEPT ![b] =
       [op |-> op, blk |-> blk, ref |-> IF op = "write" THEN 0 ELSE 1, valid |-> op = "write",
        pid |-> p, data |-> IF op = "write" THEN Content(blk, rdwritten + 1) ELSE @.data]]
  /\ rdreq' = rdreq + IF op = "sync" THEN 0 ELSE 1
  /\ rdsyncs' = rdsyncs + IF op = "sync" THEN 1 ELSE 0
  /\ IF op = "write"
     THEN /\ rdwritten' = rdwritten + 1 /\ rdlast' = [rdlast EXCEPT ![blk] = rdwritten']
          /\ RdReturn(p) /\ UNCHANGED rdmail
     ELSE /\ rdproc' = [rdproc EXCEPT ![p] = 
                         [at |-> "receive", op |-> op, blk |-> blk,
                          floor |-> IF op = "read" THEN rdlast[blk] ELSE 0]]
          /\ rdmail' = [rdmail EXCEPT ![p] = 0]
          /\ UNCHANGED <<rdwritten, rdlast>>
  /\ UNCHANGED rdstale

(* p is in rdsbufalloc, for its request *)
RdInAlloc(p, op, blk) == rdproc' = [rdproc EXCEPT ![p] = [@ EXCEPT !.at = "alloc", !.op = op, !.blk = blk]]

(* rdsbufalloc behind its wait: a free buffer, or the oldest of the cache  *)
(* that nobody reads; without one the system panics. That happens: the     *)
(* semaphore has been signalled for a buffer whose reader has not run yet. *)
RdBufalloc(p, op, blk) ==
  LET Unread(b) == rdbuf[b].ref <= 0
      old == LastIn(rdcache, Unread) IN
  \/ /\ rdfree # <<>>
     /\ RdRequest(p, op, blk, Head(rdfree))
     /\ rdfree' = Tail(rdfree)
     /\ UNCHANGED <<rdcache, rdpanic, rdbroken>>
  \/ /\ rdfree = <<>> /\ Has(rdcache, Unread)
     /\ RdRequest(p, op, blk, old)
     /\ rdcache' = Drop(rdcache, old)
     /\ UNCHANGED <<rdfree, rdpanic, rdbroken>>
  \/ /\ rdfree = <<>> /\ ~Has(rdcache, Unread)
     /\ rdpanic' = TRUE
     /\ RdInAlloc(p, op, blk)
     /\ UNCHANGED <<rdlists, rdreq, rdmail, rdghost, rdbroken>>

RdObtain(p, op, blk) ==
  /\ rdavail' = Down(rdavail, p)
  /\ IF Blocks(rdavail)
     THEN /\ RdInAlloc(p, op, blk)
          /\ UNCHANGED <<rdlists, rdreq, rdmail, rdghost, rdpanic, rdbroken>>
     ELSE RdBufalloc(p, op, blk)

RdAllocated(p) == /\ RdRuns(p, "alloc")
                  /\ RdBufalloc(p, rdproc[p].op, rdproc[p].blk)
                  /\ UNCHANGED <<rdstate, rdavail, rdcomm>>

RdCalls(p) == RdRuns(p, "user") /\ rdstate = "open"

(* rdsread: the first cache entry counts if its contents are valid, then   *)
(* the last request for the block if it is a write                         *)
RdRead(p, blk) ==
  LET Of(b) == rdbuf[b].blk = blk
      c == FirstIn(rdcache, Of)
      q == LastIn(rdqueue, Of)
      Copy(b) == /\ RdGot(blk, rdlast[blk], rdbuf[b].data)
                 /\ UNCHANGED <<rdlists, rdavail, rdreq, rdproc, rdmail, rdwritten, rdlast,
                                rdsyncs, rdpanic, rdbroken>>
  IN /\ RdCalls(p)
     /\ IF Has(rdcache, Of) /\ rdbuf[c].valid THEN Copy(c)
        ELSE IF Has(rdqueue, Of) /\ rdbuf[q].op = "write" THEN Copy(q)
        ELSE RdObtain(p, "read", blk)
     /\ UNCHANGED <<rdstate, rdcomm>>

(* rdsread behind its receive: an entry that another one for the block has *)
(* overtaken is freed. If rdsclose has meanwhile emptied the cache, the    *)
(* search for the entry runs off the list.                                 *)
RdReceive(p) ==
  LET b == rdmail[p]
      Same(c) == rdbuf[c].blk = rdproc[p].blk
      gone == rdbuf[b].ref = 1 /\ FirstIn(rdcache, Same) # b
  IN /\ RdRuns(p, "receive") /\ b # 0
     /\ rdmail' = [rdmail EXCEPT ![p] = 0]
     /\ RdReturn(p)
     /\ IF rdproc[p].op = "sync" THEN UNCHANGED <<rdlists, rdstale, rdbroken>>
        ELSE /\ RdGot(rdproc[p].blk, rdproc[p].floor, rdbuf[b].data)
             /\ IF b \notin {rdcache[i] : i \in DOMAIN rdcache}
                THEN rdbroken' = TRUE /\ UNCHANGED rdlists
                ELSE /\ rdbuf' = [rdbuf EXCEPT ![b].ref = @ - 1]
                     /\ rdcache' = IF gone THEN Drop(rdcache, b) ELSE rdcache
                     /\ rdfree' = IF gone THEN <<b>> \o rdfree ELSE rdfree
                     /\ UNCHANGED <<rdqueue, rdbroken>>
     /\ UNCHANGED <<rdstate, rdavail, rdreq, rdcomm, rdwritten, rdlast, rdsyncs, rdpanic>>

(* rdswrite takes a buffer of the cache without waiting for it: the count  *)
(* goes down by one; but when all that is there belongs to a process that  *)
(* is just released, semreset refuses the count of -1                      *)
BugRdTakeCached(p, blk, b) ==
  /\ rdcache' = Drop(rdcache, b)
  /\ RdRequest(p, "write", blk, b)
  /\ UNCHANGED <<rdavail, rdfree, rdpanic, rdbroken>>

RdTakeCached(p, blk, b) ==
  /\ rdcache' = Drop(rdcache, b)
  /\ rdavail' = IF rdavail.n >= 1 THEN Sema(rdavail.n - 1) ELSE rdavail
  /\ rdbroken' = (rdavail.n < 1)
  /\ RdRequest(p, "write", blk, b)
  /\ UNCHANGED <<rdfree, rdpanic>>

(* rdswrite *)
RdWrite(p, blk) ==
  LET Of(b) == rdbuf[b].blk = blk
      Pending(b) == Of(b) /\ rdbuf[b].op = "write"
      c == FirstIn(rdcache, Of)
      q == FirstIn(rdqueue, Pending)
  IN /\ RdCalls(p) /\ rdwritten < RdWrites
     /\ IF Has(rdqueue, Pending)
        THEN /\ rdwritten' = rdwritten + 1 /\ rdlast' = [rdlast EXCEPT ![blk] = rdwritten']
             /\ rdbuf' = [rdbuf EXCEPT ![q].data = Content(blk, rdwritten')]
             /\ UNCHANGED <<rdfree, rdqueue, rdcache, rdavail, rdreq, rdproc, rdmail, rdstale,
                            rdsyncs, rdpanic, rdbroken>>
        ELSE IF Has(rdcache, Of) /\ rdbuf[c].ref <= 0 THEN RdTakeCached(p, blk, c)
        ELSE RdObtain(p, "write", blk)
     /\ UNCHANGED <<rdstate, rdcomm>>

(* rdscontrol(RDS_CTL_SYNC) *)
RdSync(p) == /\ RdCalls(p) /\ rdsyncs = 0
             /\ RdObtain(p, "sync", 0)
             /\ UNCHANGED <<rdstate, rdcomm>>

(* rdsclose: only the request queue has to be empty *)
RdCloses == rdqueue = <<>>
RdShut ==
  LET n == Len(rdcache) IN
  /\ rdfree' = [i \in 1 .. n |-> rdcache[n + 1 - i]] \o rdfree
  /\ rdcache' = <<>>
  /\ rdbuf' = [b \in RdBuffers |-> IF Has(rdcache, LAMBDA c : c = b)
                                   THEN [rdbuf[b] EXCEPT !.valid = FALSE] ELSE rdbuf[b]]
  /\ UNCHANGED rdqueue

RdClose(p) == /\ RdCalls(p) /\ RdCloses
              /\ RdShut /\ rdstate' = "free"
              /\ UNCHANGED <<rdavail, rdreq, rdproc, rdmail, rdcomm, rdghost, rdpanic,
                             rdbroken>>

-----------------------------------------------------------------------------
(* Exchanges with the server *)

(* rdscomm starts: the message gets the next sequence number *)
RdComm(a, op) == /\ rdxch' = [rdxch EXCEPT ![a] = [at |-> "send", op |-> op, seq |-> rdseq,
                                                   tries |-> 0]]
                 /\ rdseq' = rdseq + 1

(* rdsopen: after a bad disk ID the state stays as it is *)
RdOpen(p, good) ==
  /\ RdRuns(p, "user") /\ rdstate = "free" /\ rdseq <= RdExchanges
  /\ rdstate' = "pend"
  /\ IF good THEN /\ RdComm(p, "open")
                  /\ rdproc' = [rdproc EXCEPT ![p] = [RdIdle EXCEPT !.at = "comm", !.op = "open"]]
     ELSE UNCHANGED <<rdxch, rdseq, rdproc>>
  /\ UNCHANGED <<rdlists, rdavail, rdreq, rdmail, rdmsg, rdinbox, rdair, rddisk, rdghost,
                 rdpanic, rdbroken>>

(* rdscontrol(RDS_CTL_DEL) *)
RdDelete(p) ==
  /\ RdCalls(p) /\ rdseq <= RdExchanges
  /\ RdComm(p, "delete")
  /\ rdproc' = [rdproc EXCEPT ![p] = [RdIdle EXCEPT !.at = "comm", !.op = "delete"]]
  /\ UNCHANGED <<rdstate, rdlists, rdavail, rdreq, rdmail, rdmsg, rdinbox, rdair, rddisk,
                 rdghost, rdpanic, rdbroken>>

(* rdsprocess takes the first request; a write goes to the cache before it *)
(* is sent, the message of a read has no block number of its own           *)
RdFetch ==
  LET b == Head(rdqueue) IN
  /\ RdGoesOn /\ rdxch[RdComproc].at = "none" /\ rdreq > 0 /\ rdqueue # <<>>
  /\ rdseq <= RdExchanges
  /\ rdreq' = rdreq - 1
  /\ IF rdbuf[b].op = "read" THEN UNCHANGED <<rdlists, rdavail, rdmsg, rdmail>>
     ELSE /\ rdqueue' = Tail(rdqueue) /\ rdavail' = Up(rdavail)
          /\ IF rdbuf[b].op = "sync"
             THEN /\ rdfree' = <<b>> \o rdfree /\ rdmail' = [rdmail EXCEPT ![rdbuf[b].pid] = b]
                  /\ UNCHANGED <<rdcache, rdbuf, rdmsg>>
             ELSE /\ rdcache' = <<b>> \o rdcache /\ rdbuf' = [rdbuf EXCEPT ![b].ref = 0]
                  /\ rdmsg' = rdbuf[b].data
                  /\ UNCHANGED <<rdfree, rdmail>>
  /\ IF rdbuf[b].op = "sync" THEN UNCHANGED <<rdxch, rdseq>> ELSE RdComm(RdComproc, rdbuf[b].op)
  /\ UNCHANGED <<rdstate, rdproc, rdinbox, rdair, rddisk, rdghost, rdpanic, rdbroken>>

(* the rest of rdsprocess after a read. A second request for the block is  *)
(* unlinked through the links of the wrong buffer, whatever it asks for.   *)
RdHaveRead(reply) ==
  LET b == Head(rdqueue) IN
  /\ rdbuf' = [rdbuf EXCEPT ![b].ref = 1, ![b].data = reply.data]
  /\ rdqueue' = Tail(rdqueue) /\ rdcache' = <<b>> \o rdcache
  /\ rdavail' = Up(rdavail)
  /\ rdmail' = [rdmail EXCEPT ![rdbuf[b].pid] = b]
  /\ rdbroken' = Has(Tail(rdqueue), LAMBDA c : rdbuf[c].blk = rdbuf[b].blk)
  /\ UNCHANGED <<rdfree, rdproc, rdstate>>

(* what the callers of rdscomm make of its result *)
RdOutcome(a, ok, reply) ==
  /\ rdxch' = [rdxch EXCEPT ![a] = NoExchange]
  /\ IF a = RdComproc
     THEN IF ~ok THEN rdbroken' = TRUE /\ UNCHANGED <<rdstate, rdlists, rdavail, rdproc, rdmail>>
          ELSE IF rdxch[a].op = "read" THEN RdHaveRead(reply)
          ELSE UNCHANGED <<rdstate, rdlists, rdavail, rdproc, rdmail, rdbroken>>
     ELSE /\ RdReturn(a) /\ UNCHANGED <<rdavail, rdmail, rdbroken>>
          /\ IF rdxch[a].op = "open"
             THEN rdstate' = (IF ok THEN "open" ELSE "free") /\ UNCHANGED rdlists
             ELSE IF ok /\ rdstate = "open" /\ RdCloses THEN RdShut /\ rdstate' = "free"
             ELSE UNCHANGED <<rdstate, rdlists>>

(* One round of rdscomm: the message is sent, and the process waits at the *)
(* UDP slot, where udp_recv refuses it if somebody waits. The server gets  *)
(* the message or not; its answer comes at once, later, or not at all.     *)
RdTransmit(a) ==
  LET x == rdxch[a]
      written == IF x.op = "write"
                 THEN [rddisk EXCEPT ![rdmsg.blk] = rdmsg.by] ELSE rddisk
      reply(ok) == [seq |-> x.seq, op |-> x.op, ok |-> ok,
                    data |-> Content(rdmsg.blk, rddisk[rdmsg.blk])]
      next == [rdxch EXCEPT ![a].at = "recv", ![a].tries = @ + 1] IN
  /\ RdGoesOn /\ x.at = "send"
  /\ IF x.tries = RD_RETRIES \/ \E c \in RdActors : rdxch[c].at = "recv"
     THEN RdOutcome(a, FALSE, reply(FALSE))
     ELSE rdxch' = next /\ UNCHANGED <<rdstate, rdlists, rdavail, rdproc, rdmail, rdbroken>>
  /\ \/ UNCHANGED <<rdinbox, rdair, rddisk>>
     \/ \E ok \in IF a = RdComproc THEN {TRUE} ELSE BOOLEAN :
          /\ x.tries < RD_RETRIES
          /\ rddisk' = written
          /\ \/ rdinbox' = Append(rdinbox, reply(ok)) /\ UNCHANGED rdair
             \/ rdair = {} /\ rdair' = {reply(ok)} /\ UNCHANGED rdinbox
  /\ UNCHANGED <<rdreq, rdseq, rdmsg, rdghost, rdpanic>>

RdArrive == \E m \in rdair : /\ rdinbox' = Append(rdinbox, m) /\ rdair' = rdair \ {m}
                             /\ UNCHANGED <<rdstate, rdlists, rdavail, rdreq, rdproc, rdmail, rdseq,
                                            rdmsg, rdxch, rddisk, rdghost, rdpanic, rdbroken>>

(* the reply in hand: one with an earlier number is taken for an answer    *)
RdAnswers(m, x) == m.seq <= x.seq /\ m.op = x.op

RdReply(a) ==
  LET m == Head(rdinbox) IN
  /\ RdGoesOn /\ rdxch[a].at = "recv" /\ rdinbox # <<>>
  /\ rdinbox' = Tail(rdinbox)
  /\ IF RdAnswers(m, rdxch[a]) THEN RdOutcome(a, m.ok, m)
     ELSE /\ rdxch' = [rdxch EXCEPT ![a].at = "send"]
          /\ UNCHANGED <<rdstate, rdlists, rdavail, rdproc, rdmail, rdbroken>>
  /\ UNCHANGED <<rdreq, rdseq, rdmsg, rdair, rddisk, rdghost, rdpanic>>

RdTimeout(a) ==
  /\ RdGoesOn /\ rdxch[a].at = "recv" /\ rdinbox = <<>>
  /\ rdxch' = [rdxch EXCEPT ![a].at = "send"]
  /\ UNCHANGED <<rdstate, rdlists, rdavail, rdreq, rdproc, rdmail, rdseq, rdmsg, rdinbox,
                 rdair, rddisk, rdghost, rdpanic, rdbroken>>

RdNext ==
  \/ \E p \in Procs : \/ \E blk \in RdBlocks : RdRead(p, blk) \/ RdWrite(p, blk)
                        \/ RdAllocated(p) \/ RdReceive(p) \/ RdSync(p) \/ RdClose(p) \/ RdDelete(p)
                        \/ \E good \in BOOLEAN : RdOpen(p, good)
  \/ RdFetch \/ RdArrive
  \/ \E a \in RdActors : RdTransmit(a) \/ RdReply(a) \/ RdTimeout(a)

RdSpec == RdInit /\ [][RdNext]_rdvars

-----------------------------------------------------------------------------

RdTypeOK ==
  /\ rdstate \in {"free", "pend", "open"} /\ rdreq \in Nat
  /\ rdmail \in [Procs -> RdBuffers \cup {0}]
  /\ DOMAIN rdcache \cup DOMAIN rdqueue \cup DOMAIN rdfree \subseteq RdBuffers

RdWoken == {p \in Procs : rdproc[p].at = "alloc" /\ p \notin Waiters(rdavail)}
RdReading == rdxch[RdComproc].at # "none" /\ rdxch[RdComproc].op = "read"

(* Until the state is corrupt: a buffer is on one list; the semaphore      *)
(* counts the free buffers and the whole cache, those included that        *)
(* released processes have not taken yet; every request has its signal,    *)
(* but for the syncs; and who waits for a block has a request or an        *)
(* answer. The count does not say that a buffer can be had: an entry of    *)
(* the cache stays in use until the reader it was sent to runs, and        *)
(* rdsbufalloc panics when it finds only such entries.                     *)
RdKept == ~rdbroken =>
  /\ SemaOK(rdavail)
  /\ LET all == rdfree \o rdqueue \o rdcache
     IN Len(all) = RD_BUFFS /\ {all[i] : i \in DOMAIN all} = RdBuffers
  /\ Available(rdavail) + Cardinality(RdWoken) = Len(rdfree) + Len(rdcache)
  /\ Len(rdqueue) <= rdreq + rdsyncs + IF RdReading THEN 1 ELSE 0
  /\ \A p \in Procs : rdproc[p].at = "receive" =>
       rdmail[p] # 0 \/ Has(rdqueue, LAMBDA b : rdbuf[b].pid = p /\ rdbuf[b].op = rdproc[p].op)
  /\ \A i \in DOMAIN rdcache : rdbuf[rdcache[i]].ref > 0 =>
       \E p \in Procs : rdproc[p].at = "receive" /\ rdproc[p].op = "read" /\ rdmail[p] = rdcache[i]
  /\ rdpanic => rdfree = <<>> /\ \A i \in DOMAIN rdcache : rdbuf[rdcache[i]].ref > 0

(* "Read a block from a remote disk", "Block number of block to read"      *)
(* (rdsread.c): what a process has read is the block it asked for, no      *)
(* older than the last write that was accepted before.                     *)
RdFresh == RdGoesOn => ~rdstale
=============================================================================
