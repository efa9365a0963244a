-------------------------------- MODULE Rfs --------------------------------
(***************************************************************************)
(* The remote file system (device/rfs). One semaphore admits one process   *)
(* at a time, for a whole operation with its exchange with the server.     *)
(* Reads and writes are of one byte. The server is external: each copy of  *)
(* a request reaches it or not, at once or late, also when the exchange is *)
(* over; it carries the request out or refuses it, and its answer comes at *)
(* once, late, or never. A request that is sent again names the same       *)
(* position and the same byte.                                             *)
(***************************************************************************)
EXTENDS Semas, FileModes

CONSTANTS Nrfl, RF_RETRIES,
          RfNames, RfModes,     \* file names; mode strings
          RfFunctions,          \* what rfscontrol is called for
          RfQueue,              \* UDP_QSIZ: replies that wait in the UDP slot
          RfWrites, RfExchanges \* bounds: bytes written (they are numbered), exchanges

RfClears == {"truncate", "delete"}
RfControls == RfClears \cup {"mkdir", "rmdir", "size"}

ASSUME RfsAssumption == /\ Nrfl \in Nat \ {0} /\ RF_RETRIES \in Nat \ {0} /\ RfWrites \in Nat
                        /\ RfFunctions \subseteq RfControls

VARIABLES rfltab, rf_mutex, rf_seq, rf_registered,
          rfproc,          \* [p -> where it is, its request, sequence number, tries]
          rfasked,         \* [sequence number, request] on the way to the server
          rfinbox, rfair,  \* replies in the UDP slot; a late one, which may never come
          rfdisk,          \* the server's files: [name -> [position -> byte]], 0 for none
          rfmay,           \* what a position may hold, going by what the callers were told
          rfbytes,         \* bytes written
          rfredone,        \* places that a request has changed after its exchange was over
          rfwrong          \* a read has given what the position cannot hold

rfnet == <<rfasked, rfinbox, rfair, rfdisk, rfredone>>
rfcomm == <<rf_seq, rf_registered>>
rfvars == <<rfltab, rf_mutex, rfcomm, rfproc, rfnet, rfmay, rfbytes, rfwrong>>

RfDevs == 0 .. Nrfl - 1
RfPositions == 0 .. RfWrites
NoRequest == [op |-> "none", dev |-> 0, name |-> "", bits |-> {}, pos |-> 0, byte |-> 0]
RfUser == [at |-> "user", req |-> NoRequest, seq |-> 0, tries |-> 0]

(* rfsinit, rflinit *)
RfInit == /\ rfltab = [d \in RfDevs |-> [used |-> FALSE, name |-> "", pos |-> 0, mode |-> {}]]
          /\ rf_mutex = Sema(1) /\ rf_seq = 1 /\ rf_registered = FALSE
          /\ rfproc = [p \in Procs |-> RfUser]
          /\ rfasked = {} /\ rfinbox = <<>> /\ rfair = {} /\ rfredone = {}
          /\ rfdisk = [n \in RfNames |-> [i \in RfPositions |-> 0]]
          /\ rfmay = [n \in RfNames |-> [i \in RfPositions |-> {0}]]
          /\ rfbytes = 0 /\ rfwrong = FALSE

RfAt(p, at) == rfproc[p].at = at /\ p \notin Waiters(rf_mutex)

(* signal(rf_mutex) and return *)
RfExit(p) == /\ rf_mutex' = Up(rf_mutex)
             /\ rfproc' = [rfproc EXCEPT ![p] = RfUser]

-----------------------------------------------------------------------------
(* Operations behind their wait for the semaphore. m is the semaphore as   *)
(* the wait has left it.                                                   *)

RfLeave(p, m) == /\ rf_mutex' = Up(m) /\ rfproc' = [rfproc EXCEPT ![p] = RfUser]
                 /\ UNCHANGED rfcomm

(* rfscomm, rfsndmsg: the message gets the next sequence number, if the    *)
(* port is registered; the first exchange may fail to do so                *)
RfComm(p, m, r) ==
  \/ /\ rf_mutex' = m
     /\ rfproc' = [rfproc EXCEPT ![p] = [at |-> "send", req |-> r, seq |-> rf_seq, tries |-> 0]]
     /\ rf_seq' = rf_seq + 1 /\ rf_registered' = TRUE
  \/ ~rf_registered /\ RfLeave(p, m)
RfStay(p, m, r) == RfComm(p, m, r) /\ UNCHANGED rfltab

RfFree == {d \in RfDevs : ~rfltab[d].used}

(* rfsopen: the name is in the table before the mode and the server refuse *)
RfEnterOpen(p, m, r) ==
  LET d == CHOOSE e \in RfFree : \A f \in RfFree : e <= f IN
  IF RfFree = {} THEN RfLeave(p, m) /\ UNCHANGED rfltab
  ELSE /\ rfltab' = [rfltab EXCEPT ![d].name = r.name, ![d].mode = r.bits]
       /\ IF r.bits = BadMode THEN RfLeave(p, m)
          ELSE RfComm(p, m, [r EXCEPT !.dev = d])

(* rflread, rflwrite *)
RfEnterData(p, m, r) ==
  LET f == rfltab[r.dev] IN
  IF f.used /\ r.op \in f.mode /\ f.pos \in RfPositions
  THEN RfStay(p, m, [r EXCEPT !.name = f.name, !.pos = f.pos])
  ELSE RfLeave(p, m) /\ UNCHANGED rfltab

(* rflclose, rflseek *)
RfEnterClose(p, m, r) ==
  /\ rfltab' = [rfltab EXCEPT ![r.dev].used = FALSE] /\ RfLeave(p, m)
RfEnterSeek(p, m, r) ==
  /\ rfltab' = IF rfltab[r.dev].used THEN [rfltab EXCEPT ![r.dev].pos = r.pos] ELSE rfltab
  /\ RfLeave(p, m)

RfEnter(p, m, r) == /\ CASE r.op = "open" -> RfEnterOpen(p, m, r)
                         [] r.op \in {"r", "w"} -> RfEnterData(p, m, r)
                         [] r.op = "close" -> RfEnterClose(p, m, r)
                         [] r.op = "seek" -> RfEnterSeek(p, m, r)
                         [] OTHER -> RfStay(p, m, r)  \* rfscontrol
                    /\ UNCHANGED <<rfnet, rfmay, rfwrong>>

RfAsking(ops, devs, names, bits) ==
  [op : ops, dev : devs, name : names, bits : bits, pos : {0}, byte : {0}]
RfRequests ==
  RfAsking({"open"}, {0}, RfNames, {GetMode(mode) : mode \in RfModes})
  \cup RfAsking({"r", "w", "close", "seek"}, RfDevs, {""}, {{}})
  \cup RfAsking(RfFunctions, {0}, RfNames, {{}})

RfIdle(p) == RfAt(p, "user") /\ rf_seq <= RfExchanges

(* a process calls; a byte that is written is a new one *)
RfCall(p, q) ==
  LET r == [q EXCEPT !.byte = rfbytes + 1] IN
  /\ q.op = "w" => rfbytes < RfWrites
  /\ rfbytes' = rfbytes + IF q.op = "w" THEN 1 ELSE 0
  /\ IF Blocks(rf_mutex)
     THEN /\ rf_mutex' = Down(rf_mutex, p)
          /\ rfproc' = [rfproc EXCEPT ![p] = [RfUser EXCEPT !.at = "mutex", !.req = r]]
          /\ UNCHANGED <<rfltab, rfcomm, rfnet, rfmay, rfwrong>>
     ELSE RfEnter(p, Down(rf_mutex, p), r)

RfEntered(p) == /\ RfAt(p, "mutex")
                /\ RfEnter(p, rf_mutex, rfproc[p].req)
                /\ UNCHANGED rfbytes

-----------------------------------------------------------------------------
(* Exchanges *)

(* what a request makes of a file at the server *)
Changes(r) == CASE r.op = "w" -> {<<r.name, r.pos>>}
                [] r.op \in RfClears -> {r.name} \X RfPositions
                [] OTHER -> {}
NewByte(r) == IF r.op = "w" THEN r.byte ELSE 0
Carry(r, file) ==
  [i \in RfPositions |-> IF <<r.name, i>> \in Changes(r) THEN NewByte(r) ELSE file[i]]

(* after a failure nobody knows whether the server has done it *)
RfLearn(r, ok) ==
  rfmay' = [rfmay EXCEPT ![r.name] = [i \in RfPositions |->
    IF <<r.name, i>> \notin Changes(r) THEN @[i]
    ELSE {NewByte(r)} \cup IF ok THEN {} ELSE @[i]]]

(* the rest of the operations once rfscomm has returned *)
RfOutcome(p, ok, m) ==
  LET r == rfproc[p].req IN
  /\ RfExit(p)
  /\ rfltab' = CASE r.op = "open" /\ ok -> [rfltab EXCEPT ![r.dev].used = TRUE, ![r.dev].pos = 0]
                 [] r.op \in {"r", "w"} /\ ok -> [rfltab EXCEPT ![r.dev].pos = @ + m.len]
                 [] OTHER -> rfltab
  /\ IF r.op \in {"w"} \cup RfClears THEN RfLearn(r, ok) ELSE UNCHANGED rfmay
  /\ rfwrong' = (rfwrong \/ (/\ r.op = "r" /\ ok /\ <<r.name, r.pos>> \notin rfredone
                               /\ m.byte \notin rfmay[r.name][r.pos]))

(* external: a reply that finds the queue of the UDP slot full is dropped  *)
RfQueued(m) == IF Len(rfinbox) < RfQueue THEN Append(rfinbox, m) ELSE rfinbox

(* external: the server has got a copy of the request                      *)
RfServed(x) ==
  LET r == x.req
      byte == IF r.op = "r" THEN rfdisk[r.name][r.pos] ELSE 0 IN
  \E ok \in BOOLEAN :
    LET m == [seq |-> x.seq, op |-> r.op, ok |-> ok, byte |-> byte,
              len |-> IF r.op = "w" \/ byte # 0 THEN 1 ELSE 0] IN
    /\ rfdisk' = IF ok THEN [rfdisk EXCEPT ![r.name] = Carry(r, @)] ELSE rfdisk
    /\ \/ rfinbox' = RfQueued(m) /\ UNCHANGED rfair
       \/ rfair = {} /\ rfair' = {m} /\ UNCHANGED rfinbox

(* one round of rfscomm: the request is sent, and is lost, gets to the     *)
(* server, or will do so later                                             *)
RfTransmit(p) ==
  LET x == rfproc[p] IN
  /\ RfAt(p, "send") /\ x.tries < RF_RETRIES
  /\ rfproc' = [rfproc EXCEPT ![p].at = "recv", ![p].tries = @ + 1]
  /\ \/ UNCHANGED <<rfasked, rfinbox, rfair, rfdisk>>
     \/ RfServed(x) /\ UNCHANGED rfasked
     \/ rfasked = {} /\ rfasked' = {[seq |-> x.seq, req |-> x.req]} /\ UNCHANGED <<rfinbox, rfair, rfdisk>>
  /\ UNCHANGED <<rfltab, rf_mutex, rfcomm, rfredone, rfmay, rfbytes, rfwrong>>

(* after the last round, or when udp_send refuses, the exchange has failed *)
RfGiveUp(p) ==
  /\ RfAt(p, "send")
  /\ RfOutcome(p, FALSE, [seq |-> 0, op |-> "none", ok |-> FALSE, byte |-> 0, len |-> 0])
  /\ UNCHANGED <<rfcomm, rfnet, rfbytes>>

RfServe ==
  \E x \in rfasked :
    LET over == \A p \in Procs : rfproc[p].at \in {"send", "recv"} => rfproc[p].seq # x.seq IN
    /\ rfasked' = {} /\ RfServed(x)
    /\ rfredone' = IF over /\ rfdisk' # rfdisk THEN rfredone \cup Changes(x.req) ELSE rfredone
    /\ UNCHANGED <<rfltab, rf_mutex, rfcomm, rfproc, rfmay, rfbytes, rfwrong>>

RfArrive == \E m \in rfair : /\ rfinbox' = RfQueued(m) /\ rfair' = {}
                             /\ UNCHANGED <<rfltab, rf_mutex, rfcomm, rfproc, rfasked, rfdisk,
                                            rfredone, rfmay, rfbytes, rfwrong>>

BugRfAnswers(m, x) == m.seq <= x.seq /\ m.op = x.req.op

(* the reply in hand has the number and the type that go with the request *)
RfAnswers(m, x) == m.seq = x.seq /\ m.op = x.req.op

RfReply(p) ==
  LET m == Head(rfinbox) IN
  /\ RfAt(p, "recv") /\ rfinbox # <<>>
  /\ rfinbox' = Tail(rfinbox)
  /\ IF RfAnswers(m, rfproc[p]) THEN RfOutcome(p, m.ok, m)
     ELSE /\ rfproc' = [rfproc EXCEPT ![p].at = "send"]
          /\ UNCHANGED <<rfltab, rf_mutex, rfmay, rfwrong>>
  /\ UNCHANGED <<rfcomm, rfasked, rfair, rfdisk, rfredone, rfbytes>>

RfTimeout(p) ==
  /\ RfAt(p, "recv") /\ rfinbox = <<>>
  /\ rfproc' = [rfproc EXCEPT ![p].at = "send"]
  /\ UNCHANGED <<rfltab, rf_mutex, rfcomm, rfnet, rfmay, rfbytes, rfwrong>>

RfRun(p) == \/ RfIdle(p) /\ \E r \in RfRequests : RfCall(p, r)
            \/ RfEntered(p) \/ RfTransmit(p) \/ RfGiveUp(p) \/ RfReply(p) \/ RfTimeout(p)
RfNext == (\E p \in Procs : RfRun(p)) \/ RfServe \/ RfArrive

RfSpec == RfInit /\ [][RfNext]_rfvars

-----------------------------------------------------------------------------

RfTypeOK == /\ SemaOK(rf_mutex) /\ rf_seq \in Nat \ {0}
            /\ \A d \in RfDevs : rfltab[d].pos \in Nat

RfBusy == {p \in Procs \ Waiters(rf_mutex) : rfproc[p].at # "user"}

RfTalking == {p \in Procs : rfproc[p].at \in {"send", "recv"}}

(* rfscomm, rflread, rflwrite, rfscontrol: over a network that loses and   *)
(* delays requests and replies, with requests sent again, every read gives *)
(* the byte that the operations before it have left at the position of the *)
(* file, and the server's files are what the callers have reason to        *)
(* believe, but for a place that a copy of a request has changed once more *)
(* after its exchange was over. One process at a time is inside.           *)
RfReadsWritten ==
  /\ ~rfwrong
  /\ Available(rf_mutex) + Cardinality(RfBusy) = 1
  /\ \A n \in RfNames, i \in RfPositions :
        \/ rfdisk[n][i] \in rfmay[n][i]
        \/ <<n, i>> \in rfredone
        \/ \E p \in RfTalking : LET r == rfproc[p].req IN
              <<n, i>> \in Changes(r) /\ rfdisk[n][i] = NewByte(r)

=============================================================================
