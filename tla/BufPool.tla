------------------------------ MODULE BufPool ------------------------------
(***************************************************************************)
(* Buffer pools (mkbufpool.c, getbuf.c, freebuf.c, bufinit.c): a list of   *)
(* free buffers per pool and a semaphore that counts them. A buffer that   *)
(* is handed out carries the number of its pool, by which freebuf finds    *)
(* its way back.                                                           *)
(***************************************************************************)
EXTENDS Semas, SequencesExt

CONSTANTS NBPOOLS,    \* entries of buftab
          PoolSizes,  \* numbers of buffers mkbufpool is called with
          BpMemory,   \* buffers there is memory for
          BpSems      \* semaphores that are left

ASSUME BufPoolAssumption == NBPOOLS \in Nat /\ PoolSizes \subseteq Nat \ {0} /\ BpMemory \in Nat

VARIABLES buftab,   \* the pools made so far: [free, sem, all]
          bpmem,    \* first unused address; addresses stand for buffers
          bpsems,
          bpat,     \* [p -> the pool p waits for, else 0]
          bphas     \* buffers a process holds: [buf, id], id its first word

bpvars == <<buftab, bpmem, bpsems, bpat, bphas>>

(* bufinit: no pools *)
BpInit ==
  /\ buftab = <<>> /\ bpmem = 0 /\ bpsems = BpSems
  /\ bpat = [p \in Procs |-> 0]
  /\ bphas = [p \in Procs |-> {}]

BpBlocked == UNION {Waiters(buftab[i].sem) : i \in DOMAIN buftab}

BpInUser(p) == bpat[p] = 0

(* the links run through the buffers in the order of their addresses *)
BpLinked(n) == [k \in 1 .. n |-> bpmem + k]

(* mkbufpool: memory first, then the semaphore; without one the number of  *)
(* the pool is given back and the memory is not                            *)
Mkbufpool(p, n) ==
  /\ BpInUser(p) /\ Len(buftab) < NBPOOLS /\ bpmem + n <= BpMemory
  /\ bpmem' = bpmem + n
  /\ \/ /\ bpsems > 0
        /\ bpsems' = bpsems - 1
        /\ buftab' = Append(buftab, [free |-> BpLinked(n), sem |-> Sema(n),
                                     all |-> {bpmem + k : k \in 1 .. n}])
     \/ bpsems = 0 /\ UNCHANGED <<bpsems, buftab>>
  /\ UNCHANGED <<bpat, bphas>>

(* getbuf behind its wait, e being the pool's entry *)
BpTake(p, i, e) ==
  /\ buftab' = [buftab EXCEPT ![i] = [e EXCEPT !.free = Tail(@)]]
  /\ bphas' = [bphas EXCEPT ![p] = @ \cup {[buf |-> Head(e.free), id |-> i]}]
  /\ bpat' = [bpat EXCEPT ![p] = 0]

Getbuf(p, i) ==
  LET e == [buftab[i] EXCEPT !.sem = Down(@, p)] IN
  /\ BpInUser(p)
  /\ IF Blocks(buftab[i].sem)
     THEN /\ buftab' = [buftab EXCEPT ![i] = e]
          /\ bpat' = [bpat EXCEPT ![p] = i]
          /\ UNCHANGED bphas
     ELSE BpTake(p, i, e)
  /\ UNCHANGED <<bpmem, bpsems>>

GetbufResume(p) ==
  /\ bpat[p] # 0 /\ p \notin BpBlocked
  /\ BpTake(p, bpat[p], buftab[bpat[p]])
  /\ UNCHANGED <<bpmem, bpsems>>

BugFreebuf(p, b) ==
  /\ BpInUser(p) /\ b \in bphas[p]
  /\ buftab' = [buftab EXCEPT ![Len(buftab)] = [@ EXCEPT !.free = <<b.buf>> \o @, !.sem = Up(@)]]
  /\ bphas' = [bphas EXCEPT ![p] = @ \ {b}]
  /\ UNCHANGED <<bpmem, bpsems, bpat>>

(* freebuf, of a buffer the caller holds or was given by one who held it *)
Freebuf(p, b) ==
  LET e == buftab[b.id] IN
  /\ BpInUser(p) /\ b \in bphas[p]
  /\ buftab' = [buftab EXCEPT ![b.id] = [e EXCEPT !.free = <<b.buf>> \o @, !.sem = Up(@)]]
  /\ bphas' = [bphas EXCEPT ![p] = @ \ {b}]
  /\ UNCHANGED <<bpmem, bpsems, bpat>>

BpPass(p, r, b) ==
  /\ p # r /\ b \in bphas[p]
  /\ BpInUser(p)
  /\ bphas' = [bphas EXCEPT ![p] = @ \ {b}, ![r] = @ \cup {b}]
  /\ UNCHANGED <<buftab, bpmem, bpsems, bpat>>

BpNext ==
  \E p \in Procs :
    \/ \E n \in PoolSizes : Mkbufpool(p, n)
    \/ \E i \in DOMAIN buftab : Getbuf(p, i)
    \/ GetbufResume(p)
    \/ \E b \in bphas[p] : Freebuf(p, b) \/ \E r \in Procs : BpPass(p, r, b)

BpSpec == BpInit /\ [][BpNext]_bpvars

----------------------------------------------------------------------------

BpTypeOK ==
  /\ \A i \in DOMAIN buftab : SemaOK(buftab[i].sem) /\ IsInjective(buftab[i].free)
  /\ Len(buftab) <= NBPOOLS /\ bpmem \in 0 .. BpMemory /\ bpsems \in 0 .. BpSems
  /\ bpat \in [Procs -> 0 .. Len(buftab)]

BpHeld(i) == {b.buf : b \in {x \in UNION {bphas[p] : p \in Procs} : x.id = i}}

(* Every buffer is in its own pool's list or with exactly one holder, and  *)
(* whoever was let through by the pool's semaphore finds a buffer: getbuf  *)
(* follows bpnext without a test, after others may have run.               *)
BpAccounted ==
  /\ \A p, r \in Procs : p # r => bphas[p] \cap bphas[r] = {}
  /\ \A i \in DOMAIN buftab :
       LET e == buftab[i] IN
       /\ Range(e.free) \cap BpHeld(i) = {} /\ Range(e.free) \cup BpHeld(i) = e.all
       /\ Len(e.free) = Available(e.sem)
                          + Cardinality({p \in Procs \ BpBlocked : bpat[p] = i})
============================================================================
