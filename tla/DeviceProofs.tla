---------------------------- MODULE DeviceProofs ----------------------------
(***************************************************************************)
(* Proof that ports keep their promises, for any number of ports,          *)
(* processes and message nodes: no message crosses a reset, who is let     *)
(* through by a semaphore finds what it promised, and the shared nodes are *)
(* all accounted for, whatever sends, receives, resets and deletions       *)
(* overlap.                                                                *)
(*                                                                         *)
(* PtInv counts, for each port in its present life, what its two           *)
(* semaphores have left, what they have granted to callers that have not   *)
(* run since, and the messages in its list; a caller of an earlier life is *)
(* recognised by the port's sequence number alone.                         *)
(*                                                                         *)
(* Proof that the process ring counts down, for any number of elements and *)
(* rounds. RgInv says that there is one turn, which an element has or a    *)
(* semaphore keeps, and that the number that goes around with it is one    *)
(* less than the last that was printed.                                    *)
(*                                                                         *)
(* Proof that the remote disk loses no buffer and no request, for any      *)
(* number of buffers, blocks and callers. RdInv says that the three lists  *)
(* together have as many places as the table has buffers and that every    *)
(* buffer has one of them, so that none is on two (RdApartIs); that the    *)
(* semaphore is short of the buffers that can be had by those who have     *)
(* been let through; that the request being served stays at the head of    *)
(* the queue; and that who waits for a block has its request in the queue  *)
(* or its answer.                                                          *)
(***************************************************************************)
EXTENDS Ports, Ring, Rds, ServiceProofs

PtSema == [n : Int, q : Seq(Procs)]
PtEntry == [state : PtStates, seq : Nat, maxcnt : Nat, msgs : Seq(Nat), ssem : PtSema, rsem : PtSema]
PtClearing == {"reset", "delete", "reset2", "delete2", "reset3", "delete3"}
PtCall == [at : {"user", "send", "recv", "received"} \cup PtClearing, port : Portids,
           seq : Nat, msg : Nat]

PtTypes ==
  /\ porttab \in [Portids -> PtEntry] /\ ptfree \in Nat /\ ptnextid \in Portids
  /\ ptcall \in [Procs -> PtCall] /\ ptpanic \in BOOLEAN

(* Call c waits for, was let through by, or clears port d. *)
PtBusy(c, d) == c.port = d /\ c.at \notin {"user", "received"}

(* Who was let through by a semaphore of the port in the port's present    *)
(* life and has not run since                                              *)
PtPassed(d, at, s) == {p \in Procs \ Waiters(s) : ptcall[p].at = at /\ ptcall[p].port = d
                                                  /\ ptcall[p].seq = porttab[d].seq}

(* The queues hold callers of the port, of its present life. *)
PtQueuesAgree(d) ==
  LET e == porttab[d] IN
  /\ SemaSound(e.ssem) /\ SemaSound(e.rsem)
  /\ \A p \in Waiters(e.ssem) : ptcall[p].at = "send" /\ ptcall[p].port = d
  /\ \A p \in Waiters(e.rsem) : ptcall[p].at = "recv" /\ ptcall[p].port = d
  /\ e.state = "alloc" => \A p \in Waiters(e.ssem) \cup Waiters(e.rsem) : ptcall[p].seq = e.seq

(* No call is of a later life, or of one that has not begun, and the       *)
(* messages are of the present one.                                        *)
PtLives(d) ==
  LET e == porttab[d] IN
  /\ \A p \in Procs : ptcall[p].at \in {"send", "recv"} /\ ptcall[p].port = d =>
       ptcall[p].seq <= e.seq /\ (e.state # "alloc" => ptcall[p].seq < e.seq)
  /\ e.state = "alloc" => \A i \in 1 .. Len(e.msgs) : e.msgs[i] = e.seq

(* What the semaphores promise *)
PtCounted(d) ==
  LET e == porttab[d] IN
  e.state = "alloc" =>
    /\ Len(e.msgs) = Available(e.rsem) + Cardinality(PtPassed(d, "recv", e.rsem))
    /\ e.maxcnt = Len(e.msgs) + Available(e.ssem) + Cardinality(PtPassed(d, "send", e.ssem))

(* One process clears a port in limbo, and how far it has come shows.      *)
PtClearers(d) == {p \in Procs : ptcall[p].at \in PtClearing /\ ptcall[p].port = d}
PtLimbo(d) ==
  LET e == porttab[d] IN
  /\ e.state = "limbo" <=> PtClearers(d) # {}
  /\ \A p, r \in PtClearers(d) : p = r
  /\ e.state = "limbo" => Len(e.msgs) <= e.maxcnt
  /\ e.state = "free" => e.msgs = <<>> /\ Waiters(e.ssem) = {} /\ Waiters(e.rsem) = {}
  /\ \A p \in PtClearers(d) : ptcall[p].at \notin {"reset", "delete"} =>
       /\ e.msgs = <<>>
       /\ e.ssem = Sema(IF ptcall[p].at \in {"reset2", "reset3"} THEN e.maxcnt ELSE 0)
       /\ ptcall[p].at \in {"reset3", "delete3"} => e.rsem = Sema(0)

PtPortOK(d) == PtQueuesAgree(d) /\ PtLives(d) /\ PtCounted(d) /\ PtLimbo(d)

(* What is sent and what was received are of the life the caller saw. *)
PtCallOK(c) == c.at \in {"send", "received"} => c.msg = c.seq

PtInv == /\ PtTypes /\ PtNodesKept
         /\ \A d \in Portids : PtPortOK(d)
         /\ \A p \in Procs : PtCallOK(ptcall[p])

-----------------------------------------------------------------------------
(* Sums over the ports. That the sum exists is shown by looking at the     *)
(* least number of ports for which it would not.                           *)

\* The recursion of PtSums defines a function.
LEMMA PtSumsExists ==
  ASSUME NEW f \in [Portids -> Int]
  PROVE  \E S : S = [n \in 0 .. NPORTS |-> IF n = 0 THEN 0 ELSE S[n - 1] + f[n - 1]]
<1> DEFINE D(m, S) == S = [n \in 0 .. m |-> IF n = 0 THEN 0 ELSE S[n - 1] + f[n - 1]]
           T == {m \in Nat : ~ \E S : D(m, S)}
<1>1. SUFFICES T = {}
  BY PortsAssumption
<1>2. SUFFICES ASSUME T # {}  PROVE FALSE
  OBVIOUS
<1>3. PICK m \in T : \A k \in T : m <= k
  BY <1>2, LeastNat
<1>4. m # 0
  <2>1. D(0, [n \in 0 .. 0 |-> 0])  OBVIOUS
  <2> QED  BY <2>1, <1>3
<1>5. m - 1 \in Nat /\ m - 1 \notin T
  <2>1. m \in Nat  OBVIOUS
  <2> HIDE DEF T
  <2> QED  BY <2>1, <1>3, <1>4
<1>6. PICK S : D(m - 1, S)
  BY <1>5
<1> DEFINE R == [n \in 0 .. m |-> IF n = m THEN S[m - 1] + f[m - 1] ELSE S[n]]
<1>7. \A n \in 0 .. m : R[n] = IF n = 0 THEN 0 ELSE R[n - 1] + f[n - 1]
  <2>1. \A n \in 0 .. m - 1 : S[n] = IF n = 0 THEN 0 ELSE S[n - 1] + f[n - 1]
    BY <1>6
  <2> QED  BY <2>1, <1>4, <1>5
<1>8. D(m, R)
  BY <1>7
<1> QED  BY <1>3, <1>8

\* What the recursion says, and that partial sums are integers.
LEMMA PtSumsType ==
  ASSUME NEW f \in [Portids -> Int]
  PROVE  /\ PtSums(f)[0] = 0
         /\ \A n \in 1 .. NPORTS : PtSums(f)[n] = PtSums(f)[n - 1] + f[n - 1]
         /\ \A n \in 0 .. NPORTS : PtSums(f)[n] \in Int
<1> DEFINE S == PtSums(f)
           T == {n \in 0 .. NPORTS : S[n] \notin Int}
<1>1. S = [n \in 0 .. NPORTS |-> IF n = 0 THEN 0 ELSE S[n - 1] + f[n - 1]]
  BY PtSumsExists, ZenonT(60) DEF PtSums
<1> HIDE DEF S
<1>2. NPORTS \in Nat /\ \A n \in 1 .. NPORTS : n - 1 \in Portids /\ f[n - 1] \in Int
  BY PortsAssumption DEF Portids
<1>3. S[0] = 0 /\ \A n \in 1 .. NPORTS : S[n] = S[n - 1] + f[n - 1]
  BY <1>1, <1>2
<1>4. T = {}
  <2>1. SUFFICES ASSUME T # {}  PROVE FALSE
    OBVIOUS
  <2>2. T \subseteq Nat  BY <1>2
  <2>3. PICK n \in T : \A m \in T : n <= m
    BY <2>1, <2>2, LeastNat
  <2>4. n # 0  BY <2>3, <1>3
  <2>5. n - 1 \in 0 .. NPORTS /\ n - 1 \notin T /\ n \in 1 .. NPORTS
    BY <2>3, <2>4, <1>2
  <2> QED  BY <2>3, <2>5, <1>2, <1>3
<1> QED  BY <1>3, <1>4 DEF S

\* The sums of two functions that differ at one port, up to it and from it on.
LEMMA PtSumChange ==
  ASSUME NEW f \in [Portids -> Int], NEW g \in [Portids -> Int], NEW d \in Portids,
         \A i \in Portids : i # d => g[i] = f[i]
  PROVE  PtSum(g) = PtSum(f) + g[d] - f[d]
<1> DEFINE F == PtSums(f)
           G == PtSums(g)
           Right(n) == G[n] = IF n <= d THEN F[n] ELSE F[n] + g[d] - f[d]
           T == {n \in 0 .. NPORTS : ~Right(n)}
<1>1. /\ F[0] = 0 /\ \A n \in 1 .. NPORTS : F[n] = F[n - 1] + f[n - 1]
      /\ \A n \in 0 .. NPORTS : F[n] \in Int
  BY PtSumsType
<1>2. /\ G[0] = 0 /\ \A n \in 1 .. NPORTS : G[n] = G[n - 1] + g[n - 1]
      /\ \A n \in 0 .. NPORTS : G[n] \in Int
  BY PtSumsType
<1> HIDE DEF F, G
<1>3. /\ NPORTS \in Nat /\ d \in 0 .. NPORTS - 1 /\ f[d] \in Int /\ g[d] \in Int
      /\ \A n \in 1 .. NPORTS : n - 1 \in Portids /\ f[n - 1] \in Int /\ g[n - 1] \in Int
  BY PortsAssumption DEF Portids
<1>4. T = {}
  <2>1. SUFFICES ASSUME T # {}  PROVE FALSE
    OBVIOUS
  <2>2. T \subseteq Nat  BY <1>3
  <2>3. PICK n \in T : \A m \in T : n <= m
    <3> HIDE DEF T
    <3> QED  BY <2>1, <2>2, LeastNat
  <2>4. n # 0
    BY <1>1, <1>2, <1>3, <2>3
  <2>5. n - 1 \in 0 .. NPORTS /\ n - 1 \notin T /\ n \in 1 .. NPORTS
    BY <1>3, <2>3, <2>4
  <2>6. /\ Right(n - 1) /\ G[n] = G[n - 1] + g[n - 1] /\ F[n] = F[n - 1] + f[n - 1]
        /\ F[n - 1] \in Int /\ f[n - 1] \in Int /\ g[n - 1] \in Int
    BY <1>1, <1>2, <1>3, <2>5
  <2>7. CASE n - 1 = d
    BY <1>3, <2>3, <2>5, <2>6, <2>7
  <2>8. CASE n - 1 # d
    <3>1. g[n - 1] = f[n - 1]
      BY <1>3, <2>5, <2>8
    <3> QED  BY <1>3, <2>3, <2>5, <2>6, <2>8, <3>1
  <2> QED  BY <2>7, <2>8
<1>5. Right(NPORTS)
  BY <1>3, <1>4
<1> QED  BY <1>3, <1>5 DEF PtSum, F, G

\* If every summand is at most the other, and one is less, so are the sums.
LEMMA PtSumLess ==
  ASSUME NEW f \in [Portids -> Int], NEW g \in [Portids -> Int], NEW d \in Portids,
         \A i \in Portids : f[i] <= g[i], f[d] < g[d]
  PROVE  PtSum(f) < PtSum(g)
<1> DEFINE F == PtSums(f)
           G == PtSums(g)
           Right(n) == IF n <= d THEN F[n] <= G[n] ELSE F[n] < G[n]
           T == {n \in 0 .. NPORTS : ~Right(n)}
<1>1. /\ F[0] = 0 /\ \A n \in 1 .. NPORTS : F[n] = F[n - 1] + f[n - 1]
      /\ \A n \in 0 .. NPORTS : F[n] \in Int
  BY PtSumsType
<1>2. /\ G[0] = 0 /\ \A n \in 1 .. NPORTS : G[n] = G[n - 1] + g[n - 1]
      /\ \A n \in 0 .. NPORTS : G[n] \in Int
  BY PtSumsType
<1> HIDE DEF F, G
<1>3. /\ NPORTS \in Nat /\ d \in 0 .. NPORTS - 1 /\ f[d] \in Int /\ g[d] \in Int
      /\ \A n \in 1 .. NPORTS : n - 1 \in Portids /\ f[n - 1] \in Int /\ g[n - 1] \in Int
  BY PortsAssumption DEF Portids
<1>4. T = {}
  <2>1. SUFFICES ASSUME T # {}  PROVE FALSE
    OBVIOUS
  <2>2. T \subseteq Nat  BY <1>3
  <2>3. PICK n \in T : \A m \in T : n <= m
    <3> HIDE DEF T
    <3> QED  BY <2>1, <2>2, LeastNat
  <2>4. n # 0
    BY <1>1, <1>2, <1>3, <2>3
  <2>5. n - 1 \in 0 .. NPORTS /\ n - 1 \notin T /\ n \in 1 .. NPORTS
    BY <1>3, <2>3, <2>4
  <2>6. /\ Right(n - 1) /\ G[n] = G[n - 1] + g[n - 1] /\ F[n] = F[n - 1] + f[n - 1]
        /\ F[n - 1] \in Int /\ G[n - 1] \in Int /\ f[n - 1] \in Int /\ g[n - 1] \in Int
        /\ f[n - 1] <= g[n - 1]
    BY <1>1, <1>2, <1>3, <2>5
  <2>7. CASE n - 1 = d
    BY <1>3, <2>3, <2>5, <2>6, <2>7
  <2>8. CASE n - 1 # d
    BY <1>3, <2>3, <2>5, <2>6, <2>8
  <2> QED  BY <2>7, <2>8
<1>5. Right(NPORTS)
  BY <1>3, <1>4
<1> QED  BY <1>3, <1>5 DEF PtSum, F, G

-----------------------------------------------------------------------------
(* One port and one process at a time *)

\* The types of an entry and of a call, field by field.
LEMMA PtFields ==
  ASSUME PtTypes, NEW d \in Portids, NEW p \in Procs
  PROVE  /\ porttab[d] \in PtEntry /\ porttab[d].state \in PtStates /\ porttab[d].seq \in Nat
         /\ porttab[d].maxcnt \in Nat /\ porttab[d].msgs \in Seq(Nat) /\ Len(porttab[d].msgs) \in Nat
         /\ ptcall[p] \in PtCall /\ ptcall[p].port \in Portids /\ ptcall[p].seq \in Nat
         /\ ptcall[p].msg \in Nat
BY DEF PtTypes, PtEntry, PtCall

PtElsewhere(j) == \A q \in Procs : \/ ptcall'[q] = ptcall[q]
                                   \/ ~PtBusy(ptcall[q], j) /\ ~PtBusy(ptcall'[q], j)

\* What happens at other ports does not matter to a port.
LEMMA PtUntouched ==
  ASSUME NEW j \in Portids, PtPortOK(j), porttab'[j] = porttab[j], PtElsewhere(j)
  PROVE  PtPortOK(j)'
<1> DEFINE e == porttab[j]
<1>1. porttab'[j] = e
  OBVIOUS
<1> HIDE DEF e
<1>2. SemaSound(e.ssem) /\ SemaSound(e.rsem)
  BY DEF PtPortOK, PtQueuesAgree, e
<1>3. Waiters(e.ssem) \subseteq Procs /\ Waiters(e.rsem) \subseteq Procs
  BY <1>2, SoundIsOK
<1>4. \A q \in Waiters(e.ssem) \cup Waiters(e.rsem) : ptcall'[q] = ptcall[q]
  BY <1>3 DEF PtPortOK, PtQueuesAgree, PtElsewhere, PtBusy, e
<1>5. PtQueuesAgree(j)'
  BY <1>1, <1>4 DEF PtPortOK, PtQueuesAgree, e
<1>6. PtLives(j)'
  BY <1>1 DEF PtPortOK, PtLives, PtElsewhere, PtBusy, e
<1>7. /\ PtPassed(j, "send", e.ssem)' = PtPassed(j, "send", e.ssem)
      /\ PtPassed(j, "recv", e.rsem)' = PtPassed(j, "recv", e.rsem)
  BY DEF PtPassed, PtElsewhere, PtBusy, e
<1>8. PtCounted(j)'
  BY <1>1, <1>7 DEF PtPortOK, PtCounted, e
<1>9. /\ PtClearers(j)' = PtClearers(j)
      /\ \A q \in PtClearers(j) : ptcall'[q] = ptcall[q]
  BY DEF PtClearers, PtElsewhere, PtBusy, PtClearing
<1>10. PtLimbo(j)'
  BY <1>1, <1>9 DEF PtPortOK, PtLimbo, e
<1> QED  BY <1>5, <1>6, <1>8, <1>10 DEF PtPortOK

\* The nodes when one port gives some to the list or takes some from it.
LEMMA PtNodesMove ==
  ASSUME PtTypes, PtTypes', PtNodesKept, ~ptpanic', NEW d \in Portids,
         \A i \in Portids : i # d => porttab'[i] = porttab[i],
         ptfree' + Len(porttab'[d].msgs) = ptfree + Len(porttab[d].msgs)
  PROVE  PtNodesKept'
<1> DEFINE f == [i \in Portids |-> Len(porttab[i].msgs)]
           g == [i \in Portids |-> Len(porttab'[i].msgs)]
<1>1. f \in [Portids -> Int] /\ g \in [Portids -> Int]
  BY DEF PtTypes, PtEntry
<1>2. \A i \in Portids : i # d => g[i] = f[i]
  OBVIOUS
<1>3. f[d] = Len(porttab[d].msgs) /\ g[d] = Len(porttab'[d].msgs)
  OBVIOUS
<1>4. ptfree + PtSum(f) = PTMSGS
  BY DEF PtNodesKept
<1> HIDE DEF f, g
<1>5. PtSum(g) = PtSum(f) + g[d] - f[d]
  BY <1>1, <1>2, PtSumChange
<1>6. PtSum(f) \in Int /\ f[d] \in Int /\ g[d] \in Int
  BY <1>1, PtSumsType, PortsAssumption DEF PtSum
<1>7. ptfree' + PtSum(g) = PTMSGS
  <2>1. ptfree \in Int /\ ptfree' \in Int
    BY DEF PtTypes
  <2>2. ptfree' + g[d] = ptfree + f[d]
    BY <1>3
  <2> QED  BY <1>4, <1>5, <1>6, <2>1, <2>2, SMTT(30)
<1> QED  BY <1>7 DEF PtNodesKept, g

PtOnly(c, d) == c.port = d \/ c.at \in {"user", "received"}

\* A step of process p at port d keeps the invariant if it keeps that of the port and of
\* the nodes.
LEMMA PtStep ==
  ASSUME PtInv, PtTypes', NEW p \in Procs, NEW d \in Portids, ~ptpanic',
         \A i \in Portids : i # d => porttab'[i] = porttab[i],
         \A q \in Procs : q # p => ptcall'[q] = ptcall[q],
         PtOnly(ptcall[p], d), PtOnly(ptcall'[p], d), PtCallOK(ptcall'[p]),
         ptfree' + Len(porttab'[d].msgs) = ptfree + Len(porttab[d].msgs),
         PtPortOK(d)'
  PROVE  PtInv'
<1>1. PtNodesKept'
  BY PtNodesMove DEF PtInv
<1>2. ASSUME NEW j \in Portids, j # d  PROVE PtPortOK(j)'
  <2>1. PtElsewhere(j)
    BY <1>2 DEF PtElsewhere, PtBusy, PtOnly
  <2> QED  BY <1>2, <2>1, PtUntouched DEF PtInv
<1>3. \A q \in Procs : PtCallOK(ptcall'[q])
  BY DEF PtInv
<1> QED  BY <1>1, <1>2, <1>3 DEF PtInv, PtCallOK

\* The table and the calls when the entry of one port and the call of one process change.
LEMMA PtChanges ==
  ASSUME PtTypes, NEW d \in Portids, NEW e \in PtEntry, porttab' = [porttab EXCEPT ![d] = e]
  PROVE  /\ porttab' \in [Portids -> PtEntry] /\ porttab'[d] = e
         /\ \A i \in Portids : i # d => porttab'[i] = porttab[i]
BY DEF PtTypes

\* A caller gets on with its call, and nobody else does.
LEMMA PtSets ==
  ASSUME PtTypes, NEW p \in Procs, NEW c \in PtCall, PtSet(p, c)
  PROVE  /\ ptcall' \in [Procs -> PtCall] /\ ptcall'[p] = c
         /\ \A q \in Procs : q # p => ptcall'[q] = ptcall[q]
BY DEF PtTypes, PtSet

\* Whoever is in no call waits nowhere, and who has called one port not at another.
LEMMA PtWaitsAt ==
  ASSUME PtInv, NEW d \in Portids, NEW p \in Procs
  PROVE  /\ p \in Waiters(porttab[d].ssem) => ptcall[p].at = "send" /\ ptcall[p].port = d
         /\ p \in Waiters(porttab[d].rsem) => ptcall[p].at = "recv" /\ ptcall[p].port = d
         /\ p \in PtBlocked => ptcall[p].at \in {"send", "recv"}
         /\ ptcall[p].at = "send" /\ ptcall[p].port = d =>
              (p \in PtBlocked <=> p \in Waiters(porttab[d].ssem))
         /\ ptcall[p].at = "recv" /\ ptcall[p].port = d =>
              (p \in PtBlocked <=> p \in Waiters(porttab[d].rsem))
<1>1. \A j \in Portids : /\ p \in Waiters(porttab[j].ssem) => ptcall[p].at = "send" /\ ptcall[p].port = j
                         /\ p \in Waiters(porttab[j].rsem) => ptcall[p].at = "recv" /\ ptcall[p].port = j
  BY DEF PtInv, PtPortOK, PtQueuesAgree
<1> QED  BY <1>1 DEF PtBlocked

\* signal of one of the two semaphores: what it has to give away and whom it has let
\* through are together one more (ptsend.c, ptrecv.c, signal.c).
LEMMA PtUpCounts ==
  ASSUME NEW s, SemaSound(s), NEW G, NEW H, G \subseteq Procs, H \subseteq Procs,
         \A q \in Procs : q \in H <=> (q \in G \/ q \in Waiters(s) \ Waiters(Up(s))),
         G \cap Waiters(s) = {}
  PROVE  /\ Available(Up(s)) + Cardinality(H) = Available(s) + Cardinality(G) + 1
         /\ Available(s) \in Nat /\ Available(Up(s)) \in Nat
         /\ Cardinality(G) \in Nat /\ Cardinality(H) \in Nat
<1> DEFINE h == Head(s.q)
<1>1. /\ s.n \in Int
      /\ s.n >= 0 => Waiters(Up(s)) = {} /\ Waiters(s) = {}
      /\ s.n < 0 => /\ h \in Waiters(s) /\ h \in Procs
                    /\ Waiters(Up(s)) = Waiters(s) \ {h}
  BY UpIs DEF SemaSound
<1>2. /\ Available(s) \in Nat /\ Available(Up(s)) \in Nat
      /\ s.n < 0 => Available(s) = 0 /\ Available(Up(s)) = 0
      /\ s.n >= 0 => Available(Up(s)) = Available(s) + 1
  BY UpAvailable
<1>3. Cardinality(G) \in Nat /\ Cardinality(H) \in Nat
  BY SemasAssumption, FS_Subset, FS_CardinalityType
<1>4. CASE s.n >= 0
  <2>1. H = G
    BY <1>1, <1>4
  <2> QED  BY <1>2, <1>3, <1>4, <2>1
<1>5. CASE s.n < 0
  <2>1. H = G \cup {h} /\ h \notin G /\ h \in Procs
    BY <1>1, <1>5
  <2>2. Cardinality(H) = Cardinality(G) + 1
    BY <2>1, OneMore
  <2> QED  BY <1>2, <1>3, <1>5, <2>2
<1> QED  BY <1>1, <1>4, <1>5

\* No port holds more messages than it has places (ptsend.c, ptcreate.c).
LEMMA PtPlaces ==
  ASSUME PtInv, NEW i \in Portids, porttab[i].state = "alloc"
  PROVE  Len(porttab[i].msgs) <= porttab[i].maxcnt
<1>1. porttab[i].maxcnt \in Nat /\ Len(porttab[i].msgs) \in Nat
  BY DEF PtInv, PtTypes, PtEntry
<1> DEFINE G == PtPassed(i, "send", porttab[i].ssem)
<1>2. /\ porttab[i].maxcnt = Len(porttab[i].msgs) + Available(porttab[i].ssem) + Cardinality(G)
      /\ SemaSound(porttab[i].ssem)
  BY DEF PtInv, PtPortOK, PtCounted, PtQueuesAgree
<1>3. Available(porttab[i].ssem) \in Nat /\ Cardinality(G) \in Nat
  <2>1. G \subseteq Procs
    BY DEF PtPassed
  <2> QED  BY <1>2, <2>1, DownAvailable, FS_Subset, FS_CardinalityType, SemasAssumption
<1> HIDE DEF G
<1> QED  BY <1>1, <1>2, <1>3

\* The ports promise more places than there are nodes if one that has a place left finds
\* no node (ptsend.c).
LEMMA PtPanics ==
  ASSUME PtInv, ptfree = 0, NEW d \in Portids, porttab[d].state = "alloc",
         Len(porttab[d].msgs) < porttab[d].maxcnt
  PROVE  PtSum([i \in Portids |-> IF porttab[i].state = "free" THEN 0 ELSE porttab[i].maxcnt]) > PTMSGS
<1> DEFINE f == [i \in Portids |-> Len(porttab[i].msgs)]
           g == [i \in Portids |-> IF porttab[i].state = "free" THEN 0 ELSE porttab[i].maxcnt]
<1>1. f \in [Portids -> Int] /\ g \in [Portids -> Int]
  BY DEF PtInv, PtTypes, PtEntry
<1>2. ASSUME NEW i \in Portids  PROVE Len(porttab[i].msgs) <= g[i]
  <2>1. /\ porttab[i].state \in PtStates /\ porttab[i].maxcnt \in Nat /\ Len(porttab[i].msgs) \in Nat
        /\ porttab[i] \in PtEntry
    BY DEF PtInv, PtTypes, PtEntry
  <2>2. CASE porttab[i].state = "free"
    BY <2>1, <2>2 DEF PtInv, PtPortOK, PtLimbo
  <2>3. CASE porttab[i].state = "limbo"
    BY <2>1, <2>3 DEF PtInv, PtPortOK, PtLimbo
  <2>4. CASE porttab[i].state = "alloc"
    BY <2>4, PtPlaces
  <2> QED  BY <2>1, <2>2, <2>3, <2>4 DEF PtStates
<1>3. f[d] < g[d] /\ \A i \in Portids : f[i] = Len(porttab[i].msgs)
  OBVIOUS
<1>4. ptfree + PtSum(f) = PTMSGS
  BY DEF PtInv, PtNodesKept
<1> HIDE DEF f, g
<1>5. \A i \in Portids : f[i] <= g[i]
  BY <1>2, <1>3
<1>6. PtSum(f) < PtSum(g) /\ PtSum(f) \in Int /\ PtSum(g) \in Int
  <2>1. PtSum(f) < PtSum(g)
    BY <1>1, <1>3, <1>5, PtSumLess
  <2>2. NPORTS \in 0 .. NPORTS
    BY PortsAssumption
  <2> QED  BY <1>1, <2>1, <2>2, PtSumsType DEF PtSum
<1>7. PtSum(g) > PTMSGS
  BY <1>4, <1>6, PortsAssumption
<1> QED  BY <1>7 DEF g

(* An entry written out field by field *)
PtRec(a, b, c, m, s, r) == [state |-> a, seq |-> b, maxcnt |-> c, msgs |-> m, ssem |-> s, rsem |-> r]

\* What an entry is when one of its fields changes.
LEMMA PtWithSsem ==
  ASSUME NEW e \in PtEntry, NEW y
  PROVE  [e EXCEPT !.ssem = y] = PtRec(e.state, e.seq, e.maxcnt, e.msgs, y, e.rsem)
BY DEF PtEntry, PtRec

\* The same for the receivers' semaphore,
LEMMA PtWithRsem ==
  ASSUME NEW e \in PtEntry, NEW y
  PROVE  [e EXCEPT !.rsem = y] = PtRec(e.state, e.seq, e.maxcnt, e.msgs, e.ssem, y)
BY DEF PtEntry, PtRec

\* and for the list of messages.
LEMMA PtWithMsgs ==
  ASSUME NEW e \in PtEntry, NEW y
  PROVE  [e EXCEPT !.msgs = y] = PtRec(e.state, e.seq, e.maxcnt, y, e.ssem, e.rsem)
BY DEF PtEntry, PtRec

\* Entries written out are entries.
LEMMA PtRecIs ==
  ASSUME NEW e \in PtEntry, NEW m \in Seq(Nat), NEW s \in PtSema, NEW r \in PtSema
  PROVE  /\ PtRec(e.state, e.seq, e.maxcnt, m, s, r) \in PtEntry
         /\ e = PtRec(e.state, e.seq, e.maxcnt, e.msgs, e.ssem, e.rsem)
         /\ e.msgs \in Seq(Nat) /\ e.ssem \in PtSema /\ e.rsem \in PtSema
BY DEF PtEntry, PtRec

\* The fields of an entry written out.
LEMMA PtRecFields ==
  ASSUME NEW a, NEW b, NEW c, NEW m, NEW s, NEW r, NEW e, e = PtRec(a, b, c, m, s, r)
  PROVE  e.state = a /\ e.seq = b /\ e.maxcnt = c /\ e.msgs = m /\ e.ssem = s /\ e.rsem = r
BY DEF PtRec

\* The entry when a message comes and a receiver is let through (ptsend.c).
LEMMA PtSent ==
  ASSUME NEW e \in PtEntry, NEW x \in Nat
  PROVE  [e EXCEPT !.msgs = Append(@, x), !.rsem = Up(@)]
           = PtRec(e.state, e.seq, e.maxcnt, Append(e.msgs, x), e.ssem, Up(e.rsem))
<1>1. [e EXCEPT !.msgs = Append(@, x)]
        = PtRec(e.state, e.seq, e.maxcnt, Append(e.msgs, x), e.ssem, e.rsem)
  BY PtWithMsgs, Zenon
<1>2. Append(e.msgs, x) \in Seq(Nat) /\ e.ssem \in PtSema /\ e.rsem \in PtSema
  BY DEF PtEntry
<1>3. PtRec(e.state, e.seq, e.maxcnt, Append(e.msgs, x), e.ssem, e.rsem) \in PtEntry
  BY <1>2, PtRecIs
<1>4. PICK f \in PtEntry : f = PtRec(e.state, e.seq, e.maxcnt, Append(e.msgs, x), e.ssem, e.rsem)
  BY <1>3, Zenon
<1>5. f.state = e.state /\ f.seq = e.seq /\ f.maxcnt = e.maxcnt /\ f.msgs = Append(e.msgs, x)
        /\ f.ssem = e.ssem
  BY <1>4 DEF PtRec
<1>6. [e EXCEPT !.msgs = Append(@, x), !.rsem = Up(@)] = [f EXCEPT !.rsem = Up(e.rsem)]
  BY <1>1, <1>4, Zenon
<1> QED  BY <1>5, <1>6, PtWithRsem, Zenon

\* The entry when a message goes and a sender is let through (ptrecv.c).
LEMMA PtTaken ==
  ASSUME NEW e \in PtEntry, e.msgs # <<>>
  PROVE  [e EXCEPT !.msgs = Tail(@), !.ssem = Up(@)]
           = PtRec(e.state, e.seq, e.maxcnt, Tail(e.msgs), Up(e.ssem), e.rsem)
<1>1. [e EXCEPT !.msgs = Tail(@)]
        = PtRec(e.state, e.seq, e.maxcnt, Tail(e.msgs), e.ssem, e.rsem)
  BY PtWithMsgs, Zenon
<1>2. Tail(e.msgs) \in Seq(Nat) /\ e.ssem \in PtSema /\ e.rsem \in PtSema
  BY DEF PtEntry
<1>3. PtRec(e.state, e.seq, e.maxcnt, Tail(e.msgs), e.ssem, e.rsem) \in PtEntry
  BY <1>2, PtRecIs
<1>4. PICK f \in PtEntry : f = PtRec(e.state, e.seq, e.maxcnt, Tail(e.msgs), e.ssem, e.rsem)
  BY <1>3, Zenon
<1>5. f.state = e.state /\ f.seq = e.seq /\ f.maxcnt = e.maxcnt /\ f.msgs = Tail(e.msgs)
        /\ f.rsem = e.rsem
  BY <1>4 DEF PtRec
<1>6. [e EXCEPT !.msgs = Tail(@), !.ssem = Up(@)] = [f EXCEPT !.ssem = Up(e.ssem)]
  BY <1>1, <1>4, Zenon
<1> QED  BY <1>5, <1>6, PtWithSsem, Zenon

\* The entry of a port that goes into limbo (ptreset.c, ptdelete.c).
LEMMA PtEnters ==
  ASSUME NEW e \in PtEntry
  PROVE  [e EXCEPT !.state = "limbo", !.seq = @ + 1]
           = PtRec("limbo", e.seq + 1, e.maxcnt, e.msgs, e.ssem, e.rsem)
<1>1. [e EXCEPT !.state = "limbo"] = PtRec("limbo", e.seq, e.maxcnt, e.msgs, e.ssem, e.rsem)
  BY DEF PtEntry, PtRec
<1>2. PICK f \in PtEntry : f = PtRec("limbo", e.seq, e.maxcnt, e.msgs, e.ssem, e.rsem)
  BY DEF PtEntry, PtRec, PtStates
<1>3. \A y : [f EXCEPT !.seq = y] = PtRec(f.state, y, f.maxcnt, f.msgs, f.ssem, f.rsem)
  BY SMTT(20) DEF PtEntry, PtRec
<1>4. f.state = "limbo" /\ f.maxcnt = e.maxcnt /\ f.msgs = e.msgs /\ f.ssem = e.ssem /\ f.rsem = e.rsem
  BY <1>2 DEF PtRec
<1>5. [e EXCEPT !.state = "limbo", !.seq = @ + 1] = [f EXCEPT !.seq = e.seq + 1]
  BY <1>1, <1>2, Zenon
<1> QED  BY <1>3, <1>4, <1>5, Zenon

\* The entry of a port whose messages are thrown away (ptclear.c).
LEMMA PtEmptied ==
  ASSUME NEW e \in PtEntry, NEW s
  PROVE  [e EXCEPT !.msgs = <<>>, !.ssem = s] = PtRec(e.state, e.seq, e.maxcnt, <<>>, s, e.rsem)
<1>1. [e EXCEPT !.msgs = <<>>] = PtRec(e.state, e.seq, e.maxcnt, <<>>, e.ssem, e.rsem)
  BY PtWithMsgs, Zenon
<1>2. PICK f \in PtEntry : f = PtRec(e.state, e.seq, e.maxcnt, <<>>, e.ssem, e.rsem)
  <2>1. <<>> \in Seq(Nat) /\ e.ssem \in PtSema /\ e.rsem \in PtSema
    BY DEF PtEntry
  <2> QED  BY <2>1, PtRecIs
<1>3. f.state = e.state /\ f.seq = e.seq /\ f.maxcnt = e.maxcnt /\ f.msgs = <<>> /\ f.rsem = e.rsem
  BY <1>2 DEF PtRec
<1>4. [e EXCEPT !.msgs = <<>>, !.ssem = s] = [f EXCEPT !.ssem = s]
  BY <1>1, <1>2, Zenon
<1> QED  BY <1>3, <1>4, PtWithSsem, Zenon

\* ptsend behind its wait: the caller has a place. It appends a message of the port's
\* present life and lets one receiver through, or finds no node and panics (ptsend.c).
LEMMA PtEnqueueKeeps ==
  ASSUME PtInv, NEW p \in Procs, NEW d \in Portids, NEW c \in PtCall, NEW s, NEW f,
         c.port = d, c.msg = porttab[d].seq, porttab[d].state = "alloc",
         SemaSound(s), Waiters(s) = Waiters(porttab[d].ssem),
         ptcall[p].at \in {"user", "send"}, PtOnly(ptcall[p], d),
         p \notin Waiters(porttab[d].ssem),
         porttab[d].maxcnt = Len(porttab[d].msgs) + Available(s)
                               + Cardinality(PtPassed(d, "send", porttab[d].ssem) \ {p}) + 1,
         f = PtRec(porttab[d].state, porttab[d].seq, porttab[d].maxcnt, porttab[d].msgs,
                   s, porttab[d].rsem),
         ~ptpanic, PtEnqueue(p, c, f), ptnextid' = ptnextid
  PROVE  PtInv'
<1> DEFINE e == porttab[d]
           G == PtPassed(d, "send", e.ssem)
           R == PtPassed(d, "recv", e.rsem)
<1>1. PtTypes /\ PtPortOK(d)
  BY DEF PtInv
<1>2. /\ e = [state |-> e.state, seq |-> e.seq, maxcnt |-> e.maxcnt, msgs |-> e.msgs,
              ssem |-> e.ssem, rsem |-> e.rsem]
      /\ e.seq \in Nat /\ e.maxcnt \in Nat /\ e.msgs \in Seq(Nat) /\ Len(e.msgs) \in Nat
      /\ e.ssem \in PtSema /\ e.rsem \in PtSema /\ e \in PtEntry
  BY <1>1 DEF PtTypes, PtEntry
<1>3. SemaSound(e.ssem) /\ SemaSound(e.rsem)
  BY <1>1 DEF PtPortOK, PtQueuesAgree
<1>4. G \ {p} \subseteq Procs /\ Cardinality(G \ {p}) \in Nat /\ Available(s) \in Nat
  <2>1. G \ {p} \subseteq Procs
    BY DEF PtPassed
  <2> QED  BY <2>1, DownAvailable, FS_Subset, FS_CardinalityType, SemasAssumption
<1>5. CASE ptfree = 0 /\ ptpanic' = TRUE /\ UNCHANGED <<porttab, ptfree, ptcall>>
  <2>1. Len(e.msgs) < e.maxcnt
    BY <1>2, <1>4
  <2>2. PtSum([i \in Portids |-> IF porttab[i].state = "free" THEN 0 ELSE porttab[i].maxcnt]) > PTMSGS
    BY <1>5, <2>1, PtPanics
  <2>3. PtNodesKept'
    BY <1>5, <2>2 DEF PtInv, PtNodesKept
  <2>4. PtTypes'
    BY <1>1, <1>5 DEF PtTypes
  <2>5. \A j \in Portids : PtElsewhere(j)
    BY <1>5 DEF PtElsewhere
  <2>6. \A j \in Portids : PtPortOK(j)'
    BY <1>5, <2>5, PtUntouched DEF PtInv
  <2> QED  BY <1>5, <2>3, <2>4, <2>6 DEF PtInv, PtCallOK
<1>6. CASE /\ ptfree > 0 /\ ptfree' = ptfree - 1 /\ PtSet(p, PtIdle) /\ UNCHANGED ptpanic
           /\ porttab' = [porttab EXCEPT ![c.port] =
                [f EXCEPT !.msgs = Append(@, c.msg), !.rsem = Up(@)]]
  <2> DEFINE n == PtRec(e.state, e.seq, e.maxcnt, Append(e.msgs, e.seq), s, Up(e.rsem))
  <2>1. SemaSound(Up(e.rsem)) /\ Waiters(Up(e.rsem)) \subseteq Waiters(e.rsem)
    <3>1. e.rsem.n >= 0 \/ e.rsem.n < 0
      BY <1>3 DEF SemaSound
    <3> HIDE DEF e
    <3> QED  BY <1>3, <3>1, UpIs
  <2>2. Up(e.rsem) \in PtSema /\ s \in PtSema /\ Append(e.msgs, e.seq) \in Seq(Nat) /\ n \in PtEntry
    <3>1. Up(e.rsem) \in PtSema /\ s \in PtSema /\ Append(e.msgs, e.seq) \in Seq(Nat)
      BY <1>2, <2>1 DEF SemaSound, PtSema
    <3> HIDE DEF e
    <3> QED  BY <1>2, <3>1, PtRecIs
  <2>3. porttab' = [porttab EXCEPT ![d] = n]
    <3>1. f = PtRec(e.state, e.seq, e.maxcnt, e.msgs, s, e.rsem)
      OBVIOUS
    <3>2. porttab' = [porttab EXCEPT ![c.port] = [f EXCEPT !.msgs = Append(@, c.msg), !.rsem = Up(@)]]
      BY <1>6
    <3>3. c.msg = e.seq /\ c.msg \in Nat /\ c.port = d
      BY <1>2
    <3> HIDE DEF e
    <3>4. f \in PtEntry
      BY <1>2, <2>2, <3>1, PtRecIs
    <3>5. f.state = e.state /\ f.seq = e.seq /\ f.maxcnt = e.maxcnt /\ f.msgs = e.msgs
            /\ f.ssem = s /\ f.rsem = e.rsem
      BY <3>1, PtRecFields
    <3>6. [f EXCEPT !.msgs = Append(@, c.msg), !.rsem = Up(@)] = n
      <4>1. PICK g \in PtEntry : g = f
        BY <3>4
      <4>2. [g EXCEPT !.msgs = Append(@, c.msg), !.rsem = Up(@)]
              = PtRec(g.state, g.seq, g.maxcnt, Append(g.msgs, c.msg), g.ssem, Up(g.rsem))
        BY <3>3, PtSent, Zenon
      <4>3. /\ g.state = e.state /\ g.seq = e.seq /\ g.maxcnt = e.maxcnt /\ g.msgs = e.msgs
            /\ g.ssem = s /\ g.rsem = e.rsem
        BY <3>5, <4>1, Zenon
      <4> QED  BY <3>3, <4>1, <4>2, <4>3, Zenon
    <3> HIDE DEF n
    <3> QED  BY <3>2, <3>3, <3>6, Zenon
  <2>4. /\ n.state = "alloc" /\ n.seq = e.seq /\ n.maxcnt = e.maxcnt /\ n.ssem = s
        /\ n.msgs = Append(e.msgs, e.seq) /\ n.rsem = Up(e.rsem)
    BY DEF PtRec
  <2> HIDE DEF n
  <2>5. /\ porttab' \in [Portids -> PtEntry] /\ porttab'[d] = n
        /\ \A i \in Portids : i # d => porttab'[i] = porttab[i]
    BY <1>1, <2>2, <2>3, PtChanges
  <2>6. PtIdle \in PtCall /\ PtIdle.at = "user"
    BY PortsAssumption DEF PtIdle, PtCall, Portids
  <2>7. /\ ptcall' \in [Procs -> PtCall] /\ ptcall'[p] = PtIdle
        /\ \A q \in Procs : q # p => ptcall'[q] = ptcall[q]
    BY <1>1, <1>6, <2>6, PtSets
  <2>8. PtTypes'
    BY <1>1, <1>6, <2>5, <2>7 DEF PtTypes
  <2>9. Waiters(e.ssem) \subseteq Procs \ {p} /\ Waiters(e.rsem) \subseteq Procs \ {p}
    BY <1>1, <1>3, SoundIsOK DEF PtPortOK, PtQueuesAgree
  <2>10. PtQueuesAgree(d)'
    BY <1>1, <2>1, <2>4, <2>5, <2>7, <2>9 DEF PtPortOK, PtQueuesAgree
  <2>11. PtLives(d)'
    <3>1. \A i \in 1 .. Len(n.msgs) : n.msgs[i] = e.seq
      BY <1>1, <1>2, <2>4 DEF PtPortOK, PtLives
    <3>2. \A q \in Procs : ptcall'[q].at \in {"send", "recv"} => q # p /\ ptcall'[q] = ptcall[q]
      BY <2>6, <2>7
    <3> QED  BY <1>1, <2>4, <2>5, <3>1, <3>2 DEF PtPortOK, PtLives
  <2>12. PtPassed(d, "send", porttab[d].ssem)' = G \ {p}
    BY <2>4, <2>5, <2>6, <2>7 DEF PtPassed
  <2>13. \A q \in Procs : q \in PtPassed(d, "recv", porttab[d].rsem)' <=>
                            (q \in R \/ q \in Waiters(e.rsem) \ Waiters(Up(e.rsem)))
    <3>1. p \notin R /\ p \notin Waiters(e.rsem)
      BY <2>9 DEF PtPassed
    <3>2. \A q \in Waiters(e.rsem) : ptcall[q].at = "recv" /\ ptcall[q].port = d /\ ptcall[q].seq = e.seq
      BY <1>1 DEF PtPortOK, PtQueuesAgree
    <3>3. p \notin PtPassed(d, "recv", porttab[d].rsem)'
      BY <2>6, <2>7 DEF PtPassed
    <3>4. ASSUME NEW q \in Procs, q # p
          PROVE  q \in PtPassed(d, "recv", porttab[d].rsem)' <=>
                   (q \in R \/ q \in Waiters(e.rsem) \ Waiters(Up(e.rsem)))
      BY <2>1, <2>4, <2>5, <2>7, <3>2, <3>4 DEF PtPassed
    <3> QED  BY <3>1, <3>3, <3>4
  <2>14. Available(Up(e.rsem)) + Cardinality(PtPassed(d, "recv", porttab[d].rsem)')
           = Available(e.rsem) + Cardinality(R) + 1
    <3>1. R \subseteq Procs /\ PtPassed(d, "recv", porttab[d].rsem)' \subseteq Procs /\ R \cap Waiters(e.rsem) = {}
      BY DEF PtPassed
    <3> QED  BY <1>3, <2>13, <3>1, PtUpCounts
  <2>15. PtCounted(d)'
    <3>1. Len(n.msgs) = Len(e.msgs) + 1 /\ Len(e.msgs) = Available(e.rsem) + Cardinality(R)
      BY <1>1, <1>2, <2>4 DEF PtPortOK, PtCounted
    <3>2. Len(n.msgs) = Available(n.rsem) + Cardinality(PtPassed(d, "recv", porttab[d].rsem)')
      BY <2>4, <2>14, <3>1
    <3>3. n.maxcnt = Len(n.msgs) + Available(n.ssem) + Cardinality(G \ {p})
      BY <1>2, <1>4, <2>4, <3>1
    <3> QED  BY <2>5, <2>12, <3>2, <3>3 DEF PtCounted
  <2>16. PtLimbo(d)'
    <3>1. PtClearers(d) = {}
      BY <1>1 DEF PtPortOK, PtLimbo
    <3>2. PtClearers(d)' = {}
      BY <2>6, <2>7, <3>1 DEF PtClearers, PtClearing
    <3> QED  BY <2>4, <2>5, <3>2 DEF PtLimbo
  <2>17. ptfree' + Len(porttab'[d].msgs) = ptfree + Len(porttab[d].msgs)
    <3>1. ptfree \in Nat /\ ptfree' = ptfree - 1
      BY <1>1, <1>6, Zenon DEF PtTypes
    <3>2. porttab'[d].msgs = Append(e.msgs, e.seq) /\ e.msgs \in Seq(Nat) /\ e.seq \in Nat
      BY <1>2, <2>4, <2>5
    <3> HIDE DEF e
    <3>3. ptfree' + Len(porttab'[d].msgs) = ptfree + Len(e.msgs)
      BY <3>1, <3>2
    <3> QED  BY <3>3 DEF e
  <2>18. PtOnly(ptcall'[p], d) /\ PtCallOK(ptcall'[p]) /\ PtPortOK(d)' /\ ~ptpanic'
    BY <1>6, <2>6, <2>7, <2>10, <2>11, <2>15, <2>16 DEF PtOnly, PtCallOK, PtPortOK
  <2> QED  BY <2>5, <2>7, <2>8, <2>17, <2>18, PtStep
<1> QED  BY <1>5, <1>6 DEF PtEnqueue
\* The call of a receiver that takes a message (ptrecv.c).
LEMMA PtReceives ==
  ASSUME NEW c \in PtCall, NEW m \in Nat
  PROVE  /\ [c EXCEPT !.at = "received", !.msg = m]
              = [at |-> "received", port |-> c.port, seq |-> c.seq, msg |-> m]
         /\ [at |-> "received", port |-> c.port, seq |-> c.seq, msg |-> m] \in PtCall
<1>1. [c EXCEPT !.at = "received"] = [at |-> "received", port |-> c.port, seq |-> c.seq, msg |-> c.msg]
  BY DEF PtCall
<1>2. [at |-> "received", port |-> c.port, seq |-> c.seq, msg |-> c.msg] \in PtCall
  BY DEF PtCall
<1>3. PICK f \in PtCall : f = [at |-> "received", port |-> c.port, seq |-> c.seq, msg |-> c.msg]
  BY <1>2, Zenon
<1>4. [f EXCEPT !.msg = m] = [at |-> f.at, port |-> f.port, seq |-> f.seq, msg |-> m]
  BY DEF PtCall
<1>5. f.at = "received" /\ f.port = c.port /\ f.seq = c.seq
  BY <1>3
<1>6. [c EXCEPT !.at = "received", !.msg = m] = [f EXCEPT !.msg = m]
  BY <1>1, <1>3, Zenon
<1>7. [at |-> "received", port |-> c.port, seq |-> c.seq, msg |-> m] \in PtCall
  BY DEF PtCall
<1> QED  BY <1>4, <1>5, <1>6, <1>7, Zenon

\* A message less, and a unit more that the other semaphore has given or promised
\* (ptrecv.c).
PtBalanced(m, l, a, g, u, h) ==
  m = l + a + g /\ u + h = a + g + 1 => m = (l - 1) + u + h

LEMMA PtBalance == \A m, l, a, g, u, h \in Nat : PtBalanced(m, l, a, g, u, h)
BY DEF PtBalanced

\* ptrecv behind its wait: there is a message for the caller. It takes the first, which
\* is of the port's present life, and lets one sender through (ptrecv.c).
LEMMA PtDequeueKeeps ==
  ASSUME PtInv, NEW p \in Procs, NEW d \in Portids, NEW c \in PtCall, NEW s, NEW f,
         c.port = d, c.seq = porttab[d].seq, porttab[d].state = "alloc",
         SemaSound(s), Waiters(s) = Waiters(porttab[d].rsem),
         ptcall[p].at \in {"user", "recv"}, PtOnly(ptcall[p], d),
         p \notin Waiters(porttab[d].rsem),
         Len(porttab[d].msgs) = Available(s) + Cardinality(PtPassed(d, "recv", porttab[d].rsem) \ {p}) + 1,
         f = PtRec(porttab[d].state, porttab[d].seq, porttab[d].maxcnt, porttab[d].msgs,
                   porttab[d].ssem, s),
         ~ptpanic, PtDequeue(p, c, f), ptnextid' = ptnextid
  PROVE  PtInv'
<1> DEFINE e == porttab[d]
           G == PtPassed(d, "send", e.ssem)
           R == PtPassed(d, "recv", e.rsem)
           n == PtRec(e.state, e.seq, e.maxcnt, Tail(e.msgs), Up(e.ssem), s)
           k == [at |-> "received", port |-> d, seq |-> e.seq, msg |-> e.seq]
<1>1. PtTypes /\ PtPortOK(d)
  BY DEF PtInv
<1>2. /\ e.seq \in Nat /\ e.maxcnt \in Nat /\ e.msgs \in Seq(Nat) /\ Len(e.msgs) \in Nat
      /\ e.ssem \in PtSema /\ e.rsem \in PtSema /\ e \in PtEntry
  BY <1>1 DEF PtTypes, PtEntry
<1>3. SemaSound(e.ssem) /\ SemaSound(e.rsem)
  BY <1>1 DEF PtPortOK, PtQueuesAgree
<1>4. R \ {p} \subseteq Procs /\ Cardinality(R \ {p}) \in Nat /\ Available(s) \in Nat
  <2>1. R \ {p} \subseteq Procs
    BY DEF PtPassed
  <2> QED  BY <2>1, DownAvailable, FS_Subset, FS_CardinalityType, SemasAssumption
<1>5. /\ Len(e.msgs) > 0 /\ e.msgs # <<>> /\ Head(e.msgs) = e.seq
      /\ Tail(e.msgs) \in Seq(Nat) /\ Len(Tail(e.msgs)) = Len(e.msgs) - 1
      /\ \A i \in 1 .. Len(Tail(e.msgs)) : Tail(e.msgs)[i] = e.seq
  <2>1. Len(e.msgs) > 0
    BY <1>2, <1>4
  <2>2. \A i \in 1 .. Len(e.msgs) : e.msgs[i] = e.seq
    BY <1>1 DEF PtPortOK, PtLives
  <2> HIDE DEF e
  <2>3. Head(e.msgs) = e.msgs[1] /\ e.msgs # <<>>
    BY <1>2, <2>1
  <2>4. Tail(e.msgs) \in Seq(Nat) /\ Len(Tail(e.msgs)) = Len(e.msgs) - 1
    BY <1>2, <2>1
  <2>5. \A i \in 1 .. Len(e.msgs) - 1 : Tail(e.msgs)[i] = e.msgs[i + 1] /\ i + 1 \in 1 .. Len(e.msgs)
    BY <1>2, <2>1
  <2> QED  BY <1>2, <2>1, <2>2, <2>3, <2>4, <2>5
<1>6. SemaSound(Up(e.ssem)) /\ Waiters(Up(e.ssem)) \subseteq Waiters(e.ssem)
  <2>1. e.ssem.n >= 0 \/ e.ssem.n < 0
    BY <1>3 DEF SemaSound
  <2> HIDE DEF e
  <2> QED  BY <1>3, <2>1, UpIs
<1>7. Up(e.ssem) \in PtSema /\ s \in PtSema /\ n \in PtEntry
  <2>1. Up(e.ssem) \in PtSema /\ s \in PtSema
    BY <1>6 DEF SemaSound, PtSema
  <2> HIDE DEF e
  <2> QED  BY <1>2, <1>5, <2>1, PtRecIs
<1>8. f \in PtEntry /\ f.msgs # <<>>
  <2>1. f = PtRec(e.state, e.seq, e.maxcnt, e.msgs, e.ssem, s)
    OBVIOUS
  <2> HIDE DEF e
  <2>2. f \in PtEntry
    BY <1>2, <1>7, <2>1, PtRecIs
  <2>3. f.msgs = e.msgs
    BY <2>1, PtRecFields
  <2> QED  BY <1>5, <2>2, <2>3
<1>10. f.state = e.state /\ f.seq = e.seq /\ f.maxcnt = e.maxcnt /\ f.msgs = e.msgs
         /\ f.ssem = e.ssem /\ f.rsem = s
  BY PtRecFields
<1>12. [f EXCEPT !.msgs = Tail(@), !.ssem = Up(@)] = n
  <2>1. [f EXCEPT !.msgs = Tail(@), !.ssem = Up(@)]
          = PtRec(f.state, f.seq, f.maxcnt, Tail(f.msgs), Up(f.ssem), f.rsem)
    BY <1>8, PtTaken, ZenonT(40)
  <2> QED  BY <1>10, <2>1, Zenon
<1>13. porttab' = [porttab EXCEPT ![d] = n]
  <2> HIDE DEF n
  <2> QED  BY <1>12, Zenon DEF PtDequeue
<1>14. k \in PtCall /\ k.at = "received" /\ PtCallOK(k) /\ PtOnly(k, d)
  BY <1>2 DEF PtCall, PtCallOK, PtOnly
<1>15. PtSet(p, k)
  <2>1. Head(f.msgs) = e.seq /\ e.seq \in Nat /\ c.port = d /\ c.seq = e.seq
    BY <1>2, <1>5, <1>10
  <2>2. [c EXCEPT !.at = "received", !.msg = Head(f.msgs)] = k
    <3> HIDE DEF e
    <3> QED  BY <2>1, PtReceives, Zenon
  <2> HIDE DEF k
  <2> QED  BY <2>2, Zenon DEF PtDequeue
<1>16. ptfree' = ptfree + 1 /\ ptpanic' = ptpanic
  BY Zenon DEF PtDequeue
<1>17. /\ n.state = "alloc" /\ n.seq = e.seq /\ n.maxcnt = e.maxcnt /\ n.rsem = s
       /\ n.msgs = Tail(e.msgs) /\ n.ssem = Up(e.ssem)
  BY DEF PtRec
<1> HIDE DEF n, k
<1>18. /\ porttab' \in [Portids -> PtEntry] /\ porttab'[d] = n
       /\ \A i \in Portids : i # d => porttab'[i] = porttab[i]
  BY <1>1, <1>7, <1>13, PtChanges
<1>19. /\ ptcall' \in [Procs -> PtCall] /\ ptcall'[p] = k
       /\ \A q \in Procs : q # p => ptcall'[q] = ptcall[q]
  BY <1>1, <1>14, <1>15, PtSets
<1>20. PtTypes'
  BY <1>1, <1>16, <1>18, <1>19 DEF PtTypes
<1>21. Waiters(e.ssem) \subseteq Procs \ {p} /\ Waiters(e.rsem) \subseteq Procs \ {p}
  BY <1>1, <1>3, SoundIsOK DEF PtPortOK, PtQueuesAgree
<1>22. PtQueuesAgree(d)'
  BY <1>1, <1>6, <1>17, <1>18, <1>19, <1>21 DEF PtPortOK, PtQueuesAgree
<1>23. PtLives(d)'
  <2>1. \A q \in Procs : ptcall'[q].at \in {"send", "recv"} => q # p /\ ptcall'[q] = ptcall[q]
    BY <1>14, <1>19
  <2>2. PtLives(d) /\ porttab'[d].state = e.state /\ porttab'[d].seq = e.seq
    BY <1>1, <1>17, <1>18 DEF PtPortOK
  <2>3. \A i \in 1 .. Len(porttab'[d].msgs) : porttab'[d].msgs[i] = e.seq
    <3>1. porttab'[d].msgs = Tail(e.msgs)
      BY <1>17, <1>18, Zenon
    <3> HIDE DEF e
    <3> QED  BY <1>5, <3>1, Zenon
  <2> QED  BY <1>1, <2>1, <2>2, <2>3 DEF PtLives
<1>24. PtPassed(d, "recv", porttab[d].rsem)' = R \ {p}
  BY <1>14, <1>17, <1>18, <1>19 DEF PtPassed
<1>25. \A q \in Procs : q \in PtPassed(d, "send", porttab[d].ssem)' <=>
                          (q \in G \/ q \in Waiters(e.ssem) \ Waiters(Up(e.ssem)))
  <2>1. p \notin G /\ p \notin Waiters(e.ssem)
    BY <1>21 DEF PtPassed
  <2>2. \A q \in Waiters(e.ssem) : ptcall[q].at = "send" /\ ptcall[q].port = d /\ ptcall[q].seq = e.seq
    BY <1>1 DEF PtPortOK, PtQueuesAgree
  <2>3. p \notin PtPassed(d, "send", porttab[d].ssem)'
    BY <1>14, <1>19 DEF PtPassed
  <2>4. ASSUME NEW q \in Procs, q # p
        PROVE  q \in PtPassed(d, "send", porttab[d].ssem)' <=>
                 (q \in G \/ q \in Waiters(e.ssem) \ Waiters(Up(e.ssem)))
    BY <1>6, <1>17, <1>18, <1>19, <2>2, <2>4 DEF PtPassed
  <2> QED  BY <2>1, <2>3, <2>4
<1>26. /\ Available(Up(e.ssem)) + Cardinality(PtPassed(d, "send", porttab[d].ssem)')
            = Available(e.ssem) + Cardinality(G) + 1
       /\ Available(e.ssem) \in Nat /\ Available(Up(e.ssem)) \in Nat /\ Cardinality(G) \in Nat
       /\ Cardinality(PtPassed(d, "send", porttab[d].ssem)') \in Nat
  <2>1. G \subseteq Procs /\ PtPassed(d, "send", porttab[d].ssem)' \subseteq Procs /\ G \cap Waiters(e.ssem) = {}
    BY DEF PtPassed
  <2>2. PICK H : H = PtPassed(d, "send", porttab[d].ssem)'
    OBVIOUS
  <2>3. H \subseteq Procs /\ \A q \in Procs : q \in H <=> (q \in G \/ q \in Waiters(e.ssem) \ Waiters(Up(e.ssem)))
    BY <1>25, <2>1, <2>2
  <2> HIDE DEF e, G
  <2>4. /\ Available(Up(e.ssem)) + Cardinality(H) = Available(e.ssem) + Cardinality(G) + 1
        /\ Available(e.ssem) \in Nat /\ Available(Up(e.ssem)) \in Nat
        /\ Cardinality(G) \in Nat /\ Cardinality(H) \in Nat
    BY <1>3, <2>1, <2>3, PtUpCounts
  <2> QED  BY <2>2, <2>4
<1>27. PtCounted(d)'
  <2>1. e.maxcnt = Len(e.msgs) + Available(e.ssem) + Cardinality(G)
    BY <1>1 DEF PtPortOK, PtCounted
  <2>2. Len(n.msgs) = Available(n.rsem) + Cardinality(R \ {p})
    BY <1>2, <1>4, <1>5, <1>17
  <2>3. n.maxcnt = Len(n.msgs) + Available(n.ssem) + Cardinality(PtPassed(d, "send", porttab[d].ssem)')
    <3>1. PICK h : h = Cardinality(PtPassed(d, "send", porttab[d].ssem)')
      OBVIOUS
    <3>2. n.maxcnt = Len(n.msgs) + Available(n.ssem) + h
      <4>1. /\ Available(Up(e.ssem)) + h = Available(e.ssem) + Cardinality(G) + 1
            /\ Available(e.ssem) \in Nat /\ Available(Up(e.ssem)) \in Nat
            /\ Cardinality(G) \in Nat /\ h \in Nat
        BY <1>26, <3>1
      <4>2. n.maxcnt = e.maxcnt /\ Len(n.msgs) = Len(e.msgs) - 1 
              /\ Available(n.ssem) = Available(Up(e.ssem)) /\ Len(e.msgs) \in Nat /\ e.maxcnt \in Nat
        BY <1>2, <1>5, <1>17
      <4>4. e.maxcnt = (Len(e.msgs) - 1) + Available(Up(e.ssem)) + h
        <5>1. PtBalanced(e.maxcnt, Len(e.msgs), Available(e.ssem), Cardinality(G),
                         Available(Up(e.ssem)), h)
          <6> HIDE DEF e, G
          <6> QED  BY <4>1, <4>2, PtBalance, Zenon
        <5>2. e.maxcnt = Len(e.msgs) + Available(e.ssem) + Cardinality(G)
                /\ Available(Up(e.ssem)) + h = Available(e.ssem) + Cardinality(G) + 1
          BY <2>1, <4>1, Zenon
        <5> HIDE DEF e, G
        <5> QED  BY <5>1, <5>2, Zenon DEF PtBalanced
      <4> QED  BY <4>2, <4>4
    <3> QED  BY <3>1, <3>2
  <2> QED  BY <1>18, <1>24, <2>2, <2>3 DEF PtCounted
<1>28. PtLimbo(d)'
  <2>1. PtClearers(d) = {}
    BY <1>1 DEF PtPortOK, PtLimbo
  <2>2. PtClearers(d)' = {}
    BY <1>14, <1>19, <2>1 DEF PtClearers, PtClearing
  <2> QED  BY <1>17, <1>18, <2>2 DEF PtLimbo
<1>29. ptfree' + Len(porttab'[d].msgs) = ptfree + Len(porttab[d].msgs)
  <2>1. ptfree \in Nat /\ porttab'[d].msgs = Tail(e.msgs)
    BY <1>1, <1>17, <1>18 DEF PtTypes
  <2>2. PICK L \in Nat : L = Len(e.msgs) /\ Len(porttab'[d].msgs) = L - 1
    BY <1>2, <1>5, <2>1
  <2>3. Len(porttab[d].msgs) = L
    BY <2>2
  <2>4. (ptfree + 1) + (L - 1) = ptfree + L
    BY <2>1
  <2> QED  BY <1>16, <2>2, <2>3, <2>4, Zenon
<1>30. PtOnly(ptcall'[p], d) /\ PtCallOK(ptcall'[p]) /\ PtPortOK(d)' /\ ~ptpanic'
  BY <1>14, <1>16, <1>19, <1>22, <1>23, <1>27, <1>28 DEF PtPortOK
<1> QED  BY <1>18, <1>19, <1>20, <1>29, <1>30, PtStep

(* What a call that has to wait makes of the two semaphores *)
PtQueued(at, p, s, t) == /\ SemaSound(t) /\ Available(t) = Available(s)
                         /\ Waiters(t) = IF at THEN Waiters(s) \cup {p} ELSE Waiters(s)

\* ptsend and ptrecv when they have to wait: the caller is in the queue, nothing that is
\* counted changes (ptsend.c, ptrecv.c).
LEMMA PtBlockKeeps ==
  ASSUME PtInv, NEW p \in Procs, NEW d \in Portids, NEW c \in PtCall, NEW s, NEW r, NEW f,
         c.port = d, c.seq = porttab[d].seq, c.at \in {"send", "recv"}, PtCallOK(c),
         porttab[d].state = "alloc", ptcall[p].at = "user",
         PtQueued(c.at = "send", p, porttab[d].ssem, s),
         PtQueued(c.at = "recv", p, porttab[d].rsem, r),
         f = PtRec(porttab[d].state, porttab[d].seq, porttab[d].maxcnt, porttab[d].msgs, s, r),
         ~ptpanic, PtBlock(p, c, f), ptnextid' = ptnextid
  PROVE  PtInv'
<1> DEFINE e == porttab[d]
<1>1. PtTypes /\ PtPortOK(d)
  BY DEF PtInv
<1>2. e \in PtEntry /\ e.msgs \in Seq(Nat) /\ s \in PtSema /\ r \in PtSema
  BY <1>1 DEF PtTypes, PtEntry, PtQueued, SemaSound, PtSema
<1>3. f = PtRec(e.state, e.seq, e.maxcnt, e.msgs, s, r)
  OBVIOUS
<1>4. f \in PtEntry /\ f.state = e.state /\ f.seq = e.seq /\ f.maxcnt = e.maxcnt /\ f.msgs = e.msgs
        /\ f.ssem = s /\ f.rsem = r
  <2> HIDE DEF e
  <2>1. f \in PtEntry
    BY <1>2, <1>3, PtRecIs
  <2> QED  BY <1>3, <2>1, PtRecFields
<1>5. /\ porttab' = [porttab EXCEPT ![d] = f] /\ PtSet(p, c)
      /\ ptfree' = ptfree /\ ptpanic' = ptpanic
  BY DEF PtBlock
<1>6. /\ porttab' \in [Portids -> PtEntry] /\ porttab'[d] = f
      /\ \A i \in Portids : i # d => porttab'[i] = porttab[i]
  BY <1>1, <1>4, <1>5, PtChanges
<1>7. /\ ptcall' \in [Procs -> PtCall] /\ ptcall'[p] = c
      /\ \A q \in Procs : q # p => ptcall'[q] = ptcall[q]
  BY <1>1, <1>5, PtSets
<1>8. PtTypes'
  BY <1>1, <1>5, <1>6, <1>7 DEF PtTypes
<1>9. SemaSound(e.ssem) /\ SemaSound(e.rsem) /\ SemaSound(s) /\ SemaSound(r)
  BY <1>1 DEF PtPortOK, PtQueuesAgree, PtQueued
<1>10. Waiters(e.ssem) \subseteq Procs \ {p} /\ Waiters(e.rsem) \subseteq Procs \ {p}
  BY <1>1, <1>9, SoundIsOK DEF PtPortOK, PtQueuesAgree
<1>11. Waiters(s) = (IF c.at = "send" THEN Waiters(e.ssem) \cup {p} ELSE Waiters(e.ssem))
         /\ Waiters(r) = (IF c.at = "recv" THEN Waiters(e.rsem) \cup {p} ELSE Waiters(e.rsem))
  BY DEF PtQueued
<1>12. PtQueuesAgree(d)'
  <2>1. \A q \in Waiters(s) : ptcall'[q].at = "send" /\ ptcall'[q].port = d /\ ptcall'[q].seq = e.seq
    BY <1>1, <1>7, <1>10, <1>11 DEF PtPortOK, PtQueuesAgree
  <2>2. \A q \in Waiters(r) : ptcall'[q].at = "recv" /\ ptcall'[q].port = d /\ ptcall'[q].seq = e.seq
    BY <1>1, <1>7, <1>10, <1>11 DEF PtPortOK, PtQueuesAgree
  <2> QED  BY <1>4, <1>6, <1>9, <2>1, <2>2 DEF PtQueuesAgree
<1>13. PtLives(d)'
  <2>1. \A q \in Procs : ptcall'[q].at \in {"send", "recv"} /\ ptcall'[q].port = d =>
          ptcall'[q].seq <= e.seq
    <3>1. \A q \in Procs : ptcall[q].at \in {"send", "recv"} /\ ptcall[q].port = d =>
            ptcall[q].seq <= e.seq
      BY <1>1 DEF PtPortOK, PtLives
    <3>2. e.seq \in Nat /\ c.seq = e.seq
      BY <1>2 DEF PtEntry
    <3>3. ptcall'[p].seq <= e.seq
      BY <1>7, <3>2
    <3> QED  BY <1>7, <3>1, <3>3
  <2>2. \A i \in 1 .. Len(e.msgs) : e.msgs[i] = e.seq
    BY <1>1 DEF PtPortOK, PtLives
  <2> QED  BY <1>4, <1>6, <2>1, <2>2 DEF PtLives
<1>14. /\ PtPassed(d, "send", porttab[d].ssem)' = PtPassed(d, "send", e.ssem)
       /\ PtPassed(d, "recv", porttab[d].rsem)' = PtPassed(d, "recv", e.rsem)
  BY <1>4, <1>6, <1>7, <1>10, <1>11 DEF PtPassed
<1>15. PtCounted(d)'
  <2>1. Available(f.ssem) = Available(e.ssem) /\ Available(f.rsem) = Available(e.rsem)
    BY <1>4 DEF PtQueued
  <2> QED  BY <1>1, <1>4, <1>6, <1>14, <2>1 DEF PtPortOK, PtCounted
<1>16. PtLimbo(d)'
  <2>1. PtClearers(d) = {}
    BY <1>1 DEF PtPortOK, PtLimbo
  <2>2. PtClearers(d)' = {}
    BY <1>7, <2>1 DEF PtClearers, PtClearing
  <2> QED  BY <1>4, <1>6, <2>2 DEF PtLimbo
<1>17. ptfree' + Len(porttab'[d].msgs) = ptfree + Len(porttab[d].msgs)
  BY <1>4, <1>5, <1>6
<1>18. PtOnly(ptcall[p], d) /\ PtOnly(ptcall'[p], d) /\ PtCallOK(ptcall'[p]) /\ PtPortOK(d)' /\ ~ptpanic'
  BY <1>5, <1>7, <1>12, <1>13, <1>15, <1>16 DEF PtOnly, PtPortOK
<1> QED  BY <1>6, <1>7, <1>8, <1>17, <1>18, PtStep

\* ptsend (ptsend.c)
LEMMA PtSendKeeps ==
  ASSUME PtInv, NEW p \in Procs, NEW d \in Portids, PtSend(p, d)
  PROVE  PtInv'
<1> DEFINE e == porttab[d]
           c == [at |-> "send", port |-> d, seq |-> e.seq, msg |-> e.seq]
           s == Down(e.ssem, p)
           f == PtRec(e.state, e.seq, e.maxcnt, e.msgs, s, e.rsem)
<1>1. PtTypes /\ PtPortOK(d)
  BY DEF PtInv
<1>2. e \in PtEntry /\ e.seq \in Nat /\ e.maxcnt \in Nat /\ Len(e.msgs) \in Nat
  BY <1>1 DEF PtTypes, PtEntry
<1>3. /\ ~ptpanic /\ ptcall[p].at = "user" /\ e.state = "alloc" /\ ptnextid' = ptnextid
      /\ IF Blocks(e.ssem) THEN PtBlock(p, c, f) ELSE PtEnqueue(p, c, f)
  <2>1. [e EXCEPT !.ssem = s] = f
    <3> HIDE DEF e, s
    <3> QED  BY <1>2, PtWithSsem, Zenon
  <2> QED  BY <2>1, Zenon DEF PtSend, PtRuns
<1>4. SemaSound(e.ssem) /\ SemaSound(e.rsem)
  BY <1>1 DEF PtPortOK, PtQueuesAgree
<1>5. p \notin Waiters(e.ssem)
  BY <1>3, PtWaitsAt
<1>6. c \in PtCall /\ c.port = d /\ c.at = "send" /\ c.seq = e.seq /\ c.msg = e.seq
  BY <1>2 DEF PtCall
<1> HIDE DEF c
<1>7. CASE Blocks(e.ssem)
  <2>1. PtQueued(c.at = "send", p, e.ssem, s)
    <3> HIDE DEF e
    <3> QED  BY <1>4, <1>5, <1>6, <1>7, DownIs, DownAvailable DEF PtQueued
  <2>2. PtQueued(c.at = "recv", p, e.rsem, e.rsem)
    BY <1>4, <1>6 DEF PtQueued
  <2>3. PtCallOK(c) /\ PtBlock(p, c, f)
    BY <1>3, <1>6, <1>7 DEF PtCallOK
  <2>4. PICK g : g = f
    OBVIOUS
  <2> QED  BY <1>3, <1>6, <2>1, <2>2, <2>3, PtBlockKeeps
<1>8. CASE ~Blocks(e.ssem)
  <2>1. SemaSound(s) /\ Waiters(s) = Waiters(e.ssem) /\ Available(e.ssem) = Available(s) + 1 /\ Available(s) \in Nat
    <3> HIDE DEF e
    <3> QED  BY <1>4, <1>5, <1>8, DownIs, DownAvailable
  <2>2. PtPassed(d, "send", e.ssem) \ {p} = PtPassed(d, "send", e.ssem)
    BY <1>3 DEF PtPassed
  <2>3. Cardinality(PtPassed(d, "send", e.ssem)) \in Nat
    <3>1. PtPassed(d, "send", e.ssem) \subseteq Procs
      BY DEF PtPassed
    <3> QED  BY <3>1, FS_Subset, FS_CardinalityType, SemasAssumption
  <2>4. e.maxcnt = Len(e.msgs) + Available(s) + Cardinality(PtPassed(d, "send", e.ssem) \ {p}) + 1
    <3>1. e.maxcnt = Len(e.msgs) + Available(e.ssem) + Cardinality(PtPassed(d, "send", e.ssem))
      BY <1>1, <1>3 DEF PtPortOK, PtCounted
    <3>2. PICK g \in Nat : g = Cardinality(PtPassed(d, "send", e.ssem))
                            /\ g = Cardinality(PtPassed(d, "send", e.ssem) \ {p})
      BY <2>2, <2>3, Zenon
    <3>3. e.maxcnt = Len(e.msgs) + Available(e.ssem) + g
      BY <3>1, <3>2, Zenon
    <3> HIDE DEF e, s
    <3>4. e.maxcnt = Len(e.msgs) + Available(s) + g + 1
      BY <1>2, <2>1, <3>3
    <3> QED  BY <3>2, <3>4, Zenon
  <2>5. PtEnqueue(p, c, f) /\ PtOnly(ptcall[p], d) /\ ptcall[p].at \in {"user", "send"}
    BY <1>3, <1>8 DEF PtOnly
  <2> QED  BY <1>3, <1>5, <1>6, <2>1, <2>4, <2>5, PtEnqueueKeeps
<1> QED  BY <1>7, <1>8

\* ptrecv (ptrecv.c)
LEMMA PtRecvKeeps ==
  ASSUME PtInv, NEW p \in Procs, NEW d \in Portids, PtRecv(p, d)
  PROVE  PtInv'
<1> DEFINE e == porttab[d]
           c == [at |-> "recv", port |-> d, seq |-> e.seq, msg |-> 0]
           s == Down(e.rsem, p)
           f == PtRec(e.state, e.seq, e.maxcnt, e.msgs, e.ssem, s)
<1>1. PtTypes /\ PtPortOK(d)
  BY DEF PtInv
<1>2. e \in PtEntry /\ e.seq \in Nat /\ e.maxcnt \in Nat /\ Len(e.msgs) \in Nat
  BY <1>1 DEF PtTypes, PtEntry
<1>3. /\ ~ptpanic /\ ptcall[p].at = "user" /\ e.state = "alloc" /\ ptnextid' = ptnextid
      /\ IF Blocks(e.rsem) THEN PtBlock(p, c, f) ELSE PtDequeue(p, c, f)
  <2>1. [e EXCEPT !.rsem = s] = f
    <3> HIDE DEF e, s
    <3> QED  BY <1>2, PtWithRsem, Zenon
  <2> QED  BY <2>1, Zenon DEF PtRecv, PtRuns
<1>4. SemaSound(e.ssem) /\ SemaSound(e.rsem)
  BY <1>1 DEF PtPortOK, PtQueuesAgree
<1>5. p \notin Waiters(e.rsem)
  BY <1>3, PtWaitsAt
<1>6. c \in PtCall /\ c.port = d /\ c.at = "recv" /\ c.seq = e.seq
  BY <1>2 DEF PtCall
<1> HIDE DEF c
<1>7. CASE Blocks(e.rsem)
  <2>1. PtQueued(c.at = "recv", p, e.rsem, s)
    <3> HIDE DEF e
    <3> QED  BY <1>4, <1>5, <1>6, <1>7, DownIs, DownAvailable DEF PtQueued
  <2>2. PtQueued(c.at = "send", p, e.ssem, e.ssem)
    BY <1>4, <1>6 DEF PtQueued
  <2>3. PtCallOK(c) /\ PtBlock(p, c, f)
    BY <1>3, <1>6, <1>7 DEF PtCallOK
  <2> QED  BY <1>3, <1>6, <2>1, <2>2, <2>3, PtBlockKeeps
<1>8. CASE ~Blocks(e.rsem)
  <2>1. SemaSound(s) /\ Waiters(s) = Waiters(e.rsem) /\ Available(e.rsem) = Available(s) + 1 /\ Available(s) \in Nat
    <3> HIDE DEF e
    <3> QED  BY <1>4, <1>5, <1>8, DownIs, DownAvailable
  <2>2. PtPassed(d, "recv", e.rsem) \ {p} = PtPassed(d, "recv", e.rsem)
    BY <1>3 DEF PtPassed
  <2>3. Cardinality(PtPassed(d, "recv", e.rsem)) \in Nat
    <3>1. PtPassed(d, "recv", e.rsem) \subseteq Procs
      BY DEF PtPassed
    <3> QED  BY <3>1, FS_Subset, FS_CardinalityType, SemasAssumption
  <2>4. Len(e.msgs) = Available(s) + Cardinality(PtPassed(d, "recv", e.rsem) \ {p}) + 1
    <3>1. Len(e.msgs) = Available(e.rsem) + Cardinality(PtPassed(d, "recv", e.rsem))
      BY <1>1, <1>3 DEF PtPortOK, PtCounted
    <3>2. PICK g \in Nat : g = Cardinality(PtPassed(d, "recv", e.rsem))
                            /\ g = Cardinality(PtPassed(d, "recv", e.rsem) \ {p})
      BY <2>2, <2>3, Zenon
    <3>3. Len(e.msgs) = Available(e.rsem) + g
      BY <3>1, <3>2, Zenon
    <3> HIDE DEF e, s
    <3>4. Len(e.msgs) = Available(s) + g + 1
      BY <1>2, <2>1, <3>3
    <3> QED  BY <3>2, <3>4, Zenon
  <2>5. PtDequeue(p, c, f) /\ PtOnly(ptcall[p], d) /\ ptcall[p].at \in {"user", "recv"}
    BY <1>3, <1>8 DEF PtOnly
  <2> QED  BY <1>3, <1>5, <1>6, <2>1, <2>4, <2>5, PtDequeueKeeps
<1> QED  BY <1>7, <1>8

\* Among those a semaphore let through, one and the others.
LEMMA PtOneOf ==
  ASSUME NEW d, NEW at, NEW s, NEW p \in Procs, p \in PtPassed(d, at, s)
  PROVE  /\ Cardinality(PtPassed(d, at, s)) = Cardinality(PtPassed(d, at, s) \ {p}) + 1
         /\ Cardinality(PtPassed(d, at, s) \ {p}) \in Nat
<1>1. PICK G : G = PtPassed(d, at, s)
  OBVIOUS
<1>2. G \subseteq Procs /\ p \in G
  BY <1>1 DEF PtPassed
<1>3. /\ Cardinality(G \ {p}) = Cardinality(G) - 1 /\ Cardinality(G) \in Nat
      /\ Cardinality(G \ {p}) \in Nat
  BY <1>2, OneMore
<1>4. Cardinality(G) = Cardinality(G \ {p}) + 1 /\ Cardinality(G \ {p}) \in Nat
  BY <1>3
<1> QED  BY <1>1, <1>4, Zenon

\* A call ends without having taken or left anything: the port is not what it was when
\* the caller called, or the message is already taken (ptsend.c, ptrecv.c).
LEMMA PtLeaves ==
  ASSUME PtInv, NEW p \in Procs, ptcall[p].at \in {"send", "recv", "received"}, p \notin PtBlocked,
         ptcall[p].at = "received" \/ ~PtUnchanged(ptcall[p]),
         ~ptpanic, PtSet(p, PtIdle), UNCHANGED <<porttab, ptfree, ptnextid, ptpanic>>
  PROVE  PtInv'
<1>1. PtTypes
  BY DEF PtInv
<1>2. PICK d \in Portids : d = ptcall[p].port
  BY <1>1 DEF PtTypes, PtCall
<1> DEFINE e == porttab[d]
<1>3. PtPortOK(d) /\ porttab' = porttab /\ ptfree' = ptfree /\ ptnextid' = ptnextid /\ ptpanic' = ptpanic
  BY DEF PtInv
<1>4. PtIdle \in PtCall /\ PtIdle.at = "user"
  BY PortsAssumption DEF PtIdle, PtCall, Portids
<1>5. /\ ptcall' \in [Procs -> PtCall] /\ ptcall'[p] = PtIdle
      /\ \A q \in Procs : q # p => ptcall'[q] = ptcall[q]
  BY <1>1, <1>4, PtSets
<1>6. PtTypes'
  BY <1>1, <1>3, <1>5 DEF PtTypes
<1>7. SemaSound(e.ssem) /\ SemaSound(e.rsem)
  BY <1>3 DEF PtPortOK, PtQueuesAgree
<1>8. Waiters(e.ssem) \subseteq Procs \ {p} /\ Waiters(e.rsem) \subseteq Procs \ {p}
  BY <1>7, SoundIsOK DEF PtBlocked
<1>9. PtQueuesAgree(d)'
  BY <1>3, <1>5, <1>8 DEF PtPortOK, PtQueuesAgree
<1>10. PtLives(d)'
  <2>1. \A q \in Procs : ptcall'[q].at \in {"send", "recv"} => ptcall'[q] = ptcall[q]
    BY <1>4, <1>5
  <2> QED  BY <1>3, <2>1 DEF PtPortOK, PtLives
<1>11. PtCounted(d)'
  <2>1. SUFFICES ASSUME e.state = "alloc"  PROVE PtCounted(d)'
    BY <1>3 DEF PtCounted
  <2>2. p \notin PtPassed(d, "send", e.ssem) /\ p \notin PtPassed(d, "recv", e.rsem)
    BY <1>2, <2>1 DEF PtPassed, PtUnchanged
  <2>3. /\ PtPassed(d, "send", porttab[d].ssem)' = PtPassed(d, "send", e.ssem)
        /\ PtPassed(d, "recv", porttab[d].rsem)' = PtPassed(d, "recv", e.rsem)
    BY <1>3, <1>4, <1>5, <2>2 DEF PtPassed
  <2> QED  BY <1>3, <2>3 DEF PtPortOK, PtCounted
<1>12. PtLimbo(d)'
  <2>1. PtClearers(d)' = PtClearers(d) /\ p \notin PtClearers(d)
    BY <1>4, <1>5 DEF PtClearers, PtClearing
  <2>2. \A q \in PtClearers(d) : ptcall'[q] = ptcall[q]
    BY <1>5, <2>1 DEF PtClearers
  <2> QED  BY <1>3, <2>1, <2>2 DEF PtPortOK, PtLimbo
<1>13. /\ ptfree' + Len(porttab'[d].msgs) = ptfree + Len(porttab[d].msgs)
       /\ PtOnly(ptcall[p], d) /\ PtOnly(ptcall'[p], d) /\ PtCallOK(ptcall'[p]) /\ PtPortOK(d)'
       /\ ~ptpanic' /\ \A i \in Portids : i # d => porttab'[i] = porttab[i]
  BY <1>2, <1>3, <1>4, <1>5, <1>9, <1>10, <1>11, <1>12 DEF PtOnly, PtCallOK, PtPortOK
<1> QED  BY <1>5, <1>6, <1>13, PtStep

\* What ptsend and ptrecv do behind the wait when they had to wait (ptsend.c, ptrecv.c).
LEMMA PtResumeKeeps ==
  ASSUME PtInv, NEW p \in Procs, PtResume(p)
  PROVE  PtInv'
<1> DEFINE c == ptcall[p]
<1>1. PtTypes /\ ptnextid' = ptnextid
  BY DEF PtInv, PtResume
<1>2. PICK d \in Portids : d = c.port
  BY <1>1 DEF PtTypes, PtCall
<1> DEFINE e == porttab[d]
<1>3. PtPortOK(d) /\ e \in PtEntry /\ c \in PtCall
  BY <1>1 DEF PtInv, PtTypes
<1>4. SemaSound(e.ssem) /\ SemaSound(e.rsem)
  BY <1>3 DEF PtPortOK, PtQueuesAgree
<1>5. e = PtRec(e.state, e.seq, e.maxcnt, e.msgs, e.ssem, e.rsem)
  BY <1>3 DEF PtEntry, PtRec
<1>6. Available(e.ssem) \in Nat /\ Available(e.rsem) \in Nat /\ Len(e.msgs) \in Nat
  BY <1>3, <1>4, DownAvailable DEF PtEntry
<1>7. CASE PtRuns(p, "send") /\ PtUnchanged(c) /\ PtEnqueue(p, c, e)
  <2>1. ~ptpanic /\ c.at = "send" /\ p \notin PtBlocked /\ e.state = "alloc" /\ c.seq = e.seq
    BY <1>2, <1>7 DEF PtRuns, PtUnchanged
  <2>2. c.msg = e.seq
    BY <2>1 DEF PtInv, PtCallOK
  <2>3. p \notin Waiters(e.ssem) /\ p \in PtPassed(d, "send", e.ssem)
    <3>1. p \notin Waiters(e.ssem)
      BY <2>1 DEF PtBlocked
    <3> QED  BY <1>2, <2>1, <3>1 DEF PtPassed
  <2>4. e.maxcnt = Len(e.msgs) + Available(e.ssem) + Cardinality(PtPassed(d, "send", e.ssem) \ {p}) + 1
    <3>1. e.maxcnt = Len(e.msgs) + Available(e.ssem) + Cardinality(PtPassed(d, "send", e.ssem))
      BY <1>3, <2>1 DEF PtPortOK, PtCounted
    <3>2. PICK g \in Nat : /\ g = Cardinality(PtPassed(d, "send", e.ssem) \ {p})
                           /\ Cardinality(PtPassed(d, "send", e.ssem)) = g + 1
      BY <2>3, PtOneOf
    <3>3. e.maxcnt = Len(e.msgs) + Available(e.ssem) + (g + 1)
      BY <3>1, <3>2, Zenon
    <3> HIDE DEF e
    <3>4. e.maxcnt = Len(e.msgs) + Available(e.ssem) + g + 1
      BY <1>6, <3>3
    <3> QED  BY <3>2, <3>4, Zenon
  <2>5. PtOnly(c, d) /\ c.at \in {"user", "send"} /\ PtEnqueue(p, c, e)
    BY <1>2, <1>7, <2>1 DEF PtOnly
  <2>6. PICK k \in PtCall : k = c
    BY <1>3
  <2> QED  BY <1>1, <1>2, <1>4, <1>5, <2>1, <2>2, <2>3, <2>4, <2>5, <2>6, PtEnqueueKeeps
<1>8. CASE PtRuns(p, "recv") /\ PtUnchanged(c) /\ PtDequeue(p, c, e)
  <2>1. ~ptpanic /\ c.at = "recv" /\ p \notin PtBlocked /\ e.state = "alloc" /\ c.seq = e.seq
    BY <1>2, <1>8 DEF PtRuns, PtUnchanged
  <2>2. p \notin Waiters(e.rsem) /\ p \in PtPassed(d, "recv", e.rsem)
    <3>1. p \notin Waiters(e.rsem)
      BY <2>1 DEF PtBlocked
    <3> QED  BY <1>2, <2>1, <3>1 DEF PtPassed
  <2>3. Len(e.msgs) = Available(e.rsem) + Cardinality(PtPassed(d, "recv", e.rsem) \ {p}) + 1
    <3>1. Len(e.msgs) = Available(e.rsem) + Cardinality(PtPassed(d, "recv", e.rsem))
      BY <1>3, <2>1 DEF PtPortOK, PtCounted
    <3>2. PICK g \in Nat : /\ g = Cardinality(PtPassed(d, "recv", e.rsem) \ {p})
                           /\ Cardinality(PtPassed(d, "recv", e.rsem)) = g + 1
      BY <2>2, PtOneOf
    <3>3. Len(e.msgs) = Available(e.rsem) + (g + 1)
      BY <3>1, <3>2, Zenon
    <3> HIDE DEF e
    <3>4. Len(e.msgs) = Available(e.rsem) + g + 1
      BY <1>6, <3>3
    <3> QED  BY <3>2, <3>4, Zenon
  <2>4. PtOnly(c, d) /\ c.at \in {"user", "recv"} /\ PtDequeue(p, c, e)
    BY <1>2, <1>8, <2>1 DEF PtOnly
  <2>5. PICK k \in PtCall : k = c
    BY <1>3
  <2> QED  BY <1>1, <1>2, <1>4, <1>5, <2>1, <2>2, <2>3, <2>4, <2>5, PtDequeueKeeps
<1>9. CASE /\ PtRuns(p, "send") \/ PtRuns(p, "recv")
           /\ ~PtUnchanged(c) /\ PtSet(p, PtIdle) /\ UNCHANGED <<porttab, ptfree, ptpanic>>
  BY <1>1, <1>9, PtLeaves DEF PtRuns
<1> QED
  <2>1. PtResume(p) => \/ PtRuns(p, "send") /\ PtUnchanged(c) /\ PtEnqueue(p, c, porttab[c.port])
                       \/ PtRuns(p, "recv") /\ PtUnchanged(c) /\ PtDequeue(p, c, porttab[c.port])
                       \/ /\ PtRuns(p, "send") \/ PtRuns(p, "recv")
                          /\ ~PtUnchanged(c) /\ PtSet(p, PtIdle) /\ UNCHANGED <<porttab, ptfree, ptpanic>>
    BY Zenon DEF PtResume
  <2> QED  BY <1>2, <1>7, <1>8, <1>9, <2>1, Zenon

\* ptreset and ptdelete as far as the dispose function: the port is in limbo and in its
\* next life, and the caller is the only one that clears it (ptreset.c, ptdelete.c).
LEMMA PtClearKeeps ==
  ASSUME PtInv, NEW p \in Procs, NEW d \in Portids, NEW how \in {"reset", "delete"}, PtClear(p, d, how)
  PROVE  PtInv'
<1> DEFINE e == porttab[d]
           n == PtRec("limbo", e.seq + 1, e.maxcnt, e.msgs, e.ssem, e.rsem)
           k == [at |-> how, port |-> d, seq |-> 0, msg |-> Len(e.msgs)]
<1>1. PtTypes /\ PtPortOK(d)
  BY DEF PtInv
<1>2. /\ e \in PtEntry /\ e.seq \in Nat /\ e.maxcnt \in Nat /\ e.msgs \in Seq(Nat) /\ Len(e.msgs) \in Nat
      /\ e.ssem \in PtSema /\ e.rsem \in PtSema
  BY <1>1 DEF PtTypes, PtEntry
<1>3. /\ ~ptpanic /\ ptcall[p].at = "user" /\ e.state = "alloc" /\ ptnextid' = ptnextid
      /\ ptfree' = ptfree /\ ptpanic' = ptpanic /\ PtSet(p, k)
  BY DEF PtClear, PtRuns
<1>4. n \in PtEntry /\ k \in PtCall
  BY <1>2 DEF PtEntry, PtRec, PtStates, PtCall, PtClearing
<1>5. porttab' = [porttab EXCEPT ![d] = n]
  BY <1>2, PtEnters, Zenon DEF PtClear
<1>6. /\ n.state = "limbo" /\ n.seq = e.seq + 1 /\ n.maxcnt = e.maxcnt /\ n.msgs = e.msgs
      /\ n.ssem = e.ssem /\ n.rsem = e.rsem /\ k.at \in {"reset", "delete"} /\ k.port = d
  BY DEF PtRec
<1> HIDE DEF n, k
<1>7. /\ porttab' \in [Portids -> PtEntry] /\ porttab'[d] = n
      /\ \A i \in Portids : i # d => porttab'[i] = porttab[i]
  BY <1>1, <1>4, <1>5, PtChanges
<1>8. /\ ptcall' \in [Procs -> PtCall] /\ ptcall'[p] = k
      /\ \A q \in Procs : q # p => ptcall'[q] = ptcall[q]
  BY <1>1, <1>3, <1>4, PtSets
<1>9. PtTypes'
  BY <1>1, <1>3, <1>7, <1>8 DEF PtTypes
<1>10. SemaSound(e.ssem) /\ SemaSound(e.rsem)
  BY <1>1 DEF PtPortOK, PtQueuesAgree
<1>11. Waiters(e.ssem) \subseteq Procs \ {p} /\ Waiters(e.rsem) \subseteq Procs \ {p}
  BY <1>1, <1>3, <1>10, SoundIsOK DEF PtPortOK, PtQueuesAgree
<1>12. PtQueuesAgree(d)'
  BY <1>1, <1>6, <1>7, <1>8, <1>11 DEF PtPortOK, PtQueuesAgree
<1>13. PtLives(d)'
  <2>1. ASSUME NEW q \in Procs, ptcall'[q].at \in {"send", "recv"}, ptcall'[q].port = d
        PROVE  ptcall'[q].seq < n.seq /\ ptcall'[q].seq <= n.seq
    <3>1. ptcall'[q] = ptcall[q]
      BY <1>6, <1>8, <2>1
    <3>2. ptcall[q].seq <= e.seq /\ ptcall[q].seq \in Nat
      BY <1>1, <2>1, <3>1 DEF PtPortOK, PtLives, PtTypes, PtCall
    <3> QED  BY <1>2, <1>6, <3>1, <3>2
  <2> QED  BY <1>6, <1>7, <2>1 DEF PtLives
<1>14. PtCounted(d)'
  BY <1>6, <1>7 DEF PtCounted
<1>15. Len(e.msgs) <= e.maxcnt
  BY <1>1, <1>2, <1>3, PtPlaces DEF PtInv
<1>16. PtLimbo(d)'
  <2>1. PtClearers(d) = {}
    BY <1>1, <1>3 DEF PtPortOK, PtLimbo
  <2>2. PtClearers(d)' = {p}
    BY <1>6, <1>8, <2>1 DEF PtClearers, PtClearing
  <2> QED  BY <1>6, <1>7, <1>8, <1>15, <2>2 DEF PtLimbo
<1>17. ptfree' + Len(porttab'[d].msgs) = ptfree + Len(porttab[d].msgs)
  BY <1>3, <1>6, <1>7
<1>18. PtOnly(ptcall[p], d) /\ PtOnly(ptcall'[p], d) /\ PtCallOK(ptcall'[p]) /\ PtPortOK(d)' /\ ~ptpanic'
  BY <1>3, <1>6, <1>8, <1>12, <1>13, <1>14, <1>16 DEF PtOnly, PtCallOK, PtPortOK
<1> QED  BY <1>7, <1>8, <1>9, <1>17, <1>18, PtStep

\* What the process that clears port d knows about it (ptclear.c).
LEMMA PtInLimbo ==
  ASSUME PtInv, NEW p \in Procs, NEW d \in Portids, d = ptcall[p].port, ptcall[p].at \in PtClearing
  PROVE  /\ porttab[d].state = "limbo" /\ PtClearers(d) = {p}
         /\ \A q \in Procs : ptcall[q].at \in {"send", "recv"} /\ ptcall[q].port = d =>
              ptcall[q].seq < porttab[d].seq
         /\ p \notin Waiters(porttab[d].ssem) /\ p \notin Waiters(porttab[d].rsem)
<1>1. p \in PtClearers(d) /\ PtPortOK(d)
  BY DEF PtClearers, PtInv
<1>2. porttab[d].state = "limbo" /\ \A q, r \in PtClearers(d) : q = r
  BY <1>1 DEF PtPortOK, PtLimbo
<1>3. \A q \in Procs : ptcall[q].at \in {"send", "recv"} /\ ptcall[q].port = d =>
        ptcall[q].seq < porttab[d].seq
  BY <1>1, <1>2 DEF PtPortOK, PtLives
<1>4. p \notin Waiters(porttab[d].ssem) /\ p \notin Waiters(porttab[d].rsem)
  BY PtWaitsAt DEF PtClearing
<1> QED  BY <1>1, <1>2, <1>3, <1>4

\* A step of the process that clears port d, which stays in limbo: it is enough that the
\* queues stay sound and nobody comes to wait, that the nodes are right, and that the
\* entry shows how far the process has come (ptclear.c).
LEMMA PtClearsOn ==
  ASSUME PtInv, NEW p \in Procs, NEW d \in Portids, NEW n \in PtEntry, NEW k \in PtCall,
         d = ptcall[p].port, ptcall[p].at \in PtClearing, k.at \in PtClearing, k.port = d,
         n.state = "limbo", n.seq = porttab[d].seq, n.maxcnt = porttab[d].maxcnt,
         SemaSound(n.ssem), SemaSound(n.rsem),
         Waiters(n.ssem) \subseteq Waiters(porttab[d].ssem),
         Waiters(n.rsem) \subseteq Waiters(porttab[d].rsem),
         Len(n.msgs) <= n.maxcnt,
         k.at \notin {"reset", "delete"} =>
           /\ n.msgs = <<>>
           /\ n.ssem = Sema(IF k.at \in {"reset2", "reset3"} THEN n.maxcnt ELSE 0)
           /\ k.at \in {"reset3", "delete3"} => n.rsem = Sema(0),
         porttab' = [porttab EXCEPT ![d] = n], PtSet(p, k), ptfree' \in Nat,
         ptfree' + Len(n.msgs) = ptfree + Len(porttab[d].msgs),
         ptpanic' = ptpanic, ~ptpanic, ptnextid' = ptnextid
  PROVE  PtInv'
<1>1. PtTypes /\ PtPortOK(d)
  BY DEF PtInv
<1>2. /\ porttab' \in [Portids -> PtEntry] /\ porttab'[d] = n
      /\ \A i \in Portids : i # d => porttab'[i] = porttab[i]
  BY <1>1, PtChanges
<1>3. /\ ptcall' \in [Procs -> PtCall] /\ ptcall'[p] = k
      /\ \A q \in Procs : q # p => ptcall'[q] = ptcall[q]
  BY <1>1, PtSets
<1>4. PtTypes'
  BY <1>1, <1>2, <1>3 DEF PtTypes
<1>5. /\ PtClearers(d) = {p}
      /\ \A q \in Procs : ptcall[q].at \in {"send", "recv"} /\ ptcall[q].port = d =>
              ptcall[q].seq < porttab[d].seq
      /\ p \notin Waiters(porttab[d].ssem) /\ p \notin Waiters(porttab[d].rsem)
  BY PtInLimbo
<1>6. Waiters(porttab[d].ssem) \subseteq Procs /\ Waiters(porttab[d].rsem) \subseteq Procs
  BY <1>1, SoundIsOK DEF PtPortOK, PtQueuesAgree
<1>7. PtQueuesAgree(d)'
  <2>1. \A q \in Waiters(n.ssem) : ptcall'[q].at = "send" /\ ptcall'[q].port = d
    BY <1>1, <1>3, <1>5, <1>6 DEF PtPortOK, PtQueuesAgree
  <2>2. \A q \in Waiters(n.rsem) : ptcall'[q].at = "recv" /\ ptcall'[q].port = d
    BY <1>1, <1>3, <1>5, <1>6 DEF PtPortOK, PtQueuesAgree
  <2> QED  BY <1>2, <2>1, <2>2 DEF PtQueuesAgree
<1>8. PtLives(d)'
  <2>1. ASSUME NEW q \in Procs, ptcall'[q].at \in {"send", "recv"}, ptcall'[q].port = d
        PROVE  ptcall'[q].seq < n.seq /\ ptcall'[q].seq <= n.seq
    <3>1. ptcall'[q] = ptcall[q]
      BY <1>3, <2>1 DEF PtClearing
    <3>2. ptcall[q].seq < porttab[d].seq /\ ptcall[q].seq \in Nat /\ porttab[d].seq \in Nat
      BY <1>1, <1>5, <2>1, <3>1 DEF PtTypes, PtCall, PtEntry
    <3> QED  BY <3>1, <3>2
  <2> QED  BY <1>2, <2>1 DEF PtLives
<1>9. PtCounted(d)'
  BY <1>2 DEF PtCounted
<1>10. PtLimbo(d)'
  <2>1. PtClearers(d)' = {p}
    BY <1>3, <1>5 DEF PtClearers
  <2> QED  BY <1>2, <1>3, <2>1 DEF PtLimbo
<1>11. /\ PtOnly(ptcall[p], d) /\ PtOnly(ptcall'[p], d) /\ PtCallOK(ptcall'[p]) /\ PtPortOK(d)'
       /\ ~ptpanic' /\ ptfree' + Len(porttab'[d].msgs) = ptfree + Len(porttab[d].msgs)
  BY <1>2, <1>3, <1>7, <1>8, <1>9, <1>10 DEF PtOnly, PtCallOK, PtPortOK, PtClearing
<1> QED  BY <1>2, <1>3, <1>4, <1>11, PtStep

\* The call of the process that clears a port, as it goes on.
LEMMA PtGoesOn ==
  ASSUME NEW c \in PtCall, c.at \in PtClearing, NEW at \in PtClearing, NEW m \in Nat
  PROVE  /\ [c EXCEPT !.at = at] \in PtCall /\ [c EXCEPT !.at = at].at = at
         /\ [c EXCEPT !.at = at].port = c.port
         /\ [c EXCEPT !.msg = m] \in PtCall /\ [c EXCEPT !.msg = m].at = c.at
         /\ [c EXCEPT !.msg = m].port = c.port
BY DEF PtCall

\* The dispose function at one message (ptclear.c).
LEMMA PtDisposeKeeps ==
  ASSUME PtInv, NEW p \in Procs, PtDispose(p)
  PROVE  PtInv'
<1> DEFINE c == ptcall[p]
           k == [c EXCEPT !.msg = c.msg - 1]
<1>1. PtTypes /\ c \in PtCall /\ c.msg \in Nat /\ ptfree \in Nat
  BY DEF PtInv, PtTypes, PtCall
<1>2. PICK d \in Portids : d = c.port
  BY <1>1 DEF PtCall
<1>3. /\ c.at \in {"reset", "delete"} /\ c.msg > 0 /\ ~ptpanic /\ PtSet(p, k)
      /\ porttab' = porttab /\ ptfree' = ptfree /\ ptnextid' = ptnextid /\ ptpanic' = ptpanic
  BY DEF PtDispose, PtRuns
<1>4. PtPortOK(d) /\ porttab[d] \in PtEntry /\ porttab[d].state = "limbo" /\ c.at \in PtClearing
  BY <1>1, <1>2, <1>3, PtInLimbo DEF PtInv, PtTypes, PtClearing
<1>5. k \in PtCall /\ k.at = c.at /\ k.port = d
  <2>1. c.msg - 1 \in Nat
    BY <1>1, <1>3
  <2> HIDE DEF c
  <2> QED  BY <1>1, <1>2, <1>4, <2>1, PtGoesOn
<1> HIDE DEF k
<1>6. /\ SemaSound(porttab[d].ssem) /\ SemaSound(porttab[d].rsem)
      /\ Len(porttab[d].msgs) <= porttab[d].maxcnt
  BY <1>4 DEF PtPortOK, PtQueuesAgree, PtLimbo
<1>7. porttab' = [porttab EXCEPT ![d] = porttab[d]]
  BY <1>1, <1>3 DEF PtTypes
<1>8. PICK n \in PtEntry : n = porttab[d]
  BY <1>4
<1>9. porttab' = [porttab EXCEPT ![d] = n]
  BY <1>7, <1>8
<1> QED  BY <1>1, <1>2, <1>3, <1>4, <1>5, <1>6, <1>8, <1>9, PtClearsOn

\* The messages are thrown away and the senders released (ptclear.c).
LEMMA PtClearSendersKeeps ==
  ASSUME PtInv, NEW p \in Procs, PtClearSenders(p)
  PROVE  PtInv'
<1> DEFINE c == ptcall[p]
<1>1. PtTypes /\ c \in PtCall /\ ptfree \in Nat
  BY DEF PtInv, PtTypes
<1>2. PICK d \in Portids : d = c.port
  BY <1>1 DEF PtCall
<1> DEFINE e == porttab[d]
           x == IF c.at = "reset" THEN e.maxcnt ELSE 0
           n == PtRec(e.state, e.seq, e.maxcnt, <<>>, Sema(x), e.rsem)
           at == IF c.at = "reset" THEN "reset2" ELSE "delete2"
           k == [c EXCEPT !.at = at]
<1>3. /\ e \in PtEntry /\ e.maxcnt \in Nat /\ e.msgs \in Seq(Nat) /\ Len(e.msgs) \in Nat /\ x \in Nat
      /\ e.rsem \in PtSema
  BY <1>1 DEF PtTypes, PtEntry
<1>4. /\ c.at \in {"reset", "delete"} /\ ~ptpanic /\ PtSet(p, k)
      /\ ptfree' = ptfree + Len(e.msgs) /\ ptnextid' = ptnextid /\ ptpanic' = ptpanic
  BY <1>2 DEF PtClearSenders, PtRuns
<1>5. porttab' = [porttab EXCEPT ![d] = n]
  BY <1>2, <1>3, PtEmptied, Zenon DEF PtClearSenders
<1>6. PtPortOK(d) /\ e.state = "limbo" /\ c.at \in PtClearing /\ at \in PtClearing
  BY <1>1, <1>2, <1>4, PtInLimbo DEF PtInv, PtClearing
<1>7. k \in PtCall /\ k.at = at /\ k.port = d
  <2> HIDE DEF c, at
  <2> QED  BY <1>1, <1>2, <1>6, PtGoesOn
<1>8. SemaSound(Sema(x)) /\ Waiters(Sema(x)) = {} /\ Sema(x) \in PtSema /\ SemaSound(e.rsem)
  <2>1. SemaSound(Sema(x)) /\ Waiters(Sema(x)) = {}
    <3> HIDE DEF x
    <3> QED  BY <1>3, SemaIsSound
  <2> QED  BY <1>6, <2>1 DEF SemaSound, PtSema, PtPortOK, PtQueuesAgree
<1>9. n \in PtEntry /\ n.state = e.state /\ n.seq = e.seq /\ n.maxcnt = e.maxcnt /\ n.msgs = <<>>
        /\ n.ssem = Sema(x) /\ n.rsem = e.rsem
  <2>1. n \in PtEntry
    <3>1. <<>> \in Seq(Nat)
      OBVIOUS
    <3> HIDE DEF e, x
    <3> QED  BY <1>3, <1>8, <3>1, PtRecIs
  <2> QED  BY <2>1 DEF PtRec
<1>10. k.at \notin {"reset3", "delete3"} /\ (k.at \in {"reset2", "reset3"} <=> c.at = "reset")
  BY <1>4, <1>7
<1> HIDE DEF k, n
<1>11. n.ssem = Sema(IF k.at \in {"reset2", "reset3"} THEN n.maxcnt ELSE 0)
  BY <1>9, <1>10
<1>12. Len(n.msgs) = 0 /\ Len(n.msgs) <= n.maxcnt /\ ptfree' \in Nat
       /\ ptfree' + Len(n.msgs) = ptfree + Len(e.msgs)
  BY <1>1, <1>3, <1>4, <1>9
<1>13. k.at \notin {"reset", "delete"} =>
           /\ n.msgs = <<>>
           /\ n.ssem = Sema(IF k.at \in {"reset2", "reset3"} THEN n.maxcnt ELSE 0)
           /\ k.at \in {"reset3", "delete3"} => n.rsem = Sema(0)
  BY <1>9, <1>10, <1>11
<1>14. k.at \in PtClearing /\ n.state = "limbo" /\ SemaSound(n.ssem) /\ SemaSound(n.rsem)
       /\ Waiters(n.ssem) \subseteq Waiters(e.ssem) /\ Waiters(n.rsem) \subseteq Waiters(e.rsem)
  BY <1>6, <1>7, <1>8, <1>9
<1> QED  BY <1>2, <1>4, <1>5, <1>6, <1>7, <1>9, <1>12, <1>13, <1>14, PtClearsOn

\* The receivers are released (ptclear.c).
LEMMA PtClearReceiversKeeps ==
  ASSUME PtInv, NEW p \in Procs, PtClearReceivers(p)
  PROVE  PtInv'
<1> DEFINE c == ptcall[p]
<1>1. PtTypes /\ c \in PtCall /\ ptfree \in Nat
  BY DEF PtInv, PtTypes
<1>2. PICK d \in Portids : d = c.port
  BY <1>1 DEF PtCall
<1> DEFINE e == porttab[d]
           n == PtRec(e.state, e.seq, e.maxcnt, e.msgs, e.ssem, Sema(0))
           at == IF c.at = "reset2" THEN "reset3" ELSE "delete3"
           k == [c EXCEPT !.at = at]
<1>3. /\ e \in PtEntry /\ e.maxcnt \in Nat /\ e.msgs \in Seq(Nat) /\ e.ssem \in PtSema
  BY <1>1 DEF PtTypes, PtEntry
<1>4. /\ c.at \in {"reset2", "delete2"} /\ ~ptpanic /\ PtSet(p, k)
      /\ ptfree' = ptfree /\ ptnextid' = ptnextid /\ ptpanic' = ptpanic
  BY <1>2 DEF PtClearReceivers, PtRuns
<1>5. porttab' = [porttab EXCEPT ![d] = n]
  <2>1. porttab' = [porttab EXCEPT ![d].rsem = Sema(0)]
    BY <1>2 DEF PtClearReceivers
  <2>2. porttab' = [porttab EXCEPT ![d] = [e EXCEPT !.rsem = Sema(0)]]
    BY <1>1, <2>1 DEF PtTypes
  <2> QED  BY <1>3, <2>2, PtWithRsem, Zenon
<1>6. PtPortOK(d) /\ e.state = "limbo" /\ c.at \in PtClearing /\ at \in PtClearing /\ p \in PtClearers(d)
  BY <1>1, <1>2, <1>4, PtInLimbo DEF PtInv, PtClearing
<1>7. k \in PtCall /\ k.at = at /\ k.port = d
  <2> HIDE DEF c, at
  <2> QED  BY <1>1, <1>2, <1>6, PtGoesOn
<1>8. SemaSound(Sema(0)) /\ Waiters(Sema(0)) = {} /\ Sema(0) \in PtSema /\ SemaSound(e.ssem)
  <2>1. SemaSound(Sema(0)) /\ Waiters(Sema(0)) = {}
    BY SemaIsSound
  <2> QED  BY <1>6, <2>1 DEF SemaSound, PtSema, PtPortOK, PtQueuesAgree
<1>9. n \in PtEntry /\ n.state = e.state /\ n.seq = e.seq /\ n.maxcnt = e.maxcnt /\ n.msgs = e.msgs
        /\ n.ssem = e.ssem /\ n.rsem = Sema(0)
  <2>1. n \in PtEntry
    <3> HIDE DEF e
    <3> QED  BY <1>3, <1>8, PtRecIs
  <2> QED  BY <2>1 DEF PtRec
<1>10. k.at \in {"reset3", "delete3"} /\ (k.at \in {"reset2", "reset3"} <=> c.at \in {"reset2", "reset3"})
  BY <1>4, <1>7
<1> HIDE DEF k, n
<1>11. e.msgs = <<>> /\ e.ssem = Sema(IF c.at \in {"reset2", "reset3"} THEN e.maxcnt ELSE 0)
  BY <1>4, <1>6 DEF PtPortOK, PtLimbo
<1>12. Len(n.msgs) = 0 /\ Len(n.msgs) <= n.maxcnt /\ ptfree' \in Nat
       /\ ptfree' + Len(n.msgs) = ptfree + Len(e.msgs)
  BY <1>1, <1>3, <1>4, <1>9, <1>11
<1>13. k.at \notin {"reset", "delete"} =>
           /\ n.msgs = <<>>
           /\ n.ssem = Sema(IF k.at \in {"reset2", "reset3"} THEN n.maxcnt ELSE 0)
           /\ k.at \in {"reset3", "delete3"} => n.rsem = Sema(0)
  BY <1>9, <1>10, <1>11
<1>14. k.at \in PtClearing /\ n.state = "limbo" /\ SemaSound(n.ssem) /\ SemaSound(n.rsem)
       /\ Waiters(n.ssem) \subseteq Waiters(e.ssem) /\ Waiters(n.rsem) \subseteq Waiters(e.rsem)
  BY <1>6, <1>7, <1>8, <1>9
<1> QED  BY <1>2, <1>4, <1>5, <1>6, <1>7, <1>9, <1>12, <1>13, <1>14, PtClearsOn

\* A port that begins a new life, or is free: nobody waits, nothing is in it, and every
\* call that has not come back is of an earlier life (ptcreate.c, ptreset.c, ptdelete.c).
LEMMA PtBegins ==
  ASSUME PtInv, NEW p \in Procs, NEW d \in Portids, NEW n \in PtEntry, NEW k \in PtCall,
         ptcall[p].at \notin {"send", "recv"}, PtOnly(ptcall[p], d), k.at = "user",
         PtClearers(d) \subseteq {p}, porttab[d].msgs = <<>>,
         n.state \in {"alloc", "free"}, n.msgs = <<>>,
         SemaSound(n.ssem), SemaSound(n.rsem), Waiters(n.ssem) = {}, Waiters(n.rsem) = {},
         n.state = "alloc" => Available(n.ssem) = n.maxcnt /\ Available(n.rsem) = 0,
         \A q \in Procs : ptcall[q].at \in {"send", "recv"} /\ ptcall[q].port = d => ptcall[q].seq < n.seq,
         porttab' = [porttab EXCEPT ![d] = n], PtSet(p, k), ptnextid' \in Portids,
         ptfree' = ptfree, ptpanic' = ptpanic, ~ptpanic
  PROVE  PtInv'
<1>1. PtTypes
  BY DEF PtInv
<1>2. /\ porttab' \in [Portids -> PtEntry] /\ porttab'[d] = n
      /\ \A i \in Portids : i # d => porttab'[i] = porttab[i]
  BY <1>1, PtChanges
<1>3. /\ ptcall' \in [Procs -> PtCall] /\ ptcall'[p] = k
      /\ \A q \in Procs : q # p => ptcall'[q] = ptcall[q]
  BY <1>1, PtSets
<1>4. PtTypes'
  BY <1>1, <1>2, <1>3 DEF PtTypes
<1>5. PtQueuesAgree(d)'
  BY <1>2 DEF PtQueuesAgree
<1>6. ASSUME NEW q \in Procs, ptcall'[q].at \in {"send", "recv"}, ptcall'[q].port = d
      PROVE  /\ ptcall'[q].seq < n.seq /\ ptcall'[q].seq <= n.seq /\ ptcall'[q].seq # n.seq
  <2>1. ptcall'[q] = ptcall[q]
    BY <1>3, <1>6
  <2>2. ptcall[q].seq < n.seq /\ ptcall[q].seq \in Nat /\ n.seq \in Nat
    BY <1>1, <1>6, <2>1 DEF PtTypes, PtCall, PtEntry
  <2> QED  BY <2>1, <2>2
<1>7. PtLives(d)'
  <2>1. \A i \in 1 .. Len(n.msgs) : n.msgs[i] = n.seq
    OBVIOUS
  <2> QED  BY <1>2, <1>6, <2>1 DEF PtLives
<1>8. PtCounted(d)'
  <2>1. SUFFICES ASSUME n.state = "alloc"  PROVE PtCounted(d)'
    BY <1>2 DEF PtCounted
  <2>2. PtPassed(d, "send", porttab[d].ssem)' = {} /\ PtPassed(d, "recv", porttab[d].rsem)' = {}
    BY <1>2, <1>6 DEF PtPassed
  <2>3. Cardinality({}) = 0 /\ Len(n.msgs) = 0 /\ n.maxcnt \in Nat
    BY FS_EmptySet DEF PtEntry
  <2>4. /\ Len(n.msgs) = Available(n.rsem) + Cardinality({})
        /\ n.maxcnt = Len(n.msgs) + Available(n.ssem) + Cardinality({})
    BY <2>1, <2>3
  <2> QED  BY <1>2, <2>2, <2>4 DEF PtCounted
<1>9. PtLimbo(d)'
  <2>1. PtClearers(d)' = {}
    BY <1>3 DEF PtClearers, PtClearing
  <2> QED  BY <1>2, <2>1 DEF PtLimbo
<1>10. /\ PtOnly(ptcall'[p], d) /\ PtCallOK(ptcall'[p]) /\ PtPortOK(d)'
       /\ ~ptpanic' /\ ptfree' + Len(porttab'[d].msgs) = ptfree + Len(porttab[d].msgs)
  BY <1>2, <1>3, <1>5, <1>7, <1>8, <1>9 DEF PtOnly, PtCallOK, PtPortOK
<1> QED  BY <1>2, <1>3, <1>4, <1>10, PtStep

\* The end of ptreset and of ptdelete (ptreset.c, ptdelete.c).
LEMMA PtClearEndKeeps ==
  ASSUME PtInv, NEW p \in Procs, PtClearEnd(p)
  PROVE  PtInv'
<1> DEFINE c == ptcall[p]
<1>1. PtTypes /\ c \in PtCall
  BY DEF PtInv, PtTypes
<1>2. PICK d \in Portids : d = c.port
  BY <1>1 DEF PtCall
<1> DEFINE e == porttab[d]
           st == IF c.at = "reset3" THEN "alloc" ELSE "free"
           n == PtRec(st, e.seq, e.maxcnt, e.msgs, e.ssem, e.rsem)
<1>3. /\ e \in PtEntry /\ e.maxcnt \in Nat
  BY <1>1 DEF PtTypes, PtEntry
<1>4. /\ c.at \in {"reset3", "delete3"} /\ ~ptpanic /\ PtSet(p, PtIdle)
      /\ ptfree' = ptfree /\ ptnextid' \in Portids /\ ptpanic' = ptpanic
      /\ porttab' = [porttab EXCEPT ![d].state = st]
  BY <1>1, <1>2 DEF PtClearEnd, PtRuns, PtTypes
<1>5. n \in PtEntry /\ n.state = st /\ n.seq = e.seq /\ n.maxcnt = e.maxcnt /\ n.msgs = e.msgs
        /\ n.ssem = e.ssem /\ n.rsem = e.rsem
  BY <1>3 DEF PtRec, PtEntry, PtStates
<1>6. porttab' = [porttab EXCEPT ![d] = n]
  <2>1. porttab' = [porttab EXCEPT ![d] = [e EXCEPT !.state = st]]
    BY <1>1, <1>4 DEF PtTypes
  <2>2. [e EXCEPT !.state = st] = n
    <3> HIDE DEF st, e
    <3> QED  BY <1>3 DEF PtEntry, PtRec
  <2> HIDE DEF n
  <2> QED  BY <2>1, <2>2, Zenon
<1>7. /\ e.state = "limbo" /\ PtClearers(d) = {p} /\ PtPortOK(d)
      /\ \A q \in Procs : ptcall[q].at \in {"send", "recv"} /\ ptcall[q].port = d => ptcall[q].seq < e.seq
  BY <1>2, <1>4, PtInLimbo DEF PtInv, PtClearing
<1>8. /\ e.msgs = <<>> /\ e.rsem = Sema(0)
      /\ e.ssem = Sema(IF c.at \in {"reset2", "reset3"} THEN e.maxcnt ELSE 0)
  BY <1>4, <1>7 DEF PtPortOK, PtLimbo
<1>9. PICK m \in Nat : e.ssem = Sema(m) /\ (st = "alloc" => m = e.maxcnt)
  BY <1>3, <1>4, <1>8
<1>10. /\ SemaSound(Sema(m)) /\ Waiters(Sema(m)) = {} /\ SemaSound(Sema(0)) /\ Waiters(Sema(0)) = {}
       /\ Available(Sema(m)) = m /\ Available(Sema(0)) = 0
  <2>1. Available(Sema(m)) = m /\ Available(Sema(0)) = 0
    BY DEF Available, Sema
  <2> QED  BY <2>1, SemaIsSound
<1>11. PtIdle \in PtCall /\ PtIdle.at = "user"
  BY PortsAssumption DEF PtIdle, PtCall, Portids
<1>12. /\ c.at \notin {"send", "recv"} /\ PtOnly(c, d) /\ st \in {"alloc", "free"}
  BY <1>2, <1>4 DEF PtOnly
<1> HIDE DEF n
<1>13. /\ SemaSound(n.ssem) /\ SemaSound(n.rsem) /\ Waiters(n.ssem) = {} /\ Waiters(n.rsem) = {}
       /\ n.state = "alloc" => Available(n.ssem) = n.maxcnt /\ Available(n.rsem) = 0
  BY <1>5, <1>8, <1>9, <1>10
<1>14. /\ n.state \in {"alloc", "free"} /\ n.msgs = <<>>
       /\ \A q \in Procs : ptcall[q].at \in {"send", "recv"} /\ ptcall[q].port = d => ptcall[q].seq < n.seq
  BY <1>5, <1>7, <1>8, <1>12
<1> QED  BY <1>4, <1>5, <1>6, <1>7, <1>8, <1>11, <1>12, <1>13, <1>14, PtBegins

\* The ports are numbered round about.
LEMMA PtAround ==
  ASSUME NEW i \in Nat
  PROVE  i % NPORTS \in Portids
BY PortsAssumption DEF Portids

\* ptcreate (ptcreate.c)
LEMMA PtCreateKeeps ==
  ASSUME PtInv, NEW p \in Procs, NEW count \in PtCounts, PtCreate(p, count)
  PROVE  PtInv'
<1>1. PtTypes /\ ptcall[p] \in PtCall /\ count \in Nat
  BY PortsAssumption DEF PtInv, PtTypes
<1>2. PICK i \in 0 .. NPORTS - 1 :
        /\ PtRuns(p, "user") /\ porttab[PtScan(i)].state = "free"
        /\ porttab' = [porttab EXCEPT ![PtScan(i)] =
             [state |-> "alloc", seq |-> @.seq + 1, maxcnt |-> count,
              msgs |-> <<>>, ssem |-> Sema(count), rsem |-> Sema(0)]]
        /\ ptnextid' = (PtScan(i) + 1) % NPORTS
        /\ ptfree' = ptfree /\ ptcall' = ptcall /\ ptpanic' = ptpanic
  BY Zenon DEF PtCreate
<1>3. PICK d \in Portids : d = PtScan(i)
  <2>1. ptnextid + i \in Nat
    BY <1>1, PortsAssumption DEF PtTypes, Portids
  <2> QED  BY <2>1, PtAround DEF PtScan
<1> DEFINE e == porttab[d]
           n == PtRec("alloc", e.seq + 1, count, <<>>, Sema(count), Sema(0))
<1>4. porttab' = [porttab EXCEPT ![d] = n] /\ e.state = "free"
  BY <1>2, <1>3 DEF PtRec
<1>5. /\ SemaSound(Sema(count)) /\ Waiters(Sema(count)) = {} /\ SemaSound(Sema(0)) /\ Waiters(Sema(0)) = {}
      /\ Available(Sema(count)) = count /\ Available(Sema(0)) = 0
      /\ Sema(count) \in PtSema /\ Sema(0) \in PtSema
  <2>1. Available(Sema(count)) = count /\ Available(Sema(0)) = 0 /\ Sema(count) \in PtSema /\ Sema(0) \in PtSema
    BY <1>1 DEF Available, Sema, PtSema
  <2> QED  BY <1>1, <2>1, SemaIsSound
<1>6. e.seq \in Nat /\ e \in PtEntry
  BY <1>1 DEF PtTypes, PtEntry
<1>7. n \in PtEntry /\ n.state = "alloc" /\ n.seq = e.seq + 1 /\ n.maxcnt = count /\ n.msgs = <<>>
        /\ n.ssem = Sema(count) /\ n.rsem = Sema(0)
  BY <1>1, <1>5, <1>6 DEF PtRec, PtEntry, PtStates
<1> HIDE DEF n
<1>8. PtPortOK(d) /\ PtClearers(d) = {} /\ e.msgs = <<>>
  BY <1>4 DEF PtInv, PtPortOK, PtLimbo
<1>9. ASSUME NEW q \in Procs, ptcall[q].at \in {"send", "recv"}, ptcall[q].port = d
      PROVE  ptcall[q].seq < n.seq
  <2>1. ptcall[q].seq < e.seq /\ ptcall[q].seq \in Nat
    BY <1>1, <1>4, <1>8, <1>9 DEF PtPortOK, PtLives, PtTypes, PtCall
  <2> QED  BY <1>6, <1>7, <2>1
<1>10. PtSet(p, ptcall[p])
  BY <1>1, <1>2 DEF PtSet, PtTypes
<1>11. PICK k \in PtCall : k = ptcall[p]
  BY <1>1
<1>12. k.at = "user" /\ ptcall[p].at \notin {"send", "recv"} /\ PtOnly(ptcall[p], d) /\ ~ptpanic /\ PtSet(p, k)
  BY <1>2, <1>10, <1>11 DEF PtRuns, PtOnly
<1>13. ptnextid' \in Portids
  <2>1. d + 1 \in Nat
    BY PortsAssumption DEF Portids
  <2> QED  BY <1>2, <1>3, <2>1, PtAround
<1>14. /\ SemaSound(n.ssem) /\ SemaSound(n.rsem) /\ Waiters(n.ssem) = {} /\ Waiters(n.rsem) = {}
       /\ Available(n.ssem) = n.maxcnt /\ Available(n.rsem) = 0 /\ n.state \in {"alloc", "free"}
  BY <1>5, <1>7
<1>15. PtClearers(d) \subseteq {p} /\ ptfree' = ptfree /\ ptpanic' = ptpanic
  BY <1>2, <1>8
<1> QED  BY <1>4, <1>7, <1>8, <1>9, <1>12, <1>13, <1>14, <1>15, PtBegins

\* The sum of nothing is nothing.
LEMMA PtSumZero ==
  ASSUME NEW f \in [Portids -> Int], \A i \in Portids : f[i] = 0
  PROVE  PtSum(f) = 0
<1> DEFINE F == PtSums(f)
           T == {n \in 0 .. NPORTS : F[n] # 0}
<1>1. /\ F[0] = 0 /\ \A n \in 1 .. NPORTS : F[n] = F[n - 1] + f[n - 1]
      /\ \A n \in 0 .. NPORTS : F[n] \in Int
  BY PtSumsType
<1> HIDE DEF F
<1>2. NPORTS \in Nat /\ \A n \in 1 .. NPORTS : n - 1 \in Portids /\ f[n - 1] = 0
  BY PortsAssumption DEF Portids
<1>3. T = {}
  <2>1. SUFFICES ASSUME T # {}  PROVE FALSE
    OBVIOUS
  <2>2. T \subseteq Nat  BY <1>2
  <2>3. PICK n \in T : \A m \in T : n <= m
    <3> HIDE DEF T
    <3> QED  BY <2>1, <2>2, LeastNat
  <2>4. n # 0
    BY <1>1, <2>3
  <2>5. n - 1 \in 0 .. NPORTS /\ n - 1 \notin T /\ n \in 1 .. NPORTS
    BY <1>2, <2>3, <2>4
  <2> QED  BY <1>1, <1>2, <2>3, <2>5
<1>4. NPORTS \in 0 .. NPORTS
  BY <1>2
<1> QED  BY <1>3, <1>4 DEF PtSum, F

\* ptinit: no port is in use, every node is on the list (ptinit.c).
LEMMA PtInitially ==
  ASSUME PtInit
  PROVE  PtInv
<1>1. SemaSound(Sema(0)) /\ Waiters(Sema(0)) = {} /\ Sema(0) \in PtSema
  <2>1. Sema(0) \in PtSema
    BY DEF Sema, PtSema
  <2> QED  BY <2>1, SemaIsSound
<1>2. \A d \in Portids : /\ porttab[d].state = "free" /\ porttab[d].seq = 0 /\ porttab[d].maxcnt = 0
                         /\ porttab[d].msgs = <<>> /\ porttab[d].ssem = Sema(0) /\ porttab[d].rsem = Sema(0)
  BY DEF PtInit
<1>3. \A p \in Procs : ptcall[p].at = "user"
  BY DEF PtInit, PtIdle
<1>4. PtTypes
  <2>1. PtIdle \in PtCall /\ 0 \in Portids
    BY PortsAssumption DEF PtIdle, PtCall, Portids
  <2>2. PtRec("free", 0, 0, <<>>, Sema(0), Sema(0)) \in PtEntry
    BY <1>1 DEF PtRec, PtEntry, PtStates
  <2>3. porttab = [d \in Portids |-> PtRec("free", 0, 0, <<>>, Sema(0), Sema(0))]
    BY DEF PtInit, PtRec
  <2> QED  BY <2>1, <2>2, <2>3, PortsAssumption DEF PtInit, PtTypes
<1>5. PtNodesKept
  <2> DEFINE f == [d \in Portids |-> Len(porttab[d].msgs)]
  <2>1. f \in [Portids -> Int] /\ \A i \in Portids : f[i] = 0
    BY <1>2
  <2>2. PtSum(f) = 0
    <3> HIDE DEF f
    <3> QED  BY <2>1, PtSumZero
  <2>3. ptfree = PTMSGS /\ ~ptpanic /\ PTMSGS \in Nat
    BY PortsAssumption DEF PtInit
  <2> QED  BY <2>2, <2>3 DEF PtNodesKept
<1>6. \A d \in Portids : PtClearers(d) = {}
  BY <1>3 DEF PtClearers, PtClearing
<1>7. \A d \in Portids : PtPortOK(d)
  BY <1>1, <1>2, <1>3, <1>6 DEF PtPortOK, PtQueuesAgree, PtLives, PtCounted, PtLimbo
<1> QED  BY <1>3, <1>4, <1>5, <1>7 DEF PtInv, PtCallOK

\* Every step keeps the invariant.
LEMMA PtStepKeeps ==
  ASSUME PtInv, [PtNext]_ptvars
  PROVE  PtInv'
<1>1. CASE UNCHANGED ptvars
  <2>1. porttab' = porttab /\ ptfree' = ptfree /\ ptnextid' = ptnextid /\ ptcall' = ptcall /\ ptpanic' = ptpanic
    BY <1>1 DEF ptvars
  <2>2. PtTypes' /\ PtNodesKept'
    BY <2>1 DEF PtInv, PtTypes, PtNodesKept
  <2>3. \A j \in Portids : PtElsewhere(j)
    BY <2>1 DEF PtElsewhere
  <2>4. \A j \in Portids : PtPortOK(j)'
    BY <2>1, <2>3, PtUntouched DEF PtInv
  <2> QED  BY <2>1, <2>2, <2>4 DEF PtInv, PtCallOK
<1>2. ASSUME NEW p \in Procs, NEW count \in PtCounts, PtCreate(p, count)  PROVE PtInv'
  BY <1>2, PtCreateKeeps
<1>3. ASSUME NEW p \in Procs, NEW d \in Portids, PtSend(p, d) \/ PtRecv(p, d)  PROVE PtInv'
  BY <1>3, PtSendKeeps, PtRecvKeeps
<1>4. ASSUME NEW p \in Procs, NEW d \in Portids, NEW how \in {"reset", "delete"}, PtClear(p, d, how)
      PROVE  PtInv'
  BY <1>4, PtClearKeeps
<1>5. ASSUME NEW p \in Procs, PtResume(p)  PROVE PtInv'
  BY <1>5, PtResumeKeeps
<1>6. ASSUME NEW p \in Procs, PtReturn(p)  PROVE PtInv'
  BY <1>6, PtLeaves DEF PtReturn, PtRuns
<1>7. ASSUME NEW p \in Procs, PtDispose(p)  PROVE PtInv'
  BY <1>7, PtDisposeKeeps
<1>8. ASSUME NEW p \in Procs, PtClearSenders(p)  PROVE PtInv'
  BY <1>8, PtClearSendersKeeps
<1>9. ASSUME NEW p \in Procs, PtClearReceivers(p)  PROVE PtInv'
  BY <1>9, PtClearReceiversKeeps
<1>10. ASSUME NEW p \in Procs, PtClearEnd(p)  PROVE PtInv'
  BY <1>10, PtClearEndKeeps
<1> QED  BY <1>1, <1>2, <1>3, <1>4, <1>5, <1>6, <1>7, <1>8, <1>9, <1>10 DEF PtNext

\* Whoever was let through is whoever is not blocked.
LEMMA PtGrantedIs ==
  ASSUME PtInv, NEW d \in Portids
  PROVE  /\ PtGranted(d, "send") = PtPassed(d, "send", porttab[d].ssem)
         /\ PtGranted(d, "recv") = PtPassed(d, "recv", porttab[d].rsem)
<1>1. \A p \in Procs : /\ ptcall[p].at = "send" /\ ptcall[p].port = d =>
                            (p \in PtBlocked <=> p \in Waiters(porttab[d].ssem))
                       /\ ptcall[p].at = "recv" /\ ptcall[p].port = d =>
                            (p \in PtBlocked <=> p \in Waiters(porttab[d].rsem))
  BY PtWaitsAt
<1> QED  BY <1>1 DEF PtGranted, PtPassed

\* What the invariant says about the properties.
LEMMA PtInvImplies ==
  ASSUME PtInv
  PROVE  PortsKept
<1>1. PtSameLife
  BY DEF PtInv, PtCallOK, PtSameLife
<1>2. PtPromisesKept
  BY PtGrantedIs DEF PtInv, PtPortOK, PtCounted, PtPromisesKept
<1> QED  BY <1>1, <1>2 DEF PtInv, PortsKept

\* Ports, for every number of ports, nodes and processes and however often ports are
\* reset, deleted and made again: a receiver gets a message of the life it called in, a
\* process that a semaphore lets through finds its message or its place, nodes are neither
\* lost nor made, and ptsend panics only if the ports promise more places than there are
\* nodes.
THEOREM PortsKeepPromises == PtSpec => []PortsKept
<1>1. PtInit => PtInv
  BY PtInitially
<1>2. PtInv /\ [PtNext]_ptvars => PtInv'
  BY PtStepKeeps
<1>3. PtInv => PortsKept
  BY PtInvImplies
<1> QED  BY <1>1, <1>2, <1>3, PTL DEF PtSpec

-----------------------------------------------------------------------------
(* The process ring (process_ring.c, xsh_process_ring.c) *)

(* Element k waits for the semaphore of its place, or has the turn. *)
RgWaits(k) == RgElement(k) \in Waiters(rgsem[rgproc[k].index])
RgHolds(k) == rgproc[k].at = "pass" \/ (rgproc[k].at = "take" /\ ~RgWaits(k))

RgRec == [at : {"none", "test", "take", "pass", "gone"}, index : RgIndices, rounds : Nat, value : Int]
RgCmd == [created : Nat, waiting : BOOLEAN, deleted : Nat]

RgProcTypes == rgproc \in [RgIndices -> RgRec]
RgSemTypes == rgsem \in [RgIndices -> [n : Int, q : Seq(Procs)]]
RgDoneTypes ==
  /\ rgdone \in [RgIndices -> [n : Int, q : Seq({RgCommand})]]
  /\ \A k \in RgIndices : Len(rgdone[k].q) = IF rgdone[k].n < 0 THEN -rgdone[k].n ELSE 0
RgArrayTypes == globalarray \in [RgIndices -> Int] /\ rglast \in Int
RgNotYet == \A j \in RgIndices : j >= rgcmd.created => rgproc[j].at = "none"
RgTypes == RgProcTypes /\ RgSemTypes /\ RgDoneTypes /\ RgArrayTypes /\ RgNotYet

RgQueue(k) ==
  /\ SemaSound(rgsem[k]) /\ rgsem[k].n <= 1
  /\ \A p \in Waiters(rgsem[k]) : \E j \in RgIndices :
       p = RgElement(j) /\ rgproc[j].at = "take" /\ rgproc[j].index = k

(* There is one turn: an element has it or a semaphore keeps it, and what  *)
(* comes with it is one less than the last number.                         *)
RgTurns ==
  /\ \A j, k \in RgIndices : RgHolds(j) /\ RgHolds(k) => j = k
  /\ \A j, k \in RgIndices : rgsem[j].n = 1 /\ rgsem[k].n = 1 => j = k
  /\ \A j, k \in RgIndices : ~ (RgHolds(j) /\ rgsem[k].n = 1)
  /\ \E k \in RgIndices : RgHolds(k) \/ rgsem[k].n = 1
RgCarried ==
  /\ \A k \in RgIndices : rgsem[k].n = 1 => globalarray[k] = rglast - 1
  /\ \A k \in RgIndices : RgHolds(k) => IF rgproc[k].at = "pass" THEN rgproc[k].value = rglast - 1
                                        ELSE globalarray[rgproc[k].index] = rglast - 1

RgSound == RgTypes /\ RgTurns /\ RgCarried /\ rgorder /\ \A k \in RgIndices : RgQueue(k)

(* One of two sets has one element, and the other none. *)
RgOrder(S, T) == \/ S = {} /\ \E x : T = {x}
                 \/ T = {} /\ \E x : S = {x}

(* The ring is in order until the command deletes the first semaphore. *)
RgInv == /\ rgcmd \in RgCmd
         /\ rgcmd.deleted = 0 => RgSound

\* There are places, the elements are different callers, and none is the command
\* (xsh_process_ring.c).
LEMMA RgElementsAre ==
  /\ RgSize \in Nat \ {0} /\ 0 \in RgIndices /\ RgIndices \subseteq Nat
  /\ \A k \in RgIndices : RgElement(k) \in Procs
  /\ \A j, k \in RgIndices : RgElement(j) = RgElement(k) => j = k
<1>1. RgSize \in Nat \ {0} /\ DOMAIN RgElements = 1 .. RgSize
  BY RingAssumption DEF RgSize
<1>2. \A k \in RgIndices : k + 1 \in 1 .. RgSize /\ k \in Nat
  BY <1>1 DEF RgIndices
<1>3. \A k \in RgIndices : RgElement(k) \in Procs
  BY <1>1, <1>2, RingAssumption DEF RgElement
<1>4. ASSUME NEW j \in RgIndices, NEW k \in RgIndices, RgElement(j) = RgElement(k)  PROVE j = k
  <2>1. j + 1 = k + 1
    BY <1>1, <1>2, <1>4, RingAssumption DEF RgElement
  <2> QED  BY <1>2, <2>1
<1> QED  BY <1>1, <1>2, <1>3, <1>4 DEF RgIndices

\* What an element's record is after some of its fields have been set (process_ring.c).
LEMMA RgRecIs ==
  ASSUME NEW x \in RgRec
  PROVE  /\ \A a \in {"none", "test", "take", "pass", "gone"} : [x EXCEPT !.at = a] \in RgRec
         /\ \A a \in {"test", "pass"}, v \in Int : [x EXCEPT !.at = a, !.value = v] \in RgRec
         /\ \A i \in RgIndices : [x EXCEPT !.at = "test", !.index = i] \in RgRec
         /\ \A i \in RgIndices, n \in Nat : [x EXCEPT !.at = "test", !.index = i, !.rounds = n] \in RgRec
BY DEF RgRec

\* What the command's record is after a call of its own (xsh_process_ring.c).
LEMMA RgCmdIs ==
  ASSUME rgcmd \in RgCmd
  PROVE  /\ rgcmd.created \in Nat /\ rgcmd.deleted \in Nat
         /\ rgcmd' = [rgcmd EXCEPT !.created = rgcmd.created + 1] =>
              rgcmd' \in RgCmd /\ rgcmd'.created = rgcmd.created + 1 /\ rgcmd'.deleted = rgcmd.deleted
         /\ rgcmd' = [rgcmd EXCEPT !.waiting = TRUE] =>
              rgcmd' \in RgCmd /\ rgcmd'.created = rgcmd.created /\ rgcmd'.deleted = rgcmd.deleted
         /\ rgcmd' = [rgcmd EXCEPT !.waiting = FALSE, !.deleted = rgcmd.deleted + 1] =>
              rgcmd' \in RgCmd /\ rgcmd'.deleted = rgcmd.deleted + 1
<1>1. rgcmd.created \in Nat /\ rgcmd.deleted \in Nat /\ rgcmd.waiting \in BOOLEAN
  BY DEF RgCmd
<1>3. rgcmd.created + 1 \in Nat /\ rgcmd.deleted + 1 \in Nat
  BY <1>1
<1>4. ASSUME rgcmd' = [rgcmd EXCEPT !.created = rgcmd.created + 1]
      PROVE  rgcmd' \in RgCmd /\ rgcmd'.created = rgcmd.created + 1 /\ rgcmd'.deleted = rgcmd.deleted
  BY <1>1, <1>3, <1>4 DEF RgCmd
<1>5. ASSUME rgcmd' = [rgcmd EXCEPT !.waiting = TRUE]
      PROVE  rgcmd' \in RgCmd /\ rgcmd'.created = rgcmd.created /\ rgcmd'.deleted = rgcmd.deleted
  BY <1>1, <1>5 DEF RgCmd
<1>6. ASSUME rgcmd' = [rgcmd EXCEPT !.waiting = FALSE, !.deleted = rgcmd.deleted + 1]
      PROVE  rgcmd' \in RgCmd /\ rgcmd'.deleted = rgcmd.deleted + 1
  BY <1>1, <1>3, <1>6 DEF RgCmd
<1> QED  BY <1>1, <1>4, <1>5, <1>6

\* One element's record changes (process_ring.c).
LEMMA RgProcIs ==
  ASSUME RgProcTypes, NEW k \in RgIndices, NEW x \in RgRec, rgproc' = [rgproc EXCEPT ![k] = x]
  PROVE  RgProcTypes' /\ rgproc'[k] = x /\ \A j \in RgIndices \ {k} : rgproc'[j] = rgproc[j]
BY DEF RgProcTypes

\* One semaphore changes (process_ring.c).
LEMMA RgSemIs ==
  ASSUME RgSemTypes, NEW i \in RgIndices, NEW s, SemaSound(s), rgsem' = [rgsem EXCEPT ![i] = s]
  PROVE  RgSemTypes' /\ rgsem'[i] = s /\ \A j \in RgIndices \ {i} : rgsem'[j] = rgsem[j]
<1>1. s \in [n : Int, q : Seq(Procs)]
  BY DEF SemaSound
<1> QED  BY <1>1 DEF RgSemTypes

\* One of the semaphores that count finished elements changes (xsh_process_ring.c).
LEMMA RgDoneIs ==
  ASSUME RgDoneTypes, NEW i \in RgIndices, NEW s \in [n : Int, q : Seq({RgCommand})],
         Len(s.q) = (IF s.n < 0 THEN -s.n ELSE 0), rgdone' = [rgdone EXCEPT ![i] = s]
  PROVE  RgDoneTypes'
<1>1. /\ rgdone' \in [RgIndices -> [n : Int, q : Seq({RgCommand})]]
      /\ \A m \in RgIndices : rgdone'[m] = IF m = i THEN s ELSE rgdone[m]
  BY DEF RgDoneTypes
<1> QED  BY <1>1 DEF RgDoneTypes

\* A step of an element that was created leaves those alone that were not
\* (process_ring.c).
LEMMA RgNotYetKept ==
  ASSUME RgNotYet, NEW k \in RgIndices, rgproc[k].at # "none",
         \A j \in RgIndices \ {k} : rgproc'[j] = rgproc[j], rgcmd'.created = rgcmd.created
  PROVE  RgNotYet'
BY DEF RgNotYet

\* Nobody but the command waits for the end of an element, so an element is blocked
\* exactly if it waits at its place (xsh_process_ring.c).
LEMMA RgBlockedIs ==
  ASSUME RgSound, NEW k \in RgIndices, rgproc[k].at = "take"
  PROVE  RgBlocked(RgElement(k)) <=> RgWaits(k)
<1>1. rgproc[k].index \in RgIndices
  BY DEF RgSound, RgTypes, RgProcTypes, RgRec
<1>2. ASSUME NEW j \in RgIndices  PROVE RgElement(k) \notin Waiters(rgdone[j])
  <2>1. Waiters(rgdone[j]) \subseteq {RgCommand}
    BY DEF RgSound, RgTypes, RgDoneTypes, Waiters
  <2> QED  BY <2>1, RgElementsAre, RingAssumption
<1>3. ASSUME NEW j \in RgIndices, RgElement(k) \in Waiters(rgsem[j])  PROVE j = rgproc[k].index
  BY <1>3, RgElementsAre DEF RgSound, RgQueue
<1> QED  BY <1>1, <1>2, <1>3 DEF RgBlocked, RgWaits

\* sem() up to its loops: the first semaphore has the turn (xsh_process_ring.c).
LEMMA RgInitially == RgInit => RgInv
<1> SUFFICES ASSUME RgInit  PROVE RgInv
  OBVIOUS
<1>1. rgcmd \in RgCmd
  BY DEF RgInit, RgCmd
<1>2. ASSUME NEW n \in {0, 1}
      PROVE  /\ SemaSound(Sema(n)) /\ Waiters(Sema(n)) = {} /\ Sema(n).n = n
             /\ Sema(n) \in [n : Int, q : Seq(Procs)] /\ Sema(n) \in [n : Int, q : Seq({RgCommand})]
             /\ Len(Sema(n).q) = 0
  <2>9. <<>> \in Seq(Procs) /\ <<>> \in Seq({RgCommand}) /\ Len(<<>>) = 0
    OBVIOUS
  <2>1. PICK e : e = <<>> /\ e \in Seq(Procs) /\ e \in Seq({RgCommand}) /\ Len(e) = 0
    BY <2>9
  <2>2. Sema(n) = [n |-> n, q |-> e] /\ n \in Nat /\ n \in Int
    BY <2>1 DEF Sema
  <2> QED  BY <2>1, <2>2, SemaIsSound
<1>3. RgFirst \in Int
  BY RgElementsAre, RingAssumption DEF RgFirst
<1>4. /\ \A k \in RgIndices : rgsem[k] = Sema(IF k = 0 THEN 1 ELSE 0) /\ rgdone[k] = Sema(0)
      /\ \A k \in RgIndices : rgproc[k].at = "none" /\ globalarray[0] = RgFirst
      /\ rglast = RgFirst + 1 /\ rgorder
  BY RgElementsAre DEF RgInit
<1>5. RgTypes
  <2>1. RgProcTypes
    BY RgElementsAre DEF RgProcTypes, RgRec, RgInit
  <2>2. RgSemTypes
    BY <1>2, RgElementsAre DEF RgSemTypes, RgInit
  <2>3. RgDoneTypes
    BY <1>2, <1>4 DEF RgDoneTypes, RgInit
  <2>4. RgArrayTypes
    BY <1>3, <1>4 DEF RgArrayTypes, RgInit
  <2> QED  BY <1>4, <2>1, <2>2, <2>3, <2>4 DEF RgTypes, RgNotYet
<1>6. \A k \in RgIndices : ~RgHolds(k) /\ RgQueue(k) /\ (rgsem[k].n = 1 <=> k = 0)
  BY <1>2, <1>4 DEF RgHolds, RgQueue
<1>7. RgTurns
  BY <1>6, RgElementsAre DEF RgTurns
<1>8. RgCarried
  BY <1>3, <1>4, <1>6 DEF RgCarried
<1> QED  BY <1>1, <1>4, <1>5, <1>6, <1>7, <1>8 DEF RgInv, RgSound

\* An element waits for its turn, or takes it at once (process_ring.c).
LEMMA RgWaitKeeps ==
  ASSUME RgSound, rgcmd.deleted = 0, rgcmd.created \in Nat, NEW k \in RgIndices, rgproc[k].at = "test",
         rgsem' = RgDown(rgsem, rgproc[k].index, RgElement(k)),
         rgproc' = [rgproc EXCEPT ![k].at = "take"],
         UNCHANGED <<rgdone, globalarray, rgcmd, rglast, rgorder>>
  PROVE  RgSound'
<1> DEFINE i == rgproc[k].index
           s == rgsem[i]
           p == RgElement(k)
<1>1. i \in RgIndices /\ RgTypes /\ RgProcTypes /\ rgproc[k] \in RgRec
  BY DEF RgSound, RgTypes, RgProcTypes, RgRec
<1>2. rgsem' = [rgsem EXCEPT ![i] = Down(s, p)]
  BY <1>1, RgElementsAre DEF RgDown, RgDeleted
<1>3. SemaSound(s) /\ s.n <= 1 /\ s.n \in Int /\ p \in Procs
  BY <1>1, RgElementsAre DEF RgSound, RgQueue, SemaSound
<1>4. p \notin Waiters(s)
  BY <1>1, RgElementsAre DEF RgSound, RgQueue
<1>5. /\ SemaSound(Down(s, p)) /\ Down(s, p).n = s.n - 1
      /\ Waiters(Down(s, p)) = IF s.n <= 0 THEN Waiters(s) \cup {p} ELSE Waiters(s)
  BY <1>3, <1>4, DownIs DEF Blocks
<1>6. /\ RgSemTypes' /\ rgsem'[i] = Down(s, p) /\ \A j \in RgIndices \ {i} : rgsem'[j] = rgsem[j]
      /\ RgProcTypes' /\ rgproc'[k] = [rgproc[k] EXCEPT !.at = "take"]
      /\ \A j \in RgIndices \ {k} : rgproc'[j] = rgproc[j]
      /\ rgproc'[k].at = "take" /\ rgproc'[k].index = i /\ rgproc[k].at = "test"
  <2>1. [rgproc[k] EXCEPT !.at = "take"] \in RgRec
    BY <1>1, RgRecIs
  <2>2. /\ RgProcTypes' /\ rgproc'[k] = [rgproc[k] EXCEPT !.at = "take"]
        /\ \A j \in RgIndices \ {k} : rgproc'[j] = rgproc[j]
    BY <1>1, <2>1, RgProcIs
  <2>3. rgproc'[k].at = "take" /\ rgproc'[k].index = i
    BY <1>1, <2>2 DEF RgRec
  <2>4. RgSemTypes' /\ rgsem'[i] = Down(s, p) /\ \A j \in RgIndices \ {i} : rgsem'[j] = rgsem[j]
    <3> HIDE DEF i, s, p
    <3> QED  BY <1>1, <1>2, <1>5, RgSemIs DEF RgTypes
  <2> QED  BY <2>2, <2>3, <2>4
<1> HIDE DEF i, s, p
<1>7. \A j \in RgIndices : rgproc'[j].index = rgproc[j].index /\ rgproc[j].index \in RgIndices
  BY <1>1, <1>6 DEF i, RgProcTypes, RgRec
<1>8. RgTypes'
  <2>1. RgNotYet'
    BY <1>1, <1>6, RgNotYetKept DEF RgTypes
  <2> QED  BY <1>1, <1>6, <2>1 DEF RgTypes, RgDoneTypes, RgArrayTypes
<1>9. \A j \in RgIndices \ {k} : RgHolds(j)' <=> RgHolds(j)
  <2> SUFFICES ASSUME NEW j \in RgIndices \ {k}, rgproc[j].at = "take"
               PROVE  RgWaits(j)' <=> RgWaits(j)
    BY <1>6 DEF RgHolds
  <2>1. RgElement(j) # p
    BY RgElementsAre DEF p
  <2>2. CASE rgproc[j].index = i
    BY <1>5, <1>6, <1>7, <2>1, <2>2 DEF RgWaits, s
  <2>3. CASE rgproc[j].index # i
    BY <1>6, <1>7, <2>3 DEF RgWaits
  <2> QED  BY <2>2, <2>3
<1>10. ~RgHolds(k) /\ (RgHolds(k)' <=> s.n = 1)
  BY <1>3, <1>4, <1>5, <1>6 DEF RgHolds, RgWaits, p
<1>11. \A j \in RgIndices : RgQueue(j)'
  <2> SUFFICES ASSUME NEW j \in RgIndices  PROVE RgQueue(j)'
    OBVIOUS
  <2>1. RgQueue(j)
    BY DEF RgSound
  <2>2. \A m \in RgIndices : rgproc[m].at = "take" =>
          rgproc'[m].at = "take" /\ rgproc'[m].index = rgproc[m].index
    BY <1>6
  <2>3. CASE j = i
    <3>1. \A r \in Waiters(rgsem'[j]) : r \in Waiters(s) \/ r = p
      BY <1>5, <1>6, <2>3
    <3>2. \A r \in Waiters(s) : \E m \in RgIndices :
             r = RgElement(m) /\ rgproc'[m].at = "take" /\ rgproc'[m].index = j
      BY <2>1, <2>2, <2>3 DEF RgQueue, s
    <3>3. p = RgElement(k) /\ rgproc'[k].at = "take" /\ rgproc'[k].index = j
      BY <1>6, <2>3 DEF p
    <3>4. SemaSound(rgsem'[j]) /\ rgsem'[j].n <= 1
      BY <1>3, <1>5, <1>6, <2>3
    <3> QED  BY <3>1, <3>2, <3>3, <3>4 DEF RgQueue
  <2>4. CASE j # i
    <3>1. rgsem'[j] = rgsem[j]
      BY <1>6, <2>4
    <3>2. \A r \in Waiters(rgsem[j]) : \E m \in RgIndices :
             r = RgElement(m) /\ rgproc'[m].at = "take" /\ rgproc'[m].index = j
      BY <2>1, <2>2 DEF RgQueue
    <3> QED  BY <2>1, <3>1, <3>2 DEF RgQueue
  <2> QED  BY <2>3, <2>4
<1>12. \A j \in RgIndices : rgsem'[j].n = 1 <=> j # i /\ rgsem[j].n = 1
  BY <1>3, <1>5, <1>6
<1>13. s.n = 1 => globalarray[i] = rglast - 1
  BY <1>1 DEF RgSound, RgCarried, s, i
<1>14. RgTurns'
  BY <1>1, <1>9, <1>10, <1>12 DEF RgSound, RgTurns, s, i
<1>15. RgCarried'
  <2>1. \A j \in RgIndices : rgsem'[j].n = 1 => globalarray'[j] = rglast' - 1
    BY <1>12 DEF RgSound, RgCarried
  <2>2. \A j \in RgIndices \ {k} : RgHolds(j)' =>
          IF rgproc'[j].at = "pass" THEN rgproc'[j].value = rglast' - 1
          ELSE globalarray'[rgproc'[j].index] = rglast' - 1
    BY <1>6, <1>9 DEF RgSound, RgCarried
  <2>3. RgHolds(k)' => rgproc'[k].at # "pass" /\ globalarray'[rgproc'[k].index] = rglast' - 1
    BY <1>6, <1>10, <1>13
  <2> QED  BY <2>1, <2>2, <2>3 DEF RgCarried
<1> QED  BY <1>8, <1>11, <1>14, <1>15 DEF RgSound

\* A step that is not about anybody's turn keeps the turns.
LEMMA RgCalm ==
  ASSUME RgSound, RgTypes', UNCHANGED <<rgsem, globalarray, rglast, rgorder>>,
         \A j \in RgIndices : \/ rgproc'[j] = rgproc[j]
                              \/ rgproc[j].at \notin {"take", "pass"} /\ rgproc'[j].at \notin {"take", "pass"}
  PROVE  RgSound'
<1>1. \A j \in RgIndices : rgproc'[j].at \in {"take", "pass"} => rgproc'[j] = rgproc[j]
  OBVIOUS
<1>2. \A j \in RgIndices : rgproc[j].at \in {"take", "pass"} => rgproc'[j] = rgproc[j]
  OBVIOUS
<1>3. \A j \in RgIndices : RgHolds(j)' <=> RgHolds(j)
  BY <1>1, <1>2 DEF RgHolds, RgWaits
<1>4. ASSUME NEW j \in RgIndices  PROVE RgQueue(j)'
  <2>1. RgQueue(j)
    BY DEF RgSound
  <2> QED  BY <1>2, <2>1 DEF RgQueue
<1>5. RgTurns'
  BY <1>3 DEF RgSound, RgTurns
<1>6. RgCarried'
  BY <1>1, <1>3 DEF RgSound, RgCarried, RgHolds
<1> QED  BY <1>4, <1>5, <1>6 DEF RgSound

\* The test of the loop: the element waits for its turn, or it is done and says so
\* (process_ring.c).
LEMMA RgTestKeeps ==
  ASSUME RgInv, rgcmd.deleted = 0, NEW k \in RgIndices, RgTest(k)
  PROVE  RgInv'
<1>1. RgSound /\ rgproc[k].at = "test" /\ UNCHANGED <<globalarray, rgcmd, rglast, rgorder>>
      /\ rgcmd \in RgCmd
  BY DEF RgInv, RgTest
<1>2. CASE /\ rgsem' = RgDown(rgsem, rgproc[k].index, RgElement(k)) /\ UNCHANGED rgdone
           /\ rgproc' = [rgproc EXCEPT ![k].at = "take"]
  <2>1. RgSound'
    BY <1>1, <1>2, RgWaitKeeps, RgCmdIs
  <2> QED  BY <1>1, <2>1 DEF RgInv
<1>3. CASE /\ rgdone' = RgUp(rgdone, rgproc[k].index) /\ UNCHANGED rgsem
           /\ rgproc' = [rgproc EXCEPT ![k].at = "gone"]
  <2> DEFINE i == rgproc[k].index
  <2>1. i \in RgIndices /\ RgTypes /\ RgProcTypes /\ RgDoneTypes /\ rgproc[k] \in RgRec
    BY <1>1 DEF RgSound, RgTypes, RgProcTypes, RgRec
  <2>2. rgdone' = [rgdone EXCEPT ![i] = Up(rgdone[i])]
    BY <1>1, <1>3, <2>1, RgElementsAre DEF RgUp, RgDeleted
  <2> HIDE DEF i
  <2>3. /\ Up(rgdone[i]) \in [n : Int, q : Seq({RgCommand})]
        /\ Len(Up(rgdone[i]).q) = IF Up(rgdone[i]).n < 0 THEN -(Up(rgdone[i]).n) ELSE 0
    <3>1. PICK n \in Int, q \in Seq({RgCommand}) : rgdone[i] = [n |-> n, q |-> q]
      BY <2>1 DEF RgDoneTypes
    <3>2. Len(q) = IF n < 0 THEN -n ELSE 0
      BY <2>1, <3>1 DEF RgDoneTypes
    <3>3. n < 0 => Tail(q) \in Seq({RgCommand}) /\ Len(Tail(q)) = Len(q) - 1
      BY <3>1, <3>2
    <3> QED  BY <3>1, <3>2, <3>3 DEF Up
  <2>4. RgDoneTypes'
    BY <2>1, <2>2, <2>3, RgDoneIs
  <2>5. [rgproc[k] EXCEPT !.at = "gone"] \in RgRec
    BY <2>1, RgRecIs
  <2>6. /\ RgProcTypes' /\ rgproc'[k] = [rgproc[k] EXCEPT !.at = "gone"]
        /\ \A m \in RgIndices \ {k} : rgproc'[m] = rgproc[m]
    BY <1>3, <2>1, <2>5, RgProcIs
  <2>7. rgproc'[k].at = "gone"
    BY <2>1, <2>6 DEF RgRec
  <2>9. RgTypes'
    <3>1. RgNotYet'
      BY <1>1, <2>1, <2>6, RgNotYetKept DEF RgTypes
    <3> QED  BY <1>1, <1>3, <2>1, <2>4, <2>6, <3>1 DEF RgTypes, RgSemTypes, RgArrayTypes
  <2>8. RgSound'
    BY <1>1, <1>3, <2>6, <2>7, <2>9, RgCalm
  <2> QED  BY <1>1, <2>8 DEF RgInv
<1> QED  BY <1>2, <1>3 DEF RgTest

\* Whoever has the turn prints a number that is one less than the last, and has the next
\* one in its hands (process_ring.c).
LEMMA RgTakeKeeps ==
  ASSUME RgInv, rgcmd.deleted = 0, NEW k \in RgIndices, RgTake(k)
  PROVE  RgInv'
<1> DEFINE v == globalarray[rgproc[k].index]
<1>1. /\ RgSound /\ rgproc[k].at = "take" /\ ~RgBlocked(RgElement(k))
      /\ rgproc' = [rgproc EXCEPT ![k].at = "pass", ![k].value = v - 1]
      /\ rglast' = v /\ rgorder' = (rgorder /\ v = rglast - 1)
      /\ UNCHANGED <<rgsem, rgdone, globalarray, rgcmd>>
      /\ rgcmd \in RgCmd
  BY DEF RgInv, RgTake
<1>2. RgHolds(k) /\ ~RgWaits(k)
  BY <1>1, RgBlockedIs DEF RgHolds
<1>3. v = rglast - 1 /\ v \in Int /\ rgorder'
  BY <1>1, <1>2 DEF RgSound, RgTypes, RgArrayTypes, RgProcTypes, RgRec, RgCarried
<1> HIDE DEF v
<1>4. /\ RgProcTypes' /\ rgproc'[k].at = "pass" /\ rgproc'[k].value = v - 1
      /\ \A m \in RgIndices \ {k} : rgproc'[m] = rgproc[m]
  <2>1. RgProcTypes /\ rgproc[k] \in RgRec
    BY <1>1 DEF RgSound, RgTypes, RgProcTypes
  <2>2. rgproc' = [rgproc EXCEPT ![k] = [rgproc[k] EXCEPT !.at = "pass", !.value = v - 1]]
    BY <1>1
  <2>3. [rgproc[k] EXCEPT !.at = "pass", !.value = v - 1] \in RgRec
    <3>1. v - 1 \in Int
      BY <1>3
    <3> QED  BY <2>1, <3>1, RgRecIs
  <2>4. /\ RgProcTypes' /\ rgproc'[k] = [rgproc[k] EXCEPT !.at = "pass", !.value = v - 1]
        /\ \A m \in RgIndices \ {k} : rgproc'[m] = rgproc[m]
    BY <2>1, <2>2, <2>3, RgProcIs
  <2> QED  BY <2>1, <2>4 DEF RgRec
<1>5. RgTypes'
  <2>1. RgNotYet'
    BY <1>1, <1>4, RgNotYetKept DEF RgSound, RgTypes
  <2> QED  BY <1>1, <1>3, <1>4, <2>1 DEF RgSound, RgTypes, RgSemTypes, RgDoneTypes, RgArrayTypes
<1>6. \A j \in RgIndices : RgHolds(j)' <=> RgHolds(j)
  BY <1>1, <1>2, <1>4 DEF RgHolds, RgWaits
<1>7. ASSUME NEW j \in RgIndices  PROVE RgQueue(j)'
  <2>1. RgQueue(j)
    BY <1>1 DEF RgSound
  <2>2. ASSUME NEW p \in Waiters(rgsem[j])
        PROVE  \E m \in RgIndices : p = RgElement(m) /\ rgproc'[m].at = "take" /\ rgproc'[m].index = j
    <3>1. PICK m \in RgIndices : p = RgElement(m) /\ rgproc[m].at = "take" /\ rgproc[m].index = j
      BY <2>1 DEF RgQueue
    <3>2. m # k
      BY <1>2, <3>1 DEF RgWaits
    <3> QED  BY <1>4, <3>1, <3>2
  <2> QED  BY <1>1, <2>1, <2>2 DEF RgQueue
<1>8. RgTurns'
  BY <1>1, <1>6 DEF RgSound, RgTurns
<1>9. RgCarried'
  BY <1>1, <1>2, <1>3, <1>4, <1>6 DEF RgSound, RgCarried, RgTurns
<1> QED  BY <1>1, <1>3, <1>5, <1>7, <1>8, <1>9 DEF RgInv, RgSound

\* The turn goes to the next place: to the first who waits there, or into its semaphore
\* (process_ring.c).
LEMMA RgPassKeeps ==
  ASSUME RgInv, rgcmd.deleted = 0, NEW k \in RgIndices, RgPass(k)
  PROVE  RgInv'
<1> DEFINE t == RgTurn(k)
           i == RgTurn(k).index
           s == rgsem[i]
<1>1. /\ RgSound /\ rgproc[k].at = "pass" /\ rgproc' = [rgproc EXCEPT ![k] = t]
      /\ globalarray' = [globalarray EXCEPT ![i] = rgproc[k].value]
      /\ rgsem' = RgUp(rgsem, i)
      /\ UNCHANGED <<rgdone, rgcmd, rglast, rgorder>>
      /\ rgcmd \in RgCmd
  BY DEF RgInv, RgPass
<1>2. /\ RgTypes /\ RgProcTypes /\ rgproc[k] \in RgRec
      /\ \A j \in RgIndices : rgproc[j] \in RgRec /\ rgproc[j].index \in RgIndices
  BY <1>1 DEF RgSound, RgTypes, RgProcTypes, RgRec
<1>3. t \in RgRec /\ t.at = "test" /\ i \in RgIndices
  <2>1. rgproc[k].index \in RgIndices /\ rgproc[k].rounds \in Nat
    BY <1>2 DEF RgRec
  <2>2. CASE rgproc[k].index = RgSize - 1
    <3>1. t = [rgproc[k] EXCEPT !.at = "test", !.index = 0, !.rounds = rgproc[k].rounds + 1]
      BY <2>2 DEF RgTurn
    <3>2. rgproc[k].rounds + 1 \in Nat /\ 0 \in RgIndices
      BY <2>1, RgElementsAre
    <3>3. [rgproc[k] EXCEPT !.at = "test", !.index = 0, !.rounds = rgproc[k].rounds + 1] \in RgRec
      BY <1>2, <3>2, RgRecIs
    <3>4. t \in RgRec /\ t.at = "test"
      BY <1>2, <3>1, <3>3 DEF RgRec
    <3> QED  BY <3>4 DEF RgRec
  <2>3. CASE rgproc[k].index # RgSize - 1
    <3>1. t = [rgproc[k] EXCEPT !.at = "test", !.index = rgproc[k].index + 1]
      BY <2>3 DEF RgTurn
    <3>2. rgproc[k].index + 1 \in RgIndices
      BY <2>1, <2>3, RgElementsAre DEF RgIndices
    <3>3. [rgproc[k] EXCEPT !.at = "test", !.index = rgproc[k].index + 1] \in RgRec
      BY <1>2, <3>2, RgRecIs
    <3>4. t \in RgRec /\ t.at = "test"
      BY <1>2, <3>1, <3>3 DEF RgRec
    <3> QED  BY <3>4 DEF RgRec
  <2> QED  BY <2>2, <2>3
<1>4. rgsem' = [rgsem EXCEPT ![i] = Up(s)]
  <2>1. ~RgDeleted(i)
    <3> HIDE DEF t, i
    <3>1. i \in Nat
      BY <1>3, RgElementsAre
    <3> QED  BY <3>1 DEF RgDeleted
  <2> QED  BY <1>1, <2>1 DEF RgUp
<1> HIDE DEF t, i, s
<1>5. RgHolds(k) /\ rgproc[k].value = rglast - 1 /\ rgproc[k].value \in Int
  BY <1>1, <1>2 DEF RgHolds, RgSound, RgCarried, RgRec
<1>6. SemaSound(s) /\ s.n \in Int /\ s.n <= 0
  <2>1. SemaSound(s) /\ s.n <= 1
    BY <1>1, <1>3 DEF RgSound, RgQueue, s
  <2>2. s.n # 1
    BY <1>1, <1>3, <1>5 DEF RgSound, RgTurns, s
  <2>3. s.n \in Int
    BY <2>1 DEF SemaSound
  <2> QED  BY <2>1, <2>2, <2>3
<1>7. /\ SemaSound(Up(s)) /\ Up(s).n = s.n + 1
      /\ s.n >= 0 => Waiters(Up(s)) = {} /\ Waiters(s) = {}
      /\ s.n < 0 => /\ Head(s.q) \in Waiters(s)
                    /\ Waiters(Up(s)) = Waiters(s) \ {Head(s.q)}
  BY <1>6, UpIs
<1>8. /\ RgSemTypes' /\ rgsem'[i] = Up(s) /\ \A j \in RgIndices \ {i} : rgsem'[j] = rgsem[j]
      /\ RgProcTypes' /\ rgproc'[k].at = "test"
      /\ \A j \in RgIndices \ {k} : rgproc'[j] = rgproc[j]
      /\ RgArrayTypes' /\ globalarray'[i] = rglast - 1
  <2>1. RgSemTypes' /\ rgsem'[i] = Up(s) /\ \A j \in RgIndices \ {i} : rgsem'[j] = rgsem[j]
    BY <1>2, <1>3, <1>4, <1>7, RgSemIs DEF RgTypes
  <2>2. RgProcTypes' /\ rgproc'[k] = t /\ \A j \in RgIndices \ {k} : rgproc'[j] = rgproc[j]
    BY <1>1, <1>2, <1>3, RgProcIs
  <2>3. RgArrayTypes' /\ globalarray'[i] = rglast - 1
    BY <1>1, <1>2, <1>3, <1>5 DEF RgTypes, RgArrayTypes
  <2> QED  BY <1>3, <2>1, <2>2, <2>3
<1>9. RgTypes'
  <2>1. RgNotYet'
    BY <1>1, <1>2, <1>8, RgNotYetKept DEF RgTypes
  <2> QED  BY <1>1, <1>2, <1>8, <2>1 DEF RgTypes, RgDoneTypes
<1>10. ASSUME NEW j \in RgIndices  PROVE RgQueue(j)'
  <2>1. RgQueue(j)
    BY <1>1 DEF RgSound
  <2>2. Waiters(rgsem'[j]) \subseteq Waiters(rgsem[j])
    BY <1>6, <1>7, <1>8 DEF s
  <2>3. SemaSound(rgsem'[j]) /\ rgsem'[j].n <= 1
    BY <1>6, <1>7, <1>8, <2>1 DEF RgQueue
  <2>4. \A m \in RgIndices : rgproc[m].at = "take" => rgproc'[m] = rgproc[m]
    BY <1>1, <1>8
  <2> QED  BY <2>1, <2>2, <2>3, <2>4 DEF RgQueue
<1>11. ASSUME NEW j \in RgIndices, RgHolds(j)'
       PROVE  /\ rgproc[j].at = "take" /\ rgproc[j].index = i /\ s.n < 0
              /\ RgElement(j) = Head(s.q) /\ rgproc'[j] = rgproc[j]
  <2>1. j # k /\ rgproc'[j] = rgproc[j]
    BY <1>8, <1>11 DEF RgHolds
  <2>2. ~RgHolds(j)
    BY <1>1, <1>5, <2>1 DEF RgSound, RgTurns
  <2>3. rgproc[j].at = "take" /\ RgWaits(j) /\ ~RgWaits(j)'
    BY <1>11, <2>1, <2>2 DEF RgHolds
  <2>4. rgproc[j].index \in RgIndices
    BY <1>2
  <2>5. rgproc[j].index = i
    BY <1>8, <2>1, <2>3, <2>4 DEF RgWaits
  <2> QED  BY <1>6, <1>7, <1>8, <2>1, <2>3, <2>5 DEF RgWaits, s
<1>12. \A j \in RgIndices : rgsem'[j].n = 1 <=> j = i /\ s.n = 0
  <2>1. \A j \in RgIndices : rgsem[j].n # 1
    BY <1>1, <1>5 DEF RgSound, RgTurns
  <2> QED  BY <1>3, <1>6, <1>7, <1>8, <2>1
<1>13. CASE s.n < 0
  <2>1. PICK h \in RgIndices : Head(s.q) = RgElement(h) /\ rgproc[h].at = "take" /\ rgproc[h].index = i
    BY <1>1, <1>3, <1>7, <1>13 DEF RgSound, RgQueue, s
  <2>2. h # k /\ rgproc'[h] = rgproc[h]
    BY <1>1, <1>8, <2>1
  <2>3. RgHolds(h)'
    BY <1>7, <1>8, <1>13, <2>1, <2>2 DEF RgHolds, RgWaits
  <2>4. \A j \in RgIndices : RgHolds(j)' => j = h
    BY <1>11, <2>1, RgElementsAre
  <2>5. \A j \in RgIndices : rgsem'[j].n # 1
    BY <1>12, <1>13
  <2>6. RgTurns'
    BY <2>3, <2>4, <2>5 DEF RgTurns
  <2>7. RgCarried'
    BY <1>1, <1>8, <2>1, <2>2, <2>4, <2>5 DEF RgCarried
  <2> QED  BY <1>1, <1>9, <1>10, <2>6, <2>7 DEF RgInv, RgSound
<1>14. CASE s.n = 0
  <2>1. \A j \in RgIndices : ~RgHolds(j)'
    BY <1>11, <1>14
  <2>2. RgTurns'
    BY <1>3, <1>12, <1>14, <2>1 DEF RgTurns
  <2>3. RgCarried'
    BY <1>1, <1>8, <1>12, <2>1 DEF RgCarried
  <2> QED  BY <1>1, <1>9, <1>10, <2>2, <2>3 DEF RgInv, RgSound
<1> QED  BY <1>6, <1>13, <1>14

\* A new element starts with the test, and was nowhere before (xsh_process_ring.c).
LEMMA RgCreateKeeps ==
  ASSUME RgInv, rgcmd.deleted = 0, RgCreate
  PROVE  RgInv'
<1> DEFINE c == rgcmd.created
<1>1. PICK v \in {-1, RgFirst} : rgproc' = [rgproc EXCEPT ![c].at = "test", ![c].value = v]
  BY DEF RgCreate
<1>2. /\ RgSound /\ c < RgSize /\ rgcmd' = [rgcmd EXCEPT !.created = c + 1]
      /\ UNCHANGED <<rgsem, rgdone, globalarray, rglast, rgorder>>
      /\ rgcmd \in RgCmd
  BY DEF RgInv, RgCreate
<1>3. /\ rgcmd' \in RgCmd
      /\ rgcmd'.created = c + 1 /\ rgcmd'.deleted = rgcmd.deleted /\ c \in RgIndices /\ c \in Nat
  BY <1>2, RgCmdIs, RgElementsAre DEF RgIndices
<1>4. v \in Int
  BY RgElementsAre, RingAssumption DEF RgFirst
<1> HIDE DEF c
<1>5. /\ RgTypes /\ RgProcTypes /\ rgproc[c] \in RgRec /\ rgproc[c].at = "none"
      /\ \A j \in RgIndices : j >= c => rgproc[j].at = "none"
  BY <1>2, <1>3 DEF RgSound, RgTypes, RgNotYet, RgProcTypes, c
<1>6. /\ RgProcTypes' /\ rgproc'[c].at = "test"
      /\ \A j \in RgIndices \ {c} : rgproc'[j] = rgproc[j]
  <2>1. rgproc' = [rgproc EXCEPT ![c] = [rgproc[c] EXCEPT !.at = "test", !.value = v]]
    BY <1>1
  <2>2. [rgproc[c] EXCEPT !.at = "test", !.value = v] \in RgRec
    BY <1>4, <1>5, RgRecIs, RgElementsAre
  <2>3. /\ RgProcTypes' /\ rgproc'[c] = [rgproc[c] EXCEPT !.at = "test", !.value = v]
        /\ \A j \in RgIndices \ {c} : rgproc'[j] = rgproc[j]
    BY <1>3, <1>5, <2>1, <2>2, RgProcIs
  <2> QED  BY <1>5, <2>3 DEF RgRec
<1>7. RgTypes'
  <2>1. \A j \in RgIndices : j >= c + 1 => rgproc'[j].at = "none"
    BY <1>3, <1>5, <1>6, RgElementsAre
  <2>2. RgNotYet'
    BY <1>3, <2>1 DEF RgNotYet
  <2> QED  BY <1>2, <1>5, <1>6, <2>2 DEF RgTypes, RgSemTypes, RgDoneTypes, RgArrayTypes
<1>8. RgSound'
  BY <1>2, <1>5, <1>6, <1>7, RgCalm
<1> QED  BY <1>3, <1>8 DEF RgInv

\* The command waits for the end of an element (xsh_process_ring.c).
LEMMA RgWaitsKeeps ==
  ASSUME RgInv, rgcmd.deleted = 0, RgWait
  PROVE  RgInv'
<1>1. /\ RgSound /\ rgcmd' = [rgcmd EXCEPT !.waiting = TRUE]
      /\ rgdone' = [rgdone EXCEPT ![0] = Down(rgdone[0], RgCommand)]
      /\ UNCHANGED <<rgsem, globalarray, rgproc, rglast, rgorder>>
      /\ rgcmd \in RgCmd
  BY DEF RgInv, RgWait
<1>2. rgcmd' \in RgCmd /\ rgcmd'.created = rgcmd.created /\ rgcmd'.deleted = rgcmd.deleted
  BY <1>1, RgCmdIs
<1>3. RgTypes /\ RgDoneTypes /\ 0 \in RgIndices
  BY <1>1, RgElementsAre DEF RgSound, RgTypes
<1>4. /\ Down(rgdone[0], RgCommand) \in [n : Int, q : Seq({RgCommand})]
      /\ Len(Down(rgdone[0], RgCommand).q) =
           IF Down(rgdone[0], RgCommand).n < 0 THEN -(Down(rgdone[0], RgCommand).n) ELSE 0
  <2>1. PICK n \in Int, q \in Seq({RgCommand}) : rgdone[0] = [n |-> n, q |-> q]
    BY <1>3 DEF RgDoneTypes
  <2>2. Len(q) = IF n < 0 THEN -n ELSE 0
    BY <1>3, <2>1 DEF RgDoneTypes
  <2>3. Append(q, RgCommand) \in Seq({RgCommand}) /\ Len(Append(q, RgCommand)) = Len(q) + 1
    OBVIOUS
  <2> QED  BY <2>1, <2>2, <2>3 DEF Down, Blocks
<1>5. RgDoneTypes'
  BY <1>1, <1>3, <1>4, RgDoneIs
<1>7. RgTypes'
  BY <1>1, <1>2, <1>3, <1>5 DEF RgTypes, RgProcTypes, RgSemTypes, RgArrayTypes, RgNotYet
<1>8. RgSound'
  BY <1>1, <1>7, RgCalm
<1> QED  BY <1>2, <1>8 DEF RgInv

\* The process ring counts down without leaving a number out, for any number of elements
\* and rounds, whatever the elements' values are when they start: there is one turn and
\* it carries the next number (process_ring.c, xsh_process_ring.c).
THEOREM RingCountsDown == RgSpec => []RgCountsDown
<1>1. RgInit => RgInv
  BY RgInitially
<1>2. RgInv /\ [RgNext]_rgvars => RgInv'
  <2> SUFFICES ASSUME RgInv, [RgNext]_rgvars  PROVE RgInv'
    OBVIOUS
  <2>1. rgcmd \in RgCmd
    BY DEF RgInv
  <2>2. CASE UNCHANGED rgvars
    <3>1. rgcmd' = rgcmd /\ UNCHANGED <<rgsem, rgdone, globalarray, rgproc, rglast, rgorder>>
      BY <2>2 DEF rgvars
    <3>2. ASSUME RgSound  PROVE RgSound'
      <4>1. RgTypes'
        BY <3>1, <3>2 DEF RgSound, RgTypes, RgProcTypes, RgSemTypes, RgDoneTypes, RgArrayTypes, RgNotYet
      <4> QED  BY <3>1, <3>2, <4>1, RgCalm
    <3> QED  BY <3>1, <3>2 DEF RgInv
  <2>3. CASE RgDelete
    <3>1. rgcmd' = [rgcmd EXCEPT !.waiting = FALSE, !.deleted = rgcmd.deleted + 1]
      BY <2>3 DEF RgDelete
    <3>4. rgcmd' \in RgCmd /\ rgcmd'.deleted # 0
      BY <2>1, <3>1, RgCmdIs
    <3> QED  BY <3>4 DEF RgInv
  <2>4. CASE RgNext /\ ~RgDelete /\ rgcmd.deleted # 0
    <3>1. \/ rgcmd' = rgcmd
          \/ rgcmd' = [rgcmd EXCEPT !.created = rgcmd.created + 1] \/ rgcmd' = [rgcmd EXCEPT !.waiting = TRUE]
      <4>1. (\E k \in RgIndices : RgTest(k) \/ RgTake(k) \/ RgPass(k)) \/ RgCreate \/ RgWait
        BY <2>4 DEF RgNext
      <4>2. ASSUME NEW k \in RgIndices, RgTest(k) \/ RgTake(k) \/ RgPass(k)  PROVE rgcmd' = rgcmd
        BY <4>2 DEF RgTest, RgTake, RgPass
      <4>3. ASSUME RgCreate  PROVE rgcmd' = [rgcmd EXCEPT !.created = rgcmd.created + 1]
        BY <4>3 DEF RgCreate
      <4>4. ASSUME RgWait  PROVE rgcmd' = [rgcmd EXCEPT !.waiting = TRUE]
        BY <4>4 DEF RgWait
      <4> QED  BY <4>1, <4>2, <4>3, <4>4
    <3>2. rgcmd' \in RgCmd /\ rgcmd'.deleted = rgcmd.deleted
      BY <2>1, <3>1, RgCmdIs
    <3> QED  BY <2>4, <3>2 DEF RgInv
  <2>5. CASE RgNext /\ ~RgDelete /\ rgcmd.deleted = 0
    BY <2>5, RgTestKeeps, RgTakeKeeps, RgPassKeeps, RgCreateKeeps, RgWaitsKeeps DEF RgNext
  <2> QED  BY <2>2, <2>3, <2>4, <2>5
<1>3. RgInv => RgCountsDown
  <2> SUFFICES ASSUME RgSound, rgcmd.deleted = 0  PROVE RgCountsDown
    BY DEF RgInv, RgCountsDown
  <2> DEFINE holders == {k \in RgIndices : rgproc[k].at = "pass" \/ (rgproc[k].at = "take"
                                                                     /\ ~RgBlocked(RgElement(k)))}
             free == {k \in RgIndices : Available(rgsem[k]) = 1}
  <2>1. \A k \in RgIndices : k \in holders <=> RgHolds(k)
    BY RgBlockedIs DEF RgHolds
  <2>2. \A k \in RgIndices : /\ k \in free <=> rgsem[k].n = 1
                             /\ Available(rgsem[k]) <= 1
    <3> SUFFICES ASSUME NEW k \in RgIndices
                 PROVE  (Available(rgsem[k]) = 1 <=> rgsem[k].n = 1) /\ Available(rgsem[k]) <= 1
      OBVIOUS
    <3>1. rgsem[k].n \in Int /\ rgsem[k].n <= 1
      BY DEF RgSound, RgTypes, RgSemTypes, RgQueue
    <3> QED  BY <3>1 DEF Available
  <2>3. holders \subseteq RgIndices /\ free \subseteq RgIndices
    OBVIOUS
  <2>4. RgOrder(holders, free)
    <3>1. /\ \A j, k \in RgIndices : RgHolds(j) /\ RgHolds(k) => j = k
          /\ \A j, k \in RgIndices : rgsem[j].n = 1 /\ rgsem[k].n = 1 => j = k
          /\ \A j, k \in RgIndices : ~ (RgHolds(j) /\ rgsem[k].n = 1)
      BY DEF RgSound, RgTurns
    <3>2. PICK k \in RgIndices : RgHolds(k) \/ rgsem[k].n = 1
      BY DEF RgSound, RgTurns
    <3> HIDE DEF holders, free
    <3>3. CASE RgHolds(k)
      <4>1. \A j \in RgIndices : (j \in holders <=> j = k) /\ j \notin free
        BY <2>1, <2>2, <3>1, <3>3
      <4>2. holders = {k} /\ free = {}
        BY <2>3, <4>1
      <4> QED  BY <4>2 DEF RgOrder
    <3>4. CASE rgsem[k].n = 1
      <4>1. \A j \in RgIndices : (j \in free <=> j = k) /\ j \notin holders
        BY <2>1, <2>2, <3>1, <3>4
      <4>2. free = {k} /\ holders = {}
        BY <2>3, <4>1
      <4> QED  BY <4>2 DEF RgOrder
    <3> QED  BY <3>2, <3>3, <3>4
  <2>5. Cardinality(holders) + Cardinality(free) = 1
    <3> HIDE DEF holders, free
    <3>1. Cardinality({}) = 0
      BY FS_EmptySet
    <3>2. \A x : Cardinality({x}) = 1
      BY FS_Singleton
    <3>3. CASE holders = {} /\ \E x : free = {x}
      <4>1. Cardinality(holders) = 0 /\ Cardinality(free) = 1
        BY <3>1, <3>2, <3>3, Zenon
      <4> QED  BY <4>1
    <3>4. CASE free = {} /\ \E x : holders = {x}
      <4>1. Cardinality(holders) = 1 /\ Cardinality(free) = 0
        BY <3>1, <3>2, <3>4, Zenon
      <4> QED  BY <4>1
    <3> QED  BY <2>4, <3>3, <3>4 DEF RgOrder
  <2> QED  BY <2>2, <2>5 DEF RgSound, RgCountsDown
<1> QED  BY <1>1, <1>2, <1>3, PTL DEF RgSpec

-----------------------------------------------------------------------------
(* The remote disk *)

RdOn(list) == {list[i] : i \in DOMAIN list}
RdAllocs == {p \in Procs : rdproc[p].at = "alloc"}
RdIsReading == IF RdReading THEN 1 ELSE 0

RdTypes ==
  /\ rdfree \in Seq(RdBuffers) /\ rdqueue \in Seq(RdBuffers) /\ rdcache \in Seq(RdBuffers)
  /\ rdreq \in Nat /\ rdsyncs \in Nat
  /\ DOMAIN rdbuf = RdBuffers
  /\ \A b \in RdBuffers : DOMAIN rdbuf[b] = {"op", "blk", "ref", "valid", "pid", "data"}
  /\ DOMAIN rdproc = Procs
  /\ \A p \in Procs : DOMAIN rdproc[p] = {"at", "op", "blk", "floor"}
  /\ rdmail \in [Procs -> RdBuffers \cup {0}]
  /\ DOMAIN rdxch = RdActors
  /\ \A a \in RdActors : DOMAIN rdxch[a] = {"at", "op", "seq", "tries"}

(* The three lists have the length of the table together, and hold all of  *)
(* it, so that no buffer is on two of them                                 *)
RdListed ==
  /\ Len(rdfree) + Len(rdqueue) + Len(rdcache) = RD_BUFFS
  /\ RdBuffers \subseteq RdOn(rdfree) \cup RdOn(rdqueue) \cup RdOn(rdcache)

(* The semaphore is short of the buffers that can be had by the processes  *)
(* that have asked for one, whether they have been released or not         *)
RdCounted ==
  /\ SemaSound(rdavail) /\ Waiters(rdavail) \subseteq RdAllocs
  /\ rdavail.n + Cardinality(RdAllocs) = Len(rdfree) + Len(rdcache)

(* A request that is being served stays at the head of the queue *)
RdSignalled ==
  /\ Len(rdqueue) <= rdreq + rdsyncs + RdIsReading
  /\ RdReading => rdqueue # <<>>

(* Who waits for a message, and who is in an exchange of its own *)
RdServed ==
  \A p \in Procs :
    /\ rdproc[p].at = "alloc" => rdproc[p].op \in {"read", "write", "sync"}
    /\ rdproc[p].at = "receive" =>
         /\ rdproc[p].op \in {"read", "sync"}
         /\ \/ rdmail[p] # 0
            \/ \E b \in RdOn(rdqueue) : rdbuf[b].pid = p /\ rdbuf[b].op = rdproc[p].op
    /\ rdxch[p].at # "none" => rdproc[p].at = "comm"

RdSound == RdTypes /\ RdListed /\ RdCounted /\ RdSignalled /\ RdServed
RdInv == ~rdbroken => RdSound

\* A list of buffers and what is on it (rdsbufalloc.c).
LEMMA RdListIs ==
  ASSUME NEW l \in Seq(RdBuffers)
  PROVE  /\ DOMAIN l = 1 .. Len(l) /\ Len(l) \in Nat /\ RdOn(l) \subseteq RdBuffers
         /\ \A i \in 1 .. Len(l) : l[i] \in RdOn(l)
<1>1. DOMAIN l = 1 .. Len(l) /\ Len(l) \in Nat /\ \A i \in 1 .. Len(l) : l[i] \in RdBuffers
  BY LenProperties, ElementOfSeq
<1> QED  BY <1>1 DEF RdOn

\* The first buffer is taken from a list (rdsbufalloc.c, rdsprocess.c).
LEMMA RdTailIs ==
  ASSUME NEW l \in Seq(RdBuffers), l # <<>>
  PROVE  /\ Tail(l) \in Seq(RdBuffers) /\ Len(Tail(l)) = Len(l) - 1 /\ Len(l) >= 1
         /\ Head(l) \in RdOn(l) /\ RdOn(l) = RdOn(Tail(l)) \cup {Head(l)}
<1>1. /\ Tail(l) \in Seq(RdBuffers) /\ Len(Tail(l)) = Len(l) - 1
      /\ \A i \in 1 .. Len(Tail(l)) : Tail(l)[i] = l[i + 1]
  BY HeadTailProperties
<1>2. Len(l) \in Nat /\ Len(l) >= 1 /\ DOMAIN l = 1 .. Len(l) /\ Head(l) = l[1]
  BY EmptySeq, LenProperties
<1>3. DOMAIN Tail(l) = 1 .. Len(l) - 1
  BY <1>1, LenProperties
<1>4. Head(l) \in RdOn(l)
  BY <1>2 DEF RdOn
<1>5. ASSUME NEW x \in RdOn(l), x # Head(l)  PROVE x \in RdOn(Tail(l))
  <2>1. PICK i \in 1 .. Len(l) : l[i] = x
    BY <1>2, <1>5 DEF RdOn
  <2>2. i # 1
    BY <1>2, <1>5, <2>1
  <2>3. i - 1 \in 1 .. Len(l) - 1 /\ (i - 1) + 1 = i
    BY <1>2, <2>2
  <2>4. Tail(l)[i - 1] = x
    BY <1>1, <2>1, <2>3
  <2> QED  BY <1>3, <2>3, <2>4 DEF RdOn
<1>6. ASSUME NEW x \in RdOn(Tail(l))  PROVE x \in RdOn(l)
  <2>1. PICK i \in 1 .. Len(l) - 1 : Tail(l)[i] = x
    BY <1>3, <1>6 DEF RdOn
  <2>2. i + 1 \in 1 .. Len(l) /\ l[i + 1] = x
    BY <1>1, <1>2, <2>1
  <2> QED  BY <1>2, <2>2 DEF RdOn
<1> QED  BY <1>1, <1>2, <1>4, <1>5, <1>6

\* Two lists after one another.
LEMMA RdJoinIs ==
  ASSUME NEW l \in Seq(RdBuffers), NEW m \in Seq(RdBuffers)
  PROVE  /\ l \o m \in Seq(RdBuffers) /\ Len(l \o m) = Len(l) + Len(m)
         /\ RdOn(l \o m) = RdOn(l) \cup RdOn(m)
<1> DEFINE r == l \o m
<1>1. /\ r \in Seq(RdBuffers) /\ Len(r) = Len(l) + Len(m)
      /\ \A i \in 1 .. Len(l) + Len(m) : r[i] = IF i <= Len(l) THEN l[i] ELSE m[i - Len(l)]
  BY ConcatProperties
<1> HIDE DEF r
<1>2. /\ DOMAIN l = 1 .. Len(l) /\ DOMAIN m = 1 .. Len(m)
      /\ DOMAIN r = 1 .. Len(l) + Len(m) /\ Len(l) \in Nat /\ Len(m) \in Nat
  BY <1>1, LenProperties
<1>3. ASSUME NEW x \in RdOn(r)  PROVE x \in RdOn(l) \cup RdOn(m)
  <2>1. PICK i \in 1 .. Len(l) + Len(m) : r[i] = x
    BY <1>2, <1>3 DEF RdOn
  <2>2. CASE i <= Len(l)
    <3>1. i \in 1 .. Len(l) /\ l[i] = x
      BY <1>1, <1>2, <2>1, <2>2
    <3> QED  BY <1>2, <3>1 DEF RdOn
  <2>3. CASE ~ (i <= Len(l))
    <3>1. i - Len(l) \in 1 .. Len(m) /\ m[i - Len(l)] = x
      BY <1>1, <1>2, <2>1, <2>3
    <3> QED  BY <1>2, <3>1 DEF RdOn
  <2> QED  BY <2>2, <2>3
<1>4. ASSUME NEW x \in RdOn(l)  PROVE x \in RdOn(r)
  <2>1. PICK i \in 1 .. Len(l) : l[i] = x
    BY <1>2, <1>4 DEF RdOn
  <2>2. i \in 1 .. Len(l) + Len(m) /\ r[i] = x
    BY <1>1, <1>2, <2>1
  <2> QED  BY <1>2, <2>2 DEF RdOn
<1>5. ASSUME NEW x \in RdOn(m)  PROVE x \in RdOn(r)
  <2>1. PICK i \in 1 .. Len(m) : m[i] = x
    BY <1>2, <1>5 DEF RdOn
  <2>2. /\ i + Len(l) \in 1 .. Len(l) + Len(m) /\ ~ (i + Len(l) <= Len(l))
        /\ (i + Len(l)) - Len(l) = i
    BY <1>2
  <2>3. r[i + Len(l)] = x
    BY <1>1, <2>1, <2>2
  <2> QED  BY <1>2, <2>2, <2>3 DEF RdOn
<1> QED  BY <1>1, <1>3, <1>4, <1>5 DEF r

\* A buffer goes to the head of a list (rdsprocess.c, rdsread.c).
LEMMA RdFrontIs ==
  ASSUME NEW l \in Seq(RdBuffers), NEW b \in RdBuffers
  PROVE  /\ <<b>> \o l \in Seq(RdBuffers) /\ Len(<<b>> \o l) = Len(l) + 1
         /\ RdOn(<<b>> \o l) = RdOn(l) \cup {b}
<1> DEFINE m == <<b>>
<1>1. m \in Seq(RdBuffers) /\ Len(m) = 1 /\ RdOn(m) = {b}
  BY DEF RdOn
<1>2. Len(l) \in Nat
  BY LenProperties
<1> HIDE DEF m
<1>3. /\ m \o l \in Seq(RdBuffers) /\ Len(m \o l) = Len(m) + Len(l)
      /\ RdOn(m \o l) = RdOn(m) \cup RdOn(l)
  BY <1>1, RdJoinIs, Zenon
<1>4. Len(m) + Len(l) = Len(l) + 1
  BY <1>1, <1>2
<1> QED  BY <1>1, <1>3, <1>4 DEF m

\* A request goes to the end of the queue (rdsbufalloc.c and its callers).
LEMMA RdEndIs ==
  ASSUME NEW l \in Seq(RdBuffers), NEW b \in RdBuffers
  PROVE  /\ Append(l, b) \in Seq(RdBuffers) /\ Len(Append(l, b)) = Len(l) + 1
         /\ RdOn(Append(l, b)) = RdOn(l) \cup {b} /\ Append(l, b) # <<>>
<1> DEFINE m == <<b>>
           r == Append(l, b)
<1>1. m \in Seq(RdBuffers) /\ Len(m) = 1 /\ RdOn(m) = {b}
  BY DEF RdOn
<1>2. r = l \o m /\ r # <<>>
  BY AppendIsConcat, AppendProperties
<1> HIDE DEF m, r
<1>3. /\ l \o m \in Seq(RdBuffers) /\ Len(l \o m) = Len(l) + 1
      /\ RdOn(l \o m) = RdOn(l) \cup {b}
  BY <1>1, RdJoinIs
<1> QED  BY <1>2, <1>3 DEF r

\* A buffer is unlinked from the middle of a list (rdsbufalloc.c, rdswrite.c,
\* rdsread.c).
LEMMA RdDropIs ==
  ASSUME NEW l \in Seq(RdBuffers), NEW b \in RdOn(l)
  PROVE  /\ Drop(l, b) \in Seq(RdBuffers) /\ Len(Drop(l, b)) = Len(l) - 1 /\ Len(l) >= 1
         /\ RdOn(l) \subseteq RdOn(Drop(l, b)) \cup {b} /\ RdOn(Drop(l, b)) \subseteq RdOn(l)
<1> DEFINE k == CHOOSE i \in DOMAIN l : l[i] = b
           r == Drop(l, b)
<1>1. DOMAIN l = 1 .. Len(l) /\ Len(l) \in Nat
  BY RdListIs
<1>2. k \in 1 .. Len(l) /\ l[k] = b
  BY <1>1 DEF RdOn
<1>7. r = RemoveAt(l, k)
  BY DEF Drop
<1> HIDE DEF k, r
<1>3. /\ r \in Seq(RdBuffers) /\ Len(r) = Len(l) - 1
      /\ \A j \in 1 .. Len(l) - 1 : r[j] = IF j < k THEN l[j] ELSE l[j + 1]
  BY <1>2, <1>7, RemoveAtFacts DEF RemovedAt
<1>4. DOMAIN r = 1 .. Len(l) - 1 /\ Len(l) >= 1
  BY <1>1, <1>2, <1>3, LenProperties
<1>5. ASSUME NEW x \in RdOn(l), x # b  PROVE x \in RdOn(r)
  <2>1. PICK i \in 1 .. Len(l) : l[i] = x
    BY <1>1, <1>5 DEF RdOn
  <2>2. i # k
    BY <1>2, <1>5, <2>1
  <2>3. CASE i < k
    <3>1. i \in 1 .. Len(l) - 1 /\ r[i] = x
      BY <1>1, <1>2, <1>3, <2>1, <2>3
    <3> QED  BY <1>4, <3>1 DEF RdOn
  <2>4. CASE i > k
    <3>1. i - 1 \in 1 .. Len(l) - 1 /\ (i - 1) + 1 = i /\ ~ (i - 1 < k)
      BY <1>1, <1>2, <2>4
    <3>2. r[i - 1] = x
      BY <1>3, <2>1, <3>1
    <3> QED  BY <1>4, <3>1, <3>2 DEF RdOn
  <2>5. i \in Int /\ k \in Int
    BY <1>1, <1>2
  <2> QED  BY <2>2, <2>3, <2>4, <2>5
<1>6. ASSUME NEW x \in RdOn(r)  PROVE x \in RdOn(l)
  <2>1. PICK j \in 1 .. Len(l) - 1 : r[j] = x
    BY <1>4, <1>6 DEF RdOn
  <2>2. j \in 1 .. Len(l) /\ j + 1 \in 1 .. Len(l) /\ (x = l[j] \/ x = l[j + 1])
    BY <1>1, <1>3, <2>1
  <2> QED  BY <1>1, <2>2 DEF RdOn
<1> QED  BY <1>3, <1>4, <1>5, <1>6 DEF r

\* rdsclose hands the cache to the free list, the last entry first (rdsclose.c).
LEMMA RdBackIs ==
  ASSUME NEW l \in Seq(RdBuffers)
  PROVE  LET r == [i \in 1 .. Len(l) |-> l[Len(l) + 1 - i]]
         IN r \in Seq(RdBuffers) /\ Len(r) = Len(l) /\ RdOn(r) = RdOn(l)
<1> DEFINE n == Len(l)
           r == [i \in 1 .. n |-> l[n + 1 - i]]
<1>1. DOMAIN l = 1 .. n /\ n \in Nat /\ \A i \in 1 .. n : l[i] \in RdBuffers
  BY RdListIs, ElementOfSeq
<1> HIDE DEF n
<1>2. \A i \in 1 .. n : n + 1 - i \in 1 .. n /\ n + 1 - (n + 1 - i) = i
  BY <1>1
<1>3. r \in [1 .. n -> RdBuffers]
  BY <1>1, <1>2
<1>4. r \in Seq(RdBuffers) /\ Len(r) = n
  <2>1. r \in Seq(RdBuffers)
    BY <1>1, <1>3, SeqDef
  <2>2. DOMAIN r = 1 .. n
    BY <1>3
  <2> HIDE DEF r
  <2> QED  BY <1>1, <2>1, <2>2, LenProperties
<1>5. ASSUME NEW x \in RdOn(l)  PROVE x \in RdOn(r)
  <2>1. PICK i \in 1 .. n : l[i] = x
    BY <1>1, <1>5 DEF RdOn
  <2>2. n + 1 - i \in DOMAIN r /\ r[n + 1 - i] = x
    BY <1>2, <2>1
  <2> HIDE DEF r
  <2> QED  BY <2>2 DEF RdOn
<1>6. ASSUME NEW x \in RdOn(r)  PROVE x \in RdOn(l)
  <2>1. PICK i \in 1 .. n : r[i] = x
    BY <1>6 DEF RdOn
  <2>2. n + 1 - i \in 1 .. n /\ l[n + 1 - i] = x
    BY <1>2, <2>1
  <2> QED  BY <1>1, <2>2 DEF RdOn
<1> QED  BY <1>4, <1>5, <1>6 DEF n

\* The lists together: as many entries as there are buffers, so each buffer is an
\* entry once, and none is both in the queue and in one of the other lists.
LEMMA RdApartIs ==
  ASSUME NEW f \in Seq(RdBuffers), NEW q \in Seq(RdBuffers), NEW c \in Seq(RdBuffers),
         Len(f) + Len(q) + Len(c) = RD_BUFFS,
         RdBuffers \subseteq RdOn(f) \cup RdOn(q) \cup RdOn(c)
  PROVE  (RdOn(f) \cup RdOn(c)) \cap RdOn(q) = {}
<1> DEFINE all == (f \o q) \o c
<1>1. /\ DOMAIN f = 1 .. Len(f) /\ DOMAIN q = 1 .. Len(q) /\ DOMAIN c = 1 .. Len(c)
      /\ Len(f) \in Nat /\ Len(q) \in Nat /\ Len(c) \in Nat
  BY RdListIs
<1>2. /\ f \o q \in Seq(RdBuffers) /\ Len(f \o q) = Len(f) + Len(q)
      /\ RdOn(f \o q) = RdOn(f) \cup RdOn(q)
  BY RdJoinIs
<1>3. /\ all \in Seq(RdBuffers) /\ Len(all) = RD_BUFFS
      /\ RdOn(all) = RdOn(f) \cup RdOn(q) \cup RdOn(c)
  BY <1>1, <1>2, RdJoinIs
<1>4. \A i \in 1 .. Len(f) + Len(q) : (f \o q)[i] = IF i <= Len(f) THEN f[i] ELSE q[i - Len(f)]
  BY ConcatProperties
<1>5. \A i \in 1 .. RD_BUFFS : all[i] = IF i <= Len(f) + Len(q) THEN (f \o q)[i]
                                         ELSE c[i - (Len(f) + Len(q))]
  <2>1. Len(f \o q) + Len(c) = RD_BUFFS
    BY <1>2
  <2> QED  BY <1>2, <2>1, ConcatProperties
<1> HIDE DEF all
<1>6. DOMAIN all = 1 .. RD_BUFFS /\ RD_BUFFS \in Nat
  BY <1>3, RdsAssumption, LenProperties
<1>7. all \in Surjection(1 .. RD_BUFFS, RdBuffers)
  <2>1. \A i \in 1 .. RD_BUFFS : all[i] \in RdBuffers
    BY <1>3, ElementOfSeq
  <2>2. all \in [1 .. RD_BUFFS -> RdBuffers]
    BY <1>3, <1>6, <2>1
  <2>3. \A b \in RdBuffers : \E i \in 1 .. RD_BUFFS : all[i] = b
    BY <1>3, <1>6 DEF RdOn
  <2> QED  BY <2>2, <2>3 DEF Surjection
<1>8. all \in Injection(1 .. RD_BUFFS, RdBuffers)
  <2>1. IsFiniteSet(1 .. RD_BUFFS) /\ RdBuffers = 1 .. RD_BUFFS
    BY <1>6, FS_Interval DEF RdBuffers
  <2> QED  BY <1>7, <2>1, FS_Surjection
<1>9. \A i, j \in 1 .. RD_BUFFS : all[i] = all[j] => i = j
  BY <1>8 DEF Injection, IsInjective
<1>10. ASSUME NEW i \in 1 .. Len(f)  PROVE i \in 1 .. RD_BUFFS /\ all[i] = f[i]
  <2>1. /\ i \in 1 .. RD_BUFFS /\ i <= Len(f) + Len(q) /\ i <= Len(f)
        /\ i \in 1 .. Len(f) + Len(q)
    BY <1>1
  <2> QED  BY <1>4, <1>5, <2>1
<1>11. ASSUME NEW i \in 1 .. Len(q)
       PROVE  i + Len(f) \in 1 .. RD_BUFFS /\ all[i + Len(f)] = q[i]
  <2>1. /\ i + Len(f) \in 1 .. RD_BUFFS /\ i + Len(f) <= Len(f) + Len(q)
        /\ ~ (i + Len(f) <= Len(f)) /\ (i + Len(f)) - Len(f) = i
        /\ i + Len(f) \in 1 .. Len(f) + Len(q)
    BY <1>1
  <2> QED  BY <1>4, <1>5, <2>1
<1>12. ASSUME NEW i \in 1 .. Len(c)
       PROVE  /\ i + (Len(f) + Len(q)) \in 1 .. RD_BUFFS
              /\ all[i + (Len(f) + Len(q))] = c[i]
  <2>1. /\ i + (Len(f) + Len(q)) \in 1 .. RD_BUFFS
        /\ ~ (i + (Len(f) + Len(q)) <= Len(f) + Len(q))
        /\ (i + (Len(f) + Len(q))) - (Len(f) + Len(q)) = i
    BY <1>1
  <2> QED  BY <1>5, <2>1
<1>13. ASSUME NEW x \in RdOn(q)  PROVE x \notin RdOn(f) \cup RdOn(c)
  <2>1. PICK i \in 1 .. Len(q) : q[i] = x
    BY <1>1, <1>13 DEF RdOn
  <2>2. ASSUME x \in RdOn(f)  PROVE FALSE
    <3>1. PICK j \in 1 .. Len(f) : f[j] = x
      BY <1>1, <2>2 DEF RdOn
    <3>2. j = i + Len(f)
      BY <1>9, <1>10, <1>11, <2>1, <3>1
    <3> QED  BY <1>1, <3>2
  <2>3. ASSUME x \in RdOn(c)  PROVE FALSE
    <3>1. PICK j \in 1 .. Len(c) : c[j] = x
      BY <1>1, <2>3 DEF RdOn
    <3>2. j + (Len(f) + Len(q)) = i + Len(f)
      BY <1>9, <1>11, <1>12, <2>1, <3>1
    <3> QED  BY <1>1, <3>2
  <2> QED  BY <2>2, <2>3
<1> QED  BY <1>13

\* rdsinit: every buffer is free (rdsinit.c).
LEMMA RdInitially == RdInit => RdInv
<1> SUFFICES ASSUME RdInit  PROVE RdSound
  BY DEF RdInv
<1>0. RD_BUFFS \in Nat \ {0} /\ RdComproc \notin Procs
  BY RdsAssumption
<1>1. /\ rdqueue = <<>> /\ rdcache = <<>> /\ rdfree = [i \in RdBuffers |-> i]
      /\ rdavail = Sema(RD_BUFFS) /\ rdreq = 0 /\ rdsyncs = 0
      /\ rdproc = [p \in Procs |-> RdIdle] /\ rdmail = [p \in Procs |-> 0]
      /\ rdxch = [a \in RdActors |-> NoExchange]
      /\ rdbuf = [b \in RdBuffers |-> [op |-> "none", blk |-> 0, ref |-> 0, valid |-> FALSE,
                                       pid |-> NoProc, data |-> Content(0, 0)]]
  BY DEF RdInit
<1>2. /\ rdfree \in Seq(RdBuffers) /\ Len(rdfree) = RD_BUFFS
      /\ rdqueue \in Seq(RdBuffers) /\ rdcache \in Seq(RdBuffers)
      /\ Len(rdqueue) = 0 /\ Len(rdcache) = 0 /\ RdOn(rdfree) = RdBuffers
  <2>1. rdfree \in [1 .. RD_BUFFS -> RdBuffers] /\ DOMAIN rdfree = 1 .. RD_BUFFS
    BY <1>1 DEF RdBuffers
  <2>2. rdfree \in Seq(RdBuffers)
    BY <1>0, <2>1, SeqDef
  <2>3. Len(rdfree) = RD_BUFFS
    BY <1>0, <2>1, <2>2, LenProperties
  <2>4. RdOn(rdfree) = RdBuffers
    BY <1>1 DEF RdOn, RdBuffers
  <2> QED  BY <1>1, <2>2, <2>3, <2>4
<1>3. RdTypes
  <2>1. \A p \in Procs : DOMAIN rdproc[p] = {"at", "op", "blk", "floor"}
    BY <1>1 DEF RdIdle
  <2>2. \A a \in RdActors : DOMAIN rdxch[a] = {"at", "op", "seq", "tries"}
    BY <1>1 DEF NoExchange
  <2>3. \A b \in RdBuffers : DOMAIN rdbuf[b] = {"op", "blk", "ref", "valid", "pid", "data"}
    BY <1>1
  <2> QED  BY <1>1, <1>2, <2>1, <2>2, <2>3 DEF RdTypes
<1>4. RdListed
  BY <1>0, <1>2 DEF RdListed
<1>5. RdCounted
  <2>1. RdAllocs = {}
    BY <1>1 DEF RdAllocs, RdIdle
  <2>2. SemaSound(rdavail) /\ Waiters(rdavail) = {} /\ rdavail.n = RD_BUFFS
    BY <1>0, <1>1, SemaIsSound
  <2>3. Cardinality(RdAllocs) = 0
    BY <2>1, FS_EmptySet
  <2> QED  BY <1>0, <1>2, <2>2, <2>3 DEF RdCounted
<1>6. RdSignalled
  <2>1. ~RdReading
    BY <1>1 DEF RdReading, RdActors, NoExchange
  <2> QED  BY <1>1, <2>1 DEF RdSignalled, RdIsReading
<1>7. RdServed
  BY <1>1 DEF RdServed, RdIdle, RdActors, NoExchange
<1> QED  BY <1>3, <1>4, <1>5, <1>6, <1>7 DEF RdSound

\* The least and the greatest number of a set, as the scans of a list find them
\* (rdsread.c, rdswrite.c, rdsbufalloc.c).
LEMMA RdScanEnds ==
  ASSUME NEW n \in Nat, NEW T, T \subseteq 1 .. n, T # {}
  PROVE  /\ \E i \in T : \A j \in 1 .. i - 1 : j \notin T
         /\ \E i \in T : \A j \in i + 1 .. n : j \notin T
<1>1. PICK i \in T : \A j \in T : i <= j
  <2>1. T \subseteq Nat
    OBVIOUS
  <2> QED  BY <2>1, LeastNat
<1>2. \A j \in 1 .. i - 1 : j \notin T
  <2> SUFFICES ASSUME NEW j \in 1 .. i - 1, j \in T  PROVE FALSE
    OBVIOUS
  <2>1. i <= j /\ i \in Nat /\ j \in Nat
    BY <1>1
  <2> QED  BY <2>1
<1>3. PICK k \in {n - j : j \in T} : \A m \in {n - j : j \in T} : k <= m
  <2>1. {n - j : j \in T} \subseteq Nat
    OBVIOUS
  <2>2. {n - j : j \in T} # {}
    OBVIOUS
  <2> QED  BY <2>1, <2>2, LeastNat
<1>4. PICK h \in T : k = n - h
  BY <1>3
<1>5. \A j \in h + 1 .. n : j \notin T
  <2> SUFFICES ASSUME NEW j \in h + 1 .. n, j \in T  PROVE FALSE
    OBVIOUS
  <2>1. n - h <= n - j
    BY <1>3, <1>4
  <2>2. h \in Nat /\ j \in Nat /\ h < j
    BY <1>4
  <2> QED  BY <2>1, <2>2
<1> QED  BY <1>1, <1>2, <1>4, <1>5

\* A buffer that is had, from the free list or the cache, is made a request at the
\* end of the queue (rdsread.c, rdswrite.c, rdscontrol.c).
LEMMA RdRequestKeeps ==
  ASSUME RdTypes, RdListed, RdSignalled, RdServed,
         NEW p \in Procs, NEW op \in {"read", "write", "sync"}, NEW blk,
         NEW b \in RdOn(rdfree) \cup RdOn(rdcache),
         rdproc[p].at \in {"user", "alloc"},
         rdfree' \in Seq(RdBuffers), rdcache' \in Seq(RdBuffers),
         Len(rdfree') + Len(rdcache') = Len(rdfree) + Len(rdcache) - 1,
         RdOn(rdfree) \cup RdOn(rdcache) \subseteq RdOn(rdfree') \cup RdOn(rdcache') \cup {b},
         RdRequest(p, op, blk, b), rdxch' = rdxch
  PROVE  /\ RdTypes' /\ RdListed' /\ RdSignalled' /\ RdServed'
         /\ RdAllocs' = RdAllocs \ {p}
<1>1. /\ rdfree \in Seq(RdBuffers) /\ rdqueue \in Seq(RdBuffers) /\ rdcache \in Seq(RdBuffers)
      /\ Len(rdfree) \in Nat /\ Len(rdqueue) \in Nat /\ Len(rdcache) \in Nat
      /\ Len(rdfree') \in Nat /\ Len(rdcache') \in Nat
  BY LenProperties DEF RdTypes
<1>2. b \in RdBuffers /\ b \notin RdOn(rdqueue)
  <2>1. RdOn(rdfree) \subseteq RdBuffers /\ RdOn(rdcache) \subseteq RdBuffers
    BY <1>1, RdListIs
  <2> QED  BY <1>1, <2>1, RdApartIs DEF RdListed
<1>3. /\ rdqueue' = Append(rdqueue, b) /\ rdqueue' \in Seq(RdBuffers)
      /\ Len(rdqueue') = Len(rdqueue) + 1 /\ RdOn(rdqueue') = RdOn(rdqueue) \cup {b}
      /\ rdqueue' # <<>>
  BY <1>1, <1>2, RdEndIs DEF RdRequest
<1>4. /\ DOMAIN rdbuf' = RdBuffers
      /\ \A c \in RdBuffers : DOMAIN rdbuf'[c] = {"op", "blk", "ref", "valid", "pid", "data"}
      /\ rdbuf'[b].pid = p /\ rdbuf'[b].op = op
      /\ \A c \in RdBuffers \ {b} : rdbuf'[c] = rdbuf[c]
  <2> DEFINE r == [op |-> op, blk |-> blk, ref |-> IF op = "write" THEN 0 ELSE 1,
                   valid |-> op = "write", pid |-> p,
                   data |-> IF op = "write" THEN Content(blk, rdwritten + 1)
                            ELSE rdbuf[b].data]
  <2>1. rdbuf' = [rdbuf EXCEPT ![b] = r]
    BY DEF RdRequest
  <2>2. DOMAIN r = {"op", "blk", "ref", "valid", "pid", "data"} /\ r.pid = p /\ r.op = op
    OBVIOUS
  <2> HIDE DEF r
  <2> QED  BY <1>2, <2>1, <2>2 DEF RdTypes
<1>5. /\ DOMAIN rdproc' = Procs /\ \A q \in Procs \ {p} : rdproc'[q] = rdproc[q]
      /\ \A q \in Procs : DOMAIN rdproc'[q] = {"at", "op", "blk", "floor"}
      /\ op = "write" => rdproc'[p].at = "user"
      /\ op # "write" => rdproc'[p].at = "receive" /\ rdproc'[p].op = op
  <2>1. CASE op = "write"
    <3>1. rdproc' = [rdproc EXCEPT ![p] = RdIdle]
      BY <2>1 DEF RdRequest, RdReturn
    <3>2. RdIdle.at = "user" /\ DOMAIN RdIdle = {"at", "op", "blk", "floor"}
      BY DEF RdIdle
    <3> QED  BY <2>1, <3>1, <3>2 DEF RdTypes
  <2>2. CASE op # "write"
    <3> DEFINE r == [at |-> "receive", op |-> op, blk |-> blk,
                     floor |-> IF op = "read" THEN rdlast[blk] ELSE 0]
    <3>1. rdproc' = [rdproc EXCEPT ![p] = r]
      BY <2>2 DEF RdRequest
    <3>2. r.at = "receive" /\ r.op = op /\ DOMAIN r = {"at", "op", "blk", "floor"}
      OBVIOUS
    <3> HIDE DEF r
    <3> QED  BY <2>2, <3>1, <3>2 DEF RdTypes
  <2> QED  BY <2>1, <2>2
<1>6. /\ rdmail' \in [Procs -> RdBuffers \cup {0}]
      /\ \A q \in Procs \ {p} : rdmail'[q] = rdmail[q]
  BY <1>2 DEF RdRequest, RdTypes
<1>7. /\ rdreq' \in Nat /\ rdsyncs' \in Nat /\ rdreq' + rdsyncs' = rdreq + rdsyncs + 1
  BY DEF RdRequest, RdTypes
<1>8. RdTypes'
  BY <1>3, <1>4, <1>5, <1>6, <1>7 DEF RdTypes
<1>9. RdListed'
  <2>1. Len(rdfree) + Len(rdqueue) + Len(rdcache) = RD_BUFFS
    BY DEF RdListed
  <2>2. Len(rdfree') + Len(rdqueue') + Len(rdcache') = RD_BUFFS
    <3> DEFINE Sums(f, q, c, f1, c1) == f + q + c = f1 + (q + 1) + c1
    <3>1. \A f, q, c, f1, c1 \in Nat : f1 + c1 = f + c - 1 => Sums(f, q, c, f1, c1)
      OBVIOUS
    <3>2. Sums(Len(rdfree), Len(rdqueue), Len(rdcache), Len(rdfree'), Len(rdcache'))
      <4> HIDE DEF Sums
      <4> QED  BY <1>1, <3>1
    <3> QED  BY <1>3, <2>1, <3>2
  <2>3. RdBuffers \subseteq RdOn(rdfree) \cup RdOn(rdqueue) \cup RdOn(rdcache)
    BY DEF RdListed
  <2>4. RdBuffers \subseteq RdOn(rdfree') \cup RdOn(rdqueue') \cup RdOn(rdcache')
    BY <1>3, <2>3
  <2>5. (RdBuffers)' = RdBuffers /\ (RD_BUFFS)' = RD_BUFFS
    BY DEF RdBuffers
  <2> QED  BY <2>2, <2>4, <2>5 DEF RdListed, RdOn
<1>10. RdSignalled'
  <2>1. RdReading' = RdReading /\ RdIsReading' = RdIsReading /\ RdIsReading \in Nat
    BY DEF RdReading, RdIsReading
  <2>2. Len(rdqueue) <= rdreq + rdsyncs + RdIsReading
    BY DEF RdSignalled
  <2>3. rdreq \in Nat /\ rdsyncs \in Nat
    BY DEF RdTypes
  <2>4. Len(rdqueue') <= rdreq' + rdsyncs' + RdIsReading
    <3> DEFINE Less(q, r, s, i) == q <= r + s + i
    <3>1. \A q, r, s, i, r1, s1 \in Nat :
            Less(q, r, s, i) /\ r1 + s1 = r + s + 1 => Less(q + 1, r1, s1, i)
      OBVIOUS
    <3>2. Less(Len(rdqueue), rdreq, rdsyncs, RdIsReading)
      BY <2>2
    <3>3. Less(Len(rdqueue) + 1, rdreq', rdsyncs', RdIsReading)
      <4> HIDE DEF Less
      <4> QED  BY <1>1, <1>7, <2>1, <2>3, <3>1, <3>2
    <3> QED  BY <1>3, <3>3
  <2> QED  BY <1>3, <2>1, <2>4 DEF RdSignalled
<1>11. RdServed'
  <2> SUFFICES ASSUME NEW q \in Procs
               PROVE  /\ rdproc'[q].at = "alloc" => rdproc'[q].op \in {"read", "write", "sync"}
                      /\ rdproc'[q].at = "receive" =>
                           /\ rdproc'[q].op \in {"read", "sync"}
                           /\ \/ rdmail'[q] # 0
                              \/ \E c \in RdOn(rdqueue') : /\ rdbuf'[c].pid = q
                                                           /\ rdbuf'[c].op = rdproc'[q].op
                      /\ rdxch'[q].at # "none" => rdproc'[q].at = "comm"
    BY DEF RdServed
  <2>1. CASE q = p
    <3>1. rdxch'[q].at = "none"
      BY <2>1 DEF RdServed
    <3>2. b \in RdOn(rdqueue') /\ rdbuf'[b].pid = q /\ rdbuf'[b].op = op
      BY <1>3, <1>4, <2>1
    <3> QED  BY <1>5, <2>1, <3>1, <3>2
  <2>2. CASE q # p
    <3>1. rdproc'[q] = rdproc[q] /\ rdmail'[q] = rdmail[q] /\ rdxch'[q] = rdxch[q]
      BY <1>5, <1>6, <2>2
    <3>2. ASSUME NEW c \in RdOn(rdqueue)  PROVE c \in RdOn(rdqueue') /\ rdbuf'[c] = rdbuf[c]
      <4>1. c # b /\ c \in RdBuffers
        BY <1>1, <1>2, RdListIs
      <4> QED  BY <1>3, <1>4, <4>1
    <3> QED  BY <3>1, <3>2 DEF RdServed
  <2> QED  BY <2>1, <2>2
<1>12. RdAllocs' = RdAllocs \ {p}
  BY <1>5 DEF RdAllocs
<1> QED  BY <1>8, <1>9, <1>10, <1>11, <1>12

\* rdsbufalloc behind its wait: the head of the free list, or an entry of the cache
\* that nobody reads (rdsbufalloc.c).
LEMMA RdBufallocKeeps ==
  ASSUME RdTypes, RdListed, RdSignalled, RdServed,
         NEW p \in Procs, NEW op \in {"read", "write", "sync"}, NEW blk,
         rdproc[p].at \in {"user", "alloc"},
         RdBufalloc(p, op, blk), ~rdpanic', rdxch' = rdxch
  PROVE  /\ RdTypes' /\ RdListed' /\ RdSignalled' /\ RdServed'
         /\ RdAllocs' = RdAllocs \ {p}
         /\ Len(rdfree') + Len(rdcache') = Len(rdfree) + Len(rdcache) - 1
<1> DEFINE Unread(b) == rdbuf[b].ref <= 0
           old == LastIn(rdcache, Unread)
<1>1. /\ rdfree \in Seq(RdBuffers) /\ rdcache \in Seq(RdBuffers)
      /\ Len(rdfree) \in Nat /\ Len(rdcache) \in Nat /\ DOMAIN rdcache = 1 .. Len(rdcache)
  BY LenProperties DEF RdTypes
<1>2. CASE rdfree # <<>>
  <2> DEFINE b == Head(rdfree)
  <2>1. RdRequest(p, op, blk, b) /\ rdfree' = Tail(rdfree) /\ rdcache' = rdcache
    BY <1>2 DEF RdBufalloc
  <2>2. /\ Tail(rdfree) \in Seq(RdBuffers) /\ Len(Tail(rdfree)) = Len(rdfree) - 1
        /\ b \in RdOn(rdfree) /\ RdOn(rdfree) = RdOn(Tail(rdfree)) \cup {b}
    BY <1>1, <1>2, RdTailIs
  <2> HIDE DEF b
  <2>3. /\ rdfree' \in Seq(RdBuffers) /\ rdcache' \in Seq(RdBuffers)
        /\ b \in RdOn(rdfree) \cup RdOn(rdcache)
        /\ Len(rdfree') + Len(rdcache') = Len(rdfree) + Len(rdcache) - 1
        /\ RdOn(rdfree) \cup RdOn(rdcache) \subseteq RdOn(rdfree') \cup RdOn(rdcache') \cup {b}
    BY <1>1, <2>1, <2>2
  <2> QED  BY <2>1, <2>3, RdRequestKeeps
<1>3. CASE rdfree = <<>>
  <2>1. Has(rdcache, Unread)
    BY <1>3, Zenon DEF RdBufalloc
  <2>2. RdRequest(p, op, blk, old) /\ rdcache' = Drop(rdcache, old) /\ rdfree' = rdfree
    BY <1>3, <2>1 DEF RdBufalloc
  <2>3. old \in RdOn(rdcache)
    <3> DEFINE T == {i \in 1 .. Len(rdcache) : Unread(rdcache[i])}
               LastOne(i) == Unread(rdcache[i]) /\ \A j \in i + 1 .. Len(rdcache) : ~Unread(rdcache[j])
    <3>1. T # {} /\ T \subseteq 1 .. Len(rdcache)
      BY <1>1, <2>1 DEF Has
    <3>2. PICK i \in T : \A j \in i + 1 .. Len(rdcache) : j \notin T
      BY <1>1, <3>1, RdScanEnds
    <3>3. i \in DOMAIN rdcache /\ LastOne(i)
      <4>1. \A j \in i + 1 .. Len(rdcache) : j \in 1 .. Len(rdcache)
        BY <1>1, <3>1
      <4> QED  BY <1>1, <3>2, <4>1
    <3>4. old = rdcache[CHOOSE j \in DOMAIN rdcache : LastOne(j)]
      BY DEF LastIn
    <3> HIDE DEF LastOne, old
    <3>5. (CHOOSE j \in DOMAIN rdcache : LastOne(j)) \in DOMAIN rdcache
      BY <3>3
    <3> QED  BY <3>4, <3>5 DEF RdOn
  <2> HIDE DEF old
  <2>4. /\ Drop(rdcache, old) \in Seq(RdBuffers) /\ Len(Drop(rdcache, old)) = Len(rdcache) - 1
        /\ RdOn(rdcache) \subseteq RdOn(Drop(rdcache, old)) \cup {old}
    BY <1>1, <2>3, RdDropIs
  <2>5. /\ rdfree' \in Seq(RdBuffers) /\ rdcache' \in Seq(RdBuffers)
        /\ old \in RdOn(rdfree) \cup RdOn(rdcache)
        /\ Len(rdfree') + Len(rdcache') = Len(rdfree) + Len(rdcache) - 1
        /\ RdOn(rdfree) \cup RdOn(rdcache) \subseteq RdOn(rdfree') \cup RdOn(rdcache') \cup {old}
    BY <1>1, <2>2, <2>3, <2>4
  <2> QED  BY <2>2, <2>5, RdRequestKeeps
<1> QED  BY <1>2, <1>3

\* A caller waits for a buffer, or goes on to take one (rdsbufalloc.c).
LEMMA RdObtainKeeps ==
  ASSUME RdSound, NEW p \in Procs, NEW op \in {"read", "write", "sync"}, NEW blk,
         rdproc[p].at = "user", ~rdpanic, RdObtain(p, op, blk), rdxch' = rdxch
  PROVE  RdSound'
<1>1. /\ RdTypes /\ RdListed /\ RdSignalled /\ RdServed
      /\ SemaSound(rdavail) /\ Waiters(rdavail) \subseteq RdAllocs
      /\ rdavail.n + Cardinality(RdAllocs) = Len(rdfree) + Len(rdcache)
  BY DEF RdSound, RdCounted
<1>2. /\ p \notin RdAllocs /\ p \notin Waiters(rdavail) /\ RdAllocs \subseteq Procs
      /\ rdavail.n \in Int /\ Cardinality(RdAllocs) \in Nat
      /\ Len(rdfree) \in Nat /\ Len(rdcache) \in Nat
  <2>1. RdAllocs \subseteq Procs /\ p \notin RdAllocs
    BY DEF RdAllocs
  <2>2. rdfree \in Seq(RdBuffers) /\ rdcache \in Seq(RdBuffers)
    BY <1>1 DEF RdTypes
  <2> QED  BY <1>1, <2>1, <2>2, OneMore, LenProperties DEF SemaSound
<1>3. /\ rdavail' = Down(rdavail, p) /\ SemaSound(rdavail') /\ rdavail'.n = rdavail.n - 1
      /\ Waiters(rdavail') = IF Blocks(rdavail) THEN Waiters(rdavail) \cup {p}
                             ELSE Waiters(rdavail)
  BY <1>1, <1>2, DownIs DEF RdObtain
<1>4. CASE Blocks(rdavail) \/ rdpanic'
  <2>1. /\ rdproc' = [rdproc EXCEPT ![p] = [rdproc[p] EXCEPT !.at = "alloc", !.op = op,
                                                             !.blk = blk]]
        /\ UNCHANGED <<rdlists, rdreq, rdmail, rdghost, rdbroken>>
    <3>1. CASE Blocks(rdavail)
      BY <3>1 DEF RdObtain, RdInAlloc
    <3>2. CASE ~Blocks(rdavail) /\ rdpanic'
      BY <3>2 DEF RdObtain, RdBufalloc, RdInAlloc
    <3> QED  BY <1>4, <3>1, <3>2
  <2>2. /\ DOMAIN rdproc' = Procs /\ \A q \in Procs \ {p} : rdproc'[q] = rdproc[q]
        /\ DOMAIN rdproc'[p] = {"at", "op", "blk", "floor"}
        /\ rdproc'[p].at = "alloc" /\ rdproc'[p].op = op
    BY <1>1, <2>1 DEF RdTypes
  <2>3. RdTypes'
    BY <1>1, <2>1, <2>2 DEF RdTypes, rdlists, rdghost
  <2>4. RdListed' /\ RdSignalled'
    BY <1>1, <2>1 DEF RdListed, RdSignalled, RdIsReading, RdReading, RdOn, rdlists, rdghost
  <2>5. RdAllocs' = RdAllocs \cup {p}
    BY <2>2 DEF RdAllocs
  <2>6. RdCounted'
    <3>1. Cardinality(RdAllocs') = Cardinality(RdAllocs) + 1
      BY <1>2, <2>5, OneMore
    <3>2. rdavail'.n + Cardinality(RdAllocs') = Len(rdfree) + Len(rdcache)
      BY <1>1, <1>2, <1>3, <3>1
    <3>3. rdfree' = rdfree /\ rdcache' = rdcache
      BY <2>1 DEF rdlists
    <3>4. Waiters(rdavail') \subseteq RdAllocs'
      BY <1>1, <1>3, <2>5
    <3> QED  BY <1>3, <3>2, <3>3, <3>4 DEF RdCounted, SemaSound, Waiters
  <2>7. RdServed'
    <3>1. \A q \in Procs : rdxch'[q] = rdxch[q]
      OBVIOUS
    <3>2. rdmail' = rdmail /\ rdqueue' = rdqueue /\ rdbuf' = rdbuf
      BY <2>1 DEF rdlists
    <3>3. rdxch[p].at = "none"
      BY <1>1 DEF RdServed
    <3> QED  BY <1>1, <2>2, <3>1, <3>2, <3>3 DEF RdServed, RdOn
  <2> QED  BY <2>3, <2>4, <2>6, <2>7 DEF RdSound
<1>5. CASE ~Blocks(rdavail) /\ ~rdpanic'
  <2>1. RdBufalloc(p, op, blk)
    BY <1>5 DEF RdObtain
  <2>2. /\ RdTypes' /\ RdListed' /\ RdSignalled' /\ RdServed'
        /\ RdAllocs' = RdAllocs \ {p}
        /\ Len(rdfree') + Len(rdcache') = Len(rdfree) + Len(rdcache) - 1
    BY <1>1, <1>5, <2>1, RdBufallocKeeps
  <2>3. RdAllocs' = RdAllocs
    BY <1>2, <2>2
  <2>4. rdavail'.n + Cardinality(RdAllocs') = Len(rdfree') + Len(rdcache')
    <3> DEFINE n == rdavail.n
               k == Cardinality(RdAllocs)
               f == Len(rdfree) + Len(rdcache)
    <3>1. n \in Int /\ k \in Nat /\ f \in Nat /\ n + k = f
      BY <1>1, <1>2
    <3>2. /\ Cardinality(RdAllocs') = k /\ rdavail'.n = n - 1
          /\ Len(rdfree') + Len(rdcache') = f - 1
      <4>1. Cardinality(RdAllocs') = k
        BY <2>3
      <4>2. rdavail'.n = n - 1
        BY <1>3
      <4>3. Len(rdfree') + Len(rdcache') = f - 1
        BY <2>2
      <4> QED  BY <4>1, <4>2, <4>3
    <3> HIDE DEF n, k, f
    <3>3. (n - 1) + k = f - 1
      BY <3>1
    <3> QED  BY <3>2, <3>3
  <2>5. Waiters(rdavail') \subseteq RdAllocs'
    BY <1>1, <1>3, <1>5, <2>3
  <2>6. RdCounted'
    BY <1>3, <2>4, <2>5 DEF RdCounted, SemaSound, Waiters
  <2> QED  BY <2>2, <2>6 DEF RdSound
<1> QED  BY <1>4, <1>5

\* A process that signal has released takes its buffer (rdsbufalloc.c).
LEMMA RdAllocatedKeeps ==
  ASSUME RdSound, NEW p \in Procs, RdAllocated(p)
  PROVE  RdSound'
<1>1. /\ RdTypes /\ RdListed /\ RdSignalled /\ RdServed
      /\ SemaSound(rdavail) /\ Waiters(rdavail) \subseteq RdAllocs
      /\ rdavail.n + Cardinality(RdAllocs) = Len(rdfree) + Len(rdcache)
  BY DEF RdSound, RdCounted
<1>2. /\ rdproc[p].at = "alloc" /\ p \notin Waiters(rdavail)
      /\ RdBufalloc(p, rdproc[p].op, rdproc[p].blk)
      /\ rdavail' = rdavail /\ rdxch' = rdxch
  BY DEF RdAllocated, RdRuns, rdcomm
<1>3. rdproc[p].op \in {"read", "write", "sync"}
  BY <1>1, <1>2 DEF RdServed
<1>4. CASE rdpanic'
  <2>1. /\ rdproc' = [rdproc EXCEPT ![p] = [rdproc[p] EXCEPT !.at = "alloc", !.op = rdproc[p].op,
                                                             !.blk = rdproc[p].blk]]
        /\ UNCHANGED <<rdlists, rdreq, rdmail, rdsyncs>>
    BY <1>2, <1>4 DEF RdBufalloc, RdInAlloc, rdghost, RdAllocated, RdRuns, RdGoesOn
  <2>2. DOMAIN rdproc = Procs /\ DOMAIN rdproc[p] = {"at", "op", "blk", "floor"}
    BY <1>1 DEF RdTypes
  <2>3. /\ DOMAIN rdproc' = Procs /\ DOMAIN rdproc'[p] = {"at", "op", "blk", "floor"}
        /\ rdproc'[p].at = rdproc[p].at /\ rdproc'[p].op = rdproc[p].op
        /\ \A q \in Procs \ {p} : rdproc'[q] = rdproc[q]
    BY <1>2, <2>1, <2>2
  <2>4. RdTypes'
    BY <1>1, <1>2, <2>1, <2>3 DEF RdTypes, rdlists
  <2>5. RdListed' /\ RdSignalled'
    BY <1>1, <1>2, <2>1 DEF RdListed, RdSignalled, RdIsReading, RdReading, RdOn, rdlists
  <2>6. RdAllocs' = RdAllocs
    BY <2>3 DEF RdAllocs
  <2>7. RdCounted'
    BY <1>1, <1>2, <2>1, <2>6 DEF RdCounted, SemaSound, Waiters, rdlists
  <2>8. RdServed'
    BY <1>1, <1>2, <2>1, <2>3 DEF RdServed, RdOn, rdlists
  <2> QED  BY <2>4, <2>5, <2>7, <2>8 DEF RdSound
<1> SUFFICES ASSUME ~rdpanic'  PROVE RdSound'
  BY <1>4
<1>10. /\ RdTypes' /\ RdListed' /\ RdSignalled' /\ RdServed'
      /\ RdAllocs' = RdAllocs \ {p}
      /\ Len(rdfree') + Len(rdcache') = Len(rdfree) + Len(rdcache) - 1
  BY <1>1, <1>2, <1>3, RdBufallocKeeps
<1>5. /\ p \in RdAllocs /\ RdAllocs \subseteq Procs
      /\ rdavail.n \in Int /\ Len(rdfree) \in Nat /\ Len(rdcache) \in Nat
  <2>1. rdfree \in Seq(RdBuffers) /\ rdcache \in Seq(RdBuffers)
    BY <1>1 DEF RdTypes
  <2> QED  BY <1>1, <1>2, <2>1, LenProperties DEF RdAllocs, SemaSound
<1>6. Cardinality(RdAllocs) \in Nat /\ Cardinality(RdAllocs') = Cardinality(RdAllocs) - 1
  BY <1>10, <1>5, OneMore
<1>7. rdavail'.n + Cardinality(RdAllocs') = Len(rdfree') + Len(rdcache')
  BY <1>1, <1>2, <1>10, <1>5, <1>6
<1>8. Waiters(rdavail') \subseteq RdAllocs'
  BY <1>1, <1>2, <1>10
<1>9. RdCounted'
  BY <1>1, <1>2, <1>7, <1>8 DEF RdCounted, SemaSound, Waiters
<1> QED  BY <1>10, <1>9 DEF RdSound

\* rdswrite takes a buffer of the cache and resets the semaphore to one less; as long
\* as nothing is corrupt nobody waits then (rdswrite.c).
LEMMA RdTakeCachedKeeps ==
  ASSUME RdSound, NEW p \in Procs, NEW blk, NEW b \in RdOn(rdcache),
         rdproc[p].at = "user", RdTakeCached(p, blk, b), ~rdbroken', rdxch' = rdxch
  PROVE  RdSound'
<1>1. /\ RdTypes /\ RdListed /\ RdSignalled /\ RdServed
      /\ SemaSound(rdavail) /\ Waiters(rdavail) \subseteq RdAllocs
      /\ rdavail.n + Cardinality(RdAllocs) = Len(rdfree) + Len(rdcache)
  BY DEF RdSound, RdCounted
<1>2. /\ rdfree \in Seq(RdBuffers) /\ rdcache \in Seq(RdBuffers)
      /\ rdavail.n \in Int /\ Len(rdfree) \in Nat /\ Len(rdcache) \in Nat
  BY <1>1, LenProperties DEF RdTypes, SemaSound
<1>3. /\ rdcache' = Drop(rdcache, b) /\ rdfree' = rdfree
      /\ RdRequest(p, "write", blk, b)
      /\ rdavail.n >= 1 /\ rdavail' = Sema(rdavail.n - 1)
  <2>1. rdbroken' = (rdavail.n < 1)
    BY DEF RdTakeCached
  <2>2. ~ (rdavail.n < 1)
    BY <2>1, Zenon
  <2>3. rdavail.n >= 1
    BY <1>2, <2>2
  <2> QED  BY <2>3 DEF RdTakeCached
<1>4. /\ Drop(rdcache, b) \in Seq(RdBuffers) /\ Len(Drop(rdcache, b)) = Len(rdcache) - 1
      /\ RdOn(rdcache) \subseteq RdOn(Drop(rdcache, b)) \cup {b}
  BY <1>2, RdDropIs
<1>5. /\ rdfree' \in Seq(RdBuffers) /\ rdcache' \in Seq(RdBuffers)
      /\ b \in RdOn(rdfree) \cup RdOn(rdcache)
      /\ Len(rdfree') + Len(rdcache') = Len(rdfree) + Len(rdcache) - 1
      /\ RdOn(rdfree) \cup RdOn(rdcache) \subseteq RdOn(rdfree') \cup RdOn(rdcache') \cup {b}
  BY <1>2, <1>3, <1>4
<1>6. /\ RdTypes' /\ RdListed' /\ RdSignalled' /\ RdServed'
      /\ RdAllocs' = RdAllocs \ {p}
  BY <1>1, <1>3, <1>5, RdRequestKeeps
<1>7. RdAllocs' = RdAllocs /\ Cardinality(RdAllocs) \in Nat
  <2>1. p \notin RdAllocs /\ RdAllocs \subseteq Procs
    BY DEF RdAllocs
  <2> QED  BY <1>6, <2>1, OneMore
<1>8. SemaSound(rdavail') /\ Waiters(rdavail') = {} /\ rdavail'.n = rdavail.n - 1
  <2>1. rdavail.n - 1 \in Nat
    BY <1>2, <1>3
  <2> QED  BY <1>3, <2>1, SemaIsSound
<1>9. rdavail'.n + Cardinality(RdAllocs') = Len(rdfree') + Len(rdcache')
  <2> DEFINE n == rdavail.n
             k == Cardinality(RdAllocs)
             f == Len(rdfree) + Len(rdcache)
  <2>1. n \in Int /\ k \in Nat /\ f \in Nat /\ n + k = f
    BY <1>1, <1>2, <1>7
  <2>2. /\ Cardinality(RdAllocs') = k /\ rdavail'.n = n - 1
        /\ Len(rdfree') + Len(rdcache') = f - 1
    BY <1>5, <1>7, <1>8
  <2> HIDE DEF n, k, f
  <2>3. (n - 1) + k = f - 1
    BY <2>1
  <2> QED  BY <2>2, <2>3
<1>10. RdCounted'
  BY <1>8, <1>9 DEF RdCounted, SemaSound, Waiters
<1> QED  BY <1>6, <1>10 DEF RdSound

\* Nothing of what counts has changed.
LEMMA RdSame ==
  ASSUME RdSound,
         UNCHANGED <<rdlists, rdavail, rdreq, rdproc, rdmail, rdxch, rdsyncs>>
  PROVE  RdSound'
<1>1. RdTypes'
  BY DEF RdSound, RdTypes, rdlists
<1>2. RdListed' /\ RdSignalled'
  BY DEF RdSound, RdListed, RdSignalled, RdIsReading, RdReading, RdOn, rdlists
<1>3. RdCounted'
  BY DEF RdSound, RdCounted, RdAllocs, SemaSound, Waiters, rdlists
<1>4. RdServed'
  BY DEF RdSound, RdServed, RdOn, rdlists
<1> QED  BY <1>1, <1>2, <1>3, <1>4 DEF RdSound

\* A read gives what the cache or the queue holds, or asks for a buffer (rdsread.c).
LEMMA RdReadKeeps ==
  ASSUME RdSound, NEW p \in Procs, NEW blk, RdRead(p, blk), ~rdbroken'
  PROVE  RdSound'
<1>1. /\ rdproc[p].at = "user" /\ ~rdpanic /\ rdxch' = rdxch
      /\ \/ UNCHANGED <<rdlists, rdavail, rdreq, rdproc, rdmail, rdwritten, rdlast, rdsyncs,
                        rdpanic, rdbroken>>
         \/ RdObtain(p, "read", blk)
  BY DEF RdRead, RdCalls, RdRuns, RdGoesOn, rdcomm
<1>2. CASE RdObtain(p, "read", blk)
  BY <1>1, <1>2, RdObtainKeeps
<1>3. CASE UNCHANGED <<rdlists, rdavail, rdreq, rdproc, rdmail, rdwritten, rdlast, rdsyncs,
                       rdpanic, rdbroken>>
  BY <1>1, <1>3, RdSame
<1> QED  BY <1>1, <1>2, <1>3

\* rdscontrol(RDS_CTL_SYNC) (rdscontrol.c).
LEMMA RdSyncKeeps ==
  ASSUME RdSound, NEW p \in Procs, RdSync(p), ~rdbroken'
  PROVE  RdSound'
<1>1. rdproc[p].at = "user" /\ ~rdpanic /\ rdxch' = rdxch /\ RdObtain(p, "sync", 0)
  BY DEF RdSync, RdCalls, RdRuns, RdGoesOn, rdcomm
<1> QED  BY <1>1, RdObtainKeeps

\* New data for a request that is still in the queue (rdswrite.c).
LEMMA RdEntriesKeep ==
  ASSUME RdSound,
         DOMAIN rdbuf' = RdBuffers,
         \A b \in RdBuffers : /\ DOMAIN rdbuf'[b] = DOMAIN rdbuf[b]
                              /\ rdbuf'[b].pid = rdbuf[b].pid /\ rdbuf'[b].op = rdbuf[b].op,
         UNCHANGED <<rdfree, rdqueue, rdcache, rdavail, rdreq, rdproc, rdmail, rdxch, rdsyncs>>
  PROVE  RdSound'
<1>1. RdTypes'
  BY DEF RdSound, RdTypes
<1>2. RdListed' /\ RdSignalled'
  BY DEF RdSound, RdListed, RdSignalled, RdIsReading, RdReading, RdOn
<1>3. RdCounted'
  BY DEF RdSound, RdCounted, RdAllocs, SemaSound, Waiters
<1>4. RdServed'
  <2>1. RdOn(rdqueue) \subseteq RdBuffers /\ RdOn(rdqueue') = RdOn(rdqueue)
    BY RdListIs DEF RdSound, RdTypes
  <2>2. \A c \in RdOn(rdqueue) : rdbuf'[c].pid = rdbuf[c].pid /\ rdbuf'[c].op = rdbuf[c].op
    BY <2>1
  <2> QED  BY <2>1, <2>2 DEF RdSound, RdServed
<1> QED  BY <1>1, <1>2, <1>3, <1>4 DEF RdSound

\* A write changes a request that is in the queue, takes the entry of the cache, or
\* asks for a buffer (rdswrite.c).
LEMMA RdWriteKeeps ==
  ASSUME RdSound, NEW p \in Procs, NEW blk, RdWrite(p, blk), ~rdbroken'
  PROVE  RdSound'
<1> DEFINE Of(b) == rdbuf[b].blk = blk
           Pending(b) == Of(b) /\ rdbuf[b].op = "write"
           c == FirstIn(rdcache, Of)
           q == FirstIn(rdqueue, Pending)
<1>1. /\ rdproc[p].at = "user" /\ ~rdpanic /\ rdxch' = rdxch
      /\ \/ /\ rdbuf' = [rdbuf EXCEPT ![q].data = Content(blk, rdwritten')]
            /\ UNCHANGED <<rdfree, rdqueue, rdcache, rdavail, rdreq, rdproc, rdmail, rdsyncs>>
         \/ Has(rdcache, Of) /\ RdTakeCached(p, blk, c)
         \/ RdObtain(p, "write", blk)
  BY DEF RdWrite, RdCalls, RdRuns, RdGoesOn, rdcomm
<1>2. CASE RdObtain(p, "write", blk)
  BY <1>1, <1>2, RdObtainKeeps
<1>3. CASE Has(rdcache, Of) /\ RdTakeCached(p, blk, c)
  <2>1. rdcache \in Seq(RdBuffers) /\ Len(rdcache) \in Nat /\ DOMAIN rdcache = 1 .. Len(rdcache)
    BY LenProperties DEF RdSound, RdTypes
  <2>2. c \in RdOn(rdcache)
    <3> DEFINE T == {i \in 1 .. Len(rdcache) : Of(rdcache[i])}
               First(i) == Of(rdcache[i]) /\ \A j \in 1 .. i - 1 : ~Of(rdcache[j])
    <3>1. T # {} /\ T \subseteq 1 .. Len(rdcache)
      BY <1>3, <2>1 DEF Has
    <3>2. PICK i \in T : \A j \in 1 .. i - 1 : j \notin T
      BY <2>1, <3>1, RdScanEnds
    <3>3. i \in DOMAIN rdcache /\ First(i)
      <4>1. \A j \in 1 .. i - 1 : j \in 1 .. Len(rdcache)
        BY <2>1, <3>1
      <4> QED  BY <2>1, <3>2, <4>1
    <3>4. c = rdcache[CHOOSE j \in DOMAIN rdcache : First(j)]
      BY DEF FirstIn
    <3> HIDE DEF First, c
    <3>5. (CHOOSE j \in DOMAIN rdcache : First(j)) \in DOMAIN rdcache
      BY <3>3
    <3> QED  BY <3>4, <3>5 DEF RdOn
  <2> HIDE DEF c
  <2> QED  BY <1>1, <1>3, <2>2, RdTakeCachedKeeps
<1>4. CASE /\ rdbuf' = [rdbuf EXCEPT ![q].data = Content(blk, rdwritten')]
           /\ UNCHANGED <<rdfree, rdqueue, rdcache, rdavail, rdreq, rdproc, rdmail, rdsyncs>>
  <2> HIDE DEF q
  <2>1. /\ DOMAIN rdbuf = RdBuffers
        /\ \A b \in RdBuffers : DOMAIN rdbuf[b] = {"op", "blk", "ref", "valid", "pid", "data"}
    BY DEF RdSound, RdTypes
  <2>2. /\ DOMAIN rdbuf' = RdBuffers
        /\ \A b \in RdBuffers : /\ DOMAIN rdbuf'[b] = DOMAIN rdbuf[b]
                                /\ rdbuf'[b].pid = rdbuf[b].pid /\ rdbuf'[b].op = rdbuf[b].op
    BY <1>4, <2>1
  <2> QED  BY <1>1, <1>4, <2>2, RdEntriesKeep
<1> QED  BY <1>1, <1>2, <1>3, <1>4

\* The free list and the cache exchange buffers, or not, and one caller that neither
\* waits for a buffer nor goes to wait for a message changes its place.
LEMMA RdMoves ==
  ASSUME RdSound, NEW p \in Procs,
         rdfree' \in Seq(RdBuffers), rdcache' \in Seq(RdBuffers), rdqueue' = rdqueue,
         Len(rdfree') + Len(rdcache') = Len(rdfree) + Len(rdcache),
         RdOn(rdfree) \cup RdOn(rdcache) \subseteq RdOn(rdfree') \cup RdOn(rdcache'),
         DOMAIN rdbuf' = RdBuffers,
         \A b \in RdBuffers : /\ DOMAIN rdbuf'[b] = DOMAIN rdbuf[b]
                              /\ rdbuf'[b].pid = rdbuf[b].pid /\ rdbuf'[b].op = rdbuf[b].op,
         rdavail' = rdavail, rdreq' = rdreq, rdsyncs' = rdsyncs,
         rdproc[p].at # "alloc",
         DOMAIN rdproc' = Procs, DOMAIN rdproc'[p] = {"at", "op", "blk", "floor"},
         \A q \in Procs \ {p} : rdproc'[q] = rdproc[q],
         rdproc'[p].at \notin {"alloc", "receive"},
         rdmail' \in [Procs -> RdBuffers \cup {0}],
         \A q \in Procs \ {p} : rdmail'[q] = rdmail[q],
         DOMAIN rdxch' = RdActors, DOMAIN rdxch'[p] = {"at", "op", "seq", "tries"},
         \A a \in RdActors \ {p} : rdxch'[a] = rdxch[a],
         rdxch'[p].at # "none" => rdproc'[p].at = "comm"
  PROVE  RdSound'
<1>1. /\ RdTypes /\ RdListed /\ RdCounted /\ RdSignalled /\ RdServed
  BY DEF RdSound
<1>2. RdComproc \in RdActors \ {p} /\ Procs \subseteq RdActors
  BY RdsAssumption DEF RdActors
<1>3. RdTypes'
  BY <1>1 DEF RdTypes
<1>4. RdListed'
  <2>1. /\ Len(rdfree) + Len(rdqueue) + Len(rdcache) = RD_BUFFS
        /\ RdBuffers \subseteq RdOn(rdfree) \cup RdOn(rdqueue) \cup RdOn(rdcache)
    BY <1>1 DEF RdListed
  <2>2. /\ Len(rdfree) \in Nat /\ Len(rdqueue) \in Nat /\ Len(rdcache) \in Nat
        /\ Len(rdfree') \in Nat /\ Len(rdcache') \in Nat
    BY <1>1, LenProperties DEF RdTypes
  <2>3. Len(rdfree') + Len(rdqueue') + Len(rdcache') = RD_BUFFS
    <3> DEFINE Sums(f, q, c, f1, c1) == f + q + c = f1 + q + c1
    <3>1. \A f, q, c, f1, c1 \in Nat : f1 + c1 = f + c => Sums(f, q, c, f1, c1)
      OBVIOUS
    <3>2. Sums(Len(rdfree), Len(rdqueue), Len(rdcache), Len(rdfree'), Len(rdcache'))
      <4> HIDE DEF Sums
      <4> QED  BY <2>2, <3>1
    <3> QED  BY <2>1, <3>2
  <2>4. RdBuffers \subseteq RdOn(rdfree') \cup RdOn(rdqueue') \cup RdOn(rdcache')
    BY <2>1
  <2> QED  BY <2>3, <2>4 DEF RdListed, RdOn
<1>5. RdCounted'
  <2>1. RdAllocs' = RdAllocs
    BY DEF RdAllocs
  <2> QED  BY <1>1, <2>1 DEF RdCounted, SemaSound, Waiters
<1>6. RdSignalled'
  BY <1>1, <1>2 DEF RdSignalled, RdIsReading, RdReading
<1>7. RdServed'
  <2> SUFFICES ASSUME NEW q \in Procs
               PROVE  /\ rdproc'[q].at = "alloc" => rdproc'[q].op \in {"read", "write", "sync"}
                      /\ rdproc'[q].at = "receive" =>
                           /\ rdproc'[q].op \in {"read", "sync"}
                           /\ \/ rdmail'[q] # 0
                              \/ \E c \in RdOn(rdqueue') : /\ rdbuf'[c].pid = q
                                                           /\ rdbuf'[c].op = rdproc'[q].op
                      /\ rdxch'[q].at # "none" => rdproc'[q].at = "comm"
    BY DEF RdServed
  <2>1. CASE q = p
    BY <2>1
  <2>2. CASE q # p
    <3>1. rdproc'[q] = rdproc[q] /\ rdmail'[q] = rdmail[q] /\ rdxch'[q] = rdxch[q]
      BY <1>2, <2>2
    <3>2. RdOn(rdqueue) \subseteq RdBuffers /\ RdOn(rdqueue') = RdOn(rdqueue)
      BY <1>1, RdListIs DEF RdTypes
    <3>3. \A c \in RdOn(rdqueue) : rdbuf'[c].pid = rdbuf[c].pid /\ rdbuf'[c].op = rdbuf[c].op
      BY <3>2
    <3> QED  BY <1>1, <3>1, <3>2, <3>3 DEF RdServed
  <2> QED  BY <2>1, <2>2
<1> QED  BY <1>3, <1>4, <1>5, <1>6, <1>7 DEF RdSound

\* What RdMoves needs of the lists and the entries when they stay as they are.
LEMMA RdListsStay ==
  ASSUME RdSound, UNCHANGED rdlists
  PROVE  /\ rdfree' \in Seq(RdBuffers) /\ rdcache' \in Seq(RdBuffers) /\ rdqueue' = rdqueue
         /\ Len(rdfree') + Len(rdcache') = Len(rdfree) + Len(rdcache)
         /\ RdOn(rdfree) \cup RdOn(rdcache) \subseteq RdOn(rdfree') \cup RdOn(rdcache')
         /\ DOMAIN rdbuf' = RdBuffers
         /\ \A b \in RdBuffers : /\ DOMAIN rdbuf'[b] = DOMAIN rdbuf[b]
                                 /\ rdbuf'[b].pid = rdbuf[b].pid /\ rdbuf'[b].op = rdbuf[b].op
BY DEF RdSound, RdTypes, rdlists

\* rdsclose returns the cache to the free list (rdsclose.c).
LEMMA RdShutIs ==
  ASSUME RdSound, RdShut
  PROVE  /\ rdfree' \in Seq(RdBuffers) /\ rdcache' \in Seq(RdBuffers) /\ rdqueue' = rdqueue
         /\ Len(rdfree') + Len(rdcache') = Len(rdfree) + Len(rdcache)
         /\ RdOn(rdfree) \cup RdOn(rdcache) \subseteq RdOn(rdfree') \cup RdOn(rdcache')
         /\ DOMAIN rdbuf' = RdBuffers
         /\ \A b \in RdBuffers : /\ DOMAIN rdbuf'[b] = DOMAIN rdbuf[b]
                                 /\ rdbuf'[b].pid = rdbuf[b].pid /\ rdbuf'[b].op = rdbuf[b].op
<1> DEFINE r == [i \in 1 .. Len(rdcache) |-> rdcache[Len(rdcache) + 1 - i]]
<1>1. /\ rdfree \in Seq(RdBuffers) /\ rdcache \in Seq(RdBuffers)
      /\ Len(rdfree) \in Nat /\ Len(rdcache) \in Nat
  BY LenProperties DEF RdSound, RdTypes
<1>2. r \in Seq(RdBuffers) /\ Len(r) = Len(rdcache) /\ RdOn(r) = RdOn(rdcache)
  BY <1>1, RdBackIs
<1>3. rdfree' = r \o rdfree /\ rdcache' = <<>> /\ rdqueue' = rdqueue
  BY DEF RdShut
<1>4. /\ \A b \in RdBuffers : rdbuf'[b] = [rdbuf[b] EXCEPT !.valid = FALSE] \/ rdbuf'[b] = rdbuf[b]
      /\ DOMAIN rdbuf' = RdBuffers
  <2> DEFINE In(b) == Has(rdcache, LAMBDA c : c = b)
  <2>1. rdbuf' = [b \in RdBuffers |-> IF In(b) THEN [rdbuf[b] EXCEPT !.valid = FALSE]
                                      ELSE rdbuf[b]]
    BY DEF RdShut
  <2> HIDE DEF In
  <2> QED  BY <2>1
<1>5. \A b \in RdBuffers : DOMAIN rdbuf[b] = {"op", "blk", "ref", "valid", "pid", "data"}
  BY DEF RdSound, RdTypes
<1>6. \A b \in RdBuffers : /\ DOMAIN rdbuf'[b] = DOMAIN rdbuf[b]
                           /\ rdbuf'[b].pid = rdbuf[b].pid /\ rdbuf'[b].op = rdbuf[b].op
  BY <1>4, <1>5
<1> HIDE DEF r
<1>7. /\ r \o rdfree \in Seq(RdBuffers) /\ Len(r \o rdfree) = Len(r) + Len(rdfree)
      /\ RdOn(r \o rdfree) = RdOn(r) \cup RdOn(rdfree)
  BY <1>1, <1>2, RdJoinIs
<1>8. rdcache' \in Seq(RdBuffers) /\ Len(rdcache') = 0
  BY <1>3
<1>9. Len(rdfree') + Len(rdcache') = Len(rdfree) + Len(rdcache)
  BY <1>1, <1>2, <1>3, <1>7, <1>8
<1> QED  BY <1>2, <1>3, <1>4, <1>6, <1>7, <1>8, <1>9

\* rdsclose (rdsclose.c).
LEMMA RdCloseKeeps ==
  ASSUME RdSound, NEW p \in Procs, RdClose(p)
  PROVE  RdSound'
<1>1. /\ RdShut /\ rdproc[p].at = "user" /\ rdavail' = rdavail /\ rdreq' = rdreq
      /\ rdproc' = rdproc /\ rdmail' = rdmail /\ rdxch' = rdxch /\ rdsyncs' = rdsyncs
  BY DEF RdClose, RdCalls, RdRuns, rdcomm, rdghost
<1>2. RdTypes /\ RdServed /\ p \in RdActors
  BY DEF RdSound, RdActors
<1>3. /\ rdproc'[p].at \notin {"alloc", "receive"} /\ rdproc[p].at # "alloc"
      /\ DOMAIN rdproc' = Procs /\ DOMAIN rdproc'[p] = {"at", "op", "blk", "floor"}
      /\ rdmail' \in [Procs -> RdBuffers \cup {0}]
      /\ DOMAIN rdxch' = RdActors /\ DOMAIN rdxch'[p] = {"at", "op", "seq", "tries"}
      /\ rdxch'[p].at # "none" => rdproc'[p].at = "comm"
  BY <1>1, <1>2 DEF RdTypes, RdServed
<1>4. /\ \A q \in Procs \ {p} : rdproc'[q] = rdproc[q] /\ rdmail'[q] = rdmail[q]
      /\ \A a \in RdActors \ {p} : rdxch'[a] = rdxch[a]
  BY <1>1
<1> QED  BY <1>1, <1>3, <1>4, RdShutIs, RdMoves

\* rdsread behind its receive: the entry stays in the cache, or is freed (rdsread.c).
LEMMA RdReceiveKeeps ==
  ASSUME RdSound, NEW p \in Procs, RdReceive(p), ~rdbroken'
  PROVE  RdSound'
<1> DEFINE b == rdmail[p]
           Same(c) == rdbuf[c].blk = rdproc[p].blk
           gone == rdbuf[b].ref = 1 /\ FirstIn(rdcache, Same) # b
<1>1. RdTypes /\ RdServed /\ p \in RdActors
  BY DEF RdSound, RdActors
<1>2. /\ rdproc[p].at = "receive" /\ b # 0
      /\ rdmail' = [rdmail EXCEPT ![p] = 0] /\ rdproc' = [rdproc EXCEPT ![p] = RdIdle]
      /\ rdavail' = rdavail /\ rdreq' = rdreq /\ rdxch' = rdxch /\ rdsyncs' = rdsyncs
  BY DEF RdReceive, RdRuns, RdReturn, rdcomm
<1>3. b \in RdBuffers
  BY <1>1, <1>2 DEF RdTypes
<1>4. /\ rdfree' \in Seq(RdBuffers) /\ rdcache' \in Seq(RdBuffers) /\ rdqueue' = rdqueue
      /\ Len(rdfree') + Len(rdcache') = Len(rdfree) + Len(rdcache)
      /\ RdOn(rdfree) \cup RdOn(rdcache) \subseteq RdOn(rdfree') \cup RdOn(rdcache')
      /\ DOMAIN rdbuf' = RdBuffers
      /\ \A c \in RdBuffers : /\ DOMAIN rdbuf'[c] = DOMAIN rdbuf[c]
                              /\ rdbuf'[c].pid = rdbuf[c].pid /\ rdbuf'[c].op = rdbuf[c].op
  <2>1. CASE rdproc[p].op = "sync"
    <3>1. UNCHANGED rdlists
      BY <2>1 DEF RdReceive
    <3> QED  BY <3>1, RdListsStay
  <2>2. CASE rdproc[p].op # "sync"
    <3>1. /\ b \in RdOn(rdcache)
          /\ rdbuf' = [rdbuf EXCEPT ![b].ref = rdbuf[b].ref - 1]
          /\ rdcache' = IF gone THEN Drop(rdcache, b) ELSE rdcache
          /\ rdfree' = IF gone THEN <<b>> \o rdfree ELSE rdfree
          /\ rdqueue' = rdqueue
      BY <2>2 DEF RdReceive, RdOn
    <3> HIDE DEF gone, b
    <3>2. /\ rdfree \in Seq(RdBuffers) /\ rdcache \in Seq(RdBuffers)
          /\ Len(rdfree) \in Nat /\ Len(rdcache) \in Nat
      BY <1>1, LenProperties DEF RdTypes
    <3>3. /\ DOMAIN rdbuf' = RdBuffers
          /\ \A c \in RdBuffers : /\ DOMAIN rdbuf'[c] = DOMAIN rdbuf[c]
                                  /\ rdbuf'[c].pid = rdbuf[c].pid /\ rdbuf'[c].op = rdbuf[c].op
      BY <1>1, <3>1 DEF RdTypes
    <3>4. CASE gone
      <4>1. /\ Drop(rdcache, b) \in Seq(RdBuffers)
            /\ Len(Drop(rdcache, b)) = Len(rdcache) - 1
            /\ RdOn(rdcache) \subseteq RdOn(Drop(rdcache, b)) \cup {b}
        BY <3>1, <3>2, RdDropIs
      <4>2. /\ <<b>> \o rdfree \in Seq(RdBuffers) /\ Len(<<b>> \o rdfree) = Len(rdfree) + 1
            /\ RdOn(<<b>> \o rdfree) = RdOn(rdfree) \cup {b}
        BY <1>3, <3>2, RdFrontIs
      <4>3. rdcache' = Drop(rdcache, b) /\ rdfree' = <<b>> \o rdfree
        BY <3>1, <3>4
      <4>4. Len(rdfree') + Len(rdcache') = Len(rdfree) + Len(rdcache)
        <5>1. Len(rdfree') = Len(rdfree) + 1 /\ Len(rdcache') = Len(rdcache) - 1
          BY <4>1, <4>2, <4>3
        <5> QED  BY <3>2, <5>1
      <4>5. RdOn(rdfree) \cup RdOn(rdcache) \subseteq RdOn(rdfree') \cup RdOn(rdcache')
        BY <4>1, <4>2, <4>3
      <4> QED  BY <3>1, <3>3, <4>1, <4>2, <4>3, <4>4, <4>5
    <3>5. CASE ~gone
      <4>1. rdcache' = rdcache /\ rdfree' = rdfree
        BY <3>1, <3>5
      <4> QED  BY <3>1, <3>2, <3>3, <4>1
    <3> QED  BY <3>4, <3>5
  <2> QED  BY <2>1, <2>2
<1>5. /\ rdproc'[p].at \notin {"alloc", "receive"} /\ rdproc[p].at # "alloc"
      /\ DOMAIN rdproc' = Procs /\ DOMAIN rdproc'[p] = {"at", "op", "blk", "floor"}
      /\ \A q \in Procs \ {p} : rdproc'[q] = rdproc[q]
  <2>1. RdIdle.at = "user" /\ DOMAIN RdIdle = {"at", "op", "blk", "floor"}
    BY DEF RdIdle
  <2> QED  BY <1>1, <1>2, <2>1 DEF RdTypes
<1>6. /\ rdmail' \in [Procs -> RdBuffers \cup {0}]
      /\ \A q \in Procs \ {p} : rdmail'[q] = rdmail[q]
      /\ DOMAIN rdxch' = RdActors /\ DOMAIN rdxch'[p] = {"at", "op", "seq", "tries"}
      /\ \A a \in RdActors \ {p} : rdxch'[a] = rdxch[a]
      /\ rdxch'[p].at = "none"
  BY <1>1, <1>2 DEF RdTypes, RdServed
<1> HIDE DEF b
<1> QED  BY <1>2, <1>4, <1>5, <1>6, RdMoves

\* rdscomm starts for a caller: rdsopen, or the deletion of a disk (rdsopen.c,
\* rdscontrol.c).
LEMMA RdCommKeeps ==
  ASSUME RdSound, NEW p \in Procs, NEW op, rdproc[p].at = "user", RdComm(p, op),
         rdproc' = [rdproc EXCEPT ![p] = [RdIdle EXCEPT !.at = "comm", !.op = op]],
         UNCHANGED <<rdlists, rdavail, rdreq, rdmail, rdsyncs>>
  PROVE  RdSound'
<1>1. RdTypes /\ p \in RdActors
  BY DEF RdSound, RdActors
<1>2. /\ DOMAIN rdxch' = RdActors /\ DOMAIN rdxch'[p] = {"at", "op", "seq", "tries"}
      /\ \A a \in RdActors \ {p} : rdxch'[a] = rdxch[a]
  BY <1>1 DEF RdTypes, RdComm
<1>3. /\ rdproc'[p].at = "comm"
      /\ DOMAIN rdproc' = Procs /\ DOMAIN rdproc'[p] = {"at", "op", "blk", "floor"}
      /\ \A q \in Procs \ {p} : rdproc'[q] = rdproc[q]
  <2> DEFINE r == [RdIdle EXCEPT !.at = "comm", !.op = op]
  <2>1. r.at = "comm" /\ DOMAIN r = {"at", "op", "blk", "floor"}
    BY DEF RdIdle
  <2> HIDE DEF r
  <2>2. rdproc' = [rdproc EXCEPT ![p] = r]
    BY DEF r
  <2> QED  BY <1>1, <2>1, <2>2 DEF RdTypes
<1>4. rdmail' \in [Procs -> RdBuffers \cup {0}] /\ \A q \in Procs \ {p} : rdmail'[q] = rdmail[q]
  BY <1>1 DEF RdTypes
<1>5. rdproc[p].at # "alloc" /\ rdproc'[p].at \notin {"alloc", "receive"}
  BY <1>3
<1> QED  BY <1>2, <1>3, <1>4, <1>5, RdListsStay, RdMoves

\* rdsopen: the exchange starts, or the disk ID is refused (rdsopen.c).
LEMMA RdOpenKeeps ==
  ASSUME RdSound, NEW p \in Procs, NEW good \in BOOLEAN, RdOpen(p, good)
  PROVE  RdSound'
<1>1. CASE good
  BY <1>1, RdCommKeeps DEF RdOpen, RdRuns, rdghost
<1>2. CASE ~good
  BY <1>2, RdSame DEF RdOpen, rdghost
<1> QED  BY <1>1, <1>2

\* rdscontrol(RDS_CTL_DEL) (rdscontrol.c).
LEMMA RdDeleteKeeps ==
  ASSUME RdSound, NEW p \in Procs, RdDelete(p)
  PROVE  RdSound'
BY RdCommKeeps DEF RdDelete, RdCalls, RdRuns, rdghost

\* An exchange of a caller ends or goes on (rdscomm.c).
LEMMA RdExchangeMoves ==
  ASSUME RdSound, NEW p \in Procs, rdxch[p].at # "none",
         rdfree' \in Seq(RdBuffers), rdcache' \in Seq(RdBuffers), rdqueue' = rdqueue,
         Len(rdfree') + Len(rdcache') = Len(rdfree) + Len(rdcache),
         RdOn(rdfree) \cup RdOn(rdcache) \subseteq RdOn(rdfree') \cup RdOn(rdcache'),
         DOMAIN rdbuf' = RdBuffers,
         \A b \in RdBuffers : /\ DOMAIN rdbuf'[b] = DOMAIN rdbuf[b]
                              /\ rdbuf'[b].pid = rdbuf[b].pid /\ rdbuf'[b].op = rdbuf[b].op,
         UNCHANGED <<rdavail, rdreq, rdsyncs, rdmail>>,
         DOMAIN rdxch' = RdActors, DOMAIN rdxch'[p] = {"at", "op", "seq", "tries"},
         \A a \in RdActors \ {p} : rdxch'[a] = rdxch[a],
         \/ rdproc' = rdproc
         \/ rdproc' = [rdproc EXCEPT ![p] = RdIdle] /\ rdxch'[p].at = "none"
  PROVE  RdSound'
<1>1. RdTypes /\ RdServed
  BY DEF RdSound
<1>2. rdproc[p].at = "comm"
  BY <1>1 DEF RdServed
<1>3. /\ DOMAIN rdproc' = Procs /\ DOMAIN rdproc'[p] = {"at", "op", "blk", "floor"}
      /\ \A q \in Procs \ {p} : rdproc'[q] = rdproc[q]
      /\ rdproc'[p].at \in {"comm", "user"}
      /\ rdxch'[p].at # "none" => rdproc'[p].at = "comm"
  <2>1. RdIdle.at = "user" /\ DOMAIN RdIdle = {"at", "op", "blk", "floor"}
    BY DEF RdIdle
  <2> QED  BY <1>1, <1>2, <2>1 DEF RdTypes
<1>4. rdmail' \in [Procs -> RdBuffers \cup {0}] /\ \A q \in Procs \ {p} : rdmail'[q] = rdmail[q]
  BY <1>1 DEF RdTypes
<1>5. rdproc[p].at # "alloc" /\ rdproc'[p].at \notin {"alloc", "receive"}
  BY <1>2, <1>3
<1> QED  BY <1>3, <1>4, <1>5, RdMoves

\* An exchange of rdsprocess ends or goes on, but that of a read, which takes the
\* request with it (rdscomm.c, rdsprocess.c).
LEMMA RdComprocMoves ==
  ASSUME RdSound, UNCHANGED <<rdlists, rdavail, rdreq, rdproc, rdmail, rdsyncs>>,
         DOMAIN rdxch' = RdActors, DOMAIN rdxch'[RdComproc] = {"at", "op", "seq", "tries"},
         \A a \in RdActors \ {RdComproc} : rdxch'[a] = rdxch[a],
         RdReading' = RdReading
  PROVE  RdSound'
<1>1. \A p \in Procs : rdxch'[p] = rdxch[p]
  BY RdsAssumption DEF RdActors
<1>2. RdTypes'
  <2>1. \A a \in RdActors : DOMAIN rdxch'[a] = {"at", "op", "seq", "tries"}
    BY DEF RdSound, RdTypes
  <2> QED  BY <2>1 DEF RdSound, RdTypes, rdlists
<1>3. RdListed' /\ RdSignalled'
  BY DEF RdSound, RdListed, RdSignalled, RdIsReading, RdOn, rdlists
<1>4. RdCounted'
  BY DEF RdSound, RdCounted, RdAllocs, SemaSound, Waiters, rdlists
<1>5. RdServed'
  BY <1>1 DEF RdSound, RdServed, RdOn, rdlists
<1> QED  BY <1>2, <1>3, <1>4, <1>5 DEF RdSound

\* rdsprocess takes the head of the queue to the free list or the cache, signals the
\* semaphore, and answers who waits for the request (rdsprocess.c).
LEMMA RdLeavesQueue ==
  ASSUME RdSound, rdqueue # <<>>, NEW b, b = Head(rdqueue),
         rdqueue' = Tail(rdqueue), rdavail' = Up(rdavail),
         rdfree' \in Seq(RdBuffers), rdcache' \in Seq(RdBuffers),
         Len(rdfree') + Len(rdcache') = Len(rdfree) + Len(rdcache) + 1,
         RdOn(rdfree) \cup RdOn(rdcache) \cup {b} \subseteq RdOn(rdfree') \cup RdOn(rdcache'),
         DOMAIN rdbuf' = RdBuffers,
         \A c \in RdBuffers : /\ DOMAIN rdbuf'[c] = DOMAIN rdbuf[c]
                              /\ rdbuf'[c].pid = rdbuf[c].pid /\ rdbuf'[c].op = rdbuf[c].op,
         rdproc' = rdproc, rdmail' \in [Procs -> RdBuffers \cup {0}],
         \A p \in Procs : rdmail[p] # 0 => rdmail'[p] # 0,
         rdbuf[b].op \in {"read", "sync"} =>
           \A p \in Procs : rdbuf[b].pid = p => rdmail'[p] # 0,
         DOMAIN rdxch' = RdActors, DOMAIN rdxch'[RdComproc] = {"at", "op", "seq", "tries"},
         \A a \in RdActors \ {RdComproc} : rdxch'[a] = rdxch[a],
         rdreq' \in Nat, rdsyncs' \in Nat, ~RdReading',
         Len(rdqueue) <= rdreq' + rdsyncs' + 1
  PROVE  RdSound'
<1>1. /\ RdTypes /\ RdListed /\ RdSignalled /\ RdServed
      /\ SemaSound(rdavail) /\ Waiters(rdavail) \subseteq RdAllocs
      /\ rdavail.n + Cardinality(RdAllocs) = Len(rdfree) + Len(rdcache)
  BY DEF RdSound, RdCounted
<1>2. /\ rdfree \in Seq(RdBuffers) /\ rdqueue \in Seq(RdBuffers) /\ rdcache \in Seq(RdBuffers)
      /\ Len(rdfree) \in Nat /\ Len(rdqueue) \in Nat /\ Len(rdcache) \in Nat
      /\ Len(rdfree') \in Nat /\ Len(rdcache') \in Nat
  BY <1>1, LenProperties DEF RdTypes
<1>3. /\ rdqueue' \in Seq(RdBuffers) /\ Len(rdqueue') = Len(rdqueue) - 1
      /\ RdOn(rdqueue) = RdOn(rdqueue') \cup {b} /\ RdOn(rdqueue) \subseteq RdBuffers
  BY <1>2, RdTailIs, RdListIs
<1>4. \A p \in Procs : rdxch'[p] = rdxch[p]
  BY RdsAssumption DEF RdActors
<1>5. RdTypes'
  <2>1. \A a \in RdActors : DOMAIN rdxch'[a] = {"at", "op", "seq", "tries"}
    BY <1>1 DEF RdTypes
  <2> QED  BY <1>1, <1>3, <2>1 DEF RdTypes
<1>6. RdListed'
  <2>1. /\ Len(rdfree) + Len(rdqueue) + Len(rdcache) = RD_BUFFS
        /\ RdBuffers \subseteq RdOn(rdfree) \cup RdOn(rdqueue) \cup RdOn(rdcache)
    BY <1>1 DEF RdListed
  <2>2. Len(rdfree') + Len(rdqueue') + Len(rdcache') = RD_BUFFS
    <3> DEFINE Sums(f, q, c, f1, c1) == f + q + c = f1 + (q - 1) + c1
    <3>1. \A f, q, c, f1, c1 \in Nat : f1 + c1 = f + c + 1 => Sums(f, q, c, f1, c1)
      OBVIOUS
    <3>2. Sums(Len(rdfree), Len(rdqueue), Len(rdcache), Len(rdfree'), Len(rdcache'))
      <4> HIDE DEF Sums
      <4> QED  BY <1>2, <3>1
    <3> QED  BY <1>3, <2>1, <3>2
  <2>3. RdBuffers \subseteq RdOn(rdfree') \cup RdOn(rdqueue') \cup RdOn(rdcache')
    BY <1>3, <2>1
  <2> QED  BY <2>2, <2>3 DEF RdListed, RdOn
<1>7. RdCounted'
  <2>1. RdAllocs' = RdAllocs /\ RdAllocs \subseteq Procs
    BY DEF RdAllocs
  <2>2. rdavail.n \in Int /\ Cardinality(RdAllocs) \in Nat
    BY <1>1, <2>1, SemasAssumption, FS_Subset, FS_CardinalityType DEF SemaSound
  <2>3. rdavail.n < 0 \/ rdavail.n >= 0
    BY <2>2
  <2>4. /\ SemaSound(Up(rdavail)) /\ Up(rdavail).n = rdavail.n + 1
        /\ Waiters(Up(rdavail)) \subseteq Waiters(rdavail)
    BY <1>1, <2>3, UpIs
  <2>5. rdavail'.n + Cardinality(RdAllocs') = Len(rdfree') + Len(rdcache')
    <3> DEFINE n == rdavail.n
               k == Cardinality(RdAllocs)
               f == Len(rdfree) + Len(rdcache)
    <3>1. n \in Int /\ k \in Nat /\ f \in Nat /\ n + k = f
      BY <1>1, <1>2, <2>2
    <3>2. Cardinality(RdAllocs') = k
      BY <2>1
    <3>3. rdavail'.n = n + 1
      BY <2>4
    <3>4. Len(rdfree') + Len(rdcache') = f + 1
      OBVIOUS
    <3> HIDE DEF n, k, f
    <3>5. (n + 1) + k = f + 1
      BY <3>1
    <3> QED  BY <3>2, <3>3, <3>4, <3>5
  <2>6. Waiters(rdavail') \subseteq RdAllocs'
    BY <1>1, <2>1, <2>4
  <2>7. SemaSound(rdavail')
    BY <2>4
  <2> QED  BY <2>5, <2>6, <2>7 DEF RdCounted, SemaSound, Waiters
<1>8. RdSignalled'
  <2>1. RdIsReading' = 0
    BY DEF RdIsReading, RdReading
  <2>2. Len(rdqueue') <= rdreq' + rdsyncs' + 0
    <3> DEFINE Less(q, s) == q <= s + 1 => q - 1 <= s + 0
    <3>1. \A q, s \in Nat : Less(q, s)
      OBVIOUS
    <3>2. rdreq' + rdsyncs' \in Nat
      <4>1. \A x, y \in Nat : x + y \in Nat
        OBVIOUS
      <4> QED  BY <4>1, Zenon
    <3>3. Less(Len(rdqueue), rdreq' + rdsyncs')
      <4> HIDE DEF Less
      <4> QED  BY <1>2, <3>1, <3>2
    <3> QED  BY <1>3, <3>3
  <2> QED  BY <2>1, <2>2 DEF RdSignalled
<1>9. RdServed'
  <2> SUFFICES ASSUME NEW q \in Procs
               PROVE  /\ rdproc'[q].at = "alloc" => rdproc'[q].op \in {"read", "write", "sync"}
                      /\ rdproc'[q].at = "receive" =>
                           /\ rdproc'[q].op \in {"read", "sync"}
                           /\ \/ rdmail'[q] # 0
                              \/ \E c \in RdOn(rdqueue') : /\ rdbuf'[c].pid = q
                                                           /\ rdbuf'[c].op = rdproc'[q].op
                      /\ rdxch'[q].at # "none" => rdproc'[q].at = "comm"
    BY DEF RdServed
  <2>1. ASSUME rdproc[q].at = "receive", rdmail'[q] = 0
        PROVE  \E c \in RdOn(rdqueue') : rdbuf'[c].pid = q /\ rdbuf'[c].op = rdproc[q].op
    <3>1. rdmail[q] = 0 /\ rdproc[q].op \in {"read", "sync"}
      BY <1>1, <2>1 DEF RdServed
    <3>2. PICK c \in RdOn(rdqueue) : rdbuf[c].pid = q /\ rdbuf[c].op = rdproc[q].op
      BY <1>1, <2>1, <3>1 DEF RdServed
    <3>3. c # b
      BY <2>1, <3>1, <3>2
    <3>4. c \in RdOn(rdqueue') /\ rdbuf'[c].pid = q /\ rdbuf'[c].op = rdproc[q].op
      BY <1>3, <3>2, <3>3
    <3> QED  BY <3>4
  <2>2. rdproc'[q] = rdproc[q] /\ rdxch'[q] = rdxch[q]
    BY <1>4
  <2>3. /\ rdproc[q].at = "alloc" => rdproc[q].op \in {"read", "write", "sync"}
        /\ rdproc[q].at = "receive" => rdproc[q].op \in {"read", "sync"}
        /\ rdxch[q].at # "none" => rdproc[q].at = "comm"
    BY <1>1 DEF RdServed
  <2> QED  BY <2>1, <2>2, <2>3, Zenon
<1> QED  BY <1>5, <1>6, <1>7, <1>8, <1>9 DEF RdSound

\* rdsprocess takes the first request: a read stays at the head of the queue until it
\* is answered, a write goes to the cache, a sync to the free list (rdsprocess.c).
LEMMA RdFetchKeeps ==
  ASSUME RdSound, RdFetch
  PROVE  RdSound'
<1> DEFINE b == Head(rdqueue)
<1>1. /\ RdTypes /\ RdListed /\ RdSignalled /\ RdServed /\ RdCounted
      /\ rdfree \in Seq(RdBuffers) /\ rdqueue \in Seq(RdBuffers) /\ rdcache \in Seq(RdBuffers)
      /\ Len(rdfree) \in Nat /\ Len(rdqueue) \in Nat /\ Len(rdcache) \in Nat
  BY LenProperties DEF RdSound, RdTypes
<1>2. /\ rdxch[RdComproc].at = "none" /\ rdreq > 0 /\ rdqueue # <<>> /\ rdreq' = rdreq - 1
      /\ rdproc' = rdproc /\ rdsyncs' = rdsyncs
  BY DEF RdFetch, rdghost
<1>3. b \in RdOn(rdqueue) /\ b \in RdBuffers /\ b # 0
  BY <1>1, <1>2, RdTailIs, RdListIs DEF RdBuffers
<1>4. /\ rdreq \in Nat /\ rdsyncs \in Nat /\ rdreq' \in Nat /\ rdsyncs' \in Nat
      /\ ~RdReading /\ Len(rdqueue) <= rdreq' + rdsyncs' + 1
  <2>1. ~RdReading
    BY <1>2 DEF RdReading
  <2>2. Len(rdqueue) <= rdreq + rdsyncs + 0
    BY <1>1, <2>1 DEF RdSignalled, RdIsReading
  <2>3. rdreq \in Nat /\ rdsyncs \in Nat
    BY <1>1 DEF RdTypes
  <2>4. rdreq' \in Nat /\ rdsyncs' = rdsyncs
    BY <1>2, <2>3
  <2>5. rdreq + rdsyncs + 0 = rdreq' + rdsyncs' + 1
    BY <1>2, <2>3
  <2> QED  BY <2>1, <2>2, <2>3, <2>4, <2>5
<1>5. RdComproc \in RdActors /\ RdComproc \notin Procs
  BY RdsAssumption DEF RdActors
<1>6. /\ DOMAIN rdxch' = RdActors /\ DOMAIN rdxch'[RdComproc] = {"at", "op", "seq", "tries"}
      /\ \A a \in RdActors \ {RdComproc} : rdxch'[a] = rdxch[a]
      /\ rdbuf[b].op = "sync" => rdxch'[RdComproc].at = "none"
      /\ rdbuf[b].op # "sync" => rdxch'[RdComproc].op = rdbuf[b].op
  <2>1. CASE rdbuf[b].op = "sync"
    <3>1. rdxch' = rdxch
      BY <2>1 DEF RdFetch
    <3> QED  BY <1>1, <1>2, <1>5, <2>1, <3>1 DEF RdTypes
  <2>2. CASE rdbuf[b].op # "sync"
    <3>1. RdComm(RdComproc, rdbuf[b].op)
      BY <2>2 DEF RdFetch
    <3> QED  BY <1>1, <1>5, <2>2, <3>1 DEF RdTypes, RdComm
  <2> QED  BY <2>1, <2>2
<1>7. CASE rdbuf[b].op = "read"
  <2>1. UNCHANGED <<rdlists, rdavail, rdmail>>
    BY <1>7 DEF RdFetch
  <2>2. \A p \in Procs : rdxch'[p] = rdxch[p]
    BY <1>5, <1>6 DEF RdActors
  <2>3. RdTypes'
    <3>1. \A a \in RdActors : DOMAIN rdxch'[a] = {"at", "op", "seq", "tries"}
      BY <1>1, <1>6 DEF RdTypes
    <3> QED  BY <1>1, <1>2, <1>4, <1>6, <2>1, <3>1 DEF RdTypes, rdlists
  <2>4. RdListed' /\ RdCounted'
    BY <1>1, <1>2, <2>1 DEF RdListed, RdCounted, RdOn, RdAllocs, SemaSound, Waiters, rdlists
  <2>5. RdServed'
    BY <1>1, <1>2, <2>1, <2>2 DEF RdServed, RdOn, rdlists
  <2>6. RdSignalled'
    <3>1. RdReading'
      <4>1. RdComm(RdComproc, rdbuf[b].op)
        BY <1>7 DEF RdFetch
      <4>2. rdxch'[RdComproc].at = "send" /\ rdxch'[RdComproc].op = "read"
        BY <1>1, <1>5, <1>7, <4>1 DEF RdTypes, RdComm
      <4> QED  BY <4>2 DEF RdReading
    <3>2. RdIsReading' = 1 /\ rdqueue' = rdqueue
      BY <2>1, <3>1 DEF RdIsReading, RdReading, rdlists
    <3> QED  BY <1>2, <1>4, <3>2 DEF RdSignalled
  <2> QED  BY <2>3, <2>4, <2>5, <2>6 DEF RdSound
<1>8. CASE rdbuf[b].op # "read"
  <2>1. rdqueue' = Tail(rdqueue) /\ rdavail' = Up(rdavail)
    BY <1>8 DEF RdFetch
  <2>2. ~RdReading'
    BY <1>6, <1>8 DEF RdReading
  <2>3. CASE rdbuf[b].op = "sync"
    <3>1. /\ rdfree' = <<b>> \o rdfree /\ rdmail' = [rdmail EXCEPT ![rdbuf[b].pid] = b]
          /\ rdcache' = rdcache /\ rdbuf' = rdbuf
      BY <2>3 DEF RdFetch
    <3>2. /\ <<b>> \o rdfree \in Seq(RdBuffers) /\ Len(<<b>> \o rdfree) = Len(rdfree) + 1
          /\ RdOn(<<b>> \o rdfree) = RdOn(rdfree) \cup {b}
      BY <1>1, <1>3, RdFrontIs
    <3> HIDE DEF b
    <3>3. /\ rdmail' \in [Procs -> RdBuffers \cup {0}]
          /\ \A p \in Procs : rdmail[p] # 0 => rdmail'[p] # 0
          /\ \A p \in Procs : rdbuf[b].pid = p => rdmail'[p] # 0
      BY <1>1, <1>3, <3>1 DEF RdTypes
    <3>4. /\ rdfree' \in Seq(RdBuffers) /\ rdcache' \in Seq(RdBuffers)
          /\ RdOn(rdfree) \cup RdOn(rdcache) \cup {b} \subseteq RdOn(rdfree') \cup RdOn(rdcache')
      BY <1>1, <3>1, <3>2
    <3>5. Len(rdfree') + Len(rdcache') = Len(rdfree) + Len(rdcache) + 1
      <4>1. Len(rdfree') = Len(rdfree) + 1 /\ Len(rdcache') = Len(rdcache)
        BY <3>1, <3>2
      <4> QED  BY <1>1, <4>1
    <3>6. /\ DOMAIN rdbuf' = RdBuffers
          /\ \A c \in RdBuffers : /\ DOMAIN rdbuf'[c] = DOMAIN rdbuf[c]
                                  /\ rdbuf'[c].pid = rdbuf[c].pid /\ rdbuf'[c].op = rdbuf[c].op
      BY <1>1, <3>1 DEF RdTypes
    <3>7. b = Head(rdqueue)
      BY DEF b
    <3> QED  BY <1>2, <1>4, <1>6, <2>1, <2>2, <3>3, <3>4, <3>5, <3>6, <3>7, RdLeavesQueue
  <2>4. CASE rdbuf[b].op # "sync"
    <3>1. /\ rdcache' = <<b>> \o rdcache /\ rdbuf' = [rdbuf EXCEPT ![b].ref = 0]
          /\ rdfree' = rdfree /\ rdmail' = rdmail
      BY <1>8, <2>4 DEF RdFetch
    <3>2. /\ <<b>> \o rdcache \in Seq(RdBuffers) /\ Len(<<b>> \o rdcache) = Len(rdcache) + 1
          /\ RdOn(<<b>> \o rdcache) = RdOn(rdcache) \cup {b}
      BY <1>1, <1>3, RdFrontIs
    <3> HIDE DEF b
    <3>3. /\ rdmail' \in [Procs -> RdBuffers \cup {0}]
          /\ \A p \in Procs : rdmail[p] # 0 => rdmail'[p] # 0
      BY <1>1, <3>1 DEF RdTypes
    <3>4. /\ rdfree' \in Seq(RdBuffers) /\ rdcache' \in Seq(RdBuffers)
          /\ RdOn(rdfree) \cup RdOn(rdcache) \cup {b} \subseteq RdOn(rdfree') \cup RdOn(rdcache')
      BY <1>1, <3>1, <3>2
    <3>5. Len(rdfree') + Len(rdcache') = Len(rdfree) + Len(rdcache) + 1
      <4>1. Len(rdfree') = Len(rdfree) /\ Len(rdcache') = Len(rdcache) + 1
        BY <3>1, <3>2
      <4> QED  BY <1>1, <4>1
    <3>6. /\ DOMAIN rdbuf' = RdBuffers
          /\ \A c \in RdBuffers : /\ DOMAIN rdbuf'[c] = DOMAIN rdbuf[c]
                                  /\ rdbuf'[c].pid = rdbuf[c].pid /\ rdbuf'[c].op = rdbuf[c].op
      BY <1>1, <3>1 DEF RdTypes
    <3>7. b = Head(rdqueue) /\ rdbuf[b].op \notin {"read", "sync"}
      BY <1>8, <2>4 DEF b
    <3> QED  BY <1>2, <1>4, <1>6, <2>1, <2>2, <3>3, <3>4, <3>5, <3>6, <3>7, RdLeavesQueue
  <2> QED  BY <2>3, <2>4
<1> QED  BY <1>7, <1>8

\* The rest of rdsprocess after a read: the entry goes to the cache, and who has asked
\* for the block is told (rdsprocess.c).
LEMMA RdHaveReadKeeps ==
  ASSUME RdSound, NEW reply, RdReading, RdHaveRead(reply),
         rdxch' = [rdxch EXCEPT ![RdComproc] = NoExchange],
         rdreq' = rdreq, rdsyncs' = rdsyncs
  PROVE  RdSound'
<1> DEFINE b == Head(rdqueue)
<1>1. /\ RdTypes /\ RdListed /\ RdSignalled
      /\ rdfree \in Seq(RdBuffers) /\ rdqueue \in Seq(RdBuffers) /\ rdcache \in Seq(RdBuffers)
      /\ Len(rdfree) \in Nat /\ Len(rdqueue) \in Nat /\ Len(rdcache) \in Nat
  BY LenProperties DEF RdSound, RdTypes
<1>2. /\ rdbuf' = [rdbuf EXCEPT ![b].ref = 1, ![b].data = reply.data]
      /\ rdqueue' = Tail(rdqueue) /\ rdcache' = <<b>> \o rdcache
      /\ rdavail' = Up(rdavail) /\ rdmail' = [rdmail EXCEPT ![rdbuf[b].pid] = b]
      /\ rdfree' = rdfree /\ rdproc' = rdproc
  BY DEF RdHaveRead
<1>3. rdqueue # <<>>
  BY <1>1 DEF RdSignalled
<1>4. b \in RdOn(rdqueue) /\ b \in RdBuffers /\ b # 0
  BY <1>1, <1>3, RdTailIs, RdListIs DEF RdBuffers
<1>5. b = Head(rdqueue)
  OBVIOUS
<1> HIDE DEF b
<1>6. /\ <<b>> \o rdcache \in Seq(RdBuffers) /\ Len(<<b>> \o rdcache) = Len(rdcache) + 1
      /\ RdOn(<<b>> \o rdcache) = RdOn(rdcache) \cup {b}
  BY <1>1, <1>4, RdFrontIs
<1>7. /\ rdmail' \in [Procs -> RdBuffers \cup {0}]
      /\ \A p \in Procs : rdmail[p] # 0 => rdmail'[p] # 0
      /\ \A p \in Procs : rdbuf[b].pid = p => rdmail'[p] # 0
  BY <1>1, <1>2, <1>4 DEF RdTypes
<1>8. /\ rdfree' \in Seq(RdBuffers) /\ rdcache' \in Seq(RdBuffers)
      /\ RdOn(rdfree) \cup RdOn(rdcache) \cup {b} \subseteq RdOn(rdfree') \cup RdOn(rdcache')
  BY <1>1, <1>2, <1>6
<1>9. Len(rdfree') + Len(rdcache') = Len(rdfree) + Len(rdcache) + 1
  <2>1. Len(rdfree') = Len(rdfree) /\ Len(rdcache') = Len(rdcache) + 1
    BY <1>2, <1>6
  <2> QED  BY <1>1, <2>1
<1>10. /\ DOMAIN rdbuf' = RdBuffers
       /\ \A c \in RdBuffers : /\ DOMAIN rdbuf'[c] = DOMAIN rdbuf[c]
                               /\ rdbuf'[c].pid = rdbuf[c].pid /\ rdbuf'[c].op = rdbuf[c].op
  <2> DEFINE r == [rdbuf[b] EXCEPT !.ref = 1, !.data = reply.data]
  <2>1. /\ DOMAIN rdbuf = RdBuffers
        /\ \A c \in RdBuffers : DOMAIN rdbuf[c] = {"op", "blk", "ref", "valid", "pid", "data"}
    BY <1>1 DEF RdTypes
  <2>2. /\ DOMAIN r = {"op", "blk", "ref", "valid", "pid", "data"}
        /\ r.pid = rdbuf[b].pid /\ r.op = rdbuf[b].op
    BY <1>4, <2>1
  <2>3. rdbuf' = [rdbuf EXCEPT ![b] = r]
    BY <1>2, <1>4, <2>1
  <2> HIDE DEF r
  <2> QED  BY <1>4, <2>1, <2>2, <2>3
<1>11. /\ DOMAIN rdxch' = RdActors /\ DOMAIN rdxch'[RdComproc] = {"at", "op", "seq", "tries"}
       /\ \A a \in RdActors \ {RdComproc} : rdxch'[a] = rdxch[a]
       /\ ~RdReading'
  <2>1. NoExchange.at = "none" /\ DOMAIN NoExchange = {"at", "op", "seq", "tries"}
    BY DEF NoExchange
  <2>2. RdComproc \in RdActors
    BY DEF RdActors
  <2>3. DOMAIN rdxch = RdActors
    BY <1>1 DEF RdTypes
  <2> QED  BY <2>1, <2>2, <2>3 DEF RdReading
<1>12. rdreq' \in Nat /\ rdsyncs' \in Nat /\ Len(rdqueue) <= rdreq' + rdsyncs' + 1
  BY <1>1 DEF RdTypes, RdSignalled, RdIsReading
<1> QED  BY <1>2, <1>3, <1>5, <1>7, <1>8, <1>9, <1>10, <1>11, <1>12, RdLeavesQueue

\* What the callers of rdscomm make of its result (rdsprocess.c, rdsopen.c,
\* rdscontrol.c).
LEMMA RdOutcomeKeeps ==
  ASSUME RdSound, NEW a \in RdActors, rdxch[a].at # "none", NEW ok, NEW reply,
         RdOutcome(a, ok, reply), ~rdbroken', rdreq' = rdreq, rdsyncs' = rdsyncs
  PROVE  RdSound'
<1>1. rdxch' = [rdxch EXCEPT ![a] = NoExchange]
  BY DEF RdOutcome
<1>2. DOMAIN rdxch = RdActors /\ RdSignalled
  BY DEF RdSound, RdTypes
<1>3. /\ DOMAIN rdxch' = RdActors /\ DOMAIN rdxch'[a] = {"at", "op", "seq", "tries"}
      /\ rdxch'[a].at = "none" /\ \A c \in RdActors \ {a} : rdxch'[c] = rdxch[c]
  <2>1. NoExchange.at = "none" /\ DOMAIN NoExchange = {"at", "op", "seq", "tries"}
    BY DEF NoExchange
  <2> QED  BY <1>1, <1>2, <2>1
<1>4. CASE a = RdComproc /\ rdxch[a].op = "read"
  <2>1. RdReading
    BY <1>4 DEF RdReading
  <2>2. RdHaveRead(reply)
    BY <1>4 DEF RdOutcome
  <2> QED  BY <1>1, <1>4, <2>1, <2>2, RdHaveReadKeeps
<1>5. CASE a = RdComproc /\ rdxch[a].op # "read"
  <2>1. UNCHANGED <<rdlists, rdavail, rdproc, rdmail>>
    BY <1>5 DEF RdOutcome
  <2>2. ~RdReading /\ ~RdReading'
    BY <1>3, <1>5 DEF RdReading
  <2>3. RdReading' = RdReading
    BY <2>2 DEF RdReading
  <2> QED  BY <1>3, <1>5, <2>1, <2>3, RdComprocMoves
<1>6. CASE a # RdComproc
  <2>1. a \in Procs
    BY <1>6 DEF RdActors
  <2>2. /\ rdproc' = [rdproc EXCEPT ![a] = RdIdle] /\ UNCHANGED <<rdavail, rdmail>>
        /\ UNCHANGED rdlists \/ RdShut
    BY <1>6 DEF RdOutcome, RdReturn
  <2>3. /\ rdfree' \in Seq(RdBuffers) /\ rdcache' \in Seq(RdBuffers) /\ rdqueue' = rdqueue
        /\ Len(rdfree') + Len(rdcache') = Len(rdfree) + Len(rdcache)
        /\ RdOn(rdfree) \cup RdOn(rdcache) \subseteq RdOn(rdfree') \cup RdOn(rdcache')
        /\ DOMAIN rdbuf' = RdBuffers
        /\ \A b \in RdBuffers : /\ DOMAIN rdbuf'[b] = DOMAIN rdbuf[b]
                                /\ rdbuf'[b].pid = rdbuf[b].pid /\ rdbuf'[b].op = rdbuf[b].op
    <3>1. CASE UNCHANGED rdlists
      BY <3>1, RdListsStay
    <3>2. CASE RdShut
      BY <3>2, RdShutIs
    <3> QED  BY <2>2, <3>1, <3>2
  <2> QED  BY <1>3, <2>1, <2>2, <2>3, RdExchangeMoves
<1> QED  BY <1>4, <1>5, <1>6

\* An exchange goes from sending to waiting or back (rdscomm.c).
LEMMA RdTurns ==
  ASSUME RdSound, NEW a \in RdActors, rdxch[a].at # "none",
         DOMAIN rdxch' = RdActors, DOMAIN rdxch'[a] = {"at", "op", "seq", "tries"},
         \A c \in RdActors \ {a} : rdxch'[c] = rdxch[c],
         rdxch'[a].at # "none", rdxch'[a].op = rdxch[a].op,
         UNCHANGED <<rdlists, rdavail, rdreq, rdproc, rdmail, rdsyncs>>
  PROVE  RdSound'
<1>1. CASE a = RdComproc
  <2>1. RdReading' = RdReading
    BY <1>1 DEF RdReading
  <2> QED  BY <1>1, <2>1, RdComprocMoves
<1>2. CASE a # RdComproc
  <2>1. a \in Procs
    BY <1>2 DEF RdActors
  <2> QED  BY <2>1, RdListsStay, RdExchangeMoves
<1> QED  BY <1>1, <1>2

\* One round of rdscomm (rdscomm.c).
LEMMA RdTransmitKeeps ==
  ASSUME RdSound, NEW a \in RdActors, RdTransmit(a), ~rdbroken'
  PROVE  RdSound'
<1>1. rdxch[a].at = "send" /\ rdreq' = rdreq /\ rdsyncs' = rdsyncs
  BY DEF RdTransmit, rdghost
<1>2. DOMAIN rdxch = RdActors /\ DOMAIN rdxch[a] = {"at", "op", "seq", "tries"}
  BY DEF RdSound, RdTypes
<1>3. ASSUME NEW reply, RdOutcome(a, FALSE, reply)  PROVE RdSound'
  BY <1>1, <1>3, RdOutcomeKeeps
<1>4. ASSUME rdxch' = [rdxch EXCEPT ![a].at = "recv", ![a].tries = rdxch[a].tries + 1],
             UNCHANGED <<rdlists, rdavail, rdproc, rdmail>>
      PROVE  RdSound'
  <2> DEFINE r == [rdxch[a] EXCEPT !.at = "recv", !.tries = rdxch[a].tries + 1]
  <2>1. /\ DOMAIN r = {"at", "op", "seq", "tries"} /\ r.at = "recv" /\ r.op = rdxch[a].op
    BY <1>2
  <2>2. rdxch' = [rdxch EXCEPT ![a] = r]
    BY <1>2, <1>4
  <2> HIDE DEF r
  <2>3. /\ DOMAIN rdxch' = RdActors /\ DOMAIN rdxch'[a] = {"at", "op", "seq", "tries"}
        /\ \A c \in RdActors \ {a} : rdxch'[c] = rdxch[c]
        /\ rdxch'[a].at = "recv" /\ rdxch'[a].op = rdxch[a].op
    BY <1>2, <2>1, <2>2
  <2> QED  BY <1>1, <1>4, <2>3, RdTurns
<1>5. \/ \E reply : RdOutcome(a, FALSE, reply)
      \/ /\ rdxch' = [rdxch EXCEPT ![a].at = "recv", ![a].tries = rdxch[a].tries + 1]
         /\ UNCHANGED <<rdlists, rdavail, rdproc, rdmail>>
  BY DEF RdTransmit
<1> QED  BY <1>3, <1>4, <1>5

\* A reply is taken, or another one is waited for (rdscomm.c).
LEMMA RdReplyKeeps ==
  ASSUME RdSound, NEW a \in RdActors, RdReply(a), ~rdbroken'
  PROVE  RdSound'
<1>1. /\ rdxch[a].at = "recv" /\ rdreq' = rdreq /\ rdsyncs' = rdsyncs
      /\ \/ \E ok, m : RdOutcome(a, ok, m)
         \/ /\ rdxch' = [rdxch EXCEPT ![a].at = "send"]
            /\ UNCHANGED <<rdlists, rdavail, rdproc, rdmail>>
  BY DEF RdReply, rdghost
<1>2. DOMAIN rdxch = RdActors /\ DOMAIN rdxch[a] = {"at", "op", "seq", "tries"}
  BY DEF RdSound, RdTypes
<1>3. CASE \E ok, m : RdOutcome(a, ok, m)
  BY <1>1, <1>3, RdOutcomeKeeps
<1>4. CASE /\ rdxch' = [rdxch EXCEPT ![a].at = "send"]
           /\ UNCHANGED <<rdlists, rdavail, rdproc, rdmail>>
  BY <1>1, <1>2, <1>4, RdTurns
<1> QED  BY <1>1, <1>3, <1>4

\* No reply in time: the message is sent again (rdscomm.c).
LEMMA RdTimeoutKeeps ==
  ASSUME RdSound, NEW a \in RdActors, RdTimeout(a)
  PROVE  RdSound'
<1>1. /\ rdxch[a].at = "recv" /\ rdxch' = [rdxch EXCEPT ![a].at = "send"]
      /\ UNCHANGED <<rdlists, rdavail, rdreq, rdproc, rdmail, rdsyncs>>
  BY DEF RdTimeout, rdghost
<1>2. DOMAIN rdxch = RdActors /\ DOMAIN rdxch[a] = {"at", "op", "seq", "tries"}
  BY DEF RdSound, RdTypes
<1> QED  BY <1>1, <1>2, RdTurns

\* No step of the clients or of rdsprocess leaves the invariant; after a panic or a
\* corrupt list nothing goes on but what is on the wire (device/rds).
LEMMA RdInvariance == RdSpec => []RdInv
<1>1. RdInit => RdInv
  BY RdInitially
<1>2. RdInv /\ [RdNext]_rdvars => RdInv'
  <2> SUFFICES ASSUME RdInv, [RdNext]_rdvars, ~rdbroken'  PROVE RdSound'
    BY DEF RdInv
  <2>1. CASE rdbroken
    <3>1. ~ (UNCHANGED rdvars)
      BY <2>1 DEF rdvars
    <3>2. ~ RdArrive /\ ~ RdFetch
      BY <2>1 DEF RdArrive, RdFetch, RdGoesOn
    <3>3. \A a \in RdActors : ~ RdTransmit(a) /\ ~ RdReply(a) /\ ~ RdTimeout(a)
      BY <2>1 DEF RdTransmit, RdReply, RdTimeout, RdGoesOn
    <3>4. \A p \in Procs : /\ \A blk \in RdBlocks : ~ RdRead(p, blk) /\ ~ RdWrite(p, blk)
                           /\ ~ RdAllocated(p) /\ ~ RdReceive(p) /\ ~ RdSync(p)
                           /\ ~ RdClose(p) /\ ~ RdDelete(p)
                           /\ \A good \in BOOLEAN : ~ RdOpen(p, good)
      BY <2>1 DEF RdRead, RdWrite, RdAllocated, RdReceive, RdSync, RdClose, RdDelete, RdOpen,
                  RdCalls, RdRuns, RdGoesOn
    <3> QED  BY <3>1, <3>2, <3>3, <3>4 DEF RdNext
  <2>2. CASE ~rdbroken
    <3>1. RdSound
      BY <2>2 DEF RdInv
    <3>2. CASE UNCHANGED rdvars
      BY <3>1, <3>2, RdSame DEF rdvars, rdlists, rdcomm, rdghost
    <3>3. CASE RdArrive
      BY <3>1, <3>3, RdSame DEF RdArrive, rdghost
    <3>4. CASE RdFetch
      BY <3>1, <3>4, RdFetchKeeps
    <3>5. ASSUME NEW a \in RdActors, RdTransmit(a) \/ RdReply(a) \/ RdTimeout(a)  PROVE RdSound'
      BY <3>1, <3>5, RdTransmitKeeps, RdReplyKeeps, RdTimeoutKeeps
    <3>6. ASSUME NEW p \in Procs,
                 \/ \E blk \in RdBlocks : RdRead(p, blk) \/ RdWrite(p, blk)
                 \/ RdAllocated(p) \/ RdReceive(p) \/ RdSync(p) \/ RdClose(p) \/ RdDelete(p)
                 \/ \E good \in BOOLEAN : RdOpen(p, good)
          PROVE  RdSound'
      BY <3>1, <3>6, RdReadKeeps, RdWriteKeeps, RdAllocatedKeeps, RdReceiveKeeps, RdSyncKeeps,
         RdCloseKeeps, RdDeleteKeeps, RdOpenKeeps
    <3> QED  BY <3>2, <3>3, <3>4, <3>5, <3>6 DEF RdNext
  <2> QED  BY <2>1, <2>2
<1> QED  BY <1>1, <1>2, PTL DEF RdSpec

RdAsks(b) == rdbuf[b].op \in {"read", "sync"}
RdHolds(p, b) == rdproc[p].at = "receive" /\ rdproc[p].op = "read" /\ rdmail[p] = b

(* Every read and every sync in the queue has its process, which waits for *)
(* it with nothing in its mailbox                                          *)
RdAwaited ==
  /\ \A b \in RdOn(rdqueue) : RdAsks(b) =>
       /\ rdbuf[b].pid \in Procs /\ rdproc[rdbuf[b].pid].at = "receive"
       /\ rdproc[rdbuf[b].pid].op = rdbuf[b].op /\ rdmail[rdbuf[b].pid] = 0
  /\ \A b, c \in RdOn(rdqueue) : RdAsks(b) /\ RdAsks(c) /\ rdbuf[b].pid = rdbuf[c].pid => b = c
  /\ RdReading => rdbuf[Head(rdqueue)].op = "read"

(* An entry of the cache is in use as long as the reader it was sent to    *)
(* has not run                                                             *)
RdInUse == \A b \in RdOn(rdcache) : rdbuf[b].ref > 0 => \E p \in Procs : RdHolds(p, b)

RdRefs == \A b \in RdBuffers : rdbuf[b].ref \in Int /\ rdbuf[b].ref <= 1

(* rdsbufalloc panics only when every buffer is asked for or in use *)
RdPanics == rdpanic => rdfree = <<>> /\ \A b \in RdOn(rdcache) : rdbuf[b].ref > 0

RdHeld == RdRefs /\ RdAwaited /\ RdInUse /\ RdPanics
RdGood == ~rdbroken => RdSound /\ RdHeld

\* rdsinit: nobody reads (rdsinit.c).
LEMMA RdHeldInitially == RdInit => RdHeld
<1> SUFFICES ASSUME RdInit  PROVE RdHeld
  OBVIOUS
<1>1. /\ rdqueue = <<>> /\ rdcache = <<>> /\ rdpanic = FALSE
      /\ \A b \in RdBuffers : rdbuf[b].ref = 0
      /\ rdxch[RdComproc].at = "none"
  BY DEF RdInit, NoExchange, RdActors
<1>2. RdOn(rdqueue) = {} /\ RdOn(rdcache) = {} /\ ~RdReading
  BY <1>1 DEF RdOn, RdReading
<1> QED  BY <1>1, <1>2 DEF RdHeld, RdRefs, RdAwaited, RdInUse, RdPanics

\* Requests leave the queue, the entries of the cache that are in use have their
\* readers, and a process that goes on has nothing in the queue.
LEMMA RdHeldMoves ==
  ASSUME RdSound, RdHeld, RdOn(rdqueue') \subseteq RdOn(rdqueue),
         \A b \in RdBuffers : /\ rdbuf'[b].ref \in Int /\ rdbuf'[b].ref <= 1
                              /\ rdbuf'[b].pid = rdbuf[b].pid /\ rdbuf'[b].op = rdbuf[b].op,
         \A b \in RdOn(rdqueue') : RdAsks(b) =>
           /\ rdproc'[rdbuf[b].pid] = rdproc[rdbuf[b].pid]
           /\ rdmail'[rdbuf[b].pid] = rdmail[rdbuf[b].pid],
         \A b \in RdOn(rdcache') : rdbuf'[b].ref > 0 =>
           \/ /\ b \in RdOn(rdcache) /\ rdbuf[b].ref > 0
              /\ \A p \in Procs : RdHolds(p, b) => rdproc'[p] = rdproc[p] /\ rdmail'[p] = rdmail[p]
           \/ \E p \in Procs : /\ rdproc'[p].at = "receive" /\ rdproc'[p].op = "read"
                               /\ rdmail'[p] = b,
         RdReading' => RdReading /\ rdqueue' = rdqueue,
         ~rdpanic'
  PROVE  RdHeld'
<1>1. RdOn(rdqueue) \subseteq RdBuffers
  BY RdListIs DEF RdSound, RdTypes
<1>2. RdRefs' /\ RdPanics'
  BY DEF RdRefs, RdPanics, RdBuffers
<1>3. \A b \in RdOn(rdqueue') : /\ b \in RdOn(rdqueue) /\ RdAsks(b)' = RdAsks(b)
                                /\ rdbuf'[b].pid = rdbuf[b].pid /\ rdbuf'[b].op = rdbuf[b].op
  BY <1>1 DEF RdAsks
<1>4. RdAwaited'
  <2>1. \A b \in RdOn(rdqueue') : RdAsks(b)' =>
          /\ rdbuf'[b].pid \in Procs /\ rdproc'[rdbuf'[b].pid].at = "receive"
          /\ rdproc'[rdbuf'[b].pid].op = rdbuf'[b].op /\ rdmail'[rdbuf'[b].pid] = 0
    BY <1>3 DEF RdHeld, RdAwaited
  <2>2. \A b, c \in RdOn(rdqueue') :
          RdAsks(b)' /\ RdAsks(c)' /\ rdbuf'[b].pid = rdbuf'[c].pid => b = c
    BY <1>3 DEF RdHeld, RdAwaited
  <2>3. RdReading' => rdbuf'[Head(rdqueue')].op = "read"
    <3> SUFFICES ASSUME RdReading'  PROVE rdbuf'[Head(rdqueue')].op = "read"
      OBVIOUS
    <3>1. RdReading /\ rdqueue' = rdqueue /\ rdqueue # <<>>
      BY DEF RdSound, RdSignalled
    <3>2. Head(rdqueue) \in RdOn(rdqueue)
      BY <3>1, RdTailIs DEF RdSound, RdTypes
    <3> QED  BY <1>1, <3>1, <3>2 DEF RdHeld, RdAwaited
  <2> QED  BY <2>1, <2>2, <2>3 DEF RdAwaited, RdAsks, RdOn
<1>5. RdInUse'
  <2>1. ASSUME NEW b \in RdOn(rdcache'), rdbuf'[b].ref > 0
        PROVE  \E p \in Procs : /\ rdproc'[p].at = "receive" /\ rdproc'[p].op = "read"
                                /\ rdmail'[p] = b
    <3>1. CASE /\ b \in RdOn(rdcache) /\ rdbuf[b].ref > 0
               /\ \A p \in Procs : RdHolds(p, b) => rdproc'[p] = rdproc[p] /\ rdmail'[p] = rdmail[p]
      <4>1. PICK p \in Procs : RdHolds(p, b)
        BY <3>1 DEF RdHeld, RdInUse
      <4> QED  BY <3>1, <4>1 DEF RdHolds
    <3> QED  BY <2>1, <3>1
  <2> QED  BY <2>1 DEF RdInUse, RdHolds, RdOn
<1> QED  BY <1>2, <1>4, <1>5 DEF RdHeld

\* What changes is not what anybody waits for: who is at its receive stays there, and
\* no entry comes into use.
LEMMA RdHeldStays ==
  ASSUME RdSound, RdHeld, ~rdpanic',
         RdOn(rdqueue') \subseteq RdOn(rdqueue),
         \A b \in RdBuffers : /\ rdbuf'[b].ref = rdbuf[b].ref \/ rdbuf'[b].ref = 0
                              /\ rdbuf'[b].pid = rdbuf[b].pid /\ rdbuf'[b].op = rdbuf[b].op,
         \A b \in RdOn(rdcache') : b \in RdOn(rdcache) \/ rdbuf'[b].ref = 0,
         \A p \in Procs : rdproc[p].at = "receive" =>
                            rdproc'[p] = rdproc[p] /\ rdmail'[p] = rdmail[p],
         RdReading' => RdReading /\ rdqueue' = rdqueue
  PROVE  RdHeld'
<1>1. RdOn(rdcache) \subseteq RdBuffers
  BY RdListIs DEF RdSound, RdTypes
<1>2. \A b \in RdBuffers : /\ rdbuf'[b].ref \in Int /\ rdbuf'[b].ref <= 1
                           /\ rdbuf'[b].pid = rdbuf[b].pid /\ rdbuf'[b].op = rdbuf[b].op
  BY DEF RdHeld, RdRefs
<1>3. \A b \in RdOn(rdqueue') : RdAsks(b) =>
        /\ rdproc'[rdbuf[b].pid] = rdproc[rdbuf[b].pid]
        /\ rdmail'[rdbuf[b].pid] = rdmail[rdbuf[b].pid]
  BY DEF RdHeld, RdAwaited
<1>4. \A b \in RdOn(rdcache') : rdbuf'[b].ref > 0 =>
        /\ b \in RdOn(rdcache) /\ rdbuf[b].ref > 0
        /\ \A p \in Procs : RdHolds(p, b) => rdproc'[p] = rdproc[p] /\ rdmail'[p] = rdmail[p]
  BY <1>1 DEF RdHolds
<1> QED  BY <1>2, <1>3, <1>4, RdHeldMoves

\* A new request: its process was neither waiting nor reading (rdsread.c, rdswrite.c,
\* rdscontrol.c).
LEMMA RdRequestHeld ==
  ASSUME RdSound, RdHeld, RdSound', ~rdpanic', RdReading' = RdReading,
         NEW p \in Procs, NEW op \in {"read", "write", "sync"}, NEW blk,
         NEW b \in RdOn(rdfree) \cup RdOn(rdcache),
         rdproc[p].at \in {"user", "alloc"}, RdOn(rdcache') \subseteq RdOn(rdcache),
         RdRequest(p, op, blk, b)
  PROVE  RdHeld'
<1>1. /\ RdTypes /\ RdListed /\ RdTypes' /\ RdListed' /\ RdSignalled
      /\ rdfree \in Seq(RdBuffers) /\ rdqueue \in Seq(RdBuffers) /\ rdcache \in Seq(RdBuffers)
      /\ rdfree' \in Seq(RdBuffers) /\ rdqueue' \in Seq(RdBuffers) /\ rdcache' \in Seq(RdBuffers)
  BY DEF RdSound, RdTypes, RdBuffers
<1>2. /\ RdOn(rdfree) \subseteq RdBuffers /\ RdOn(rdcache) \subseteq RdBuffers
      /\ RdOn(rdqueue) \subseteq RdBuffers /\ b \in RdBuffers
  BY <1>1, RdListIs
<1>3. b \notin RdOn(rdqueue)
  BY <1>1, RdApartIs DEF RdListed
<1>4. rdqueue' = Append(rdqueue, b) /\ RdOn(rdqueue') = RdOn(rdqueue) \cup {b}
  BY <1>1, <1>2, RdEndIs DEF RdRequest
<1>5. b \notin RdOn(rdcache')
  <2>1. /\ Len(rdfree') + Len(rdqueue') + Len(rdcache') = RD_BUFFS
        /\ RdBuffers \subseteq RdOn(rdfree') \cup RdOn(rdqueue') \cup RdOn(rdcache')
    BY <1>1 DEF RdListed, RdOn, RdBuffers
  <2>2. (RdOn(rdfree') \cup RdOn(rdcache')) \cap RdOn(rdqueue') = {}
    BY <1>1, <2>1, RdApartIs
  <2> QED  BY <1>4, <2>2
<1>6. /\ rdbuf'[b].op = op /\ rdbuf'[b].pid = p /\ rdbuf'[b].ref \in {0, 1}
      /\ \A c \in RdBuffers \ {b} : rdbuf'[c] = rdbuf[c]
  <2> DEFINE r == [op |-> op, blk |-> blk, ref |-> IF op = "write" THEN 0 ELSE 1,
                   valid |-> op = "write", pid |-> p,
                   data |-> IF op = "write" THEN Content(blk, rdwritten + 1)
                            ELSE rdbuf[b].data]
  <2>1. rdbuf' = [rdbuf EXCEPT ![b] = r]
    BY DEF RdRequest
  <2>2. r.pid = p /\ r.op = op /\ r.ref \in {0, 1}
    OBVIOUS
  <2> HIDE DEF r
  <2> QED  BY <1>1, <1>2, <2>1, <2>2 DEF RdTypes
<1>7. /\ \A q \in Procs \ {p} : rdproc'[q] = rdproc[q] /\ rdmail'[q] = rdmail[q]
      /\ op # "write" => rdproc'[p].at = "receive" /\ rdproc'[p].op = op /\ rdmail'[p] = 0
  <2>1. CASE op = "write"
    BY <1>1, <2>1 DEF RdRequest, RdReturn, RdTypes
  <2>2. CASE op # "write"
    <3> DEFINE r == [at |-> "receive", op |-> op, blk |-> blk,
                     floor |-> IF op = "read" THEN rdlast[blk] ELSE 0]
    <3>1. rdproc' = [rdproc EXCEPT ![p] = r] /\ rdmail' = [rdmail EXCEPT ![p] = 0]
      BY <2>2 DEF RdRequest
    <3>2. r.at = "receive" /\ r.op = op
      OBVIOUS
    <3> HIDE DEF r
    <3> QED  BY <1>1, <3>1, <3>2 DEF RdTypes
  <2> QED  BY <2>1, <2>2
<1>8. RdRefs' /\ RdPanics'
  BY <1>6 DEF RdHeld, RdRefs, RdPanics, RdBuffers
<1>9. \A c \in RdOn(rdqueue) : c # b /\ rdbuf'[c] = rdbuf[c] /\ RdAsks(c)' = RdAsks(c)
  BY <1>2, <1>3, <1>6 DEF RdAsks
<1>10. \A c \in RdOn(rdqueue) : RdAsks(c) => rdbuf[c].pid \in Procs \ {p}
  BY DEF RdHeld, RdAwaited
<1>11. RdAwaited'
  <2>1. \A c \in RdOn(rdqueue') : RdAsks(c)' =>
          /\ rdbuf'[c].pid \in Procs /\ rdproc'[rdbuf'[c].pid].at = "receive"
          /\ rdproc'[rdbuf'[c].pid].op = rdbuf'[c].op /\ rdmail'[rdbuf'[c].pid] = 0
    <3> SUFFICES ASSUME NEW c \in RdOn(rdqueue'), RdAsks(c)'
                 PROVE  /\ rdbuf'[c].pid \in Procs /\ rdproc'[rdbuf'[c].pid].at = "receive"
                        /\ rdproc'[rdbuf'[c].pid].op = rdbuf'[c].op
                        /\ rdmail'[rdbuf'[c].pid] = 0
      OBVIOUS
    <3>1. CASE c = b
      BY <1>6, <1>7, <3>1 DEF RdAsks
    <3>2. CASE c # b
      <4>1. c \in RdOn(rdqueue) /\ rdbuf'[c] = rdbuf[c] /\ RdAsks(c)
        BY <1>4, <1>9, <3>2
      <4> QED  BY <1>7, <1>10, <4>1 DEF RdHeld, RdAwaited
    <3> QED  BY <3>1, <3>2
  <2>2. \A c, d \in RdOn(rdqueue') :
          RdAsks(c)' /\ RdAsks(d)' /\ rdbuf'[c].pid = rdbuf'[d].pid => c = d
    <3>1. \A c \in RdOn(rdqueue') : c = b \/ c \in RdOn(rdqueue)
      BY <1>4
    <3> QED  BY <1>6, <1>9, <1>10, <3>1 DEF RdHeld, RdAwaited
  <2>3. RdReading' => rdbuf'[Head(rdqueue')].op = "read"
    <3> SUFFICES ASSUME RdReading  PROVE rdbuf'[Head(rdqueue')].op = "read"
      OBVIOUS
    <3>1. rdqueue # <<>>
      BY <1>1 DEF RdSignalled
    <3>2. Head(rdqueue') = Head(rdqueue) /\ Head(rdqueue) \in RdOn(rdqueue)
      <4>1. Head(rdqueue) \in RdOn(rdqueue)
        BY <1>1, <3>1, RdTailIs
      <4>2. Len(rdqueue) \in Nat /\ Len(rdqueue) >= 1
        BY <1>1, <3>1, RdTailIs, LenProperties
      <4>3. Append(rdqueue, b)[1] = rdqueue[1] /\ Len(Append(rdqueue, b)) = Len(rdqueue) + 1
        BY <1>1, <1>2, <4>2, AppendProperties
      <4> QED  BY <1>1, <1>4, <4>1, <4>2, <4>3
    <3>3. rdbuf[Head(rdqueue)].op = "read"
      BY DEF RdHeld, RdAwaited
    <3> QED  BY <1>9, <3>2, <3>3
  <2> QED  BY <2>1, <2>2, <2>3 DEF RdAwaited, RdAsks, RdOn
<1>12. RdInUse'
  <2>1. ASSUME NEW c \in RdOn(rdcache'), rdbuf'[c].ref > 0
        PROVE  \E q \in Procs : /\ rdproc'[q].at = "receive" /\ rdproc'[q].op = "read"
                                /\ rdmail'[q] = c
    <3>1. c # b /\ c \in RdOn(rdcache) /\ rdbuf'[c] = rdbuf[c]
      BY <1>2, <1>5, <1>6, <2>1
    <3>2. PICK q \in Procs : RdHolds(q, c)
      BY <2>1, <3>1 DEF RdHeld, RdInUse
    <3>3. q # p
      BY <3>2 DEF RdHolds
    <3> QED  BY <1>7, <3>2, <3>3 DEF RdHolds
  <2> QED  BY <2>1 DEF RdInUse, RdHolds, RdOn
<1> QED  BY <1>8, <1>11, <1>12 DEF RdHeld

\* rdsbufalloc behind its wait (rdsbufalloc.c).
LEMMA RdBufallocHeld ==
  ASSUME RdSound, RdHeld, RdSound', ~rdpanic,
         NEW p \in Procs, NEW op \in {"read", "write", "sync"}, NEW blk,
         rdproc[p].at \in {"user", "alloc"},
         RdBufalloc(p, op, blk), rdxch' = rdxch
  PROVE  RdHeld'
<1> DEFINE Unread(b) == rdbuf[b].ref <= 0
           old == LastIn(rdcache, Unread)
<1>1. /\ rdfree \in Seq(RdBuffers) /\ rdcache \in Seq(RdBuffers)
      /\ Len(rdcache) \in Nat /\ DOMAIN rdcache = 1 .. Len(rdcache)
      /\ RdReading' = RdReading /\ RdOn(rdcache) \subseteq RdBuffers
  BY LenProperties, RdListIs DEF RdSound, RdTypes, RdReading
<1>2. CASE rdfree # <<>>
  <2> DEFINE b == Head(rdfree)
  <2>1. RdRequest(p, op, blk, b) /\ rdcache' = rdcache /\ rdpanic' = rdpanic
    BY <1>2 DEF RdBufalloc
  <2>2. b \in RdOn(rdfree)
    BY <1>1, <1>2, RdTailIs
  <2> HIDE DEF b
  <2>3. RdOn(rdcache') = RdOn(rdcache)
    BY <2>1
  <2> QED  BY <1>1, <2>1, <2>2, <2>3, RdRequestHeld
<1>3. CASE rdfree = <<>> /\ Has(rdcache, Unread)
  <2>1. RdRequest(p, op, blk, old) /\ rdcache' = Drop(rdcache, old) /\ rdpanic' = rdpanic
    BY <1>3 DEF RdBufalloc
  <2>2. old \in RdOn(rdcache)
    <3> DEFINE T == {i \in 1 .. Len(rdcache) : Unread(rdcache[i])}
               LastOne(i) == Unread(rdcache[i]) /\ \A j \in i + 1 .. Len(rdcache) : ~Unread(rdcache[j])
    <3>1. T # {} /\ T \subseteq 1 .. Len(rdcache)
      BY <1>1, <1>3 DEF Has
    <3>2. PICK i \in T : \A j \in i + 1 .. Len(rdcache) : j \notin T
      BY <1>1, <3>1, RdScanEnds
    <3>3. i \in DOMAIN rdcache /\ LastOne(i)
      <4>1. \A j \in i + 1 .. Len(rdcache) : j \in 1 .. Len(rdcache)
        BY <1>1, <3>1
      <4> QED  BY <1>1, <3>2, <4>1
    <3>4. old = rdcache[CHOOSE j \in DOMAIN rdcache : LastOne(j)]
      BY DEF LastIn
    <3> HIDE DEF LastOne, old
    <3>5. (CHOOSE j \in DOMAIN rdcache : LastOne(j)) \in DOMAIN rdcache
      BY <3>3
    <3> QED  BY <3>4, <3>5 DEF RdOn
  <2> HIDE DEF old
  <2>3. RdOn(rdcache') \subseteq RdOn(rdcache)
    BY <1>1, <2>1, <2>2, RdDropIs
  <2> QED  BY <1>1, <2>1, <2>2, <2>3, RdRequestHeld
<1>4. CASE rdfree = <<>> /\ ~Has(rdcache, Unread)
  <2>1. /\ rdproc' = [rdproc EXCEPT ![p] = [rdproc[p] EXCEPT !.at = "alloc", !.op = op, !.blk = blk]]
        /\ rdpanic' = TRUE /\ UNCHANGED <<rdlists, rdmail>>
    BY <1>4 DEF RdBufalloc, RdInAlloc
  <2>2. \A b \in RdOn(rdcache) : rdbuf[b].ref > 0
    <3> SUFFICES ASSUME NEW i \in DOMAIN rdcache  PROVE rdbuf[rdcache[i]].ref > 0
      BY DEF RdOn
    <3>1. ~ (rdbuf[rdcache[i]].ref <= 0)
      BY <1>4 DEF Has
    <3>2. rdbuf[rdcache[i]].ref \in Int
      BY <1>1 DEF RdHeld, RdRefs, RdOn
    <3> QED  BY <3>1, <3>2
  <2>3. RdPanics'
    BY <1>4, <2>1, <2>2 DEF RdPanics, rdlists, RdOn
  <2>4. \A q \in Procs : rdproc[q].at = "receive" => rdproc'[q] = rdproc[q] /\ rdmail'[q] = rdmail[q]
    BY <2>1 DEF RdSound, RdTypes
  <2>5. RdRefs' /\ RdAwaited'
    BY <1>1, <2>1, <2>4 DEF RdHeld, RdRefs, RdAwaited, RdAsks, rdlists, RdOn, RdBuffers
  <2>6. RdInUse'
    BY <2>1, <2>4 DEF RdHeld, RdInUse, RdHolds, rdlists, RdOn
  <2> QED  BY <2>3, <2>5, <2>6 DEF RdHeld
<1> QED  BY <1>2, <1>3, <1>4

\* A caller waits for a buffer, or goes on to take one (rdsbufalloc.c).
LEMMA RdObtainHeld ==
  ASSUME RdSound, RdHeld, RdSound', ~rdpanic,
         NEW p \in Procs, NEW op \in {"read", "write", "sync"}, NEW blk,
         rdproc[p].at = "user", RdObtain(p, op, blk), rdxch' = rdxch
  PROVE  RdHeld'
<1>1. CASE Blocks(rdavail)
  <2>1. RdInAlloc(p, op, blk) /\ UNCHANGED <<rdlists, rdmail, rdpanic>>
    BY <1>1 DEF RdObtain
  <2>2. \A q \in Procs : rdproc[q].at = "receive" => rdproc'[q] = rdproc[q] /\ rdmail'[q] = rdmail[q]
    BY <2>1 DEF RdSound, RdTypes, RdInAlloc
  <2>3. RdReading' = RdReading
    BY DEF RdReading
  <2> QED  BY <2>1, <2>2, <2>3, RdHeldStays DEF rdlists
<1>2. CASE ~Blocks(rdavail)
  BY <1>2, RdBufallocHeld DEF RdObtain
<1> QED  BY <1>1, <1>2

\* A write changes a request that is in the queue, takes the entry of the cache, or
\* asks for a buffer (rdswrite.c).
LEMMA RdWriteHeld ==
  ASSUME RdSound, RdHeld, RdSound', NEW p \in Procs, NEW blk, RdWrite(p, blk)
  PROVE  RdHeld'
<1> DEFINE Of(b) == rdbuf[b].blk = blk
           Pending(b) == Of(b) /\ rdbuf[b].op = "write"
           c == FirstIn(rdcache, Of)
           q == FirstIn(rdqueue, Pending)
<1>1. /\ rdproc[p].at = "user" /\ ~rdpanic /\ rdxch' = rdxch
      /\ \/ /\ rdbuf' = [rdbuf EXCEPT ![q].data = Content(blk, rdwritten')]
            /\ UNCHANGED <<rdqueue, rdcache, rdproc, rdmail, rdpanic>>
         \/ Has(rdcache, Of) /\ RdTakeCached(p, blk, c)
         \/ RdObtain(p, "write", blk)
  BY DEF RdWrite, RdCalls, RdRuns, RdGoesOn, rdcomm
<1>2. CASE RdObtain(p, "write", blk)
  BY <1>1, <1>2, RdObtainHeld
<1>5. RdReading' = RdReading
  BY <1>1 DEF RdReading
<1>3. CASE Has(rdcache, Of) /\ RdTakeCached(p, blk, c)
  <2>1. rdcache \in Seq(RdBuffers) /\ Len(rdcache) \in Nat /\ DOMAIN rdcache = 1 .. Len(rdcache)
    BY LenProperties DEF RdSound, RdTypes
  <2>2. c \in RdOn(rdcache)
    <3> DEFINE T == {i \in 1 .. Len(rdcache) : Of(rdcache[i])}
               First(i) == Of(rdcache[i]) /\ \A j \in 1 .. i - 1 : ~Of(rdcache[j])
    <3>1. T # {} /\ T \subseteq 1 .. Len(rdcache)
      BY <1>3, <2>1 DEF Has
    <3>2. PICK i \in T : \A j \in 1 .. i - 1 : j \notin T
      BY <2>1, <3>1, RdScanEnds
    <3>3. i \in DOMAIN rdcache /\ First(i)
      <4>1. \A j \in 1 .. i - 1 : j \in 1 .. Len(rdcache)
        BY <2>1, <3>1
      <4> QED  BY <2>1, <3>2, <4>1
    <3>4. c = rdcache[CHOOSE j \in DOMAIN rdcache : First(j)]
      BY DEF FirstIn
    <3> HIDE DEF First, c
    <3>5. (CHOOSE j \in DOMAIN rdcache : First(j)) \in DOMAIN rdcache
      BY <3>3
    <3> QED  BY <3>4, <3>5 DEF RdOn
  <2> HIDE DEF c
  <2>3. RdRequest(p, "write", blk, c) /\ rdcache' = Drop(rdcache, c) /\ ~rdpanic'
    BY <1>1, <1>3 DEF RdTakeCached
  <2>4. RdOn(rdcache') \subseteq RdOn(rdcache)
    BY <2>1, <2>2, <2>3, RdDropIs
  <2> QED  BY <1>1, <1>5, <2>2, <2>3, <2>4, RdRequestHeld
<1>4. CASE /\ rdbuf' = [rdbuf EXCEPT ![q].data = Content(blk, rdwritten')]
           /\ UNCHANGED <<rdqueue, rdcache, rdproc, rdmail, rdpanic>>
  <2> HIDE DEF q
  <2>1. /\ DOMAIN rdbuf = RdBuffers
        /\ \A b \in RdBuffers : DOMAIN rdbuf[b] = {"op", "blk", "ref", "valid", "pid", "data"}
    BY DEF RdSound, RdTypes
  <2>2. \A b \in RdBuffers : /\ rdbuf'[b].ref = rdbuf[b].ref
                             /\ rdbuf'[b].pid = rdbuf[b].pid /\ rdbuf'[b].op = rdbuf[b].op
    BY <1>4, <2>1
  <2> QED  BY <1>1, <1>4, <1>5, <2>2, RdHeldStays
<1> QED  BY <1>1, <1>2, <1>3, <1>4

\* rdsread behind its receive: the entry is no longer in use (rdsread.c).
LEMMA RdReceiveHeld ==
  ASSUME RdSound, RdHeld, RdSound', NEW p \in Procs, RdReceive(p), ~rdbroken'
  PROVE  RdHeld'
<1> DEFINE b == rdmail[p]
           Same(c) == rdbuf[c].blk = rdproc[p].blk
           gone == rdbuf[b].ref = 1 /\ FirstIn(rdcache, Same) # b
<1>1. /\ rdproc[p].at = "receive" /\ b # 0 /\ ~rdpanic' /\ rdqueue' = rdqueue
      /\ rdmail' = [rdmail EXCEPT ![p] = 0] /\ rdproc' = [rdproc EXCEPT ![p] = RdIdle]
      /\ rdxch' = rdxch
  BY DEF RdReceive, RdRuns, RdReturn, rdcomm, rdlists, RdGoesOn
<1>2. RdTypes /\ rdcache \in Seq(RdBuffers) /\ RdOn(rdcache) \subseteq RdBuffers /\ b \in RdBuffers
  BY <1>1, RdListIs DEF RdSound, RdTypes
<1>3. \A q \in Procs \ {p} : rdproc'[q] = rdproc[q] /\ rdmail'[q] = rdmail[q]
  BY <1>1, <1>2 DEF RdTypes
<1>4. \A c \in RdOn(rdqueue') : RdAsks(c) =>
        /\ rdproc'[rdbuf[c].pid] = rdproc[rdbuf[c].pid]
        /\ rdmail'[rdbuf[c].pid] = rdmail[rdbuf[c].pid]
  <2> SUFFICES ASSUME NEW c \in RdOn(rdqueue'), RdAsks(c)
               PROVE  /\ rdproc'[rdbuf[c].pid] = rdproc[rdbuf[c].pid]
                      /\ rdmail'[rdbuf[c].pid] = rdmail[rdbuf[c].pid]
    OBVIOUS
  <2>1. c \in RdOn(rdqueue)
    BY <1>1
  <2>2. rdbuf[c].pid \in Procs /\ rdmail[rdbuf[c].pid] = 0
    BY <2>1 DEF RdHeld, RdAwaited
  <2>3. rdbuf[c].pid # p
    BY <1>1, <2>2
  <2> QED  BY <1>3, <2>2, <2>3
<1>5. RdReading' => RdReading /\ rdqueue' = rdqueue
  BY <1>1 DEF RdReading
<1>6. CASE rdproc[p].op = "sync"
  <2>1. UNCHANGED rdlists
    BY <1>6 DEF RdReceive
  <2>2. \A c \in RdBuffers : /\ rdbuf'[c].ref \in Int /\ rdbuf'[c].ref <= 1
                             /\ rdbuf'[c].pid = rdbuf[c].pid /\ rdbuf'[c].op = rdbuf[c].op
    BY <2>1 DEF rdlists, RdHeld, RdRefs
  <2>3. \A c \in RdOn(rdcache') : rdbuf'[c].ref > 0 =>
          /\ c \in RdOn(rdcache) /\ rdbuf[c].ref > 0
          /\ \A q \in Procs : RdHolds(q, c) => rdproc'[q] = rdproc[q] /\ rdmail'[q] = rdmail[q]
    BY <1>3, <1>6, <2>1 DEF rdlists, RdHolds
  <2> QED  BY <1>1, <1>4, <1>5, <2>2, <2>3, RdHeldMoves
<1>7. CASE rdproc[p].op # "sync"
  <2>1. /\ b \in RdOn(rdcache)
        /\ rdbuf' = [rdbuf EXCEPT ![b].ref = rdbuf[b].ref - 1]
        /\ rdcache' = IF gone THEN Drop(rdcache, b) ELSE rdcache
    BY <1>7 DEF RdReceive, RdOn
  <2> HIDE DEF gone, b
  <2>2. RdOn(rdcache') \subseteq RdOn(rdcache)
    BY <1>2, <2>1, RdDropIs
  <2>3. /\ DOMAIN rdbuf = RdBuffers
        /\ \A c \in RdBuffers : DOMAIN rdbuf[c] = {"op", "blk", "ref", "valid", "pid", "data"}
    BY <1>2 DEF RdTypes
  <2>4. /\ rdbuf'[b].ref = rdbuf[b].ref - 1 /\ rdbuf'[b].pid = rdbuf[b].pid
        /\ rdbuf'[b].op = rdbuf[b].op
        /\ \A c \in RdBuffers \ {b} : rdbuf'[c] = rdbuf[c]
    BY <1>2, <2>1, <2>3
  <2>5. rdbuf'[b].ref \in Int /\ rdbuf'[b].ref <= 0
    BY <1>2, <2>4 DEF RdHeld, RdRefs
  <2>6. \A c \in RdBuffers : /\ rdbuf'[c].ref \in Int /\ rdbuf'[c].ref <= 1
                             /\ rdbuf'[c].pid = rdbuf[c].pid /\ rdbuf'[c].op = rdbuf[c].op
    BY <2>4, <2>5 DEF RdHeld, RdRefs
  <2>7. ASSUME NEW c \in RdOn(rdcache'), rdbuf'[c].ref > 0
        PROVE  /\ c \in RdOn(rdcache) /\ rdbuf[c].ref > 0
               /\ \A q \in Procs : RdHolds(q, c) => rdproc'[q] = rdproc[q] /\ rdmail'[q] = rdmail[q]
    <3>1. c # b
      BY <2>5, <2>7
    <3>2. c \in RdOn(rdcache) /\ c \in RdBuffers /\ rdbuf[c].ref > 0
      BY <1>2, <2>2, <2>4, <2>7, <3>1
    <3>3. \A q \in Procs : RdHolds(q, c) => q # p
      BY <3>1 DEF RdHolds, b
    <3> QED  BY <1>3, <3>2, <3>3
  <2> QED  BY <1>1, <1>4, <1>5, <2>6, <2>7, RdHeldMoves
<1> QED  BY <1>6, <1>7

\* The head of the queue goes to the free list or the cache, and who waits for it is
\* told; nobody else waits for a request with the same process (rdsprocess.c).
LEMMA RdAnswerHeld ==
  ASSUME RdSound, RdHeld, RdSound', ~rdpanic', rdqueue # <<>>, NEW b, b = Head(rdqueue),
         RdAsks(b), rdqueue' = Tail(rdqueue), b \in RdOn(rdfree') \cup RdOn(rdcache'),
         rdproc' = rdproc, rdmail' = [rdmail EXCEPT ![rdbuf[b].pid] = b],
         \A c \in RdBuffers : /\ rdbuf'[c].pid = rdbuf[c].pid /\ rdbuf'[c].op = rdbuf[c].op
                              /\ \/ rdbuf'[c].ref = rdbuf[c].ref
                                 \/ c = b /\ rdbuf[b].op = "read" /\ rdbuf'[c].ref = 1,
         \A c \in RdOn(rdcache') : \/ c \in RdOn(rdcache)
                                   \/ c = b /\ rdbuf[b].op = "read",
         ~RdReading'
  PROVE  RdHeld'
<1>1. /\ RdTypes /\ RdTypes' /\ RdListed' /\ rdqueue \in Seq(RdBuffers)
      /\ rdcache \in Seq(RdBuffers)
      /\ rdfree' \in Seq(RdBuffers) /\ rdqueue' \in Seq(RdBuffers) /\ rdcache' \in Seq(RdBuffers)
  BY DEF RdSound, RdTypes, RdBuffers
<1>2. /\ b \in RdOn(rdqueue) /\ b \in RdBuffers /\ b # 0 /\ RdOn(rdqueue) \subseteq RdBuffers
      /\ RdOn(rdcache) \subseteq RdBuffers
      /\ RdOn(rdqueue') \subseteq RdOn(rdqueue)
  BY <1>1, RdTailIs, RdListIs DEF RdBuffers
<1>3. b \notin RdOn(rdqueue')
  <2>1. /\ Len(rdfree') + Len(rdqueue') + Len(rdcache') = RD_BUFFS
        /\ RdBuffers \subseteq RdOn(rdfree') \cup RdOn(rdqueue') \cup RdOn(rdcache')
    BY <1>1 DEF RdListed, RdOn, RdBuffers
  <2>2. (RdOn(rdfree') \cup RdOn(rdcache')) \cap RdOn(rdqueue') = {}
    BY <1>1, <2>1, RdApartIs
  <2> QED  BY <2>2
<1>4. /\ rdbuf[b].pid \in Procs /\ rdproc[rdbuf[b].pid].at = "receive"
      /\ rdproc[rdbuf[b].pid].op = rdbuf[b].op /\ rdmail[rdbuf[b].pid] = 0
      /\ rdmail'[rdbuf[b].pid] = b
      /\ \A p \in Procs \ {rdbuf[b].pid} : rdmail'[p] = rdmail[p]
  BY <1>1, <1>2 DEF RdHeld, RdAwaited, RdTypes
<1>5. \A c \in RdBuffers : /\ rdbuf'[c].ref \in Int /\ rdbuf'[c].ref <= 1
                           /\ rdbuf'[c].pid = rdbuf[c].pid /\ rdbuf'[c].op = rdbuf[c].op
  BY DEF RdHeld, RdRefs
<1>6. \A c \in RdOn(rdqueue') : RdAsks(c) =>
        /\ rdproc'[rdbuf[c].pid] = rdproc[rdbuf[c].pid]
        /\ rdmail'[rdbuf[c].pid] = rdmail[rdbuf[c].pid]
  <2> SUFFICES ASSUME NEW c \in RdOn(rdqueue'), RdAsks(c)
               PROVE  rdmail'[rdbuf[c].pid] = rdmail[rdbuf[c].pid]
    OBVIOUS
  <2>1. c # b /\ c \in RdOn(rdqueue)
    BY <1>2, <1>3
  <2>2. rdbuf[c].pid # rdbuf[b].pid /\ rdbuf[c].pid \in Procs
    BY <1>2, <2>1 DEF RdHeld, RdAwaited
  <2> QED  BY <1>4, <2>2
<1>7. ASSUME NEW c \in RdOn(rdcache'), rdbuf'[c].ref > 0
      PROVE  \/ /\ c \in RdOn(rdcache) /\ rdbuf[c].ref > 0
                /\ \A p \in Procs : RdHolds(p, c) =>
                     rdproc'[p] = rdproc[p] /\ rdmail'[p] = rdmail[p]
             \/ \E p \in Procs : /\ rdproc'[p].at = "receive" /\ rdproc'[p].op = "read"
                                 /\ rdmail'[p] = c
  <2>1. CASE c = b /\ rdbuf[b].op = "read"
    BY <1>4, <2>1
  <2>2. CASE ~ (c = b /\ rdbuf[b].op = "read")
    <3>1. c \in RdOn(rdcache) /\ c \in RdBuffers /\ c # 0
      BY <1>2, <2>2 DEF RdBuffers
    <3>2. rdbuf'[c].ref = rdbuf[c].ref
      BY <2>2, <3>1
    <3>3. \A p \in Procs : RdHolds(p, c) => p # rdbuf[b].pid
      BY <1>4, <3>1 DEF RdHolds
    <3> QED  BY <1>4, <1>7, <3>1, <3>2, <3>3
  <2> QED  BY <2>1, <2>2
<1> QED  BY <1>2, <1>5, <1>6, <1>7, RdHeldMoves

\* rdsprocess takes the first request (rdsprocess.c).
LEMMA RdFetchHeld ==
  ASSUME RdSound, RdHeld, RdSound', RdFetch
  PROVE  RdHeld'
<1> DEFINE b == Head(rdqueue)
<1>1. /\ RdTypes /\ rdfree \in Seq(RdBuffers) /\ rdqueue \in Seq(RdBuffers)
      /\ rdcache \in Seq(RdBuffers)
  BY DEF RdSound, RdTypes
<1>2. /\ rdxch[RdComproc].at = "none" /\ rdqueue # <<>> /\ rdproc' = rdproc /\ ~rdpanic'
  BY DEF RdFetch, RdGoesOn
<1>3. b \in RdOn(rdqueue) /\ b \in RdBuffers /\ RdOn(Tail(rdqueue)) \subseteq RdOn(rdqueue)
  BY <1>1, <1>2, RdTailIs, RdListIs
<1>4. CASE rdbuf[b].op = "read"
  <2>1. UNCHANGED <<rdlists, rdmail>>
    BY <1>4 DEF RdFetch
  <2>2. RdRefs' /\ RdPanics' /\ RdInUse'
    BY <1>2, <2>1 DEF RdHeld, RdRefs, RdPanics, RdInUse, RdHolds, rdlists, RdOn, RdBuffers
  <2>3. RdAwaited'
    BY <1>2, <1>4, <2>1 DEF RdHeld, RdAwaited, RdAsks, rdlists, RdOn
  <2> QED  BY <2>2, <2>3 DEF RdHeld
<1>5. CASE rdbuf[b].op = "sync"
  <2>1. /\ rdfree' = <<b>> \o rdfree /\ rdmail' = [rdmail EXCEPT ![rdbuf[b].pid] = b]
        /\ rdcache' = rdcache /\ rdbuf' = rdbuf /\ rdqueue' = Tail(rdqueue) /\ rdxch' = rdxch
    BY <1>5 DEF RdFetch
  <2>2. b \in RdOn(rdfree') /\ ~RdReading'
    BY <1>1, <1>2, <1>3, <2>1, RdFrontIs DEF RdReading
  <2>3. RdAsks(b) /\ b = Head(rdqueue)
    BY <1>5 DEF RdAsks
  <2> HIDE DEF b
  <2>4. /\ \A c \in RdBuffers : /\ rdbuf'[c].pid = rdbuf[c].pid /\ rdbuf'[c].op = rdbuf[c].op
                                /\ rdbuf'[c].ref = rdbuf[c].ref
        /\ \A c \in RdOn(rdcache') : c \in RdOn(rdcache)
    BY <2>1
  <2> QED  BY <1>2, <2>1, <2>2, <2>3, <2>4, RdAnswerHeld
<1>6. CASE rdbuf[b].op \notin {"read", "sync"}
  <2>1. /\ rdcache' = <<b>> \o rdcache /\ rdbuf' = [rdbuf EXCEPT ![b].ref = 0]
        /\ rdqueue' = Tail(rdqueue) /\ rdmail' = rdmail /\ RdComm(RdComproc, rdbuf[b].op)
    BY <1>6 DEF RdFetch
  <2>2. RdOn(rdcache') = RdOn(rdcache) \cup {b}
    BY <1>1, <1>3, <2>1, RdFrontIs
  <2>3. ~RdReading'
    <3>1. DOMAIN rdxch = RdActors /\ RdComproc \in RdActors
      BY <1>1 DEF RdTypes, RdActors
    <3>2. rdxch'[RdComproc].op = rdbuf[b].op
      BY <2>1, <3>1 DEF RdComm
    <3> QED  BY <1>6, <3>2 DEF RdReading
  <2>4. /\ \A c \in RdBuffers : /\ rdbuf'[c].ref = rdbuf[c].ref \/ rdbuf'[c].ref = 0
                                /\ rdbuf'[c].pid = rdbuf[c].pid /\ rdbuf'[c].op = rdbuf[c].op
        /\ rdbuf'[b].ref = 0
    BY <1>1, <1>3, <2>1 DEF RdTypes
  <2> HIDE DEF b
  <2>5. \A c \in RdOn(rdcache') : c \in RdOn(rdcache) \/ rdbuf'[c].ref = 0
    BY <2>2, <2>4
  <2> QED  BY <1>2, <1>3, <2>1, <2>3, <2>4, <2>5, RdHeldStays
<1> QED  BY <1>4, <1>5, <1>6

\* The rest of rdsprocess after a read (rdsprocess.c).
LEMMA RdHaveReadHeld ==
  ASSUME RdSound, RdHeld, RdSound', NEW reply, RdReading, RdHaveRead(reply), ~rdpanic',
         rdxch' = [rdxch EXCEPT ![RdComproc] = NoExchange]
  PROVE  RdHeld'
<1> DEFINE b == Head(rdqueue)
<1>1. /\ RdTypes /\ rdqueue \in Seq(RdBuffers) /\ rdcache \in Seq(RdBuffers)
      /\ rdqueue # <<>> /\ rdbuf[b].op = "read" /\ RdAsks(b)
  BY DEF RdSound, RdTypes, RdSignalled, RdHeld, RdAwaited, RdAsks
<1>2. /\ rdbuf' = [rdbuf EXCEPT ![b].ref = 1, ![b].data = reply.data]
      /\ rdqueue' = Tail(rdqueue) /\ rdcache' = <<b>> \o rdcache
      /\ rdmail' = [rdmail EXCEPT ![rdbuf[b].pid] = b] /\ rdproc' = rdproc
  BY DEF RdHaveRead
<1>3. b \in RdOn(rdqueue) /\ b \in RdBuffers
  BY <1>1, RdTailIs, RdListIs
<1>4. RdOn(rdcache') = RdOn(rdcache) \cup {b}
  BY <1>1, <1>2, <1>3, RdFrontIs
<1>5. ~RdReading'
  BY <1>1 DEF RdReading, RdTypes, RdActors, NoExchange
<1>6. b = Head(rdqueue)
  OBVIOUS
<1> HIDE DEF b
<1>7. \A c \in RdBuffers : /\ rdbuf'[c].pid = rdbuf[c].pid /\ rdbuf'[c].op = rdbuf[c].op
                           /\ \/ rdbuf'[c].ref = rdbuf[c].ref
                              \/ c = b /\ rdbuf[b].op = "read" /\ rdbuf'[c].ref = 1
  <2> DEFINE r == [rdbuf[b] EXCEPT !.ref = 1, !.data = reply.data]
  <2>1. /\ DOMAIN rdbuf = RdBuffers
        /\ DOMAIN rdbuf[b] = {"op", "blk", "ref", "valid", "pid", "data"}
    BY <1>1, <1>3 DEF RdTypes
  <2>2. r.pid = rdbuf[b].pid /\ r.op = rdbuf[b].op /\ r.ref = 1
    BY <2>1
  <2>3. rdbuf' = [rdbuf EXCEPT ![b] = r]
    BY <1>2, <1>3, <2>1
  <2> HIDE DEF r
  <2> QED  BY <1>1, <1>3, <2>1, <2>2, <2>3
<1>8. /\ b \in RdOn(rdfree') \cup RdOn(rdcache')
      /\ \A c \in RdOn(rdcache') : \/ c \in RdOn(rdcache)
                                   \/ c = b /\ rdbuf[b].op = "read"
  BY <1>1, <1>4
<1> QED  BY <1>1, <1>2, <1>5, <1>6, <1>7, <1>8, RdAnswerHeld

\* rdsclose: nothing is left in the cache (rdsclose.c).
LEMMA RdShutHeld ==
  ASSUME RdSound, RdHeld, RdShut, ~rdpanic',
         \A p \in Procs : rdproc[p].at = "receive" =>
                            rdproc'[p] = rdproc[p] /\ rdmail'[p] = rdmail[p],
         RdReading' => RdReading
  PROVE  RdHeld'
<1>1. rdcache' = <<>> /\ rdqueue' = rdqueue
  BY DEF RdShut
<1>2. RdOn(rdcache') = {}
  BY <1>1 DEF RdOn
<1>3. \A b \in RdBuffers : rdbuf'[b] = [rdbuf[b] EXCEPT !.valid = FALSE] \/ rdbuf'[b] = rdbuf[b]
  <2> DEFINE In(b) == Has(rdcache, LAMBDA c : c = b)
  <2>1. rdbuf' = [b \in RdBuffers |-> IF In(b) THEN [rdbuf[b] EXCEPT !.valid = FALSE]
                                      ELSE rdbuf[b]]
    BY DEF RdShut
  <2> HIDE DEF In
  <2> QED  BY <2>1
<1>4. \A b \in RdBuffers : DOMAIN rdbuf[b] = {"op", "blk", "ref", "valid", "pid", "data"}
  BY DEF RdSound, RdTypes
<1>5. \A b \in RdBuffers : /\ rdbuf'[b].ref = rdbuf[b].ref
                           /\ rdbuf'[b].pid = rdbuf[b].pid /\ rdbuf'[b].op = rdbuf[b].op
  BY <1>3, <1>4
<1> QED  BY <1>1, <1>2, <1>5, RdHeldStays

\* What the callers of rdscomm make of its result (rdsprocess.c, rdsopen.c,
\* rdscontrol.c).
LEMMA RdOutcomeHeld ==
  ASSUME RdSound, RdHeld, RdSound', NEW a \in RdActors, rdxch[a].at # "none", NEW ok, NEW reply,
         RdOutcome(a, ok, reply), ~rdbroken', ~rdpanic'
  PROVE  RdHeld'
<1>1. rdxch' = [rdxch EXCEPT ![a] = NoExchange]
  BY DEF RdOutcome
<1>2. /\ DOMAIN rdxch = RdActors /\ RdComproc \in RdActors
      /\ DOMAIN rdproc = Procs
  BY DEF RdSound, RdTypes, RdActors
<1>3. RdReading' => RdReading
  BY <1>1, <1>2 DEF RdReading, NoExchange
<1>4. CASE a = RdComproc /\ rdxch[a].op = "read"
  <2>1. RdReading
    BY <1>4 DEF RdReading
  <2>2. RdHaveRead(reply)
    BY <1>4 DEF RdOutcome
  <2> QED  BY <1>1, <1>4, <2>1, <2>2, RdHaveReadHeld
<1>5. CASE a = RdComproc /\ rdxch[a].op # "read"
  <2>1. UNCHANGED <<rdlists, rdavail, rdproc, rdmail>>
    BY <1>5 DEF RdOutcome
  <2> QED  BY <1>3, <2>1, RdHeldStays DEF rdlists
<1>6. CASE a # RdComproc
  <2>1. /\ rdproc' = [rdproc EXCEPT ![a] = RdIdle] /\ rdmail' = rdmail
        /\ UNCHANGED rdlists \/ RdShut
    BY <1>6 DEF RdOutcome, RdReturn
  <2>2. a \in Procs /\ rdproc[a].at = "comm"
    BY <1>6 DEF RdActors, RdSound, RdServed
  <2>3. \A p \in Procs : rdproc[p].at = "receive" =>
                           rdproc'[p] = rdproc[p] /\ rdmail'[p] = rdmail[p]
    BY <1>2, <2>1, <2>2
  <2>4. CASE UNCHANGED rdlists
    BY <1>3, <2>3, <2>4, RdHeldStays DEF rdlists
  <2>5. CASE RdShut
    BY <1>3, <2>3, <2>5, RdShutHeld
  <2> QED  BY <2>1, <2>4, <2>5
<1> QED  BY <1>4, <1>5, <1>6

\* An exchange goes on, or a caller begins one, or nothing of this changes (rdscomm.c,
\* rdsopen.c, rdscontrol.c, rdsread.c).
LEMMA RdTurnsHeld ==
  ASSUME RdSound, RdHeld, ~rdpanic', UNCHANGED <<rdlists, rdmail>>,
         \A p \in Procs : rdproc[p].at = "receive" => rdproc'[p] = rdproc[p],
         RdReading' => RdReading
  PROVE  RdHeld'
BY RdHeldStays DEF rdlists

\* One round of rdscomm (rdscomm.c).
LEMMA RdTransmitHeld ==
  ASSUME RdSound, RdHeld, RdSound', NEW a \in RdActors, ~rdbroken',
         RdTransmit(a) \/ RdReply(a) \/ RdTimeout(a)
  PROVE  RdHeld'
<1>1. /\ rdxch[a].at # "none" /\ ~rdpanic'
      /\ \/ \E ok, reply : RdOutcome(a, ok, reply)
         \/ /\ UNCHANGED <<rdlists, rdproc, rdmail>>
            /\ \/ rdxch' = [rdxch EXCEPT ![a].at = "recv", ![a].tries = rdxch[a].tries + 1]
               \/ rdxch' = [rdxch EXCEPT ![a].at = "send"]
  <2>1. CASE RdTransmit(a)
    <3>1. /\ RdGoesOn /\ rdxch[a].at = "send" /\ rdpanic' = rdpanic
      BY <2>1 DEF RdTransmit, rdghost
    <3>2. \/ \E ok, reply : RdOutcome(a, ok, reply)
          \/ /\ rdxch' = [rdxch EXCEPT ![a].at = "recv", ![a].tries = rdxch[a].tries + 1]
             /\ UNCHANGED <<rdlists, rdproc, rdmail>>
      BY <2>1 DEF RdTransmit
    <3> QED  BY <3>1, <3>2 DEF RdGoesOn
  <2>2. CASE RdReply(a)
    <3>1. /\ RdGoesOn /\ rdxch[a].at = "recv" /\ rdpanic' = rdpanic
      BY <2>2 DEF RdReply, rdghost
    <3>2. \/ \E ok, reply : RdOutcome(a, ok, reply)
          \/ /\ rdxch' = [rdxch EXCEPT ![a].at = "send"]
             /\ UNCHANGED <<rdlists, rdproc, rdmail>>
      BY <2>2 DEF RdReply
    <3> QED  BY <3>1, <3>2 DEF RdGoesOn
  <2>3. CASE RdTimeout(a)
    BY <2>3 DEF RdTimeout, RdGoesOn
  <2> QED  BY <2>1, <2>2, <2>3
<1>2. CASE \E ok, reply : RdOutcome(a, ok, reply)
  BY <1>1, <1>2, RdOutcomeHeld
<1>3. CASE /\ UNCHANGED <<rdlists, rdproc, rdmail>>
           /\ \/ rdxch' = [rdxch EXCEPT ![a].at = "recv", ![a].tries = rdxch[a].tries + 1]
              \/ rdxch' = [rdxch EXCEPT ![a].at = "send"]
  <2>1. /\ DOMAIN rdxch = RdActors /\ RdComproc \in RdActors
        /\ DOMAIN rdxch[a] = {"at", "op", "seq", "tries"}
    BY DEF RdSound, RdTypes, RdActors
  <2>2. \A c \in RdActors : /\ rdxch'[c].op = rdxch[c].op
                            /\ rdxch'[c].at = rdxch[c].at \/ c = a
    BY <1>3, <2>1
  <2>3. RdReading' => RdReading
    BY <1>1, <2>1, <2>2 DEF RdReading
  <2> QED  BY <1>1, <1>3, <2>3, RdTurnsHeld
<1> QED  BY <1>1, <1>2, <1>3

\* The other calls of a process (rdsread.c, rdsopen.c, rdsclose.c, rdscontrol.c).
LEMMA RdCallHeld ==
  ASSUME RdSound, RdHeld, RdSound', NEW p \in Procs, ~rdbroken',
         \/ \E blk : RdRead(p, blk)
         \/ RdAllocated(p) \/ RdSync(p) \/ RdClose(p) \/ RdDelete(p)
         \/ \E good \in BOOLEAN : RdOpen(p, good)
  PROVE  RdHeld'
<1>1. DOMAIN rdproc = Procs /\ DOMAIN rdxch = RdActors /\ RdComproc \in RdActors \ {p}
  BY RdsAssumption DEF RdSound, RdTypes, RdActors
<1>2. CASE \E blk : RdRead(p, blk)
  <2>1. PICK blk : RdRead(p, blk)
    BY <1>2
  <2>2. /\ rdproc[p].at = "user" /\ ~rdpanic /\ rdxch' = rdxch
        /\ \/ UNCHANGED <<rdlists, rdavail, rdreq, rdproc, rdmail, rdwritten, rdlast, rdsyncs,
                          rdpanic, rdbroken>>
           \/ RdObtain(p, "read", blk)
    BY <2>1 DEF RdRead, RdCalls, RdRuns, RdGoesOn, rdcomm
  <2>3. RdReading' => RdReading
    BY <2>2 DEF RdReading
  <2> QED  BY <2>2, <2>3, RdObtainHeld, RdTurnsHeld
<1>3. CASE RdAllocated(p)
  <2>1. /\ rdproc[p].at = "alloc" /\ ~rdpanic /\ rdxch' = rdxch
        /\ RdBufalloc(p, rdproc[p].op, rdproc[p].blk)
    BY <1>3 DEF RdAllocated, RdRuns, RdGoesOn, rdcomm
  <2>2. rdproc[p].op \in {"read", "write", "sync"}
    BY <2>1 DEF RdSound, RdServed
  <2> QED  BY <2>1, <2>2, RdBufallocHeld
<1>4. CASE RdSync(p)
  <2>1. rdproc[p].at = "user" /\ ~rdpanic /\ rdxch' = rdxch /\ RdObtain(p, "sync", 0)
    BY <1>4 DEF RdSync, RdCalls, RdRuns, RdGoesOn, rdcomm
  <2> QED  BY <2>1, RdObtainHeld
<1>5. CASE RdClose(p)
  <2>1. RdShut /\ ~rdpanic' /\ rdproc' = rdproc /\ rdmail' = rdmail /\ rdxch' = rdxch
    BY <1>5 DEF RdClose, RdCalls, RdRuns, RdGoesOn, rdcomm
  <2> QED  BY <2>1, RdShutHeld DEF RdReading
<1>6. ASSUME NEW op, RdComm(p, op),
             rdproc' = [rdproc EXCEPT ![p] = [RdIdle EXCEPT !.at = "comm", !.op = op]],
             rdproc[p].at = "user", ~rdpanic', UNCHANGED <<rdlists, rdmail>>
      PROVE  RdHeld'
  <2>1. rdxch'[RdComproc] = rdxch[RdComproc]
    BY <1>1, <1>6 DEF RdComm
  <2>2. RdReading' => RdReading
    BY <2>1 DEF RdReading
  <2>3. \A q \in Procs : rdproc[q].at = "receive" => rdproc'[q] = rdproc[q]
    BY <1>1, <1>6
  <2> QED  BY <1>6, <2>2, <2>3, RdTurnsHeld
<1>7. CASE RdDelete(p)
  BY <1>6, <1>7 DEF RdDelete, RdCalls, RdRuns, RdGoesOn
<1>8. CASE \E good \in BOOLEAN : RdOpen(p, good)
  <2>1. PICK good \in BOOLEAN : RdOpen(p, good)
    BY <1>8
  <2>2. CASE good
    BY <1>6, <2>1, <2>2 DEF RdOpen, RdRuns, RdGoesOn
  <2>3. CASE ~good
    <3>1. ~rdpanic' /\ UNCHANGED <<rdlists, rdmail, rdproc, rdxch>>
      BY <2>1, <2>3 DEF RdOpen, RdRuns, RdGoesOn
    <3> QED  BY <3>1, RdTurnsHeld DEF RdReading
  <2> QED  BY <2>2, <2>3
<1> QED  BY <1>2, <1>3, <1>4, <1>5, <1>7, <1>8

\* Nothing of what counts has changed.
LEMMA RdHeldSame ==
  ASSUME RdHeld, UNCHANGED <<rdlists, rdproc, rdmail, rdxch, rdpanic>>
  PROVE  RdHeld'
<1>1. RdRefs' /\ RdPanics' /\ RdInUse'
  BY DEF RdHeld, RdRefs, RdPanics, RdInUse, RdHolds, rdlists, RdOn, RdBuffers
<1>2. RdAwaited'
  BY DEF RdHeld, RdAwaited, RdAsks, RdReading, rdlists, RdOn
<1> QED  BY <1>1, <1>2 DEF RdHeld

\* No step of the clients or of rdsprocess takes an entry of the cache from its reader
\* (device/rds).
LEMMA RdGoodInvariance == RdSpec => []RdGood
<1>1. RdInit => RdGood
  BY RdInitially, RdHeldInitially DEF RdGood, RdInv
<1>2. RdGood /\ RdInv' /\ [RdNext]_rdvars => RdGood'
  <2> SUFFICES ASSUME RdGood, RdInv', [RdNext]_rdvars, ~rdbroken'  PROVE RdSound' /\ RdHeld'
    BY DEF RdGood
  <2>1. RdSound'
    BY DEF RdInv
  <2>2. CASE rdbroken
    <3>1. ~ (UNCHANGED rdvars)
      BY <2>2 DEF rdvars
    <3>2. ~ RdArrive /\ ~ RdFetch
      BY <2>2 DEF RdArrive, RdFetch, RdGoesOn
    <3>3. \A a \in RdActors : ~ RdTransmit(a) /\ ~ RdReply(a) /\ ~ RdTimeout(a)
      BY <2>2 DEF RdTransmit, RdReply, RdTimeout, RdGoesOn
    <3>4. \A p \in Procs : /\ \A blk \in RdBlocks : ~ RdRead(p, blk) /\ ~ RdWrite(p, blk)
                           /\ ~ RdAllocated(p) /\ ~ RdReceive(p) /\ ~ RdSync(p)
                           /\ ~ RdClose(p) /\ ~ RdDelete(p)
                           /\ \A good \in BOOLEAN : ~ RdOpen(p, good)
      BY <2>2 DEF RdRead, RdWrite, RdAllocated, RdReceive, RdSync, RdClose, RdDelete, RdOpen,
                  RdCalls, RdRuns, RdGoesOn
    <3> QED  BY <3>1, <3>2, <3>3, <3>4 DEF RdNext
  <2>3. CASE ~rdbroken
    <3>1. RdSound /\ RdHeld
      BY <2>3 DEF RdGood
    <3>2. CASE UNCHANGED rdvars
      BY <2>1, <3>1, <3>2, RdHeldSame DEF rdvars, rdlists, rdcomm
    <3>3. CASE RdArrive
      BY <2>1, <3>1, <3>3, RdHeldSame DEF RdArrive
    <3>4. CASE RdFetch
      BY <2>1, <3>1, <3>4, RdFetchHeld
    <3>5. ASSUME NEW a \in RdActors, RdTransmit(a) \/ RdReply(a) \/ RdTimeout(a)
          PROVE  RdSound' /\ RdHeld'
      BY <2>1, <3>1, <3>5, RdTransmitHeld
    <3>6. ASSUME NEW p \in Procs,
                 \/ \E blk \in RdBlocks : RdRead(p, blk) \/ RdWrite(p, blk)
                 \/ RdAllocated(p) \/ RdReceive(p) \/ RdSync(p) \/ RdClose(p) \/ RdDelete(p)
                 \/ \E good \in BOOLEAN : RdOpen(p, good)
          PROVE  RdSound' /\ RdHeld'
      BY <2>1, <3>1, <3>6, RdCallHeld, RdWriteHeld, RdReceiveHeld
    <3> QED  BY <3>2, <3>3, <3>4, <3>5, <3>6 DEF RdNext
  <2> QED  BY <2>2, <2>3
<1> QED  BY <1>1, <1>2, RdInvariance, PTL DEF RdSpec

\* What the invariant says in the words of RdKept.
LEMMA RdInvGives == ASSUME RdSound, RdHeld PROVE RdKept
<1>1. /\ RdTypes /\ RdListed /\ RdSignalled /\ RdServed
      /\ SemaSound(rdavail) /\ Waiters(rdavail) \subseteq RdAllocs
      /\ rdavail.n + Cardinality(RdAllocs) = Len(rdfree) + Len(rdcache)
  BY DEF RdSound, RdCounted
<1>2. /\ rdfree \in Seq(RdBuffers) /\ rdqueue \in Seq(RdBuffers) /\ rdcache \in Seq(RdBuffers)
      /\ Len(rdfree) \in Nat /\ Len(rdqueue) \in Nat /\ Len(rdcache) \in Nat
  BY <1>1, LenProperties DEF RdTypes
<1>3. SemaOK(rdavail) /\ IsFiniteSet(Waiters(rdavail))
  BY <1>1, SoundIsOK
<1>4. LET all == rdfree \o rdqueue \o rdcache
      IN Len(all) = RD_BUFFS /\ {all[i] : i \in DOMAIN all} = RdBuffers
  <2> DEFINE both == rdfree \o rdqueue
             all == both \o rdcache
  <2>1. /\ both \in Seq(RdBuffers) /\ Len(both) = Len(rdfree) + Len(rdqueue)
        /\ RdOn(both) = RdOn(rdfree) \cup RdOn(rdqueue)
    BY <1>2, RdJoinIs
  <2> HIDE DEF both
  <2>2. /\ all \in Seq(RdBuffers) /\ Len(all) = Len(both) + Len(rdcache)
        /\ RdOn(all) = RdOn(both) \cup RdOn(rdcache)
    BY <1>2, <2>1, RdJoinIs
  <2>3. RdOn(all) \subseteq RdBuffers
    BY <2>2, RdListIs
  <2> HIDE DEF all
  <2>4. RdOn(all) = RdBuffers /\ Len(all) = RD_BUFFS
    BY <1>1, <2>1, <2>2, <2>3 DEF RdListed
  <2> QED  BY <2>4 DEF all, both, RdOn
<1>5. Available(rdavail) + Cardinality(RdWoken) = Len(rdfree) + Len(rdcache)
  <2>1. RdAllocs \subseteq Procs /\ RdWoken = RdAllocs \ Waiters(rdavail)
    BY DEF RdAllocs, RdWoken
  <2>2. IsFiniteSet(RdAllocs) /\ Cardinality(RdAllocs) \in Nat
    BY <2>1, SemasAssumption, FS_Subset, FS_CardinalityType
  <2>3. RdAllocs \cap Waiters(rdavail) = Waiters(rdavail)
    BY <1>1
  <2>4. Cardinality(RdWoken) = Cardinality(RdAllocs) - Cardinality(Waiters(rdavail))
    <3> DEFINE W == Waiters(rdavail)
               A == RdAllocs
    <3>1. A \cap W = W /\ RdWoken = A \ W /\ IsFiniteSet(A)
      BY <2>1, <2>2, <2>3
    <3> HIDE DEF W, A
    <3>2. Cardinality(A \ W) = Cardinality(A) - Cardinality(A \cap W)
      BY <3>1, FS_Difference
    <3>3. Cardinality(RdWoken) = Cardinality(A) - Cardinality(W)
      BY <3>1, <3>2
    <3> QED  BY <3>3 DEF W, A
  <2>5. /\ rdavail.n \in Int
        /\ Cardinality(Waiters(rdavail)) = (IF rdavail.n < 0 THEN -rdavail.n ELSE 0)
    BY <1>3 DEF SemaOK
  <2> DEFINE n == rdavail.n
             k == Cardinality(RdAllocs)
             f == Len(rdfree) + Len(rdcache)
  <2>6. n \in Int /\ k \in Nat /\ n + k = f /\ f \in Nat
    BY <1>1, <1>2, <2>2, <2>5
  <2>7. Cardinality(RdWoken) = k - (IF n < 0 THEN -n ELSE 0)
    BY <2>4, <2>5
  <2>8. Available(rdavail) = IF n > 0 THEN n ELSE 0
    BY DEF Available
  <2> HIDE DEF n, k, f
  <2>9. (IF n > 0 THEN n ELSE 0) + (k - (IF n < 0 THEN -n ELSE 0)) = f
    BY <2>6
  <2>10. Available(rdavail) + Cardinality(RdWoken) = f
    BY <2>7, <2>8, <2>9
  <2> QED  BY <2>10 DEF f
<1>6. Len(rdqueue) <= rdreq + rdsyncs + IF RdReading THEN 1 ELSE 0
  BY <1>1 DEF RdSignalled, RdIsReading
<1>7. \A p \in Procs : rdproc[p].at = "receive" =>
        rdmail[p] # 0 \/ Has(rdqueue, LAMBDA b : rdbuf[b].pid = p /\ rdbuf[b].op = rdproc[p].op)
  <2> SUFFICES ASSUME NEW p \in Procs, rdproc[p].at = "receive", rdmail[p] = 0
               PROVE  Has(rdqueue, LAMBDA b : rdbuf[b].pid = p /\ rdbuf[b].op = rdproc[p].op)
    OBVIOUS
  <2>1. PICK b \in RdOn(rdqueue) : rdbuf[b].pid = p /\ rdbuf[b].op = rdproc[p].op
    BY <1>1 DEF RdServed
  <2>2. PICK i \in DOMAIN rdqueue : rdqueue[i] = b
    BY DEF RdOn
  <2> QED  BY <2>1, <2>2 DEF Has
<1>8. /\ \A i \in DOMAIN rdcache : rdbuf[rdcache[i]].ref > 0 =>
           \E p \in Procs : /\ rdproc[p].at = "receive" /\ rdproc[p].op = "read"
                            /\ rdmail[p] = rdcache[i]
      /\ rdpanic => rdfree = <<>> /\ \A i \in DOMAIN rdcache : rdbuf[rdcache[i]].ref > 0
  BY DEF RdHeld, RdInUse, RdHolds, RdPanics, RdOn
<1> QED  BY <1>3, <1>4, <1>5, <1>6, <1>7, <1>8 DEF RdKept

\* As long as the remote disk has not corrupted its lists, every buffer is on one list,
\* the semaphore counts the free list and the whole cache, every request but a sync has
\* its signal, who waits for a block has a request in the queue or an answer, and an
\* entry of the cache is in use only until the reader it was sent to runs; when
\* rdsbufalloc panics every buffer is asked for or in use (rdsbufalloc.c, rdsread.c,
\* rdswrite.c, rdscontrol.c, rdsclose.c, rdsprocess.c).
THEOREM RdBuffersAndRequests == RdSpec => []RdKept
<1>1. RdGood => RdKept
  <2>1. CASE rdbroken
    BY <2>1 DEF RdKept
  <2>2. CASE ~rdbroken
    BY <2>2, RdInvGives DEF RdGood
  <2> QED  BY <2>1, <2>2
<1> QED  BY <1>1, RdGoodInvariance, PTL
=============================================================================
