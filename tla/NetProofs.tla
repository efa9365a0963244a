------------------------------ MODULE NetProofs ------------------------------
(***************************************************************************)
(* Proofs about the network, for any number of programs, hosts, slots and  *)
(* packet buffers.                                                         *)
(*                                                                         *)
(* The protocol stack. Whoever is at a point of a call has a claim to a    *)
(* number of packet buffers, whether getbuf has let it through yet or not; *)
(* counted that way, the semaphore of the pool is short of its buffers by  *)
(* exactly the claims and what is queued (NtCounted), and no step has to   *)
(* look at who waits. Who waits for a packet owns the slot it waits at,    *)
(* and has been told exactly if the slot is no longer marked as receiving  *)
(* (NtUdpTold, NtIcmpTold); who waits for ARP has one pending entry or has *)
(* been told (NtArpTold).                                                  *)
(*                                                                         *)
(* The clients. TFTP: what is in the buffers ends where the block that is  *)
(* expected begins (TfInv). Remote files: one process at a time is inside, *)
(* every reply that may still come and has the number of its request tells *)
(* the truth about the server's file (RfTrue), and what the server has is  *)
(* what was last learned, or may have come from a request that was given   *)
(* up (RfKnown). DHCP: who has the slot has the conversation, and an       *)
(* acknowledgement is taken from the server that was asked only (DhInv).   *)
(***************************************************************************)
EXTENDS Net, Tftp, Rfs, Dhcp, ServiceProofs

-----------------------------------------------------------------------------
(* The protocol stack *)

NtPlaces == {"user", "next", "read", "buffer", "answer", "arp", "send", "fetch", "udp", "icmp"}
NtEnds == Hosts \cup {Me, NoHost, Broadcast, AnyHost, Router}
NtIds == UdPorts \cup IcSlots \cup {ICMP_SLOTS, 0}
NtPackets == [proto : {"udp", "reply", "echo"}, src : NtEnds, dst : NtEnds, id : NtIds]

NtRings == [buf : [IqPlaces -> NtPackets \cup {NoPacket}], head : IqPlaces, tail : IqPlaces,
            lost : Nat, stray : BOOLEAN]

NtTypes ==
  /\ mail \subseteq Procs /\ icstray \in BOOLEAN
  /\ ntproc \in [Procs -> [at : NtPlaces, slot : Int, packet : NtPackets \cup {NoPacket}, try : Nat]]
  /\ \A p \in Procs : ntproc[p].at \in {"buffer", "answer", "arp", "send"} => ntproc[p].packet \in NtPackets
  /\ arpcache \in [ArpSlots -> [state : {"free", "pending", "resolved"}, addr : NtEnds,
                                pid : Procs \cup {NoProc}]]
  /\ udptab \in [UdSlots -> [state : {"free", "used", "receiving"}, rem : NtEnds, port : NtIds,
                             queue : Seq(NtPackets), owner : Procs \cup {NoProc}]]
  /\ icmptab \in [IcSlots -> [state : {"free", "used", "receiving"}, rem : NtEnds, head : Nat,
                              count : Nat, owner : Procs \cup {NoProc}]]
  /\ ipoqueue \in NtRings

(* the semaphore of the pool, and who may wait for a buffer *)
NtPool == /\ SemaSound(nbsem)
          /\ \A p \in Waiters(nbsem) : ntproc[p].at \in {"read", "buffer", "answer"}

(* the output queue: what is in the ring and what others have overwritten;  *)
(* the unfetched packets lie from iqhead to iqtail until one is overwritten *)
NtQueued == IqUnfetched + ipoqueue.lost
NtFull(i) == ipoqueue.buf[i] # NoPacket
NtRun ==
  LET h == ipoqueue.head
      t == ipoqueue.tail IN
  /\ h = t => (\A i \in IqPlaces : NtFull(i)) \/ (\A i \in IqPlaces : ~NtFull(i))
  /\ h < t => \A i \in IqPlaces : NtFull(i) <=> h <= i /\ i < t
  /\ h > t => \A i \in IqPlaces : NtFull(i) <=> h <= i \/ i < t

(* who fetches a packet has been counted before it does *)
NtOutput == /\ SemaSound(iqsem) /\ Waiters(iqsem) \subseteq {IPOUT}
            /\ IPOUT \in Waiters(iqsem) => ntproc[IPOUT].at = "fetch"
            /\ iqsem.n = NtQueued - (IF ntproc[IPOUT].at = "fetch" THEN 1 ELSE 0)
            /\ iqsem.n <= IP_OQSIZ
            /\ ipoqueue.stray => ipoqueue.lost > 0
            /\ ipoqueue.lost = 0 => NtRun

NtBounds == /\ \A i \in UdSlots : Len(udptab[i].queue) <= UDP_QSIZ
            /\ ~icstray => \A i \in IcSlots : icmptab[i].count <= ICMP_QSIZ

(* claims to buffers *)
NtClaim(at) == IF at \in {"read", "buffer", "arp", "send"} THEN 1 ELSE IF at = "answer" THEN 2 ELSE 0
NtClaimers(k) == {p \in Procs : NtClaim(ntproc[p].at) >= k}
NtClaimed == Cardinality(NtClaimers(1)) + Cardinality(NtClaimers(2))
NtUdpSum == NtSum(UDP_SLOTS, [i \in UdSlots |-> Len(udptab[i].queue)])
NtIcmpSum == NtSum(ICMP_SLOTS, [i \in IcSlots |-> icmptab[i].count])
NtStored == NtQueued + NtUdpSum + NtIcmpSum
NtCounted == NBufs - nbsem.n = NtStored + NtClaimed

(* who waits at which slot, and who has been told *)
NtUdpTold ==
  /\ \A i \in UdSlots :
       /\ udptab[i].state = "free" => udptab[i].queue = <<>>
       /\ udptab[i].state = "receiving" =>
         /\ udptab[i].queue = <<>> /\ udptab[i].owner \in Procs /\ udptab[i].owner \notin mail
         /\ ntproc[udptab[i].owner].at = "udp" /\ ntproc[udptab[i].owner].slot = i
  /\ \A p \in Procs : ntproc[p].at = "udp" =>
       LET i == ntproc[p].slot IN
       /\ i \in UdSlots /\ udptab[i].owner = p /\ udptab[i].state # "free"
       /\ p \in mail => udptab[i].queue # <<>>
       /\ p \notin mail => udptab[i].state = "receiving"

NtIcmpTold ==
  /\ \A i \in IcSlots :
       /\ icmptab[i].state = "free" => icmptab[i].count = 0
       /\ icmptab[i].state = "receiving" =>
         /\ icmptab[i].count = 0 /\ icmptab[i].owner \in Procs /\ icmptab[i].owner \notin mail
         /\ ntproc[icmptab[i].owner].at = "icmp" /\ ntproc[icmptab[i].owner].slot = i
  /\ \A p \in Procs : ntproc[p].at = "icmp" =>
       LET i == ntproc[p].slot IN
       /\ i \in IcSlots /\ icmptab[i].owner = p /\ icmptab[i].state # "free"
       /\ p \in mail => icmptab[i].count > 0
       /\ p \notin mail => icmptab[i].state = "receiving"

NtArpTold ==
  /\ \A i \in ArpSlots : arpcache[i].state = "pending" =>
       LET p == arpcache[i].pid IN
       /\ p \in Procs /\ p \notin mail /\ ntproc[p].at = "arp"
       /\ NextHop(ntproc[p].packet.dst) = arpcache[i].addr
       /\ \A j \in ArpSlots : arpcache[j].state = "pending" /\ arpcache[j].pid = p => j = i
  /\ \A p \in Procs : ntproc[p].at = "arp" =>
       p \in mail \/ \E i \in ArpSlots : arpcache[i].state = "pending" /\ arpcache[i].pid = p

NtInv == /\ NtTypes /\ NtPool /\ NtOutput /\ NtBounds /\ NtCounted
         /\ NtUdpTold /\ NtIcmpTold /\ NtArpTold

-----------------------------------------------------------------------------
(* Sums over a table *)

\* The recursion of NtSums defines a function.
LEMMA NtSumsExist ==
  ASSUME NEW n \in Nat, NEW f \in [0 .. n - 1 -> Int]
  PROVE  \E S : S = [k \in 0 .. n |-> IF k = 0 THEN 0 ELSE S[k - 1] + f[k - 1]]
<1> DEFINE D(m, S) == S = [k \in 0 .. m |-> IF k = 0 THEN 0 ELSE S[k - 1] + f[k - 1]]
           T == {m \in Nat : ~ \E S : D(m, S)}
<1>1. SUFFICES ASSUME T # {}  PROVE FALSE
  OBVIOUS
<1>2. PICK m \in T : \A k \in T : m <= k
  BY <1>1, LeastNat
<1>3. m # 0
  <2>1. D(0, [k \in 0 .. 0 |-> 0])  OBVIOUS
  <2> QED  BY <2>1, <1>2
<1>4. m - 1 \in Nat /\ m - 1 \notin T
  <2>1. m \in Nat  OBVIOUS
  <2> HIDE DEF T
  <2> QED  BY <2>1, <1>2, <1>3
<1>5. PICK S : D(m - 1, S)
  BY <1>4
<1> DEFINE R == [k \in 0 .. m |-> IF k = m THEN S[m - 1] + f[m - 1] ELSE S[k]]
<1>6. \A k \in 0 .. m : R[k] = IF k = 0 THEN 0 ELSE R[k - 1] + f[k - 1]
  <2>1. \A k \in 0 .. m - 1 : S[k] = IF k = 0 THEN 0 ELSE S[k - 1] + f[k - 1]
    BY <1>5
  <2> QED  BY <2>1, <1>3, <1>4
<1>7. D(m, R)
  BY <1>6
<1> QED  BY <1>2, <1>7

\* What the recursion says, and that partial sums are integers.
LEMMA NtSumsType ==
  ASSUME NEW n \in Nat, NEW f \in [0 .. n - 1 -> Int]
  PROVE  /\ NtSums(n, f)[0] = 0
         /\ \A k \in 1 .. n : NtSums(n, f)[k] = NtSums(n, f)[k - 1] + f[k - 1]
         /\ \A k \in 0 .. n : NtSums(n, f)[k] \in Int
<1> DEFINE S == NtSums(n, f)
           T == {k \in 0 .. n : S[k] \notin Int}
<1>1. S = [k \in 0 .. n |-> IF k = 0 THEN 0 ELSE S[k - 1] + f[k - 1]]
  BY NtSumsExist, ZenonT(60) DEF NtSums
<1> HIDE DEF S
<1>2. \A k \in 1 .. n : k - 1 \in 0 .. n - 1 /\ f[k - 1] \in Int
  OBVIOUS
<1>3. S[0] = 0 /\ \A k \in 1 .. n : S[k] = S[k - 1] + f[k - 1]
  BY <1>1, <1>2
<1>4. T = {}
  <2>1. SUFFICES ASSUME T # {}  PROVE FALSE
    OBVIOUS
  <2>2. T \subseteq Nat
    OBVIOUS
  <2>3. PICK k \in T : \A m \in T : k <= m
    BY <2>1, <2>2, LeastNat
  <2>4. k # 0
    BY <2>3, <1>3
  <2>5. k - 1 \in 0 .. n /\ k - 1 \notin T /\ k \in 1 .. n
    BY <2>3, <2>4
  <2> QED  BY <2>3, <2>5, <1>2, <1>3
<1> QED  BY <1>3, <1>4 DEF S

\* The sums of two tables that differ in one entry.
LEMMA NtSumChange ==
  ASSUME NEW n \in Nat, NEW f \in [0 .. n - 1 -> Int], NEW g \in [0 .. n - 1 -> Int],
         NEW d \in 0 .. n - 1, \A i \in 0 .. n - 1 : i # d => g[i] = f[i]
  PROVE  NtSum(n, f) \in Int /\ NtSum(n, g) = NtSum(n, f) + g[d] - f[d]
<1> DEFINE F == NtSums(n, f)
           G == NtSums(n, g)
           Right(k) == G[k] = IF k <= d THEN F[k] ELSE F[k] + g[d] - f[d]
           T == {k \in 0 .. n : ~Right(k)}
<1>1. /\ F[0] = 0 /\ \A k \in 1 .. n : F[k] = F[k - 1] + f[k - 1]
      /\ \A k \in 0 .. n : F[k] \in Int
  BY NtSumsType
<1>2. /\ G[0] = 0 /\ \A k \in 1 .. n : G[k] = G[k - 1] + g[k - 1]
      /\ \A k \in 0 .. n : G[k] \in Int
  BY NtSumsType
<1> HIDE DEF F, G
<1>3. /\ f[d] \in Int /\ g[d] \in Int
      /\ \A k \in 1 .. n : k - 1 \in 0 .. n - 1 /\ f[k - 1] \in Int /\ g[k - 1] \in Int
  OBVIOUS
<1>4. T = {}
  <2>1. SUFFICES ASSUME T # {}  PROVE FALSE
    OBVIOUS
  <2>2. T \subseteq Nat
    OBVIOUS
  <2>3. PICK k \in T : \A m \in T : k <= m
    <3> HIDE DEF T
    <3> QED  BY <2>1, <2>2, LeastNat
  <2>4. k # 0
    BY <1>1, <1>2, <1>3, <2>3
  <2>5. k - 1 \in 0 .. n /\ k - 1 \notin T /\ k \in 1 .. n
    BY <2>3, <2>4
  <2>6. /\ Right(k - 1) /\ G[k] = G[k - 1] + g[k - 1] /\ F[k] = F[k - 1] + f[k - 1]
        /\ F[k - 1] \in Int /\ f[k - 1] \in Int /\ g[k - 1] \in Int
    BY <1>1, <1>2, <1>3, <2>5
  <2>7. CASE k - 1 = d
    BY <1>3, <2>3, <2>5, <2>6, <2>7
  <2>8. CASE k - 1 # d
    <3>1. g[k - 1] = f[k - 1]
      BY <1>3, <2>5, <2>8
    <3> QED  BY <1>3, <2>3, <2>5, <2>6, <2>8, <3>1
  <2> QED  BY <2>7, <2>8
<1>5. n \in 0 .. n /\ n \notin T /\ ~(n <= d)
  BY <1>4
<1>6. Right(n) /\ F[n] \in Int
  BY <1>1, <1>5
<1> QED  BY <1>3, <1>5, <1>6 DEF NtSum, F, G

\* A table of zeros adds up to zero.
LEMMA NtSumZero ==
  ASSUME NEW n \in Nat, NEW f \in [0 .. n - 1 -> Int], \A i \in 0 .. n - 1 : f[i] = 0
  PROVE  NtSum(n, f) = 0
<1> DEFINE F == NtSums(n, f)
           T == {k \in 0 .. n : F[k] # 0}
<1>1. F[0] = 0 /\ \A k \in 1 .. n : F[k] = F[k - 1] + f[k - 1]
  BY NtSumsType
<1> HIDE DEF F
<1>2. T = {}
  <2>1. SUFFICES ASSUME T # {}  PROVE FALSE
    OBVIOUS
  <2>2. T \subseteq Nat
    OBVIOUS
  <2>3. PICK k \in T : \A m \in T : k <= m
    <3> HIDE DEF T
    <3> QED  BY <2>1, <2>2, LeastNat
  <2>4. k # 0
    BY <1>1, <2>3
  <2>5. k - 1 \in 0 .. n /\ k - 1 \notin T /\ k \in 1 .. n /\ k - 1 \in 0 .. n - 1
    BY <2>3, <2>4
  <2> QED  BY <1>1, <2>3, <2>5
<1> QED  BY <1>2 DEF NtSum, F

-----------------------------------------------------------------------------
(* Where processes are, and what they have been told *)

NtWhere == [at : NtPlaces, slot : Int, packet : NtPackets \cup {NoPacket}, try : Nat]
NtCarries(w) == w.at \in {"buffer", "answer", "arp", "send"} => w.packet \in NtPackets

(* A step does not concern those who are at this place *)
NtSame(at) == \A q \in Procs :
  /\ ntproc'[q].at = at <=> ntproc[q].at = at
  /\ ntproc[q].at = at => /\ ntproc'[q].slot = ntproc[q].slot /\ ntproc'[q].packet = ntproc[q].packet
                          /\ q \in mail' <=> q \in mail

\* One process goes somewhere: the claims to buffers change by its own.
LEMMA NtMoves ==
  ASSUME NtInv, NEW p \in Procs, NEW w \in NtWhere, NtCarries(w),
         ntproc' = [ntproc EXCEPT ![p] = w]
  PROVE  /\ ntproc' \in [Procs -> NtWhere] /\ \A q \in Procs : NtCarries(ntproc'[q])
         /\ ntproc'[p] = w /\ \A q \in Procs \ {p} : ntproc'[q] = ntproc[q]
         /\ NtClaimed \in Int /\ NtClaimed' = NtClaimed + NtClaim(w.at) - NtClaim(ntproc[p].at)
<1>1. /\ ntproc \in [Procs -> NtWhere] /\ \A q \in Procs : NtCarries(ntproc[q])
  BY DEF NtInv, NtTypes, NtWhere, NtCarries
<1>2. /\ ntproc' \in [Procs -> NtWhere] /\ ntproc'[p] = w
      /\ \A q \in Procs \ {p} : ntproc'[q] = ntproc[q]
  BY <1>1
<1>3. \A q \in Procs : NtCarries(ntproc'[q])
  BY <1>1, <1>2
<1>4. \A at : NtClaim(at) \in 0 .. 2
  BY DEF NtClaim
<1>5. ASSUME NEW k \in 1 .. 2
      PROVE  /\ Cardinality(NtClaimers(k)) \in Int
             /\ Cardinality(NtClaimers(k)') = Cardinality(NtClaimers(k))
                  + (IF NtClaim(w.at) >= k THEN 1 ELSE 0)
                  - (IF NtClaim(ntproc[p].at) >= k THEN 1 ELSE 0)
  <2> DEFINE C == NtClaimers(k)
  <2>1. /\ C \subseteq Procs /\ (p \in C <=> NtClaim(ntproc[p].at) >= k)
        /\ C' = IF NtClaim(w.at) >= k THEN C \cup {p} ELSE C \ {p}
    BY <1>2 DEF NtClaimers
  <2> HIDE DEF C
  <2>2. /\ Cardinality(C) \in Nat
        /\ p \notin C => Cardinality(C \cup {p}) = Cardinality(C) + 1 /\ C \ {p} = C
        /\ p \in C => Cardinality(C \ {p}) = Cardinality(C) - 1 /\ C \cup {p} = C
    BY <2>1, OneMore
  <2>3. /\ Cardinality(C) \in Int
        /\ Cardinality(C') = Cardinality(C) + (IF NtClaim(w.at) >= k THEN 1 ELSE 0)
                               - (IF NtClaim(ntproc[p].at) >= k THEN 1 ELSE 0)
    <3>1. CASE NtClaim(w.at) >= k /\ p \in C
      <4>1. C' = C /\ NtClaim(ntproc[p].at) >= k
        BY <2>1, <2>2, <3>1
      <4> QED  BY <2>2, <3>1, <4>1
    <3>2. CASE NtClaim(w.at) >= k /\ p \notin C
      BY <2>1, <2>2, <3>2
    <3>3. CASE ~ (NtClaim(w.at) >= k) /\ p \in C
      BY <2>1, <2>2, <3>3
    <3>4. CASE ~ (NtClaim(w.at) >= k) /\ p \notin C
      <4>1. C' = C /\ ~ (NtClaim(ntproc[p].at) >= k)
        BY <2>1, <2>2, <3>4
      <4> QED  BY <2>2, <3>4, <4>1
    <3> QED  BY <3>1, <3>2, <3>3, <3>4
  <2> QED  BY <2>3 DEF C
<1>6. /\ NtClaimed = Cardinality(NtClaimers(1)) + Cardinality(NtClaimers(2))
      /\ NtClaimed' = Cardinality(NtClaimers(1)') + Cardinality(NtClaimers(2)')
  BY DEF NtClaimed
<1>7. NtClaimed \in Int /\ NtClaimed' = NtClaimed + NtClaim(w.at) - NtClaim(ntproc[p].at)
  <2>1. NtClaim(w.at) \in 0 .. 2 /\ NtClaim(ntproc[p].at) \in 0 .. 2
    BY <1>4
  <2>2. /\ Cardinality(NtClaimers(1)) \in Int
        /\ Cardinality(NtClaimers(1)') = Cardinality(NtClaimers(1))
                  + (IF NtClaim(w.at) >= 1 THEN 1 ELSE 0)
                  - (IF NtClaim(ntproc[p].at) >= 1 THEN 1 ELSE 0)
    BY <1>5
  <2>3. /\ Cardinality(NtClaimers(2)) \in Int
        /\ Cardinality(NtClaimers(2)') = Cardinality(NtClaimers(2))
                  + (IF NtClaim(w.at) >= 2 THEN 1 ELSE 0)
                  - (IF NtClaim(ntproc[p].at) >= 2 THEN 1 ELSE 0)
    BY <1>5
  <2> QED  BY <1>6, <2>1, <2>2, <2>3
<1> QED  BY <1>2, <1>3, <1>7

\* A call goes on at another place (the calls of getbuf, recvtime and wait).
LEMMA GotoIs ==
  ASSUME NtInv, NEW p \in Procs, NEW at \in NtPlaces, NEW slot \in Int,
         NEW packet \in NtPackets \cup {NoPacket},
         at \in {"buffer", "answer", "arp", "send"} => packet \in NtPackets,
         Goto(p, at, slot, packet)
  PROVE  /\ ntproc' \in [Procs -> NtWhere] /\ \A q \in Procs : NtCarries(ntproc'[q])
         /\ ntproc'[p].at = at /\ ntproc'[p].slot = slot /\ ntproc'[p].packet = packet
         /\ \A q \in Procs \ {p} : ntproc'[q] = ntproc[q]
         /\ NtClaimed \in Int /\ NtClaimed' = NtClaimed + NtClaim(at) - NtClaim(ntproc[p].at)
<1> DEFINE w == [at |-> at, slot |-> slot, packet |-> packet, try |-> 1]
<1>1. w \in NtWhere /\ NtCarries(w) /\ ntproc' = [ntproc EXCEPT ![p] = w]
  BY DEF NtWhere, NtCarries, Goto
<1>2. w.at = at /\ w.slot = slot /\ w.packet = packet
  OBVIOUS
<1> HIDE DEF w
<1> QED  BY <1>1, <1>2, NtMoves

\* A call returns; the processes of the stack begin their loops again.
LEMMA ReturnIs ==
  ASSUME NtInv, NEW p \in Procs, Return(p)
  PROVE  /\ ntproc' \in [Procs -> NtWhere] /\ \A q \in Procs : NtCarries(ntproc'[q])
         /\ ntproc'[p].at \in {"user", "next"}
         /\ \A q \in Procs \ {p} : ntproc'[q] = ntproc[q]
         /\ NtClaimed \in Int /\ NtClaimed' = NtClaimed - NtClaim(ntproc[p].at)
<1> DEFINE w == IF p \in Apps THEN Idle ELSE [Idle EXCEPT !.at = "next"]
<1>1. w \in NtWhere /\ NtCarries(w) /\ w.at \in {"user", "next"}
  BY DEF NtWhere, NtCarries, Idle, NtPlaces
<1>2. ntproc' = [ntproc EXCEPT ![p] = w]
  BY DEF Return
<1> HIDE DEF w
<1>3. /\ ntproc' \in [Procs -> NtWhere] /\ \A q \in Procs : NtCarries(ntproc'[q])
      /\ ntproc'[p] = w /\ \A q \in Procs \ {p} : ntproc'[q] = ntproc[q]
      /\ NtClaimed \in Int /\ NtClaimed' = NtClaimed + NtClaim(w.at) - NtClaim(ntproc[p].at)
  BY <1>1, <1>2, NtMoves
<1>4. NtClaim(w.at) = 0 /\ NtClaim(ntproc[p].at) \in Int
  BY <1>1 DEF NtClaim
<1> QED  BY <1>1, <1>3, <1>4

\* A step of a process concerns nobody at a place it neither leaves nor goes to.
LEMMA NtOthers ==
  ASSUME NEW p \in Procs, NEW at, ntproc[p].at # at, ntproc'[p].at # at,
         \A q \in Procs \ {p} : ntproc'[q] = ntproc[q] /\ (q \in mail' <=> q \in mail)
  PROVE  NtSame(at)
BY DEF NtSame

\* What udp_recv relies on stays if the step is about something else.
LEMMA NtUdpFrame ==
  ASSUME NtInv, NtSame("udp"), UNCHANGED udptab
  PROVE  NtUdpTold' /\ NtUdpSum' = NtUdpSum
<1>1. NtUdpTold
  BY DEF NtInv
<1>2. NtUdpTold'
  BY <1>1 DEF NtUdpTold, NtSame
<1>3. NtUdpSum' = NtUdpSum
  BY DEF NtUdpSum
<1> QED  BY <1>2, <1>3

\* What icmp_recv relies on stays if the step is about something else.
LEMMA NtIcmpFrame ==
  ASSUME NtInv, NtSame("icmp"), UNCHANGED icmptab
  PROVE  NtIcmpTold' /\ NtIcmpSum' = NtIcmpSum
<1>1. NtIcmpTold
  BY DEF NtInv
<1>2. NtIcmpTold'
  BY <1>1 DEF NtIcmpTold, NtSame
<1>3. NtIcmpSum' = NtIcmpSum
  BY DEF NtIcmpSum
<1> QED  BY <1>2, <1>3

\* What arp_resolve relies on stays if the step is about something else.
LEMMA NtArpFrame ==
  ASSUME NtInv, NtSame("arp"), UNCHANGED arpcache
  PROVE  NtArpTold'
<1>1. NtArpTold
  BY DEF NtInv
<1> QED  BY <1>1 DEF NtArpTold, NtSame, NextHop

\* What is in the ring of the output queue can be counted.
LEMMA NtQueuedIs ==
  ASSUME ipoqueue \in NtRings
  PROVE  /\ IqUnfetched \in Nat /\ NtQueued \in Nat
         /\ IsFiniteSet({i \in IqPlaces : ipoqueue.buf[i] # NoPacket})
         /\ IqUnfetched = 0 <=> \A i \in IqPlaces : ~NtFull(i)
<1> DEFINE F == {i \in IqPlaces : ipoqueue.buf[i] # NoPacket}
<1>1. IsFiniteSet(0 .. IP_OQSIZ - 1)
  BY IpAssumption, FS_Interval
<1>2. IsFiniteSet(F)
  <2>1. F \subseteq 0 .. IP_OQSIZ - 1
    BY DEF IqPlaces
  <2> QED  BY <1>1, <2>1, FS_Subset
<1>3. IqUnfetched = Cardinality(F)
  BY DEF IqUnfetched
<1>4. F = {} <=> \A i \in IqPlaces : ~NtFull(i)
  BY DEF NtFull
<1> HIDE DEF F
<1>5. Cardinality(F) \in Nat /\ (Cardinality(F) = 0 <=> F = {})
  BY <1>2, FS_CardinalityType, FS_EmptySet
<1>6. ipoqueue.lost \in Nat
  BY DEF NtRings
<1> QED  BY <1>2, <1>3, <1>4, <1>5, <1>6 DEF NtQueued, F

\* The packets of the output queue, when the queue is left alone.
LEMMA NtQueuedFrame ==
  ASSUME UNCHANGED ipoqueue
  PROVE  NtQueued' = NtQueued
BY DEF NtQueued, IqUnfetched

\* No packet is NoPacket, and the place after one is a place.
LEMMA IqPlaceIs ==
  /\ NoPacket \notin NtPackets
  /\ \A i \in IqPlaces : IqNext(i) \in IqPlaces
<1>1. NoPacket \notin NtPackets
  <2>1. DOMAIN NoPacket = {}
    BY DEF NoPacket
  <2>2. \A x \in NtPackets : "proto" \in DOMAIN x
    BY DEF NtPackets
  <2> QED  BY <2>1, <2>2
<1>2. \A i \in IqPlaces : IqNext(i) \in IqPlaces
  BY IpAssumption DEF IqPlaces, IqNext
<1> QED  BY <1>1, <1>2

\* ip_enqueue puts one packet more into the queue, over another one or not (ip.c).
LEMMA IpEnqueueIs ==
  ASSUME ipoqueue \in NtRings, NEW packet \in NtPackets, IpEnqueue(packet)
  PROVE  /\ ipoqueue' \in NtRings /\ NtQueued' = NtQueued + 1
         /\ ipoqueue'.stray = ipoqueue.stray /\ ipoqueue'.lost >= ipoqueue.lost
         /\ ipoqueue'.lost = 0 => ipoqueue.lost = 0 /\ (NtRun => NtRun')
<1> DEFINE t == ipoqueue.tail
           F == {i \in IqPlaces : ipoqueue.buf[i] # NoPacket}
           G == {i \in IqPlaces : ipoqueue'.buf[i] # NoPacket}
<1>1. /\ ipoqueue.buf \in [IqPlaces -> NtPackets \cup {NoPacket}] /\ t \in IqPlaces
      /\ ipoqueue.head \in IqPlaces /\ ipoqueue.lost \in Nat /\ ipoqueue.stray \in BOOLEAN
  BY DEF NtRings
<1>2. /\ ipoqueue'.buf = [ipoqueue.buf EXCEPT ![t] = packet] /\ ipoqueue'.tail = IqNext(t)
      /\ ipoqueue'.lost = ipoqueue.lost + IF ipoqueue.buf[t] = NoPacket THEN 0 ELSE 1
      /\ ipoqueue'.head = ipoqueue.head /\ ipoqueue'.stray = ipoqueue.stray
  BY DEF IpEnqueue, NtRings
<1>3. ipoqueue' \in NtRings
  <2>1. ipoqueue' = [ipoqueue EXCEPT !.buf[t] = packet, !.tail = IqNext(t),
                       !.lost = ipoqueue.lost + IF ipoqueue.buf[t] = NoPacket THEN 0 ELSE 1]
    BY DEF IpEnqueue
  <2>2. /\ [ipoqueue.buf EXCEPT ![t] = packet] \in [IqPlaces -> NtPackets \cup {NoPacket}]
        /\ IqNext(t) \in IqPlaces
        /\ ipoqueue.lost + (IF ipoqueue.buf[t] = NoPacket THEN 0 ELSE 1) \in Nat
    BY <1>1, IqPlaceIs
  <2> QED  BY <2>1, <2>2 DEF NtRings
<1>4. \A i \in IqPlaces : ipoqueue'.buf[i] # NoPacket <=> i = t \/ ipoqueue.buf[i] # NoPacket
  BY <1>1, <1>2, IqPlaceIs
<1>5. G = F \cup {t}
  BY <1>1, <1>4
<1>6. IsFiniteSet(F)
  BY NtQueuedIs
<1>7. Cardinality(G) = IF ipoqueue.buf[t] = NoPacket THEN Cardinality(F) + 1 ELSE Cardinality(F)
  <2>1. t \in F <=> ipoqueue.buf[t] # NoPacket
    BY <1>1
  <2> HIDE DEF F, G
  <2> QED  BY <1>5, <1>6, <2>1, FS_AddElement
<1>8. IqUnfetched = Cardinality(F) /\ IqUnfetched' = Cardinality(G)
  BY DEF IqUnfetched
<1>9. NtQueued' = NtQueued + 1
  <2>1. Cardinality(F) \in Nat
    BY <1>8, NtQueuedIs
  <2> HIDE DEF F, G
  <2> QED  BY <1>1, <1>2, <1>7, <1>8, <2>1 DEF NtQueued
<1>10. ASSUME ipoqueue'.lost = 0, NtRun  PROVE NtRun'
  <2>1. ipoqueue.buf[t] = NoPacket
    BY <1>1, <1>2, <1>10
  <2>2. \A i \in 0 .. IP_OQSIZ - 1 : ipoqueue'.buf[i] # NoPacket <=> i = t \/ ipoqueue.buf[i] # NoPacket
    BY <1>4 DEF IqPlaces
  <2> DEFINE h == ipoqueue.head
             u == IqNext(t)
             Was(i) == ipoqueue.buf[i] # NoPacket
             Is(i) == ipoqueue'.buf[i] # NoPacket
  <2>3. /\ h \in Nat /\ h < IP_OQSIZ /\ t \in Nat /\ t < IP_OQSIZ /\ IP_OQSIZ \in Nat
        /\ u = IF t + 1 >= IP_OQSIZ THEN 0 ELSE t + 1
    BY <1>1, IpAssumption DEF IqPlaces, IqNext
  <2>4. /\ \A i \in 0 .. IP_OQSIZ - 1 : Is(i) <=> i = t \/ Was(i)
        /\ ~Was(t)
    BY <2>1, <2>2
  <2>5. /\ h = t => (\A i \in 0 .. IP_OQSIZ - 1 : Was(i)) \/ (\A i \in 0 .. IP_OQSIZ - 1 : ~Was(i))
        /\ h < t => \A i \in 0 .. IP_OQSIZ - 1 : Was(i) <=> h <= i /\ i < t
        /\ h > t => \A i \in 0 .. IP_OQSIZ - 1 : Was(i) <=> h <= i \/ i < t
    BY <1>10 DEF NtRun, NtFull, IqPlaces
  <2> HIDE DEF u, h, t, Was, Is
  <2>6. /\ h = u => (\A i \in 0 .. IP_OQSIZ - 1 : Is(i)) \/ (\A i \in 0 .. IP_OQSIZ - 1 : ~Is(i))
        /\ h < u => \A i \in 0 .. IP_OQSIZ - 1 : Is(i) <=> h <= i /\ i < u
        /\ h > u => \A i \in 0 .. IP_OQSIZ - 1 : Is(i) <=> h <= i \/ i < u
    <3>1. CASE h = t
      <4>1. \A i \in 0 .. IP_OQSIZ - 1 : Is(i) <=> i = t
        BY <2>3, <2>4, <2>5, <3>1
      <4> QED  BY <2>3, <3>1, <4>1
    <3>2. CASE h < t
      <4>1. \A i \in 0 .. IP_OQSIZ - 1 : Is(i) <=> h <= i /\ i <= t
        BY <2>3, <2>4, <2>5, <3>2
      <4> QED  BY <2>3, <3>2, <4>1
    <3>3. CASE h > t
      <4>1. \A i \in 0 .. IP_OQSIZ - 1 : Is(i) <=> h <= i \/ i <= t
        BY <2>3, <2>4, <2>5, <3>3
      <4> QED  BY <2>3, <3>3, <4>1
    <3> QED  BY <2>3, <3>1, <3>2, <3>3
  <2> QED  BY <1>2, <2>6 DEF NtRun, NtFull, IqPlaces, h, t, u, Is
<1> QED  BY <1>1, <1>2, <1>3, <1>9, <1>10

\* ipout takes the packet at iqhead, if it is there; until a packet is overwritten it
\* is there whenever one is queued (ip.c).
LEMMA IpFetchedIs ==
  ASSUME ipoqueue \in NtRings,
         ipoqueue.buf[ipoqueue.head] # NoPacket,
         ipoqueue' = [ipoqueue EXCEPT !.buf[ipoqueue.head] = NoPacket, !.head = IqNext(ipoqueue.head)]
  PROVE  /\ ipoqueue' \in NtRings /\ NtQueued' = NtQueued - 1
         /\ ipoqueue'.stray = ipoqueue.stray /\ ipoqueue'.lost = ipoqueue.lost
         /\ NtRun => NtRun'
<1> DEFINE h == ipoqueue.head
           F == {i \in IqPlaces : ipoqueue.buf[i] # NoPacket}
           G == {i \in IqPlaces : ipoqueue'.buf[i] # NoPacket}
<1>1. /\ ipoqueue.buf \in [IqPlaces -> NtPackets \cup {NoPacket}] /\ h \in IqPlaces
      /\ ipoqueue.tail \in IqPlaces /\ ipoqueue.lost \in Nat /\ ipoqueue.stray \in BOOLEAN
  BY DEF NtRings
<1>2. /\ ipoqueue'.buf = [ipoqueue.buf EXCEPT ![h] = NoPacket] /\ ipoqueue'.head = IqNext(h)
      /\ ipoqueue'.lost = ipoqueue.lost /\ ipoqueue'.tail = ipoqueue.tail
      /\ ipoqueue'.stray = ipoqueue.stray
  BY DEF NtRings
<1>3. ipoqueue' \in NtRings
  <2>1. /\ [ipoqueue.buf EXCEPT ![h] = NoPacket] \in [IqPlaces -> NtPackets \cup {NoPacket}]
        /\ IqNext(h) \in IqPlaces
    BY <1>1, IqPlaceIs
  <2> QED  BY <2>1 DEF NtRings
<1>4. \A i \in IqPlaces : ipoqueue'.buf[i] # NoPacket <=> i # h /\ ipoqueue.buf[i] # NoPacket
  BY <1>1, <1>2
<1>5. G = F \ {h} /\ h \in F
  BY <1>1, <1>4
<1>6. IsFiniteSet(F)
  BY NtQueuedIs
<1>7. Cardinality(G) = Cardinality(F) - 1
  <2> HIDE DEF F, G
  <2> QED  BY <1>5, <1>6, FS_RemoveElement
<1>8. IqUnfetched = Cardinality(F) /\ IqUnfetched' = Cardinality(G)
  BY DEF IqUnfetched
<1>9. NtQueued' = NtQueued - 1
  <2>1. Cardinality(F) \in Nat
    BY <1>8, NtQueuedIs
  <2> HIDE DEF F, G
  <2> QED  BY <1>1, <1>2, <1>7, <1>8, <2>1 DEF NtQueued
<1>10. ASSUME NtRun  PROVE NtRun'
  <2>1. \A i \in 0 .. IP_OQSIZ - 1 : ipoqueue'.buf[i] # NoPacket <=> i # h /\ ipoqueue.buf[i] # NoPacket
    BY <1>4 DEF IqPlaces
  <2> DEFINE t == ipoqueue.tail
             u == IqNext(h)
             Was(i) == ipoqueue.buf[i] # NoPacket
             Is(i) == ipoqueue'.buf[i] # NoPacket
  <2>2. /\ h \in Nat /\ h < IP_OQSIZ /\ t \in Nat /\ t < IP_OQSIZ /\ IP_OQSIZ \in Nat
        /\ u = IF h + 1 >= IP_OQSIZ THEN 0 ELSE h + 1
    BY <1>1, IpAssumption DEF IqPlaces, IqNext
  <2>3. /\ \A i \in 0 .. IP_OQSIZ - 1 : Is(i) <=> i # h /\ Was(i)
        /\ Was(h)
    BY <2>1
  <2>4. /\ h = t => (\A i \in 0 .. IP_OQSIZ - 1 : Was(i)) \/ (\A i \in 0 .. IP_OQSIZ - 1 : ~Was(i))
        /\ h < t => \A i \in 0 .. IP_OQSIZ - 1 : Was(i) <=> h <= i /\ i < t
        /\ h > t => \A i \in 0 .. IP_OQSIZ - 1 : Was(i) <=> h <= i \/ i < t
    BY <1>10 DEF NtRun, NtFull, IqPlaces
  <2> HIDE DEF u, h, t, Was, Is
  <2>5. /\ u = t => (\A i \in 0 .. IP_OQSIZ - 1 : Is(i)) \/ (\A i \in 0 .. IP_OQSIZ - 1 : ~Is(i))
        /\ u < t => \A i \in 0 .. IP_OQSIZ - 1 : Is(i) <=> u <= i /\ i < t
        /\ u > t => \A i \in 0 .. IP_OQSIZ - 1 : Is(i) <=> u <= i \/ i < t
    <3>1. CASE h = t
      <4>1. \A i \in 0 .. IP_OQSIZ - 1 : Is(i) <=> i # h
        BY <2>2, <2>3, <2>4, <3>1
      <4> QED  BY <2>2, <3>1, <4>1
    <3>2. CASE h < t
      <4>1. \A i \in 0 .. IP_OQSIZ - 1 : Is(i) <=> h < i /\ i < t
        BY <2>2, <2>3, <2>4, <3>2
      <4> QED  BY <2>2, <3>2, <4>1
    <3>3. CASE h > t
      <4>1. \A i \in 0 .. IP_OQSIZ - 1 : Is(i) <=> h < i \/ i < t
        BY <2>2, <2>3, <2>4, <3>3
      <4> QED  BY <2>2, <3>3, <4>1
    <3> QED  BY <2>2, <3>1, <3>2, <3>3
  <2> QED  BY <1>2, <2>5 DEF NtRun, NtFull, IqPlaces, h, t, u, Is
<1> QED  BY <1>2, <1>3, <1>9, <1>10

\* The output queue and its semaphore, when nothing is put in or taken out.
LEMMA NtOutputFrame ==
  ASSUME NtInv, ntproc'[IPOUT].at = "fetch" <=> ntproc[IPOUT].at = "fetch",
         UNCHANGED <<ipoqueue, iqsem>>
  PROVE  NtOutput'
<1>1. NtOutput
  BY DEF NtInv
<1> QED  BY <1>1, NtQueuedFrame DEF NtOutput, NtRun, NtFull

-----------------------------------------------------------------------------
(* UDP *)

NtUdTabs == [UdSlots -> [state : {"free", "used", "receiving"}, rem : NtEnds, port : NtIds,
                         queue : Seq(NtPackets), owner : Procs \cup {NoProc}]]

(* A process is at no place where it waits to be told, before and after a  *)
(* step, and the others stay where they are                                *)
NtWaits == {"udp", "icmp", "arp"}
NtAway(p) == /\ ntproc[p].at \notin NtWaits /\ ntproc'[p].at \notin NtWaits
             /\ \A q \in Procs \ {p} : ntproc'[q] = ntproc[q]

\* The first slot of a kind is one of them.
LEMMA LeastIn ==
  ASSUME NEW S, S \subseteq Nat, S # {}
  PROVE  (CHOOSE i \in S : \A j \in S : i <= j) \in S
<1>1. \E i \in S : \A j \in S : i <= j
  BY LeastNat
<1> QED  BY <1>1

\* The packets that are queued, when one slot of the table changes.
LEMMA NtUdpSumIs ==
  ASSUME udptab \in NtUdTabs, udptab' \in NtUdTabs, NEW d \in UdSlots,
         \A i \in UdSlots : i # d => udptab'[i].queue = udptab[i].queue
  PROVE  /\ NtUdpSum \in Int
         /\ NtUdpSum' = NtUdpSum + Len(udptab'[d].queue) - Len(udptab[d].queue)
<1> DEFINE f == [i \in UdSlots |-> Len(udptab[i].queue)]
           g == [i \in UdSlots |-> Len(udptab'[i].queue)]
<1>1. \A i \in UdSlots : Len(udptab[i].queue) \in Int /\ Len(udptab'[i].queue) \in Int
  BY DEF NtUdTabs
<1>2. /\ UDP_SLOTS \in Nat /\ UdSlots = 0 .. UDP_SLOTS - 1
      /\ f \in [0 .. UDP_SLOTS - 1 -> Int] /\ g \in [0 .. UDP_SLOTS - 1 -> Int]
      /\ \A i \in 0 .. UDP_SLOTS - 1 : i # d => g[i] = f[i]
      /\ f[d] = Len(udptab[d].queue) /\ g[d] = Len(udptab'[d].queue)
  BY <1>1, UdpAssumption DEF UdSlots
<1>3. NtUdpSum = NtSum(UDP_SLOTS, f) /\ NtUdpSum' = NtSum(UDP_SLOTS, g)
  BY DEF NtUdpSum
<1> HIDE DEF f, g
<1>4. d \in 0 .. UDP_SLOTS - 1
  BY <1>2
<1>5. NtSum(UDP_SLOTS, f) \in Int /\ NtSum(UDP_SLOTS, g) = NtSum(UDP_SLOTS, f) + g[d] - f[d]
  BY <1>2, <1>4, NtSumChange
<1> QED  BY <1>2, <1>3, <1>5

\* udp_in: a queued packet is one buffer less that is freed, and the process
\* that waits at the slot is told of it.
LEMMA UdpInKeeps ==
  ASSUME NtInv, NEW p \in Procs, NtAway(p), NEW s, SemaSound(s), NEW packet \in NtPackets,
         UdpIn(s, packet)
  PROVE  /\ udptab' \in NtUdTabs /\ \A i \in UdSlots : Len(udptab'[i].queue) <= UDP_QSIZ
         /\ mail' \subseteq Procs /\ NtUdpTold' /\ NtSame("icmp") /\ NtSame("arp")
         /\ SemaSound(nbsem') /\ Waiters(nbsem') \subseteq Waiters(s)
         /\ \E d \in Int : NtUdpSum' = NtUdpSum + d /\ nbsem'.n = s.n + 1 - d
<1>1. /\ udptab \in NtUdTabs /\ mail \subseteq Procs /\ NtUdpTold
      /\ \A i \in UdSlots : Len(udptab[i].queue) <= UDP_QSIZ
  BY DEF NtInv, NtTypes, NtBounds, NtUdTabs
<1>2. UdSlots \subseteq Nat /\ 0 \in UdSlots /\ s.n \in Int
  <2>1. UdSlots \subseteq Nat /\ 0 \in UdSlots
    BY UdpAssumption DEF UdSlots
  <2>2. s.n \in Int
    BY DEF SemaSound
  <2> QED  BY <2>1, <2>2
<1>3. CASE UdMatches(packet) = {}
  <2>1. nbsem' = UpN(s, 1) /\ UNCHANGED <<udptab, mail>>
    BY <1>3 DEF UdpIn, Free
  <2>2. SemaSound(nbsem') /\ Waiters(nbsem') \subseteq Waiters(s) /\ nbsem'.n = s.n + 1
    BY <2>1, UpNIs
  <2>3. \A at \in NtWaits : NtSame(at)
    BY <2>1, NtOthers DEF NtAway
  <2>4. NtUdpTold' /\ NtUdpSum' = NtUdpSum
    BY <2>1, <2>3, NtUdpFrame DEF NtWaits
  <2>5. NtUdpSum' = NtUdpSum + 0 /\ nbsem'.n = s.n + 1 - 0
    <3>1. NtUdpSum \in Int
      BY <1>1, <1>2, <2>1, NtUdpSumIs
    <3> QED  BY <1>2, <2>2, <2>4, <3>1
  <2> QED  BY <1>1, <1>2, <2>1, <2>2, <2>3, <2>4, <2>5 DEF NtWaits
<1>4. CASE UdMatches(packet) # {}
  <2> DEFINE i == CHOOSE i \in UdMatches(packet) : \A j \in UdMatches(packet) : i <= j
             o == udptab[i].owner
  <2>1. UdMatches(packet) \subseteq Nat
    BY <1>2 DEF UdMatches
  <2>2. i \in UdMatches(packet)
    BY <1>4, <2>1, LeastIn
  <2>3. /\ udptab' = [udptab EXCEPT ![i].queue = Append(@, packet), ![i].state = "used"]
        /\ nbsem' = UpN(s, 0)
        /\ IF udptab[i].state = "receiving" THEN mail' = mail \cup {o} ELSE mail' = mail
    BY <1>4 DEF UdpIn, Free, Post
  <2> HIDE DEF i
  <2>4. i \in UdSlots /\ udptab[i].state # "free" /\ Len(udptab[i].queue) < UDP_QSIZ
    BY <2>2 DEF UdMatches
  <2>5. /\ udptab[i].queue \in Seq(NtPackets) /\ Append(udptab[i].queue, packet) \in Seq(NtPackets)
        /\ Len(Append(udptab[i].queue, packet)) = Len(udptab[i].queue) + 1
        /\ Append(udptab[i].queue, packet) # <<>> /\ Len(udptab[i].queue) \in Nat
    <3>1. udptab[i].queue \in Seq(NtPackets)
      BY <1>1, <2>4 DEF NtUdTabs
    <3>2. /\ Append(udptab[i].queue, packet) \in Seq(NtPackets)
          /\ Len(Append(udptab[i].queue, packet)) = Len(udptab[i].queue) + 1
          /\ Len(udptab[i].queue) \in Nat
      BY <3>1
    <3>3. Len(<<>>) = 0
      OBVIOUS
    <3> QED  BY <3>1, <3>2, <3>3
  <2>6. /\ udptab' \in NtUdTabs /\ udptab'[i].queue = Append(udptab[i].queue, packet)
        /\ udptab'[i].state = "used" /\ udptab'[i].owner = o
        /\ \A j \in UdSlots : j # i => udptab'[j] = udptab[j]
    BY <1>1, <2>3, <2>4, <2>5 DEF NtUdTabs
  <2>7. \A j \in UdSlots : Len(udptab'[j].queue) <= UDP_QSIZ
    BY <1>1, <2>4, <2>5, <2>6, UdpAssumption
  <2>8. SemaSound(nbsem') /\ Waiters(nbsem') \subseteq Waiters(s) /\ nbsem'.n = s.n
    BY <1>2, <2>3, UpNIs
  <2>9. NtUdpSum \in Int /\ NtUdpSum' = NtUdpSum + 1
    <3>1. \A j \in UdSlots : j # i => udptab'[j].queue = udptab[j].queue
      BY <2>6
    <3>2. /\ NtUdpSum \in Int
          /\ NtUdpSum' = NtUdpSum + Len(udptab'[i].queue) - Len(udptab[i].queue)
      BY <1>1, <2>4, <2>6, <3>1, NtUdpSumIs
    <3> QED  BY <2>5, <2>6, <3>2
  <2>10. udptab[i].state = "receiving" => /\ o \in Procs /\ ntproc[o].at = "udp" /\ ntproc[o].slot = i
                                          /\ o # p
    BY <1>1, <2>4 DEF NtUdpTold, NtAway, NtWaits
  <2>11. mail' \subseteq Procs /\ NtSame("icmp") /\ NtSame("arp")
    BY <1>1, <2>3, <2>10 DEF NtSame, NtAway, NtWaits
  <2>12. ASSUME NEW j \in UdSlots
         PROVE  /\ udptab'[j].state = "free" => udptab'[j].queue = <<>>
                /\ udptab'[j].state = "receiving" =>
                  /\ udptab'[j].queue = <<>> /\ udptab'[j].owner \in Procs /\ udptab'[j].owner \notin mail'
                  /\ ntproc'[udptab'[j].owner].at = "udp" /\ ntproc'[udptab'[j].owner].slot = j
    <3>1. CASE j = i
      BY <2>6, <3>1
    <3>2. CASE j # i
      <4>1. /\ udptab'[j] = udptab[j]
            /\ udptab[j].state = "free" => udptab[j].queue = <<>>
            /\ udptab[j].state = "receiving" =>
              /\ udptab[j].queue = <<>> /\ udptab[j].owner \in Procs /\ udptab[j].owner \notin mail
              /\ ntproc[udptab[j].owner].at = "udp" /\ ntproc[udptab[j].owner].slot = j
        BY <1>1, <2>6, <3>2 DEF NtUdpTold
      <4>2. udptab[j].state = "receiving" => /\ udptab[j].owner # p
                                            /\ ntproc'[udptab[j].owner] = ntproc[udptab[j].owner]
        BY <4>1 DEF NtAway, NtWaits
      <4>3. udptab[j].state = "receiving" => udptab[j].owner \notin mail'
        BY <2>3, <2>10, <3>2, <4>1
      <4> QED  BY <4>1, <4>2, <4>3
    <3> QED  BY <3>1, <3>2
  <2>13. ASSUME NEW q \in Procs, ntproc'[q].at = "udp"
         PROVE  LET k == ntproc'[q].slot IN
                /\ k \in UdSlots /\ udptab'[k].owner = q /\ udptab'[k].state # "free"
                /\ q \in mail' => udptab'[k].queue # <<>>
                /\ q \notin mail' => udptab'[k].state = "receiving"
    <3>1. q # p /\ ntproc'[q] = ntproc[q]
      BY <2>13 DEF NtAway, NtWaits
    <3> DEFINE k == ntproc[q].slot
    <3>2. /\ k \in UdSlots /\ udptab[k].owner = q /\ udptab[k].state # "free"
          /\ q \in mail => udptab[k].queue # <<>>
          /\ q \notin mail => udptab[k].state = "receiving"
      BY <1>1, <2>13, <3>1 DEF NtUdpTold
    <3> HIDE DEF k
    <3>3. CASE k = i
      <4>1. udptab'[k].state = "used" /\ udptab'[k].owner = q /\ udptab'[k].queue # <<>>
        BY <2>5, <2>6, <3>2, <3>3
      <4>2. q \in mail'
        BY <2>3, <3>2, <3>3
      <4> QED  BY <3>1, <3>2, <4>1, <4>2 DEF k
    <3>4. CASE k # i
      <4>1. q \in mail' => q \in mail
        BY <2>3, <2>10, <3>4 DEF k
      <4>2. udptab'[k] = udptab[k] /\ mail \subseteq mail'
        BY <2>3, <2>6, <3>2, <3>4
      <4> QED  BY <3>1, <3>2, <4>1, <4>2 DEF k
    <3> QED  BY <3>1, <3>3, <3>4 DEF k
  <2>14. NtUdpTold'
    BY <2>12, <2>13 DEF NtUdpTold
  <2>15. nbsem'.n = s.n + 1 - 1
    BY <1>2, <2>8
  <2> QED  BY <2>6, <2>7, <2>8, <2>9, <2>11, <2>14, <2>15
<1> QED  BY <1>3, <1>4

-----------------------------------------------------------------------------
(* ICMP *)

NtIcTabs == [IcSlots -> [state : {"free", "used", "receiving"}, rem : NtEnds, head : Nat,
                         count : Nat, owner : Procs \cup {NoProc}]]

\* The replies that are queued, when one slot of the table changes.
LEMMA NtIcmpSumIs ==
  ASSUME icmptab \in NtIcTabs, icmptab' \in NtIcTabs, NEW d \in IcSlots,
         \A i \in IcSlots : i # d => icmptab'[i].count = icmptab[i].count
  PROVE  /\ NtIcmpSum \in Int
         /\ NtIcmpSum' = NtIcmpSum + icmptab'[d].count - icmptab[d].count
<1> DEFINE f == [i \in IcSlots |-> icmptab[i].count]
           g == [i \in IcSlots |-> icmptab'[i].count]
<1>1. \A i \in IcSlots : icmptab[i].count \in Int /\ icmptab'[i].count \in Int
  BY DEF NtIcTabs
<1>2. /\ ICMP_SLOTS \in Nat /\ IcSlots = 0 .. ICMP_SLOTS - 1
      /\ f \in [0 .. ICMP_SLOTS - 1 -> Int] /\ g \in [0 .. ICMP_SLOTS - 1 -> Int]
      /\ \A i \in 0 .. ICMP_SLOTS - 1 : i # d => g[i] = f[i]
      /\ f[d] = icmptab[d].count /\ g[d] = icmptab'[d].count
  BY <1>1, IcmpAssumption DEF IcSlots
<1>3. NtIcmpSum = NtSum(ICMP_SLOTS, f) /\ NtIcmpSum' = NtSum(ICMP_SLOTS, g)
  BY DEF NtIcmpSum
<1> HIDE DEF f, g
<1>4. d \in 0 .. ICMP_SLOTS - 1
  BY <1>2
<1>5. NtSum(ICMP_SLOTS, f) \in Int /\ NtSum(ICMP_SLOTS, g) = NtSum(ICMP_SLOTS, f) + g[d] - f[d]
  BY <1>2, <1>4, NtSumChange
<1> QED  BY <1>2, <1>3, <1>5

\* icmp_in, on an echo reply: it is queued, room or not, and the process that waits at
\* the slot is told of it.
LEMMA IcmpReplyKeeps ==
  ASSUME NtInv, ~icstray, NEW p \in Procs, NtAway(p), NEW s, SemaSound(s), NEW packet \in NtPackets,
         IcmpReply(s, packet)
  PROVE  /\ icmptab' \in NtIcTabs /\ icstray' \in BOOLEAN
         /\ ~icstray' => \A i \in IcSlots : icmptab'[i].count <= ICMP_QSIZ
         /\ mail' \subseteq Procs /\ NtIcmpTold' /\ NtSame("udp") /\ NtSame("arp")
         /\ SemaSound(nbsem') /\ Waiters(nbsem') \subseteq Waiters(s)
         /\ \E d \in Int : NtIcmpSum' = NtIcmpSum + d /\ nbsem'.n = s.n + 1 - d
<1>1. /\ icmptab \in NtIcTabs /\ mail \subseteq Procs /\ NtIcmpTold /\ icstray \in BOOLEAN
      /\ \A i \in IcSlots : icmptab[i].count <= ICMP_QSIZ
  BY DEF NtInv, NtTypes, NtBounds, NtIcTabs
<1>2. IcSlots \subseteq Nat /\ 0 \in IcSlots /\ s.n \in Int
  <2>1. IcSlots \subseteq Nat /\ 0 \in IcSlots
    BY IcmpAssumption DEF IcSlots
  <2>2. s.n \in Int
    BY DEF SemaSound
  <2> QED  BY <2>1, <2>2
<1>3. CASE ~IcAccepts(packet)
  <2>1. nbsem' = UpN(s, 1) /\ UNCHANGED <<icmptab, icstray, mail>>
    BY <1>3 DEF IcmpReply, Free
  <2>2. SemaSound(nbsem') /\ Waiters(nbsem') \subseteq Waiters(s) /\ nbsem'.n = s.n + 1
    BY <2>1, UpNIs
  <2>3. \A at \in NtWaits : NtSame(at)
    BY <2>1, NtOthers DEF NtAway
  <2>4. NtIcmpTold' /\ NtIcmpSum' = NtIcmpSum
    BY <2>1, <2>3, NtIcmpFrame DEF NtWaits
  <2>5. NtIcmpSum' = NtIcmpSum + 0 /\ nbsem'.n = s.n + 1 - 0
    <3>1. NtIcmpSum \in Int
      BY <1>1, <1>2, <2>1, NtIcmpSumIs
    <3> QED  BY <1>2, <2>2, <2>4, <3>1
  <2> QED  BY <1>1, <1>2, <2>1, <2>2, <2>3, <2>4, <2>5 DEF NtWaits
<1>4. CASE IcAccepts(packet)
  <2> DEFINE i == packet.id
             o == icmptab[i].owner
  <2>3. /\ icmptab' = [icmptab EXCEPT ![i].count = @ + 1, ![i].state = "used"]
        /\ icstray' = (icmptab[i].count = ICMP_QSIZ)
        /\ nbsem' = UpN(s, 0)
        /\ IF icmptab[i].state = "receiving" THEN mail' = mail \cup {o} ELSE mail' = mail
    BY <1>4 DEF IcmpReply, Free, Post
  <2>4. i \in IcSlots /\ icmptab[i].state # "free"
    BY <1>4 DEF IcAccepts
  <2> HIDE DEF i
  <2>5. icmptab[i].count \in Nat
    BY <1>1, <2>4 DEF NtIcTabs
  <2>6. /\ icmptab' \in NtIcTabs /\ icmptab'[i].count = icmptab[i].count + 1
        /\ icmptab'[i].state = "used" /\ icmptab'[i].owner = o
        /\ \A j \in IcSlots : j # i => icmptab'[j] = icmptab[j]
    <3> DEFINE x == icmptab[i].count + 1
    <3>1. icmptab' = [icmptab EXCEPT ![i].count = x, ![i].state = "used"] /\ x \in Nat
      BY <2>3, <2>5
    <3> HIDE DEF x
    <3>2. icmptab' \in NtIcTabs
      BY <1>1, <2>4, <3>1 DEF NtIcTabs
    <3>3. /\ icmptab'[i].count = x /\ icmptab'[i].state = "used" /\ icmptab'[i].owner = o
          /\ \A j \in IcSlots : j # i => icmptab'[j] = icmptab[j]
      BY <1>1, <2>4, <3>1 DEF NtIcTabs
    <3> QED  BY <3>2, <3>3 DEF x
  <2>7. icstray' \in BOOLEAN /\ (~icstray' => \A j \in IcSlots : icmptab'[j].count <= ICMP_QSIZ)
    <3>1. icstray' \in BOOLEAN /\ (~icstray' => icmptab[i].count # ICMP_QSIZ)
      BY <2>3
    <3>2. icmptab[i].count <= ICMP_QSIZ /\ ICMP_QSIZ \in Nat
      BY <1>1, <2>4, IcmpAssumption
    <3>3. ~icstray' => icmptab'[i].count <= ICMP_QSIZ
      BY <2>5, <2>6, <3>1, <3>2
    <3> QED  BY <1>1, <2>6, <3>1, <3>3
  <2>8. SemaSound(nbsem') /\ Waiters(nbsem') \subseteq Waiters(s) /\ nbsem'.n = s.n
    BY <1>2, <2>3, UpNIs
  <2>9. NtIcmpSum \in Int /\ NtIcmpSum' = NtIcmpSum + 1
    <3>1. \A j \in IcSlots : j # i => icmptab'[j].count = icmptab[j].count
      BY <2>6
    <3>2. /\ NtIcmpSum \in Int
          /\ NtIcmpSum' = NtIcmpSum + icmptab'[i].count - icmptab[i].count
      BY <1>1, <2>4, <2>6, <3>1, NtIcmpSumIs
    <3> QED  BY <2>5, <2>6, <3>2
  <2>10. icmptab[i].state = "receiving" => /\ o \in Procs /\ ntproc[o].at = "icmp" /\ ntproc[o].slot = i
                                           /\ o # p
    BY <1>1, <2>4 DEF NtIcmpTold, NtAway, NtWaits
  <2>11. mail' \subseteq Procs /\ NtSame("udp") /\ NtSame("arp")
    BY <1>1, <2>3, <2>10 DEF NtSame, NtAway, NtWaits
  <2>12. ASSUME NEW j \in IcSlots
         PROVE  /\ icmptab'[j].state = "free" => icmptab'[j].count = 0
                /\ icmptab'[j].state = "receiving" =>
                  /\ icmptab'[j].count = 0 /\ icmptab'[j].owner \in Procs /\ icmptab'[j].owner \notin mail'
                  /\ ntproc'[icmptab'[j].owner].at = "icmp" /\ ntproc'[icmptab'[j].owner].slot = j
    <3>1. CASE j = i
      BY <2>6, <3>1
    <3>2. CASE j # i
      <4>1. /\ icmptab'[j] = icmptab[j]
            /\ icmptab[j].state = "free" => icmptab[j].count = 0
            /\ icmptab[j].state = "receiving" =>
              /\ icmptab[j].count = 0 /\ icmptab[j].owner \in Procs /\ icmptab[j].owner \notin mail
              /\ ntproc[icmptab[j].owner].at = "icmp" /\ ntproc[icmptab[j].owner].slot = j
        BY <1>1, <2>6, <3>2 DEF NtIcmpTold
      <4>2. icmptab[j].state = "receiving" => /\ icmptab[j].owner # p
                                             /\ ntproc'[icmptab[j].owner] = ntproc[icmptab[j].owner]
        BY <4>1 DEF NtAway, NtWaits
      <4>3. icmptab[j].state = "receiving" => icmptab[j].owner \notin mail'
        BY <2>3, <2>10, <3>2, <4>1
      <4> QED  BY <4>1, <4>2, <4>3
    <3> QED  BY <3>1, <3>2
  <2>13. ASSUME NEW q \in Procs, ntproc'[q].at = "icmp"
         PROVE  LET k == ntproc'[q].slot IN
                /\ k \in IcSlots /\ icmptab'[k].owner = q /\ icmptab'[k].state # "free"
                /\ q \in mail' => icmptab'[k].count > 0
                /\ q \notin mail' => icmptab'[k].state = "receiving"
    <3>1. q # p /\ ntproc'[q] = ntproc[q]
      BY <2>13 DEF NtAway, NtWaits
    <3> DEFINE k == ntproc[q].slot
    <3>2. /\ k \in IcSlots /\ icmptab[k].owner = q /\ icmptab[k].state # "free"
          /\ q \in mail => icmptab[k].count > 0
          /\ q \notin mail => icmptab[k].state = "receiving"
      BY <1>1, <2>13, <3>1 DEF NtIcmpTold
    <3> HIDE DEF k
    <3>3. CASE k = i
      <4>1. icmptab'[k].state = "used" /\ icmptab'[k].owner = q /\ icmptab'[k].count > 0
        BY <2>5, <2>6, <3>2, <3>3
      <4>2. q \in mail'
        BY <2>3, <3>2, <3>3
      <4> QED  BY <3>1, <3>2, <4>1, <4>2 DEF k
    <3>4. CASE k # i
      <4>1. q \in mail' => q \in mail
        BY <2>3, <2>10, <3>4 DEF k
      <4>2. icmptab'[k] = icmptab[k] /\ mail \subseteq mail'
        BY <2>3, <2>6, <3>2, <3>4
      <4> QED  BY <3>1, <3>2, <4>1, <4>2 DEF k
    <3> QED  BY <3>1, <3>3, <3>4 DEF k
  <2>14. NtIcmpTold'
    BY <2>12, <2>13 DEF NtIcmpTold
  <2>15. nbsem'.n = s.n + 1 - 1
    BY <1>2, <2>8
  <2> QED  BY <2>6, <2>7, <2>8, <2>9, <2>11, <2>14, <2>15
<1> QED  BY <1>3, <1>4

-----------------------------------------------------------------------------
(* IP *)

NtArTabs == [ArpSlots -> [state : {"free", "pending", "resolved"}, addr : NtEnds,
                          pid : Procs \cup {NoProc}]]

(* A process that has a buffer in its hands, s being what it has made of   *)
(* the pool's semaphore so far                                             *)
NtHand(p, s) ==
  /\ SemaSound(s) /\ Waiters(s) \subseteq Waiters(nbsem) /\ p \notin Waiters(s)
  /\ ntproc[p].at \in {"user", "read", "buffer", "send"}
  /\ NtClaim(ntproc[p].at) = s.n - nbsem.n + 1

\* The types of the parts of the stack's state.
LEMMA NtFields ==
  ASSUME NtInv
  PROVE  /\ mail \subseteq Procs /\ icstray \in BOOLEAN
         /\ ntproc \in [Procs -> NtWhere] /\ \A q \in Procs : NtCarries(ntproc[q])
         /\ arpcache \in NtArTabs /\ udptab \in NtUdTabs /\ icmptab \in NtIcTabs
         /\ ipoqueue \in NtRings /\ SemaSound(nbsem) /\ SemaSound(iqsem)
         /\ nbsem.n \in Int /\ NBufs \in Int /\ NtUdpSum \in Int /\ NtIcmpSum \in Int
         /\ NtStored \in Int /\ NtQueued \in Nat /\ NtCounted
<1>1. /\ mail \subseteq Procs /\ icstray \in BOOLEAN
      /\ ntproc \in [Procs -> NtWhere] /\ \A q \in Procs : NtCarries(ntproc[q])
      /\ arpcache \in NtArTabs /\ udptab \in NtUdTabs /\ icmptab \in NtIcTabs
      /\ ipoqueue \in NtRings
  BY DEF NtInv, NtTypes, NtWhere, NtCarries, NtArTabs, NtUdTabs, NtIcTabs
<1>2. SemaSound(nbsem) /\ SemaSound(iqsem) /\ NtCounted
  BY DEF NtInv, NtPool, NtOutput
<1>3. nbsem.n \in Int /\ NBufs \in Int
  BY <1>2, NetAssumption DEF SemaSound
<1>4. NtUdpSum \in Int
  <2> DEFINE f == [i \in UdSlots |-> Len(udptab[i].queue)]
  <2>1. UDP_SLOTS \in Nat /\ f \in [0 .. UDP_SLOTS - 1 -> Int] /\ 0 \in 0 .. UDP_SLOTS - 1
    BY <1>1, UdpAssumption DEF UdSlots, NtUdTabs
  <2> HIDE DEF f
  <2>2. NtSum(UDP_SLOTS, f) \in Int
    BY <2>1, NtSumChange
  <2> QED  BY <2>2 DEF NtUdpSum, f
<1>5. NtIcmpSum \in Int
  <2> DEFINE f == [i \in IcSlots |-> icmptab[i].count]
  <2>1. ICMP_SLOTS \in Nat /\ f \in [0 .. ICMP_SLOTS - 1 -> Int] /\ 0 \in 0 .. ICMP_SLOTS - 1
    BY <1>1, IcmpAssumption DEF IcSlots, NtIcTabs
  <2> HIDE DEF f
  <2>2. NtSum(ICMP_SLOTS, f) \in Int
    BY <2>1, NtSumChange
  <2> QED  BY <2>2 DEF NtIcmpSum, f
<1>6. NtStored \in Int
  BY <1>1, <1>4, <1>5, NtQueuedIs DEF NtStored
<1> QED  BY <1>1, <1>2, <1>3, <1>4, <1>5, <1>6, NtQueuedIs

\* The type of the stack's state after a step, from its parts.
LEMMA NtTyped ==
  ASSUME mail' \subseteq Procs, icstray' \in BOOLEAN,
         ntproc' \in [Procs -> NtWhere], \A q \in Procs : NtCarries(ntproc'[q]),
         arpcache' \in NtArTabs, udptab' \in NtUdTabs, icmptab' \in NtIcTabs,
         ipoqueue' \in NtRings
  PROVE  NtTypes'
BY DEF NtTypes, NtWhere, NtCarries, NtArTabs, NtUdTabs, NtIcTabs

\* Only who asks for a buffer may come to wait for one.
LEMMA NtPoolKeeps ==
  ASSUME NtInv, NEW p \in Procs, \A q \in Procs \ {p} : ntproc'[q] = ntproc[q],
         SemaSound(nbsem'), Waiters(nbsem') \subseteq Waiters(nbsem) \cup {p},
         p \in Waiters(nbsem') => ntproc'[p].at \in {"read", "buffer", "answer"}
  PROVE  NtPool'
<1>1. /\ Waiters(nbsem') \subseteq Procs
      /\ \A q \in Waiters(nbsem) : ntproc[q].at \in {"read", "buffer", "answer"}
  BY SoundIsOK DEF NtInv, NtPool
<1>2. ASSUME NEW q \in Waiters(nbsem')  PROVE ntproc'[q].at \in {"read", "buffer", "answer"}
  BY <1>1, <1>2
<1>3. (Waiters(nbsem))' = Waiters(nbsem')
  BY DEF Waiters
<1> QED  BY <1>2, <1>3 DEF NtPool, SemaSound

\* What the pool is short of, after a step: buffers come back as claims and packets go.
LEMMA NtCountedKeeps ==
  ASSUME NtInv, NEW k \in Int, NEW d \in Int, NtClaimed \in Int, NtClaimed' = NtClaimed - k,
         NtStored' = NtStored + d, nbsem'.n = nbsem.n + k - d
  PROVE  NtCounted'
<1>1. NBufs - nbsem.n = NtStored + NtClaimed /\ nbsem.n \in Int /\ NBufs \in Int /\ NtStored \in Int
  BY NtFields DEF NtCounted
<1>2. NBufs - nbsem'.n = NtStored' + NtClaimed'
  BY <1>1
<1> QED  BY <1>2 DEF NtCounted

\* A call that ends, of a process that had two buffers or one: nothing but the pool and
\* the output queue changes.
LEMMA NtEndKeeps ==
  ASSUME NtInv, NEW p \in Procs, NtAway(p), Return(p), NEW s,
         Waiters(s) \subseteq Waiters(nbsem), p \notin Waiters(s),
         SemaSound(nbsem'), Waiters(nbsem') \subseteq Waiters(s),
         UNCHANGED <<mail, arpcache, udptab, icmptab, icstray>>,
         ipoqueue' \in NtRings, NtOutput',
         NEW d \in Int, NtQueued' = NtQueued + d,
         nbsem'.n = nbsem.n + NtClaim(ntproc[p].at) - d
  PROVE  NtInv'
<1>1. /\ mail \subseteq Procs /\ icstray \in BOOLEAN /\ arpcache \in NtArTabs
      /\ udptab \in NtUdTabs /\ icmptab \in NtIcTabs /\ ipoqueue \in NtRings
      /\ nbsem.n \in Int /\ NBufs \in Int /\ NtUdpSum \in Int /\ NtIcmpSum \in Int /\ NtCounted
  BY NtFields
<1>2. /\ ntproc' \in [Procs -> NtWhere] /\ \A q \in Procs : NtCarries(ntproc'[q])
      /\ ntproc'[p].at \in {"user", "next"} /\ \A q \in Procs \ {p} : ntproc'[q] = ntproc[q]
      /\ NtClaimed \in Int /\ NtClaimed' = NtClaimed - NtClaim(ntproc[p].at)
  BY ReturnIs
<1>3. NtTypes'
  BY <1>1, <1>2, NtTyped
<1>4. NtSame("udp") /\ NtSame("icmp") /\ NtSame("arp")
  BY NtOthers DEF NtAway, NtWaits
<1>5. NtUdpTold' /\ NtUdpSum' = NtUdpSum /\ NtIcmpTold' /\ NtIcmpSum' = NtIcmpSum /\ NtArpTold'
  BY <1>4, NtUdpFrame, NtIcmpFrame, NtArpFrame
<1>6. NtPool'
  BY <1>2, NtPoolKeeps
<1>7. NtBounds'
  BY DEF NtInv, NtBounds
<1>8. NtCounted'
  <2> DEFINE k == NtClaim(ntproc[p].at)
  <2>1. k \in Int /\ NtQueued \in Int
    BY <1>1, NtFields DEF NtClaim
  <2>2. nbsem'.n = nbsem.n + k - d /\ NtClaimed' = NtClaimed - k
    BY <1>2
  <2>3. NtStored' = NtStored + d
    BY <1>1, <1>5, <2>1, NtQueuedFrame DEF NtStored
  <2> HIDE DEF k
  <2> QED  BY <1>2, <2>1, <2>2, <2>3, NtCountedKeeps
<1> QED  BY <1>3, <1>5, <1>6, <1>7, <1>8 DEF NtInv

\* icmp_in, on an echo request, behind getbuf: the answer is in the output queue, or both
\* buffers are free.
LEMMA IcmpAnswerKeeps ==
  ASSUME NtInv, ~icstray, NEW p \in Procs, NtAway(p), NEW packet \in NtPackets,
         ntproc[p].at # "fetch", NEW s, SemaSound(s), Waiters(s) \subseteq Waiters(nbsem),
         p \notin Waiters(s), NtClaim(ntproc[p].at) = s.n - nbsem.n + 2,
         IcmpAnswer(p, s, packet)
  PROVE  NtInv'
<1>1. /\ Return(p) /\ UNCHANGED <<mail, arpcache, udptab, icmptab, icstray>>
      /\ IF IpFull THEN nbsem' = UpN(s, 2) /\ UNCHANGED <<ipoqueue, iqsem>>
         ELSE IpEnqueue(IcAnswer(packet)) /\ nbsem' = UpN(s, 1)
  BY DEF IcmpAnswer, Free
<1>2. /\ ipoqueue \in NtRings /\ NtQueued \in Nat
      /\ NtOutput /\ SemaSound(iqsem) /\ iqsem.n \in Int /\ s.n \in Int /\ nbsem.n \in Int
      /\ IP_OQSIZ \in Nat \ {0}
  BY NtFields, IpAssumption DEF NtInv, SemaSound, NtOutput
<1>3. /\ ntproc'[p].at \in {"user", "next"}
      /\ \A q \in Procs \ {p} : ntproc'[q] = ntproc[q]
  BY <1>1, ReturnIs
<1>4. ntproc'[IPOUT].at = "fetch" <=> ntproc[IPOUT].at = "fetch"
  BY <1>3, NetAssumption
<1>5. CASE IpFull
  <2>1. NtOutput'
    BY <1>1, <1>4, <1>5, NtOutputFrame
  <2>2. SemaSound(nbsem') /\ Waiters(nbsem') \subseteq Waiters(s) /\ nbsem'.n = s.n + 2
    BY <1>1, <1>5, UpNIs
  <2>3. NtQueued' = NtQueued + 0 /\ nbsem'.n = nbsem.n + NtClaim(ntproc[p].at) - 0
    BY <1>1, <1>2, <1>5, <2>2, NtQueuedFrame
  <2>4. ipoqueue' \in NtRings
    BY <1>1, <1>2, <1>5
  <2> QED  BY <1>1, <2>1, <2>2, <2>3, <2>4, NtEndKeeps
<1>6. CASE ~IpFull
  <2>1. iqsem.n < IP_OQSIZ /\ iqsem.n + 1 \in Int
    BY <1>2, <1>6 DEF IpFull
  <2>2. IcAnswer(packet) \in NtPackets
    BY DEF IcAnswer, Packet, NtPackets, NtEnds
  <2>3. /\ ipoqueue' \in NtRings /\ NtQueued' = NtQueued + 1 /\ iqsem' = Up(iqsem)
        /\ ipoqueue'.stray = ipoqueue.stray /\ ipoqueue'.lost >= ipoqueue.lost
        /\ ipoqueue'.lost = 0 => ipoqueue.lost = 0 /\ (NtRun => NtRun')
    BY <1>1, <1>2, <1>6, <2>2, IpEnqueueIs DEF IpEnqueue
  <2>4. SemaSound(nbsem') /\ Waiters(nbsem') \subseteq Waiters(s) /\ nbsem'.n = s.n + 1
    BY <1>1, <1>6, UpNIs
  <2>5. SemaSound(iqsem') /\ iqsem'.n = iqsem.n + 1 /\ Waiters(iqsem') \subseteq Waiters(iqsem)
    BY <1>2, <2>3, UpIs
  <2>6. NtOutput'
    <3>1. iqsem'.n = NtQueued' - (IF ntproc'[IPOUT].at = "fetch" THEN 1 ELSE 0)
      <4>1. CASE ntproc[IPOUT].at = "fetch"
        BY <1>2, <1>4, <2>3, <2>5, <4>1 DEF NtOutput
      <4>2. CASE ntproc[IPOUT].at # "fetch"
        BY <1>2, <1>4, <2>3, <2>5, <4>2 DEF NtOutput
      <4> QED  BY <4>1, <4>2
    <3>2. iqsem'.n <= IP_OQSIZ
      BY <1>2, <2>1, <2>5
    <3>3. /\ ipoqueue'.stray => ipoqueue'.lost > 0
          /\ ipoqueue'.lost = 0 => NtRun'
      <4>1. ipoqueue.lost \in Nat /\ ipoqueue'.lost \in Nat
        BY <1>2, <2>3 DEF NtRings
      <4> QED  BY <1>2, <2>3, <4>1 DEF NtOutput
    <3> QED  BY <1>2, <1>4, <2>5, <3>1, <3>2, <3>3 DEF NtOutput
  <2>7. nbsem'.n = nbsem.n + NtClaim(ntproc[p].at) - 1
    BY <1>2, <2>4
  <2> QED  BY <1>1, <2>3, <2>4, <2>6, <2>7, NtEndKeeps
<1> QED  BY <1>5, <1>6

\* icmp_in, on an echo request: a second buffer, for the answer.
LEMMA IcmpEchoKeeps ==
  ASSUME NtInv, ~icstray, NEW p \in Procs,
         NEW packet \in NtPackets, NEW s, NtHand(p, s), IcmpEcho(p, s, packet)
  PROVE  NtInv'
<1>1. /\ SemaSound(s) /\ Waiters(s) \subseteq Waiters(nbsem) /\ p \notin Waiters(s)
      /\ ntproc[p].at \in {"user", "read", "buffer", "send"}
      /\ NtClaim(ntproc[p].at) = s.n - nbsem.n + 1
  BY DEF NtHand
<1>2. /\ SemaSound(Down(s, p)) /\ Down(s, p).n = s.n - 1
      /\ Waiters(Down(s, p)) = IF Blocks(s) THEN Waiters(s) \cup {p} ELSE Waiters(s)
  BY <1>1, DownIs
<1>3. s.n \in Int /\ nbsem.n \in Int
  BY <1>1, NtFields DEF SemaSound
<1>4. CASE Blocks(s)
  <2>1. nbsem' = Down(s, p) /\ Goto(p, "answer", -1, packet) /\ UNCHANGED <<mail, ipvars>>
    BY <1>4 DEF IcmpEcho
  <2>2. "answer" \in NtPlaces /\ -1 \in Int
    BY DEF NtPlaces
  <2>3. /\ ntproc' \in [Procs -> NtWhere] /\ \A q \in Procs : NtCarries(ntproc'[q])
        /\ ntproc'[p].at = "answer" /\ \A q \in Procs \ {p} : ntproc'[q] = ntproc[q]
        /\ NtClaimed \in Int /\ NtClaimed' = NtClaimed + NtClaim("answer") - NtClaim(ntproc[p].at)
    BY <2>1, <2>2, GotoIs
  <2>4. UNCHANGED <<mail, arpcache, udptab, icmptab, icstray, ipoqueue, iqsem>>
    BY <2>1 DEF ipvars
  <2>5. NtTypes'
    BY <2>3, <2>4, NtFields, NtTyped
  <2>6. NtSame("udp") /\ NtSame("icmp") /\ NtSame("arp")
    BY <1>1, <2>3, <2>4, NtOthers
  <2>7. NtUdpTold' /\ NtUdpSum' = NtUdpSum /\ NtIcmpTold' /\ NtIcmpSum' = NtIcmpSum /\ NtArpTold'
    BY <2>4, <2>6, NtUdpFrame, NtIcmpFrame, NtArpFrame
  <2>8. NtPool'
    BY <1>1, <1>2, <2>1, <2>3, NtPoolKeeps
  <2>9. NtOutput'
    <3>1. ntproc'[IPOUT].at = "fetch" <=> ntproc[IPOUT].at = "fetch"
      BY <1>1, <2>3, NetAssumption
    <3> QED  BY <2>4, <3>1, NtOutputFrame
  <2>10. NtBounds'
    BY <2>4 DEF NtInv, NtBounds
  <2>11. NtCounted'
    <3> DEFINE k == NtClaim(ntproc[p].at) - 2
    <3>1. NtClaim("answer") = 2 /\ NtClaim(ntproc[p].at) \in Int
      BY DEF NtClaim
    <3>2. k \in Int /\ NtClaimed' = NtClaimed - k
      BY <2>3, <3>1
    <3>3. nbsem'.n = nbsem.n + k - 0
      BY <1>1, <1>2, <1>3, <2>1, <3>1
    <3>4. NtStored' = NtStored + 0
      <4>1. NtStored' = NtStored /\ NtStored \in Int
        BY <2>4, <2>7, NtFields, NtQueuedFrame DEF NtStored
      <4> QED  BY <4>1
    <3> HIDE DEF k
    <3> QED  BY <2>3, <3>2, <3>3, <3>4, NtCountedKeeps
  <2> QED  BY <2>5, <2>7, <2>8, <2>9, <2>10, <2>11 DEF NtInv
<1>5. CASE ~Blocks(s)
  <2>1. IcmpAnswer(p, Down(s, p), packet)
    BY <1>5 DEF IcmpEcho
  <2>2. Return(p)
    BY <2>1 DEF IcmpAnswer
  <2>3. NtAway(p)
    BY <1>1, <2>2, ReturnIs DEF NtAway, NtWaits
  <2>4. NtClaim(ntproc[p].at) = Down(s, p).n - nbsem.n + 2
    BY <1>1, <1>2, <1>3
  <2>5. ntproc[p].at # "fetch" /\ Waiters(Down(s, p)) \subseteq Waiters(nbsem) /\ p \notin Waiters(Down(s, p))
    BY <1>1, <1>2, <1>5
  <2> HIDE DEF NtInv
  <2> QED  BY <1>2, <2>1, <2>3, <2>4, <2>5, IcmpAnswerKeeps
<1> QED  BY <1>4, <1>5

\* ip_local: a packet for this host, for whichever protocol (ip.c).
LEMMA IpLocalKeeps ==
  ASSUME NtInv, ~icstray, NEW p \in Procs, NEW packet \in NtPackets,
         NEW s, NtHand(p, s), IpLocal(p, s, packet)
  PROVE  NtInv'
<1>1. /\ SemaSound(s) /\ Waiters(s) \subseteq Waiters(nbsem) /\ p \notin Waiters(s)
      /\ ntproc[p].at \in {"user", "read", "buffer", "send"}
      /\ NtClaim(ntproc[p].at) = s.n - nbsem.n + 1
  BY DEF NtHand
<1>2. s.n \in Int /\ nbsem.n \in Int /\ NtClaim(ntproc[p].at) \in Int
  BY <1>1, NtFields DEF SemaSound, NtClaim
<1>3. Return(p) => /\ NtAway(p) /\ ntproc'[p].at \in {"user", "next"}
                   /\ ntproc' \in [Procs -> NtWhere] /\ \A q \in Procs : NtCarries(ntproc'[q])
                   /\ \A q \in Procs \ {p} : ntproc'[q] = ntproc[q]
                   /\ NtClaimed \in Int /\ NtClaimed' = NtClaimed - NtClaim(ntproc[p].at)
  BY <1>1, ReturnIs DEF NtAway, NtWaits
<1>4. CASE IcmpEcho(p, s, packet)
  BY <1>4, IcmpEchoKeeps
<1>5. ASSUME UdpIn(s, packet), Return(p), UNCHANGED <<arpcache, icmptab, icstray, ipoqueue, iqsem>>
      PROVE  NtInv'
  <2>1. /\ udptab' \in NtUdTabs /\ \A i \in UdSlots : Len(udptab'[i].queue) <= UDP_QSIZ
        /\ mail' \subseteq Procs /\ NtUdpTold' /\ NtSame("icmp") /\ NtSame("arp")
        /\ SemaSound(nbsem') /\ Waiters(nbsem') \subseteq Waiters(s)
        /\ \E d \in Int : NtUdpSum' = NtUdpSum + d /\ nbsem'.n = s.n + 1 - d
    BY <1>1, <1>3, <1>5, UdpInKeeps
  <2>2. PICK d \in Int : NtUdpSum' = NtUdpSum + d /\ nbsem'.n = s.n + 1 - d
    BY <2>1
  <2>3. NtTypes'
    BY <1>3, <1>5, <2>1, NtFields, NtTyped
  <2>4. NtIcmpTold' /\ NtIcmpSum' = NtIcmpSum /\ NtArpTold'
    BY <1>5, <2>1, NtIcmpFrame, NtArpFrame
  <2>5. NtPool'
    BY <1>1, <1>3, <1>5, <2>1, NtPoolKeeps
  <2>6. NtOutput'
    <3>1. ntproc'[IPOUT].at = "fetch" <=> ntproc[IPOUT].at = "fetch"
      BY <1>1, <1>3, <1>5, NetAssumption
    <3> QED  BY <1>5, <3>1, NtOutputFrame
  <2>7. NtBounds'
    BY <1>5, <2>1 DEF NtInv, NtBounds
  <2>8. NtCounted'
    <3>1. NtStored' = NtStored + d
      <4>1. NtUdpSum \in Int /\ NtIcmpSum \in Int /\ NtQueued \in Int
        BY NtFields
      <4> QED  BY <1>5, <2>2, <2>4, <4>1, NtQueuedFrame DEF NtStored
    <3>2. nbsem'.n = nbsem.n + NtClaim(ntproc[p].at) - d
      BY <1>1, <1>2, <2>2
    <3> QED  BY <1>2, <1>3, <1>5, <3>1, <3>2, NtCountedKeeps
  <2> QED  BY <2>1, <2>3, <2>4, <2>5, <2>6, <2>7, <2>8 DEF NtInv
<1>6. ASSUME IcmpReply(s, packet), Return(p), UNCHANGED <<arpcache, udptab, ipoqueue, iqsem>>
      PROVE  NtInv'
  <2>1. /\ icmptab' \in NtIcTabs /\ icstray' \in BOOLEAN
        /\ ~icstray' => \A i \in IcSlots : icmptab'[i].count <= ICMP_QSIZ
        /\ mail' \subseteq Procs /\ NtIcmpTold' /\ NtSame("udp") /\ NtSame("arp")
        /\ SemaSound(nbsem') /\ Waiters(nbsem') \subseteq Waiters(s)
        /\ \E d \in Int : NtIcmpSum' = NtIcmpSum + d /\ nbsem'.n = s.n + 1 - d
    BY <1>1, <1>3, <1>6, IcmpReplyKeeps
  <2>2. PICK d \in Int : NtIcmpSum' = NtIcmpSum + d /\ nbsem'.n = s.n + 1 - d
    BY <2>1
  <2>3. NtTypes'
    BY <1>3, <1>6, <2>1, NtFields, NtTyped
  <2>4. NtUdpTold' /\ NtUdpSum' = NtUdpSum /\ NtArpTold'
    BY <1>6, <2>1, NtUdpFrame, NtArpFrame
  <2>5. NtPool'
    BY <1>1, <1>3, <1>6, <2>1, NtPoolKeeps
  <2>6. NtOutput'
    <3>1. ntproc'[IPOUT].at = "fetch" <=> ntproc[IPOUT].at = "fetch"
      BY <1>1, <1>3, <1>6, NetAssumption
    <3> QED  BY <1>6, <3>1, NtOutputFrame
  <2>7. NtBounds'
    BY <1>6, <2>1 DEF NtInv, NtBounds
  <2>8. NtCounted'
    <3>1. NtStored' = NtStored + d
      <4>1. NtUdpSum \in Int /\ NtIcmpSum \in Int /\ NtQueued \in Int
        BY NtFields
      <4> QED  BY <1>6, <2>2, <2>4, <4>1, NtQueuedFrame DEF NtStored
    <3>2. nbsem'.n = nbsem.n + NtClaim(ntproc[p].at) - d
      BY <1>1, <1>2, <2>2
    <3> QED  BY <1>2, <1>3, <1>6, <3>1, <3>2, NtCountedKeeps
  <2> QED  BY <2>1, <2>3, <2>4, <2>5, <2>6, <2>7, <2>8 DEF NtInv
<1> QED  BY <1>4, <1>5, <1>6 DEF IpLocal

\* A packet is dropped, or given to the Ethernet driver: its buffer is freed (ip.c).
LEMMA IpOutKeeps ==
  ASSUME NtInv, NEW p \in Procs, NEW s, NtHand(p, s), IpOut(p, s)
  PROVE  NtInv'
<1>1. /\ SemaSound(s) /\ Waiters(s) \subseteq Waiters(nbsem) /\ p \notin Waiters(s)
      /\ ntproc[p].at \in {"user", "read", "buffer", "send"}
      /\ NtClaim(ntproc[p].at) = s.n - nbsem.n + 1
  BY DEF NtHand
<1>2. s.n \in Int /\ nbsem.n \in Int
  BY <1>1, NtFields DEF SemaSound
<1>3. /\ nbsem' = UpN(s, 1) /\ Return(p)
      /\ UNCHANGED <<mail, arpcache, udptab, icmptab, icstray, ipoqueue, iqsem>>
  BY DEF IpOut, Free, ipvars
<1>4. /\ NtAway(p) /\ ntproc'[p].at \in {"user", "next"} /\ \A q \in Procs \ {p} : ntproc'[q] = ntproc[q]
  BY <1>1, <1>3, ReturnIs DEF NtAway, NtWaits
<1>5. SemaSound(nbsem') /\ Waiters(nbsem') \subseteq Waiters(s) /\ nbsem'.n = s.n + 1
  BY <1>1, <1>3, UpNIs
<1>6. NtOutput'
  <2>1. ntproc'[IPOUT].at = "fetch" <=> ntproc[IPOUT].at = "fetch"
    BY <1>1, <1>4, NetAssumption
  <2> QED  BY <1>3, <2>1, NtOutputFrame
<1>7. ipoqueue' \in NtRings  /\ NtQueued' = NtQueued + 0
  BY <1>3, NtFields, NtQueuedFrame
<1>8. nbsem'.n = nbsem.n + NtClaim(ntproc[p].at) - 0
  BY <1>1, <1>2, <1>5
<1>9. Return(p) /\ UNCHANGED <<mail, arpcache, udptab, icmptab, icstray>> /\ NtAway(p)
  BY <1>3, <1>4
<1> HIDE DEF NtInv
<1> QED  BY <1>1, <1>5, <1>6, <1>7, <1>8, <1>9, NtEndKeeps

-----------------------------------------------------------------------------
(* ARP *)

\* The entry arp_alloc picks is one that nobody waits for (arp.c).
LEMMA ArpVictimIs ==
  ASSUME NtInv, ArpVictims # {}
  PROVE  First(ArpVictims) \in ArpSlots /\ arpcache[First(ArpVictims)].state # "pending"
<1>1. ArpVictims \subseteq Nat
  BY ArpAssumption DEF ArpVictims, ArpWith, ArpSlots
<1>2. First(ArpVictims) \in ArpVictims
  BY <1>1, LeastIn DEF First
<1> QED  BY <1>2 DEF ArpVictims, ArpWith

\* An entry that nobody waits for, found or not, may become anything that nobody waits for.
LEMMA ArpOther ==
  ASSUME NtInv, NtSame("arp"), NEW v \in ArpSlots, arpcache[v].state # "pending",
         NEW e, e.state # "pending", arpcache' = [arpcache EXCEPT ![v] = e]
  PROVE  NtArpTold'
<1>1. NtArpTold /\ arpcache \in NtArTabs
  BY NtFields DEF NtInv
<1>2. /\ arpcache'[v] = e /\ \A i \in ArpSlots : i # v => arpcache'[i] = arpcache[i]
      /\ \A i \in ArpSlots : /\ arpcache'[i].state = "pending" <=> arpcache[i].state = "pending"
                             /\ arpcache[i].state = "pending" => arpcache'[i] = arpcache[i]
  BY <1>1 DEF NtArTabs
<1>3. ASSUME NEW i \in ArpSlots, arpcache'[i].state = "pending"
      PROVE  LET q == arpcache'[i].pid IN
             /\ q \in Procs /\ q \notin mail' /\ ntproc'[q].at = "arp"
             /\ NextHop(ntproc'[q].packet.dst) = arpcache'[i].addr
             /\ \A j \in ArpSlots : arpcache'[j].state = "pending" /\ arpcache'[j].pid = q => j = i
  <2> DEFINE q == arpcache[i].pid
  <2>1. arpcache[i].state = "pending" /\ arpcache'[i] = arpcache[i]
    BY <1>2, <1>3
  <2>2. /\ q \in Procs /\ q \notin mail /\ ntproc[q].at = "arp"
        /\ NextHop(ntproc[q].packet.dst) = arpcache[i].addr
        /\ \A j \in ArpSlots : arpcache[j].state = "pending" /\ arpcache[j].pid = q => j = i
    BY <1>1, <2>1 DEF NtArpTold
  <2>3. ntproc'[q].at = "arp" /\ ntproc'[q].packet = ntproc[q].packet /\ q \notin mail'
    BY <2>2 DEF NtSame
  <2>4. \A j \in ArpSlots : arpcache'[j].state = "pending" /\ arpcache'[j].pid = q => j = i
    BY <1>2, <2>2
  <2> QED  BY <2>1, <2>2, <2>3, <2>4
<1>4. ASSUME NEW q \in Procs, ntproc'[q].at = "arp"
      PROVE  q \in mail' \/ \E i \in ArpSlots : arpcache'[i].state = "pending" /\ arpcache'[i].pid = q
  <2>1. q \in mail \/ \E i \in ArpSlots : arpcache[i].state = "pending" /\ arpcache[i].pid = q
    BY <1>1, <1>4 DEF NtArpTold, NtSame
  <2>2. CASE q \in mail
    BY <1>4, <2>2 DEF NtSame
  <2>3. CASE \E i \in ArpSlots : arpcache[i].state = "pending" /\ arpcache[i].pid = q
    BY <1>2, <2>3
  <2> QED  BY <2>1, <2>2, <2>3
<1> QED  BY <1>3, <1>4 DEF NtArpTold, NextHop

\* A call ends that has to do with ARP only: its packet's buffer is freed.
LEMMA NtArpEndKeeps ==
  ASSUME NtInv, NEW p \in Procs, Return(p), ntproc[p].at \in {"read", "arp"}, p \notin Waiters(nbsem),
         nbsem' = UpN(nbsem, 1), NtSame("udp"), NtSame("icmp"), mail' \subseteq Procs,
         arpcache' \in NtArTabs, NtArpTold', UNCHANGED <<udptab, icmptab, icstray, ipoqueue, iqsem>>
  PROVE  NtInv'
<1>1. /\ ntproc' \in [Procs -> NtWhere] /\ \A q \in Procs : NtCarries(ntproc'[q])
      /\ ntproc'[p].at \in {"user", "next"} /\ \A q \in Procs \ {p} : ntproc'[q] = ntproc[q]
      /\ NtClaimed \in Int /\ NtClaimed' = NtClaimed - NtClaim(ntproc[p].at)
  BY ReturnIs
<1>2. SemaSound(nbsem') /\ Waiters(nbsem') \subseteq Waiters(nbsem) /\ nbsem'.n = nbsem.n + 1
  BY NtFields, UpNIs
<1>3. NtTypes'
  BY <1>1, NtFields, NtTyped
<1>4. NtUdpTold' /\ NtUdpSum' = NtUdpSum /\ NtIcmpTold' /\ NtIcmpSum' = NtIcmpSum
  BY NtUdpFrame, NtIcmpFrame
<1>5. NtPool'
  BY <1>1, <1>2, NtPoolKeeps
<1>6. NtOutput'
  <2>1. ntproc'[IPOUT].at = "fetch" <=> ntproc[IPOUT].at = "fetch"
    BY <1>1, NetAssumption
  <2> QED  BY <2>1, NtOutputFrame
<1>7. NtBounds'
  BY DEF NtInv, NtBounds
<1>8. NtCounted'
  <2>1. NtClaim(ntproc[p].at) = 1
    BY DEF NtClaim
  <2>2. NtStored' = NtStored /\ NtStored \in Int
    BY <1>4, NtFields, NtQueuedFrame DEF NtStored
  <2>3. NtStored' = NtStored + 0 /\ nbsem'.n = nbsem.n + 1 - 0 /\ NtClaimed' = NtClaimed - 1
    BY <1>1, <1>2, <2>1, <2>2, NtFields
  <2> QED  BY <1>1, <2>3, NtCountedKeeps
<1> QED  BY <1>3, <1>4, <1>5, <1>6, <1>7, <1>8 DEF NtInv

\* arp_in: who waits for the address is told, and nobody else (arp.c).
LEMMA ArpInKeeps ==
  ASSUME NtInv, NEW p \in Procs, NtAway(p), NEW kind, NEW src \in Hosts, ArpIn(kind, src)
  PROVE  /\ arpcache' \in NtArTabs /\ NtArpTold' /\ mail' \subseteq Procs
         /\ NtSame("udp") /\ NtSame("icmp")
<1>1. arpcache \in NtArTabs /\ mail \subseteq Procs /\ NtArpTold
  BY NtFields DEF NtInv
<1> DEFINE found == ArpOf(src)
           i == First(found)
<1>2. CASE found # {}
  <2> DEFINE o == arpcache[i].pid
  <2>1. i \in ArpSlots
    <3>1. found \subseteq Nat
      BY ArpAssumption DEF ArpOf, ArpSlots
    <3>2. i \in found
      BY <1>2, <3>1, LeastIn DEF First
    <3> QED  BY <3>2 DEF ArpOf
  <2>2. /\ arpcache' = [arpcache EXCEPT ![i].state = "resolved"]
        /\ IF arpcache[i].state = "pending" THEN mail' = mail \cup {o} ELSE mail' = mail
    BY <1>2 DEF ArpIn, Post
  <2> HIDE DEF i
  <2>3. /\ arpcache' \in NtArTabs /\ arpcache'[i].state = "resolved"
        /\ \A j \in ArpSlots : j # i => arpcache'[j] = arpcache[j]
    BY <1>1, <2>1, <2>2 DEF NtArTabs
  <2>4. arpcache[i].state = "pending" =>
          /\ o \in Procs /\ ntproc[o].at = "arp" /\ o # p
          /\ \A j \in ArpSlots : arpcache[j].state = "pending" /\ arpcache[j].pid = o => j = i
    BY <1>1, <2>1 DEF NtArpTold, NtAway, NtWaits
  <2>5. mail' \subseteq Procs /\ NtSame("udp") /\ NtSame("icmp")
    BY <1>1, <2>2, <2>4 DEF NtSame, NtAway, NtWaits
  <2>6. ASSUME NEW j \in ArpSlots, arpcache'[j].state = "pending"
        PROVE  LET q == arpcache'[j].pid IN
               /\ q \in Procs /\ q \notin mail' /\ ntproc'[q].at = "arp"
               /\ NextHop(ntproc'[q].packet.dst) = arpcache'[j].addr
               /\ \A l \in ArpSlots : arpcache'[l].state = "pending" /\ arpcache'[l].pid = q => l = j
    <3> DEFINE q == arpcache[j].pid
    <3>1. j # i /\ arpcache'[j] = arpcache[j] /\ arpcache[j].state = "pending"
      BY <2>3, <2>6
    <3>2. /\ q \in Procs /\ q \notin mail /\ ntproc[q].at = "arp"
          /\ NextHop(ntproc[q].packet.dst) = arpcache[j].addr
          /\ \A l \in ArpSlots : arpcache[l].state = "pending" /\ arpcache[l].pid = q => l = j
      BY <1>1, <3>1 DEF NtArpTold
    <3>3. q # p /\ ntproc'[q] = ntproc[q]
      BY <3>2 DEF NtAway, NtWaits
    <3>4. q \notin mail'
      BY <2>1, <2>2, <2>4, <3>1, <3>2
    <3>5. \A l \in ArpSlots : arpcache'[l].state = "pending" /\ arpcache'[l].pid = q => l = j
      BY <2>3, <3>2
    <3> QED  BY <3>1, <3>2, <3>3, <3>4, <3>5
  <2>7. ASSUME NEW q \in Procs, ntproc'[q].at = "arp"
        PROVE  q \in mail' \/ \E j \in ArpSlots : arpcache'[j].state = "pending" /\ arpcache'[j].pid = q
    <3>1. ntproc[q].at = "arp"
      BY <2>7 DEF NtAway, NtWaits
    <3>2. CASE q \in mail
      BY <2>2, <3>2
    <3>3. CASE \E j \in ArpSlots : arpcache[j].state = "pending" /\ arpcache[j].pid = q
      BY <2>2, <2>3, <3>3
    <3> QED  BY <1>1, <3>1, <3>2, <3>3 DEF NtArpTold
  <2>8. NtArpTold'
    BY <2>6, <2>7 DEF NtArpTold, NextHop
  <2> QED  BY <2>3, <2>5, <2>8
<1>3. CASE found = {}
  <2> DEFINE e == [state |-> "resolved", addr |-> src, pid |-> NoProc]
  <2>1. /\ mail' = mail
        /\ arpcache' = IF kind = "arp request" /\ ArpVictims # {}
                       THEN [arpcache EXCEPT ![First(ArpVictims)] = e] ELSE arpcache
    BY <1>3 DEF ArpIn
  <2>2. \A at \in NtWaits : NtSame(at)
    BY <2>1, NtOthers DEF NtAway
  <2>3. CASE kind = "arp request" /\ ArpVictims # {}
    <3> DEFINE v == First(ArpVictims)
    <3>1. v \in ArpSlots /\ arpcache[v].state # "pending"
      BY <2>3, ArpVictimIs
    <3>2. arpcache' = [arpcache EXCEPT ![v] = e] /\ e.state # "pending"
      BY <2>1, <2>3
    <3>3. e \in [state : {"free", "pending", "resolved"}, addr : NtEnds, pid : Procs \cup {NoProc}]
      BY DEF NtEnds
    <3> HIDE DEF v, e
    <3>4. NtArpTold'
      BY <2>2, <3>1, <3>2, ArpOther DEF NtWaits
    <3>5. arpcache' \in NtArTabs
      BY <1>1, <3>1, <3>2, <3>3 DEF NtArTabs
    <3> QED  BY <1>1, <2>1, <2>2, <3>4, <3>5 DEF NtWaits
  <2>4. CASE ~(kind = "arp request" /\ ArpVictims # {})
    BY <1>1, <2>1, <2>2, <2>4, NtArpFrame DEF NtWaits
  <2> QED  BY <2>3, <2>4
<1> QED  BY <1>2, <1>3

\* arp_resolve, when it has to wait: the caller has a pending entry of its own (arp.c).
LEMMA ArpAskKeeps ==
  ASSUME NtInv, NEW p \in Procs, NEW packet \in NtPackets, NEW s, NtHand(p, s),
         NEW hop, hop = NextHop(packet.dst), ~ArpKnown(hop), ~ArpFails(hop), ArpAsk(p, hop),
         mail' = mail \ {p}, nbsem' = s, Goto(p, "arp", -1, packet),
         UNCHANGED <<udptab, icmptab, icstray, ipoqueue, iqsem>>
  PROVE  NtInv'
<1>1. /\ SemaSound(s) /\ Waiters(s) \subseteq Waiters(nbsem) /\ p \notin Waiters(s)
      /\ ntproc[p].at \in {"user", "read", "buffer", "send"}
      /\ NtClaim(ntproc[p].at) = s.n - nbsem.n + 1
  BY DEF NtHand
<1>2. s.n \in Int /\ nbsem.n \in Int
  BY <1>1, NtFields DEF SemaSound
<1>3. "arp" \in NtPlaces /\ -1 \in Int
  BY DEF NtPlaces
<1>4. /\ ntproc' \in [Procs -> NtWhere] /\ \A q \in Procs : NtCarries(ntproc'[q])
      /\ ntproc'[p].at = "arp" /\ ntproc'[p].packet = packet
      /\ \A q \in Procs \ {p} : ntproc'[q] = ntproc[q]
      /\ NtClaimed \in Int /\ NtClaimed' = NtClaimed + NtClaim("arp") - NtClaim(ntproc[p].at)
  BY <1>3, GotoIs
<1>5. arpcache \in NtArTabs /\ mail \subseteq Procs /\ NtArpTold
  BY NtFields DEF NtInv
<1> DEFINE v == First(ArpVictims)
           e == [state |-> "pending", addr |-> hop, pid |-> p]
<1>6. v \in ArpSlots /\ arpcache[v].state # "pending"
  <2>1. ArpVictims # {}
    BY DEF ArpFails
  <2> QED  BY <2>1, ArpVictimIs
<1>7. hop \in NtEnds
  BY DEF NextHop, NtEnds, NtPackets
<1>8. /\ arpcache' = [arpcache EXCEPT ![v] = e] /\ e.state = "pending" /\ e.addr = hop /\ e.pid = p
      /\ e \in [state : {"free", "pending", "resolved"}, addr : NtEnds, pid : Procs \cup {NoProc}]
  BY <1>7 DEF ArpAsk
<1> HIDE DEF v, e
<1>9. /\ arpcache' \in NtArTabs /\ arpcache'[v] = e
      /\ \A i \in ArpSlots : i # v => arpcache'[i] = arpcache[i]
  BY <1>5, <1>6, <1>8 DEF NtArTabs
<1>10. ASSUME NEW i \in ArpSlots, arpcache'[i].state = "pending"
       PROVE  LET q == arpcache'[i].pid IN
              /\ q \in Procs /\ q \notin mail' /\ ntproc'[q].at = "arp"
              /\ NextHop(ntproc'[q].packet.dst) = arpcache'[i].addr
              /\ \A j \in ArpSlots : arpcache'[j].state = "pending" /\ arpcache'[j].pid = q => j = i
  <2>1. CASE i = v
    <3>1. \A j \in ArpSlots : arpcache'[j].state = "pending" /\ arpcache'[j].pid = p => j = i
      BY <1>1, <1>5, <1>9, <2>1 DEF NtArpTold
    <3> QED  BY <1>4, <1>8, <1>9, <2>1, <3>1
  <2>2. CASE i # v
    <3> DEFINE q == arpcache[i].pid
    <3>1. arpcache'[i] = arpcache[i] /\ arpcache[i].state = "pending"
      BY <1>9, <1>10, <2>2
    <3>2. /\ q \in Procs /\ q \notin mail /\ ntproc[q].at = "arp"
          /\ NextHop(ntproc[q].packet.dst) = arpcache[i].addr
          /\ \A j \in ArpSlots : arpcache[j].state = "pending" /\ arpcache[j].pid = q => j = i
      BY <1>5, <3>1 DEF NtArpTold
    <3>3. q # p /\ ntproc'[q] = ntproc[q]
      BY <1>1, <1>4, <3>2
    <3>4. \A j \in ArpSlots : arpcache'[j].state = "pending" /\ arpcache'[j].pid = q => j = i
      BY <1>8, <1>9, <3>2, <3>3
    <3> QED  BY <3>1, <3>2, <3>3, <3>4
  <2> QED  BY <2>1, <2>2
<1>11. ASSUME NEW q \in Procs, ntproc'[q].at = "arp"
       PROVE  q \in mail' \/ \E i \in ArpSlots : arpcache'[i].state = "pending" /\ arpcache'[i].pid = q
  <2>1. CASE q = p
    BY <1>6, <1>8, <1>9, <2>1
  <2>2. CASE q # p
    <3>1. q \in mail \/ \E i \in ArpSlots : arpcache[i].state = "pending" /\ arpcache[i].pid = q
      BY <1>4, <1>5, <1>11, <2>2 DEF NtArpTold
    <3>2. CASE q \in mail
      BY <2>2, <3>2
    <3>3. CASE \E i \in ArpSlots : arpcache[i].state = "pending" /\ arpcache[i].pid = q
      BY <1>6, <1>9, <3>3
    <3> QED  BY <3>1, <3>2, <3>3
  <2> QED  BY <2>1, <2>2
<1>12. NtArpTold'
  BY <1>10, <1>11 DEF NtArpTold, NextHop
<1>13. NtTypes'
  BY <1>4, <1>9, NtFields, NtTyped
<1>14. NtSame("udp") /\ NtSame("icmp")
  BY <1>1, <1>4, NtOthers
<1>15. NtUdpTold' /\ NtUdpSum' = NtUdpSum /\ NtIcmpTold' /\ NtIcmpSum' = NtIcmpSum
  BY <1>14, NtUdpFrame, NtIcmpFrame
<1>16. NtPool'
  BY <1>1, <1>4, NtPoolKeeps
<1>17. NtOutput'
  <2>1. ntproc'[IPOUT].at = "fetch" <=> ntproc[IPOUT].at = "fetch"
    BY <1>1, <1>4, NetAssumption
  <2> QED  BY <2>1, NtOutputFrame
<1>18. NtBounds'
  BY DEF NtInv, NtBounds
<1>19. NtCounted'
  <2> DEFINE k == NtClaim(ntproc[p].at) - 1
  <2>1. NtClaim("arp") = 1 /\ NtClaim(ntproc[p].at) \in Int
    BY DEF NtClaim
  <2>2. k \in Int /\ NtClaimed' = NtClaimed - k
    BY <1>4, <2>1
  <2>3. nbsem'.n = nbsem.n + k - 0
    BY <1>1, <1>2, <2>1
  <2>4. NtStored' = NtStored + 0
    <3>1. NtStored' = NtStored /\ NtStored \in Int
      BY <1>15, NtFields, NtQueuedFrame DEF NtStored
    <3> QED  BY <3>1
  <2> HIDE DEF k
  <2> QED  BY <1>4, <2>2, <2>3, <2>4, NtCountedKeeps
<1> QED  BY <1>12, <1>13, <1>15, <1>16, <1>17, <1>18, <1>19 DEF NtInv

\* ip_send (ip.c).
LEMMA IpSendKeeps ==
  ASSUME NtInv, ~icstray, NEW p \in Procs, NEW packet \in NtPackets,
         NEW s, NtHand(p, s), IpSend(p, s, packet)
  PROVE  NtInv'
<1> DEFINE hop == NextHop(packet.dst)
<1>1. CASE packet.dst = Me
  BY <1>1, IpLocalKeeps DEF IpSend
<1>2. CASE IpOut(p, s)
  BY <1>2, IpOutKeeps
<1>3. ASSUME ~ArpKnown(hop), ~ArpFails(hop), ArpAsk(p, hop), mail' = mail \ {p}, nbsem' = s,
             Goto(p, "arp", -1, packet), UNCHANGED <<udptab, icmptab, icstray, ipoqueue, iqsem>>
      PROVE  NtInv'
  BY <1>3, ArpAskKeeps
<1> QED  BY <1>1, <1>2, <1>3 DEF IpSend

\* The waiting time of arp_resolve is over: it asks again (arp.c).
LEMMA ArpAgainKeeps ==
  ASSUME NtInv, NEW p \in Procs, ArpAgain(p), UNCHANGED <<udptab, icmptab, icstray, ipoqueue, iqsem>>
  PROVE  NtInv'
<1> DEFINE w == [ntproc[p] EXCEPT !.try = @ + 1]
<1>1. /\ ntproc[p].at = "arp" /\ ntproc' = [ntproc EXCEPT ![p].try = @ + 1]
      /\ UNCHANGED <<mail, nbsem, arpcache>>
  BY DEF ArpAgain, NtRuns
<1>2. ntproc \in [Procs -> NtWhere] /\ NtCarries(ntproc[p])
  BY NtFields
<1>3. /\ w \in NtWhere /\ w.at = "arp" /\ w.slot = ntproc[p].slot /\ w.packet = ntproc[p].packet
      /\ ntproc' = [ntproc EXCEPT ![p] = w]
  BY <1>1, <1>2 DEF NtWhere
<1> HIDE DEF w
<1>4. NtCarries(w)
  BY <1>1, <1>2, <1>3 DEF NtCarries
<1>5. /\ ntproc' \in [Procs -> NtWhere] /\ \A q \in Procs : NtCarries(ntproc'[q])
      /\ ntproc'[p] = w /\ \A q \in Procs \ {p} : ntproc'[q] = ntproc[q]
      /\ NtClaimed \in Int /\ NtClaimed' = NtClaimed + NtClaim(w.at) - NtClaim(ntproc[p].at)
  BY <1>3, <1>4, NtMoves
<1>6. NtTypes'
  BY <1>1, <1>5, NtFields, NtTyped
<1>7. NtSame("udp") /\ NtSame("icmp") /\ NtSame("arp")
  BY <1>1, <1>3, <1>5 DEF NtSame
<1>8. NtUdpTold' /\ NtUdpSum' = NtUdpSum /\ NtIcmpTold' /\ NtIcmpSum' = NtIcmpSum /\ NtArpTold'
  BY <1>1, <1>7, NtUdpFrame, NtIcmpFrame, NtArpFrame
<1>9. NtPool'
  BY <1>1, <1>3, <1>5 DEF NtInv, NtPool, Waiters
<1>10. NtOutput'
  <2>1. ntproc'[IPOUT].at = "fetch" <=> ntproc[IPOUT].at = "fetch"
    BY <1>1, <1>3, <1>5, NetAssumption
  <2> QED  BY <2>1, NtOutputFrame
<1>11. NtBounds'
  BY <1>1 DEF NtInv, NtBounds
<1>12. NtCounted'
  <2>1. NtStored' = NtStored /\ NtStored \in Int /\ nbsem' = nbsem /\ nbsem.n \in Int
    BY <1>1, <1>8, NtFields, NtQueuedFrame DEF NtStored
  <2>2. NtClaim(w.at) = NtClaim(ntproc[p].at) /\ NtClaim(w.at) \in Int
    BY <1>1, <1>3 DEF NtClaim
  <2>3. NtClaimed' = NtClaimed - 0
    BY <1>5, <2>2
  <2>4. NtStored' = NtStored + 0 /\ nbsem'.n = nbsem.n + 0 - 0
    BY <2>1
  <2> QED  BY <1>5, <2>3, <2>4, NtCountedKeeps
<1> QED  BY <1>6, <1>8, <1>9, <1>10, <1>11, <1>12 DEF NtInv

\* Behind arp_resolve: told, or the entry is given up (ip.c).
LEMMA IpResolvedKeeps ==
  ASSUME NtInv, NEW p \in Procs, IpResolved(p)
  PROVE  NtInv'
<1>1. /\ ntproc[p].at = "arp" /\ p \notin Waiters(nbsem)
      /\ IF p \in mail THEN UNCHANGED arpcache ELSE ArpGiveUp(p)
      /\ mail' = mail \ {p} /\ nbsem' = UpN(nbsem, 1) /\ Return(p)
      /\ UNCHANGED <<udptab, icmptab, icstray, ipoqueue, iqsem>>
  BY DEF IpResolved, NtRuns, Free
<1>2. arpcache \in NtArTabs /\ mail \subseteq Procs /\ NtArpTold
  BY NtFields DEF NtInv
<1>3. /\ ntproc'[p].at \in {"user", "next"} /\ \A q \in Procs \ {p} : ntproc'[q] = ntproc[q]
  BY <1>1, ReturnIs
<1>4. NtSame("udp") /\ NtSame("icmp")
  BY <1>1, <1>3, NtOthers
<1>5. /\ arpcache' \in NtArTabs
      /\ \A i \in ArpSlots :
           /\ arpcache'[i].state = "pending" => arpcache'[i] = arpcache[i] /\ arpcache[i].pid # p
           /\ arpcache[i].state = "pending" /\ arpcache[i].pid # p => arpcache'[i] = arpcache[i]
  <2>1. CASE p \in mail
    <3>1. \A i \in ArpSlots : arpcache[i].state = "pending" => arpcache[i].pid # p
      BY <1>2, <2>1 DEF NtArpTold
    <3> QED  BY <1>1, <1>2, <2>1, <3>1
  <2>2. CASE p \notin mail
    <3>1. arpcache' = [i \in ArpSlots |-> IF arpcache[i].state = "pending" /\ arpcache[i].pid = p
                                          THEN [arpcache[i] EXCEPT !.state = "free"] ELSE arpcache[i]]
      BY <1>1, <2>2 DEF ArpGiveUp
    <3>2. \A i \in ArpSlots :
            /\ arpcache[i] \in [state : {"free", "pending", "resolved"}, addr : NtEnds,
                                pid : Procs \cup {NoProc}]
            /\ [arpcache[i] EXCEPT !.state = "free"] \in
                 [state : {"free", "pending", "resolved"}, addr : NtEnds, pid : Procs \cup {NoProc}]
            /\ [arpcache[i] EXCEPT !.state = "free"].state = "free"
      BY <1>2 DEF NtArTabs
    <3>3. arpcache' \in NtArTabs
      BY <3>1, <3>2 DEF NtArTabs
    <3>4. ASSUME NEW i \in ArpSlots
          PROVE  /\ arpcache'[i].state = "pending" => arpcache'[i] = arpcache[i] /\ arpcache[i].pid # p
                 /\ arpcache[i].state = "pending" /\ arpcache[i].pid # p => arpcache'[i] = arpcache[i]
      BY <3>1, <3>2
    <3> QED  BY <3>3, <3>4
  <2> QED  BY <2>1, <2>2
<1>6. ASSUME NEW i \in ArpSlots, arpcache'[i].state = "pending"
      PROVE  LET q == arpcache'[i].pid IN
             /\ q \in Procs /\ q \notin mail' /\ ntproc'[q].at = "arp"
             /\ NextHop(ntproc'[q].packet.dst) = arpcache'[i].addr
             /\ \A j \in ArpSlots : arpcache'[j].state = "pending" /\ arpcache'[j].pid = q => j = i
  <2> DEFINE q == arpcache[i].pid
  <2>1. arpcache'[i] = arpcache[i] /\ q # p /\ arpcache[i].state = "pending"
    BY <1>5, <1>6
  <2>2. /\ q \in Procs /\ q \notin mail /\ ntproc[q].at = "arp"
        /\ NextHop(ntproc[q].packet.dst) = arpcache[i].addr
        /\ \A j \in ArpSlots : arpcache[j].state = "pending" /\ arpcache[j].pid = q => j = i
    BY <1>2, <2>1 DEF NtArpTold
  <2>3. ntproc'[q] = ntproc[q] /\ q \notin mail'
    BY <1>1, <1>3, <2>1, <2>2
  <2>4. \A j \in ArpSlots : arpcache'[j].state = "pending" /\ arpcache'[j].pid = q => j = i
    BY <1>5, <2>2
  <2> QED  BY <2>1, <2>2, <2>3, <2>4
<1>7. ASSUME NEW q \in Procs, ntproc'[q].at = "arp"
      PROVE  q \in mail' \/ \E i \in ArpSlots : arpcache'[i].state = "pending" /\ arpcache'[i].pid = q
  <2>1. q # p /\ ntproc[q].at = "arp"
    BY <1>3, <1>7
  <2>2. q \in mail \/ \E i \in ArpSlots : arpcache[i].state = "pending" /\ arpcache[i].pid = q
    BY <1>2, <2>1 DEF NtArpTold
  <2> QED  BY <1>1, <1>5, <2>1, <2>2
<1>8. NtArpTold'
  BY <1>6, <1>7 DEF NtArpTold, NextHop
<1>9. mail' \subseteq Procs
  BY <1>1, <1>2
<1> QED  BY <1>1, <1>4, <1>5, <1>8, <1>9, NtArpEndKeeps

-----------------------------------------------------------------------------
(* The calls of programs *)

(* A step of p that neither begins nor ends with a claim to a buffer       *)
NtPasses(p) ==
  /\ ntproc' \in [Procs -> NtWhere] /\ \A q \in Procs : NtCarries(ntproc'[q])
  /\ \A q \in Procs \ {p} : ntproc'[q] = ntproc[q] /\ (q \in mail' <=> q \in mail)
  /\ ntproc'[p].at \notin {"fetch", "arp"} /\ ntproc[p].at \notin {"fetch", "arp"}
  /\ NtClaimed \in Int /\ NtClaimed' = NtClaimed
  /\ mail' \subseteq Procs /\ p \notin Waiters(nbsem)

\* What a call does that goes on without waiting for a buffer or ARP.
LEMMA NtPassesIs ==
  ASSUME NtInv, NEW p \in Procs, p \notin Waiters(nbsem), mail' = mail \/ mail' = mail \ {p},
         ntproc[p].at \in {"user", "udp", "icmp"},
         \/ ntproc' = ntproc
         \/ Return(p)
         \/ \E at \in {"udp", "icmp"}, i \in Int : Goto(p, at, i, NoPacket)
  PROVE  NtPasses(p)
<1>1. /\ ntproc \in [Procs -> NtWhere] /\ \A q \in Procs : NtCarries(ntproc[q])
      /\ mail' \subseteq Procs /\ \A q \in Procs \ {p} : q \in mail' <=> q \in mail
  BY NtFields
<1>2. NtClaim(ntproc[p].at) = 0 /\ NtClaim("udp") = 0 /\ NtClaim("icmp") = 0
  BY DEF NtClaim
<1>3. CASE ntproc' = ntproc
  <2> DEFINE w == ntproc[p]
  <2>1. w \in NtWhere /\ NtCarries(w) /\ ntproc' = [ntproc EXCEPT ![p] = w]
    BY <1>1, <1>3
  <2> HIDE DEF w
  <2>2. NtClaimed \in Int
    BY <2>1, NtMoves
  <2>3. NtClaimed' = NtClaimed
    BY <1>3 DEF NtClaimed, NtClaimers
  <2> QED  BY <1>1, <1>3, <2>2, <2>3 DEF NtPasses
<1>4. CASE Return(p)
  <2>1. /\ ntproc' \in [Procs -> NtWhere] /\ \A q \in Procs : NtCarries(ntproc'[q])
        /\ ntproc'[p].at \in {"user", "next"} /\ \A q \in Procs \ {p} : ntproc'[q] = ntproc[q]
        /\ NtClaimed \in Int /\ NtClaimed' = NtClaimed - NtClaim(ntproc[p].at)
    BY <1>4, ReturnIs
  <2>2. NtClaimed' = NtClaimed
    BY <1>2, <2>1
  <2> QED  BY <1>1, <2>1, <2>2 DEF NtPasses
<1>5. ASSUME NEW at \in {"udp", "icmp"}, NEW i \in Int, Goto(p, at, i, NoPacket)
      PROVE  NtPasses(p)
  <2>1. at \in NtPlaces /\ at \notin {"buffer", "answer", "arp", "send"}
    BY DEF NtPlaces
  <2>2. /\ ntproc' \in [Procs -> NtWhere] /\ \A q \in Procs : NtCarries(ntproc'[q])
        /\ ntproc'[p].at = at /\ \A q \in Procs \ {p} : ntproc'[q] = ntproc[q]
        /\ NtClaimed \in Int /\ NtClaimed' = NtClaimed + NtClaim(at) - NtClaim(ntproc[p].at)
    BY <1>5, <2>1, GotoIs
  <2>3. NtClaimed' = NtClaimed
    BY <1>2, <2>2
  <2> QED  BY <1>1, <2>2, <2>3 DEF NtPasses
<1> QED  BY <1>3, <1>4, <1>5

(* What a call of udp.c that ends makes of a slot, e: d packets fewer *)
NtUdpTurn(p, i, e, d) ==
  /\ NtPasses(p) /\ ntproc[p].at # "icmp" /\ ntproc'[p].at # "icmp"
  /\ udptab[i].state = "free" \/ udptab[i].owner = p
  /\ ntproc[p].at = "udp" => ntproc[p].slot = i
  /\ udptab' = [udptab EXCEPT ![i] = e] /\ Len(e.queue) <= UDP_QSIZ
  /\ e \in [state : {"free", "used", "receiving"}, rem : NtEnds, port : NtIds,
            queue : Seq(NtPackets), owner : Procs \cup {NoProc}]
  /\ e.state = "free" => e.queue = <<>>
  /\ e.state = "receiving" => /\ e.queue = <<>> /\ e.owner = p /\ p \notin mail'
                              /\ ntproc'[p].at = "udp" /\ ntproc'[p].slot = i
  /\ ntproc'[p].at = "udp" => e.state = "receiving"
  /\ Len(udptab[i].queue) = Len(e.queue) + d /\ nbsem'.n = nbsem.n + d
  /\ SemaSound(nbsem') /\ Waiters(nbsem') \subseteq Waiters(nbsem)

\* A call of udp.c that changes one slot, a free one or the caller's: nobody else waits there.
LEMMA NtUdpCall ==
  ASSUME NtInv, NEW p \in Procs, NEW i \in UdSlots, NEW e, NEW d \in Int,
         NtUdpTurn(p, i, e, d), UNCHANGED <<arpcache, icmptab, icstray, ipoqueue, iqsem>>
  PROVE  NtInv'
<1>0. /\ udptab[i].state = "free" \/ udptab[i].owner = p
      /\ ntproc[p].at = "udp" => ntproc[p].slot = i
      /\ udptab' = [udptab EXCEPT ![i] = e] /\ Len(e.queue) <= UDP_QSIZ
      /\ e \in [state : {"free", "used", "receiving"}, rem : NtEnds, port : NtIds,
                queue : Seq(NtPackets), owner : Procs \cup {NoProc}]
      /\ e.state = "free" => e.queue = <<>>
      /\ e.state = "receiving" => /\ e.queue = <<>> /\ e.owner = p /\ p \notin mail'
                                  /\ ntproc'[p].at = "udp" /\ ntproc'[p].slot = i
      /\ ntproc'[p].at = "udp" => e.state = "receiving"
  BY DEF NtUdpTurn
<1>00. /\ NtPasses(p) /\ ntproc[p].at # "icmp" /\ ntproc'[p].at # "icmp"
       /\ Len(udptab[i].queue) = Len(e.queue) + d /\ nbsem'.n = nbsem.n + d
       /\ SemaSound(nbsem') /\ Waiters(nbsem') \subseteq Waiters(nbsem)
  BY DEF NtUdpTurn
<1>1. /\ udptab \in NtUdTabs /\ NtUdpTold
      /\ \A j \in UdSlots : Len(udptab[j].queue) <= UDP_QSIZ
  BY NtFields DEF NtInv, NtBounds
<1>2. /\ ntproc' \in [Procs -> NtWhere] /\ \A q \in Procs : NtCarries(ntproc'[q])
      /\ \A q \in Procs \ {p} : ntproc'[q] = ntproc[q] /\ (q \in mail' <=> q \in mail)
      /\ ntproc'[p].at \notin {"fetch", "arp"} /\ ntproc[p].at \notin {"fetch", "arp"}
      /\ NtClaimed \in Int /\ NtClaimed' = NtClaimed
      /\ mail' \subseteq Procs /\ p \notin Waiters(nbsem)
  BY <1>00 DEF NtPasses
<1>3. /\ udptab' \in NtUdTabs /\ udptab'[i] = e
      /\ \A j \in UdSlots : j # i => udptab'[j] = udptab[j]
  BY <1>0, <1>1 DEF NtUdTabs
<1>4. \A j \in UdSlots : Len(udptab'[j].queue) <= UDP_QSIZ
  BY <1>0, <1>1, <1>3
<1>5. ASSUME NEW j \in UdSlots
      PROVE  /\ udptab'[j].state = "free" => udptab'[j].queue = <<>>
             /\ udptab'[j].state = "receiving" =>
               /\ udptab'[j].queue = <<>> /\ udptab'[j].owner \in Procs /\ udptab'[j].owner \notin mail'
               /\ ntproc'[udptab'[j].owner].at = "udp" /\ ntproc'[udptab'[j].owner].slot = j
  <2>1. CASE j = i
    BY <1>0, <1>3, <2>1
  <2>2. CASE j # i
    <3>1. /\ udptab'[j] = udptab[j]
          /\ udptab[j].state = "free" => udptab[j].queue = <<>>
          /\ udptab[j].state = "receiving" =>
            /\ udptab[j].queue = <<>> /\ udptab[j].owner \in Procs /\ udptab[j].owner \notin mail
            /\ ntproc[udptab[j].owner].at = "udp" /\ ntproc[udptab[j].owner].slot = j
      BY <1>1, <1>3, <2>2 DEF NtUdpTold
    <3>2. udptab[j].state = "receiving" => udptab[j].owner # p
      BY <1>0, <2>2, <3>1
    <3> QED  BY <1>2, <3>1, <3>2
  <2> QED  BY <2>1, <2>2
<1>6. ASSUME NEW q \in Procs, ntproc'[q].at = "udp"
      PROVE  LET k == ntproc'[q].slot IN
             /\ k \in UdSlots /\ udptab'[k].owner = q /\ udptab'[k].state # "free"
             /\ q \in mail' => udptab'[k].queue # <<>>
             /\ q \notin mail' => udptab'[k].state = "receiving"
  <2>1. CASE q = p
    BY <1>0, <1>3, <1>6, <2>1
  <2>2. CASE q # p
    <3> DEFINE k == ntproc[q].slot
    <3>1. ntproc'[q] = ntproc[q] /\ (q \in mail' <=> q \in mail)
      BY <1>2, <2>2
    <3>2. /\ k \in UdSlots /\ udptab[k].owner = q /\ udptab[k].state # "free"
          /\ q \in mail => udptab[k].queue # <<>>
          /\ q \notin mail => udptab[k].state = "receiving"
      BY <1>1, <1>6, <3>1 DEF NtUdpTold
    <3> HIDE DEF k
    <3>3. udptab'[k] = udptab[k]
      BY <1>0, <1>3, <2>2, <3>2
    <3> QED  BY <3>1, <3>2, <3>3 DEF k
  <2> QED  BY <2>1, <2>2
<1>7. NtUdpTold'
  BY <1>5, <1>6 DEF NtUdpTold
<1>8. NtUdpSum' = NtUdpSum - d
  <2>1. \A j \in UdSlots : j # i => udptab'[j].queue = udptab[j].queue
    BY <1>3
  <2>2. NtUdpSum \in Int /\ NtUdpSum' = NtUdpSum + Len(udptab'[i].queue) - Len(udptab[i].queue)
    BY <1>1, <1>3, <2>1, NtUdpSumIs
  <2>3. udptab'[i].queue = e.queue /\ Len(e.queue) \in Int
    BY <1>0, <1>3
  <2> DEFINE m == Len(e.queue)
  <2>4. m \in Int /\ NtUdpSum \in Int /\ NtUdpSum' = NtUdpSum + m - (m + d)
    BY <1>00, <2>2, <2>3
  <2> HIDE DEF m
  <2>5. \A x, y, z \in Int : x + y - (y + z) = x - z
    OBVIOUS
  <2> QED  BY <2>4, <2>5
<1>9. NtSame("icmp") /\ NtSame("arp")
  BY <1>00, <1>2, NtOthers
<1>10. NtIcmpTold' /\ NtIcmpSum' = NtIcmpSum /\ NtArpTold'
  BY <1>9, NtIcmpFrame, NtArpFrame
<1>11. NtTypes'
  BY <1>2, <1>3, NtFields, NtTyped
<1>12. NtPool'
  BY <1>00, <1>2, NtPoolKeeps
<1>13. NtOutput'
  <2>1. ntproc'[IPOUT].at = "fetch" <=> ntproc[IPOUT].at = "fetch"
    BY <1>2, NetAssumption
  <2> QED  BY <2>1, NtOutputFrame
<1>14. NtBounds'
  BY <1>4 DEF NtInv, NtBounds
<1>15. NtCounted'
  <2> DEFINE f == 0 - d
  <2>1. f \in Int /\ NtStored' = NtStored + f
    <3>1. NtUdpSum \in Int /\ NtIcmpSum \in Int /\ NtQueued \in Int
      BY NtFields
    <3> QED  BY <1>8, <1>10, <3>1, NtQueuedFrame DEF NtStored
  <2>2. nbsem'.n = nbsem.n + 0 - f /\ NtClaimed' = NtClaimed - 0
    BY <1>00, <1>2, NtFields
  <2> HIDE DEF f
  <2> QED  BY <1>2, <2>1, <2>2, NtCountedKeeps
<1> QED  BY <1>7, <1>10, <1>11, <1>12, <1>13, <1>14, <1>15 DEF NtInv

(* What a call of icmp.c that ends makes of a slot, e: d packets fewer *)
NtIcmpTurn(p, i, e, d) ==
  /\ NtPasses(p) /\ ntproc[p].at # "udp" /\ ntproc'[p].at # "udp"
  /\ icmptab[i].state = "free" \/ icmptab[i].owner = p
  /\ ntproc[p].at = "icmp" => ntproc[p].slot = i
  /\ icmptab' = [icmptab EXCEPT ![i] = e] /\ e.count <= ICMP_QSIZ
  /\ e \in [state : {"free", "used", "receiving"}, rem : NtEnds, head : Nat,
            count : Nat, owner : Procs \cup {NoProc}]
  /\ e.state = "free" => e.count = 0
  /\ e.state = "receiving" => /\ e.count = 0 /\ e.owner = p /\ p \notin mail'
                              /\ ntproc'[p].at = "icmp" /\ ntproc'[p].slot = i
  /\ ntproc'[p].at = "icmp" => e.state = "receiving"
  /\ icmptab[i].count = e.count + d /\ nbsem'.n = nbsem.n + d
  /\ SemaSound(nbsem') /\ Waiters(nbsem') \subseteq Waiters(nbsem)

\* A call of icmp.c that changes one slot, a free one or the caller's: nobody else waits there.
LEMMA NtIcmpCall ==
  ASSUME NtInv, ~icstray, icstray' \in BOOLEAN, NEW p \in Procs, NEW i \in IcSlots, NEW e, NEW d \in Int,
         NtIcmpTurn(p, i, e, d), UNCHANGED <<arpcache, udptab, ipoqueue, iqsem>>
  PROVE  NtInv'
<1>0. /\ icmptab[i].state = "free" \/ icmptab[i].owner = p
      /\ ntproc[p].at = "icmp" => ntproc[p].slot = i
      /\ icmptab' = [icmptab EXCEPT ![i] = e] /\ e.count <= ICMP_QSIZ
      /\ e \in [state : {"free", "used", "receiving"}, rem : NtEnds, head : Nat,
                count : Nat, owner : Procs \cup {NoProc}]
      /\ e.state = "free" => e.count = 0
      /\ e.state = "receiving" => /\ e.count = 0 /\ e.owner = p /\ p \notin mail'
                                  /\ ntproc'[p].at = "icmp" /\ ntproc'[p].slot = i
      /\ ntproc'[p].at = "icmp" => e.state = "receiving"
  BY DEF NtIcmpTurn
<1>00. /\ NtPasses(p) /\ ntproc[p].at # "udp" /\ ntproc'[p].at # "udp"
       /\ icmptab[i].count = e.count + d /\ nbsem'.n = nbsem.n + d
       /\ SemaSound(nbsem') /\ Waiters(nbsem') \subseteq Waiters(nbsem)
  BY DEF NtIcmpTurn
<1>1. /\ icmptab \in NtIcTabs /\ NtIcmpTold
      /\ \A j \in IcSlots : icmptab[j].count <= ICMP_QSIZ
  BY NtFields DEF NtInv, NtBounds
<1>2. /\ ntproc' \in [Procs -> NtWhere] /\ \A q \in Procs : NtCarries(ntproc'[q])
      /\ \A q \in Procs \ {p} : ntproc'[q] = ntproc[q] /\ (q \in mail' <=> q \in mail)
      /\ ntproc'[p].at \notin {"fetch", "arp"} /\ ntproc[p].at \notin {"fetch", "arp"}
      /\ NtClaimed \in Int /\ NtClaimed' = NtClaimed
      /\ mail' \subseteq Procs /\ p \notin Waiters(nbsem)
  BY <1>00 DEF NtPasses
<1>3. /\ icmptab' \in NtIcTabs /\ icmptab'[i] = e
      /\ \A j \in IcSlots : j # i => icmptab'[j] = icmptab[j]
  BY <1>0, <1>1 DEF NtIcTabs
<1>4. \A j \in IcSlots : icmptab'[j].count <= ICMP_QSIZ
  BY <1>0, <1>1, <1>3
<1>5. ASSUME NEW j \in IcSlots
      PROVE  /\ icmptab'[j].state = "free" => icmptab'[j].count = 0
             /\ icmptab'[j].state = "receiving" =>
               /\ icmptab'[j].count = 0 /\ icmptab'[j].owner \in Procs /\ icmptab'[j].owner \notin mail'
               /\ ntproc'[icmptab'[j].owner].at = "icmp" /\ ntproc'[icmptab'[j].owner].slot = j
  <2>1. CASE j = i
    BY <1>0, <1>3, <2>1
  <2>2. CASE j # i
    <3>1. /\ icmptab'[j] = icmptab[j]
          /\ icmptab[j].state = "free" => icmptab[j].count = 0
          /\ icmptab[j].state = "receiving" =>
            /\ icmptab[j].count = 0 /\ icmptab[j].owner \in Procs /\ icmptab[j].owner \notin mail
            /\ ntproc[icmptab[j].owner].at = "icmp" /\ ntproc[icmptab[j].owner].slot = j
      BY <1>1, <1>3, <2>2 DEF NtIcmpTold
    <3>2. icmptab[j].state = "receiving" => icmptab[j].owner # p
      BY <1>0, <2>2, <3>1
    <3> QED  BY <1>2, <3>1, <3>2
  <2> QED  BY <2>1, <2>2
<1>6. ASSUME NEW q \in Procs, ntproc'[q].at = "icmp"
      PROVE  LET k == ntproc'[q].slot IN
             /\ k \in IcSlots /\ icmptab'[k].owner = q /\ icmptab'[k].state # "free"
             /\ q \in mail' => icmptab'[k].count > 0
             /\ q \notin mail' => icmptab'[k].state = "receiving"
  <2>1. CASE q = p
    BY <1>0, <1>3, <1>6, <2>1
  <2>2. CASE q # p
    <3> DEFINE k == ntproc[q].slot
    <3>1. ntproc'[q] = ntproc[q] /\ (q \in mail' <=> q \in mail)
      BY <1>2, <2>2
    <3>2. /\ k \in IcSlots /\ icmptab[k].owner = q /\ icmptab[k].state # "free"
          /\ q \in mail => icmptab[k].count > 0
          /\ q \notin mail => icmptab[k].state = "receiving"
      BY <1>1, <1>6, <3>1 DEF NtIcmpTold
    <3> HIDE DEF k
    <3>3. icmptab'[k] = icmptab[k]
      BY <1>0, <1>3, <2>2, <3>2
    <3> QED  BY <3>1, <3>2, <3>3 DEF k
  <2> QED  BY <2>1, <2>2
<1>7. NtIcmpTold'
  BY <1>5, <1>6 DEF NtIcmpTold
<1>8. NtIcmpSum' = NtIcmpSum - d
  <2>1. \A j \in IcSlots : j # i => icmptab'[j].count = icmptab[j].count
    BY <1>3
  <2>2. NtIcmpSum \in Int /\ NtIcmpSum' = NtIcmpSum + icmptab'[i].count - icmptab[i].count
    BY <1>1, <1>3, <2>1, NtIcmpSumIs
  <2>3. icmptab'[i].count = e.count /\ e.count \in Int
    BY <1>0, <1>3
  <2> DEFINE m == e.count
  <2>4. m \in Int /\ NtIcmpSum \in Int /\ NtIcmpSum' = NtIcmpSum + m - (m + d)
    BY <1>00, <2>2, <2>3
  <2> HIDE DEF m
  <2>5. \A x, y, z \in Int : x + y - (y + z) = x - z
    OBVIOUS
  <2> QED  BY <2>4, <2>5
<1>9. NtSame("udp") /\ NtSame("arp")
  BY <1>00, <1>2, NtOthers
<1>10. NtUdpTold' /\ NtUdpSum' = NtUdpSum /\ NtArpTold'
  BY <1>9, NtUdpFrame, NtArpFrame
<1>11. NtTypes'
  BY <1>2, <1>3, NtFields, NtTyped
<1>12. NtPool'
  BY <1>00, <1>2, NtPoolKeeps
<1>13. NtOutput'
  <2>1. ntproc'[IPOUT].at = "fetch" <=> ntproc[IPOUT].at = "fetch"
    BY <1>2, NetAssumption
  <2> QED  BY <2>1, NtOutputFrame
<1>14. NtBounds'
  BY <1>4 DEF NtInv, NtBounds
<1>15. NtCounted'
  <2> DEFINE f == 0 - d
  <2>1. f \in Int /\ NtStored' = NtStored + f
    <3>1. NtIcmpSum \in Int /\ NtUdpSum \in Int /\ NtQueued \in Int
      BY NtFields
    <3> QED  BY <1>8, <1>10, <3>1, NtQueuedFrame DEF NtStored
  <2>2. nbsem'.n = nbsem.n + 0 - f /\ NtClaimed' = NtClaimed - 0
    BY <1>00, <1>2, NtFields
  <2> HIDE DEF f
  <2> QED  BY <1>2, <2>1, <2>2, NtCountedKeeps
<1> QED  BY <1>7, <1>10, <1>11, <1>12, <1>13, <1>14, <1>15 DEF NtInv

NtUdSlot == [state : {"free", "used", "receiving"}, rem : NtEnds, port : NtIds,
             queue : Seq(NtPackets), owner : Procs \cup {NoProc}]

\* A slot of udptab gets another state and another queue, nothing else (udp.c).
LEMMA UdSlotSet ==
  ASSUME udptab \in NtUdTabs, NEW i \in UdSlots, NEW x \in Seq(NtPackets),
         NEW st \in {"free", "used", "receiving"},
         udptab' = [udptab EXCEPT ![i].queue = x, ![i].state = st]
  PROVE  /\ udptab' = [udptab EXCEPT ![i] = udptab'[i]] /\ udptab'[i] \in NtUdSlot
         /\ udptab'[i].queue = x /\ udptab'[i].state = st /\ udptab'[i].owner = udptab[i].owner
<1>1. /\ udptab'[i].queue = x /\ udptab'[i].state = st /\ udptab'[i].owner = udptab[i].owner
  BY DEF NtUdTabs
<1>2. udptab' \in NtUdTabs /\ \A j \in UdSlots : j # i => udptab'[j] = udptab[j]
  BY DEF NtUdTabs
<1>3. udptab' = [udptab EXCEPT ![i] = udptab'[i]]
  BY <1>2 DEF NtUdTabs
<1> QED  BY <1>1, <1>2, <1>3 DEF NtUdTabs, NtUdSlot

\* udp_register (udp.c).
LEMMA UdRegisterKeeps ==
  ASSUME NtInv, NEW p \in Procs, NEW rem \in Hosts \cup {AnyHost}, NEW port \in UdPorts,
         UdRegister(p, rem, port), UNCHANGED <<arpcache, icmptab, icstray, ipoqueue, iqsem>>
  PROVE  NtInv'
<1> DEFINE free == {i \in UdSlots : udptab[i].state = "free"}
           i == CHOOSE i \in free : \A j \in free : i <= j
           e == [UdFree EXCEPT !.state = "used", !.rem = rem, !.port = port, !.owner = p]
<1>1. /\ NtRuns(p, "user") /\ free # {} /\ udptab' = [udptab EXCEPT ![i] = e]
      /\ UNCHANGED <<mail, nbsem, ntproc>>
  BY DEF UdRegister, netbasevars
<1>2. i \in UdSlots /\ udptab[i].state = "free"
  <2>1. free \subseteq Nat
    BY UdpAssumption DEF UdSlots
  <2>2. i \in free
    BY <1>1, <2>1, LeastIn
  <2> QED  BY <2>2
<1>3. UdFree \in NtUdSlot /\ UdFree.queue = <<>>
  BY DEF UdFree, NtUdSlot, NtEnds, NtIds
<1>4. e.state = "used" /\ e.queue = <<>> /\ e \in NtUdSlot
  <2>1. rem \in NtEnds /\ port \in NtIds
    BY DEF NtEnds, NtIds
  <2> QED  BY <1>3, <2>1 DEF NtUdSlot
<1>5. udptab[i].queue = <<>>
  BY <1>2 DEF NtInv, NtUdpTold
<1>6. ntproc[p].at = "user" /\ p \notin Waiters(nbsem)
  BY <1>1 DEF NtRuns
<1>7. NtPasses(p)
  BY <1>1, <1>6, NtPassesIs
<1>8. SemaSound(nbsem') /\ Waiters(nbsem') \subseteq Waiters(nbsem) /\ nbsem'.n = nbsem.n + 0
  BY <1>1, NtFields
<1>9. Len(e.queue) <= UDP_QSIZ /\ Len(udptab[i].queue) = Len(e.queue) + 0
  BY <1>4, <1>5, UdpAssumption
<1> HIDE DEF e, i, free
<1>10. NtUdpTurn(p, i, e, 0)
  BY <1>1, <1>2, <1>4, <1>6, <1>7, <1>8, <1>9 DEF NtUdpTurn, NtUdSlot
<1> QED  BY <1>2, <1>10, NtUdpCall

\* udp_recv takes the first packet of its slot and frees the buffer (udp.c).
LEMMA UdDequeueKeeps ==
  ASSUME NtInv, NEW p \in Procs, NtPasses(p), ntproc[p].at \in {"user", "udp"},
         ntproc'[p].at \in {"user", "next"}, NEW i \in UdSlots, udptab[i].owner = p,
         ntproc[p].at = "udp" => ntproc[p].slot = i, udptab[i].queue # <<>>, UdDequeue(i),
         UNCHANGED <<arpcache, icmptab, icstray, ipoqueue, iqsem>>
  PROVE  NtInv'
<1>1. udptab \in NtUdTabs /\ Len(udptab[i].queue) <= UDP_QSIZ
  BY NtFields DEF NtInv, NtBounds
<1> DEFINE x == Tail(udptab[i].queue)
           e == udptab'[i]
<1>2. udptab[i].queue \in Seq(NtPackets)
  BY <1>1 DEF NtUdTabs
<1>3. /\ x \in Seq(NtPackets) /\ Len(x) = Len(udptab[i].queue) - 1 /\ Len(x) \in Int
      /\ Len(udptab[i].queue) \in Int
  BY <1>2
<1>4. udptab' = [udptab EXCEPT ![i].queue = x, ![i].state = "used"] /\ nbsem' = UpN(nbsem, 1)
  BY DEF UdDequeue, Free
<1> HIDE DEF x
<1>5. /\ udptab' = [udptab EXCEPT ![i] = e] /\ e \in NtUdSlot /\ e.queue = x /\ e.state = "used"
  BY <1>1, <1>3, <1>4, UdSlotSet
<1>6. SemaSound(nbsem') /\ Waiters(nbsem') \subseteq Waiters(nbsem) /\ nbsem'.n = nbsem.n + 1
  BY <1>4, NtFields, UpNIs
<1> HIDE DEF e
<1>7. Len(e.queue) <= UDP_QSIZ /\ Len(udptab[i].queue) = Len(e.queue) + 1
  BY <1>1, <1>3, <1>5, UdpAssumption
<1>8. NtUdpTurn(p, i, e, 1)
  BY <1>5, <1>6, <1>7 DEF NtUdpTurn, NtUdSlot
<1> QED  BY <1>8, NtUdpCall

\* udp_recv on a slot whose queue is empty: the slot is marked as receiving, and an old
\* message does not count (udp.c). Or the time is over: the mark is taken back.
LEMMA UdMarkKeeps ==
  ASSUME NtInv, NEW p \in Procs, NtPasses(p), ntproc[p].at \in {"user", "udp"},
         NEW i \in UdSlots, udptab[i].owner = p,
         ntproc[p].at = "udp" => ntproc[p].slot = i,
         NEW st \in {"used", "receiving"}, udptab' = [udptab EXCEPT ![i].state = st],
         ntproc'[p].at # "icmp", ntproc'[p].at = "udp" <=> st = "receiving",
         st = "receiving" => udptab[i].queue = <<>> /\ p \notin mail' /\ ntproc'[p].slot = i,
         UNCHANGED <<nbsem, arpcache, icmptab, icstray, ipoqueue, iqsem>>
  PROVE  NtInv'
<1>1. udptab \in NtUdTabs /\ Len(udptab[i].queue) <= UDP_QSIZ
  BY NtFields DEF NtInv, NtBounds
<1> DEFINE e == udptab'[i]
<1>2. udptab[i].queue \in Seq(NtPackets) /\ Len(udptab[i].queue) \in Int
  BY <1>1 DEF NtUdTabs
<1>3. /\ e.queue = udptab[i].queue /\ e.state = st /\ e.owner = p
  BY <1>1 DEF NtUdTabs
<1>4. udptab' \in NtUdTabs /\ \A j \in UdSlots : j # i => udptab'[j] = udptab[j]
  BY <1>1 DEF NtUdTabs
<1>5. udptab' = [udptab EXCEPT ![i] = e] /\ e \in NtUdSlot
  BY <1>1, <1>4 DEF NtUdTabs, NtUdSlot
<1>6. SemaSound(nbsem') /\ Waiters(nbsem') \subseteq Waiters(nbsem) /\ nbsem'.n = nbsem.n + 0
  BY NtFields
<1> HIDE DEF e
<1>7. Len(e.queue) <= UDP_QSIZ /\ Len(udptab[i].queue) = Len(e.queue) + 0
  BY <1>1, <1>2, <1>3
<1>8. NtUdpTurn(p, i, e, 0)
  BY <1>3, <1>5, <1>6, <1>7 DEF NtUdpTurn, NtUdSlot
<1> QED  BY <1>8, NtUdpCall

\* udp_recv (udp.c).
LEMMA UdRecvKeeps ==
  ASSUME NtInv, NEW p \in Procs, NEW i \in UdSlots, UdRecv(p, i),
         UNCHANGED <<arpcache, icmptab, icstray, ipoqueue, iqsem>>
  PROVE  NtInv'
<1>1. /\ ntproc[p].at = "user" /\ p \notin Waiters(nbsem) /\ udptab[i].owner = p
      /\ udptab[i].state = "used"
  BY DEF UdRecv, UdUses, NtRuns
<1>2. CASE udptab[i].queue # <<>>
  <2>1. UdDequeue(i) /\ UNCHANGED <<mail, ntproc>>
    BY <1>2 DEF UdRecv
  <2>2. NtPasses(p)
    BY <1>1, <2>1, NtPassesIs
  <2> QED  BY <1>1, <1>2, <2>1, <2>2, UdDequeueKeeps
<1>3. CASE udptab[i].queue = <<>>
  <2>1. /\ udptab' = [udptab EXCEPT ![i].state = "receiving"] /\ mail' = mail \ {p}
        /\ Goto(p, "udp", i, NoPacket) /\ UNCHANGED nbsem
    BY <1>3 DEF UdRecv
  <2>2. i \in Int
    BY UdpAssumption DEF UdSlots
  <2>3. NtPasses(p)
    BY <1>1, <2>1, <2>2, NtPassesIs
  <2>4. ntproc'[p].at = "udp" /\ ntproc'[p].slot = i
    <3>1. "udp" \in NtPlaces /\ "udp" \notin {"buffer", "answer", "arp", "send"}
      BY DEF NtPlaces
    <3> QED  BY <2>1, <2>2, <3>1, GotoIs
  <2> QED  BY <1>1, <1>3, <2>1, <2>3, <2>4, UdMarkKeeps
<1> QED  BY <1>2, <1>3

\* udp_recv goes on: told of a packet, or the time is over (udp.c).
LEMMA UdWakeKeeps ==
  ASSUME NtInv, NEW p \in Procs, UdWake(p),
         UNCHANGED <<arpcache, icmptab, icstray, ipoqueue, iqsem>>
  PROVE  NtInv'
<1> DEFINE i == ntproc[p].slot
<1>1. /\ ntproc[p].at = "udp" /\ p \notin Waiters(nbsem) /\ mail' = mail \ {p} /\ Return(p)
      /\ IF p \in mail THEN UdDequeue(i)
         ELSE udptab' = [udptab EXCEPT ![i].state = "used"] /\ UNCHANGED nbsem
  BY DEF UdWake, NtRuns
<1>2. /\ i \in UdSlots /\ udptab[i].owner = p /\ (p \in mail => udptab[i].queue # <<>>)
  BY <1>1 DEF NtInv, NtUdpTold
<1>3. NtPasses(p) /\ ntproc'[p].at \in {"user", "next"}
  BY <1>1, NtPassesIs, ReturnIs
<1> HIDE DEF i
<1>4. ntproc[p].slot = i
  BY DEF i
<1>5. CASE p \in mail
  BY <1>1, <1>2, <1>3, <1>4, <1>5, UdDequeueKeeps
<1>6. CASE p \notin mail
  BY <1>1, <1>2, <1>3, <1>4, <1>6, UdMarkKeeps
<1> QED  BY <1>5, <1>6

\* udp_release: the buffers of the queued packets are freed (udp.c).
LEMMA UdReleaseKeeps ==
  ASSUME NtInv, NEW p \in Procs, NEW i \in UdSlots, UdRelease(p, i),
         UNCHANGED <<arpcache, icmptab, icstray, ipoqueue, iqsem>>
  PROVE  NtInv'
<1>1. /\ ntproc[p].at = "user" /\ p \notin Waiters(nbsem) /\ udptab[i].owner = p
      /\ udptab' = [udptab EXCEPT ![i] = UdFree] /\ nbsem' = UpN(nbsem, Len(udptab[i].queue))
      /\ UNCHANGED <<mail, ntproc>>
  BY DEF UdRelease, UdUses, NtRuns, Free
<1>2. NtPasses(p)
  BY <1>1, NtPassesIs
<1>3. Len(udptab[i].queue) \in Nat
  BY NtFields DEF NtUdTabs
<1>4. /\ SemaSound(nbsem') /\ Waiters(nbsem') \subseteq Waiters(nbsem)
      /\ nbsem'.n = nbsem.n + Len(udptab[i].queue)
  BY <1>1, <1>3, NtFields, UpNIs
<1>5. UdFree \in NtUdSlot /\ UdFree.state = "free" /\ UdFree.queue = <<>>
  BY DEF UdFree, NtUdSlot, NtEnds, NtIds
<1>6. Len(UdFree.queue) <= UDP_QSIZ /\ Len(udptab[i].queue) = Len(UdFree.queue) + Len(udptab[i].queue)
  BY <1>3, <1>5, UdpAssumption
<1>7. NtUdpTurn(p, i, UdFree, Len(udptab[i].queue))
  BY <1>1, <1>2, <1>3, <1>4, <1>5, <1>6 DEF NtUdpTurn, NtUdSlot
<1> QED  BY <1>3, <1>7, NtUdpCall

NtIcSlot == [state : {"free", "used", "receiving"}, rem : NtEnds, head : Nat,
             count : Nat, owner : Procs \cup {NoProc}]

\* icmp_register (icmp.c).
LEMMA IcRegisterKeeps ==
  ASSUME NtInv, ~icstray, NEW p \in Procs, NEW rem \in Hosts \cup {Me},
         IcRegister(p, rem), UNCHANGED <<arpcache, udptab, ipoqueue, iqsem>>
  PROVE  NtInv'
<1> DEFINE free == {i \in IcSlots : icmptab[i].state = "free"}
           i == CHOOSE i \in free : \A j \in free : i <= j
           e == [IcFree EXCEPT !.state = "used", !.rem = rem, !.owner = p]
<1>1. /\ NtRuns(p, "user") /\ free # {} /\ icmptab' = [icmptab EXCEPT ![i] = e]
      /\ UNCHANGED <<mail, nbsem, ntproc, icstray>>
  BY DEF IcRegister, netbasevars
<1>2. i \in IcSlots /\ icmptab[i].state = "free"
  <2>1. free \subseteq Nat
    BY IcmpAssumption DEF IcSlots
  <2>2. i \in free
    BY <1>1, <2>1, LeastIn
  <2> QED  BY <2>2
<1>3. IcFree \in NtIcSlot /\ IcFree.count = 0
  BY DEF IcFree, NtIcSlot, NtEnds
<1>4. e.state = "used" /\ e.count = 0 /\ e \in NtIcSlot
  <2>1. rem \in NtEnds
    BY DEF NtEnds
  <2> QED  BY <1>3, <2>1 DEF NtIcSlot
<1>5. icmptab[i].count = 0
  BY <1>2 DEF NtInv, NtIcmpTold
<1>6. ntproc[p].at = "user" /\ p \notin Waiters(nbsem)
  BY <1>1 DEF NtRuns
<1>7. NtPasses(p)
  BY <1>1, <1>6, NtPassesIs
<1>8. SemaSound(nbsem') /\ Waiters(nbsem') \subseteq Waiters(nbsem) /\ nbsem'.n = nbsem.n + 0
  BY <1>1, NtFields
<1>9. e.count <= ICMP_QSIZ /\ icmptab[i].count = e.count + 0
  BY <1>4, <1>5, IcmpAssumption
<1>11. icstray' \in BOOLEAN
  BY <1>1, NtFields
<1> HIDE DEF e, i, free
<1>10. NtIcmpTurn(p, i, e, 0)
  BY <1>1, <1>2, <1>4, <1>6, <1>7, <1>8, <1>9 DEF NtIcmpTurn, NtIcSlot
<1> QED  BY <1>2, <1>10, <1>11, NtIcmpCall

\* icmp_recv takes the first reply of its slot and frees the buffer (icmp.c).
LEMMA IcDequeueKeeps ==
  ASSUME NtInv, ~icstray, NEW p \in Procs, NtPasses(p), ntproc[p].at \in {"user", "icmp"},
         ntproc'[p].at \in {"user", "next"}, NEW i \in IcSlots, icmptab[i].owner = p,
         ntproc[p].at = "icmp" => ntproc[p].slot = i, icmptab[i].count > 0, IcDequeue(i),
         UNCHANGED <<arpcache, udptab, ipoqueue, iqsem>>
  PROVE  NtInv'
<1>1. icmptab \in NtIcTabs /\ icmptab[i].count <= ICMP_QSIZ
  BY NtFields DEF NtInv, NtBounds
<1> DEFINE x == icmptab[i].count - 1
           h == (icmptab[i].head + 1) % ICMP_SLOTS
           e == icmptab'[i]
<1>2. icmptab[i].count \in Nat /\ icmptab[i].head \in Nat
  BY <1>1 DEF NtIcTabs
<1>3. x \in Nat /\ h \in Nat
  BY <1>2, IcmpAssumption
<1>4. /\ icmptab' = [icmptab EXCEPT ![i].state = "used", ![i].count = x, ![i].head = h]
      /\ nbsem' = UpN(nbsem, 1) /\ icstray' \in BOOLEAN
  BY DEF IcDequeue, Free
<1>5. icmptab[i].count = x + 1 /\ x <= ICMP_QSIZ
  BY <1>1, <1>2, IcmpAssumption
<1> HIDE DEF x, h
<1>6. e.count = x /\ e.state = "used"
  BY <1>1, <1>4 DEF NtIcTabs
<1>7. icmptab' \in NtIcTabs /\ \A j \in IcSlots : j # i => icmptab'[j] = icmptab[j]
  BY <1>1, <1>3, <1>4 DEF NtIcTabs
<1>8. icmptab' = [icmptab EXCEPT ![i] = e] /\ e \in NtIcSlot
  BY <1>1, <1>7 DEF NtIcTabs, NtIcSlot
<1>9. SemaSound(nbsem') /\ Waiters(nbsem') \subseteq Waiters(nbsem) /\ nbsem'.n = nbsem.n + 1
  BY <1>4, NtFields, UpNIs
<1> HIDE DEF e
<1>10. NtIcmpTurn(p, i, e, 1)
  BY <1>5, <1>6, <1>8, <1>9 DEF NtIcmpTurn, NtIcSlot
<1> QED  BY <1>4, <1>10, NtIcmpCall

\* icmp_recv on a slot without replies: the slot is marked as receiving. Or the time is
\* over: the mark is taken back (icmp.c).
LEMMA IcMarkKeeps ==
  ASSUME NtInv, ~icstray, NEW p \in Procs, NtPasses(p), ntproc[p].at \in {"user", "icmp"},
         NEW i \in IcSlots, icmptab[i].owner = p,
         ntproc[p].at = "icmp" => ntproc[p].slot = i,
         NEW st \in {"used", "receiving"}, icmptab' = [icmptab EXCEPT ![i].state = st],
         ntproc'[p].at # "udp", ntproc'[p].at = "icmp" <=> st = "receiving",
         st = "receiving" => icmptab[i].count = 0 /\ p \notin mail' /\ ntproc'[p].slot = i,
         UNCHANGED <<nbsem, arpcache, udptab, icstray, ipoqueue, iqsem>>
  PROVE  NtInv'
<1>1. icmptab \in NtIcTabs /\ icmptab[i].count <= ICMP_QSIZ /\ icstray' \in BOOLEAN
  BY NtFields DEF NtInv, NtBounds
<1> DEFINE e == icmptab'[i]
<1>2. icmptab[i].count \in Int
  BY <1>1 DEF NtIcTabs
<1>3. /\ e.count = icmptab[i].count /\ e.state = st /\ e.owner = p
  BY <1>1 DEF NtIcTabs
<1>4. icmptab' \in NtIcTabs /\ \A j \in IcSlots : j # i => icmptab'[j] = icmptab[j]
  BY <1>1 DEF NtIcTabs
<1>5. icmptab' = [icmptab EXCEPT ![i] = e] /\ e \in NtIcSlot
  BY <1>1, <1>4 DEF NtIcTabs, NtIcSlot
<1>6. SemaSound(nbsem') /\ Waiters(nbsem') \subseteq Waiters(nbsem) /\ nbsem'.n = nbsem.n + 0
  BY NtFields
<1> HIDE DEF e
<1>7. e.count <= ICMP_QSIZ /\ icmptab[i].count = e.count + 0
  BY <1>1, <1>2, <1>3
<1>8. NtIcmpTurn(p, i, e, 0)
  BY <1>3, <1>5, <1>6, <1>7 DEF NtIcmpTurn, NtIcSlot
<1> QED  BY <1>1, <1>8, NtIcmpCall

\* icmp_recv (icmp.c).
LEMMA IcRecvKeeps ==
  ASSUME NtInv, ~icstray, NEW p \in Procs, NEW i \in IcSlots, IcRecv(p, i),
         UNCHANGED <<arpcache, udptab, ipoqueue, iqsem>>
  PROVE  NtInv'
<1>1. /\ ntproc[p].at = "user" /\ p \notin Waiters(nbsem) /\ icmptab[i].owner = p
      /\ icmptab[i].state = "used"
  BY DEF IcRecv, IcUses, NtRuns
<1>2. CASE icmptab[i].count > 0
  <2>1. IcDequeue(i) /\ UNCHANGED <<mail, ntproc>>
    BY <1>2 DEF IcRecv
  <2>2. NtPasses(p)
    BY <1>1, <2>1, NtPassesIs
  <2> QED  BY <1>1, <1>2, <2>1, <2>2, IcDequeueKeeps
<1>3. CASE ~(icmptab[i].count > 0)
  <2>1. /\ icmptab' = [icmptab EXCEPT ![i].state = "receiving"] /\ mail' = mail \ {p}
        /\ Goto(p, "icmp", i, NoPacket) /\ UNCHANGED <<nbsem, icstray>>
    BY <1>3 DEF IcRecv
  <2>2. i \in Int
    BY IcmpAssumption DEF IcSlots
  <2>3. NtPasses(p)
    BY <1>1, <2>1, <2>2, NtPassesIs
  <2>4. ntproc'[p].at = "icmp" /\ ntproc'[p].slot = i
    <3>1. "icmp" \in NtPlaces /\ "icmp" \notin {"buffer", "answer", "arp", "send"}
      BY DEF NtPlaces
    <3> QED  BY <2>1, <2>2, <3>1, GotoIs
  <2>5. icmptab[i].count = 0
    <3>1. icmptab[i].count \in Nat
      BY NtFields DEF NtIcTabs
    <3> QED  BY <1>3, <3>1
  <2> QED  BY <1>1, <2>1, <2>3, <2>4, <2>5, IcMarkKeeps
<1> QED  BY <1>2, <1>3

\* icmp_recv goes on: told of a reply, or the time is over (icmp.c).
LEMMA IcWakeKeeps ==
  ASSUME NtInv, ~icstray, NEW p \in Procs, IcWake(p),
         UNCHANGED <<arpcache, udptab, ipoqueue, iqsem>>
  PROVE  NtInv'
<1> DEFINE i == ntproc[p].slot
<1>1. /\ ntproc[p].at = "icmp" /\ p \notin Waiters(nbsem) /\ mail' = mail \ {p} /\ Return(p)
      /\ IF p \in mail THEN IcDequeue(i)
         ELSE icmptab' = [icmptab EXCEPT ![i].state = "used"] /\ UNCHANGED <<nbsem, icstray>>
  BY DEF IcWake, NtRuns
<1>2. /\ i \in IcSlots /\ icmptab[i].owner = p /\ (p \in mail => icmptab[i].count > 0)
  BY <1>1 DEF NtInv, NtIcmpTold
<1>3. NtPasses(p) /\ ntproc'[p].at \in {"user", "next"}
  BY <1>1, NtPassesIs, ReturnIs
<1> HIDE DEF i
<1>4. ntproc[p].slot = i
  BY DEF i
<1>5. CASE p \in mail
  BY <1>1, <1>2, <1>3, <1>4, <1>5, IcDequeueKeeps
<1>6. CASE p \notin mail
  BY <1>1, <1>2, <1>3, <1>4, <1>6, IcMarkKeeps
<1> QED  BY <1>5, <1>6

\* icmp_release: the buffers of the queued replies are freed (icmp.c).
LEMMA IcReleaseKeeps ==
  ASSUME NtInv, ~icstray, NEW p \in Procs, NEW i \in IcSlots, IcRelease(p, i),
         UNCHANGED <<arpcache, udptab, ipoqueue, iqsem>>
  PROVE  NtInv'
<1>1. /\ ntproc[p].at = "user" /\ p \notin Waiters(nbsem) /\ icmptab[i].owner = p
      /\ icmptab' = [icmptab EXCEPT ![i] = IcFree] /\ nbsem' = UpN(nbsem, icmptab[i].count)
      /\ UNCHANGED <<mail, ntproc, icstray>>
  BY DEF IcRelease, IcUses, NtRuns, Free
<1>2. NtPasses(p)
  BY <1>1, NtPassesIs
<1>3. icmptab[i].count \in Nat
  BY NtFields DEF NtIcTabs
<1>4. /\ SemaSound(nbsem') /\ Waiters(nbsem') \subseteq Waiters(nbsem)
      /\ nbsem'.n = nbsem.n + icmptab[i].count
  BY <1>1, <1>3, NtFields, UpNIs
<1>5. IcFree \in NtIcSlot /\ IcFree.state = "free" /\ IcFree.count = 0
  BY DEF IcFree, NtIcSlot, NtEnds
<1>6. IcFree.count <= ICMP_QSIZ /\ icmptab[i].count = IcFree.count + icmptab[i].count
  BY <1>3, <1>5, IcmpAssumption
<1>8. icstray' \in BOOLEAN
  BY <1>1, NtFields
<1>7. NtIcmpTurn(p, i, IcFree, icmptab[i].count)
  BY <1>1, <1>2, <1>3, <1>4, <1>5, <1>6 DEF NtIcmpTurn, NtIcSlot
<1> QED  BY <1>3, <1>7, <1>8, NtIcmpCall

\* A program asks for a buffer to send a packet in (ip.c, udp.c, icmp.c).
LEMMA AppSendKeeps ==
  ASSUME NtInv, ~icstray, NEW p \in Procs, NEW packet \in NtPackets,
         ntproc[p].at = "user", p \notin Waiters(nbsem), AppSend(p, packet)
  PROVE  NtInv'
<1>1. /\ SemaSound(nbsem) /\ nbsem.n \in Int /\ SemaSound(Down(nbsem, p)) /\ Down(nbsem, p).n = nbsem.n - 1
      /\ Waiters(Down(nbsem, p)) = IF Blocks(nbsem) THEN Waiters(nbsem) \cup {p} ELSE Waiters(nbsem)
  BY NtFields, DownIs
<1>2. NtClaim("user") = 0 /\ NtClaim("buffer") = 1
  BY DEF NtClaim
<1>3. CASE Blocks(nbsem)
  <2>1. /\ nbsem' = Down(nbsem, p) /\ Goto(p, "buffer", -1, packet)
        /\ UNCHANGED <<mail, arpcache, udptab, icmptab, icstray, ipoqueue, iqsem>>
    BY <1>3 DEF AppSend, ipvars
  <2>2. "buffer" \in NtPlaces /\ -1 \in Int
    BY DEF NtPlaces
  <2>3. /\ ntproc' \in [Procs -> NtWhere] /\ \A q \in Procs : NtCarries(ntproc'[q])
        /\ ntproc'[p].at = "buffer" /\ \A q \in Procs \ {p} : ntproc'[q] = ntproc[q]
        /\ NtClaimed \in Int /\ NtClaimed' = NtClaimed + NtClaim("buffer") - NtClaim(ntproc[p].at)
    BY <2>1, <2>2, GotoIs
  <2>4. NtTypes'
    BY <2>1, <2>3, NtFields, NtTyped
  <2>5. NtSame("udp") /\ NtSame("icmp") /\ NtSame("arp")
    BY <2>1, <2>3, NtOthers
  <2>6. NtUdpTold' /\ NtUdpSum' = NtUdpSum /\ NtIcmpTold' /\ NtIcmpSum' = NtIcmpSum /\ NtArpTold'
    BY <2>1, <2>5, NtUdpFrame, NtIcmpFrame, NtArpFrame
  <2>7. NtPool'
    BY <1>1, <2>1, <2>3, NtPoolKeeps
  <2>8. NtOutput'
    <3>1. ntproc'[IPOUT].at = "fetch" <=> ntproc[IPOUT].at = "fetch"
      BY <2>3, NetAssumption
    <3> QED  BY <2>1, <3>1, NtOutputFrame
  <2>9. NtBounds'
    BY <2>1 DEF NtInv, NtBounds
  <2>10. NtCounted'
    <3> DEFINE k == 0 - 1
    <3>1. NtStored' = NtStored /\ NtStored \in Int
      BY <2>1, <2>6, NtFields, NtQueuedFrame DEF NtStored
    <3>2. k \in Int /\ NtClaimed' = NtClaimed - k /\ nbsem'.n = nbsem.n + k - 0
      BY <1>1, <1>2, <2>1, <2>3
    <3>3. NtStored' = NtStored + 0
      BY <3>1
    <3> HIDE DEF k
    <3> QED  BY <2>3, <3>2, <3>3, NtCountedKeeps
  <2> QED  BY <2>4, <2>6, <2>7, <2>8, <2>9, <2>10 DEF NtInv
<1>4. CASE ~Blocks(nbsem)
  <2>1. IpSend(p, Down(nbsem, p), packet)
    BY <1>4 DEF AppSend
  <2>2. NtHand(p, Down(nbsem, p))
    <3>1. NtClaim(ntproc[p].at) = Down(nbsem, p).n - nbsem.n + 1
      BY <1>1, <1>2
    <3> QED  BY <1>1, <1>4, <3>1 DEF NtHand
  <2> QED  BY <2>1, <2>2, IpSendKeeps
<1> QED  BY <1>3, <1>4

\* Who has its buffer, having waited for it or read a frame into it (NtHand).
LEMMA NtHandIs ==
  ASSUME NtInv, NEW p \in Procs, ntproc[p].at \in {"read", "buffer", "send"}, p \notin Waiters(nbsem)
  PROVE  NtHand(p, nbsem)
<1>1. SemaSound(nbsem) /\ nbsem.n \in Int
  BY NtFields
<1>2. NtClaim(ntproc[p].at) = 1
  BY DEF NtClaim
<1>3. nbsem.n - nbsem.n + 1 = 1
  BY <1>1
<1> QED  BY <1>1, <1>2, <1>3 DEF NtHand

\* udp_send, udp_sendto, icmp_send, and when the buffer has come (udp.c, icmp.c).
LEMMA SendCallKeeps ==
  ASSUME NtInv, ~icstray, NEW p \in Procs, SendCall(p)
  PROVE  NtInv'
<1>1. /\ udptab \in NtUdTabs /\ icmptab \in NtIcTabs /\ NtCarries(ntproc[p])
      /\ ntproc \in [Procs -> NtWhere]
  BY NtFields
<1>2. ASSUME NEW i \in UdSlots, UdSend(p, i)  PROVE NtInv'
  <2>1. UdPacket(i, udptab[i].rem) \in NtPackets
    BY <1>1 DEF UdPacket, Packet, NtPackets, NtEnds, NtUdTabs
  <2> QED  BY <1>2, <2>1, AppSendKeeps DEF UdSend, UdUses, NtRuns
<1>3. ASSUME NEW i \in UdSlots, NEW dst \in Hosts \cup {Me, Broadcast}, UdSendto(p, i, dst)  PROVE NtInv'
  <2>1. UdPacket(i, dst) \in NtPackets
    BY <1>1 DEF UdPacket, Packet, NtPackets, NtEnds, NtUdTabs
  <2> QED  BY <1>3, <2>1, AppSendKeeps DEF UdSendto, UdUses, NtRuns
<1>4. ASSUME NEW i \in IcSlots, IcSend(p, i)  PROVE NtInv'
  <2>1. IcPacket(i) \in NtPackets
    BY <1>1 DEF IcPacket, Packet, NtPackets, NtEnds, NtIcTabs, NtIds
  <2> QED  BY <1>4, <2>1, AppSendKeeps DEF IcSend, IcUses, NtRuns
<1>5. ASSUME AppSendLater(p)  PROVE NtInv'
  <2>1. ntproc[p].at = "buffer" /\ p \notin Waiters(nbsem) /\ IpSend(p, nbsem, ntproc[p].packet)
    BY <1>5 DEF AppSendLater, NtRuns
  <2>2. ntproc[p].packet \in NtPackets
    BY <1>1, <2>1 DEF NtCarries
  <2> QED  BY <2>1, <2>2, NtHandIs, IpSendKeeps
<1> QED  BY <1>2, <1>3, <1>4, <1>5 DEF SendCall

\* The answer to a ping, when its buffer has come (icmp.c).
LEMMA IcmpAnswerLaterKeeps ==
  ASSUME NtInv, ~icstray, NEW p \in Procs, IcmpAnswerLater(p)
  PROVE  NtInv'
<1>1. ntproc[p].at = "answer" /\ p \notin Waiters(nbsem) /\ IcmpAnswer(p, nbsem, ntproc[p].packet)
  BY DEF IcmpAnswerLater, NtRuns
<1>2. ntproc[p].packet \in NtPackets /\ SemaSound(nbsem) /\ nbsem.n \in Int
  BY <1>1, NtFields DEF NtCarries
<1>3. NtClaim(ntproc[p].at) = 2
  BY <1>1 DEF NtClaim
<1>4. NtClaim(ntproc[p].at) = nbsem.n - nbsem.n + 2
  BY <1>2, <1>3
<1>5. NtAway(p)
  BY <1>1, ReturnIs DEF IcmpAnswer, NtAway, NtWaits
<1> QED  BY <1>1, <1>2, <1>4, <1>5, IcmpAnswerKeeps

-----------------------------------------------------------------------------
(* The processes of the stack *)

\* netin asks for a buffer (net.c).
LEMMA NetinNextKeeps ==
  ASSUME NtInv, NetinNext
  PROVE  NtInv'
<1>1. /\ NETIN \in Procs /\ ntproc[NETIN].at = "next" /\ NETIN \notin Waiters(nbsem)
      /\ nbsem' = Down(nbsem, NETIN) /\ Goto(NETIN, "read", -1, NoPacket)
      /\ UNCHANGED <<mail, arpcache, udptab, icmptab, icstray, ipoqueue, iqsem>>
  BY NetAssumption DEF NetinNext, NtRuns, ipvars
<1>2. /\ nbsem.n \in Int /\ SemaSound(nbsem') /\ nbsem'.n = nbsem.n - 1
      /\ Waiters(nbsem') \subseteq Waiters(nbsem) \cup {NETIN}
  BY <1>1, NtFields, DownIs
<1>3. "read" \in NtPlaces /\ "read" \notin {"buffer", "answer", "arp", "send"} /\ -1 \in Int
  BY DEF NtPlaces
<1>4. /\ ntproc' \in [Procs -> NtWhere] /\ \A q \in Procs : NtCarries(ntproc'[q])
      /\ ntproc'[NETIN].at = "read" /\ \A q \in Procs \ {NETIN} : ntproc'[q] = ntproc[q]
      /\ NtClaimed \in Int /\ NtClaimed' = NtClaimed + NtClaim("read") - NtClaim(ntproc[NETIN].at)
  BY <1>1, <1>3, GotoIs
<1>5. NtTypes'
  BY <1>1, <1>4, NtFields, NtTyped
<1>6. NtSame("udp") /\ NtSame("icmp") /\ NtSame("arp")
  BY <1>1, <1>4, NtOthers
<1>7. NtUdpTold' /\ NtUdpSum' = NtUdpSum /\ NtIcmpTold' /\ NtIcmpSum' = NtIcmpSum /\ NtArpTold'
  BY <1>1, <1>6, NtUdpFrame, NtIcmpFrame, NtArpFrame
<1>8. NtPool'
  BY <1>1, <1>2, <1>4, NtPoolKeeps
<1>9. NtOutput'
  <2>1. ntproc'[IPOUT].at = "fetch" <=> ntproc[IPOUT].at = "fetch"
    BY <1>1, <1>4, NetAssumption
  <2> QED  BY <1>1, <2>1, NtOutputFrame
<1>10. NtBounds'
  BY <1>1 DEF NtInv, NtBounds
<1>11. NtCounted'
  <2> DEFINE k == 0 - 1
  <2>1. NtStored' = NtStored /\ NtStored \in Int
    BY <1>1, <1>7, NtFields, NtQueuedFrame DEF NtStored
  <2>2. NtClaim("read") = 1 /\ NtClaim(ntproc[NETIN].at) = 0
    BY <1>1 DEF NtClaim
  <2>3. k \in Int /\ NtClaimed' = NtClaimed - k /\ nbsem'.n = nbsem.n + k - 0
    BY <1>2, <1>4, <2>2
  <2>4. NtStored' = NtStored + 0
    BY <2>1
  <2> HIDE DEF k
  <2> QED  BY <1>4, <2>3, <2>4, NtCountedKeeps
<1> QED  BY <1>5, <1>7, <1>8, <1>9, <1>10, <1>11 DEF NtInv

\* netin has read a frame (net.c).
LEMMA NtArrivalKeeps ==
  ASSUME NtInv, ~icstray, NtArrival
  PROVE  NtInv'
<1>1. NETIN \in Procs
  BY NetAssumption
<1>2. NetinReads => /\ ntproc[NETIN].at = "read" /\ NETIN \notin Waiters(nbsem) /\ NtHand(NETIN, nbsem)
  BY <1>1, NtHandIs DEF NetinReads, NtRuns
<1>3. ASSUME NEW src \in Hosts, NEW kind, NetinArp(kind, src)  PROVE NtInv'
  <2>1. /\ NetinReads /\ ArpIn(kind, src) /\ nbsem' = UpN(nbsem, 1) /\ Return(NETIN)
        /\ UNCHANGED <<udptab, icmptab, icstray, ipoqueue, iqsem>>
    BY <1>3 DEF NetinArp, Free
  <2>2. NtAway(NETIN)
    BY <1>1, <1>2, <2>1, ReturnIs DEF NtAway, NtWaits
  <2>3. /\ arpcache' \in NtArTabs /\ NtArpTold' /\ mail' \subseteq Procs
        /\ NtSame("udp") /\ NtSame("icmp")
    BY <1>1, <2>1, <2>2, ArpInKeeps
  <2> QED  BY <1>1, <1>2, <2>1, <2>3, NtArpEndKeeps
<1>4. ASSUME NEW src \in Hosts, NEW packet \in NtPacket(src), NetinIp(packet)  PROVE NtInv'
  <2>1. packet \in NtPackets
    BY DEF NtPacket, Packet, NtPackets, NtEnds, NtIds
  <2> QED  BY <1>1, <1>2, <1>4, <2>1, IpLocalKeeps DEF NetinIp
<1>5. ASSUME NetinDrop  PROVE NtInv'
  BY <1>1, <1>2, <1>5, IpOutKeeps DEF NetinDrop
<1> QED  BY <1>3, <1>4, <1>5 DEF NtArrival

\* ipout waits for a packet (ip.c).
LEMMA IpoutNextKeeps ==
  ASSUME NtInv, IpoutNext
  PROVE  NtInv'
<1>1. /\ IPOUT \in Procs /\ ntproc[IPOUT].at = "next" /\ IPOUT \notin Waiters(nbsem)
      /\ iqsem' = Down(iqsem, IPOUT) /\ Goto(IPOUT, "fetch", -1, NoPacket)
      /\ UNCHANGED <<mail, nbsem, arpcache, udptab, icmptab, icstray, ipoqueue>>
  BY NetAssumption DEF IpoutNext, NtRuns
<1>2. /\ NtOutput /\ SemaSound(iqsem) /\ Waiters(iqsem) = {} /\ iqsem.n = NtQueued - 0
      /\ NtQueued \in Nat /\ iqsem.n \in Int /\ IP_OQSIZ \in Nat
  BY <1>1, NtFields, IpAssumption DEF NtInv, NtOutput
<1>3. /\ SemaSound(iqsem') /\ iqsem'.n = iqsem.n - 1 /\ Waiters(iqsem') \subseteq {IPOUT}
  BY <1>1, <1>2, DownIs
<1>4. "fetch" \in NtPlaces /\ "fetch" \notin {"buffer", "answer", "arp", "send"} /\ -1 \in Int
  BY DEF NtPlaces
<1>5. /\ ntproc' \in [Procs -> NtWhere] /\ \A q \in Procs : NtCarries(ntproc'[q])
      /\ ntproc'[IPOUT].at = "fetch" /\ \A q \in Procs \ {IPOUT} : ntproc'[q] = ntproc[q]
      /\ NtClaimed \in Int /\ NtClaimed' = NtClaimed + NtClaim("fetch") - NtClaim(ntproc[IPOUT].at)
  BY <1>1, <1>4, GotoIs
<1>6. NtTypes'
  BY <1>1, <1>5, NtFields, NtTyped
<1>7. NtSame("udp") /\ NtSame("icmp") /\ NtSame("arp")
  BY <1>1, <1>5, NtOthers
<1>8. NtUdpTold' /\ NtUdpSum' = NtUdpSum /\ NtIcmpTold' /\ NtIcmpSum' = NtIcmpSum /\ NtArpTold'
  BY <1>1, <1>7, NtUdpFrame, NtIcmpFrame, NtArpFrame
<1>9. NtPool'
  <2>1. SemaSound(nbsem') /\ Waiters(nbsem') \subseteq Waiters(nbsem) \cup {IPOUT} /\ IPOUT \notin Waiters(nbsem')
    BY <1>1, NtFields
  <2> QED  BY <1>1, <1>5, <2>1, NtPoolKeeps
<1>10. NtOutput'
  <2>1. iqsem'.n = NtQueued' - 1 /\ iqsem'.n <= IP_OQSIZ
    BY <1>1, <1>2, <1>3, NtQueuedFrame DEF NtOutput
  <2>2. /\ ipoqueue'.stray => ipoqueue'.lost > 0
        /\ ipoqueue'.lost = 0 => NtRun'
    BY <1>1, <1>2 DEF NtOutput, NtRun, NtFull
  <2>3. (Waiters(iqsem))' \subseteq {IPOUT} /\ (SemaSound(iqsem))'
    BY <1>3 DEF Waiters, SemaSound
  <2> QED  BY <1>5, <2>1, <2>2, <2>3 DEF NtOutput
<1>11. NtBounds'
  BY <1>1 DEF NtInv, NtBounds
<1>12. NtCounted'
  <2>1. NtStored' = NtStored /\ NtStored \in Int /\ nbsem' = nbsem /\ nbsem.n \in Int
    BY <1>1, <1>8, NtFields, NtQueuedFrame DEF NtStored
  <2>2. NtClaim("fetch") = 0 /\ NtClaim(ntproc[IPOUT].at) = 0
    BY <1>1 DEF NtClaim
  <2>3. NtClaimed' = NtClaimed - 0
    BY <1>5, <2>2
  <2>4. NtStored' = NtStored + 0 /\ nbsem'.n = nbsem.n + 0 - 0
    BY <2>1
  <2> QED  BY <1>5, <2>3, <2>4, NtCountedKeeps
<1> QED  BY <1>6, <1>8, <1>9, <1>10, <1>11, <1>12 DEF NtInv

\* Where ipout has been let through, there is a packet in the ring or one was overwritten.
LEMMA IpoutCounted ==
  ASSUME NtInv, ntproc[IPOUT].at = "fetch", IPOUT \notin Waiters(iqsem)
  PROVE  /\ SemaSound(iqsem) /\ Waiters(iqsem) = {} /\ iqsem.n = NtQueued - 1 /\ iqsem.n \in Nat
         /\ ipoqueue.buf[ipoqueue.head] = NoPacket => ipoqueue.lost > 0
<1>1. /\ NtOutput /\ SemaSound(iqsem) /\ Waiters(iqsem) \subseteq {IPOUT} /\ iqsem.n = NtQueued - 1
      /\ ipoqueue \in NtRings /\ NtQueued \in Nat
  BY NtFields DEF NtInv, NtOutput
<1>2. Waiters(iqsem) = {} /\ iqsem.n >= 0 /\ iqsem.n \in Int
  BY <1>1, NobodyWaits DEF SemaSound
<1>3. /\ ipoqueue.lost \in Nat /\ ipoqueue.head \in IqPlaces /\ ipoqueue.tail \in IqPlaces
  BY <1>1 DEF NtRings
<1>4. ASSUME ipoqueue.lost = 0, ~NtFull(ipoqueue.head)  PROVE FALSE
  <2>1. NtRun
    BY <1>1, <1>4 DEF NtOutput
  <2>2. \A i \in IqPlaces : ~NtFull(i)
    BY <1>3, <1>4, <2>1, IpAssumption DEF NtRun, IqPlaces
  <2>3. IqUnfetched = 0
    BY <1>1, <2>2, NtQueuedIs
  <2>4. NtQueued = 0
    BY <1>4, <2>3 DEF NtQueued
  <2> QED  BY <1>1, <1>2, <2>4
<1>5. ipoqueue.buf[ipoqueue.head] = NoPacket => ipoqueue.lost > 0
  BY <1>3, <1>4 DEF NtFull
<1> QED  BY <1>1, <1>2, <1>5

\* ipout takes the packet at iqhead, or fetches one for the second time (ip.c).
LEMMA IpoutFetchKeeps ==
  ASSUME NtInv, IpoutFetch
  PROVE  NtInv'
<1> DEFINE h == ipoqueue.head
           packet == ipoqueue.buf[h]
<1>1. /\ IPOUT \in Procs /\ ntproc[IPOUT].at = "fetch" /\ IPOUT \notin Waiters(nbsem)
      /\ UNCHANGED <<mail, nbsem, arpcache, udptab, icmptab, icstray, iqsem>>
  BY NetAssumption DEF IpoutFetch, NtRuns
<1>2. /\ SemaSound(iqsem) /\ Waiters(iqsem) = {} /\ iqsem.n = NtQueued - 1 /\ iqsem.n \in Nat
      /\ packet = NoPacket => ipoqueue.lost > 0
  BY IpoutCounted DEF IpoutFetch, NtRuns
<1>3. /\ ipoqueue \in NtRings /\ NtQueued \in Nat /\ NtOutput /\ ipoqueue.lost \in Nat
      /\ packet \in NtPackets \cup {NoPacket}
  BY NtFields DEF NtInv, NtRings
<1>4. CASE packet = NoPacket
  <2>1. ipoqueue' = [ipoqueue EXCEPT !.stray = TRUE] /\ UNCHANGED ntproc
    BY <1>4 DEF IpoutFetch
  <2>2. /\ ipoqueue' \in NtRings /\ ipoqueue'.buf = ipoqueue.buf /\ ipoqueue'.lost = ipoqueue.lost
        /\ ipoqueue'.head = ipoqueue.head /\ ipoqueue'.tail = ipoqueue.tail
    BY <1>3, <2>1 DEF NtRings
  <2>3. NtQueued' = NtQueued
    BY <2>2 DEF NtQueued, IqUnfetched
  <2>4. NtTypes'
    BY <1>1, <2>1, <2>2, NtFields, NtTyped
  <2>5. NtSame("udp") /\ NtSame("icmp") /\ NtSame("arp")
    BY <1>1, <2>1, NtOthers, NtFields
  <2>6. NtUdpTold' /\ NtUdpSum' = NtUdpSum /\ NtIcmpTold' /\ NtIcmpSum' = NtIcmpSum /\ NtArpTold'
    BY <1>1, <2>5, NtUdpFrame, NtIcmpFrame, NtArpFrame
  <2>7. NtPool' /\ NtBounds'
    BY <1>1, <2>1 DEF NtInv, NtPool, NtBounds, Waiters, SemaSound
  <2>8. NtOutput'
    <3>1. ipoqueue.lost = 0 => NtRun'
      BY <1>3, <2>2 DEF NtOutput, NtRun, NtFull
    <3>2. (Waiters(iqsem))' \subseteq {IPOUT} /\ (SemaSound(iqsem))' /\ iqsem'.n <= IP_OQSIZ
      BY <1>1, <1>2, <1>3 DEF NtOutput, Waiters, SemaSound
    <3> QED  BY <1>1, <1>2, <1>4, <2>1, <2>2, <2>3, <3>1, <3>2 DEF NtOutput
  <2>9. NtCounted'
    <3>1. NtClaimed' = NtClaimed
      BY <2>1 DEF NtClaimed, NtClaimers
    <3>2. NtStored' = NtStored
      BY <2>3, <2>6 DEF NtStored
    <3> QED  BY <1>1, <3>1, <3>2 DEF NtInv, NtCounted
  <2> QED  BY <2>4, <2>6, <2>7, <2>8, <2>9 DEF NtInv
<1>5. CASE packet # NoPacket
  <2>1. /\ ipoqueue' = [ipoqueue EXCEPT !.buf[h] = NoPacket, !.head = IqNext(h)]
        /\ Goto(IPOUT, "send", -1, packet)
    BY <1>5 DEF IpoutFetch
  <2>2. /\ ipoqueue' \in NtRings /\ NtQueued' = NtQueued - 1
        /\ ipoqueue'.stray = ipoqueue.stray /\ ipoqueue'.lost = ipoqueue.lost
        /\ NtRun => NtRun'
    BY <1>3, <1>5, <2>1, IpFetchedIs
  <2>3. "send" \in NtPlaces /\ -1 \in Int /\ packet \in NtPackets
    BY <1>3, <1>5 DEF NtPlaces
  <2>4. /\ ntproc' \in [Procs -> NtWhere] /\ \A q \in Procs : NtCarries(ntproc'[q])
        /\ ntproc'[IPOUT].at = "send" /\ \A q \in Procs \ {IPOUT} : ntproc'[q] = ntproc[q]
        /\ NtClaimed \in Int /\ NtClaimed' = NtClaimed + NtClaim("send") - NtClaim(ntproc[IPOUT].at)
    BY <1>1, <2>1, <2>3, GotoIs
  <2>5. NtTypes'
    BY <1>1, <2>2, <2>4, NtFields, NtTyped
  <2>6. NtSame("udp") /\ NtSame("icmp") /\ NtSame("arp")
    BY <1>1, <2>4, NtOthers
  <2>7. NtUdpTold' /\ NtUdpSum' = NtUdpSum /\ NtIcmpTold' /\ NtIcmpSum' = NtIcmpSum /\ NtArpTold'
    BY <1>1, <2>6, NtUdpFrame, NtIcmpFrame, NtArpFrame
  <2>8. NtPool'
    <3>1. IPOUT \notin Waiters(nbsem) /\ SemaSound(nbsem')
      BY <1>1, NtFields DEF NtInv, NtPool
    <3> QED  BY <1>1, <2>4, <3>1, NtPoolKeeps
  <2>9. NtOutput'
    <3>1. iqsem'.n = NtQueued' - 0 /\ iqsem'.n <= IP_OQSIZ
      BY <1>1, <1>2, <1>3, <2>2 DEF NtOutput
    <3>2. (Waiters(iqsem))' = {} /\ (SemaSound(iqsem))'
      BY <1>1, <1>2 DEF Waiters, SemaSound
    <3>3. /\ ipoqueue'.stray => ipoqueue'.lost > 0
          /\ ipoqueue'.lost = 0 => NtRun'
      BY <1>3, <2>2 DEF NtOutput
    <3> QED  BY <2>4, <3>1, <3>2, <3>3 DEF NtOutput
  <2>10. NtBounds'
    BY <1>1 DEF NtInv, NtBounds
  <2>11. NtCounted'
    <3> DEFINE k == 0 - 1
    <3>1. NtStored' = NtStored + k
      <4>1. NtUdpSum \in Int /\ NtIcmpSum \in Int
        BY NtFields
      <4> QED  BY <1>3, <2>2, <2>7, <4>1 DEF NtStored
    <3>2. NtClaim("send") = 1 /\ NtClaim(ntproc[IPOUT].at) = 0
      BY <1>1 DEF NtClaim
    <3>3. k \in Int /\ NtClaimed' = NtClaimed - k
      BY <2>4, <3>2
    <3>4. nbsem'.n = nbsem.n + k - k
      BY <1>1, <3>3, NtFields
    <3> HIDE DEF k
    <3> QED  BY <2>4, <3>1, <3>3, <3>4, NtCountedKeeps
  <2> QED  BY <2>5, <2>7, <2>8, <2>9, <2>10, <2>11 DEF NtInv
<1> QED  BY <1>4, <1>5

\* After net_init and netstart (net.c).
LEMMA NtInitially == NtInit => NtInv
<1> SUFFICES ASSUME NtInit  PROVE NtInv
  OBVIOUS
<1>1. /\ mail = {} /\ nbsem = Sema(NBufs) /\ iqsem = Sema(0) /\ icstray = FALSE
      /\ ntproc = [p \in Procs |-> IF p \in Apps THEN Idle ELSE [Idle EXCEPT !.at = "next"]]
      /\ arpcache = [i \in ArpSlots |-> ArpFree] /\ udptab = [i \in UdSlots |-> UdFree]
      /\ icmptab = [i \in IcSlots |-> IcFree]
      /\ ipoqueue = [buf |-> [i \in IqPlaces |-> NoPacket], head |-> 0, tail |-> 0,
                     lost |-> 0, stray |-> FALSE]
  BY DEF NtInit, NetBaseInit, ArpInit, UdpInit, IcmpInit, IpInit
<1>2. /\ SemaSound(nbsem) /\ Waiters(nbsem) = {} /\ nbsem.n = NBufs
      /\ SemaSound(iqsem) /\ Waiters(iqsem) = {} /\ iqsem.n = 0 /\ NBufs \in Nat
  BY <1>1, SemaIsSound, NetAssumption
<1>3. /\ UdFree \in NtUdSlot /\ UdFree.state = "free" /\ UdFree.queue = <<>>
      /\ IcFree \in NtIcSlot /\ IcFree.state = "free" /\ IcFree.count = 0
      /\ ArpFree.state = "free"
      /\ ArpFree \in [state : {"free", "pending", "resolved"}, addr : NtEnds, pid : Procs \cup {NoProc}]
  BY DEF UdFree, NtUdSlot, IcFree, NtIcSlot, ArpFree, NtEnds, NtIds
<1>4. \A p \in Procs : /\ ntproc[p].at \in {"user", "next"} /\ ntproc[p] \in NtWhere
                       /\ NtCarries(ntproc[p])
  <2>1. Idle \in NtWhere /\ [Idle EXCEPT !.at = "next"] \in NtWhere
    BY DEF Idle, NtWhere, NtPlaces
  <2>2. Idle.at = "user" /\ [Idle EXCEPT !.at = "next"].at = "next"
    BY DEF Idle
  <2> QED  BY <1>1, <2>1, <2>2 DEF NtCarries
<1>5. ntproc \in [Procs -> NtWhere]
  BY <1>1, <1>4
<1>11. /\ ipoqueue \in NtRings /\ \A i \in IqPlaces : ~NtFull(i)
       /\ ipoqueue.stray = FALSE /\ ipoqueue.lost = 0 /\ ipoqueue.head = 0 /\ ipoqueue.tail = 0
  BY <1>1, IpAssumption DEF NtRings, NtFull, IqPlaces
<1>12. NtQueued = 0 /\ NtRun
  BY <1>11, NtQueuedIs DEF NtQueued, NtRun
<1>6. NtTypes
  BY <1>1, <1>3, <1>4, <1>5, <1>11 DEF NtTypes, NtWhere, NtCarries, NtUdSlot, NtIcSlot
<1>7. NtPool /\ NtOutput
  <2>1. IPOUT \in Procs /\ ntproc[IPOUT].at # "fetch" /\ NtQueued - 0 = 0 /\ IP_OQSIZ >= 0
    BY <1>4, <1>12, NetAssumption, IpAssumption
  <2> QED  BY <1>2, <1>11, <1>12, <2>1 DEF NtPool, NtOutput
<1>8. NtBounds
  BY <1>1, <1>3, UdpAssumption, IcmpAssumption, IpAssumption DEF NtBounds
<1>9. NtUdpTold /\ NtIcmpTold /\ NtArpTold
  BY <1>1, <1>3, <1>4 DEF NtUdpTold, NtIcmpTold, NtArpTold
<1>10. NtCounted
  <2>1. NtClaimers(1) = {} /\ NtClaimers(2) = {}
    <3>1. \A p \in Procs : NtClaim(ntproc[p].at) = 0
      BY <1>4 DEF NtClaim
    <3> QED  BY <3>1 DEF NtClaimers
  <2>2. NtClaimed = 0
    BY <2>1, FS_EmptySet DEF NtClaimed
  <2>3. NtUdpSum = 0
    <3> DEFINE f == [i \in UdSlots |-> Len(udptab[i].queue)]
    <3>1. /\ UDP_SLOTS \in Nat /\ f \in [0 .. UDP_SLOTS - 1 -> Int]
          /\ \A i \in 0 .. UDP_SLOTS - 1 : f[i] = 0
      BY <1>1, <1>3, UdpAssumption DEF UdSlots
    <3> HIDE DEF f
    <3>2. NtSum(UDP_SLOTS, f) = 0
      BY <3>1, NtSumZero
    <3> QED  BY <3>2 DEF NtUdpSum, f
  <2>4. NtIcmpSum = 0
    <3> DEFINE f == [i \in IcSlots |-> icmptab[i].count]
    <3>1. /\ ICMP_SLOTS \in Nat /\ f \in [0 .. ICMP_SLOTS - 1 -> Int]
          /\ \A i \in 0 .. ICMP_SLOTS - 1 : f[i] = 0
      BY <1>1, <1>3, IcmpAssumption DEF IcSlots
    <3> HIDE DEF f
    <3>2. NtSum(ICMP_SLOTS, f) = 0
      BY <3>1, NtSumZero
    <3> QED  BY <3>2 DEF NtIcmpSum, f
  <2> QED  BY <1>2, <1>12, <2>2, <2>3, <2>4 DEF NtCounted, NtStored
<1> QED  BY <1>6, <1>7, <1>8, <1>9, <1>10 DEF NtInv

\* Whatever changes nothing.
LEMMA NtStutters == NtInv /\ UNCHANGED ntvars => NtInv'
<1> SUFFICES ASSUME NtInv, UNCHANGED ntvars  PROVE NtInv'
  OBVIOUS
<1>1. UNCHANGED <<mail, nbsem, ntproc, arpcache, udptab, icmptab, icstray, ipoqueue, iqsem>>
  BY DEF ntvars, netbasevars, ipvars
<1>2. NtTypes' /\ NtBounds'
  BY <1>1 DEF NtInv, NtTypes, NtBounds
<1>3. NtPool' /\ NtOutput'
  BY <1>1, NtQueuedFrame DEF NtInv, NtPool, NtOutput, NtRun, NtFull, Waiters, SemaSound
<1>4. NtUdpTold' /\ NtIcmpTold' /\ NtArpTold'
  BY <1>1 DEF NtInv, NtUdpTold, NtIcmpTold, NtArpTold
<1>5. NtCounted'
  <2>1. NtClaimed' = NtClaimed
    BY <1>1 DEF NtClaimed, NtClaimers
  <2>2. NtStored' = NtStored
    BY <1>1, NtQueuedFrame DEF NtStored, NtUdpSum, NtIcmpSum
  <2> QED  BY <1>1, <2>1, <2>2 DEF NtInv, NtCounted
<1> QED  BY <1>2, <1>3, <1>4, <1>5 DEF NtInv

\* One call of a program: net/udp.c, net/icmp.c and what they reach.
LEMMA NtCallKeeps ==
  ASSUME NtInv, ~icstray, NEW p \in Apps,
         \/ UdpCall(p) /\ UNCHANGED <<arpcache, icmptab, icstray, ipoqueue, iqsem>>
         \/ IcmpCall(p) /\ UNCHANGED <<arpcache, udptab, ipoqueue, iqsem>>
         \/ SendCall(p)
  PROVE  NtInv'
<1>1. p \in Procs
  BY DEF Apps
<1>2. CASE UdpCall(p) /\ UNCHANGED <<arpcache, icmptab, icstray, ipoqueue, iqsem>>
  BY <1>1, <1>2, UdRegisterKeeps, UdRecvKeeps, UdReleaseKeeps, UdWakeKeeps DEF UdpCall
<1>3. CASE IcmpCall(p) /\ UNCHANGED <<arpcache, udptab, ipoqueue, iqsem>>
  BY <1>1, <1>3, IcRegisterKeeps, IcRecvKeeps, IcReleaseKeeps, IcWakeKeeps DEF IcmpCall
<1>4. CASE SendCall(p)
  BY <1>1, <1>4, SendCallKeeps
<1> QED  BY <1>2, <1>3, <1>4

\* Every step of the stack.
LEMMA NtStep == NtInv /\ [NtNext]_ntvars => NtInv'
<1> SUFFICES ASSUME NtInv, [NtNext]_ntvars  PROVE NtInv'
  OBVIOUS
<1>1. CASE UNCHANGED ntvars
  BY <1>1, NtStutters
<1>2. CASE NtNext
  <2>1. ~icstray
    BY <1>2 DEF NtNext
  <2>2. CASE NtArrival \/ NetinNext \/ IpoutNext \/ IpoutFetch
    BY <2>1, <2>2, NtArrivalKeeps, NetinNextKeeps, IpoutNextKeeps, IpoutFetchKeeps
  <2>3. CASE IpoutSend
    <3>1. /\ IPOUT \in Procs /\ ntproc[IPOUT].at = "send" /\ IPOUT \notin Waiters(nbsem)
          /\ IpSend(IPOUT, nbsem, ntproc[IPOUT].packet)
      BY <2>3, NetAssumption DEF IpoutSend, NtRuns
    <3>2. ntproc[IPOUT].packet \in NtPackets
      BY <3>1, NtFields DEF NtCarries
    <3> QED  BY <2>1, <3>1, <3>2, NtHandIs, IpSendKeeps
  <2>4. ASSUME NEW p \in Procs,
               \/ IcmpAnswerLater(p)
               \/ ArpAgain(p) /\ UNCHANGED <<udptab, icmptab, icstray, ipoqueue, iqsem>>
               \/ IpResolved(p)
        PROVE  NtInv'
    BY <2>1, <2>4, IcmpAnswerLaterKeeps, ArpAgainKeeps, IpResolvedKeeps
  <2> QED  BY <1>2, <2>1, <2>2, <2>3, <2>4, NtCallKeeps DEF NtNext
<1> QED  BY <1>1, <1>2

\* The invariant of the stack.
LEMMA NtInvariance == NtSpec => []NtInv
<1> QED  BY NtInitially, NtStep, PTL DEF NtSpec

-----------------------------------------------------------------------------
(* What the stack promises *)

\* The state of the stack has its type in every behaviour: the queues of udp_in
\* are not longer than their arrays, nor those of icmp_in as long as none has
\* overflowed, and the semaphore of the output queue never counts more than
\* IP_OQSIZ packets, though one more may be in it (ip_enqueue).
THEOREM NtTypeCorrect == NtSpec => []NtTypeOK
<1>1. NtInv => NtTypeOK
  <2> SUFFICES ASSUME NtInv  PROVE NtTypeOK
    OBVIOUS
  <2>1. SemaOK(nbsem) /\ SemaOK(iqsem)
    BY NtFields, SoundIsOK
  <2>2. /\ mail \subseteq Procs /\ DOMAIN ntproc = Procs /\ iqsem.n <= IP_OQSIZ
        /\ {ipoqueue.head, ipoqueue.tail} \subseteq IqPlaces
        /\ \A i \in UdSlots : Len(udptab[i].queue) <= UDP_QSIZ
    BY NtFields DEF NtInv, NtBounds, NtOutput, NtRings
  <2>3. ~icstray => \A i \in IcSlots : icmptab[i].count \in 0 .. ICMP_QSIZ
    BY NtFields, IcmpAssumption DEF NtInv, NtBounds, NtIcTabs
  <2>4. \A i \in ArpSlots : arpcache[i].state \in {"free", "pending", "resolved"}
    BY NtFields DEF NtArTabs
  <2> QED  BY <2>1, <2>2, <2>3, <2>4 DEF NtTypeOK
<1> QED  BY <1>1, NtInvariance, PTL

\* udp_recv, icmp_recv and the handlers of arrivals (udp.c, icmp.c): a process
\* that waits where a packet is has been told, one that was told finds a
\* packet even if its time ran out first, and a slot is marked as receiving
\* only while its owner waits.
THEOREM NtTold == NtSpec => []NtWaitersTold
<1>1. NtInv => NtWaitersTold
  <2> SUFFICES ASSUME NtInv  PROVE NtWaitersTold
    OBVIOUS
  <2>1. NtUdpTold /\ NtIcmpTold
    BY DEF NtInv
  <2>2. /\ \A i \in UdSlots : udptab[i].state = "receiving" =>
             udptab[i].queue = <<>> /\ ntproc[udptab[i].owner].at = "udp"
        /\ \A i \in IcSlots : icmptab[i].state = "receiving" =>
             icmptab[i].count = 0 /\ ntproc[icmptab[i].owner].at = "icmp"
    BY <2>1 DEF NtUdpTold, NtIcmpTold
  <2>3. ASSUME NEW p \in Apps
        PROVE  LET i == ntproc[p].slot IN
               /\ ntproc[p].at = "udp" => (p \in mail <=> udptab[i].queue # <<>>)
               /\ ntproc[p].at = "icmp" => (p \in mail <=> icmptab[i].count > 0)
    BY <2>1 DEF NtUdpTold, NtIcmpTold, Apps
  <2> QED  BY <2>2, <2>3 DEF NtWaitersTold
<1> QED  BY <1>1, NtInvariance, PTL

\* arp_resolve and arp_in (arp.c): a pending entry of the cache has the process
\* that will resolve it or give it up, which waits for this address and has
\* not been told; and who waits has such an entry or has been told.
THEOREM NtPending == NtSpec => []NtPendingOwned
<1>1. NtInv => NtPendingOwned
  BY DEF NtInv, NtArpTold, NtPendingOwned
<1> QED  BY <1>1, NtInvariance, PTL

\* Two groups that have nobody in common.
LEMMA NtApart ==
  ASSUME NEW S \in SUBSET Procs, NEW T \in SUBSET Procs, S \cap T = {}
  PROVE  /\ Cardinality(S) \in Int /\ Cardinality(T) \in Int
         /\ Cardinality(S \cup T) = Cardinality(S) + Cardinality(T)
<1>1. IsFiniteSet(S) /\ IsFiniteSet(T)
  BY SemasAssumption, FS_Subset
<1>2. Cardinality(S) \in Nat /\ Cardinality(T) \in Nat /\ Cardinality({}) = 0
  BY <1>1, FS_CardinalityType, FS_EmptySet
<1>3. Cardinality(S \cup T) = Cardinality(S) + Cardinality(T) - 0
  BY <1>1, <1>2, FS_Union
<1>4. \A x, y \in Int : x + y - 0 = x + y
  OBVIOUS
<1> QED  BY <1>2, <1>3, <1>4

\* Who waits in getbuf has a claim it does not hold a buffer for yet, and holds
\* what it claims otherwise.
LEMMA NtHoldings ==
  ASSUME NtInv
  PROVE  /\ NtClaimed = Cardinality({p \in Procs : NtHeld(p) > 0})
                          + Cardinality({p \in Procs : NtHeld(p) > 1}) + Cardinality(Waiters(nbsem))
         /\ Cardinality({p \in Procs : NtHeld(p) > 0}) \in Int
         /\ Cardinality({p \in Procs : NtHeld(p) > 1}) \in Int
<1> DEFINE W == Waiters(nbsem)
           H1 == {p \in Procs : NtHeld(p) > 0}
           H2 == {p \in Procs : NtHeld(p) > 1}
           W1 == {p \in W : NtClaim(ntproc[p].at) = 1}
           W2 == {p \in W : NtClaim(ntproc[p].at) = 2}
<1>1. W \subseteq Procs /\ \A p \in W : ntproc[p].at \in {"read", "buffer", "answer"}
  BY NtFields, SoundIsOK DEF NtInv, NtPool
<1>2. \A p \in Procs : /\ NtClaim(ntproc[p].at) \in 0 .. 2
                       /\ p \in W => /\ NtClaim(ntproc[p].at) \in 1 .. 2
                                     /\ NtHeld(p) = NtClaim(ntproc[p].at) - 1
                       /\ p \notin W => NtHeld(p) = NtClaim(ntproc[p].at)
  BY <1>1 DEF NtHeld, NtClaim
<1>3. /\ NtClaimers(1) = H1 \cup W1 /\ H1 \cap W1 = {}
      /\ NtClaimers(2) = H2 \cup W2 /\ H2 \cap W2 = {}
      /\ W = W1 \cup W2 /\ W1 \cap W2 = {}
      /\ H1 \subseteq Procs /\ H2 \subseteq Procs /\ W1 \subseteq Procs /\ W2 \subseteq Procs
  BY <1>1, <1>2 DEF NtClaimers
<1> HIDE DEF W, H1, H2, W1, W2
<1>4. /\ Cardinality(H1) \in Int /\ Cardinality(H2) \in Int
      /\ Cardinality(W1) \in Int /\ Cardinality(W2) \in Int
      /\ Cardinality(NtClaimers(1)) = Cardinality(H1) + Cardinality(W1)
      /\ Cardinality(NtClaimers(2)) = Cardinality(H2) + Cardinality(W2)
      /\ Cardinality(W) = Cardinality(W1) + Cardinality(W2)
  BY <1>3, NtApart
<1>5. /\ NtClaimed = Cardinality(H1) + Cardinality(H2) + Cardinality(W)
      /\ Cardinality(H1) \in Int /\ Cardinality(H2) \in Int
  BY <1>4 DEF NtClaimed
<1> QED  BY <1>5 DEF H1, H2, W

\* ip_send, ip_recv, arp_resolve, udp_in, icmp_in and their error paths: as
\* long as no queue of echo replies has overflowed and no packet was fetched
\* twice, every buffer of netbufpool is in the pool, in one queue, in the hands
\* of one process, or was overwritten in the output queue, however the steps of
\* programs, netin and ipout interleave; what ipout is behind its wait makes up
\* for the difference between the packets and their semaphore; and no packet is
\* fetched twice unless another has been overwritten.
THEOREM NtBuffersAreKept == NtSpec => []NtBuffersKept
<1>1. NtInv => NtBuffersKept
  <2> SUFFICES ASSUME NtInv  PROVE NtBuffersKept
    OBVIOUS
  <2> DEFINE h1 == Cardinality({p \in Procs : NtHeld(p) > 0})
             h2 == Cardinality({p \in Procs : NtHeld(p) > 1})
             w == Cardinality(Waiters(nbsem))
  <2>1. /\ NtClaimed = h1 + h2 + w /\ h1 \in Int /\ h2 \in Int
    BY NtHoldings
  <2>2. w = IF nbsem.n < 0 THEN 0 - nbsem.n ELSE 0
    <3>1. SemaOK(nbsem) /\ nbsem.n \in Int
      BY NtFields, SoundIsOK
    <3> QED  BY <3>1 DEF SemaOK
  <2>3. /\ nbsem.n \in Int /\ NBufs \in Int /\ NtUdpSum \in Int /\ NtIcmpSum \in Int
        /\ NtQueued \in Int
        /\ NBufs - nbsem.n = NtQueued + NtUdpSum + NtIcmpSum + NtClaimed
    BY NtFields DEF NtCounted, NtStored
  <2> HIDE DEF h1, h2, w
  <2>4. NBufs = Available(nbsem) + NtQueued + h1 + h2 + NtUdpSum + NtIcmpSum
    <3>1. Available(nbsem) = nbsem.n + w /\ w \in Int
      BY <2>2, <2>3 DEF Available
    <3> DEFINE b == NBufs
               n == nbsem.n
               l == NtQueued
               a == Available(nbsem)
               u == NtUdpSum
               e == NtIcmpSum
               c == NtClaimed
    <3>2. /\ b \in Int /\ n \in Int /\ l \in Int /\ u \in Int /\ e \in Int
          /\ b - n = l + u + e + c /\ c = h1 + h2 + w /\ a = n + w
      BY <2>1, <2>3, <3>1
    <3> HIDE DEF b, n, l, a, u, e, c
    <3>3. b = a + l + h1 + h2 + u + e
      BY <2>1, <3>1, <3>2
    <3> QED  BY <3>3 DEF b, l, a, u, e
  <2>5. NBufs = Available(nbsem) + IqUnfetched + ipoqueue.lost + h1 + h2 + NtUdpSum + NtIcmpSum
    <3>1. /\ ipoqueue \in NtRings /\ IqUnfetched \in Nat /\ ipoqueue.lost \in Nat
          /\ NtQueued = IqUnfetched + ipoqueue.lost
      BY NtFields, NtQueuedIs DEF NtQueued, NtRings
    <3>2. Available(nbsem) \in Int
      BY <2>2, <2>3 DEF Available
    <3> QED  BY <2>1, <2>3, <2>4, <3>1, <3>2
  <2>6. IqUnfetched + ipoqueue.lost = iqsem.n + IF ntproc[IPOUT].at = "fetch" THEN 1 ELSE 0
    <3>1. NtOutput /\ NtQueued \in Nat /\ iqsem.n \in Int
      BY NtFields DEF NtInv, SemaSound
    <3>2. NtQueued = iqsem.n + IF ntproc[IPOUT].at = "fetch" THEN 1 ELSE 0
      BY <3>1 DEF NtOutput
    <3> QED  BY <3>2 DEF NtQueued
  <2>7. ipoqueue.stray => ipoqueue.lost > 0
    BY DEF NtInv, NtOutput
  <2> QED  BY <2>5, <2>6, <2>7 DEF NtBuffersKept, NtUdpSum, NtIcmpSum, h1, h2
<1> QED  BY <1>1, NtInvariance, PTL

-----------------------------------------------------------------------------
(* The TFTP client *)

(* Until the transfer ends, the buffers hold the blocks before the one that *)
(* is expected                                                              *)
TfWhere == {"send", "recv", "final", "full", "done", "failed"}
TfAnswers == TfPorts \cup {TFTP_PORT}
TfGets == [at : TfWhere, tries : Nat, expected : Nat \ {0}, remport : TfAnswers,
           out : {"rrq", "ack"}, got : Seq(Nat)]
TfMessages == [op : {"data", "error"}, blk : Nat, port : TfAnswers]
TfBefore(b) == (b - 1) * TFTP_MAXDATA

TfInv ==
  /\ tfsize \in Nat /\ tfroom \in Nat /\ tfget \in TfGets /\ tfair \subseteq TfMessages
  /\ \A i \in 1 .. Len(tfget.got) : tfget.got[i] = i
  /\ tfget.at \in {"send", "recv"} => /\ Len(tfget.got) = TfBefore(tfget.expected)
                                      /\ Len(tfget.got) <= tfsize
  /\ tfget.at \in {"final", "done"} => Len(tfget.got) = tfsize
  /\ tfget.at = "full" => Len(tfget.got) = tfroom /\ tfroom < tfsize

\* Appending the next block: the bytes of the file go on where the buffers end.
LEMMA TfBytesFollow ==
  ASSUME NEW b \in Nat \ {0}, tfsize \in Nat, TfBefore(b) <= tfsize,
         NEW got \in Seq(Nat), Len(got) = TfBefore(b), \A i \in 1 .. Len(got) : got[i] = i
  PROVE  /\ TfBytes(b) \in Seq(Nat) /\ Len(TfBytes(b)) \in Nat
         /\ got \o TfBytes(b) \in Seq(Nat)
         /\ Len(got \o TfBytes(b)) = Len(got) + Len(TfBytes(b))
         /\ \A i \in 1 .. Len(got \o TfBytes(b)) : (got \o TfBytes(b))[i] = i
         /\ Len(got \o TfBytes(b)) <= tfsize
         /\ IF Len(TfBytes(b)) < TFTP_MAXDATA
            THEN Len(got \o TfBytes(b)) = tfsize
            ELSE Len(got \o TfBytes(b)) = TfBefore(b + 1)
<1> DEFINE first == (b - 1) * TFTP_MAXDATA
           end == b * TFTP_MAXDATA
           last == IF end < tfsize THEN end ELSE tfsize
           data == [i \in 1 .. last - first |-> first + i]
<1>1. first \in Nat /\ end \in Nat /\ end = first + TFTP_MAXDATA /\ TFTP_MAXDATA \in Nat
  <2>1. TFTP_MAXDATA \in Nat /\ b - 1 \in Nat /\ b \in Nat
    BY TftpAssumption
  <2>2. \A x, y \in Nat : x * y \in Nat /\ (x + 1) * y = x * y + y
    OBVIOUS
  <2>3. first \in Nat /\ ((b - 1) + 1) * TFTP_MAXDATA = first + TFTP_MAXDATA
    BY <2>1, <2>2
  <2>4. (b - 1) + 1 = b
    BY <2>1
  <2> QED  BY <2>1, <2>2, <2>3, <2>4
<1>2. TfBefore(b) = first /\ TfBefore(b + 1) = end
  <2>1. (b + 1) - 1 = b
    OBVIOUS
  <2> QED  BY <2>1 DEF TfBefore
<1>3. TfBytes(b) = data
  BY DEF TfBytes
<1> HIDE DEF first, end
<1>4. last \in Nat /\ last - first \in Nat /\ first <= last /\ last <= tfsize
  BY <1>1, <1>2
<1>5. data \in Seq(Nat) /\ Len(data) = last - first /\ \A i \in 1 .. Len(data) : data[i] = first + i
  <2> DEFINE k == last - first
  <2>1. k \in Nat /\ data = [i \in 1 .. k |-> first + i]
    BY <1>4
  <2> HIDE DEF k, data
  <2>2. data \in [1 .. k -> Nat] /\ DOMAIN data = 1 .. k /\ \A i \in 1 .. k : data[i] = first + i
    BY <1>1, <2>1
  <2>3. data \in Seq(Nat) /\ Len(data) = k
    BY <2>1, <2>2
  <2> QED  BY <2>2, <2>3 DEF k
<1>6. /\ IF last - first < TFTP_MAXDATA THEN last = tfsize ELSE last = end
  BY <1>1, <1>2
<1> HIDE DEF data, last
<1>7. /\ got \o data \in Seq(Nat) /\ Len(got \o data) = first + (last - first)
      /\ Len(got) = first
      /\ \A i \in 1 .. Len(got \o data) :
           (got \o data)[i] = IF i <= Len(got) THEN got[i] ELSE data[i - Len(got)]
  <2>1. Len(got) = first
    BY <1>2
  <2>2. /\ got \o data \in Seq(Nat) /\ Len(got \o data) = Len(got) + Len(data)
        /\ \A i \in 1 .. Len(got) + Len(data) :
             (got \o data)[i] = IF i <= Len(got) THEN got[i] ELSE data[i - Len(got)]
    BY <1>5, ConcatProperties
  <2> QED  BY <1>5, <2>1, <2>2
<1>8. first + (last - first) = last
  BY <1>1, <1>4
<1>9. \A i \in 1 .. Len(got \o data) : (got \o data)[i] = i
  <2> TAKE i \in 1 .. Len(got \o data)
  <2>1. CASE i <= Len(got)
    BY <1>7, <2>1
  <2>2. CASE ~(i <= Len(got))
    <3>1. i - first \in 1 .. Len(data) /\ first + (i - first) = i
      BY <1>1, <1>4, <1>5, <1>7, <1>8, <2>2
    <3> QED  BY <1>5, <1>7, <2>2, <3>1
  <2> QED  BY <2>1, <2>2
<1> QED  BY <1>2, <1>3, <1>4, <1>5, <1>6, <1>7, <1>8, <1>9

\* tftpget_mb and tftp_send1 (tftp.c), one step of the client, the server and
\* the network.
LEMMA TfStep == TfInv /\ [TfNext]_tfvars => TfInv'
<1> SUFFICES ASSUME TfInv, [TfNext]_tfvars  PROVE TfInv'
  OBVIOUS
<1>1. CASE UNCHANGED tfvars
  BY <1>1 DEF tfvars, TfInv
<1>2. ASSUME UNCHANGED <<tfsize, tfroom, tfair>>, NEW at \in {"send", "recv", "failed"},
             tfget.at \in {"send", "recv"},
             tfget' \in TfGets, tfget'.at = at, tfget'.got = tfget.got,
             tfget'.expected = tfget.expected
      PROVE  TfInv'
  BY <1>2 DEF TfInv
<1>3. CASE TfSend
  <2>1. tfair' \subseteq TfMessages
    <3>1. tfget.expected \in Nat /\ tfair \subseteq TfMessages
      BY DEF TfInv, TfGets
    <3>2. \A b \in Nat, s \in TfPorts : TfData(b, s) \in TfMessages
      BY DEF TfData, TfMessages, TfAnswers
    <3>3. [op |-> "error", blk |-> 0, port |-> TFTP_PORT] \in TfMessages
      BY DEF TfMessages, TfAnswers
    <3>4. TfServer => tfair' \subseteq TfMessages
      BY <3>1, <3>2, <3>3 DEF TfServer
    <3> QED  BY <1>3, <3>1, <3>4 DEF TfSend
  <2>2. /\ tfget' \in TfGets /\ tfget'.at \in {"recv", "failed"} /\ tfget'.got = tfget.got
        /\ tfget'.expected = tfget.expected /\ tfget.at = "send" /\ UNCHANGED <<tfsize, tfroom>>
    BY <1>3 DEF TfSend, TfInv, TfGets, TfWhere
  <2> QED  BY <2>1, <2>2 DEF TfInv
<1>4. CASE TfTimeout
  <2> DEFINE n == tfget.tries + 1
  <2>1. tfget \in TfGets /\ n \in Nat
    BY DEF TfInv, TfGets
  <2>2. /\ tfget' = [tfget EXCEPT !.at = "send", !.tries = n] /\ tfget.at = "recv"
        /\ UNCHANGED <<tfsize, tfroom, tfair>>
    BY <1>4 DEF TfTimeout
  <2> HIDE DEF n
  <2>3. /\ tfget' \in TfGets /\ tfget'.at = "send" /\ tfget'.got = tfget.got
        /\ tfget'.expected = tfget.expected
    BY <2>1, <2>2 DEF TfGets, TfWhere
  <2> QED  BY <1>2, <2>2, <2>3
<1>5. CASE TfFinal
  <2>1. /\ tfget' \in TfGets /\ tfget'.at \in {"done", "failed"} /\ tfget'.got = tfget.got
        /\ tfget'.expected = tfget.expected /\ tfget.at = "final"
        /\ UNCHANGED <<tfsize, tfroom, tfair>>
    BY <1>5 DEF TfFinal, TfInv, TfGets, TfWhere
  <2> QED  BY <2>1 DEF TfInv
<1>6. ASSUME NEW m \in tfair, TfReceive(m)  PROVE TfInv'
  <2>1. tfget.at = "recv" /\ UNCHANGED <<tfair, tfsent, tfsize, tfroom>> /\ m \in TfMessages
    BY <1>6 DEF TfReceive, TfInv
  <2>2. CASE TfMatches(m)
    <3> DEFINE data == TfBytes(tfget.expected)
               all == tfget.got \o data
    <3>1. tfget' = TfStored(m) /\ m.blk = tfget.expected
      BY <1>6, <2>2 DEF TfReceive, TfMatches
    <3>2. /\ tfsize \in Nat /\ tfroom \in Nat /\ tfget \in TfGets /\ tfget.expected \in Nat \ {0}
          /\ tfget.got \in Seq(Nat) /\ Len(tfget.got) = TfBefore(tfget.expected)
          /\ TfBefore(tfget.expected) <= tfsize /\ \A i \in 1 .. Len(tfget.got) : tfget.got[i] = i
      BY <2>1 DEF TfInv, TfGets
    <3>3. /\ all \in Seq(Nat) /\ Len(data) \in Nat /\ Len(all) <= tfsize
          /\ \A i \in 1 .. Len(all) : all[i] = i
          /\ IF Len(data) < TFTP_MAXDATA THEN Len(all) = tfsize
             ELSE Len(all) = TfBefore(tfget.expected + 1)
      BY <3>2, TfBytesFollow
    <3>4. tfget' = IF Len(all) > tfroom
                   THEN [tfget EXCEPT !.at = "full", !.got = SubSeq(all, 1, tfroom), !.remport = m.port]
                   ELSE [tfget EXCEPT !.at = IF Len(data) < TFTP_MAXDATA THEN "final" ELSE "send",
                                      !.got = all, !.out = "ack", !.remport = m.port,
                                      !.tries = 0, !.expected = @ + 1]
      BY <3>1 DEF TfStored
    <3> HIDE DEF all, data
    <3>5. m.port \in TfAnswers
      BY <2>1 DEF TfMessages
    <3>6. CASE Len(all) > tfroom
      <4> DEFINE part == SubSeq(all, 1, tfroom)
      <4>1. part \in Seq(Nat) /\ Len(part) = tfroom /\ \A i \in 1 .. tfroom : part[i] = i
        <5>1. /\ part \in Seq(Nat) /\ Len(part) = tfroom - 1 + 1
              /\ \A i \in 1 .. tfroom - 1 + 1 : part[i] = all[1 + i - 1]
          BY <3>2, <3>3, <3>6, SubSeqProperties
        <5>2. tfroom - 1 + 1 = tfroom /\ \A i \in 1 .. tfroom : 1 + i - 1 = i /\ i \in 1 .. Len(all)
          BY <3>2, <3>3, <3>6
        <5> QED  BY <3>3, <5>1, <5>2
      <4> HIDE DEF part
      <4>2. tfget' = [tfget EXCEPT !.at = "full", !.got = part, !.remport = m.port]
        BY <3>4, <3>6 DEF part
      <4>3. tfget' \in TfGets /\ tfget'.at = "full" /\ tfget'.got = part
        BY <3>2, <3>5, <4>1, <4>2 DEF TfGets, TfWhere
      <4>4. tfroom < tfsize
        BY <3>2, <3>3, <3>6
      <4> QED  BY <2>1, <3>2, <4>1, <4>3, <4>4 DEF TfInv
    <3>7. CASE ~(Len(all) > tfroom)
      <4> DEFINE at == IF Len(data) < TFTP_MAXDATA THEN "final" ELSE "send"
      <4>1. at \in {"final", "send"} /\ (at = "final" => Len(all) = tfsize)
            /\ (at = "send" => Len(all) = TfBefore(tfget.expected + 1))
        BY <3>3
      <4> DEFINE next == tfget.expected + 1
      <4>2. /\ tfget' = [tfget EXCEPT !.at = at, !.got = all, !.out = "ack", !.remport = m.port,
                                      !.tries = 0, !.expected = next]
            /\ next \in Nat \ {0}
        BY <3>2, <3>4, <3>7
      <4> HIDE DEF at, next
      <4>3. /\ tfget' \in TfGets /\ tfget'.at = at /\ tfget'.got = all /\ tfget'.expected = next
        BY <3>2, <3>3, <3>5, <4>1, <4>2 DEF TfGets, TfWhere
      <4>4. tfget'.expected = tfget.expected + 1 /\ tfget' \in TfGets /\ tfget'.at = at /\ tfget'.got = all
        BY <4>3 DEF next
      <4> QED  BY <2>1, <3>2, <3>3, <4>1, <4>4 DEF TfInv, TfBefore
    <3> QED  BY <3>6, <3>7
  <2>3. CASE ~TfMatches(m)
    <3>1. tfget' = [tfget EXCEPT !.at = "failed"] \/ tfget' = [tfget EXCEPT !.remport = m.port]
      BY <1>6, <2>3 DEF TfReceive
    <3>2. tfget \in TfGets /\ m.port \in TfAnswers
      BY <2>1 DEF TfInv, TfMessages
    <3>3. /\ tfget' \in TfGets /\ tfget'.at \in {"failed", "recv"} /\ tfget'.got = tfget.got
          /\ tfget'.expected = tfget.expected
      BY <2>1, <3>1, <3>2 DEF TfGets, TfWhere
    <3> QED  BY <1>2, <2>1, <3>3
  <2> QED  BY <2>2, <2>3
<1> QED  BY <1>1, <1>3, <1>4, <1>5, <1>6 DEF TfNext

\* tftpget_mb and tftp_send1 (tftp.c): whatever the network loses, delays,
\* repeats or reorders, the buffers hold the beginning of the file in order,
\* and a transfer that reports a size has the whole file or full buffers.
THEOREM TfTransferInOrder == TfSpec => []TfInOrder
<1>1. TfInit => TfInv
  <2> SUFFICES ASSUME TfInit  PROVE TfInv
    OBVIOUS
  <2>1. /\ tfsize \in Nat /\ tfroom \in Nat /\ tfair = {} /\ tfget.at \in {"send", "failed"}
        /\ tfget.expected = 1 /\ tfget.got = <<>> /\ tfget \in TfGets
    <3>1. tfsize \in Nat /\ tfroom \in Nat /\ tfair = {}
      BY TftpAssumption DEF TfInit
    <3>2. tfget \in [at : {"send", "failed"}, tries : {0}, expected : {1},
                     remport : {TFTP_PORT}, out : {"rrq"}, got : {<<>>}]
      BY DEF TfInit
    <3>3. TFTP_PORT \in TfAnswers
      BY DEF TfAnswers
    <3>4. tfget.at \in {"send", "failed"} /\ tfget.expected = 1 /\ tfget.got = <<>>
      BY <3>2
    <3>5. {"send", "failed"} \subseteq TfWhere /\ {0} \subseteq Nat /\ {1} \subseteq Nat \ {0}
          /\ {"rrq"} \subseteq {"rrq", "ack"} /\ {<<>>} \subseteq Seq(Nat)
      BY DEF TfWhere
    <3>6. tfget \in TfGets
      BY <3>2, <3>3, <3>5 DEF TfGets
    <3> QED  BY <3>1, <3>4, <3>6
  <2>2. TfBefore(1) = 0
    <3>1. TFTP_MAXDATA \in Nat
      BY TftpAssumption
    <3> QED  BY <3>1 DEF TfBefore
  <2> QED  BY <2>1, <2>2 DEF TfInv
<1>2. TfInv => TfInOrder
  BY DEF TfInv, TfInOrder
<1> QED  BY <1>1, <1>2, TfStep, PTL DEF TfSpec

-----------------------------------------------------------------------------
(* The remote file system *)

(* One process at a time is between its wait and its signal (RfLock). A    *)
(* reply with the sequence number of the request in hand is an answer to   *)
(* that request, and what it says is still true (RfMail). Where the        *)
(* server's file is not as the callers know it, a request that has been    *)
(* carried out but not answered accounts for it (RfKnown), or a copy of a  *)
(* request that came after its exchange. A copy on the way with the number *)
(* of the request in hand is one of that request (RfAway).                 *)
RfPlaces == {"user", "mutex", "send", "recv"}
RfAsks == {"open", "r", "w"} \cup RfControls
RfOps == RfAsks \cup {"close", "seek", "none"}
RfBits == {GetMode(mode) : mode \in RfModes} \cup {{}}
RfAsked == [op : RfOps, dev : RfDevs, name : RfNames \cup {""}, bits : RfBits, pos : Nat, byte : Nat]
RfWhere == [at : RfPlaces, req : RfAsked, seq : Nat, tries : Nat]
RfReplies == [seq : Nat, op : RfOps, ok : BOOLEAN, byte : Nat, len : 0 .. 1]
RfTabs == [RfDevs -> [used : BOOLEAN, name : RfNames \cup {""}, pos : Nat, mode : RfBits]]
RfFiles == [RfNames -> [RfPositions -> Nat]]
RfGuesses == [RfNames -> [RfPositions -> SUBSET Nat]]

RfTypes ==
  /\ rfltab \in RfTabs /\ rfproc \in [Procs -> RfWhere]
  /\ rf_seq \in Nat \ {0} /\ rfbytes \in Nat
  /\ rfinbox \in Seq(RfReplies) /\ rfair \subseteq RfReplies
  /\ rfdisk \in RfFiles /\ rfmay \in RfGuesses

RfUsers == {p \in Procs : rfproc[p].at # "user"}
RfLock ==
  /\ SemaSound(rf_mutex) /\ \A p \in Waiters(rf_mutex) : rfproc[p].at = "mutex"
  /\ Cardinality(RfUsers) = 1 - rf_mutex.n

RfIn(p) == rfproc[p].at \in {"send", "recv"}

(* what a request is like when it comes, and while it is exchanged *)
RfCalled(r) == /\ r.op # "none"
               /\ r.op \notin {"r", "w"} => r.pos = 0
               /\ r.op \in {"open"} \cup RfControls => r.name \in RfNames
RfGood(x) == /\ x.req.op \in RfAsks /\ x.req.name \in RfNames /\ x.req.pos \in RfPositions
             /\ x.seq < rf_seq
             /\ x.req.op = "open" => rfltab[x.req.dev].name \in RfNames
RfNamed ==
  /\ \A d \in RfDevs : rfltab[d].used => rfltab[d].name \in RfNames
  /\ \A p \in Procs : /\ rfproc[p].at = "mutex" => RfCalled(rfproc[p].req)
                      /\ RfIn(p) => RfGood(rfproc[p])

RfTrue(r, m) ==
  /\ m.op = r.op
  /\ r.op = "r" => m.byte = rfdisk[r.name][r.pos] \/ <<r.name, r.pos>> \in rfredone
  /\ m.ok => \A i \in RfPositions : <<r.name, i>> \in Changes(r) =>
               rfdisk[r.name][i] = NewByte(r) \/ <<r.name, i>> \in rfredone
RfHeard(m) == /\ m.seq < rf_seq
              /\ \A p \in Procs : RfIn(p) /\ rfproc[p].seq = m.seq => RfTrue(rfproc[p].req, m)
RfMail == /\ \A i \in 1 .. Len(rfinbox) : RfHeard(rfinbox[i])
          /\ \A m \in rfair : RfHeard(m)

(* a copy of a request on its way: of the one in hand or of an earlier one *)
RfLate(x) ==
  /\ x.seq \in Nat /\ x.seq < rf_seq
  /\ x.req \in RfAsked /\ x.req.op \in RfAsks /\ x.req.name \in RfNames /\ x.req.pos \in RfPositions
  /\ \A p \in Procs : RfIn(p) /\ rfproc[p].seq = x.seq => rfproc[p].req = x.req
RfAway == \A x \in rfasked : RfLate(x)

RfCarried(n, i) == \E p \in Procs : LET r == rfproc[p].req IN
  /\ RfIn(p) /\ <<n, i>> \in Changes(r) /\ rfdisk[n][i] = NewByte(r)
RfKnown == \A n \in RfNames, i \in RfPositions :
  rfdisk[n][i] \in rfmay[n][i] \/ <<n, i>> \in rfredone \/ RfCarried(n, i)

RfInv == /\ RfTypes /\ RfLock /\ RfNamed /\ RfMail /\ RfAway /\ RfKnown /\ ~rfwrong

\* rfsmutex admits one process: the others are in its queue (rfsopen.c,
\* rflread.c, rflwrite.c and the others that wait for it).
LEMMA RfAlone ==
  ASSUME RfInv
  PROVE  /\ RfUsers \subseteq Procs /\ IsFiniteSet(RfUsers) /\ Waiters(rf_mutex) \subseteq RfUsers
         /\ rf_mutex.n \in Int /\ rf_mutex.n <= 1
         /\ rf_mutex.n = 1 => RfUsers = {}
         /\ Available(rf_mutex) + Cardinality(RfUsers \ Waiters(rf_mutex)) = 1
         /\ \A p, q \in RfUsers \ Waiters(rf_mutex) : p = q
<1> DEFINE U == RfUsers
           W == Waiters(rf_mutex)
           S == U \ W
           n == rf_mutex.n
<1>1. /\ U \subseteq Procs /\ W \subseteq U /\ n \in Int /\ Cardinality(U) = 1 - n
      /\ Cardinality(W) = IF n < 0 THEN 0 - n ELSE 0
  BY SoundIsOK DEF RfInv, RfLock, RfUsers, SemaOK
<1>2. IsFiniteSet(U) /\ IsFiniteSet(W) /\ IsFiniteSet(S) /\ Cardinality(U) \in Nat /\ Cardinality(S) \in Nat
  BY <1>1, SemasAssumption, FS_Subset, FS_CardinalityType
<1>3. Cardinality(U) = Cardinality(S) + Cardinality(W)
  <2>1. S \in SUBSET U /\ W \in SUBSET U /\ S \cap W = {} /\ S \cup W = U
    BY <1>1
  <2> HIDE DEF S, U, W
  <2>2. Cardinality({}) = 0 /\ Cardinality(W) \in Int /\ Cardinality(S) \in Int
    BY <1>2, FS_CardinalityType, FS_EmptySet
  <2>3. Cardinality(U) = Cardinality(S) + Cardinality(W) - 0
    BY <1>2, <2>1, <2>2, FS_Union
  <2>4. \A a, b \in Int : a + b - 0 = a + b
    OBVIOUS
  <2> QED  BY <2>2, <2>3, <2>4
<1>4. n <= 1 /\ (n = 1 => Cardinality(U) = 0)
  BY <1>1, <1>2
<1>5. Cardinality(S) = IF n < 0 THEN 1 ELSE 1 - n
  <2> HIDE DEF S, U, W, n
  <2> QED  BY <1>1, <1>2, <1>3
<1>6. Available(rf_mutex) + Cardinality(S) = 1
  BY <1>1, <1>4, <1>5 DEF Available
<1>7. \A p, q \in S : p = q
  <2> SUFFICES ASSUME NEW p \in S, NEW q \in S, p # q  PROVE FALSE
    OBVIOUS
  <2>1. {p, q} \subseteq S /\ Cardinality({p, q}) = 2
    <3>1. Cardinality({p}) = 1 /\ IsFiniteSet({p}) /\ q \notin {p}
      BY FS_Singleton
    <3>2. Cardinality({p} \cup {q}) = 1 + 1
      BY <3>1, FS_AddElement
    <3>3. {p} \cup {q} = {p, q} /\ {p, q} \subseteq S
      OBVIOUS
    <3> QED  BY <3>2, <3>3
  <2>2. Cardinality({p, q}) <= Cardinality(S)
    BY <1>2, <2>1, FS_Subset
  <2>3. Cardinality(S) <= 1
    <3> HIDE DEF S
    <3>1. n < 0 \/ n = 0 \/ n = 1
      BY <1>1, <1>4, <1>2, <1>5
    <3> QED  BY <1>1, <1>4, <1>2, <1>5
  <2> HIDE DEF S
  <2> QED  BY <1>2, <2>1, <2>2, <2>3
<1>8. n = 1 => U = {}
  BY <1>2, <1>4, FS_EmptySet
<1> QED  BY <1>1, <1>2, <1>4, <1>6, <1>7, <1>8

\* One process goes somewhere, in or out of the file system.
LEMMA RfMoves ==
  ASSUME RfInv, NEW p \in Procs, NEW x \in RfWhere, rfproc' = [rfproc EXCEPT ![p] = x]
  PROVE  /\ rfproc' \in [Procs -> RfWhere] /\ rfproc'[p] = x
         /\ \A q \in Procs \ {p} : rfproc'[q] = rfproc[q]
         /\ Cardinality(RfUsers) \in Int
         /\ Cardinality(RfUsers') = Cardinality(RfUsers) + (IF x.at = "user" THEN 0 ELSE 1)
                                      - (IF rfproc[p].at = "user" THEN 0 ELSE 1)
<1>1. rfproc \in [Procs -> RfWhere]
  BY DEF RfInv, RfTypes
<1>2. /\ rfproc' \in [Procs -> RfWhere] /\ rfproc'[p] = x
      /\ \A q \in Procs \ {p} : rfproc'[q] = rfproc[q]
  BY <1>1
<1> DEFINE U == RfUsers
<1>3. /\ U \subseteq Procs /\ (p \in U <=> rfproc[p].at # "user")
      /\ U' = IF x.at = "user" THEN U \ {p} ELSE U \cup {p}
  BY <1>2 DEF RfUsers
<1> HIDE DEF U
<1>4. /\ Cardinality(U) \in Nat
      /\ p \notin U => Cardinality(U \cup {p}) = Cardinality(U) + 1
      /\ p \in U => Cardinality(U \ {p}) = Cardinality(U) - 1
  BY <1>3, OneMore
<1>5. Cardinality(U') = Cardinality(U) + (IF x.at = "user" THEN 0 ELSE 1)
                          - (IF rfproc[p].at = "user" THEN 0 ELSE 1)
  <2>1. CASE x.at = "user" /\ p \in U
    <3>1. Cardinality(U') = Cardinality(U) - 1
      BY <1>3, <1>4, <2>1
    <3> QED  BY <1>3, <1>4, <2>1, <3>1
  <2>2. CASE x.at = "user" /\ p \notin U
    <3>1. U \ {p} = U
      BY <2>2
    <3>2. Cardinality(U') = Cardinality(U)
      BY <1>3, <2>2, <3>1
    <3> QED  BY <1>3, <1>4, <2>2, <3>2
  <2>3. CASE x.at # "user" /\ p \in U
    <3>1. U \cup {p} = U
      BY <2>3
    <3>2. Cardinality(U') = Cardinality(U)
      BY <1>3, <2>3, <3>1
    <3> QED  BY <1>3, <1>4, <2>3, <3>2
  <2>4. CASE x.at # "user" /\ p \notin U
    <3>1. Cardinality(U') = Cardinality(U) + 1
      BY <1>3, <1>4, <2>4
    <3> QED  BY <1>3, <1>4, <2>4, <3>1
  <2> QED  BY <2>1, <2>2, <2>3, <2>4
<1> QED  BY <1>2, <1>4, <1>5 DEF U

(* A process at the beginning of an operation, behind its wait: m is the   *)
(* semaphore as the wait has left it                                       *)
RfReady(p, m) ==
  /\ SemaSound(m) /\ Waiters(m) = Waiters(rf_mutex) /\ p \notin Waiters(rf_mutex)
  /\ rfproc[p].at \in {"user", "mutex"}
  /\ m.n = rf_mutex.n - (IF rfproc[p].at = "user" THEN 1 ELSE 0)
  /\ \A q \in Procs : ~RfIn(q)

(* An operation enters its file in the table, before any exchange *)
RfEnters == /\ rfltab' \in RfTabs /\ \A d \in RfDevs : rfltab'[d].used => rfltab'[d].name \in RfNames
            /\ rfbytes' \in Nat /\ UNCHANGED <<rfnet, rfmay, rfwrong>>

\* While nobody is inside, the files are as the callers know them.
LEMMA RfQuiet ==
  ASSUME RfInv, \A q \in Procs : ~RfIn(q)
  PROVE  \A n \in RfNames, i \in RfPositions : rfdisk[n][i] \in rfmay[n][i] \/ <<n, i>> \in rfredone
BY DEF RfInv, RfKnown, RfCarried

\* An operation that ends without an exchange.
LEMMA RfLeaves ==
  ASSUME RfInv, NEW p \in Procs, NEW m, RfReady(p, m), RfLeave(p, m), RfEnters
  PROVE  RfInv'
<1>1. /\ rf_mutex' = Up(m) /\ rfproc' = [rfproc EXCEPT ![p] = RfUser] /\ UNCHANGED rf_seq
      /\ UNCHANGED <<rfasked, rfinbox, rfair, rfdisk, rfredone, rfmay, rfwrong>>
  BY DEF RfLeave, RfEnters, rfnet, rfcomm
<1>2. RfUser \in RfWhere /\ RfUser.at = "user"
  <2>1. 0 \in RfDevs
    BY RfsAssumption DEF RfDevs
  <2>2. NoRequest \in RfAsked
    BY <2>1 DEF NoRequest, RfAsked, RfOps, RfBits
  <2> QED  BY <2>2 DEF RfUser, RfWhere, RfPlaces
<1>3. /\ rfproc' \in [Procs -> RfWhere] /\ rfproc'[p] = RfUser
      /\ \A q \in Procs \ {p} : rfproc'[q] = rfproc[q]
      /\ Cardinality(RfUsers) \in Int
      /\ Cardinality(RfUsers') = Cardinality(RfUsers) + 0 - (IF rfproc[p].at = "user" THEN 0 ELSE 1)
  BY <1>1, <1>2, RfMoves
<1>4. /\ SemaSound(rf_mutex') /\ Waiters(rf_mutex') \subseteq Waiters(rf_mutex)
      /\ rf_mutex'.n = rf_mutex.n - (IF rfproc[p].at = "user" THEN 1 ELSE 0) + 1 /\ rf_mutex.n \in Int
  <2>1. /\ SemaSound(Up(m)) /\ Waiters(Up(m)) \subseteq Waiters(m) /\ Up(m).n = m.n + 1
    <3>1. SemaSound(m) /\ (m.n < 0 \/ m.n >= 0)
      BY DEF RfReady, SemaSound
    <3> QED  BY <3>1, UpIs
  <2> QED  BY <1>1, <2>1, RfAlone DEF RfReady
<1>5. \A q \in Procs : ~RfIn(q) /\ ~RfIn(q)'
  BY <1>2, <1>3 DEF RfReady, RfIn
<1>6. RfTypes'
  BY <1>1, <1>3 DEF RfInv, RfTypes, RfEnters
<1>7. RfLock'
  <2>1. \A q \in Waiters(rf_mutex') : rfproc'[q].at = "mutex"
    <3>1. \A q \in Waiters(rf_mutex) : q \in Procs /\ q # p /\ rfproc[q].at = "mutex"
      BY RfAlone DEF RfInv, RfLock, RfReady
    <3> QED  BY <1>3, <1>4, <3>1
  <2>2. Cardinality(RfUsers') = 1 - rf_mutex'.n
    BY <1>3, <1>4 DEF RfInv, RfLock, RfReady
  <2>3. (Waiters(rf_mutex))' = Waiters(rf_mutex')
    BY DEF Waiters
  <2> QED  BY <1>4, <2>1, <2>2, <2>3 DEF RfLock, SemaSound
<1>8. RfNamed'
  <2>1. \A q \in Procs : rfproc'[q].at = "mutex" => rfproc'[q] = rfproc[q]
    BY <1>2, <1>3
  <2> QED  BY <1>5, <2>1 DEF RfInv, RfNamed, RfEnters, RfCalled
<1>9. RfMail' /\ RfAway'
  BY <1>1, <1>5 DEF RfInv, RfMail, RfHeard, RfAway, RfLate
<1>10. RfKnown'
  BY <1>1, <1>5, RfQuiet DEF RfKnown
<1> QED  BY <1>1, <1>6, <1>7, <1>8, <1>9, <1>10 DEF RfInv

\* An operation that goes on to an exchange: its sequence number is a new one.
LEMMA RfStays ==
  ASSUME RfInv, NEW p \in Procs, NEW m, RfReady(p, m), NEW r \in RfAsked, RfComm(p, m, r),
         r.op \in RfAsks, r.name \in RfNames, r.pos \in RfPositions, RfEnters,
         r.op = "open" => rfltab'[r.dev].name \in RfNames
  PROVE  RfInv'
<1>a. CASE RfLeave(p, m)
  BY <1>a, RfLeaves
<1>b. CASE /\ rf_mutex' = m /\ rf_seq' = rf_seq + 1
           /\ rfproc' = [rfproc EXCEPT ![p] = [at |-> "send", req |-> r, seq |-> rf_seq, tries |-> 0]]
  <2> DEFINE x == [at |-> "send", req |-> r, seq |-> rf_seq, tries |-> 0]
  <2>1. /\ rfproc' = [rfproc EXCEPT ![p] = x] /\ rf_seq' = rf_seq + 1 /\ rf_seq \in Nat \ {0}
        /\ UNCHANGED <<rfasked, rfinbox, rfair, rfdisk, rfredone, rfmay, rfwrong>>
    BY <1>b DEF RfEnters, rfnet, RfInv, RfTypes
  <2>2. x \in RfWhere /\ x.at = "send" /\ x.req = r /\ x.seq = rf_seq
    BY <2>1 DEF RfWhere, RfPlaces
  <2> HIDE DEF x
  <2>3. /\ rfproc' \in [Procs -> RfWhere] /\ rfproc'[p] = x
        /\ \A q \in Procs \ {p} : rfproc'[q] = rfproc[q]
        /\ Cardinality(RfUsers) \in Int
        /\ Cardinality(RfUsers') = Cardinality(RfUsers) + 1 - (IF rfproc[p].at = "user" THEN 0 ELSE 1)
    BY <2>1, <2>2, RfMoves
  <2>4. \A q \in Procs \ {p} : ~RfIn(q) /\ ~RfIn(q)'
    BY <2>3 DEF RfReady, RfIn
  <2>5. RfTypes'
    BY <2>1, <2>3 DEF RfInv, RfTypes, RfEnters
  <2>6. RfLock'
    <3>1. \A q \in Waiters(rf_mutex') : rfproc'[q].at = "mutex"
      <4>1. \A q \in Waiters(rf_mutex) : q \in Procs /\ q # p /\ rfproc[q].at = "mutex"
        BY RfAlone DEF RfInv, RfLock, RfReady
      <4> QED  BY <1>b, <2>3, <4>1 DEF RfReady
    <3>2. Cardinality(RfUsers') = 1 - rf_mutex'.n
      <4>1. rf_mutex.n \in Int /\ rf_mutex'.n = rf_mutex.n - (IF rfproc[p].at = "user" THEN 1 ELSE 0)
        BY <1>b, RfAlone DEF RfReady
      <4> QED  BY <2>3, <4>1 DEF RfInv, RfLock
    <3>3. (Waiters(rf_mutex))' = Waiters(rf_mutex')
      BY DEF Waiters
    <3>4. SemaSound(rf_mutex')
      BY <1>b DEF RfReady
    <3> QED  BY <3>1, <3>2, <3>3, <3>4 DEF RfLock, SemaSound
  <2>7. RfNamed'
    <3>1. \A q \in Procs : rfproc'[q].at = "mutex" => rfproc'[q] = rfproc[q]
      BY <2>2, <2>3
    <3>2. x.seq < rf_seq'
      BY <2>1, <2>2
    <3>3. RfGood(rfproc[p])'
      BY <2>2, <2>3, <3>2 DEF RfGood
    <3>4. \A q \in Procs : RfIn(q)' => RfGood(rfproc[q])'
      BY <2>4, <3>3
    <3> QED  BY <3>1, <3>4 DEF RfInv, RfNamed, RfEnters, RfCalled
  <2>8. RfMail'
    <3>1. ASSUME NEW a \in RfReplies, RfHeard(a)  PROVE RfHeard(a)'
      <4>1. a.seq \in Nat /\ a.seq < rf_seq
        BY <3>1 DEF RfHeard, RfReplies
      <4>2. a.seq < rf_seq' /\ a.seq # rf_seq
        BY <2>1, <4>1
      <4> QED  BY <2>2, <2>3, <2>4, <4>2 DEF RfHeard
    <3>2. rfinbox \in Seq(RfReplies) /\ rfair \subseteq RfReplies
      BY DEF RfInv, RfTypes
    <3> QED  BY <2>1, <3>1, <3>2 DEF RfInv, RfMail
  <2>a. RfAway'
    <3> SUFFICES ASSUME NEW k \in rfasked, RfLate(k)  PROVE RfLate(k)'
      BY <2>1 DEF RfInv, RfAway
    <3>1. k.seq \in Nat /\ k.seq < rf_seq' /\ k.seq # rf_seq
      BY <2>1 DEF RfLate
    <3> QED  BY <2>2, <2>3, <2>4, <3>1 DEF RfLate
  <2>9. RfKnown'
    BY <2>1, RfQuiet DEF RfKnown, RfReady
  <2> QED  BY <2>1, <2>5, <2>6, <2>7, <2>8, <2>a, <2>9 DEF RfInv
<1> QED  BY <1>a, <1>b DEF RfComm

\* rfsopen, rflread, rflwrite, rflclose, rflseek and rfscontrol behind their
\* wait for the semaphore.
LEMMA RfEnterKeeps ==
  ASSUME RfInv, NEW p \in Procs, NEW m, RfReady(p, m), NEW r \in RfAsked, RfCalled(r),
         RfEnter(p, m, r), rfbytes' \in Nat
  PROVE  RfInv'
<1>1. /\ rfltab \in RfTabs /\ (\A d \in RfDevs : rfltab[d].used => rfltab[d].name \in RfNames)
      /\ UNCHANGED <<rfnet, rfmay, rfwrong>>
  BY DEF RfEnter, RfInv, RfTypes, RfNamed
<1>2. UNCHANGED rfltab => RfEnters
  BY <1>1 DEF RfEnters
<1>3. 0 \in RfPositions /\ RfPositions \subseteq Nat
  BY RfsAssumption DEF RfPositions
<1>4. ASSUME NEW d \in RfDevs, NEW e, rfltab' = [rfltab EXCEPT ![d] = e],
             e \in [used : BOOLEAN, name : RfNames \cup {""}, pos : Nat, mode : RfBits],
             e.used => e.name \in RfNames
      PROVE  RfEnters
  BY <1>1, <1>4 DEF RfEnters, RfTabs
<1>5. ASSUME NEW d \in RfDevs
      PROVE  /\ rfltab[d] \in [used : BOOLEAN, name : RfNames \cup {""}, pos : Nat, mode : RfBits]
             /\ rfltab[d].used => rfltab[d].name \in RfNames
  BY <1>1 DEF RfTabs
<1>6. r.dev \in RfDevs /\ r.pos \in Nat /\ r.bits \in RfBits /\ r.op \in RfOps
  BY DEF RfAsked
<1>7. CASE r.op = "open"
  <2>1. RfEnterOpen(p, m, r) /\ r.name \in RfNames /\ r.pos \in RfPositions
    BY <1>3, <1>7 DEF RfEnter, RfCalled
  <2>2. CASE RfFree = {}
    BY <1>2, <2>1, <2>2, RfLeaves DEF RfEnterOpen
  <2>3. CASE RfFree # {}
    <3> DEFINE d == CHOOSE e \in RfFree : \A f \in RfFree : e <= f
               e == [rfltab[d] EXCEPT !.name = r.name, !.mode = r.bits]
               r2 == [r EXCEPT !.dev = d]
    <3>1. d \in RfDevs /\ ~rfltab[d].used
      <4>1. RfFree \subseteq Nat
        BY DEF RfFree, RfDevs
      <4>2. d \in RfFree
        BY <2>3, <4>1, LeastNat
      <4> QED  BY <4>2 DEF RfFree
    <3>2. /\ rfltab' = [rfltab EXCEPT ![d].name = r.name, ![d].mode = r.bits]
          /\ IF r.bits = BadMode THEN RfLeave(p, m) ELSE RfComm(p, m, r2)
      BY <2>1, <2>3 DEF RfEnterOpen
    <3> HIDE DEF d
    <3>3. rfltab' = [rfltab EXCEPT ![d] = e]
      BY <1>1, <3>1, <3>2 DEF RfTabs
    <3>4. /\ e \in [used : BOOLEAN, name : RfNames \cup {""}, pos : Nat, mode : RfBits]
          /\ ~e.used /\ e.name = r.name
      BY <1>5, <1>6, <2>1, <3>1
    <3>5. /\ r2 \in RfAsked /\ r2.op = "open" /\ r2.name = r.name /\ r2.pos = r.pos /\ r2.dev = d
      BY <1>7, <3>1 DEF RfAsked
    <3> HIDE DEF e, r2
    <3>6. RfEnters /\ rfltab'[d].name = r.name
      BY <1>1, <1>4, <3>1, <3>3, <3>4 DEF RfTabs
    <3>7. CASE r.bits = BadMode
      BY <3>2, <3>6, <3>7, RfLeaves
    <3>8. CASE r.bits # BadMode
      <4>1. RfComm(p, m, r2) /\ "open" \in RfAsks
        BY <3>2, <3>8 DEF RfAsks
      <4> QED  BY <2>1, <3>5, <3>6, <4>1, RfStays
    <3> QED  BY <3>7, <3>8
  <2> QED  BY <2>2, <2>3
<1>8. CASE r.op \in {"r", "w"}
  <2> DEFINE f == rfltab[r.dev]
             r2 == [r EXCEPT !.name = f.name, !.pos = f.pos]
  <2>1. RfEnterData(p, m, r)
    BY <1>8 DEF RfEnter
  <2>2. CASE f.used /\ r.op \in f.mode /\ f.pos \in RfPositions
    <3>1. RfStay(p, m, r2)
      BY <2>1, <2>2 DEF RfEnterData
    <3>2. f.name \in RfNames /\ f.pos \in Nat
      BY <1>5, <1>6, <2>2
    <3>3. /\ r2 \in RfAsked /\ r2.op \in RfAsks /\ r2.op # "open" /\ r2.name = f.name /\ r2.pos = f.pos
      BY <1>8, <3>2 DEF RfAsked, RfAsks
    <3> HIDE DEF r2
    <3>4. RfComm(p, m, r2) /\ RfEnters
      BY <1>2, <3>1 DEF RfStay
    <3> QED  BY <2>2, <3>2, <3>3, <3>4, RfStays
  <2>3. CASE ~(f.used /\ r.op \in f.mode /\ f.pos \in RfPositions)
    BY <1>2, <2>1, <2>3, RfLeaves DEF RfEnterData
  <2> QED  BY <2>2, <2>3
<1>9. CASE r.op = "close"
  <2> DEFINE e == [rfltab[r.dev] EXCEPT !.used = FALSE]
  <2>1. rfltab' = [rfltab EXCEPT ![r.dev].used = FALSE] /\ RfLeave(p, m)
    BY <1>9 DEF RfEnter, RfEnterClose
  <2>2. rfltab' = [rfltab EXCEPT ![r.dev] = e]
    BY <1>1, <1>6, <2>1 DEF RfTabs
  <2>3. /\ e \in [used : BOOLEAN, name : RfNames \cup {""}, pos : Nat, mode : RfBits] /\ ~e.used
    BY <1>5, <1>6
  <2> HIDE DEF e
  <2> QED  BY <1>4, <1>6, <2>1, <2>2, <2>3, RfLeaves
<1>10. CASE r.op = "seek"
  <2> DEFINE e == [rfltab[r.dev] EXCEPT !.pos = r.pos]
  <2>1. /\ rfltab' = IF rfltab[r.dev].used THEN [rfltab EXCEPT ![r.dev].pos = r.pos] ELSE rfltab
        /\ RfLeave(p, m)
    BY <1>10 DEF RfEnter, RfEnterSeek
  <2>2. rfltab[r.dev].used => rfltab' = [rfltab EXCEPT ![r.dev] = e]
    BY <1>1, <1>6, <2>1 DEF RfTabs
  <2>3. /\ e \in [used : BOOLEAN, name : RfNames \cup {""}, pos : Nat, mode : RfBits]
        /\ e.used = rfltab[r.dev].used /\ e.name = rfltab[r.dev].name
    BY <1>5, <1>6
  <2> HIDE DEF e
  <2>4. RfEnters
    BY <1>2, <1>4, <1>5, <1>6, <2>1, <2>2, <2>3
  <2> QED  BY <2>1, <2>4, RfLeaves
<1>11. CASE r.op \in RfControls
  <2>1. /\ RfStay(p, m, r) /\ r.name \in RfNames /\ r.pos \in RfPositions /\ r.op \in RfAsks
        /\ r.op # "open"
    BY <1>3, <1>11 DEF RfEnter, RfCalled, RfAsks, RfControls, RfClears
  <2>2. RfComm(p, m, r) /\ RfEnters
    BY <1>2, <2>1 DEF RfStay
  <2> QED  BY <2>1, <2>2, RfStays
<1>12. r.op \in {"open", "r", "w", "close", "seek"} \cup RfControls
  <2>1. r.op # "none" /\ r.op \in RfOps
    BY <1>6 DEF RfCalled
  <2> QED  BY <2>1 DEF RfOps, RfAsks
<1> QED  BY <1>7, <1>8, <1>9, <1>10, <1>11, <1>12

\* What rfsopen, read, write, close, seek and control of the remote file
\* system are called with.
LEMMA RfRequestsAre ==
  ASSUME NEW q \in RfRequests
  PROVE  q \in RfAsked /\ RfCalled(q)
<1> DEFINE B == {GetMode(mode) : mode \in RfModes}
<1>1. /\ {0} \subseteq RfDevs /\ {0} \subseteq Nat /\ {""} \subseteq RfNames \cup {""}
      /\ B \subseteq RfBits /\ {{}} \subseteq RfBits
  BY RfsAssumption DEF RfDevs, RfBits
<1>2. CASE q \in RfAsking({"open"}, {0}, RfNames, B)
  <2>1. {"open"} \subseteq RfOps
    BY DEF RfOps, RfAsks
  <2> HIDE DEF B
  <2>2. q \in RfAsked
    BY <1>1, <1>2, <2>1 DEF RfAsking, RfAsked
  <2>3. q.op = "open" /\ q.pos = 0 /\ q.name \in RfNames
    BY <1>2 DEF RfAsking
  <2> QED  BY <2>2, <2>3 DEF RfCalled, RfControls, RfClears
<1>3. CASE q \in RfAsking({"r", "w", "close", "seek"}, RfDevs, {""}, {{}})
  <2>1. {"r", "w", "close", "seek"} \subseteq RfOps
    BY DEF RfOps, RfAsks
  <2>2. q \in RfAsked
    BY <1>1, <1>3, <2>1 DEF RfAsking, RfAsked
  <2>3. q.op \in {"r", "w", "close", "seek"} /\ q.pos = 0
    BY <1>3 DEF RfAsking
  <2> QED  BY <2>2, <2>3 DEF RfCalled, RfControls, RfClears
<1>4. CASE q \in RfAsking(RfFunctions, {0}, RfNames, {{}})
  <2>1. RfFunctions \subseteq RfControls /\ RfFunctions \subseteq RfOps
    BY RfsAssumption DEF RfOps, RfAsks
  <2>2. q \in RfAsked
    BY <1>1, <1>4, <2>1 DEF RfAsking, RfAsked
  <2>3. q.op \in RfControls /\ q.pos = 0 /\ q.name \in RfNames
    BY <1>4, <2>1 DEF RfAsking
  <2> QED  BY <2>2, <2>3 DEF RfCalled, RfControls, RfClears
<1> QED  BY <1>2, <1>3, <1>4 DEF RfRequests

\* A process calls rfsopen, read, write, close, seek or control of the remote
\* file system: it waits for rfsmutex or goes on at once.
LEMMA RfCallKeeps ==
  ASSUME RfInv, NEW p \in Procs, NEW q \in RfRequests, RfIdle(p), RfCall(p, q)
  PROVE  RfInv'
<1> DEFINE r == [q EXCEPT !.byte = rfbytes + 1]
           n == rf_mutex.n
<1>1. /\ rfproc[p].at = "user" /\ p \notin Waiters(rf_mutex) /\ SemaSound(rf_mutex) /\ n \in Int
  BY RfAlone DEF RfIdle, RfAt, RfInv, RfLock
<1>2. rfbytes \in Nat /\ rfbytes' \in Nat /\ rfbytes + 1 \in Nat
  BY DEF RfInv, RfTypes, RfCall
<1>3. q \in RfAsked /\ RfCalled(q)
  BY RfRequestsAre
<1>4. r \in RfAsked /\ RfCalled(r)
  BY <1>2, <1>3 DEF RfAsked, RfCalled
<1> HIDE DEF r
<1>5. CASE Blocks(rf_mutex)
  <2> DEFINE x == [RfUser EXCEPT !.at = "mutex", !.req = r]
  <2>1. /\ rf_mutex' = Down(rf_mutex, p) /\ rfproc' = [rfproc EXCEPT ![p] = x]
        /\ UNCHANGED <<rfltab, rf_seq, rfasked, rfinbox, rfair, rfdisk, rfredone, rfmay, rfwrong>>
    BY <1>5 DEF RfCall, rfnet, rfcomm, r
  <2>2. x \in RfWhere /\ x.at = "mutex" /\ x.req = r
    BY <1>4 DEF RfWhere, RfUser, RfPlaces
  <2> HIDE DEF x
  <2>3. /\ rfproc' \in [Procs -> RfWhere] /\ rfproc'[p] = x
        /\ \A k \in Procs \ {p} : rfproc'[k] = rfproc[k]
        /\ Cardinality(RfUsers) \in Int
        /\ Cardinality(RfUsers') = Cardinality(RfUsers) + 1 - 0
    BY <1>1, <2>1, <2>2, RfMoves
  <2>4. /\ SemaSound(rf_mutex') /\ rf_mutex'.n = n - 1
        /\ Waiters(rf_mutex') = Waiters(rf_mutex) \cup {p}
    BY <1>1, <1>5, <2>1, DownIs
  <2>5. RfTypes'
    BY <1>2, <2>1, <2>3 DEF RfInv, RfTypes
  <2>6. RfLock'
    <3>1. \A k \in Waiters(rf_mutex') : rfproc'[k].at = "mutex"
      <4>1. \A k \in Waiters(rf_mutex) : k \in Procs /\ k # p /\ rfproc[k].at = "mutex"
        BY <1>1, RfAlone DEF RfInv, RfLock
      <4> QED  BY <2>2, <2>3, <2>4, <4>1
    <3>2. Cardinality(RfUsers') = 1 - rf_mutex'.n
      <4>1. Cardinality(RfUsers) = 1 - n
        BY DEF RfInv, RfLock
      <4> HIDE DEF n
      <4> QED  BY <1>1, <2>3, <2>4, <4>1
    <3>3. (Waiters(rf_mutex))' = Waiters(rf_mutex')
      BY DEF Waiters
    <3> QED  BY <2>4, <3>1, <3>2, <3>3 DEF RfLock, SemaSound
  <2>7. \A k \in Procs : /\ RfIn(k)' <=> RfIn(k)
                         /\ RfIn(k) => rfproc'[k] = rfproc[k]
    BY <1>1, <2>2, <2>3 DEF RfIn
  <2>8. RfNamed'
    <3>1. \A k \in Procs : rfproc'[k].at = "mutex" => RfCalled(rfproc'[k].req)
      BY <1>4, <2>2, <2>3 DEF RfInv, RfNamed
    <3>2. \A k \in Procs : RfIn(k)' => RfGood(rfproc[k])'
      BY <2>1, <2>7 DEF RfInv, RfNamed, RfGood
    <3> QED  BY <2>1, <3>1, <3>2 DEF RfInv, RfNamed, RfCalled
  <2>9. RfMail' /\ RfAway'
    BY <2>1, <2>7 DEF RfInv, RfMail, RfHeard, RfTrue, RfAway, RfLate
  <2>10. RfKnown'
    <3>1. ASSUME NEW k \in RfNames, NEW i \in RfPositions, RfCarried(k, i)  PROVE RfCarried(k, i)'
      BY <2>1, <2>7, <3>1 DEF RfCarried
    <3> QED  BY <2>1, <3>1 DEF RfInv, RfKnown
  <2> QED  BY <2>1, <2>5, <2>6, <2>8, <2>9, <2>10 DEF RfInv
<1>6. CASE ~Blocks(rf_mutex)
  <2>1. RfEnter(p, Down(rf_mutex, p), r)
    BY <1>6 DEF RfCall, r
  <2>2. /\ SemaSound(Down(rf_mutex, p)) /\ Down(rf_mutex, p).n = n - 1
        /\ Waiters(Down(rf_mutex, p)) = Waiters(rf_mutex)
    BY <1>1, <1>6, DownIs
  <2>3. \A k \in Procs : ~RfIn(k)
    <3>1. n = 1
      BY <1>1, <1>6, RfAlone DEF Blocks
    <3> QED  BY <3>1, RfAlone DEF RfUsers, RfIn
  <2>4. RfReady(p, Down(rf_mutex, p))
    BY <1>1, <2>2, <2>3 DEF RfReady
  <2> QED  BY <1>2, <1>4, <2>1, <2>4, RfEnterKeeps
<1> QED  BY <1>5, <1>6

\* signal let the process through, and it goes on behind its wait.
LEMMA RfEnteredKeeps ==
  ASSUME RfInv, NEW p \in Procs, RfEntered(p)
  PROVE  RfInv'
<1>1. /\ rfproc[p].at = "mutex" /\ p \notin Waiters(rf_mutex) /\ SemaSound(rf_mutex)
      /\ RfEnter(p, rf_mutex, rfproc[p].req) /\ rfbytes' = rfbytes /\ rf_mutex.n \in Int
  BY RfAlone DEF RfEntered, RfAt, RfInv, RfLock
<1>2. \A q \in Procs : ~RfIn(q)
  <2>1. p \in RfUsers \ Waiters(rf_mutex) /\ ~RfIn(p)
    BY <1>1 DEF RfUsers, RfIn
  <2>2. ASSUME NEW q \in Procs, RfIn(q)  PROVE q \in RfUsers \ Waiters(rf_mutex)
    BY <2>2 DEF RfUsers, RfIn, RfInv, RfLock
  <2> QED  BY <2>1, <2>2, RfAlone
<1>3. RfReady(p, rf_mutex)
  <2>1. rf_mutex.n = rf_mutex.n - 0
    BY <1>1
  <2> QED  BY <1>1, <1>2, <2>1 DEF RfReady
<1>4. rfproc[p].req \in RfAsked /\ RfCalled(rfproc[p].req) /\ rfbytes' \in Nat
  BY <1>1 DEF RfInv, RfTypes, RfNamed, RfWhere
<1> QED  BY <1>1, <1>3, <1>4, RfEnterKeeps

\* What the server makes of a file (rf_pos and rf_data of the request; rfscontrol).
LEMMA RfCarries ==
  ASSUME NEW r \in RfAsked, NEW file \in [RfPositions -> Nat]
  PROVE  /\ Carry(r, file) \in [RfPositions -> Nat] /\ NewByte(r) \in Nat
         /\ \A i \in RfPositions : Carry(r, file)[i] = IF <<r.name, i>> \in Changes(r)
                                                      THEN NewByte(r) ELSE file[i]
         /\ \A n, i : <<n, i>> \in Changes(r) => n = r.name
         /\ r.op = "r" => Changes(r) = {}
<1>1. NewByte(r) \in Nat
  BY DEF RfAsked, NewByte
<1>2. \A n, i : <<n, i>> \in Changes(r) => n = r.name
  BY DEF Changes
<1>3. r.op = "r" => Changes(r) = {}
  BY DEF Changes, RfClears
<1> QED  BY <1>1, <1>2, <1>3 DEF Carry

\* The process that talks to the server is the only one inside.
LEMMA RfInside ==
  ASSUME RfInv, NEW p \in Procs, RfIn(p)
  PROVE  /\ \A q \in Procs : RfIn(q) => q = p
         /\ p \in RfUsers \ Waiters(rf_mutex)
         /\ rfproc \in [Procs -> RfWhere] /\ rfproc[p] \in RfWhere
         /\ rfproc[p].req \in RfAsked /\ RfGood(rfproc[p])
         /\ \A n \in RfNames, i \in RfPositions :
              \/ rfdisk[n][i] \in rfmay[n][i] \/ <<n, i>> \in rfredone
              \/ <<n, i>> \in Changes(rfproc[p].req) /\ rfdisk[n][i] = NewByte(rfproc[p].req)
<1>1. \A q \in Procs : RfIn(q) => q \in RfUsers \ Waiters(rf_mutex)
  BY DEF RfUsers, RfIn, RfInv, RfLock
<1>2. \A q \in Procs : RfIn(q) => q = p
  BY <1>1, RfAlone
<1>3. /\ rfproc \in [Procs -> RfWhere] /\ rfproc[p] \in RfWhere
      /\ rfproc[p].req \in RfAsked /\ RfGood(rfproc[p])
  BY DEF RfInv, RfTypes, RfNamed, RfWhere
<1>4. ASSUME NEW n \in RfNames, NEW i \in RfPositions,
             rfdisk[n][i] \notin rfmay[n][i], <<n, i>> \notin rfredone
      PROVE  <<n, i>> \in Changes(rfproc[p].req) /\ rfdisk[n][i] = NewByte(rfproc[p].req)
  <2>1. RfCarried(n, i)
    BY <1>4 DEF RfInv, RfKnown
  <2> QED  BY <1>2, <2>1 DEF RfCarried
<1> QED  BY <1>1, <1>2, <1>3, <1>4

\* rfscomm between a transmission and its wait: nothing changes but the
\* transmissions left.
LEMMA RfAlong ==
  ASSUME RfInv, NEW p \in Procs, RfIn(p), NEW x \in RfWhere, rfproc' = [rfproc EXCEPT ![p] = x],
         x.at \in {"send", "recv"}, x.req = rfproc[p].req, x.seq = rfproc[p].seq,
         UNCHANGED <<rfltab, rf_mutex, rf_seq>>
  PROVE  /\ rfproc' \in [Procs -> RfWhere] /\ RfLock' /\ RfNamed'
         /\ \A q \in Procs : /\ RfIn(q)' <=> RfIn(q)
                             /\ rfproc'[q].req = rfproc[q].req /\ rfproc'[q].seq = rfproc[q].seq
<1>1. /\ rfproc' \in [Procs -> RfWhere] /\ rfproc'[p] = x
      /\ \A q \in Procs \ {p} : rfproc'[q] = rfproc[q]
      /\ Cardinality(RfUsers) \in Int
      /\ Cardinality(RfUsers') = Cardinality(RfUsers) + (IF x.at = "user" THEN 0 ELSE 1)
                                   - (IF rfproc[p].at = "user" THEN 0 ELSE 1)
  BY RfMoves
<1>2. \A q \in Procs : /\ RfIn(q)' <=> RfIn(q)
                       /\ rfproc'[q].req = rfproc[q].req /\ rfproc'[q].seq = rfproc[q].seq
  BY <1>1 DEF RfIn
<1>3. RfLock'
  <2>1. \A q \in Waiters(rf_mutex) : q \in Procs /\ q # p /\ rfproc[q].at = "mutex"
    BY RfAlone, RfInside DEF RfInv, RfLock
  <2>2. Cardinality(RfUsers') = Cardinality(RfUsers)
    <3>1. Cardinality(RfUsers') = Cardinality(RfUsers) + 1 - 1
      BY <1>1 DEF RfIn
    <3> QED  BY <1>1, <3>1
  <2>3. (Waiters(rf_mutex))' = Waiters(rf_mutex)
    BY DEF Waiters
  <2> QED  BY <1>1, <2>1, <2>2, <2>3 DEF RfInv, RfLock, SemaSound
<1>4. RfNamed'
  <2>1. \A q \in Procs : rfproc'[q].at = "mutex" => rfproc'[q] = rfproc[q]
    BY <1>1
  <2>2. \A q \in Procs : RfIn(q)' => RfGood(rfproc[q])'
    BY <1>2 DEF RfInv, RfNamed, RfGood
  <2> QED  BY <2>1, <2>2 DEF RfInv, RfNamed, RfCalled
<1> QED  BY <1>1, <1>2, <1>3, <1>4

\* rfscomm has returned, and rfsmutex is given up: what the callers believe
\* is what the server has, for nobody is inside any more.
LEMMA RfOutcomeKeeps ==
  ASSUME RfInv, NEW p \in Procs, RfIn(p), NEW ok \in BOOLEAN, NEW m \in RfReplies,
         ok => m.ok /\ RfTrue(rfproc[p].req, m), RfOutcome(p, ok, m), UNCHANGED <<rf_seq, rfbytes, rfdisk, rfasked, rfredone>>,
         rfinbox' \in Seq(RfReplies), rfair' \subseteq RfReplies,
         \A i \in 1 .. Len(rfinbox') : rfinbox'[i].seq < rf_seq, \A a \in rfair' : a.seq < rf_seq
  PROVE  RfInv'
<1> DEFINE r == rfproc[p].req
<1>1. /\ r \in RfAsked /\ r.dev \in RfDevs /\ r.byte \in Nat
      /\ r.op \in RfAsks /\ r.name \in RfNames /\ r.pos \in RfPositions
      /\ r.op = "open" => rfltab[r.dev].name \in RfNames
  BY RfInside DEF RfGood, RfAsked
<1>2. /\ rf_mutex' = Up(rf_mutex) /\ rfproc' = [rfproc EXCEPT ![p] = RfUser]
      /\ rfltab' = CASE r.op = "open" /\ ok -> [rfltab EXCEPT ![r.dev].used = TRUE, ![r.dev].pos = 0]
                     [] r.op \in {"r", "w"} /\ ok -> [rfltab EXCEPT ![r.dev].pos = @ + m.len]
                     [] OTHER -> rfltab
      /\ IF r.op \in {"w"} \cup RfClears THEN RfLearn(r, ok) ELSE UNCHANGED rfmay
      /\ rfwrong' = (rfwrong \/ (/\ r.op = "r" /\ ok /\ <<r.name, r.pos>> \notin rfredone
                                 /\ m.byte \notin rfmay[r.name][r.pos]))
  BY DEF RfOutcome, RfExit
<1>3. ASSUME NEW n \in RfNames, NEW i \in RfPositions
      PROVE  \/ rfdisk[n][i] \in rfmay[n][i] \/ <<n, i>> \in rfredone
             \/ <<n, i>> \in Changes(r) /\ rfdisk[n][i] = NewByte(r)
  BY RfInside
<1>4. ok => m.ok /\ RfTrue(r, m)
  OBVIOUS
<1> HIDE DEF r
<1>5. RfUser \in RfWhere /\ RfUser.at = "user"
  <2>1. 0 \in RfDevs
    BY RfsAssumption DEF RfDevs
  <2>2. NoRequest \in RfAsked
    BY <2>1 DEF NoRequest, RfAsked, RfOps, RfBits
  <2> QED  BY <2>2 DEF RfUser, RfWhere, RfPlaces
<1>6. /\ rfproc' \in [Procs -> RfWhere] /\ rfproc'[p] = RfUser
      /\ \A q \in Procs \ {p} : rfproc'[q] = rfproc[q]
      /\ Cardinality(RfUsers) \in Int
      /\ Cardinality(RfUsers') = Cardinality(RfUsers) + 0 - 1
  BY <1>2, <1>5, RfMoves DEF RfIn
<1>7. \A q \in Procs : ~RfIn(q)'
  <2>1. \A q \in Procs \ {p} : ~RfIn(q)
    BY RfInside
  <2> QED  BY <1>5, <1>6, <2>1 DEF RfIn
<1>8. RfLock'
  <2>1. /\ SemaSound(rf_mutex') /\ Waiters(rf_mutex') \subseteq Waiters(rf_mutex)
        /\ rf_mutex'.n = rf_mutex.n + 1 /\ rf_mutex.n \in Int
    <3>1. SemaSound(rf_mutex) /\ rf_mutex.n \in Int /\ (rf_mutex.n < 0 \/ rf_mutex.n >= 0)
      BY RfAlone DEF RfInv, RfLock
    <3> QED  BY <1>2, <3>1, UpIs
  <2>2. \A q \in Waiters(rf_mutex') : rfproc'[q].at = "mutex"
    <3>1. \A q \in Waiters(rf_mutex) : q \in Procs /\ q # p /\ rfproc[q].at = "mutex"
      BY RfAlone, RfInside DEF RfInv, RfLock
    <3> QED  BY <1>6, <2>1, <3>1
  <2>3. Cardinality(RfUsers') = 1 - rf_mutex'.n
    <3>1. Cardinality(RfUsers) = 1 - rf_mutex.n
      BY DEF RfInv, RfLock
    <3> QED  BY <1>6, <2>1, <3>1
  <2>4. (Waiters(rf_mutex))' = Waiters(rf_mutex')
    BY DEF Waiters
  <2> QED  BY <2>1, <2>2, <2>3, <2>4 DEF RfLock, SemaSound
<1>9. rfltab' \in RfTabs /\ \A d \in RfDevs : rfltab'[d].used => rfltab'[d].name \in RfNames
  <2>1. rfltab \in RfTabs /\ \A d \in RfDevs : rfltab[d].used => rfltab[d].name \in RfNames
    BY DEF RfInv, RfTypes, RfNamed
  <2>2. m.len \in Nat /\ rfltab[r.dev].pos \in Nat /\ rfltab[r.dev].pos + m.len \in Nat
    <3>1. m.len \in Nat
      <4>1. m.len \in 0 .. 1
        BY DEF RfReplies
      <4> QED  BY <4>1
    <3>2. rfltab[r.dev].pos \in Nat
      BY <1>1, <2>1 DEF RfTabs
    <3> QED  BY <3>1, <3>2
  <2>3. CASE r.op = "open" /\ ok
    <3>1. rfltab' = [rfltab EXCEPT ![r.dev].used = TRUE, ![r.dev].pos = 0]
      BY <1>2, <2>3
    <3> QED  BY <1>1, <2>1, <2>3, <3>1 DEF RfTabs
  <2>4. CASE r.op \in {"r", "w"} /\ ok
    <3> DEFINE k == rfltab[r.dev].pos + m.len
    <3>1. rfltab' = [rfltab EXCEPT ![r.dev].pos = k]
      BY <1>2, <2>4
    <3>2. k \in Nat
      BY <2>2
    <3> HIDE DEF k
    <3> QED  BY <1>1, <2>1, <3>1, <3>2 DEF RfTabs
  <2>5. CASE ~(r.op = "open" /\ ok) /\ ~(r.op \in {"r", "w"} /\ ok)
    BY <1>2, <2>1, <2>5
  <2> QED  BY <2>3, <2>4, <2>5
<1>10. rfdisk \in RfFiles /\ rfmay \in RfGuesses /\ rfdisk[r.name] \in [RfPositions -> Nat]
  BY <1>1 DEF RfInv, RfTypes, RfFiles
<1>11. /\ rfmay' \in RfGuesses
       /\ \A n \in RfNames, i \in RfPositions : rfdisk[n][i] \in rfmay'[n][i] \/ <<n, i>> \in rfredone
  <2>1. CASE r.op \in {"w"} \cup RfClears
    <3> DEFINE may == [i \in RfPositions |->
                         IF <<r.name, i>> \notin Changes(r) THEN rfmay[r.name][i]
                         ELSE {NewByte(r)} \cup IF ok THEN {} ELSE rfmay[r.name][i]]
    <3>1. rfmay' = [rfmay EXCEPT ![r.name] = may]
      BY <1>2, <2>1 DEF RfLearn
    <3>2. NewByte(r) \in Nat /\ (\A n, i : <<n, i>> \in Changes(r) => n = r.name)
      BY <1>1, <1>10, RfCarries
    <3>3. rfmay[r.name] \in [RfPositions -> SUBSET Nat]
      BY <1>1, <1>10 DEF RfGuesses
    <3>4. may \in [RfPositions -> SUBSET Nat]
      BY <3>2, <3>3
    <3>5. ASSUME NEW i \in RfPositions  PROVE rfdisk[r.name][i] \in may[i] \/ <<r.name, i>> \in rfredone
      <4>1. CASE <<r.name, i>> \notin Changes(r)
        BY <1>1, <1>3, <4>1
      <4>2. CASE <<r.name, i>> \in Changes(r) /\ ok
        BY <1>4, <4>2 DEF RfTrue
      <4>3. CASE <<r.name, i>> \in Changes(r) /\ ~ok
        BY <1>1, <1>3, <4>3
      <4> QED  BY <4>1, <4>2, <4>3
    <3> HIDE DEF may
    <3>6. /\ rfmay' \in RfGuesses /\ rfmay'[r.name] = may
          /\ \A n \in RfNames \ {r.name} : rfmay'[n] = rfmay[n]
      BY <1>1, <1>10, <3>1, <3>4 DEF RfGuesses
    <3> QED  BY <1>3, <3>2, <3>5, <3>6
  <2>2. CASE r.op \notin {"w"} \cup RfClears
    <3>1. Changes(r) = {}
      BY <2>2 DEF Changes
    <3> QED  BY <1>2, <1>3, <1>10, <2>2, <3>1
  <2> QED  BY <2>1, <2>2
<1>12. ~rfwrong'
  <2>1. r.op = "r" /\ ok => m.byte = rfdisk[r.name][r.pos] \/ <<r.name, r.pos>> \in rfredone
    BY <1>4 DEF RfTrue
  <2>2. r.op = "r" => rfdisk[r.name][r.pos] \in rfmay[r.name][r.pos] \/ <<r.name, r.pos>> \in rfredone
    <3>1. r.op = "r" => Changes(r) = {}
      BY <1>1, <1>10, RfCarries
    <3> QED  BY <1>1, <1>3, <3>1
  <2> QED  BY <1>2, <2>1, <2>2 DEF RfInv
<1>13. RfTypes'
  BY <1>6, <1>9, <1>10, <1>11 DEF RfInv, RfTypes
<1>14. RfNamed'
  <2>1. \A q \in Procs : rfproc'[q].at = "mutex" => rfproc'[q] = rfproc[q]
    BY <1>5, <1>6
  <2> QED  BY <1>7, <1>9, <2>1 DEF RfInv, RfNamed, RfCalled
<1>15. RfMail' /\ RfAway'
  BY <1>7 DEF RfMail, RfHeard, RfInv, RfAway, RfLate
<1>16. RfKnown'
  BY <1>11 DEF RfKnown
<1> QED  BY <1>8, <1>12, <1>13, <1>14, <1>15, <1>16 DEF RfInv

\* The server has got a copy of a request, of the one in hand or of an earlier one, and
\* its reply is in the UDP slot or on its way.
LEMMA RfServedKeeps ==
  ASSUME RfInv, NEW x, RfLate(x), RfServed(x), UNCHANGED <<rf_seq, rfmay>>,
         \A q \in Procs : /\ RfIn(q)' <=> RfIn(q)
                         /\ rfproc'[q].req = rfproc[q].req /\ rfproc'[q].seq = rfproc[q].seq,
         rfredone' = IF (\A p \in Procs : RfIn(p) => rfproc[p].seq # x.seq) /\ rfdisk' # rfdisk
                     THEN rfredone \cup Changes(x.req) ELSE rfredone
  PROVE  /\ rfdisk' \in RfFiles /\ rfinbox' \in Seq(RfReplies) /\ rfair' \subseteq RfReplies
         /\ RfMail' /\ RfKnown'
<1> DEFINE r == x.req
           byte == IF r.op = "r" THEN rfdisk[r.name][r.pos] ELSE 0
           over == \A p \in Procs : RfIn(p) => rfproc[p].seq # x.seq
<1>1. /\ r \in RfAsked /\ r.op \in RfAsks /\ r.name \in RfNames /\ r.pos \in RfPositions
      /\ x.seq \in Nat /\ x.seq < rf_seq
      /\ \A p \in Procs : RfIn(p) /\ rfproc[p].seq = x.seq => rfproc[p].req = r
  BY DEF RfLate
<1>2. /\ rfdisk \in RfFiles /\ rfdisk[r.name] \in [RfPositions -> Nat]
      /\ rfinbox \in Seq(RfReplies) /\ rfair \subseteq RfReplies
      /\ \A i \in 1 .. Len(rfinbox) : rfinbox[i] \in RfReplies /\ RfHeard(rfinbox[i])
      /\ \A m \in rfair : m \in RfReplies /\ RfHeard(m)
  <2>1. /\ rfdisk \in RfFiles /\ rfdisk[r.name] \in [RfPositions -> Nat]
        /\ rfinbox \in Seq(RfReplies) /\ rfair \subseteq RfReplies
    BY <1>1 DEF RfInv, RfTypes, RfFiles
  <2>2. \A i \in 1 .. Len(rfinbox) : rfinbox[i] \in RfReplies
    BY <2>1
  <2>3. (\A i \in 1 .. Len(rfinbox) : RfHeard(rfinbox[i])) /\ \A m \in rfair : RfHeard(m)
    BY DEF RfInv, RfMail
  <2> QED  BY <2>1, <2>2, <2>3
<1>3. PICK ok, m :
        /\ ok \in BOOLEAN
        /\ m = [seq |-> x.seq, op |-> r.op, ok |-> ok, byte |-> byte,
                len |-> IF r.op = "w" \/ byte # 0 THEN 1 ELSE 0]
        /\ rfdisk' = IF ok THEN [rfdisk EXCEPT ![r.name] = Carry(r, @)] ELSE rfdisk
        /\ \/ rfinbox' = RfQueued(m) /\ UNCHANGED rfair
           \/ rfair' = {m} /\ UNCHANGED rfinbox
  BY DEF RfServed
<1>4. m \in RfReplies /\ m.seq = x.seq /\ m.op = r.op /\ m.ok = ok /\ m.byte = byte
  <2>1. byte \in Nat
    BY <1>1, <1>2
  <2>2. r.op \in RfOps
    BY <1>1 DEF RfAsked
  <2> HIDE DEF byte, r
  <2> QED  BY <1>1, <1>3, <2>1, <2>2 DEF RfReplies
<1>5. /\ rfdisk' \in RfFiles
      /\ \A n \in RfNames, i \in RfPositions :
           IF ok /\ <<n, i>> \in Changes(r) THEN n = r.name /\ rfdisk'[n][i] = NewByte(r)
           ELSE rfdisk'[n][i] = rfdisk[n][i]
  <2> DEFINE new == Carry(r, rfdisk[r.name])
  <2>1. /\ new \in [RfPositions -> Nat]
        /\ \A i \in RfPositions : new[i] = IF <<r.name, i>> \in Changes(r) THEN NewByte(r)
                                          ELSE rfdisk[r.name][i]
        /\ \A n, i : <<n, i>> \in Changes(r) => n = r.name
    BY <1>1, <1>2, RfCarries
  <2> HIDE DEF new, r
  <2>2. CASE ok
    <3>1. rfdisk' = [rfdisk EXCEPT ![r.name] = new]
      BY <1>3, <2>2 DEF new
    <3>2. /\ rfdisk' \in RfFiles /\ rfdisk'[r.name] = new
          /\ \A n \in RfNames \ {r.name} : rfdisk'[n] = rfdisk[n]
      BY <1>1, <1>2, <2>1, <3>1 DEF RfFiles
    <3> QED  BY <2>1, <2>2, <3>2
  <2>3. CASE ~ok
    BY <1>2, <1>3, <2>3
  <2> QED  BY <2>2, <2>3
<1>6. /\ rfredone \subseteq rfredone'
      /\ \A n \in RfNames, i \in RfPositions :
           over => rfdisk'[n][i] = rfdisk[n][i] \/ <<n, i>> \in rfredone'
  <2>1. rfredone \subseteq rfredone'
    OBVIOUS
  <2>2. ASSUME NEW n \in RfNames, NEW i \in RfPositions, over, rfdisk'[n][i] # rfdisk[n][i]
        PROVE  <<n, i>> \in rfredone'
    <3>1. <<n, i>> \in Changes(r) /\ rfdisk' # rfdisk
      BY <1>5, <2>2
    <3> QED  BY <2>2, <3>1
  <2> QED  BY <2>1, <2>2
<1> HIDE DEF byte, r
<1>7. ASSUME NEW a \in RfReplies, RfHeard(a)  PROVE RfHeard(a)'
  <2> SUFFICES ASSUME NEW q \in Procs, RfIn(q), rfproc[q].seq = a.seq
               PROVE  RfTrue(rfproc[q].req, a)'
    BY <1>7 DEF RfHeard
  <2> DEFINE s == rfproc[q].req
  <2>1. /\ RfTrue(s, a) /\ s.name \in RfNames /\ s.pos \in RfPositions /\ s \in RfAsked
        /\ s' = s
    BY <1>7, RfInside DEF RfHeard, RfGood
  <2> HIDE DEF s
  <2>2. /\ s.op = "r" => rfdisk'[s.name][s.pos] = rfdisk[s.name][s.pos] \/ <<s.name, s.pos>> \in rfredone'
        /\ \A i \in RfPositions : <<s.name, i>> \in Changes(s) =>
             \/ rfdisk'[s.name][i] = rfdisk[s.name][i] \/ <<s.name, i>> \in rfredone'
             \/ rfdisk'[s.name][i] = NewByte(s)
    <3>1. CASE over
      BY <1>6, <2>1, <3>1
    <3>2. CASE ~over
      <4>1. s = r
        <5>1. PICK p \in Procs : RfIn(p) /\ rfproc[p].seq = x.seq
          BY <3>2
        <5>2. p = q
          BY <5>1, RfInside
        <5> QED  BY <1>1, <5>1, <5>2 DEF s
      <4>2. s.op = "r" => Changes(s) = {}
        BY <1>2, <2>1, <4>1, RfCarries
      <4> QED  BY <1>5, <2>1, <4>1, <4>2
    <3> QED  BY <3>1, <3>2
  <2> QED  BY <1>6, <2>1, <2>2 DEF RfTrue, s
<1>8. RfHeard(m)'
  <2> SUFFICES ASSUME NEW q \in Procs, RfIn(q), rfproc[q].seq = x.seq
               PROVE  RfTrue(rfproc[q].req, m)'
    BY <1>1, <1>4 DEF RfHeard
  <2>1. rfproc'[q].req = r
    BY <1>1
  <2>2. r.op = "r" => m.byte = rfdisk'[r.name][r.pos]
    <3>1. r.op = "r" => Changes(r) = {} /\ byte = rfdisk[r.name][r.pos]
      BY <1>1, <1>2, RfCarries DEF byte
    <3> QED  BY <1>1, <1>4, <1>5, <3>1
  <2>3. m.ok => \A i \in RfPositions : <<r.name, i>> \in Changes(r) => rfdisk'[r.name][i] = NewByte(r)
    BY <1>1, <1>4, <1>5
  <2> QED  BY <1>4, <2>1, <2>2, <2>3 DEF RfTrue
<1>9. rfinbox' \in Seq(RfReplies) /\ rfair' \subseteq RfReplies /\ RfMail'
  <2>1. CASE rfair' = {m} /\ rfinbox' = rfinbox
    BY <1>2, <1>4, <1>7, <1>8, <2>1 DEF RfMail
  <2>2. CASE rfinbox' = RfQueued(m) /\ rfair' = rfair
    <3>1. /\ rfinbox' \in Seq(RfReplies)
          /\ \A i \in 1 .. Len(rfinbox') : rfinbox'[i] = m \/ \E j \in 1 .. Len(rfinbox) : rfinbox'[i] = rfinbox[j]
      BY <1>2, <1>4, <2>2 DEF RfQueued
    <3> QED  BY <1>2, <1>7, <1>8, <2>2, <3>1 DEF RfMail
  <2> QED  BY <1>3, <2>1, <2>2
<1>10. RfKnown'
  <2> SUFFICES ASSUME NEW n \in RfNames, NEW i \in RfPositions,
                      rfdisk'[n][i] \notin rfmay[n][i], <<n, i>> \notin rfredone'
               PROVE  RfCarried(n, i)'
    BY DEF RfKnown
  <2>1. CASE rfdisk'[n][i] = rfdisk[n][i]
    <3>1. RfCarried(n, i)
      BY <1>6, <2>1 DEF RfInv, RfKnown
    <3> QED  BY <2>1, <3>1 DEF RfCarried
  <2>2. CASE rfdisk'[n][i] # rfdisk[n][i]
    <3>1. <<n, i>> \in Changes(r) /\ rfdisk'[n][i] = NewByte(r) /\ ~over
      BY <1>5, <1>6, <2>2
    <3>2. PICK p \in Procs : RfIn(p) /\ rfproc[p].seq = x.seq
      BY <3>1
    <3>3. rfproc'[p].req = r
      BY <1>1, <3>2
    <3> QED  BY <3>1, <3>2, <3>3 DEF RfCarried
  <2> QED  BY <2>1, <2>2
<1> QED  BY <1>5, <1>9, <1>10

\* One round of rfscomm: the request goes out. The server may carry it out, and its
\* reply arrive now, later or never.
LEMMA RfTransmitKeeps ==
  ASSUME RfInv, NEW p \in Procs, RfTransmit(p)
  PROVE  RfInv'
<1> DEFINE x == rfproc[p]
           y == [x EXCEPT !.at = "recv", !.tries = @ + 1]
<1>1. /\ RfIn(p) /\ x.at = "send" /\ rfproc' = [rfproc EXCEPT ![p].at = "recv", ![p].tries = @ + 1]
      /\ UNCHANGED <<rfltab, rf_mutex, rf_seq, rfredone, rfmay, rfbytes, rfwrong>>
      /\ \/ UNCHANGED <<rfasked, rfinbox, rfair, rfdisk>>
         \/ RfServed(x) /\ UNCHANGED rfasked
         \/ rfasked' = {[seq |-> x.seq, req |-> x.req]} /\ UNCHANGED <<rfinbox, rfair, rfdisk>>
  BY DEF RfTransmit, RfAt, RfIn, rfcomm
<1>2. /\ x \in RfWhere /\ x.req \in RfAsked /\ x.seq \in Nat /\ x.seq < rf_seq /\ x.tries \in Nat
      /\ x.req.op \in RfAsks /\ x.req.name \in RfNames /\ x.req.pos \in RfPositions
      /\ \A q \in Procs : RfIn(q) => q = p
  BY <1>1, RfInside DEF RfGood, RfWhere, RfInv, RfTypes
<1>3. rfproc' = [rfproc EXCEPT ![p] = y]
  BY <1>1, RfInside
<1>4. y \in RfWhere /\ y.at = "recv" /\ y.req = x.req /\ y.seq = x.seq
  <2>1. x.tries + 1 \in Nat
    BY <1>2
  <2> HIDE DEF x
  <2> QED  BY <1>2, <2>1 DEF RfWhere, RfPlaces
<1> HIDE DEF y
<1>5. /\ rfproc' \in [Procs -> RfWhere] /\ RfLock' /\ RfNamed'
      /\ \A q \in Procs : /\ RfIn(q)' <=> RfIn(q)
                          /\ rfproc'[q].req = rfproc[q].req /\ rfproc'[q].seq = rfproc[q].seq
  BY <1>1, <1>3, <1>4, RfAlong
<1>6. RfLate(x) /\ RfLate([seq |-> x.seq, req |-> x.req])
  <2>1. \A q \in Procs : RfIn(q) => rfproc[q].req = x.req
    BY <1>2
  <2> HIDE DEF x
  <2> QED  BY <1>2, <2>1 DEF RfLate
<1> HIDE DEF x
<1>7. RfAway'
  <2>1. \A a : RfLate(a) => RfLate(a)'
    BY <1>1, <1>5 DEF RfLate
  <2>2. CASE rfasked' = rfasked
    BY <2>1, <2>2 DEF RfInv, RfAway
  <2>3. CASE rfasked' = {[seq |-> x.seq, req |-> x.req]}
    BY <1>6, <2>1, <2>3 DEF RfAway
  <2> QED  BY <1>1, <2>2, <2>3
<1>8. CASE RfServed(x)
  <2>1. ~\A q \in Procs : RfIn(q) => rfproc[q].seq # x.seq
    BY <1>1 DEF x
  <2>2. /\ rfdisk' \in RfFiles /\ rfinbox' \in Seq(RfReplies) /\ rfair' \subseteq RfReplies
        /\ RfMail' /\ RfKnown'
    BY <1>1, <1>5, <1>6, <1>8, <2>1, RfServedKeeps
  <2>3. RfTypes'
    BY <1>1, <1>5, <2>2 DEF RfInv, RfTypes
  <2> QED  BY <1>1, <1>5, <1>7, <2>2, <2>3 DEF RfInv
<1>9. CASE UNCHANGED <<rfinbox, rfair, rfdisk>>
  <2>1. RfTypes'
    BY <1>1, <1>5, <1>9 DEF RfInv, RfTypes
  <2>2. RfMail'
    BY <1>1, <1>5, <1>9 DEF RfInv, RfMail, RfHeard, RfTrue
  <2>3. RfKnown'
    <3>1. ASSUME NEW n \in RfNames, NEW i \in RfPositions, RfCarried(n, i)  PROVE RfCarried(n, i)'
      BY <1>5, <1>9, <3>1 DEF RfCarried
    <3> QED  BY <1>1, <1>9, <3>1 DEF RfInv, RfKnown
  <2> QED  BY <1>1, <1>5, <1>7, <2>1, <2>2, <2>3 DEF RfInv
<1> QED  BY <1>1, <1>8, <1>9

\* The retries are used up, or udp_send refuses: the operation fails (rfscomm.c).
LEMMA RfGiveUpKeeps ==
  ASSUME RfInv, NEW p \in Procs, RfGiveUp(p)
  PROVE  RfInv'
<1> DEFINE m == [seq |-> 0, op |-> "none", ok |-> FALSE, byte |-> 0, len |-> 0]
<1>1. /\ RfIn(p) /\ RfOutcome(p, FALSE, m)
      /\ UNCHANGED <<rf_seq, rfbytes, rfdisk, rfasked, rfredone, rfinbox, rfair>>
  BY DEF RfGiveUp, RfAt, RfIn, rfcomm, rfnet
<1>2. m \in RfReplies
  BY DEF RfReplies, RfOps
<1>3. /\ rfinbox' \in Seq(RfReplies) /\ rfair' \subseteq RfReplies
      /\ \A i \in 1 .. Len(rfinbox') : rfinbox'[i].seq < rf_seq
      /\ \A a \in rfair' : a.seq < rf_seq
  BY <1>1 DEF RfInv, RfTypes, RfMail, RfHeard
<1> HIDE DEF m
<1> QED  BY <1>1, <1>2, <1>3, RfOutcomeKeeps

\* A late copy of a request reaches the server: what it changes after its exchange is
\* marked.
LEMMA RfServeKeeps ==
  ASSUME RfInv, RfServe
  PROVE  RfInv'
<1>1. PICK x \in rfasked :
        /\ rfasked' = {} /\ RfServed(x)
        /\ rfredone' = IF (\A p \in Procs : RfIn(p) => rfproc[p].seq # x.seq) /\ rfdisk' # rfdisk
                       THEN rfredone \cup Changes(x.req) ELSE rfredone
  BY DEF RfServe, RfIn
<1>2. UNCHANGED <<rfltab, rf_mutex, rf_seq, rfproc, rfmay, rfbytes, rfwrong>>
  BY DEF RfServe, rfcomm
<1>3. \A q \in Procs : RfIn(q)' <=> RfIn(q)
  BY <1>2 DEF RfIn
<1>4. RfLate(x)
  BY DEF RfInv, RfAway
<1>5. /\ rfdisk' \in RfFiles /\ rfinbox' \in Seq(RfReplies) /\ rfair' \subseteq RfReplies
      /\ RfMail' /\ RfKnown'
  BY <1>1, <1>2, <1>3, <1>4, RfServedKeeps
<1>6. RfAway'
  BY <1>1 DEF RfAway
<1>7. RfTypes'
  BY <1>2, <1>5 DEF RfInv, RfTypes
<1>8. RfLock'
  BY <1>2 DEF RfInv, RfLock, SemaSound, Waiters, RfUsers
<1>9. RfNamed'
  BY <1>2, <1>3 DEF RfInv, RfNamed, RfGood, RfCalled
<1> QED  BY <1>2, <1>5, <1>6, <1>7, <1>8, <1>9 DEF RfInv

\* A reply is taken from the UDP slot: the answer ends the operation, and
\* another's makes rfscomm transmit again.
LEMMA RfReplyKeeps ==
  ASSUME RfInv, NEW p \in Procs, RfReply(p)
  PROVE  RfInv'
<1> DEFINE m == Head(rfinbox)
<1>1. /\ RfIn(p) /\ rfinbox # <<>> /\ rfinbox' = Tail(rfinbox)
      /\ UNCHANGED <<rf_seq, rfasked, rfair, rfdisk, rfredone, rfbytes>>
  BY DEF RfReply, RfAt, RfIn, rfcomm
<1>2. /\ m \in RfReplies /\ RfHeard(m) /\ rfinbox' \in Seq(RfReplies) /\ rfair' \subseteq RfReplies
      /\ \A i \in 1 .. Len(rfinbox') : \E j \in 1 .. Len(rfinbox) : rfinbox'[i] = rfinbox[j]
  <2>1. rfinbox \in Seq(RfReplies) /\ rfair \subseteq RfReplies
    BY DEF RfInv, RfTypes
  <2>2. /\ Len(rfinbox) \in Nat \ {0} /\ rfinbox[1] \in RfReplies
        /\ Tail(rfinbox) \in Seq(RfReplies) /\ Len(Tail(rfinbox)) = Len(rfinbox) - 1
        /\ \A i \in 1 .. Len(rfinbox) - 1 : Tail(rfinbox)[i] = rfinbox[i + 1]
    BY <1>1, <2>1
  <2>3. m = rfinbox[1] /\ 1 \in 1 .. Len(rfinbox)
    BY <2>2
  <2>4. RfHeard(m)
    BY <2>3 DEF RfInv, RfMail
  <2> HIDE DEF m
  <2>5. ASSUME NEW i \in 1 .. Len(rfinbox')
        PROVE  \E j \in 1 .. Len(rfinbox) : rfinbox'[i] = rfinbox[j]
    <3>1. i + 1 \in 1 .. Len(rfinbox) /\ rfinbox'[i] = rfinbox[i + 1]
      BY <1>1, <2>2
    <3> QED  BY <3>1
  <2> QED  BY <1>1, <2>1, <2>2, <2>3, <2>4, <2>5
<1>3. /\ \A i \in 1 .. Len(rfinbox') : RfHeard(rfinbox'[i])
      /\ \A a \in rfair' : RfHeard(a)
  BY <1>1, <1>2 DEF RfInv, RfMail
<1>4. CASE RfAnswers(m, rfproc[p])
  <2>1. RfOutcome(p, m.ok, m)
    BY <1>4 DEF RfReply
  <2>2. RfTrue(rfproc[p].req, m)
    BY <1>1, <1>2, <1>4 DEF RfAnswers, RfHeard
  <2>3. /\ \A i \in 1 .. Len(rfinbox') : rfinbox'[i].seq < rf_seq
        /\ \A a \in rfair' : a.seq < rf_seq
    BY <1>3 DEF RfHeard
  <2>4. m.ok \in BOOLEAN
    BY <1>2 DEF RfReplies
  <2> HIDE DEF m
  <2> QED  BY <1>1, <1>2, <2>1, <2>2, <2>3, <2>4, RfOutcomeKeeps
<1>5. CASE ~RfAnswers(m, rfproc[p])
  <2> DEFINE y == [rfproc[p] EXCEPT !.at = "send"]
  <2>1. /\ rfproc' = [rfproc EXCEPT ![p].at = "send"]
        /\ UNCHANGED <<rfltab, rf_mutex, rfmay, rfwrong>>
    BY <1>5 DEF RfReply
  <2>2. rfproc' = [rfproc EXCEPT ![p] = y]
    BY <1>1, <2>1, RfInside
  <2>3. y \in RfWhere /\ y.at = "send" /\ y.req = rfproc[p].req /\ y.seq = rfproc[p].seq
    BY <1>1, RfInside DEF RfWhere, RfPlaces
  <2> HIDE DEF y
  <2>4. /\ rfproc' \in [Procs -> RfWhere] /\ RfLock' /\ RfNamed'
        /\ \A q \in Procs : /\ RfIn(q)' <=> RfIn(q)
                            /\ rfproc'[q].req = rfproc[q].req /\ rfproc'[q].seq = rfproc[q].seq
    BY <1>1, <2>1, <2>2, <2>3, RfAlong
  <2>5. RfTypes'
    BY <1>1, <1>2, <2>1, <2>4 DEF RfInv, RfTypes
  <2>a. RfAway'
    BY <1>1, <2>4 DEF RfInv, RfAway, RfLate
  <2>6. RfMail'
    <3>1. \A a : RfHeard(a) => RfHeard(a)'
      BY <1>1, <2>4 DEF RfHeard, RfTrue
    <3> QED  BY <1>3, <3>1 DEF RfMail
  <2>7. RfKnown'
    <3>1. ASSUME NEW n \in RfNames, NEW i \in RfPositions, RfCarried(n, i)  PROVE RfCarried(n, i)'
      BY <1>1, <2>4, <3>1 DEF RfCarried
    <3> QED  BY <1>1, <2>1, <3>1 DEF RfInv, RfKnown
  <2> QED  BY <2>1, <2>4, <2>5, <2>6, <2>a, <2>7 DEF RfInv
<1> QED  BY <1>4, <1>5

\* No reply in time: rfscomm transmits again.
LEMMA RfTimeoutKeeps ==
  ASSUME RfInv, NEW p \in Procs, RfTimeout(p)
  PROVE  RfInv'
<1> DEFINE y == [rfproc[p] EXCEPT !.at = "send"]
<1>1. /\ RfIn(p) /\ rfproc' = [rfproc EXCEPT ![p].at = "send"]
      /\ UNCHANGED <<rfltab, rf_mutex, rf_seq, rfasked, rfinbox, rfair, rfdisk, rfredone, rfmay, rfbytes, rfwrong>>
  BY DEF RfTimeout, RfAt, RfIn, rfnet, rfcomm
<1>2. rfproc' = [rfproc EXCEPT ![p] = y]
  BY <1>1, RfInside
<1>3. y \in RfWhere /\ y.at = "send" /\ y.req = rfproc[p].req /\ y.seq = rfproc[p].seq
  BY <1>1, RfInside DEF RfWhere, RfPlaces
<1> HIDE DEF y
<1>4. /\ rfproc' \in [Procs -> RfWhere] /\ RfLock' /\ RfNamed'
      /\ \A q \in Procs : /\ RfIn(q)' <=> RfIn(q)
                          /\ rfproc'[q].req = rfproc[q].req /\ rfproc'[q].seq = rfproc[q].seq
  BY <1>1, <1>2, <1>3, RfAlong
<1>5. RfTypes'
  BY <1>1, <1>4 DEF RfInv, RfTypes
<1>6. RfMail' /\ RfAway'
  BY <1>1, <1>4 DEF RfInv, RfMail, RfHeard, RfTrue, RfAway, RfLate
<1>7. RfKnown'
  <2>1. ASSUME NEW n \in RfNames, NEW i \in RfPositions, RfCarried(n, i)  PROVE RfCarried(n, i)'
    BY <1>1, <1>4, <2>1 DEF RfCarried
  <2> QED  BY <1>1, <2>1 DEF RfInv, RfKnown
<1> QED  BY <1>1, <1>4, <1>5, <1>6, <1>7 DEF RfInv

\* A late reply arrives.
LEMMA RfArriveKeeps ==
  ASSUME RfInv, RfArrive
  PROVE  RfInv'
<1>1. PICK m \in rfair : rfinbox' = RfQueued(m)
  BY DEF RfArrive
<1>2. /\ rfair' = {}
      /\ UNCHANGED <<rfltab, rf_mutex, rf_seq, rfproc, rfasked, rfdisk, rfredone, rfmay, rfbytes, rfwrong>>
  BY DEF RfArrive, rfcomm
<1>3. m \in RfReplies /\ rfinbox \in Seq(RfReplies) /\ RfHeard(m)
  BY DEF RfInv, RfTypes, RfMail
<1>4. /\ rfinbox' \in Seq(RfReplies)
      /\ \A i \in 1 .. Len(rfinbox') : rfinbox'[i] = m \/ \E j \in 1 .. Len(rfinbox) : rfinbox'[i] = rfinbox[j]
  BY <1>1, <1>3 DEF RfQueued
<1>5. \A q \in Procs : RfIn(q)' <=> RfIn(q)
  BY <1>2 DEF RfIn
<1>a. RfAway'
  BY <1>2, <1>5 DEF RfInv, RfAway, RfLate
<1>6. RfMail'
  <2>1. \A a : RfHeard(a) => RfHeard(a)'
    BY <1>2, <1>5 DEF RfHeard, RfTrue
  <2> QED  BY <1>2, <1>3, <1>4, <2>1 DEF RfInv, RfMail
<1>7. RfKnown'
  BY <1>2, <1>5 DEF RfInv, RfKnown, RfCarried
<1>8. RfTypes'
  BY <1>2, <1>4 DEF RfInv, RfTypes
<1>9. RfLock'
  BY <1>2 DEF RfInv, RfLock, SemaSound, Waiters, RfUsers
<1>10. RfNamed'
  BY <1>2, <1>5 DEF RfInv, RfNamed, RfGood, RfCalled
<1> QED  BY <1>2, <1>a, <1>6, <1>7, <1>8, <1>9, <1>10 DEF RfInv

\* rfsinit and rflinit: nothing is open, and the server's files are empty.
LEMMA RfInitially ==
  RfInit => RfInv
<1> SUFFICES ASSUME RfInit  PROVE RfInv
  OBVIOUS
<1>1. 0 \in RfDevs
  BY RfsAssumption DEF RfDevs
<1>2. NoRequest \in RfAsked
  BY <1>1 DEF NoRequest, RfAsked, RfOps, RfBits
<1>3. RfUser \in RfWhere /\ RfUser.at = "user"
  BY <1>2 DEF RfUser, RfWhere, RfPlaces
<1>4. \A p \in Procs : rfproc[p] = RfUser
  BY DEF RfInit
<1>5. RfTypes
  <2>1. rfproc \in [Procs -> RfWhere]
    BY <1>3 DEF RfInit
  <2>2. rfltab \in RfTabs
    BY DEF RfInit, RfTabs, RfBits
  <2>3. rfinbox = <<>> /\ rfair = {}
    BY DEF RfInit
  <2>4. rfinbox \in Seq(RfReplies) /\ rfair \subseteq RfReplies
    BY <2>3
  <2>5. rfdisk \in RfFiles
    BY DEF RfInit, RfFiles
  <2>6. rfmay \in RfGuesses
    <3>1. rfmay = [n \in RfNames |-> [i \in RfPositions |-> {0}]]
      BY DEF RfInit
    <3>2. [i \in RfPositions |-> {0}] \in [RfPositions -> SUBSET Nat]
      OBVIOUS
    <3> QED  BY <3>1, <3>2 DEF RfGuesses
  <2>7. rf_seq \in Nat \ {0} /\ rfbytes \in Nat
    <3>1. rf_seq = 1 /\ rfbytes = 0
      BY DEF RfInit
    <3> QED  BY <3>1
  <2> QED  BY <2>1, <2>2, <2>4, <2>5, <2>6, <2>7 DEF RfTypes
<1>6. RfLock
  <2>1. SemaSound(rf_mutex) /\ Waiters(rf_mutex) = {} /\ rf_mutex.n = 1
    BY SemaIsSound DEF RfInit
  <2>2. RfUsers = {}
    BY <1>3, <1>4 DEF RfUsers
  <2>3. Cardinality(RfUsers) = 0
    BY <2>2, FS_EmptySet
  <2> QED  BY <2>1, <2>3 DEF RfLock
<1>7. RfNamed
  BY <1>3, <1>4 DEF RfInit, RfNamed, RfIn
<1>8. RfMail
  <2>1. rfinbox = <<>> /\ rfair = {}
    BY DEF RfInit
  <2>2. Len(rfinbox) = 0
    BY <2>1
  <2> QED  BY <2>1, <2>2 DEF RfMail
<1>9. RfKnown /\ RfAway /\ ~rfwrong
  BY DEF RfInit, RfKnown, RfAway
<1> QED  BY <1>5, <1>6, <1>7, <1>8, <1>9 DEF RfInv

\* Every step of the remote file system keeps the invariant.
LEMMA RfStep ==
  ASSUME RfInv, [RfNext]_rfvars
  PROVE  RfInv'
<1>1. CASE UNCHANGED rfvars
  <2>1. /\ UNCHANGED <<rfltab, rf_mutex, rf_seq, rfproc, rfasked, rfinbox, rfair, rfdisk>>
        /\ UNCHANGED <<rfredone, rfmay, rfbytes, rfwrong>>
    BY <1>1 DEF rfvars, rfnet, rfcomm
  <2>2. \A q \in Procs : RfIn(q)' <=> RfIn(q)
    BY <2>1 DEF RfIn
  <2>3. RfTypes' /\ RfLock'
    BY <2>1 DEF RfInv, RfTypes, RfLock, SemaSound, Waiters, RfUsers
  <2>4. RfNamed'
    BY <2>1, <2>2 DEF RfInv, RfNamed, RfGood, RfCalled
  <2>5. RfMail' /\ RfAway' /\ RfKnown'
    BY <2>1, <2>2 DEF RfInv, RfMail, RfHeard, RfTrue, RfAway, RfLate, RfKnown, RfCarried
  <2> QED  BY <2>1, <2>3, <2>4, <2>5 DEF RfInv
<1>2. ASSUME NEW p \in Procs, RfIdle(p), \E r \in RfRequests : RfCall(p, r)  PROVE RfInv'
  BY <1>2, RfCallKeeps
<1>3. ASSUME NEW p \in Procs, RfEntered(p)  PROVE RfInv'
  BY <1>3, RfEnteredKeeps
<1>4. ASSUME NEW p \in Procs, RfTransmit(p)  PROVE RfInv'
  BY <1>4, RfTransmitKeeps
<1>5. ASSUME NEW p \in Procs, RfReply(p)  PROVE RfInv'
  BY <1>5, RfReplyKeeps
<1>6. ASSUME NEW p \in Procs, RfTimeout(p)  PROVE RfInv'
  BY <1>6, RfTimeoutKeeps
<1>7. CASE RfArrive
  BY <1>7, RfArriveKeeps
<1>8. ASSUME NEW p \in Procs, RfGiveUp(p)  PROVE RfInv'
  BY <1>8, RfGiveUpKeeps
<1>9. CASE RfServe
  BY <1>9, RfServeKeeps
<1> QED  BY <1>1, <1>2, <1>3, <1>4, <1>5, <1>6, <1>7, <1>8, <1>9 DEF RfNext, RfRun

\* rfscomm, rflread, rflwrite, rfscontrol: whatever the network does with requests and
\* replies, every read gives what the operations before it have left in the file, but for
\* a place that a copy of a request has changed again after its exchange; one process at a
\* time is inside.
THEOREM RfRemoteReadsWritten == RfSpec => []RfReadsWritten
<1>1. RfInv => RfReadsWritten
  <2> SUFFICES ASSUME RfInv  PROVE RfReadsWritten
    OBVIOUS
  <2>1. RfBusy = RfUsers \ Waiters(rf_mutex)
    BY DEF RfBusy, RfUsers
  <2>2. Available(rf_mutex) + Cardinality(RfBusy) = 1
    BY <2>1, RfAlone
  <2>3. ASSUME NEW n \in RfNames, NEW i \in RfPositions,
               rfdisk[n][i] \notin rfmay[n][i], <<n, i>> \notin rfredone
        PROVE  \E p \in RfTalking : LET r == rfproc[p].req IN
                 <<n, i>> \in Changes(r) /\ rfdisk[n][i] = NewByte(r)
    BY <2>3 DEF RfInv, RfKnown, RfCarried, RfTalking, RfIn
  <2> QED  BY <2>2, <2>3 DEF RfReadsWritten, RfInv
<1> QED  BY <1>1, RfInitially, RfStep, PTL DEF RfSpec

-----------------------------------------------------------------------------
(* The machine's address and the time of day *)

(* Whoever is in a conversation has registered for it (DhHolds). An        *)
(* acknowledgement that is ours names a server that has given one (DhSent),*)
(* and what the time server has sent was true when it was sent (DhTimes).  *)
DhPlaces == {"user", "open", "look", "register", "send", "recv", "prompt", "time"}
DhWhere == [at : DhPlaces, for : {"ip", "time"}, i : 0 .. DHCP_RETRY, j : 0 .. 3,
            out : {"discover"} \cup DhServers]
DhKinds == [kind : {"offer", "ack", "nak"}, who : DhServers \cup {Stranger}, own : BOOLEAN]

DhTypes ==
  /\ dhproc \in [Procs -> DhWhere] /\ \A p \in Procs : dhproc[p].at = "recv" => dhproc[p].j < 3
  /\ dhslot \in Procs \cup {NoProc} /\ utslot \in Procs \cup {NoProc}
  /\ ipucast \in DhServers \cup {NoProc} /\ dhacked \subseteq DhServers
  /\ dhair \subseteq DhKinds
DhHolds == \A p \in Procs :
  /\ dhproc[p].at \in {"send", "recv"} => dhslot = p
  /\ dhproc[p].at \notin {"user", "open"} /\ dhproc[p].for = "time" => utslot = p
  /\ dhproc[p].at \in {"prompt", "time"} => dhproc[p].for = "time"
DhSent ==
  /\ \A m \in dhair : m.own => m.who \in DhServers /\ (m.kind = "ack" => m.who \in dhacked)
  /\ ipvalid => ipucast \in dhacked
DhTimes ==
  /\ clktime \in Nat /\ utair \subseteq Int /\ \A t \in utair : t <= TimeAtBoot + clktime
  /\ dt_boot \in Int /\ (dt_bootvalid => dt_boot <= TimeAtBoot)

DhInv == DhTypes /\ DhHolds /\ DhSent /\ DhTimes

\* One process moves, and holds what it has to hold.
LEMMA DhMoves ==
  ASSUME DhInv, NEW p \in Procs, NEW x \in DhWhere, dhproc' = [dhproc EXCEPT ![p] = x],
         x.at = "recv" => x.j < 3,
         dhslot' \in Procs \cup {NoProc}, utslot' \in Procs \cup {NoProc},
         x.at \in {"send", "recv"} => dhslot' = p,
         x.at \notin {"user", "open"} /\ x.for = "time" => utslot' = p,
         x.at \in {"prompt", "time"} => x.for = "time",
         dhslot' = dhslot \/ dhslot \in {p, NoProc},
         utslot' = utslot \/ utslot \in {p, NoProc}
  PROVE  /\ dhproc' \in [Procs -> DhWhere] /\ DhHolds'
         /\ \A q \in Procs : dhproc'[q].at = "recv" => dhproc'[q].j < 3
<1>1. dhproc \in [Procs -> DhWhere] /\ NoProc \notin Procs
  BY SemasAssumption DEF DhInv, DhTypes
<1>2. /\ dhproc' \in [Procs -> DhWhere] /\ dhproc'[p] = x
      /\ \A q \in Procs \ {p} : dhproc'[q] = dhproc[q]
  BY <1>1
<1>3. ASSUME NEW q \in Procs \ {p}
      PROVE  /\ dhproc[q].at \in {"send", "recv"} => dhslot' = q
             /\ dhproc[q].at \notin {"user", "open"} /\ dhproc[q].for = "time" => utslot' = q
             /\ dhproc[q].at \in {"prompt", "time"} => dhproc[q].for = "time"
             /\ dhproc[q].at = "recv" => dhproc[q].j < 3
  BY <1>1 DEF DhInv, DhTypes, DhHolds
<1> QED  BY <1>2, <1>3 DEF DhHolds

\* Nothing is heard or sent.
LEMMA DhSilent ==
  ASSUME DhInv, UNCHANGED <<ipvalid, ipucast, dhair, dhacked, clktime, dt_bootvalid, dt_boot, utair>>
  PROVE  /\ DhSent' /\ DhTimes'
         /\ ipucast' \in DhServers \cup {NoProc} /\ dhacked' \subseteq DhServers /\ dhair' \subseteq DhKinds
BY DEF DhInv, DhTypes, DhSent, DhTimes

\* A message to DHCP clients says who sent it, and to whom.
LEMMA DhMessagesAre ==
  ASSUME NEW kind \in {"offer", "ack", "nak"}, NEW R \in SUBSET (DhServers \cup {Stranger}),
         NEW own \in BOOLEAN, NEW m \in DhMessages(kind, R, own)
  PROVE  m \in DhKinds /\ m.kind = kind /\ m.who \in R /\ m.own = own
<1>1. PICK s \in R : m = [kind |-> kind, who |-> s, own |-> own]
  BY DEF DhMessages
<1> QED  BY <1>1 DEF DhKinds

\* dhcp.c: what a process sends, and what some of the servers answer.
LEMMA DhBroadcasts ==
  ASSUME DhInv, NEW out \in {"discover"} \cup DhServers, DhBroadcast(out),
         UNCHANGED <<ipvalid, ipucast, clktime, dt_bootvalid, dt_boot, utair>>
  PROVE  /\ DhSent' /\ DhTimes'
         /\ ipucast' \in DhServers \cup {NoProc} /\ dhacked' \subseteq DhServers /\ dhair' \subseteq DhKinds
<1>1. ASSUME NEW kind \in {"offer", "ack", "nak"}, NEW R \in SUBSET DhServers
      PROVE  /\ DhMessages(kind, R, TRUE) \subseteq DhKinds
             /\ \A m \in DhMessages(kind, R, TRUE) : m.kind = kind /\ m.who \in R
  BY DhMessagesAre
<1>2. PICK kind \in {"offer", "ack", "nak"}, R \in SUBSET DhServers :
        /\ dhair' = dhair \cup DhMessages(kind, R, TRUE) \/ dhair' = dhair
        /\ dhacked' = dhacked \/ (dhacked' = dhacked \cup R /\ R \subseteq DhServers)
        /\ kind = "ack" => R \subseteq dhacked'
  <2>1. CASE out = "discover"
    <3>1. PICK R \in SUBSET DhServers : dhair' = dhair \cup DhMessages("offer", R, TRUE)
      BY <2>1 DEF DhBroadcast
    <3> QED  BY <2>1, <3>1 DEF DhBroadcast
  <2>2. CASE out # "discover"
    <3>1. {out} \in SUBSET DhServers
      BY <2>2
    <3>2. \/ dhair' = dhair \cup DhMessages("ack", {out}, TRUE) /\ dhacked' = dhacked \cup {out}
          \/ dhair' = dhair \cup DhMessages("nak", {out}, TRUE) /\ UNCHANGED dhacked
          \/ UNCHANGED <<dhair, dhacked>>
      BY <2>2 DEF DhBroadcast
    <3>3. CASE dhair' = dhair \cup DhMessages("ack", {out}, TRUE) /\ dhacked' = dhacked \cup {out}
      BY <3>1, <3>3
    <3>4. CASE dhair' = dhair \cup DhMessages("nak", {out}, TRUE) /\ UNCHANGED dhacked
      BY <3>1, <3>4
    <3>5. CASE UNCHANGED <<dhair, dhacked>>
      BY <3>1, <3>5
    <3> QED  BY <3>2, <3>3, <3>4, <3>5
  <2> QED  BY <2>1, <2>2
<1>3. dhacked \subseteq dhacked' /\ dhacked' \subseteq DhServers
  BY <1>2 DEF DhInv, DhTypes
<1>4. dhair' \subseteq DhKinds
  BY <1>1, <1>2 DEF DhInv, DhTypes
<1>5. DhSent'
  <2>1. \A m \in dhair : m.own => m.who \in DhServers /\ (m.kind = "ack" => m.who \in dhacked)
    BY DEF DhInv, DhSent
  <2>2. \A m \in dhair' : m.own => m.who \in DhServers /\ (m.kind = "ack" => m.who \in dhacked')
    BY <1>1, <1>2, <1>3, <2>1
  <2> QED  BY <1>3, <2>2 DEF DhInv, DhSent
<1> QED  BY <1>3, <1>4, <1>5 DEF DhInv, DhTypes, DhTimes

\* getlocalip, dhcp.c: how a process goes on that is not in a conversation.
LEMMA DhUserIs ==
  DhUser \in DhWhere /\ DhUser.at = "user" /\ DhUser.for = "ip" /\ DhUser.j = 0
BY DhcpAssumption DEF DhUser, DhWhere, DhPlaces

\* getlocalip or getutime is called.
LEMMA DhCallsKeep ==
  ASSUME DhInv, NEW p \in Procs, DhCall(p) \/ UtCall(p)
  PROVE  DhInv'
<1>1. PICK x \in DhWhere :
        /\ dhproc' = [dhproc EXCEPT ![p] = x] /\ x.at \in {"look", "open"}
        /\ x.at = "look" => x.for = "ip"
  <2> DEFINE y == [DhUser EXCEPT !.at = "look"]
             z == [DhUser EXCEPT !.for = "time", !.at = "open"]
  <2>1. y \in DhWhere /\ y.at = "look" /\ y.for = "ip" /\ z \in DhWhere /\ z.at = "open"
    BY DhUserIs DEF DhWhere, DhPlaces
  <2>2. dhproc' = [dhproc EXCEPT ![p] = y] \/ dhproc' = [dhproc EXCEPT ![p] = z]
    BY DEF DhCall, UtCall
  <2> HIDE DEF y, z
  <2> QED  BY <2>1, <2>2
<1>2. UNCHANGED <<dhslot, utslot, ipvalid, ipucast, dhair, dhacked, clktime, dt_bootvalid, dt_boot, utair>>
  BY DEF DhCall, UtCall, utvars
<1>3. dhslot \in Procs \cup {NoProc} /\ utslot \in Procs \cup {NoProc}
  BY DEF DhInv, DhTypes
<1>4. /\ dhproc' \in [Procs -> DhWhere] /\ DhHolds'
      /\ \A q \in Procs : dhproc'[q].at = "recv" => dhproc'[q].j < 3
  BY <1>1, <1>2, <1>3, DhMoves
<1> QED  BY <1>2, <1>3, <1>4, DhSilent DEF DhInv, DhTypes

\* getutime registers for the time, or finds that somebody has.
LEMMA UtRegisterKeeps ==
  ASSUME DhInv, NEW p \in Procs, UtRegister(p)
  PROVE  DhInv'
<1>1. /\ dhproc[p].at = "open" /\ dhproc[p] \in DhWhere
      /\ UNCHANGED <<dhslot, ipvalid, ipucast, dhair, dhacked, clktime, dt_bootvalid, dt_boot, utair>>
      /\ dhslot \in Procs \cup {NoProc} /\ utslot \in Procs \cup {NoProc}
  BY DEF UtRegister, DhAt, DhInv, DhTypes
<1>2. /\ dhproc' \in [Procs -> DhWhere] /\ DhHolds' /\ utslot' \in Procs \cup {NoProc}
      /\ \A q \in Procs : dhproc'[q].at = "recv" => dhproc'[q].j < 3
  <2>1. CASE utslot = NoProc
    <3> DEFINE x == [dhproc[p] EXCEPT !.at = "look"]
    <3>1. utslot' = p /\ dhproc' = [dhproc EXCEPT ![p] = x]
      BY <2>1 DEF UtRegister
    <3>2. x \in DhWhere /\ x.at = "look"
      BY <1>1 DEF DhWhere, DhPlaces
    <3> HIDE DEF x
    <3> QED  BY <1>1, <2>1, <3>1, <3>2, DhMoves
  <2>2. CASE utslot # NoProc
    <3>1. utslot' = utslot /\ dhproc' = [dhproc EXCEPT ![p] = DhUser]
      BY <2>2 DEF UtRegister
    <3> QED  BY <1>1, <3>1, DhUserIs, DhMoves
  <2> QED  BY <2>1, <2>2
<1> QED  BY <1>1, <1>2, DhSilent DEF DhInv, DhTypes

\* getlocalip gives the address, or asks for one.
LEMMA DhLookKeeps ==
  ASSUME DhInv, NEW p \in Procs, DhLook(p)
  PROVE  DhInv'
<1>1. /\ dhproc[p].at = "look" /\ dhproc[p] \in DhWhere /\ dhproc \in [Procs -> DhWhere]
      /\ UNCHANGED <<dhslot, utslot, ipvalid, ipucast, dhair, dhacked, clktime, dt_bootvalid, dt_boot, utair>>
      /\ dhslot \in Procs \cup {NoProc} /\ utslot \in Procs \cup {NoProc}
      /\ dhproc[p].for = "time" => utslot = p
  BY DEF DhLook, DhAt, utvars, DhInv, DhTypes, DhHolds
<1>2. PICK x \in DhWhere :
        /\ dhproc' = [dhproc EXCEPT ![p] = x] /\ x.at \in {"user", "prompt", "register"}
        /\ x.at # "user" => x.for = dhproc[p].for
        /\ x.at = "prompt" => x.for = "time"
  <2> DEFINE x == IF ~ipvalid THEN [dhproc[p] EXCEPT !.at = "register"]
                  ELSE IF dhproc[p].for = "time" THEN [dhproc[p] EXCEPT !.at = "prompt"] ELSE DhUser
  <2>1. dhproc' = [dhproc EXCEPT ![p] = x]
    BY <1>1 DEF DhLook, DhReturn
  <2>2. /\ x \in DhWhere /\ x.at \in {"user", "prompt", "register"}
        /\ x.at # "user" => x.for = dhproc[p].for
        /\ x.at = "prompt" => x.for = "time"
    BY <1>1, DhUserIs DEF DhWhere, DhPlaces
  <2> HIDE DEF x
  <2> QED  BY <2>1, <2>2
<1>3. /\ dhproc' \in [Procs -> DhWhere] /\ DhHolds'
      /\ \A q \in Procs : dhproc'[q].at = "recv" => dhproc'[q].j < 3
  BY <1>1, <1>2, DhMoves
<1> QED  BY <1>1, <1>3, DhSilent DEF DhInv, DhTypes

\* getlocalip_boot registers for DHCP, or finds that somebody has.
LEMMA DhRegisterKeeps ==
  ASSUME DhInv, NEW p \in Procs, DhRegister(p)
  PROVE  DhInv'
<1>1. /\ dhproc[p].at = "register" /\ dhproc[p] \in DhWhere /\ dhproc \in [Procs -> DhWhere]
      /\ UNCHANGED <<ipvalid, ipucast, dhair, dhacked, utslot, clktime, dt_bootvalid, dt_boot, utair>>
      /\ dhslot \in Procs \cup {NoProc} /\ utslot \in Procs \cup {NoProc}
      /\ dhproc[p].for = "time" => utslot = p
  BY DEF DhRegister, DhAt, utvars, DhInv, DhTypes, DhHolds
<1>2. CASE dhslot = NoProc
  <2> DEFINE x == [dhproc[p] EXCEPT !.at = "send"]
  <2>1. dhslot' = p /\ dhproc' = [dhproc EXCEPT ![p].at = "send"]
    BY <1>2 DEF DhRegister
  <2>2. dhproc' = [dhproc EXCEPT ![p] = x] /\ x \in DhWhere /\ x.at = "send" /\ x.for = dhproc[p].for
    BY <1>1, <2>1 DEF DhWhere, DhPlaces
  <2> HIDE DEF x
  <2>3. /\ dhproc' \in [Procs -> DhWhere] /\ DhHolds'
        /\ \A q \in Procs : dhproc'[q].at = "recv" => dhproc'[q].j < 3
    BY <1>1, <1>2, <2>1, <2>2, DhMoves
  <2> QED  BY <1>1, <2>1, <2>3, DhSilent DEF DhInv, DhTypes
<1>3. CASE dhslot # NoProc
  <2>1. dhslot' = dhslot /\ dhproc' = [dhproc EXCEPT ![p] = DhUser]
    BY <1>3 DEF DhRegister, DhReturn
  <2>2. /\ dhproc' \in [Procs -> DhWhere] /\ DhHolds'
        /\ \A q \in Procs : dhproc'[q].at = "recv" => dhproc'[q].j < 3
    BY <1>1, <2>1, DhUserIs, DhMoves
  <2> QED  BY <1>1, <2>1, <2>2, DhSilent DEF DhInv, DhTypes
<1> QED  BY <1>2, <1>3

\* The outer loop of getlocalip_boot.
LEMMA DhSendKeeps ==
  ASSUME DhInv, NEW p \in Procs, DhSend(p)
  PROVE  DhInv'
<1>1. /\ dhproc[p].at = "send" /\ dhproc[p] \in DhWhere /\ dhproc \in [Procs -> DhWhere]
      /\ UNCHANGED <<ipvalid, ipucast, utslot, clktime, dt_bootvalid, dt_boot, utair>>
      /\ dhslot = p /\ utslot \in Procs \cup {NoProc} /\ dhproc[p].out \in {"discover"} \cup DhServers
      /\ dhproc[p].for = "time" => utslot = p
  BY DEF DhSend, DhAt, utvars, DhInv, DhTypes, DhHolds, DhWhere
<1>2. CASE dhproc[p].i = DHCP_RETRY
  <2>1. dhslot' = NoProc /\ dhproc' = [dhproc EXCEPT ![p] = DhUser] /\ UNCHANGED <<dhair, dhacked>>
    BY <1>2 DEF DhSend, DhReturn
  <2>2. /\ dhproc' \in [Procs -> DhWhere] /\ DhHolds'
        /\ \A q \in Procs : dhproc'[q].at = "recv" => dhproc'[q].j < 3
    BY <1>1, <2>1, DhUserIs, DhMoves
  <2> QED  BY <1>1, <2>1, <2>2, DhSilent DEF DhInv, DhTypes
<1>3. CASE dhproc[p].i # DHCP_RETRY
  <2> DEFINE x == [dhproc[p] EXCEPT !.at = "recv", !.i = @ + 1, !.j = 0]
  <2>1. /\ dhslot' = dhslot /\ DhBroadcast(dhproc[p].out)
        /\ dhproc' = [dhproc EXCEPT ![p].at = "recv", ![p].i = @ + 1, ![p].j = 0]
    BY <1>3 DEF DhSend
  <2>2. dhproc[p].i + 1 \in 0 .. DHCP_RETRY
    <3>1. dhproc[p].i \in 0 .. DHCP_RETRY
      BY <1>1 DEF DhWhere
    <3> QED  BY <1>3, <3>1, DhcpAssumption
  <2>3. /\ dhproc' = [dhproc EXCEPT ![p] = x] /\ x \in DhWhere /\ x.at = "recv" /\ x.for = dhproc[p].for
        /\ x.j < 3 /\ dhslot' = p
    BY <1>1, <2>1, <2>2 DEF DhWhere, DhPlaces
  <2> HIDE DEF x
  <2>4. /\ dhproc' \in [Procs -> DhWhere] /\ DhHolds'
        /\ \A q \in Procs : dhproc'[q].at = "recv" => dhproc'[q].j < 3
    <3>1. dhslot' = p /\ utslot' = utslot
      BY <1>1, <2>1
    <3> QED  BY <1>1, <2>3, <3>1, DhMoves
  <2>5. /\ DhSent' /\ DhTimes'
        /\ ipucast' \in DhServers \cup {NoProc} /\ dhacked' \subseteq DhServers /\ dhair' \subseteq DhKinds
    BY <1>1, <2>1, DhBroadcasts
  <2> QED  BY <1>1, <2>1, <2>4, <2>5 DEF DhInv, DhTypes
<1> QED  BY <1>2, <1>3

\* The inner loop goes around.
LEMMA DhAgains ==
  ASSUME DhInv, NEW p \in Procs, dhproc[p].at = "recv", NEW out \in {"discover"} \cup DhServers,
         DhAgain(p, out), UNCHANGED <<dhslot, utslot>>
  PROVE  /\ dhproc' \in [Procs -> DhWhere] /\ DhHolds'
         /\ \A q \in Procs : dhproc'[q].at = "recv" => dhproc'[q].j < 3
<1> DEFINE x == [dhproc[p] EXCEPT !.out = out, !.j = @ + 1,
                                  !.at = IF dhproc[p].j = 2 THEN "send" ELSE "recv"]
<1>1. /\ dhproc[p] \in DhWhere /\ dhproc \in [Procs -> DhWhere] /\ dhslot = p
      /\ utslot \in Procs \cup {NoProc}
      /\ dhproc[p].for = "time" => utslot = p
  BY DEF DhInv, DhTypes, DhHolds
<1>2. dhproc[p].j + 1 \in 0 .. 3 /\ (dhproc[p].j # 2 => dhproc[p].j + 1 < 3)
  <2>1. dhproc[p].j \in 0 .. 3 /\ dhproc[p].j < 3
    BY <1>1 DEF DhInv, DhTypes, DhWhere
  <2> QED  BY <2>1
<1>3. dhproc' = [dhproc EXCEPT ![p] = x]
  BY <1>1 DEF DhAgain
<1>4. /\ x \in DhWhere /\ x.at \in {"send", "recv"} /\ x.for = dhproc[p].for
      /\ x.at = "recv" => x.j < 3
  BY <1>1, <1>2 DEF DhWhere, DhPlaces
<1> HIDE DEF x
<1> QED  BY <1>1, <1>3, <1>4, DhMoves

\* getlocalip_boot receives a message: an offer it answers, an acknowledgement
\* it takes its address from, or anything else.
LEMMA DhReceiveKeeps ==
  ASSUME DhInv, NEW p \in Procs, NEW m \in dhair, DhReceive(p, m)
  PROVE  DhInv'
<1>1. /\ dhproc[p].at = "recv" /\ dhproc[p] \in DhWhere /\ dhproc \in [Procs -> DhWhere]
      /\ UNCHANGED <<utslot, clktime, dt_bootvalid, dt_boot, utair>>
      /\ dhslot = p /\ utslot \in Procs \cup {NoProc} /\ dhproc[p].out \in {"discover"} \cup DhServers
      /\ dhproc[p].for = "time" => utslot = p
      /\ m.own => m.who \in DhServers /\ (m.kind = "ack" => m.who \in dhacked)
  BY DEF DhReceive, DhAt, utvars, DhInv, DhTypes, DhHolds, DhWhere, DhSent
<1>2. CASE m.own /\ m.kind = "offer"
  <2>1. DhOffer(p, m) /\ UNCHANGED <<ipvalid, ipucast, dhslot>>
    BY <1>2 DEF DhReceive, DhTakes
  <2>2. CASE dhshape[m.who].sid
    <3>1. DhAgain(p, m.who) /\ DhBroadcast(m.who) /\ m.who \in DhServers
      BY <1>1, <1>2, <2>1, <2>2 DEF DhOffer
    <3>2. /\ dhproc' \in [Procs -> DhWhere] /\ DhHolds'
          /\ \A q \in Procs : dhproc'[q].at = "recv" => dhproc'[q].j < 3
      BY <1>1, <2>1, <3>1, DhAgains
    <3>3. /\ DhSent' /\ DhTimes'
          /\ ipucast' \in DhServers \cup {NoProc} /\ dhacked' \subseteq DhServers /\ dhair' \subseteq DhKinds
      BY <1>1, <2>1, <3>1, DhBroadcasts
    <3> QED  BY <1>1, <2>1, <3>2, <3>3 DEF DhInv, DhTypes
  <2>3. CASE ~dhshape[m.who].sid
    <3>1. dhproc' = [dhproc EXCEPT ![p] = DhUser] /\ UNCHANGED <<dhair, dhacked>>
      BY <2>1, <2>3 DEF DhOffer, DhReturn
    <3>2. /\ dhproc' \in [Procs -> DhWhere] /\ DhHolds'
          /\ \A q \in Procs : dhproc'[q].at = "recv" => dhproc'[q].j < 3
      BY <1>1, <2>1, <3>1, DhUserIs, DhMoves
    <3> QED  BY <1>1, <2>1, <3>1, <3>2, DhSilent DEF DhInv, DhTypes
  <2> QED  BY <2>2, <2>3
<1>3. CASE ~(m.own /\ m.kind = "offer") /\ DhTakes(m)
  <2> DEFINE x == IF dhproc[p].for = "time" THEN [dhproc[p] EXCEPT !.at = "prompt"] ELSE DhUser
  <2>1. /\ ipvalid' = TRUE /\ ipucast' = m.who /\ dhslot' = NoProc /\ DhReturn(p, TRUE)
        /\ UNCHANGED <<dhair, dhacked>>
    BY <1>3 DEF DhReceive
  <2>2. dhproc' = [dhproc EXCEPT ![p] = x]
    BY <1>1, <2>1 DEF DhReturn
  <2>3. /\ x \in DhWhere /\ x.at \in {"prompt", "user"}
        /\ x.at = "prompt" => x.for = "time" /\ dhproc[p].for = "time"
    BY <1>1, DhUserIs DEF DhWhere, DhPlaces
  <2> HIDE DEF x
  <2>4. /\ dhproc' \in [Procs -> DhWhere] /\ DhHolds'
        /\ \A q \in Procs : dhproc'[q].at = "recv" => dhproc'[q].j < 3
    BY <1>1, <2>1, <2>2, <2>3, DhMoves
  <2>5. m.who \in dhacked /\ m.who \in DhServers
    BY <1>1, <1>3 DEF DhTakes
  <2> QED  BY <1>1, <2>1, <2>4, <2>5 DEF DhInv, DhTypes, DhSent, DhTimes
<1>4. CASE ~(m.own /\ m.kind = "offer") /\ ~DhTakes(m)
  <2>1. DhAgain(p, dhproc[p].out) /\ UNCHANGED <<ipvalid, ipucast, dhslot, dhair, dhacked>>
    BY <1>4 DEF DhReceive
  <2>2. /\ dhproc' \in [Procs -> DhWhere] /\ DhHolds'
        /\ \A q \in Procs : dhproc'[q].at = "recv" => dhproc'[q].j < 3
    BY <1>1, <2>1, DhAgains
  <2> QED  BY <1>1, <2>1, <2>2, DhSilent DEF DhInv, DhTypes
<1> QED  BY <1>2, <1>3, <1>4

\* getlocalip_boot waits in vain.
LEMMA DhTimeoutKeeps ==
  ASSUME DhInv, NEW p \in Procs, DhTimeout(p)
  PROVE  DhInv'
<1>1. /\ dhproc[p].at = "recv" /\ DhAgain(p, dhproc[p].out)
      /\ dhproc[p].out \in {"discover"} \cup DhServers
      /\ UNCHANGED <<dhslot, ipvalid, ipucast, dhair, dhacked, utslot, clktime, dt_bootvalid, dt_boot, utair>>
  BY DEF DhTimeout, DhAt, utvars, DhInv, DhTypes, DhWhere
<1>2. /\ dhproc' \in [Procs -> DhWhere] /\ DhHolds'
      /\ \A q \in Procs : dhproc'[q].at = "recv" => dhproc'[q].j < 3
  BY <1>1, DhAgains
<1> QED  BY <1>1, <1>2, DhSilent DEF DhInv, DhTypes

\* getutime asks the time server, and takes its answer or gives up.
LEMMA UtKeeps ==
  ASSUME DhInv, NEW p \in Procs, UtPrompt(p) \/ UtReceive(p)
  PROVE  DhInv'
<1>1. /\ dhproc[p].at \in {"prompt", "time"} /\ dhproc[p] \in DhWhere /\ dhproc \in [Procs -> DhWhere]
      /\ UNCHANGED <<ipvalid, ipucast, dhslot, dhair, dhacked, clktime>>
      /\ dhproc[p].for = "time" /\ utslot = p /\ dhslot \in Procs \cup {NoProc}
  <2>1. dhproc[p].at \in {"prompt", "time"}
    BY DEF UtPrompt, UtReceive, DhAt
  <2> QED  BY <2>1 DEF UtPrompt, UtReceive, DhInv, DhTypes, DhHolds
<1>2. /\ dhproc' \in [Procs -> DhWhere] /\ DhHolds' /\ utslot' \in Procs \cup {NoProc}
      /\ \A q \in Procs : dhproc'[q].at = "recv" => dhproc'[q].j < 3
  <2>1. CASE UtExit(p)
    <3>1. utslot' = NoProc /\ dhproc' = [dhproc EXCEPT ![p] = DhUser]
      BY <2>1 DEF UtExit
    <3> QED  BY <1>1, <3>1, DhUserIs, DhMoves
  <2>2. CASE dhproc' = [dhproc EXCEPT ![p].at = "time"] /\ UNCHANGED utslot
    <3> DEFINE x == [dhproc[p] EXCEPT !.at = "time"]
    <3>1. dhproc' = [dhproc EXCEPT ![p] = x] /\ x \in DhWhere /\ x.at = "time" /\ x.for = "time"
      BY <1>1, <2>2 DEF DhWhere, DhPlaces
    <3> HIDE DEF x
    <3> QED  BY <1>1, <2>2, <3>1, DhMoves
  <2> QED  BY <2>1, <2>2 DEF UtPrompt, UtReceive
<1>3. DhSent'
  BY <1>1 DEF DhInv, DhSent
<1>4. DhTimes'
  <2>1. /\ clktime \in Nat /\ utair \subseteq Int /\ (\A t \in utair : t <= TimeAtBoot + clktime)
        /\ dt_boot \in Int /\ (dt_bootvalid => dt_boot <= TimeAtBoot) /\ TimeAtBoot \in Int
    BY DEF DhInv, DhTimes, TimeAtBoot
  <2>2. CASE UtPrompt(p)
    <3>1. UNCHANGED <<dt_bootvalid, dt_boot>> /\ utair' \subseteq utair \cup {TimeAtBoot + clktime}
      BY <2>2 DEF UtPrompt
    <3>2. TimeAtBoot + clktime \in Int
      BY <2>1
    <3>3. \A t \in utair' : t \in Int /\ t <= TimeAtBoot + clktime
      BY <2>1, <3>1, <3>2
    <3> QED  BY <1>1, <2>1, <3>1, <3>3 DEF DhTimes
  <2>3. CASE UtReceive(p)
    <3>1. UNCHANGED utair
      BY <2>3 DEF UtReceive
    <3>2. CASE UNCHANGED <<dt_bootvalid, dt_boot>>
      BY <1>1, <2>1, <3>1, <3>2 DEF DhTimes
    <3>3. ASSUME NEW now \in utair, dt_boot' = now - clktime  PROVE DhTimes'
      <4>1. dt_boot' \in Int /\ dt_boot' <= TimeAtBoot
        BY <2>1, <3>3
      <4> QED  BY <1>1, <2>1, <3>1, <4>1 DEF DhTimes
    <3> QED  BY <2>3, <3>2, <3>3 DEF UtReceive
  <2> QED  BY <2>2, <2>3
<1> QED  BY <1>1, <1>2, <1>3, <1>4 DEF DhInv, DhTypes

\* The clock goes on.
LEMMA DhTickKeeps ==
  ASSUME DhInv, DhTick
  PROVE  DhInv'
<1>1. /\ clktime' = clktime + 1
      /\ UNCHANGED <<ipvalid, ipucast, dhslot, dhproc, dhair, dhacked, utslot, dt_bootvalid, dt_boot, utair>>
  BY DEF DhTick, dhvars
<1>2. DhTimes'
  <2>1. /\ clktime \in Nat /\ utair \subseteq Int /\ (\A t \in utair : t <= TimeAtBoot + clktime)
        /\ TimeAtBoot \in Int
    BY DEF DhInv, DhTimes, TimeAtBoot
  <2>2. \A t \in utair : t <= TimeAtBoot + (clktime + 1)
    BY <2>1
  <2>3. clktime + 1 \in Nat
    BY <2>1
  <2> QED  BY <1>1, <2>1, <2>2, <2>3 DEF DhInv, DhTimes
<1> QED  BY <1>1, <1>2 DEF DhInv, DhTypes, DhHolds, DhSent

\* At boot there is no address and no time, and answers to other machines'
\* broadcasts may be on the way.
LEMMA DhInitially ==
  DhInit => DhInv
<1> SUFFICES ASSUME DhInit  PROVE DhInv
  OBVIOUS
<1>1. \A p \in Procs : dhproc[p] = DhUser
  BY DEF DhInit
<1>2. /\ dhair \subseteq DhKinds /\ \A m \in dhair : ~m.own
  <2>1. dhair = DhMessages("offer", {Stranger}, FALSE) \cup DhMessages("ack", {Stranger}, FALSE)
    BY DEF DhInit
  <2> QED  BY <2>1, DhMessagesAre
<1>3. dhproc \in [Procs -> DhWhere]
  BY DhUserIs DEF DhInit
<1>4. DhTypes
  BY <1>1, <1>2, <1>3, DhUserIs DEF DhInit, DhTypes
<1>5. DhHolds
  BY <1>1, DhUserIs DEF DhHolds
<1>6. DhSent
  BY <1>2 DEF DhInit, DhSent
<1>7. DhTimes
  BY DEF DhInit, DhTimes
<1> QED  BY <1>4, <1>5, <1>6, <1>7 DEF DhInv

\* Every step of getlocalip and getutime keeps the invariant.
LEMMA DhStep ==
  ASSUME DhInv, [DhNext]_<<dhvars, utvars>>
  PROVE  DhInv'
<1>1. CASE UNCHANGED <<dhvars, utvars>>
  BY <1>1 DEF dhvars, utvars, DhInv, DhTypes, DhHolds, DhSent, DhTimes
<1>2. ASSUME NEW p \in Procs, DhCall(p) \/ UtCall(p)  PROVE DhInv'
  BY <1>2, DhCallsKeep
<1>3. ASSUME NEW p \in Procs, DhRegister(p)  PROVE DhInv'
  BY <1>3, DhRegisterKeeps
<1>4. ASSUME NEW p \in Procs, DhSend(p)  PROVE DhInv'
  BY <1>4, DhSendKeeps
<1>5. ASSUME NEW p \in Procs, DhTimeout(p)  PROVE DhInv'
  BY <1>5, DhTimeoutKeeps
<1>6. ASSUME NEW p \in Procs, NEW m \in dhair, DhReceive(p, m)  PROVE DhInv'
  BY <1>6, DhReceiveKeeps
<1>7. ASSUME NEW p \in Procs, UtPrompt(p) \/ UtReceive(p)  PROVE DhInv'
  BY <1>7, UtKeeps
<1>8. CASE DhTick
  BY <1>8, DhTickKeeps
<1>9. ASSUME NEW p \in Procs, DhLook(p)  PROVE DhInv'
  BY <1>9, DhLookKeeps
<1>10. ASSUME NEW p \in Procs, UtRegister(p)  PROVE DhInv'
  BY <1>10, UtRegisterKeeps
<1> QED  BY <1>1, <1>2, <1>3, <1>4, <1>5, <1>6, <1>7, <1>8, <1>9, <1>10 DEF DhNext, DhRun

\* getlocalip and getutime: with any number of callers, servers and answers
\* that come late or again, the address in use is one that its server has
\* promised, the time is never ahead, and one process has each conversation.
THEOREM DhAnswersAreOwn == DhSpec => []DhPromised
<1>1. DhInv => DhPromised
  BY DEF DhInv, DhHolds, DhSent, DhTimes, DhPromised
<1> QED  BY <1>1, DhInitially, DhStep, PTL DEF DhSpec
=============================================================================
