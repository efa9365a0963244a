---------------------------- MODULE ServiceProofs -----------------------------
(***************************************************************************)
(* Proofs about components above the kernel, for any number of callers,    *)
(* buffers, marks, consumers, table entries and units of memory. Each part *)
(* is on its own: an inductive invariant, a lemma for each operation that  *)
(* says it is kept, and the theorem.                                       *)
(*                                                                         *)
(* Counting semaphores (Semas). A semaphore is sound if its queue is made  *)
(* of callers, each once, as many as its count is below zero. What wait    *)
(* and signal do to a sound semaphore is stated once and used by all the   *)
(* components that have one.                                               *)
(*                                                                         *)
(* Marks. What the semaphore protects is not the test of the table's       *)
(* bound: that comes before the wait. Entries that are still to come are   *)
(* counted with those in the table (MkInv).                                *)
(*                                                                         *)
(* Buffer pools. The length of a free list is what its semaphore has left  *)
(* and what it has granted to callers that have not taken theirs yet;      *)
(* every buffer is in its list, once, or held, once (BpInv).               *)
(*                                                                         *)
(* Futures. In each mode, who can be where in future_set and future_get,   *)
(* and who is remembered by the future itself (FtInv).                     *)
(*                                                                         *)
(* The shell. What the shell has read is a process ID, and process IDs are *)
(* used again. It is recvclr between create and resume that makes the ID   *)
(* safe: from then on the new command's ID can only be put into the        *)
(* mailbox by its own end (ShInv).                                         *)
(*                                                                         *)
(* Free memory. The free list keeps the promise of module Heap. The        *)
(* invariant MemInv says that its blocks are apart, that the held ones are *)
(* disjoint, and that together they are the heap. So an interval of free   *)
(* cells lies in one block of the list (MbFits: a refusal is justified), a *)
(* block that is held overlaps no free one and one that is not does        *)
(* (OverlapsIs), and joining with the neighbours leaves a gap between any  *)
(* two blocks (JoinIs).                                                    *)
(*                                                                         *)
(* The name space. namrepl uses the first entry that fits, and mount only  *)
(* appends, so that a later mount cannot change what a name is mapped to.  *)
(***************************************************************************)
EXTENDS Mark, BufPool, Futures, Shell, Memory, Names, QueueProofs, FiniteSetTheorems

-----------------------------------------------------------------------------
(* Semaphores *)

(* A semaphore whose queue is made of callers, each of them once *)
SemaSound(s) ==
  /\ s = [n |-> s.n, q |-> s.q] /\ s.n \in Int /\ s.q \in Seq(Procs)
  /\ Len(s.q) = IF s.n < 0 THEN -s.n ELSE 0
  /\ \A i, j \in 1 .. Len(s.q) : s.q[i] = s.q[j] => i = j

\* The queue of a sound semaphore is a set of as many processes as its count says:
\* what SemaOK counts (wait.c, signal.c).
LEMMA SoundIsOK ==
  ASSUME NEW s, SemaSound(s)
  PROVE  SemaOK(s) /\ IsFiniteSet(Waiters(s)) /\ Waiters(s) \subseteq Procs
<1> DEFINE f == [i \in 1 .. Len(s.q) |-> s.q[i]]
<1>1. s.q \in Seq(Procs) /\ Len(s.q) \in Nat /\ DOMAIN s.q = 1 .. Len(s.q)
  BY DEF SemaSound
<1>2. f \in Bijection(1 .. Len(s.q), Waiters(s))
  BY <1>1 DEF SemaSound, Waiters, Bijection, Injection, Surjection, IsInjective
<1>3. IsFiniteSet(1 .. Len(s.q)) /\ Cardinality(1 .. Len(s.q)) = Len(s.q)
  BY <1>1, FS_Interval
<1>4. IsFiniteSet(Waiters(s)) /\ Cardinality(Waiters(s)) = Len(s.q)
  BY <1>2, <1>3, FS_Bijection DEF ExistsBijection
<1> QED  BY <1>1, <1>4 DEF SemaSound, SemaOK, Waiters

\* A new semaphore with a count that is not negative has nobody in its queue
\* (semcreate.c).
LEMMA SemaIsSound ==
  ASSUME NEW n \in Nat
  PROVE  SemaSound(Sema(n)) /\ Waiters(Sema(n)) = {} /\ Sema(n).n = n
BY DEF SemaSound, Sema, Waiters

\* Nobody waits exactly if the count is not negative (wait.c, signal.c).
LEMMA NobodyWaits ==
  ASSUME NEW s, SemaSound(s)
  PROVE  Waiters(s) = {} <=> s.n >= 0
<1>1. Len(s.q) \in Nat /\ DOMAIN s.q = 1 .. Len(s.q) /\ (Len(s.q) = 0 <=> s.n >= 0)
  BY DEF SemaSound
<1>2. CASE Len(s.q) = 0
  BY <1>1, <1>2 DEF Waiters
<1>3. CASE Len(s.q) # 0
  <2>1. 1 \in 1 .. Len(s.q)
    BY <1>1, <1>3
  <2> QED  BY <1>1, <1>3, <2>1 DEF Waiters
<1> QED  BY <1>2, <1>3

\* wait: the caller is in the queue behind those who were, or goes on (wait.c).
LEMMA DownIs ==
  ASSUME NEW s, SemaSound(s), NEW p \in Procs, p \notin Waiters(s)
  PROVE  /\ SemaSound(Down(s, p)) /\ Down(s, p).n = s.n - 1
         /\ Waiters(Down(s, p)) = IF Blocks(s) THEN Waiters(s) \cup {p} ELSE Waiters(s)
<1>1. CASE Blocks(s)
  <2>1. /\ Down(s, p).q = Append(s.q, p) /\ Len(Append(s.q, p)) = Len(s.q) + 1
        /\ DOMAIN s.q = 1 .. Len(s.q) /\ DOMAIN Append(s.q, p) = 1 .. Len(s.q) + 1
        /\ \A i \in 1 .. Len(s.q) : Append(s.q, p)[i] = s.q[i]
        /\ Append(s.q, p)[Len(s.q) + 1] = p /\ Len(s.q) \in Nat
    BY <1>1 DEF Down, SemaSound
  <2>2. Waiters(Down(s, p)) = Waiters(s) \cup {p}
    BY <2>1 DEF Waiters
  <2>3. SemaSound(Down(s, p))
    BY <1>1, <2>1 DEF SemaSound, Down, Waiters, Blocks
  <2> QED  BY <1>1, <2>2, <2>3 DEF Down
<1>2. CASE ~Blocks(s)
  BY <1>2 DEF Down, SemaSound, Waiters, Blocks
<1> QED  BY <1>1, <1>2

\* signal: the first of the queue leaves it, if there is one (signal.c).
LEMMA UpIs ==
  ASSUME NEW s, SemaSound(s)
  PROVE  /\ SemaSound(Up(s)) /\ Up(s).n = s.n + 1
         /\ s.n >= 0 => Waiters(Up(s)) = {} /\ Waiters(s) = {}
         /\ s.n < 0 => /\ Head(s.q) \in Waiters(s) /\ Head(s.q) \in Procs
                       /\ Waiters(Up(s)) = Waiters(s) \ {Head(s.q)}
<1>1. CASE s.n < 0
  <2>1. /\ Up(s) = [n |-> s.n + 1, q |-> Tail(s.q)]
        /\ Len(Tail(s.q)) = Len(s.q) - 1 /\ Len(s.q) \in Nat \ {0} /\ Len(s.q) = -s.n
        /\ DOMAIN s.q = 1 .. Len(s.q) /\ DOMAIN Tail(s.q) = 1 .. Len(s.q) - 1
        /\ \A i \in 1 .. Len(s.q) - 1 : Tail(s.q)[i] = s.q[i + 1]
        /\ Head(s.q) = s.q[1] /\ Tail(s.q) \in Seq(Procs) /\ s.n \in Int
        /\ \A i, j \in 1 .. Len(s.q) : s.q[i] = s.q[j] => i = j
    BY <1>1 DEF Up, SemaSound
  <2>2. Head(s.q) \in Waiters(s) /\ Head(s.q) \in Procs
    BY <2>1 DEF Waiters, SemaSound
  <2>3. ASSUME NEW x \in Waiters(s), x # Head(s.q)  PROVE x \in Waiters(Up(s))
    <3>1. PICK i \in 1 .. Len(s.q) : s.q[i] = x
      BY <2>1, <2>3 DEF Waiters
    <3>2. i # 1
      BY <2>1, <2>3, <3>1
    <3>3. i - 1 \in 1 .. Len(s.q) - 1 /\ (i - 1) + 1 = i
      BY <2>1, <3>2
    <3>4. Tail(s.q)[i - 1] = x
      BY <2>1, <3>1, <3>3
    <3>5. i - 1 \in DOMAIN Up(s).q /\ Up(s).q[i - 1] = x
      BY <2>1, <3>3, <3>4
    <3> QED  BY <3>5 DEF Waiters
  <2>4. ASSUME NEW x \in Waiters(Up(s))  PROVE x \in Waiters(s) /\ x # Head(s.q)
    <3>1. PICK i \in 1 .. Len(s.q) - 1 : Tail(s.q)[i] = x
      BY <2>1, <2>4 DEF Waiters
    <3>2. i + 1 \in 1 .. Len(s.q) /\ 1 \in 1 .. Len(s.q) /\ s.q[i + 1] = x /\ i + 1 # 1
      BY <2>1, <3>1
    <3> QED  BY <2>1, <3>2 DEF Waiters
  <2>5. ASSUME NEW i \in 1 .. Len(s.q) - 1, NEW j \in 1 .. Len(s.q) - 1,
               Tail(s.q)[i] = Tail(s.q)[j]
        PROVE  i = j
    <3>1. i + 1 \in 1 .. Len(s.q) /\ j + 1 \in 1 .. Len(s.q) /\ s.q[i + 1] = s.q[j + 1]
      BY <2>1, <2>5
    <3> QED  BY <2>1, <3>1, SMTT(20)
  <2>6. SemaSound(Up(s))
    BY <1>1, <2>1, <2>5 DEF SemaSound
  <2>7. Waiters(Up(s)) = Waiters(s) \ {Head(s.q)}
    BY <2>3, <2>4
  <2>8. Up(s).n = s.n + 1 /\ ~ (s.n >= 0)
    BY <1>1, <2>1
  <2> QED  BY <1>1, <2>2, <2>6, <2>7, <2>8
<1>2. CASE s.n >= 0
  BY <1>2, NobodyWaits DEF Up, SemaSound, Waiters
<1> QED  BY <1>1, <1>2 DEF SemaSound

\* What a semaphore has to give away at once after wait (wait.c).
LEMMA DownAvailable ==
  ASSUME NEW s, SemaSound(s), NEW p
  PROVE  /\ Available(s) \in Nat /\ Available(Down(s, p)) \in Nat
         /\ Blocks(s) => Available(s) = 0 /\ Available(Down(s, p)) = 0
         /\ ~Blocks(s) => Available(s) = Available(Down(s, p)) + 1
BY DEF SemaSound, Down, Available, Blocks

\* What a semaphore has to give away at once after signal (signal.c).
LEMMA UpAvailable ==
  ASSUME NEW s, SemaSound(s)
  PROVE  /\ Available(s) \in Nat /\ Available(Up(s)) \in Nat
         /\ s.n < 0 => Available(s) = 0 /\ Available(Up(s)) = 0
         /\ s.n >= 0 => Available(Up(s)) = Available(s) + 1
BY DEF SemaSound, Up, Available

\* One element more or less in a set of callers, of which there are finitely many.
LEMMA OneMore ==
  ASSUME NEW G, G \subseteq Procs, NEW p \in Procs
  PROVE  /\ IsFiniteSet(G) /\ Cardinality(G) \in Nat
         /\ p \notin G => Cardinality(G \cup {p}) = Cardinality(G) + 1
         /\ p \in G => /\ Cardinality(G \ {p}) = Cardinality(G) - 1 /\ Cardinality(G) > 0
                       /\ Cardinality(G \ {p}) \in Nat
<1>1. IsFiniteSet(G) /\ Cardinality(G) \in Nat
  BY SemasAssumption, FS_Subset, FS_CardinalityType
<1>2. p \notin G => Cardinality(G \cup {p}) = Cardinality(G) + 1
  BY <1>1, FS_AddElement
<1>3. ASSUME p \in G
      PROVE  /\ Cardinality(G \ {p}) = Cardinality(G) - 1 /\ Cardinality(G) > 0
             /\ Cardinality(G \ {p}) \in Nat
  <2>1. IsFiniteSet(G \ {p}) /\ Cardinality(G \ {p}) = Cardinality(G) - 1
    BY <1>1, <1>3, FS_RemoveElement
  <2>2. Cardinality(G \ {p}) \in Nat
    BY <2>1, FS_CardinalityType
  <2> QED  BY <1>1, <2>1, <2>2
<1> QED  BY <1>1, <1>2, <1>3

-----------------------------------------------------------------------------
(* Marks (mark.c) *)

(* Who is behind the wait and before the signal, and who will add an entry *)
MkInside == {p \in Procs \ Waiters(mkmutex) : mkat[p].at \in {"mark", "count", "signal"}}
MkComing == {p \in Procs : mkat[p].at \in {"wait", "mark", "count"}}

MkTypes ==
  /\ marks \in [0 .. MAXMARK + Cardinality(Procs) - 1 -> Locations \cup {"none"}]
  /\ nmarks \in Nat
  /\ index \in [Locations -> -1 .. MAXMARK + Cardinality(Procs) - 1]
  /\ mkat \in [Procs -> [at : {"user", "wait", "mark", "count", "signal"},
                         loc : Locations \cup {"none"}]]
  /\ \A p \in Procs : mkat[p].at # "user" => mkat[p].loc \in Locations

(* The semaphore admits one process at a time *)
MkExclusion ==
  /\ SemaSound(mkmutex) /\ mkmutex.n <= 1
  /\ \A p \in Waiters(mkmutex) : mkat[p].at = "mark"
  /\ mkmutex.n = 1 <=> MkInside = {}
  /\ \A p, r \in MkInside : p = r

(* What a location holds is the index of its entry, but for the location   *)
(* that the process between the two assignments is about                   *)
MkEntries ==
  /\ \A p \in MkInside : mkat[p].at = "count" => index[mkat[p].loc] = nmarks
  /\ \A l \in Locations : \/ index[l] = -1 \/ IsMarked(l)
                          \/ \E p \in MkInside : mkat[p].at = "count" /\ mkat[p].loc = l

MkRoom == nmarks + Cardinality(MkComing) <= MAXMARK + Cardinality(Procs) - 1

MkInv == MkTypes /\ MkExclusion /\ MkEntries /\ MkRoom

\* markinit: no entry, and nobody at the semaphore (mark.c).
LEMMA MkInitially == MkInit => MkInv
<1> SUFFICES ASSUME MkInit  PROVE MkInv
  OBVIOUS
<1>1. Cardinality(Procs) \in Nat /\ MAXMARK \in Nat \ {0}
  BY SemasAssumption, MarkAssumption, FS_CardinalityType
<1>2. /\ SemaSound(mkmutex) /\ Waiters(mkmutex) = {} /\ mkmutex.n = 1
  BY SemaIsSound DEF MkInit
<1>3. MkInside = {} /\ MkComing = {}
  BY DEF MkInit, MkInside, MkComing, MkNone
<1>4. MkTypes
  BY <1>1 DEF MkInit, MkTypes, MkNone
<1>5. MkRoom
  BY <1>1, <1>3, FS_EmptySet DEF MkRoom, MkInit
<1> QED  BY <1>2, <1>3, <1>4, <1>5 DEF MkInv, MkExclusion, MkEntries, MkInit

\* The test before the wait: one caller more is on its way, and the table had room
\* when it looked (mark.c).
LEMMA MkTestKeeps ==
  ASSUME MkInv, NEW p \in Procs, NEW l \in Locations, MkTest(p, l)
  PROVE  MkInv'
<1> USE DEF MkInv
<1>1. /\ mkat[p].at = "user" /\ p \notin Waiters(mkmutex) /\ nmarks < MAXMARK
      /\ mkat' = [mkat EXCEPT ![p] = [at |-> "wait", loc |-> l]]
      /\ marks' = marks /\ nmarks' = nmarks /\ index' = index /\ mkmutex' = mkmutex
  BY DEF MkTest, MkRuns
<1>2. MkTypes'
  BY <1>1 DEF MkTypes
<1>3. /\ mkat'[p] = [at |-> "wait", loc |-> l]
      /\ \A q \in Procs \ {p} : mkat'[q] = mkat[q]
  BY <1>1 DEF MkTypes
<1>4. MkInside' = MkInside /\ p \notin MkInside
  BY <1>1, <1>3 DEF MkInside
<1>5. MkExclusion'
  BY <1>1, <1>3, <1>4 DEF MkExclusion
<1>6. MkEntries'
  <2>1. \A q \in MkInside : mkat'[q] = mkat[q]
    BY <1>3, <1>4 DEF MkInside
  <2> QED  BY <1>1, <1>4, <2>1 DEF MkEntries, IsMarked
<1>7. MkRoom'
  <2>1. MkComing' \in SUBSET Procs
    BY DEF MkComing
  <2>2. Cardinality(MkComing') <= Cardinality(Procs) /\ Cardinality(MkComing') \in Nat
        /\ Cardinality(Procs) \in Nat
    BY <2>1, SemasAssumption, FS_Subset, FS_CardinalityType
  <2> QED  BY <1>1, <2>2, MarkAssumption DEF MkRoom, MkTypes
<1> QED  BY <1>2, <1>5, <1>6, <1>7

\* wait: who is let through found nobody inside (mark.c).
LEMMA MkWaitKeeps ==
  ASSUME MkInv, NEW p \in Procs, MkWait(p)
  PROVE  MkInv'
<1> USE DEF MkInv
<1>1. /\ mkat[p].at = "wait" /\ p \notin Waiters(mkmutex) /\ mkmutex' = Down(mkmutex, p)
      /\ mkat' = [mkat EXCEPT ![p].at = "mark"]
      /\ marks' = marks /\ nmarks' = nmarks /\ index' = index
  BY DEF MkWait, MkRuns, MkGoto
<1>2. MkTypes'
  BY <1>1 DEF MkTypes
<1>3. /\ mkat'[p].at = "mark" /\ \A q \in Procs \ {p} : mkat'[q] = mkat[q]
  BY <1>1 DEF MkTypes
<1>4. MkComing' = MkComing
  BY <1>1, <1>3 DEF MkComing
<1>5. SemaSound(mkmutex) /\ mkmutex.n \in Int /\ (Blocks(mkmutex) <=> mkmutex.n <= 0)
  BY DEF MkExclusion, SemaSound, Blocks
<1>6. /\ SemaSound(mkmutex') /\ mkmutex'.n = mkmutex.n - 1
      /\ Waiters(mkmutex') = IF Blocks(mkmutex) THEN Waiters(mkmutex) \cup {p} ELSE Waiters(mkmutex)
  BY <1>1, <1>5, DownIs
<1>7. p \notin MkInside
  BY <1>1 DEF MkInside
<1>8. MkInside' = IF Blocks(mkmutex) THEN MkInside ELSE MkInside \cup {p}
  BY <1>1, <1>3, <1>6, <1>7 DEF MkInside
<1>9. MkExclusion'
  <2>1. mkmutex.n <= 1 /\ (mkmutex.n = 1 <=> MkInside = {})
    BY DEF MkExclusion
  <2>2. \A q \in Waiters(mkmutex') : mkat'[q].at = "mark"
    BY <1>1, <1>3, <1>6 DEF MkExclusion
  <2>3. mkmutex'.n = 1 <=> MkInside' = {}
    BY <1>5, <1>6, <1>8, <2>1
  <2>4. \A q, r \in MkInside' : q = r
    BY <1>5, <1>8, <2>1 DEF MkExclusion
  <2> QED  BY <1>5, <1>6, <2>1, <2>2, <2>3, <2>4 DEF MkExclusion
<1>10. MkEntries'
  <2>1. \A q \in MkInside' : mkat'[q].at = "count" => q \in MkInside /\ mkat'[q] = mkat[q]
    BY <1>3, <1>8 DEF MkInside
  <2>2. \A q \in MkInside : q \in MkInside' /\ mkat'[q] = mkat[q]
    BY <1>3, <1>7, <1>8 DEF MkInside
  <2> QED  BY <1>1, <2>1, <2>2 DEF MkEntries, IsMarked
<1> QED  BY <1>1, <1>2, <1>4, <1>9, <1>10 DEF MkRoom

\* The index is stored; the entry is not there yet (mark.c).
LEMMA MkCountKeeps ==
  ASSUME MkInv, NEW p \in Procs, MkCount(p)
  PROVE  MkInv'
<1> USE DEF MkInv
<1> DEFINE l == mkat[p].loc
<1>1. /\ mkat[p].at = "mark" /\ p \notin Waiters(mkmutex) /\ mkmutex' = mkmutex
      /\ mkat' = [mkat EXCEPT ![p].at = "count"] /\ index' = [index EXCEPT ![l] = nmarks]
      /\ marks' = marks /\ nmarks' = nmarks
  BY DEF MkCount, MkRuns, MkGoto
<1>2. l \in Locations /\ p \in MkInside /\ p \in MkComing
  BY <1>1 DEF MkTypes, MkInside, MkComing
<1>3. nmarks \in -1 .. MAXMARK + Cardinality(Procs) - 1
  <2>1. Cardinality(MkComing) \in Nat
    BY FS_Subset, FS_CardinalityType, SemasAssumption DEF MkComing
  <2>2. Cardinality(Procs) \in Nat
    BY FS_CardinalityType, SemasAssumption
  <2> QED  BY <2>1, <2>2, MarkAssumption DEF MkRoom, MkTypes
<1>4. MkTypes'
  BY <1>1, <1>2, <1>3 DEF MkTypes
<1>5. /\ mkat'[p].at = "count" /\ mkat'[p].loc = l /\ \A q \in Procs \ {p} : mkat'[q] = mkat[q]
  BY <1>1 DEF MkTypes
<1>6. MkInside' = MkInside /\ MkComing' = MkComing
  BY <1>1, <1>5 DEF MkInside, MkComing
<1>7. MkExclusion'
  BY <1>1, <1>5, <1>6 DEF MkExclusion, MkInside
<1>8. \A q \in MkInside : q = p
  BY <1>2 DEF MkExclusion
<1>9. MkEntries'
  <2>1. index'[l] = nmarks /\ \A k \in Locations \ {l} : index'[k] = index[k]
    BY <1>1, <1>2 DEF MkTypes
  <2>2. \A k \in Locations \ {l} : index[k] = -1 \/ IsMarked(k)
    BY <1>1, <1>8 DEF MkEntries
  <2>3. \A k \in Locations \ {l} : index'[k] = -1 \/ IsMarked(k)'
    BY <1>1, <2>1, <2>2 DEF IsMarked
  <2> QED  BY <1>1, <1>2, <1>5, <1>6, <1>8, <2>1, <2>3 DEF MkEntries
<1> QED  BY <1>1, <1>4, <1>6, <1>7, <1>9 DEF MkRoom

\* The entry is stored where the index says, and there is one caller less on the way
\* (mark.c).
LEMMA MkStoreKeeps ==
  ASSUME MkInv, NEW p \in Procs, MkStore(p)
  PROVE  MkInv'
<1> USE DEF MkInv
<1> DEFINE l == mkat[p].loc
<1>1. /\ mkat[p].at = "count" /\ p \notin Waiters(mkmutex) /\ mkmutex' = mkmutex
      /\ mkat' = [mkat EXCEPT ![p].at = "signal"] /\ index' = index
      /\ marks' = [marks EXCEPT ![nmarks] = l] /\ nmarks' = nmarks + 1 /\ nmarks \in Nat
  BY DEF MkStore, MkRuns, MkGoto, MkTypes
<1>2. l \in Locations /\ p \in MkInside /\ p \in MkComing
  BY <1>1 DEF MkTypes, MkInside, MkComing
<1>3. /\ mkat'[p].at = "signal" /\ \A q \in Procs \ {p} : mkat'[q] = mkat[q]
  BY <1>1 DEF MkTypes
<1>4. MkInside' = MkInside /\ MkComing' = MkComing \ {p}
  BY <1>1, <1>3 DEF MkInside, MkComing
<1>5. MkRoom' /\ nmarks \in 0 .. MAXMARK + Cardinality(Procs) - 1
  <2>1. IsFiniteSet(MkComing)
    BY FS_Subset, SemasAssumption DEF MkComing
  <2>2. Cardinality(MkComing) \in Nat /\ Cardinality(MkComing \ {p}) = Cardinality(MkComing) - 1
        /\ Cardinality(MkComing \ {p}) \in Nat
    BY <1>2, <2>1, FS_RemoveElement, FS_CardinalityType
  <2>3. Cardinality(Procs) \in Nat
    BY FS_CardinalityType, SemasAssumption
  <2> QED  BY <1>1, <1>4, <2>2, <2>3, MarkAssumption DEF MkRoom
<1>6. MkTypes'
  <2>1. marks' \in [0 .. MAXMARK + Cardinality(Procs) - 1 -> Locations \cup {"none"}]
    BY <1>1, <1>2 DEF MkTypes
  <2>2. mkat' \in [Procs -> [at : {"user", "wait", "mark", "count", "signal"},
                            loc : Locations \cup {"none"}]]
    BY <1>1 DEF MkTypes
  <2>3. \A q \in Procs : mkat'[q].at # "user" => mkat'[q].loc \in Locations
    BY <1>1, <1>2 DEF MkTypes
  <2> QED  BY <1>1, <2>1, <2>2, <2>3 DEF MkTypes
<1>7. MkExclusion'
  BY <1>1, <1>3, <1>4 DEF MkExclusion, MkInside
<1>8. \A q \in MkInside : q = p
  BY <1>2 DEF MkExclusion
<1>9. MkEntries'
  <2>1. index[l] = nmarks
    BY <1>1, <1>2 DEF MkEntries
  <2>2. marks'[nmarks] = l /\ \A i \in 0 .. nmarks - 1 : marks'[i] = marks[i]
    BY <1>1, <1>5 DEF MkTypes
  <2>3. IsMarked(l)'
    BY <1>1, <2>1, <2>2 DEF IsMarked
  <2>4. \A k \in Locations : index[k] = -1 \/ IsMarked(k) \/ k = l
    BY <1>8 DEF MkEntries
  <2>5. \A k \in Locations : IsMarked(k) => IsMarked(k)'
    BY <1>1, <2>2 DEF IsMarked
  <2>6. \A q \in MkInside' : mkat'[q].at = "signal"
    BY <1>3, <1>4, <1>8
  <2> QED  BY <1>1, <2>3, <2>4, <2>5, <2>6 DEF MkEntries
<1> QED  BY <1>5, <1>6, <1>7, <1>9

\* signal: the first of the queue is inside instead of the caller (mark.c).
LEMMA MkSignalKeeps ==
  ASSUME MkInv, NEW p \in Procs, MkSignal(p)
  PROVE  MkInv'
<1> USE DEF MkInv
<1> DEFINE h == Head(mkmutex.q)
<1>1. /\ mkat[p].at = "signal" /\ p \notin Waiters(mkmutex) /\ mkmutex' = Up(mkmutex)
      /\ mkat' = [mkat EXCEPT ![p].at = "user"] /\ index' = index
      /\ marks' = marks /\ nmarks' = nmarks
  BY DEF MkSignal, MkRuns, MkGoto
<1>2. MkTypes'
  BY <1>1 DEF MkTypes
<1>3. /\ mkat'[p].at = "user" /\ \A q \in Procs \ {p} : mkat'[q] = mkat[q]
  BY <1>1 DEF MkTypes
<1>4. MkComing' = MkComing
  BY <1>1, <1>3 DEF MkComing
<1>5. SemaSound(mkmutex) /\ mkmutex.n \in Int
  BY DEF MkExclusion, SemaSound
<1>6. /\ SemaSound(mkmutex') /\ mkmutex'.n = mkmutex.n + 1
      /\ mkmutex.n >= 0 => Waiters(mkmutex') = {} /\ Waiters(mkmutex) = {}
      /\ mkmutex.n < 0 => /\ h \in Waiters(mkmutex) /\ h \in Procs
                          /\ Waiters(mkmutex') = Waiters(mkmutex) \ {h}
  BY <1>1, <1>5, UpIs
<1>7. p \in MkInside /\ \A q \in MkInside : q = p
  BY <1>1 DEF MkInside, MkExclusion
<1>8. mkmutex.n <= 0
  BY <1>5, <1>7 DEF MkExclusion
<1>9. MkInside' = IF mkmutex.n < 0 THEN {h} ELSE {}
  BY <1>1, <1>3, <1>5, <1>6, <1>7, <1>8 DEF MkInside, MkExclusion
<1>10. MkExclusion'
  BY <1>1, <1>3, <1>5, <1>6, <1>8, <1>9 DEF MkExclusion
<1>11. MkEntries'
  <2>1. \A q \in MkInside' : mkat'[q].at = "mark"
    BY <1>1, <1>3, <1>6, <1>9 DEF MkExclusion
  <2>2. \A k \in Locations : index[k] = -1 \/ IsMarked(k)
    BY <1>1, <1>7 DEF MkEntries
  <2> QED  BY <1>1, <2>1, <2>2 DEF MkEntries, IsMarked
<1> QED  BY <1>1, <1>2, <1>4, <1>10, <1>11 DEF MkRoom

\* Every location that was ever marked is found marked while nobody is between wait and
\* signal, and the table, whose bound is tested before the wait, is passed by at most
\* one entry for every caller but one, for any number of callers and entries (mark.c).
THEOREM WhatIsMarkedStays == MkSpec => []MkMarksStay
<1>1. MkInv /\ [MkNext]_mkvars => MkInv'
  <2> SUFFICES ASSUME MkInv, [MkNext]_mkvars  PROVE MkInv'
    OBVIOUS
  <2>1. CASE UNCHANGED mkvars
    BY <2>1 DEF mkvars, MkInv, MkTypes, MkExclusion, MkEntries, MkRoom, MkInside, MkComing, IsMarked
  <2> QED  BY <2>1, MkTestKeeps, MkWaitKeeps, MkCountKeeps, MkStoreKeeps, MkSignalKeeps DEF MkNext
<1>2. MkInv => MkMarksStay
  <2> SUFFICES ASSUME MkInv  PROVE MkMarksStay
    OBVIOUS
  <2>1. mkmutex.n = 1 => \A l \in Locations : index[l] # -1 => IsMarked(l)
    BY DEF MkInv, MkExclusion, MkEntries
  <2>2. Cardinality(MkComing) \in Nat /\ Cardinality(Procs) \in Nat
    BY FS_Subset, FS_CardinalityType, SemasAssumption DEF MkComing
  <2>3. nmarks <= MAXMARK + Cardinality(Procs) - 1
    BY <2>2, MarkAssumption DEF MkInv, MkRoom, MkTypes
  <2> QED  BY <2>1, <2>3 DEF MkMarksStay
<1> QED  BY <1>1, <1>2, MkInitially, PTL DEF MkSpec

-----------------------------------------------------------------------------
(* Buffer pools (mkbufpool.c, getbuf.c, freebuf.c) *)

BpPool == [free : Seq(Nat), sem : [n : Int, q : Seq(Procs)], all : SUBSET Nat]

BpTypes ==
  /\ buftab \in Seq(BpPool) /\ bpmem \in Nat
  /\ bpat \in [Procs -> 0 .. Len(buftab)]
  /\ bphas \in [Procs -> SUBSET [buf : Nat, id : 1 .. Len(buftab)]]

(* Who was let through by the semaphore of pool i and has no buffer yet *)
BpGranted(i) == {p \in Procs \ Waiters(buftab[i].sem) : bpat[p] = i}

(* Whoever waits for a pool has called getbuf of that pool; the length of  *)
(* a list is what its semaphore has left and what it has granted.          *)
BpCounted(i) ==
  /\ SemaSound(buftab[i].sem)
  /\ \A p \in Waiters(buftab[i].sem) : bpat[p] = i
  /\ Len(buftab[i].free) = Available(buftab[i].sem) + Cardinality(BpGranted(i))

BpHolds(p, i, x) == [buf |-> x, id |-> i] \in bphas[p]
BpOut(i) == {x \in Nat : \E p \in Procs : BpHolds(p, i, x)}

(* No buffer is twice in a list, and a buffer of the pool is in its list   *)
(* exactly if nobody holds it.                                             *)
BpOnce(q) == \A j, k \in DOMAIN q : q[j] = q[k] => j = k
BpOwned(i) ==
  /\ BpOnce(buftab[i].free)
  /\ Range(buftab[i].free) \cap BpOut(i) = {}
  /\ Range(buftab[i].free) \cup BpOut(i) = buftab[i].all

BpOneHolder == \A p, r \in Procs : p # r => bphas[p] \cap bphas[r] = {}

BpInv == /\ BpTypes /\ BpOneHolder
         /\ \A i \in 1 .. Len(buftab) : BpCounted(i) /\ BpOwned(i)

\* A pool keeps its account when its entry, its callers and what is handed out of it are
\* the same (getbuf.c, freebuf.c).
LEMMA PoolUntouched ==
  ASSUME NEW j, BpCounted(j), BpOwned(j), buftab'[j] = buftab[j],
         \A p \in Procs : bpat'[p] = j <=> bpat[p] = j, BpOut(j)' = BpOut(j),
         SemaSound(buftab[j].sem)
  PROVE  BpCounted(j)' /\ BpOwned(j)'
<1>1. Waiters(buftab[j].sem) \subseteq Procs
  BY SoundIsOK
<1>2. BpGranted(j)' = BpGranted(j)
  BY DEF BpGranted
<1>3. BpCounted(j)'
  BY <1>1, <1>2 DEF BpCounted
<1>4. BpOwned(j)'
  BY DEF BpOwned
<1> QED  BY <1>3, <1>4

\* The table when the entry of one pool changes.
LEMMA PoolChanges ==
  ASSUME buftab \in Seq(BpPool), NEW i \in 1 .. Len(buftab), NEW e \in BpPool,
         buftab' = [buftab EXCEPT ![i] = e]
  PROVE  /\ buftab' \in Seq(BpPool) /\ Len(buftab') = Len(buftab)
         /\ buftab'[i] = e /\ \A j \in 1 .. Len(buftab) : j # i => buftab'[j] = buftab[j]
OBVIOUS

\* The first buffer of a list is in no other place of it (getbuf.c).
LEMMA FirstOfList ==
  ASSUME NEW q \in Seq(Nat), q # <<>>, BpOnce(q)
  PROVE  /\ Head(q) \in Nat /\ Tail(q) \in Seq(Nat) /\ Len(Tail(q)) = Len(q) - 1
         /\ BpOnce(Tail(q)) /\ Head(q) \in Range(q) /\ Range(Tail(q)) = Range(q) \ {Head(q)}
<1>1. /\ Head(q) = q[1] /\ 1 \in DOMAIN q /\ DOMAIN q = 1 .. Len(q) /\ Len(q) \in Nat
      /\ Tail(q) \in Seq(Nat) /\ Len(Tail(q)) = Len(q) - 1 /\ DOMAIN Tail(q) = 1 .. Len(q) - 1
      /\ \A k \in 1 .. Len(q) - 1 : Tail(q)[k] = q[k + 1]
  OBVIOUS
<1>2. ASSUME NEW x \in Range(q), x # Head(q)  PROVE x \in Range(Tail(q))
  <2>1. PICK k \in 1 .. Len(q) : q[k] = x
    BY <1>1, <1>2 DEF Range
  <2>2. k # 1
    BY <1>1, <1>2, <2>1
  <2>3. k - 1 \in 1 .. Len(q) - 1 /\ (k - 1) + 1 = k
    BY <1>1, <2>2
  <2>4. k - 1 \in DOMAIN Tail(q) /\ Tail(q)[k - 1] = x
    BY <1>1, <2>1, <2>3
  <2> QED  BY <2>4 DEF Range
<1>3. ASSUME NEW x \in Range(Tail(q))  PROVE x \in Range(q) /\ x # Head(q)
  <2>1. PICK k \in 1 .. Len(q) - 1 : Tail(q)[k] = x
    BY <1>1, <1>3 DEF Range
  <2>2. k + 1 \in DOMAIN q /\ q[k + 1] = x /\ k + 1 # 1
    BY <1>1, <2>1
  <2> QED  BY <1>1, <2>2 DEF Range, BpOnce
<1>4. BpOnce(Tail(q))
  <2> SUFFICES ASSUME NEW j \in 1 .. Len(q) - 1, NEW k \in 1 .. Len(q) - 1, Tail(q)[j] = Tail(q)[k]
               PROVE  j = k
    BY <1>1 DEF BpOnce
  <2>1. j + 1 \in DOMAIN q /\ k + 1 \in DOMAIN q /\ q[j + 1] = q[k + 1]
    BY <1>1
  <2> QED  BY <2>1 DEF BpOnce
<1>5. Head(q) \in Range(q) /\ Head(q) \in Nat
  BY <1>1 DEF Range
<1>6. Range(Tail(q)) = Range(q) \ {Head(q)}
  BY <1>2, <1>3
<1> QED  BY <1>1, <1>4, <1>5, <1>6

\* A buffer in front of a list it is not in (freebuf.c).
LEMMA InFrontOfList ==
  ASSUME NEW q \in Seq(Nat), NEW x \in Nat, x \notin Range(q), BpOnce(q)
  PROVE  /\ <<x>> \o q \in Seq(Nat) /\ Len(<<x>> \o q) = Len(q) + 1 /\ BpOnce(<<x>> \o q)
         /\ Range(<<x>> \o q) = Range(q) \cup {x}
<1> DEFINE r == <<x>> \o q
<1>1. /\ r \in Seq(Nat) /\ Len(r) = Len(q) + 1 /\ DOMAIN r = 1 .. Len(q) + 1
      /\ DOMAIN q = 1 .. Len(q) /\ Len(q) \in Nat /\ r[1] = x
      /\ \A k \in 2 .. Len(q) + 1 : r[k] = q[k - 1]
  OBVIOUS
<1>2. \A k \in DOMAIN q : q[k] # x
  BY DEF Range
<1>3. \A k \in DOMAIN q : k + 1 \in DOMAIN r /\ r[k + 1] = q[k]
  <2> TAKE k \in DOMAIN q
  <2>1. k + 1 \in 2 .. Len(q) + 1 /\ (k + 1) - 1 = k
    BY <1>1
  <2> QED  BY <1>1, <2>1
<1>4. \A k \in DOMAIN r : k = 1 \/ (k - 1 \in DOMAIN q /\ r[k] = q[k - 1])
  <2> TAKE k \in DOMAIN r
  <2>1. k = 1 \/ (k \in 2 .. Len(q) + 1 /\ k - 1 \in DOMAIN q)
    BY <1>1
  <2> QED  BY <1>1, <2>1
<1> HIDE DEF r
<1>5. Range(r) = Range(q) \cup {x}
  <2>1. ASSUME NEW y \in Range(q)  PROVE y \in Range(r)
    BY <1>3, <2>1 DEF Range
  <2>2. x \in Range(r)
    BY <1>1 DEF Range
  <2>3. ASSUME NEW y \in Range(r), y # x  PROVE y \in Range(q)
    <3>1. PICK k \in DOMAIN r : r[k] = y
      BY <2>3 DEF Range
    <3>2. k - 1 \in DOMAIN q /\ r[k] = q[k - 1]
      BY <1>1, <1>4, <2>3, <3>1
    <3> QED  BY <3>1, <3>2 DEF Range
  <2> QED  BY <2>1, <2>2, <2>3
<1>6. BpOnce(r)
  <2> SUFFICES ASSUME NEW j \in DOMAIN r, NEW k \in DOMAIN r, r[j] = r[k]
               PROVE  j = k
    BY DEF BpOnce
  <2>1. CASE j = 1
    BY <1>1, <1>2, <1>4, <2>1
  <2>2. CASE k = 1
    BY <1>1, <1>2, <1>4, <2>2
  <2>3. CASE j # 1 /\ k # 1
    <3>1. j - 1 \in DOMAIN q /\ k - 1 \in DOMAIN q /\ q[j - 1] = q[k - 1]
      BY <1>4, <2>3
    <3>2. j - 1 = k - 1
      BY <3>1 DEF BpOnce
    <3> QED  BY <1>1, <3>2
  <2> QED  BY <2>1, <2>2, <2>3
<1> QED  BY <1>1, <1>5, <1>6 DEF r

\* getbuf behind its wait: the list is not empty, and its first buffer goes to the caller,
\* who had none of this name (getbuf.c).
LEMMA BpTakeKeeps ==
  ASSUME BpInv, NEW p \in Procs, NEW i \in 1 .. Len(buftab), NEW e \in BpPool,
         e.free = buftab[i].free, e.all = buftab[i].all, SemaSound(e.sem),
         Waiters(e.sem) = Waiters(buftab[i].sem), p \notin Waiters(buftab[i].sem),
         bpat[p] \in {0, i},
         Len(e.free) = Available(e.sem) + Cardinality(BpGranted(i) \ {p}) + 1,
         BpTake(p, i, e), bpmem' = bpmem
  PROVE  BpInv'
<1> USE DEF BpInv
<1> DEFINE x == Head(e.free)
           b == [buf |-> x, id |-> i]
<1>1. /\ e = [free |-> e.free, sem |-> e.sem, all |-> e.all] /\ e.free \in Seq(Nat)
      /\ e.sem \in [n : Int, q : Seq(Procs)] /\ e.all \in SUBSET Nat
      /\ buftab \in Seq(BpPool) /\ BpCounted(i) /\ BpOwned(i)
  BY DEF BpPool, BpTypes
<1>2. BpGranted(i) \ {p} \subseteq Procs /\ Cardinality(BpGranted(i) \ {p}) \in Nat
  BY OneMore DEF BpGranted
<1>3. Available(e.sem) \in Nat
  BY DownAvailable
<1>4. e.free # <<>> /\ BpOnce(e.free)
  BY <1>1, <1>2, <1>3 DEF BpOwned
<1>5. /\ x \in Nat /\ Tail(e.free) \in Seq(Nat) /\ Len(Tail(e.free)) = Len(e.free) - 1
      /\ BpOnce(Tail(e.free)) /\ x \in Range(e.free) /\ Range(Tail(e.free)) = Range(e.free) \ {x}
  BY <1>1, <1>4, FirstOfList
<1> DEFINE new == [e EXCEPT !.free = Tail(@)]
<1>6. new \in BpPool /\ new.free = Tail(e.free) /\ new.sem = e.sem /\ new.all = e.all
  BY <1>1, <1>5 DEF BpPool
<1>7. /\ buftab' = [buftab EXCEPT ![i] = new] /\ bpat' = [bpat EXCEPT ![p] = 0]
      /\ bphas' = [bphas EXCEPT ![p] = @ \cup {b}]
  BY DEF BpTake
<1> HIDE DEF new
<1>8. /\ buftab' \in Seq(BpPool) /\ Len(buftab') = Len(buftab)
      /\ buftab'[i] = new /\ \A j \in 1 .. Len(buftab) : j # i => buftab'[j] = buftab[j]
  BY <1>1, <1>6, <1>7, PoolChanges
<1>9. bpat'[p] = 0 /\ \A q \in Procs : q # p => bpat'[q] = bpat[q]
  BY <1>7 DEF BpTypes
<1>10. /\ bphas'[p] = bphas[p] \cup {b} /\ \A q \in Procs : q # p => bphas'[q] = bphas[q]
  BY <1>7 DEF BpTypes
<1>11. BpTypes'
  <2>1. b \in [buf : Nat, id : 1 .. Len(buftab)] /\ 0 \in 0 .. Len(buftab)
    BY <1>1, <1>5
  <2>2. bphas' \in [Procs -> SUBSET [buf : Nat, id : 1 .. Len(buftab)]]
    BY <1>7, <2>1 DEF BpTypes
  <2> QED  BY <1>7, <1>8, <2>1, <2>2 DEF BpTypes
<1>12. \A q \in Procs : b \notin bphas[q]
  BY <1>1, <1>5 DEF BpOwned, BpOut, BpHolds
<1>13. BpOneHolder'
  BY <1>10, <1>12 DEF BpOneHolder
<1>14. BpOut(i)' = BpOut(i) \cup {x}
  BY <1>5, <1>10, SMTT(20) DEF BpOut, BpHolds
<1>15. \A j \in 1 .. Len(buftab) : j # i => BpOut(j)' = BpOut(j)
  BY <1>10 DEF BpOut, BpHolds
<1>16. BpOwned(i)'
  BY <1>1, <1>5, <1>6, <1>8, <1>14 DEF BpOwned
<1>17. BpGranted(i)' = BpGranted(i) \ {p}
  BY <1>6, <1>8, <1>9 DEF BpGranted
<1>18. BpCounted(i)'
  <2>1. \A q \in Waiters(e.sem) : bpat'[q] = i
    BY <1>1, <1>9, SoundIsOK DEF BpCounted
  <2>2. buftab'[i].sem = e.sem /\ Len(buftab'[i].free) = Len(e.free) - 1
    BY <1>5, <1>6, <1>8
  <2>3. Len(buftab'[i].free) = Available(e.sem) + Cardinality(BpGranted(i) \ {p})
    BY <1>2, <1>3, <2>2
  <2> QED  BY <1>17, <2>1, <2>2, <2>3 DEF BpCounted
<1>19. ASSUME NEW j \in 1 .. Len(buftab), j # i  PROVE BpCounted(j)' /\ BpOwned(j)'
  <2>1. BpCounted(j) /\ BpOwned(j) /\ SemaSound(buftab[j].sem)
    BY DEF BpCounted
  <2>2. \A q \in Procs : bpat'[q] = j <=> bpat[q] = j
    BY <1>9, <1>19
  <2> QED  BY <1>8, <1>15, <1>19, <2>1, <2>2, PoolUntouched
<1> QED  BY <1>8, <1>11, <1>13, <1>16, <1>18, <1>19

\* getbuf waits, or takes a buffer at once (getbuf.c).
LEMMA GetbufKeeps ==
  ASSUME BpInv, NEW p \in Procs, NEW i \in DOMAIN buftab, Getbuf(p, i)
  PROVE  BpInv'
<1> USE DEF BpInv
<1> DEFINE s == buftab[i].sem
           e == [buftab[i] EXCEPT !.sem = Down(@, p)]
<1>1. /\ buftab \in Seq(BpPool) /\ i \in 1 .. Len(buftab) /\ buftab[i] \in BpPool
      /\ bpat[p] = 0 /\ bpmem' = bpmem
  BY DEF BpTypes, Getbuf, BpInUser
<1>2. BpCounted(i) /\ BpOwned(i) /\ SemaSound(s)
  BY <1>1 DEF BpCounted
<1>3. p \notin Waiters(s) /\ p \notin BpGranted(i)
  BY <1>1, <1>2 DEF BpCounted, BpGranted
<1>4. /\ SemaSound(Down(s, p))
      /\ Waiters(Down(s, p)) = IF Blocks(s) THEN Waiters(s) \cup {p} ELSE Waiters(s)
  BY <1>2, <1>3, DownIs
<1>5. /\ e \in BpPool /\ e.free = buftab[i].free /\ e.all = buftab[i].all /\ e.sem = Down(s, p)
  <2>1. Down(s, p) \in [n : Int, q : Seq(Procs)]
    BY <1>4 DEF SemaSound
  <2> QED  BY <1>1, <2>1 DEF BpPool
<1>6. /\ Available(s) \in Nat /\ Available(Down(s, p)) \in Nat
      /\ Blocks(s) => Available(s) = 0 /\ Available(Down(s, p)) = 0
      /\ ~Blocks(s) => Available(s) = Available(Down(s, p)) + 1
  BY <1>2, DownAvailable
<1>7. BpGranted(i) \subseteq Procs /\ Cardinality(BpGranted(i)) \in Nat
  BY <1>1, OneMore DEF BpGranted
<1> HIDE DEF e
<1>8. CASE ~Blocks(s)
  <2>1. BpTake(p, i, e)
    BY <1>8 DEF Getbuf, e
  <2>2. BpGranted(i) \ {p} = BpGranted(i)
    BY <1>3
  <2>3. Len(e.free) = Available(e.sem) + Cardinality(BpGranted(i) \ {p}) + 1
    <3>1. Len(e.free) = Available(s) + Cardinality(BpGranted(i))
      BY <1>2, <1>5 DEF BpCounted
    <3>2. e.sem = Down(s, p) /\ Available(s) = Available(Down(s, p)) + 1
      BY <1>5, <1>6, <1>8
    <3>3. Available(e.sem) = Available(Down(s, p))
      BY <3>2
    <3>4. Cardinality(BpGranted(i) \ {p}) = Cardinality(BpGranted(i))
      BY <2>2
    <3> HIDE DEF s
    <3> QED  BY <1>6, <1>7, <3>1, <3>2, <3>3, <3>4
  <2> QED  BY <1>1, <1>3, <1>4, <1>5, <1>8, <2>1, <2>3, BpTakeKeeps
<1>9. CASE Blocks(s)
  <2>1. buftab' = [buftab EXCEPT ![i] = e] /\ bpat' = [bpat EXCEPT ![p] = i] /\ bphas' = bphas
    BY <1>9 DEF Getbuf, e
  <2>2. /\ buftab' \in Seq(BpPool) /\ Len(buftab') = Len(buftab)
        /\ buftab'[i] = e /\ \A j \in 1 .. Len(buftab) : j # i => buftab'[j] = buftab[j]
    BY <1>1, <1>5, <2>1, PoolChanges
  <2>3. bpat'[p] = i /\ \A q \in Procs : q # p => bpat'[q] = bpat[q]
    BY <2>1 DEF BpTypes
  <2>4. BpTypes' /\ BpOneHolder'
    BY <1>1, <2>1, <2>2 DEF BpTypes, BpOneHolder
  <2>5. \A j \in 1 .. Len(buftab) : BpOut(j)' = BpOut(j)
    BY <2>1 DEF BpOut, BpHolds
  <2>6. BpOwned(i)'
    BY <1>1, <1>2, <1>5, <2>2, <2>5 DEF BpOwned
  <2>7. BpGranted(i)' = BpGranted(i)
    BY <1>1, <1>4, <1>5, <1>9, <2>2, <2>3 DEF BpGranted
  <2>8. \A q \in Waiters(Down(s, p)) : bpat'[q] = i
    BY <1>2, <1>4, <1>9, <2>3, SoundIsOK DEF BpCounted
  <2>9. BpCounted(i)'
    BY <1>2, <1>4, <1>5, <1>6, <1>9, <2>2, <2>7, <2>8 DEF BpCounted
  <2>10. ASSUME NEW j \in 1 .. Len(buftab), j # i  PROVE BpCounted(j)' /\ BpOwned(j)'
    <3>1. BpCounted(j) /\ BpOwned(j) /\ SemaSound(buftab[j].sem)
      BY DEF BpCounted
    <3>2. \A q \in Procs : bpat'[q] = j <=> bpat[q] = j
      BY <1>1, <2>3, <2>10
    <3> QED  BY <2>2, <2>5, <2>10, <3>1, <3>2, PoolUntouched
  <2> QED  BY <2>2, <2>4, <2>6, <2>9, <2>10
<1> QED  BY <1>8, <1>9

\* A process that was let through takes its buffer (getbuf.c).
LEMMA GetbufResumeKeeps ==
  ASSUME BpInv, NEW p \in Procs, GetbufResume(p)
  PROVE  BpInv'
<1> USE DEF BpInv
<1> DEFINE i == bpat[p]
<1>1. /\ buftab \in Seq(BpPool) /\ i \in 1 .. Len(buftab) /\ buftab[i] \in BpPool
      /\ BpTake(p, i, buftab[i]) /\ bpmem' = bpmem /\ DOMAIN buftab = 1 .. Len(buftab)
  BY DEF BpTypes, GetbufResume
<1>2. BpCounted(i) /\ SemaSound(buftab[i].sem) /\ p \notin Waiters(buftab[i].sem)
  BY <1>1 DEF BpCounted, GetbufResume, BpBlocked
<1>3. p \in BpGranted(i) /\ BpGranted(i) \subseteq Procs
  BY <1>2 DEF BpGranted
<1>4. Cardinality(BpGranted(i)) \in Nat /\ Cardinality(BpGranted(i) \ {p}) = Cardinality(BpGranted(i)) - 1
  BY <1>3, OneMore
<1>5. Available(buftab[i].sem) \in Nat
  BY <1>2, DownAvailable
<1>6. Len(buftab[i].free) = Available(buftab[i].sem) + Cardinality(BpGranted(i) \ {p}) + 1
  BY <1>2, <1>4, <1>5 DEF BpCounted
<1> QED  BY <1>1, <1>2, <1>6, BpTakeKeeps

\* freebuf: the buffer is back in the list of the pool it names, and the first who waits is
\* let through (freebuf.c).
LEMMA FreebufKeeps ==
  ASSUME BpInv, NEW p \in Procs, NEW b \in bphas[p], Freebuf(p, b)
  PROVE  BpInv'
<1> DEFINE i == b.id
           x == b.buf
           s == buftab[i].sem
           h == Head(s.q)
           new == [buftab[i] EXCEPT !.free = <<x>> \o @, !.sem = Up(@)]
<1>1. /\ buftab \in Seq(BpPool) /\ i \in 1 .. Len(buftab) /\ x \in Nat
      /\ b = [buf |-> x, id |-> i] /\ buftab[i] \in BpPool /\ BpTypes /\ BpOneHolder
  BY DEF BpInv, BpTypes
<1>2. /\ buftab[i] = [free |-> buftab[i].free, sem |-> s, all |-> buftab[i].all]
      /\ buftab[i].free \in Seq(Nat) /\ buftab[i].all \in SUBSET Nat
  BY <1>1 DEF BpPool
<1>3. BpCounted(i) /\ BpOwned(i) /\ SemaSound(s)
  BY <1>1 DEF BpInv, BpCounted
<1>4. /\ SemaSound(Up(s)) /\ s.n \in Int
      /\ s.n >= 0 => Waiters(Up(s)) = {} /\ Waiters(s) = {}
      /\ s.n < 0 => /\ h \in Waiters(s) /\ h \in Procs
                    /\ Waiters(Up(s)) = Waiters(s) \ {h}
  BY <1>3, UpIs DEF SemaSound
<1>5. /\ Available(s) \in Nat /\ Available(Up(s)) \in Nat
      /\ s.n < 0 => Available(s) = 0 /\ Available(Up(s)) = 0
      /\ s.n >= 0 => Available(Up(s)) = Available(s) + 1
  BY <1>3, UpAvailable
<1>6. x \in BpOut(i) /\ x \notin Range(buftab[i].free)
  BY <1>1, <1>3 DEF BpOwned, BpOut, BpHolds
<1>7. /\ <<x>> \o buftab[i].free \in Seq(Nat)
      /\ Len(<<x>> \o buftab[i].free) = Len(buftab[i].free) + 1
      /\ BpOnce(<<x>> \o buftab[i].free)
      /\ Range(<<x>> \o buftab[i].free) = Range(buftab[i].free) \cup {x}
  BY <1>1, <1>2, <1>3, <1>6, InFrontOfList DEF BpOwned
<1>8. /\ new \in BpPool /\ new.free = <<x>> \o buftab[i].free /\ new.sem = Up(s)
      /\ new.all = buftab[i].all
  <2>1. Up(s) \in [n : Int, q : Seq(Procs)]
    BY <1>4 DEF SemaSound
  <2> QED  BY <1>2, <1>7, <2>1 DEF BpPool
<1>9. /\ buftab' = [buftab EXCEPT ![i] = new] /\ bpat' = bpat /\ bpmem' = bpmem
      /\ bphas' = [bphas EXCEPT ![p] = @ \ {b}]
  BY DEF Freebuf
<1> HIDE DEF new
<1>10. /\ buftab' \in Seq(BpPool) /\ Len(buftab') = Len(buftab)
       /\ buftab'[i] = new /\ \A j \in 1 .. Len(buftab) : j # i => buftab'[j] = buftab[j]
  BY <1>1, <1>8, <1>9, PoolChanges
<1>11. bphas'[p] = bphas[p] \ {b} /\ \A q \in Procs : q # p => bphas'[q] = bphas[q]
  BY <1>1, <1>9 DEF BpTypes
<1>12. BpTypes' /\ BpOneHolder'
  <2>1. BpTypes'
    BY <1>1, <1>9, <1>10 DEF BpTypes
  <2> QED  BY <1>1, <1>11, <2>1 DEF BpOneHolder
<1>13. BpOut(i)' = BpOut(i) \ {x}
  <2>1. \A q \in Procs : q # p => b \notin bphas[q]
    BY <1>1 DEF BpOneHolder
  <2> QED  BY <1>1, <1>11, <2>1 DEF BpOut, BpHolds
<1>14. \A j \in 1 .. Len(buftab) : j # i => BpOut(j)' = BpOut(j)
  BY <1>1, <1>11 DEF BpOut, BpHolds
<1>15. BpOwned(i)'
  <2>1. buftab'[i].free = <<x>> \o buftab[i].free /\ buftab'[i].all = buftab[i].all
    BY <1>8, <1>10
  <2>2. Range(buftab'[i].free) = Range(buftab[i].free) \cup {x} /\ BpOnce(buftab'[i].free)
    BY <1>7, <2>1
  <2> QED  BY <1>3, <1>6, <1>13, <2>1, <2>2 DEF BpOwned
<1>16. BpCounted(i)'
  <2>1. \A q \in Waiters(Up(s)) : bpat'[q] = i
    BY <1>3, <1>4, <1>9 DEF BpCounted
  <2>2. BpGranted(i) \subseteq Procs /\ Cardinality(BpGranted(i)) \in Nat
    BY OneMore DEF BpGranted
  <2>3. CASE s.n >= 0
    <3>1. BpGranted(i)' = BpGranted(i)
      BY <1>4, <1>8, <1>9, <1>10, <2>3 DEF BpGranted
    <3> QED  BY <1>3, <1>4, <1>5, <1>7, <1>8, <1>10, <2>1, <2>2, <2>3, <3>1 DEF BpCounted
  <2>4. CASE s.n < 0
    <3>1. h \notin BpGranted(i) /\ BpGranted(i)' = BpGranted(i) \cup {h}
      BY <1>3, <1>4, <1>8, <1>9, <1>10, <2>4 DEF BpGranted, BpCounted
    <3>2. Cardinality(BpGranted(i) \cup {h}) = Cardinality(BpGranted(i)) + 1
      BY <1>4, <2>2, <2>4, <3>1, OneMore
    <3>3. Len(buftab[i].free) = Cardinality(BpGranted(i)) /\ Len(buftab[i].free) \in Nat
      BY <1>2, <1>3, <1>5, <2>2, <2>4 DEF BpCounted
    <3>4. buftab'[i].sem = Up(s) /\ Len(buftab'[i].free) = Len(buftab[i].free) + 1
      BY <1>7, <1>8, <1>10
    <3>5. Len(buftab'[i].free) = Available(Up(s)) + Cardinality(BpGranted(i)')
      BY <1>5, <2>2, <2>4, <3>1, <3>2, <3>3, <3>4
    <3> QED  BY <1>4, <2>1, <3>4, <3>5 DEF BpCounted
  <2> QED  BY <1>4, <2>3, <2>4
<1>17. ASSUME NEW j \in 1 .. Len(buftab), j # i  PROVE BpCounted(j)' /\ BpOwned(j)'
  <2>1. BpCounted(j) /\ BpOwned(j) /\ SemaSound(buftab[j].sem)
    BY DEF BpInv, BpCounted
  <2> QED  BY <1>9, <1>10, <1>14, <1>17, <2>1, PoolUntouched
<1> QED  BY <1>10, <1>12, <1>15, <1>16, <1>17 DEF BpInv

\* A buffer is passed on: it is still with one holder (a packet buffer in net.c, say).
LEMMA BpPassKeeps ==
  ASSUME BpInv, NEW p \in Procs, NEW r \in Procs, NEW b \in bphas[p], BpPass(p, r, b)
  PROVE  BpInv'
<1>1. /\ BpTypes /\ BpOneHolder /\ p # r /\ buftab' = buftab /\ bpat' = bpat /\ bpmem' = bpmem
      /\ bphas' = [bphas EXCEPT ![p] = @ \ {b}, ![r] = @ \cup {b}]
  BY DEF BpInv, BpPass
<1>2. /\ bphas'[p] = bphas[p] \ {b} /\ bphas'[r] = bphas[r] \cup {b}
      /\ \A q \in Procs \ {p, r} : bphas'[q] = bphas[q]
  BY <1>1 DEF BpTypes
<1>3. b \in [buf : Nat, id : 1 .. Len(buftab)]
  BY <1>1 DEF BpTypes
<1>4. BpTypes'
  BY <1>1, <1>3 DEF BpTypes
<1>5. \A q \in Procs : q # p => b \notin bphas[q]
  BY <1>1 DEF BpOneHolder
<1>6. BpOneHolder'
  <2> SUFFICES ASSUME NEW q \in Procs, NEW t \in Procs, q # t, NEW c, c \in bphas'[q], c \in bphas'[t]
               PROVE  FALSE
    BY DEF BpOneHolder
  <2>1. CASE c = b
    BY <1>2, <1>5, <2>1
  <2>2. CASE c # b
    <3>1. c \in bphas[q] /\ c \in bphas[t]
      BY <1>2, <2>2
    <3> QED  BY <1>1, <3>1 DEF BpOneHolder
  <2> QED  BY <2>1, <2>2
<1>7. ASSUME NEW c  PROVE (\E q \in Procs : c \in bphas'[q]) <=> (\E q \in Procs : c \in bphas[q])
  <2>1. CASE c = b
    BY <1>2, <2>1
  <2>2. CASE c # b
    BY <1>1, <1>2, <2>2
  <2> QED  BY <2>1, <2>2
<1>8. \A j \in 1 .. Len(buftab) : BpOut(j)' = BpOut(j)
  BY <1>7 DEF BpOut, BpHolds
<1>9. ASSUME NEW j \in 1 .. Len(buftab)  PROVE BpCounted(j)' /\ BpOwned(j)'
  <2>1. BpCounted(j) /\ BpOwned(j) /\ SemaSound(buftab[j].sem)
    BY DEF BpInv, BpCounted
  <2> QED  BY <1>1, <1>8, <2>1, PoolUntouched
<1> QED  BY <1>1, <1>4, <1>6, <1>9 DEF BpInv

\* A step that changes no pool and no holder (mkbufpool.c without a semaphore).
LEMMA BpSame ==
  ASSUME BpInv, buftab' = buftab, bpat' = bpat, bphas' = bphas, bpmem' \in Nat
  PROVE  BpInv'
<1>1. BpTypes' /\ BpOneHolder'
  BY DEF BpInv, BpTypes, BpOneHolder
<1>2. ASSUME NEW j \in 1 .. Len(buftab)  PROVE BpCounted(j)' /\ BpOwned(j)'
  <2>1. BpCounted(j) /\ BpOwned(j) /\ SemaSound(buftab[j].sem)
    BY DEF BpInv, BpCounted
  <2>2. BpOut(j)' = BpOut(j)
    BY DEF BpOut, BpHolds
  <2> QED  BY <2>1, <2>2, PoolUntouched
<1> QED  BY <1>1, <1>2 DEF BpInv

\* mkbufpool: all buffers of the new pool are in its list, or there is no new pool
\* (mkbufpool.c).
LEMMA MkbufpoolKeeps ==
  ASSUME BpInv, NEW p \in Procs, NEW n \in PoolSizes, Mkbufpool(p, n)
  PROVE  BpInv'
<1> DEFINE e == [free |-> BpLinked(n), sem |-> Sema(n), all |-> {bpmem + k : k \in 1 .. n}]
<1>1. /\ BpTypes /\ BpOneHolder /\ n \in Nat /\ bpmem \in Nat /\ bpmem' = bpmem + n
      /\ bpat' = bpat /\ bphas' = bphas /\ buftab \in Seq(BpPool)
  BY BufPoolAssumption DEF BpInv, BpTypes, Mkbufpool
<1>2. CASE buftab' = buftab
  <2>1. bpmem' \in Nat
    BY <1>1
  <2> QED  BY <1>1, <1>2, <2>1, BpSame
<1>3. CASE buftab' = Append(buftab, e)
  <2>0. PICK N \in Nat : N = Len(buftab)
    BY <1>1
  <2>1. SemaSound(Sema(n)) /\ Waiters(Sema(n)) = {} /\ Sema(n) \in [n : Int, q : Seq(Procs)]
        /\ Available(Sema(n)) = n
    BY <1>1, SemaIsSound DEF Sema, Available
  <2>2. /\ BpLinked(n) \in Seq(Nat) /\ Len(BpLinked(n)) = n /\ BpOnce(BpLinked(n))
        /\ Range(BpLinked(n)) = {bpmem + k : k \in 1 .. n}
    BY <1>1, SMTT(20) DEF BpLinked, BpOnce, Range
  <2>3. {bpmem + k : k \in 1 .. n} \in SUBSET Nat
    BY <1>1
  <2>4. e \in BpPool
    BY <2>1, <2>2, <2>3 DEF BpPool
  <2>5. e.free = BpLinked(n) /\ e.sem = Sema(n) /\ e.all = {bpmem + k : k \in 1 .. n}
    OBVIOUS
  <2> HIDE DEF e
  <2>6. /\ buftab' \in Seq(BpPool) /\ Len(buftab') = N + 1 /\ buftab'[N + 1] = e
        /\ \A j \in 1 .. N : buftab'[j] = buftab[j]
    BY <1>1, <1>3, <2>0, <2>4
  <2>7. BpTypes' /\ BpOneHolder'
    <3>1. 0 .. N \subseteq 0 .. N + 1 /\ 1 .. N \subseteq 1 .. N + 1
      OBVIOUS
    <3>2. bpat' \in [Procs -> 0 .. N + 1] /\ bphas' \in [Procs -> SUBSET [buf : Nat, id : 1 .. N + 1]]
      BY <1>1, <2>0, <3>1 DEF BpTypes
    <3> QED  BY <1>1, <2>6, <3>2 DEF BpTypes, BpOneHolder
  <2>8. \A j : BpOut(j)' = BpOut(j)
    BY <1>1 DEF BpOut, BpHolds
  <2>9. BpOut(N + 1) = {}
    BY <1>1, <2>0 DEF BpOut, BpHolds, BpTypes
  <2>10. BpGranted(N + 1)' = {}
    BY <1>1, <2>0 DEF BpGranted, BpTypes
  <2>11. BpCounted(N + 1)'
    <3>1. Cardinality(BpGranted(N + 1)') = 0
      BY <2>10, FS_EmptySet
    <3>2. Len(buftab'[N + 1].free) = n /\ buftab'[N + 1].sem = Sema(n)
      BY <2>2, <2>5, <2>6
    <3> QED  BY <1>1, <2>1, <3>1, <3>2 DEF BpCounted
  <2>12. BpOwned(N + 1)'
    BY <2>2, <2>5, <2>6, <2>8, <2>9 DEF BpOwned
  <2>13. ASSUME NEW j \in 1 .. N  PROVE BpCounted(j)' /\ BpOwned(j)'
    <3>1. BpCounted(j) /\ BpOwned(j) /\ SemaSound(buftab[j].sem)
      BY <2>0 DEF BpInv, BpCounted
    <3>2. buftab'[j] = buftab[j]
      BY <2>6
    <3> QED  BY <1>1, <2>8, <3>1, <3>2, PoolUntouched
  <2>14. \A j \in 1 .. N + 1 : j = N + 1 \/ j \in 1 .. N
    OBVIOUS
  <2> QED  BY <2>6, <2>7, <2>11, <2>12, <2>13, <2>14 DEF BpInv
<1> QED  BY <1>2, <1>3 DEF Mkbufpool

\* The invariant gives what callers rely on: the sets of BpAccounted are those of the
\* invariant, since nobody waits for a pool it has not called getbuf of.
LEMMA BpInvGives == ASSUME BpInv PROVE BpAccounted
<1>1. BpTypes /\ BpOneHolder /\ DOMAIN buftab = 1 .. Len(buftab)
  BY DEF BpInv, BpTypes
<1>2. ASSUME NEW i \in 1 .. Len(buftab)
      PROVE  /\ Range(buftab[i].free) \cap BpHeld(i) = {}
             /\ Range(buftab[i].free) \cup BpHeld(i) = buftab[i].all
             /\ Len(buftab[i].free) = Available(buftab[i].sem)
                   + Cardinality({p \in Procs \ BpBlocked : bpat[p] = i})
  <2>1. BpCounted(i) /\ BpOwned(i)
    BY DEF BpInv
  <2>2. BpHeld(i) = BpOut(i)
    <3>1. \A c : (\E p \in Procs : c \in bphas[p]) => /\ c \in [buf : Nat, id : 1 .. Len(buftab)]
                                                    /\ c = [buf |-> c.buf, id |-> c.id]
      BY <1>1 DEF BpTypes
    <3>2. \A x \in BpHeld(i) : x \in BpOut(i)
      BY <3>1 DEF BpHeld, BpOut, BpHolds
    <3>3. ASSUME NEW x \in BpOut(i)  PROVE x \in BpHeld(i)
      <4>1. PICK p \in Procs : [buf |-> x, id |-> i] \in bphas[p]
        BY <3>3 DEF BpOut, BpHolds
      <4> DEFINE c == [buf |-> x, id |-> i]
      <4>2. c \in UNION {bphas[q] : q \in Procs} /\ c.id = i /\ c.buf = x
        BY <4>1
      <4> QED  BY <4>2 DEF BpHeld
    <3> QED  BY <3>2, <3>3
  <2>3. \A p \in Procs : bpat[p] = i => (p \in BpBlocked <=> p \in Waiters(buftab[i].sem))
    <3>1. \A j \in 1 .. Len(buftab) : \A p \in Waiters(buftab[j].sem) : bpat[p] = j
      BY DEF BpInv, BpCounted
    <3> QED  BY <1>1, <3>1 DEF BpBlocked
  <2>4. {p \in Procs \ BpBlocked : bpat[p] = i} = BpGranted(i)
    BY <2>3 DEF BpGranted
  <2> QED  BY <2>1, <2>2, <2>4 DEF BpCounted, BpOwned
<1> QED  BY <1>1, <1>2 DEF BpAccounted, BpOneHolder

\* Every buffer is in its own pool's list or with exactly one holder, and whoever the
\* semaphore of a pool has let through finds a buffer, whoever runs before it, for any
\* number of pools, buffers and processes (mkbufpool.c, getbuf.c, freebuf.c).
THEOREM BuffersAccounted == BpSpec => []BpAccounted
<1>1. BpInit => BpInv
  <2> SUFFICES ASSUME BpInit  PROVE BpInv
    OBVIOUS
  <2>1. Len(buftab) = 0 /\ buftab \in Seq(BpPool)
    BY DEF BpInit
  <2>2. BpTypes
    BY <2>1 DEF BpInit, BpTypes
  <2> QED  BY <2>1, <2>2 DEF BpInit, BpInv, BpOneHolder
<1>2. BpInv /\ [BpNext]_bpvars => BpInv'
  <2> SUFFICES ASSUME BpInv, [BpNext]_bpvars  PROVE BpInv'
    OBVIOUS
  <2>1. CASE UNCHANGED bpvars
    BY <2>1, BpSame DEF bpvars, BpInv, BpTypes
  <2> QED  BY <2>1, MkbufpoolKeeps, GetbufKeeps, GetbufResumeKeeps, FreebufKeeps, BpPassKeeps
           DEF BpNext
<1> QED  BY <1>1, <1>2, BpInvGives, PTL DEF BpSpec

-----------------------------------------------------------------------------
(* Futures (future.c) *)

FtSetters == {future.setq[i] : i \in DOMAIN future.setq}

FtOnce(q) == \A i, j \in DOMAIN q : q[i] = q[j] => i = j

FtTypes ==
  /\ future \in [mode : {"none"} \cup FutureModes, state : {"empty", "waiting", "ready"},
                 value : Producers \cup {Nobody}, pid : Consumers \cup {Nobody},
                 setq : Seq(Producers), getq : Seq(Consumers)]
  /\ ftat \in [FtProcs -> {"start", "exclusive", "shared", "again", "set", "done", "exited"}]
  /\ ftwait \subseteq FtProcs /\ ftbroken \in BOOLEAN
  /\ ftgot \in [Consumers -> Producers \cup {Nobody}]

(* In each mode, where a process can be that has the processor *)
FtPlaces ==
  /\ future.mode = "none" => ftwait = {} /\ future.pid = Nobody /\ future.getq = <<>>
                             /\ future.setq = <<>> /\ future.state = "empty" /\ \A p \in FtProcs : ftat[p] = "start"
  /\ future.mode = "exclusive" =>
       \A p \in FtProcs : ftat[p] \in {"start", "exclusive", "done", "exited"}
  /\ future.mode = "shared" =>
       \A p \in FtProcs : ftat[p] \in {"start", "shared", "done", "exited"}
  /\ future.mode = "queue" => \A p \in FtProcs : ftat[p] \notin {"exclusive", "shared"}
  /\ \A p \in ftwait : ftat[p] \notin {"start", "done", "exited"}

(* The exclusive mode remembers the process that waited first, also when   *)
(* that has left and others wait; the one it remembers waits alone, and    *)
(* others are left waiting when the cell is set only if it has exited.     *)
FtExclusive == future.mode = "exclusive" =>
  /\ future.pid = Nobody => ftwait = {}
  /\ future.pid # Nobody => ftat[future.pid] \in {"exclusive", "done", "exited"}
  /\ future.pid \in ftwait => ftwait = {future.pid} /\ future.state = "waiting"
  /\ future.state = "ready" /\ ftwait # {} =>
       future.pid # Nobody /\ ftat[future.pid] = "exited"
  /\ \A p \in FtProcs : ftat[p] = "exclusive" /\ p \notin ftwait => p = future.pid

(* In the shared mode the queue holds those who wait. *)
FtShared ==
  /\ future.mode \in {"none", "shared"} => ~ftbroken
  /\ future.mode = "shared" => /\ ftwait = FtQueued
                               /\ future.state # "waiting" => future.getq = <<>>

FtValue == \A p \in FtProcs \ ftwait : ftat[p] \in {"exclusive", "shared"} => future.value # Nobody

(* In the queue mode each queue holds, once each, those who wait for the   *)
(* other side.                                                             *)
FtQueue == future.mode = "queue" =>
  /\ FtOnce(future.getq) /\ FtOnce(future.setq)
  /\ ftwait \cap Consumers = FtQueued
  /\ ftwait \cap Producers = FtSetters

FtInv == FtTypes /\ FtShared /\ (~ftbroken => FtPlaces /\ FtExclusive /\ FtQueue /\ FtValue)

\* A process at the end of a queue that does not hold it, and the queue without its
\* head (future_get.c, future_set.c).
LEMMA FtAppended ==
  ASSUME NEW S, NEW q \in Seq(S), NEW p \in S, FtOnce(q), p \notin {q[i] : i \in DOMAIN q}
  PROVE  /\ FtOnce(Append(q, p))
         /\ {Append(q, p)[i] : i \in DOMAIN Append(q, p)} = {q[i] : i \in DOMAIN q} \cup {p}
<1>1. /\ DOMAIN q = 1 .. Len(q) /\ Len(q) \in Nat
      /\ DOMAIN Append(q, p) = 1 .. Len(q) + 1
      /\ \A i \in 1 .. Len(q) : Append(q, p)[i] = q[i]
      /\ Append(q, p)[Len(q) + 1] = p
  OBVIOUS
<1>2. FtOnce(Append(q, p))
  BY <1>1 DEF FtOnce
<1> QED  BY <1>1, <1>2

LEMMA FtTailed ==
  ASSUME NEW S, NEW q \in Seq(S), q # <<>>, FtOnce(q)
  PROVE  /\ Tail(q) \in Seq(S) /\ FtOnce(Tail(q)) /\ Head(q) \in {q[i] : i \in DOMAIN q}
         /\ {Tail(q)[i] : i \in DOMAIN Tail(q)} = {q[i] : i \in DOMAIN q} \ {Head(q)}
<1>1. /\ DOMAIN q = 1 .. Len(q) /\ Len(q) \in Nat /\ Len(q) >= 1 /\ Head(q) = q[1]
      /\ Tail(q) \in Seq(S) /\ DOMAIN Tail(q) = 1 .. Len(q) - 1
      /\ \A i \in 1 .. Len(q) - 1 : Tail(q)[i] = q[i + 1]
  OBVIOUS
<1>2. FtOnce(Tail(q))
  BY <1>1 DEF FtOnce
<1>3. \A x \in {q[i] : i \in DOMAIN q} \ {Head(q)} : x \in {Tail(q)[i] : i \in DOMAIN Tail(q)}
  <2> SUFFICES ASSUME NEW i \in 1 .. Len(q), q[i] # Head(q)
               PROVE  q[i] \in {Tail(q)[k] : k \in DOMAIN Tail(q)}
    BY <1>1
  <2>1. i - 1 \in 1 .. Len(q) - 1 /\ Tail(q)[i - 1] = q[i]
    BY <1>1
  <2> QED  BY <1>1, <2>1
<1>4. \A x \in {Tail(q)[i] : i \in DOMAIN Tail(q)} : x \in {q[i] : i \in DOMAIN q} \ {Head(q)}
  <2> SUFFICES ASSUME NEW i \in 1 .. Len(q) - 1
               PROVE  Tail(q)[i] \in {q[k] : k \in DOMAIN q} /\ Tail(q)[i] # Head(q)
    BY <1>1
  <2>1. i + 1 \in DOMAIN q /\ i + 1 # 1 /\ 1 \in DOMAIN q
    BY <1>1
  <2> QED  BY <1>1, <2>1 DEF FtOnce
<1>5. Head(q) \in {q[i] : i \in DOMAIN q}
  BY <1>1
<1> QED  BY <1>1, <1>2, <1>3, <1>4, <1>5

\* What the invariant says of a consumer or a producer in a mode, field by field.
LEMMA FtFields ==
  ASSUME FtTypes
  PROVE  /\ future = [mode |-> future.mode, state |-> future.state, value |-> future.value,
                      pid |-> future.pid, setq |-> future.setq, getq |-> future.getq]
         /\ future.mode \in {"none"} \cup FutureModes
         /\ future.state \in {"empty", "waiting", "ready"}
         /\ future.value \in Producers \cup {Nobody} /\ future.pid \in Consumers \cup {Nobody}
         /\ future.setq \in Seq(Producers) /\ future.getq \in Seq(Consumers)
BY DEF FtTypes

\* future_alloc: an empty cell of the mode (future_alloc.c).
LEMMA FtAllocKeeps ==
  ASSUME FtInv, NEW m \in FutureModes, FutureAlloc(m)
  PROVE  FtInv'
<1> USE DEF FtInv
<1>1. /\ future.mode = "none" /\ future' = [future EXCEPT !.mode = m]
      /\ ftat' = ftat /\ ftwait' = ftwait /\ ftgot' = ftgot /\ ftbroken' = ftbroken
  BY DEF FutureAlloc
<1>2. m \in {"exclusive", "shared", "queue"}
  BY FuturesAssumption
<1>3. /\ future'.mode = m /\ future'.state = future.state /\ future'.value = future.value
      /\ future'.pid = future.pid /\ future'.getq = future.getq
  BY <1>1 DEF FtTypes
<1>4. FtTypes'
  BY <1>1, FtFields DEF FtTypes
<1>5. ~ftbroken /\ ftwait = {} /\ future.pid = Nobody /\ future.getq = <<>> /\ future.state = "empty"
      /\ \A p \in FtProcs : ftat[p] = "start"
  BY <1>1 DEF FtShared, FtPlaces
<1>6. FtQueued' = {} /\ FtSetters' = {} /\ FtOnce(future'.getq) /\ FtOnce(future'.setq)
  <2>1. future'.getq = <<>> /\ future'.setq = <<>> /\ DOMAIN <<>> = {}
    BY <1>1, <1>3, <1>5, FtFields DEF FtPlaces
  <2> QED  BY <2>1 DEF FtQueued, FtSetters, FtOnce
<1>7. FtShared' /\ FtPlaces' /\ FtExclusive' /\ FtValue'
  BY <1>1, <1>2, <1>3, <1>5, <1>6 DEF FtShared, FtPlaces, FtExclusive, FtValue
<1>8. FtQueue'
  BY <1>1, <1>5, <1>6 DEF FtQueue
<1> QED  BY <1>4, <1>7, <1>8

\* future_get waits in the exclusive mode. The process the cell remembers already is not
\* the caller and does not wait (future_get.c).
LEMMA FtWaitExclusive ==
  ASSUME FtInv, NEW p \in Consumers, FtRuns(p, "start") \/ FtRuns(p, "again"),
         future.state = "empty", future.mode = "exclusive",
         future' = [future EXCEPT !.state = "waiting", !.pid = IF @ = Nobody THEN p ELSE @],
         FtBlock(p, "exclusive"), ftgot' = ftgot
  PROVE  FtInv'
<1> USE DEF FtInv
<1>1. /\ ~ftbroken /\ p \notin ftwait /\ ftat[p] \in {"start", "again"} /\ p \in FtProcs
      /\ Nobody \notin FtProcs
  BY FuturesAssumption DEF FtRuns, FtProcs
<1>2. /\ future'.mode = "exclusive" /\ future'.state = "waiting" /\ future'.value = future.value
      /\ future'.pid = IF future.pid = Nobody THEN p ELSE future.pid
      /\ future'.getq = future.getq
  BY DEF FtTypes
<1>3. /\ ftwait' = ftwait \cup {p} /\ ftbroken' = ftbroken /\ ftat' = [ftat EXCEPT ![p] = "exclusive"]
  BY DEF FtBlock, FtGoto
<1>4. /\ ftat'[p] = "exclusive" /\ \A q \in FtProcs \ {p} : ftat'[q] = ftat[q]
  BY <1>1, <1>3 DEF FtTypes
<1>5. FtTypes'
  BY <1>1, <1>3, FtFields DEF FtTypes
<1>6. FtPlaces'
  <2>1. FtPlaces /\ future.mode = "exclusive" /\ future.state = "empty"
    BY <1>1
  <2> QED  BY <1>1, <1>2, <1>3, <1>4, <2>1 DEF FtPlaces
<1>7. FtExclusive'
  <2>1. CASE future.pid = Nobody
    BY <1>1, <1>2, <1>3, <1>4, <2>1 DEF FtExclusive
  <2>2. CASE future.pid # Nobody
    <3>1. future.pid \notin ftwait /\ future.pid # p /\ future.pid \in FtProcs
      BY <1>1, <2>2, FtFields DEF FtExclusive, FtProcs
    <3> QED  BY <1>1, <1>2, <1>3, <1>4, <2>2, <3>1 DEF FtExclusive
  <2> QED  BY <2>1, <2>2
<1>8. FtValue'
  BY <1>1, <1>2, <1>3, <1>4 DEF FtValue
<1> QED  BY <1>2, <1>5, <1>6, <1>7, <1>8 DEF FtShared, FtQueue

\* future_get waits in the shared mode: the caller is at the end of the queue
\* (future_get.c).
LEMMA FtWaitShared ==
  ASSUME FtInv, NEW p \in Consumers, FtRuns(p, "start") \/ FtRuns(p, "again"),
         future.mode = "shared",
         future' = [future EXCEPT !.state = "waiting", !.getq = Append(@, p)],
         FtBlock(p, "shared"), ftgot' = ftgot
  PROVE  FtInv'
<1> USE DEF FtInv
<1>1. ~ftbroken /\ p \notin ftwait /\ ftat[p] \in {"start", "again"} /\ p \in FtProcs
  BY DEF FtRuns, FtProcs
<1>2. /\ future'.mode = "shared" /\ future'.state = "waiting" /\ future'.value = future.value
      /\ future'.getq = Append(future.getq, p)
  BY DEF FtTypes
<1>3. /\ ftwait' = ftwait \cup {p} /\ ftbroken' = ftbroken /\ ftat' = [ftat EXCEPT ![p] = "shared"]
  BY DEF FtBlock, FtGoto
<1>4. /\ ftat'[p] = "shared" /\ \A q \in FtProcs \ {p} : ftat'[q] = ftat[q]
  BY <1>1, <1>3 DEF FtTypes
<1>5. FtTypes'
  <2>1. Append(future.getq, p) \in Seq(Consumers)
    BY FtFields
  <2> QED  BY <1>1, <1>3, <2>1, FtFields DEF FtTypes
<1>6. FtPlaces'
  <2>1. FtPlaces /\ future.mode = "shared"
    BY <1>1
  <2> QED  BY <1>1, <1>2, <1>3, <1>4, <2>1 DEF FtPlaces
<1>7. FtShared'
  <2>1. FtQueued' = FtQueued \cup {p}
    <3> DEFINE q == future.getq
    <3>1. /\ q \in Seq(Consumers) /\ DOMAIN q = 1 .. Len(q) /\ Len(q) \in Nat
          /\ DOMAIN Append(q, p) = 1 .. Len(q) + 1
          /\ \A i \in 1 .. Len(q) : Append(q, p)[i] = q[i]
          /\ Append(q, p)[Len(q) + 1] = p
      BY FtFields
    <3>2. FtQueued = {q[i] : i \in 1 .. Len(q)}
      BY <3>1 DEF FtQueued
    <3>3. FtQueued' = {Append(q, p)[i] : i \in 1 .. Len(q) + 1}
      BY <1>2, <3>1 DEF FtQueued
    <3> QED  BY <3>1, <3>2, <3>3
  <2> QED  BY <1>1, <1>2, <1>3, <2>1 DEF FtShared
<1>8. FtValue'
  BY <1>1, <1>2, <1>3, <1>4 DEF FtValue
<1> QED  BY <1>2, <1>5, <1>6, <1>7, <1>8 DEF FtExclusive, FtQueue

\* A step in the queue mode that keeps the queues (future_get.c, future_set.c).
LEMMA FtQueueMode ==
  ASSUME FtInv, future.mode = "queue", future'.mode = "queue", FtTypes',
         ~ftbroken' => /\ ~ftbroken
                       /\ \A p \in FtProcs : \/ ftat'[p] = ftat[p]
                                             \/ ftat'[p] \in {"again", "set", "done", "exited"}
                       /\ \A p \in ftwait' : \/ ftat'[p] \in {"again", "set"}
                                             \/ p \in ftwait /\ ftat'[p] = ftat[p]
                       /\ FtQueue'
  PROVE  FtInv'
<1>1. FtPlaces /\ ~ftbroken' => FtPlaces'
  BY DEF FtInv, FtPlaces
<1> QED  BY <1>1 DEF FtInv, FtShared, FtPlaces, FtExclusive, FtValue

\* future_get of an empty cell (future_get.c).
LEMMA FtGetEmptyKeeps ==
  ASSUME FtInv, NEW p \in Consumers, GetEmpty(p)
  PROVE  FtInv'
<1>1. CASE future.mode = "exclusive"
  BY <1>1, FtWaitExclusive DEF GetEmpty
<1>2. CASE future.mode = "shared"
  BY <1>2, FtWaitShared DEF GetEmpty
<1>3. CASE future.mode = "queue"
  <2>1. /\ p \in FtProcs /\ ftwait \subseteq FtProcs /\ ftbroken \in BOOLEAN
        /\ ~ftbroken /\ ftgot' = ftgot /\ FtTypes /\ p \notin ftwait /\ p \notin Producers
    BY FuturesAssumption DEF FtInv, FtTypes, FtProcs, GetEmpty, FtRuns
  <2>2. /\ FtOnce(future.getq) /\ FtOnce(future.setq) /\ p \notin FtQueued
        /\ ftwait \cap Consumers = FtQueued /\ ftwait \cap Producers = FtSetters
    BY <1>3, <2>1 DEF FtInv, FtQueue
  <2>3. /\ Append(future.getq, p) \in Seq(Consumers) /\ FtOnce(Append(future.getq, p))
        /\ {Append(future.getq, p)[i] : i \in DOMAIN Append(future.getq, p)} = FtQueued \cup {p}
    <3> DEFINE q == future.getq
    <3>1. q \in Seq(Consumers) /\ FtOnce(q) /\ FtQueued = {q[i] : i \in DOMAIN q}
      BY <2>1, <2>2, FtFields DEF FtQueued
    <3>2. p \notin {q[i] : i \in DOMAIN q}
      BY <2>2, <3>1
    <3> HIDE DEF q
    <3>3. /\ FtOnce(Append(q, p)) /\ Append(q, p) \in Seq(Consumers)
          /\ {Append(q, p)[i] : i \in DOMAIN Append(q, p)} = {q[i] : i \in DOMAIN q} \cup {p}
      BY <3>1, <3>2, FtAppended
    <3> QED  BY <3>1, <3>3 DEF q
  <2>4. CASE /\ future.setq = <<>> /\ future' = [future EXCEPT !.getq = Append(@, p)]
             /\ FtBlock(p, "again")
    <3>1. ftwait' = ftwait \cup {p} /\ ftat' = [ftat EXCEPT ![p] = "again"] /\ ftbroken' = ftbroken
      BY <2>4 DEF FtBlock, FtGoto
    <3>2. FtTypes' /\ future'.mode = "queue"
      BY <1>3, <2>1, <2>3, <2>4, <3>1, FtFields DEF FtTypes
    <3>3. ftat'[p] = "again" /\ \A q \in FtProcs \ {p} : ftat'[q] = ftat[q]
      BY <2>1, <3>1 DEF FtTypes
    <3>4. future'.getq = Append(future.getq, p) /\ future'.setq = future.setq
      BY <2>1, <2>4, FtFields
    <3>5. FtQueued' = FtQueued \cup {p} /\ FtSetters' = FtSetters
      BY <2>3, <3>4 DEF FtQueued, FtSetters
    <3>6. FtQueue'
      BY <2>1, <2>2, <2>3, <3>1, <3>4, <3>5 DEF FtQueue
    <3> QED  BY <1>3, <2>1, <3>1, <3>2, <3>3, <3>6, FtQueueMode
  <2>5. CASE /\ future.setq # <<>>
             /\ future' = [future EXCEPT !.getq = Append(@, p), !.setq = Tail(@)]
             /\ ftwait' = (ftwait \ {Head(future.setq)}) \cup {p}
             /\ FtGoto(p, "again") /\ ftbroken' \in BOOLEAN
    <3>1. ftat' = [ftat EXCEPT ![p] = "again"] /\ ftwait' \subseteq FtProcs
      BY <2>1, <2>5 DEF FtGoto
    <3>2. /\ Tail(future.setq) \in Seq(Producers) /\ FtOnce(Tail(future.setq))
          /\ Head(future.setq) \in FtSetters
          /\ {Tail(future.setq)[i] : i \in DOMAIN Tail(future.setq)} = FtSetters \ {Head(future.setq)}
      BY <2>1, <2>2, <2>5, FtFields, FtTailed DEF FtSetters
    <3>3. FtTypes' /\ future'.mode = "queue"
      BY <1>3, <2>1, <2>3, <2>5, <3>1, <3>2, FtFields DEF FtTypes
    <3>4. ftat'[p] = "again" /\ \A q \in FtProcs \ {p} : ftat'[q] = ftat[q]
      BY <2>1, <3>1 DEF FtTypes
    <3>5. future'.getq = Append(future.getq, p) /\ future'.setq = Tail(future.setq)
      BY <2>1, <2>5, FtFields
    <3>6. FtQueued' = FtQueued \cup {p} /\ FtSetters' = FtSetters \ {Head(future.setq)}
      BY <2>3, <3>2, <3>5 DEF FtQueued, FtSetters
    <3>7. Head(future.setq) \in Producers /\ Head(future.setq) \notin Consumers
      BY <2>2, <3>2, FuturesAssumption
    <3>8. FtQueue'
      BY <2>1, <2>2, <2>3, <2>5, <3>2, <3>5, <3>6, <3>7 DEF FtQueue
    <3> QED  BY <1>3, <2>1, <2>5, <3>3, <3>4, <3>8, FtQueueMode
  <2> QED  BY <1>3, <2>4, <2>5 DEF GetEmpty
<1> QED  BY <1>1, <1>2, <1>3 DEF GetEmpty

\* A step that makes nobody wait and nobody ready, and in which the caller is done or,
\* when it was, exits (future_get.c, future_set.c).
LEMMA FtLeaves ==
  ASSUME FtInv, NEW p \in FtProcs, ~ftbroken, p \notin ftwait, ftat[p] # "exited",
         NEW at \in {"done", "exited"}, ftat' = [ftat EXCEPT ![p] = at], ftwait' = ftwait, ftbroken' = ftbroken,
         ftgot' \in [Consumers -> Producers \cup {Nobody}],
         future.mode # "none",
         \/ future' = future
         \/ /\ future' = [future EXCEPT !.state = "empty"]
            /\ future.mode = "shared" => future.getq = <<>>
            /\ future.mode = "exclusive" => future.pid \notin ftwait
  PROVE  FtInv'
<1> USE DEF FtInv
<1>1. /\ future'.mode = future.mode /\ future'.value = future.value /\ future'.pid = future.pid
      /\ future'.getq = future.getq
      /\ future'.state = future.state \/ future'.state = "empty"
  BY DEF FtTypes
<1>2. ftat'[p] = at /\ \A q \in FtProcs \ {p} : ftat'[q] = ftat[q]
  BY DEF FtTypes
<1>3. FtTypes'
  BY FtFields DEF FtTypes
<1>4. FtPlaces'
  BY <1>1, <1>2 DEF FtPlaces
<1>5. FtQueued' = FtQueued /\ FtSetters' = FtSetters /\ future'.setq = future.setq
  BY <1>1, FtFields DEF FtQueued, FtSetters
<1>6. FtShared'
  BY <1>1, <1>5 DEF FtShared
<1>7. FtExclusive'
  <2>1. future'.state = "ready" => future.state = "ready"
    BY <1>1
  <2>2. future.mode = "exclusive" /\ future.pid # Nobody => future.pid \in FtProcs
    BY FtFields DEF FtProcs
  <2>3. future.mode = "exclusive" /\ future.pid \in ftwait => future' = future
    BY DEF FtTypes
  <2> QED  BY <1>1, <1>2, <2>1, <2>2, <2>3 DEF FtExclusive
<1>8. FtValue'
  BY <1>1, <1>2 DEF FtValue
<1>9. FtQueue'
  BY <1>1, <1>5 DEF FtQueue
<1> QED  BY <1>3, <1>4, <1>6, <1>7, <1>8, <1>9

\* future_get of a cell that is set (future_get.c).
LEMMA FtGetReadyKeeps ==
  ASSUME FtInv, NEW p \in Consumers, GetReady(p)
  PROVE  FtInv'
<1>1. /\ p \in FtProcs /\ ~ftbroken /\ p \notin ftwait /\ future.state = "ready"
      /\ ftat[p] # "exited" /\ ftat' = [ftat EXCEPT ![p] = "done"] /\ ftwait' = ftwait /\ ftbroken' = ftbroken
      /\ future' = [future EXCEPT !.state = "empty"]
  BY DEF FtProcs, GetReady, FtRuns, FtGoto
<1>2. ftgot' \in [Consumers -> Producers \cup {Nobody}]
  BY FtFields DEF FtInv, FtTypes, GetReady
<1>3. /\ future.mode # "none"
      /\ future.mode = "shared" => future.getq = <<>>
      /\ future.mode = "exclusive" => future.pid \notin ftwait
  BY <1>1 DEF FtInv, FtPlaces, FtShared, FtExclusive
<1> QED  BY <1>1, <1>2, <1>3, FtLeaves

\* future_get of a cell somebody waits for (future_get.c).
LEMMA FtGetWaitingKeeps ==
  ASSUME FtInv, NEW p \in Consumers, GetWaiting(p)
  PROVE  FtInv'
<1>1. FtTypes /\ p \in FtProcs /\ FtRuns(p, "start") /\ future.state = "waiting" /\ ftgot' = ftgot
      /\ ~ftbroken /\ p \notin ftwait /\ ftat[p] # "exited"
  BY DEF FtInv, FtProcs, GetWaiting, FtRuns
<1>2. CASE future.mode = "exclusive"
  BY <1>1, <1>2, FtLeaves DEF GetWaiting, FtGoto, FtTypes
<1>3. CASE future.mode = "shared"
  <2>1. future' = [future EXCEPT !.state = "waiting", !.getq = Append(@, p)]
    BY <1>1, <1>3, FtFields DEF GetWaiting
  <2> QED  BY <1>1, <1>3, <2>1, FtWaitShared DEF GetWaiting
<1> QED  BY <1>2, <1>3 DEF GetWaiting

\* future_get behind its wait: in the exclusive mode the caller is the process the cell
\* remembers (future_get.c).
LEMMA FtGetResumeKeeps ==
  ASSUME FtInv, NEW p \in Consumers, GetResume(p)
  PROVE  FtInv'
<1>1. /\ FtTypes /\ p \in FtProcs /\ ~ftbroken /\ p \notin ftwait /\ ftat[p] \in {"exclusive", "shared"}
      /\ ftat' = [ftat EXCEPT ![p] = "done"] /\ ftwait' = ftwait /\ ftbroken' = ftbroken
      /\ future' = IF ftat[p] = "exclusive" THEN [future EXCEPT !.state = "empty"] ELSE future
  BY DEF FtInv, FtProcs, GetResume, FtRuns, FtGoto
<1>2. ftgot' \in [Consumers -> Producers \cup {Nobody}]
  BY FtFields DEF FtInv, FtTypes, GetResume
<1>3. future.mode \in {"exclusive", "shared"}
  BY <1>1, FtFields, FuturesAssumption DEF FtInv, FtPlaces
<1>4. ftat[p] = "exclusive" => future.mode = "exclusive" /\ future.pid = p
  BY <1>1, <1>3 DEF FtInv, FtPlaces, FtExclusive
<1> QED  BY <1>1, <1>2, <1>3, <1>4, FtLeaves

\* future_set stores the value and makes ready whom the cell names: everybody who waits,
\* unless the exclusive mode names a process that does not wait any more. That process
\* is linked twice, or it has exited and nobody is made ready (future_set.c, ready.c).
LEMMA FtStoreKeeps ==
  ASSUME FtInv, NEW p \in Producers, ~ftbroken, p \notin ftwait, future.mode # "none",
         ftat[p] # "exited",
         FtStore(p), ftgot' = ftgot
  PROVE  FtInv'
<1> USE DEF FtInv
<1>1. /\ p \in FtProcs /\ p # Nobody /\ Nobody \notin FtProcs
      /\ future.mode \in {"exclusive", "shared", "queue"}
  BY FtFields, FuturesAssumption DEF FtProcs
<1>2. /\ ftat' = [ftat EXCEPT ![p] = "done"]
      /\ ftwait' = ftwait \ InTable(WhoWaits) /\ ftbroken' = ~(InTable(WhoWaits) \subseteq ftwait)
      /\ \A q \in ftwait : q \in FtProcs /\ ftat[q] # "exited"
  BY DEF FtStore, FtReady, FtGoto, FtTypes, FtPlaces
<1>3. /\ future'.mode = future.mode /\ future'.value = p /\ future'.pid = future.pid
      /\ future'.state = "ready"
      /\ future.mode = "shared" => future'.getq = <<>>
  BY DEF FtStore, FtTypes
<1>4. FtTypes'
  <2>1. FtRest(future.getq) \in Seq(Consumers)
    BY FtFields DEF FtRest
  <2>2. <<>> \in Seq(Consumers)
    OBVIOUS
  <2>3. future' \in [mode : {"none"} \cup FutureModes, state : {"empty", "waiting", "ready"},
                     value : Producers \cup {Nobody}, pid : Consumers \cup {Nobody},
                     setq : Seq(Producers), getq : Seq(Consumers)]
    BY <2>1, <2>2, FtFields DEF FtStore, FtTypes
  <2> QED  BY <1>1, <1>2, <2>3 DEF FtTypes
<1>5. ftat'[p] = "done" /\ \A q \in FtProcs \ {p} : ftat'[q] = ftat[q]
  BY <1>1, <1>2 DEF FtTypes
<1>6. FtValue' /\ FtPlaces'
  BY <1>1, <1>2, <1>3, <1>5 DEF FtValue, FtPlaces
<1>7. CASE future.mode = "exclusive"
  <2>1. WhoWaits = {future.pid}
    BY <1>7 DEF WhoWaits
  <2>2. ~ftbroken' => FtExclusive'
    <3> SUFFICES ASSUME ~ftbroken'  PROVE FtExclusive'
      OBVIOUS
    <3>1. future.pid # Nobody => future.pid \in FtProcs /\ future.pid # p
      BY FtFields, FuturesAssumption DEF FtProcs
    <3>2. CASE future.pid = Nobody
      BY <1>2, <1>3, <1>5, <1>7, <2>1, <3>2 DEF FtExclusive, InTable
    <3>3. CASE future.pid # Nobody /\ ftat[future.pid] = "exited"
      <4>1. ftwait' = ftwait /\ future.pid \notin ftwait
        BY <1>2, <2>1, <3>3 DEF InTable
      <4> QED  BY <1>3, <1>5, <1>7, <3>1, <3>3, <4>1 DEF FtExclusive
    <3>4. CASE future.pid # Nobody /\ ftat[future.pid] # "exited"
      <4>1. future.pid \in ftwait /\ ftwait' = ftwait \ {future.pid}
        BY <1>2, <2>1, <3>4 DEF InTable
      <4>2. ftwait' = {} /\ ftwait = {future.pid}
        BY <1>7, <4>1 DEF FtExclusive
      <4> QED  BY <1>3, <1>5, <1>7, <3>1, <4>2 DEF FtExclusive
    <3> QED  BY <3>2, <3>3, <3>4
  <2> QED  BY <1>3, <1>4, <1>6, <1>7, <2>2 DEF FtShared, FtQueue
<1>8. CASE future.mode = "shared"
  <2>1. WhoWaits = ftwait
    BY <1>8 DEF WhoWaits, FtShared, FtQueued
  <2>2. ftwait' = {} /\ ~ftbroken'
    <3>1. InTable(WhoWaits) = ftwait
      BY <1>1, <1>2, <2>1 DEF InTable
    <3> QED  BY <1>2, <3>1
  <2>3. FtQueued' = {}
    BY <1>3, <1>8 DEF FtQueued
  <2> QED  BY <1>3, <1>4, <1>6, <1>8, <2>2, <2>3 DEF FtShared, FtExclusive, FtQueue
<1>9. CASE future.mode = "queue"
  <2>1. /\ WhoWaits = FtFirst(future.getq) /\ future'.getq = FtRest(future.getq)
        /\ future'.setq = future.setq /\ ~ftbroken
    BY <1>9, FtFields DEF WhoWaits, FtStore
  <2>2. /\ FtOnce(future.getq) /\ FtOnce(future.setq)
        /\ ftwait \cap Consumers = FtQueued /\ ftwait \cap Producers = FtSetters
    BY <1>9, <2>1 DEF FtQueue
  <2>3. FtSetters' = FtSetters
    BY <2>1 DEF FtSetters
  <2>4. FtQueue'
    <3>1. CASE future.getq = <<>>
      <4>1. ftwait' = ftwait
        BY <1>2, <2>1, <3>1 DEF InTable, FtFirst
      <4>2. future'.getq = future.getq
        BY <2>1, <3>1 DEF FtRest
      <4>3. FtQueued' = FtQueued
        BY <4>2 DEF FtQueued
      <4> QED  BY <2>1, <2>2, <2>3, <4>1, <4>2, <4>3 DEF FtQueue
    <3>2. CASE future.getq # <<>>
      <4> DEFINE q == future.getq
                 h == Head(future.getq)
      <4>1. q \in Seq(Consumers) /\ q # <<>> /\ FtOnce(q) /\ FtQueued = {q[i] : i \in DOMAIN q}
        BY <2>2, <3>2, FtFields DEF FtQueued
      <4>2. /\ FtOnce(Tail(q)) /\ h \in FtQueued
            /\ {Tail(q)[i] : i \in DOMAIN Tail(q)} = FtQueued \ {h}
        BY <4>1, FtTailed
      <4>3. future'.getq = Tail(q) /\ WhoWaits = {h}
        BY <2>1, <3>2 DEF FtFirst, FtRest
      <4>4. FtQueued' = {Tail(q)[i] : i \in DOMAIN Tail(q)}
        BY <4>3 DEF FtQueued
      <4>5. h \in ftwait /\ h \in Consumers /\ h \notin Producers /\ h # Nobody
        BY <2>2, <4>2, FuturesAssumption
      <4>6. ftwait' = ftwait \ {h}
        BY <1>2, <4>3, <4>5 DEF InTable
      <4> HIDE DEF q, h
      <4> QED  BY <2>1, <2>2, <2>3, <4>2, <4>3, <4>4, <4>5, <4>6 DEF FtQueue
    <3> QED  BY <3>1, <3>2
  <2> QED  BY <1>3, <1>4, <1>6, <1>9, <2>4 DEF FtShared, FtExclusive
<1> QED  BY <1>1, <1>7, <1>8, <1>9

\* future_set; in the queue mode the caller may wait (future_set.c).
LEMMA FtSetKeeps ==
  ASSUME FtInv, NEW p \in Producers, Set(p)
  PROVE  FtInv'
<1>1. /\ FtTypes /\ p \in FtProcs /\ ~ftbroken /\ p \notin ftwait /\ future.mode # "none" /\ ftgot' = ftgot
      /\ ftat[p] # "exited" /\ p \notin Consumers
  BY FuturesAssumption DEF FtInv, FtProcs, Set, FtRuns
<1>2. CASE /\ future.mode = "queue" /\ future' = [future EXCEPT !.setq = Append(@, p)]
           /\ FtBlock(p, "set")
  <2>1. ftwait' = ftwait \cup {p} /\ ftat' = [ftat EXCEPT ![p] = "set"] /\ ftbroken' = ftbroken
    BY <1>2 DEF FtBlock, FtGoto
  <2>2. /\ FtOnce(future.getq) /\ FtOnce(future.setq) /\ p \notin FtSetters
        /\ ftwait \cap Consumers = FtQueued /\ ftwait \cap Producers = FtSetters
    BY <1>1, <1>2 DEF FtInv, FtQueue
  <2>3. /\ Append(future.setq, p) \in Seq(Producers) /\ FtOnce(Append(future.setq, p))
        /\ {Append(future.setq, p)[i] : i \in DOMAIN Append(future.setq, p)} = FtSetters \cup {p}
    <3> DEFINE q == future.setq
    <3>1. q \in Seq(Producers) /\ FtOnce(q) /\ FtSetters = {q[i] : i \in DOMAIN q}
      BY <1>1, <2>2, FtFields DEF FtSetters
    <3>2. p \notin {q[i] : i \in DOMAIN q}
      BY <2>2, <3>1
    <3> HIDE DEF q
    <3>3. /\ FtOnce(Append(q, p)) /\ Append(q, p) \in Seq(Producers)
          /\ {Append(q, p)[i] : i \in DOMAIN Append(q, p)} = {q[i] : i \in DOMAIN q} \cup {p}
      BY <3>1, <3>2, FtAppended
    <3> QED  BY <3>1, <3>3 DEF q
  <2>4. FtTypes' /\ future'.mode = "queue"
    BY <1>1, <1>2, <2>1, <2>3, FtFields DEF FtTypes
  <2>5. ftat'[p] = "set" /\ \A q \in FtProcs \ {p} : ftat'[q] = ftat[q]
    BY <1>1, <2>1 DEF FtTypes
  <2>6. future'.getq = future.getq /\ future'.setq = Append(future.setq, p)
    BY <1>1, <1>2, FtFields
  <2>7. FtQueued' = FtQueued /\ FtSetters' = FtSetters \cup {p}
    BY <2>3, <2>6 DEF FtQueued, FtSetters
  <2>8. FtQueue'
    BY <1>1, <2>1, <2>2, <2>3, <2>6, <2>7 DEF FtQueue
  <2> QED  BY <1>1, <1>2, <2>1, <2>4, <2>5, <2>8, FtQueueMode
<1>3. CASE FtStore(p)
  BY <1>1, <1>3, FtStoreKeeps
<1> QED  BY <1>2, <1>3 DEF Set

\* A producer that has waited stores its value (future_set.c).
LEMMA FtSetResumeKeeps ==
  ASSUME FtInv, NEW p \in Producers, SetResume(p)
  PROVE  FtInv'
<1>1. p \in FtProcs /\ ~ftbroken /\ p \notin ftwait /\ ftat[p] = "set" /\ ftgot' = ftgot /\ FtStore(p)
  BY DEF FtProcs, SetResume, FtRuns
<1>2. future.mode # "none"
  BY <1>1 DEF FtInv, FtPlaces
<1> QED  BY <1>1, <1>2, FtStoreKeeps

\* future_set of a cell that is set (future_set.c).
LEMMA FtSetReadyKeeps ==
  ASSUME FtInv, NEW p \in Producers, SetReady(p)
  PROVE  FtInv'
<1>1. /\ FtTypes /\ p \in FtProcs /\ ~ftbroken /\ p \notin ftwait /\ future.state = "ready"
      /\ ftat[p] # "exited" /\ ftat' = [ftat EXCEPT ![p] = "done"] /\ ftwait' = ftwait /\ ftbroken' = ftbroken /\ ftgot' = ftgot
      /\ future' = IF future.mode = "exclusive" THEN [future EXCEPT !.state = "empty"] ELSE future
  BY DEF FtInv, FtProcs, SetReady, FtRuns, FtGoto
<1>2. /\ future.mode # "none"
      /\ future.mode = "exclusive" => future.pid \notin ftwait
  BY <1>1 DEF FtInv, FtPlaces, FtExclusive
<1>3. ftgot' \in [Consumers -> Producers \cup {Nobody}]
  BY <1>1 DEF FtTypes
<1> QED  BY <1>1, <1>2, <1>3, FtLeaves

\* The function of a process returns (future_prodcons.c).
LEMMA FtExitKeeps ==
  ASSUME FtInv, NEW p \in FtProcs, FtExit(p)
  PROVE  FtInv'
<1>1. /\ FtTypes /\ ~ftbroken /\ p \notin ftwait /\ ftat[p] = "done" /\ future' = future
      /\ ftat' = [ftat EXCEPT ![p] = "exited"] /\ ftwait' = ftwait /\ ftbroken' = ftbroken
      /\ ftgot' = ftgot
  BY DEF FtInv, FtExit, FtRuns, FtGoto
<1>2. future.mode # "none" /\ ftgot' \in [Consumers -> Producers \cup {Nobody}]
  BY <1>1 DEF FtInv, FtPlaces, FtTypes
<1> QED  BY <1>1, <1>2, FtLeaves

\* The invariant of futures (future_alloc.c, future_get.c, future_set.c).
LEMMA FutureInvariance == FtSpec => []FtInv
<1>1. FtInit => FtInv
  <2> SUFFICES ASSUME FtInit  PROVE FtInv
    OBVIOUS
  <2>1. FtQueued = {} /\ FtSetters = {} /\ FtOnce(<<>>)
    BY DEF FtInit, FtQueued, FtSetters, FtOnce
  <2>2. FtTypes
    <3>1. <<>> \in Seq(Consumers) /\ <<>> \in Seq(Producers)
      OBVIOUS
    <3>2. future \in [mode : {"none"} \cup FutureModes, state : {"empty", "waiting", "ready"},
                      value : Producers \cup {Nobody}, pid : Consumers \cup {Nobody},
                      setq : Seq(Producers), getq : Seq(Consumers)]
      BY <3>1 DEF FtInit
    <3>3. /\ ftat \in [FtProcs -> {"start", "exclusive", "shared", "again", "set", "done", "exited"}]
          /\ ftgot \in [Consumers -> Producers \cup {Nobody}]
      BY DEF FtInit
    <3> QED  BY <3>2, <3>3 DEF FtInit, FtTypes
  <2> QED  BY <2>1, <2>2 DEF FtInit, FtInv, FtShared, FtPlaces, FtExclusive, FtQueue, FtValue
<1>2. FtInv /\ [FtNext]_ftvars => FtInv'
  <2> SUFFICES ASSUME FtInv, [FtNext]_ftvars  PROVE FtInv'
    OBVIOUS
  <2>1. CASE UNCHANGED ftvars
    BY <2>1 DEF ftvars, FtInv, FtTypes, FtShared, FtPlaces, FtExclusive, FtQueue, FtValue,
            FtQueued, FtSetters
  <2> QED  BY <2>1, FtAllocKeeps, FtGetEmptyKeeps, FtGetReadyKeeps,
              FtGetWaitingKeeps, FtGetResumeKeeps, FtSetKeeps, FtSetResumeKeeps,
              FtSetReadyKeeps, FtExitKeeps DEF FtNext
<1> QED  BY <1>1, <1>2, PTL DEF FtSpec

\* As long as the lists are sound, the only process that is left waiting for a cell that
\* is set is one the exclusive mode did not remember because it remembers a process that
\* has exited; the queue mode serves whoever waits, and nobody comes out of its wait
\* without a value, for any number of producers and consumers (future_get.c,
\* future_set.c, ready.c).
THEOREM NoConsumerForgotten == FtSpec => []FtNoneForgotten
<1>1. FtInv => FtNoneForgotten
  <2> SUFFICES ASSUME FtInv, ~ftbroken  PROVE FtNoneForgotten
    BY DEF FtNoneForgotten
  <2>1. ASSUME future.state = "ready", future.mode = "shared"  PROVE ftwait = {}
    BY <2>1 DEF FtInv, FtShared, FtQueued
  <2>2. ASSUME future.state = "ready", future.mode = "exclusive", ftwait # {}
        PROVE  future.pid # Nobody /\ ftat[future.pid] = "exited"
    BY <2>2 DEF FtInv, FtExclusive
  <2>3. ASSUME future.mode = "queue"
        PROVE  /\ ftwait \cap Consumers = FtQueued
               /\ ftwait \cap Producers = {future.setq[i] : i \in DOMAIN future.setq}
    BY <2>3 DEF FtInv, FtQueue, FtSetters
  <2>4. \A p \in Consumers \ ftwait : ftat[p] \in {"exclusive", "shared"} => future.value # Nobody
    BY DEF FtInv, FtValue, FtProcs
  <2> QED  BY <2>1, <2>2, <2>3, <2>4 DEF FtNoneForgotten
<1> QED  BY <1>1, FutureInvariance, PTL

(* In the shared mode the lists stay sound. *)
FtSharedSound == future.mode = "shared" => ~ftbroken

\* The shared mode makes nobody ready twice, whatever the order of its callers: the
\* condition of NoConsumerForgotten is met there. The exclusive mode may, since the cell
\* goes on naming the process that waited first, and so may the queue mode, where
\* future_get can be preempted while its entry is in the queue of the cell (future_get.c,
\* future_set.c).
THEOREM SharedFuturesSound == FtSpec => []FtSharedSound
<1>1. FtInv => FtSharedSound
  BY DEF FtInv, FtShared, FtSharedSound
<1> QED  BY <1>1, FutureInvariance, PTL

-----------------------------------------------------------------------------
(* The shell (shell.c) *)

ShInv ==
  /\ ShTypeOK
  /\ shat \in {"created", "cleared"} => shchild \in running \ resumed
  /\ shat = "cleared" => shbox # shchild
  /\ shat = "waiting" => shchild \in Slots /\ (shbox = shchild => ended)
  /\ ShWaitsForOwn

\* A new command has not been resumed: its table entry was free (create.c).
LEMMA CreateKeeps ==
  ASSUME ShInv, NEW c \in Slots, NEW back \in BOOLEAN, ShCreate(c, back)
  PROVE  ShInv'
<1>1. /\ shat = "prompt" /\ c \in Slots \ running /\ running' = running \cup {c}
      /\ shbox' = shbox /\ resumed' = resumed /\ ShTypeOK /\ ShWaitsForOwn
  BY DEF ShCreate, ShInv
<1>2. CASE shat' = "created" /\ shchild' = c /\ shback' = back /\ ended' = FALSE
  <2>1. ShTypeOK'
    BY <1>1, <1>2 DEF ShTypeOK
  <2>2. shchild' \in running' \ resumed'
    BY <1>1, <1>2 DEF ShTypeOK
  <2> QED  BY <1>2, <2>1, <2>2 DEF ShInv, ShWaitsForOwn
<1>3. CASE UNCHANGED <<shat, shchild, shback, ended>>
  <2>1. ShTypeOK'
    BY <1>1, <1>3 DEF ShTypeOK
  <2>2. ShWaitsForOwn'
    BY <1>1, <1>3 DEF ShWaitsForOwn
  <2> QED  BY <1>1, <1>3, <2>1, <2>2 DEF ShInv
<1> QED  BY <1>2, <1>3 DEF ShCreate

\* The mailbox is emptied while the command cannot run (shell.c).
LEMMA RecvclrKeeps ==
  ASSUME ShInv, ShRecvclr
  PROVE  ShInv'
BY ShellAssumption DEF ShInv, ShTypeOK, ShWaitsForOwn, ShRecvclr

\* The command may run, and nobody has put its ID into the mailbox (shell.c).
LEMMA ResumeKeeps ==
  ASSUME ShInv, ShResume
  PROVE  ShInv'
BY ShellAssumption DEF ShInv, ShTypeOK, ShWaitsForOwn, ShResume

\* A notice is taken; if it is the command's, that has ended (shell.c).
LEMMA ReceiveKeeps ==
  ASSUME ShInv, ShReceive
  PROVE  ShInv'
BY ShellAssumption DEF ShInv, ShTypeOK, ShWaitsForOwn, ShReceive

\* A command ends, in the background or not, at any time after it was resumed
\* (kill.c).
LEMMA EndKeeps ==
  ASSUME ShInv, NEW c \in Slots, CommandEnds(c)
  PROVE  ShInv'
BY ShellAssumption DEF ShInv, ShTypeOK, ShWaitsForOwn, CommandEnds

\* When the shell prompts again after a foreground command, that command has ended,
\* although a notice of an earlier process with the same ID may have been waiting in
\* its mailbox (shell.c, kill.c, recvclr.c).
THEOREM NoStaleNotice == ShSpec => []ShWaitsForOwn
<1>1. ShInit => ShInv
  BY ShellAssumption DEF ShInit, ShInv, ShTypeOK, ShWaitsForOwn
<1>2. ShInv /\ [ShNext]_shvars => ShInv'
  <2> SUFFICES ASSUME ShInv, [ShNext]_shvars  PROVE ShInv'
    OBVIOUS
  <2>1. CASE ShExit
    BY <2>1 DEF ShInv, ShTypeOK, ShWaitsForOwn, ShExit
  <2>2. CASE UNCHANGED shvars
    BY <2>2 DEF ShInv, ShTypeOK, ShWaitsForOwn, shvars
  <2> QED  BY <2>1, <2>2, CreateKeeps, RecvclrKeeps, ResumeKeeps, ReceiveKeeps, EndKeeps DEF ShNext
<1>3. ShInv => ShWaitsForOwn
  BY DEF ShInv
<1> QED  BY <1>1, <1>2, <1>3, PTL DEF ShSpec

-----------------------------------------------------------------------------
(* Free memory (getmem.c, getstk.c, freemem.c) *)

MemBlocks == [at : 1 .. HEAP, len : 1 .. HEAP]

(* A list of blocks: where a block ends, whether there is a gap between    *)
(* each block and the next, and the cells of the list                      *)
MbTop(b) == b.at + b.len
MbApart(s) == \A i \in 1 .. Len(s) : i < Len(s) => MbTop(s[i]) < s[i + 1].at
MbCells(s) == UNION {MemCells(s[i]) : i \in 1 .. Len(s)}

\* The fields of the blocks of a list.
LEMMA MbFields ==
  ASSUME NEW s \in Seq(MemBlocks), NEW i \in 1 .. Len(s)
  PROVE  /\ s[i] \in MemBlocks /\ s[i].at \in 1 .. HEAP /\ s[i].len \in 1 .. HEAP
         /\ s[i].at \in Nat /\ s[i].len \in Nat /\ s[i].len > 0 /\ MbTop(s[i]) \in Nat /\ Len(s) \in Nat
<1>1. s[i] \in MemBlocks /\ Len(s) \in Nat
  OBVIOUS
<1> QED  BY <1>1, MemoryAssumption DEF MemBlocks, MbTop

\* What the cells of a block and of a list are.
LEMMA MbIn ==
  ASSUME NEW s \in Seq(MemBlocks), NEW x
  PROVE  x \in MbCells(s) <=> \E i \in 1 .. Len(s) : x \in Int /\ s[i].at <= x /\ x < MbTop(s[i])
<1>1. ASSUME NEW i \in 1 .. Len(s)
      PROVE  x \in MemCells(s[i]) <=> x \in Int /\ s[i].at <= x /\ x < MbTop(s[i])
  BY MbFields DEF MemCells, MbTop
<1> QED  BY <1>1 DEF MbCells

\* Blocks that are apart one by one are apart altogether.
LEMMA MbSorted ==
  ASSUME NEW s \in Seq(MemBlocks), MbApart(s), NEW i \in 1 .. Len(s), NEW j \in 1 .. Len(s), i < j
  PROVE  MbTop(s[i]) < s[j].at
<1> DEFINE T == {k \in 1 .. Len(s) : i < k /\ ~ (MbTop(s[i]) < s[k].at)}
<1>1. SUFFICES ASSUME T # {}  PROVE FALSE
  OBVIOUS
<1>2. T \subseteq Nat
  OBVIOUS
<1>3. PICK k \in T : \A m \in T : k <= m
  <2> HIDE DEF T
  <2> QED  BY <1>1, <1>2, LeastNat
<1>4. k \in 1 .. Len(s) /\ i < k /\ ~ (MbTop(s[i]) < s[k].at)
  OBVIOUS
<1>5. k - 1 \in 1 .. Len(s) /\ k - 1 < Len(s) /\ (k - 1) + 1 = k
  BY <1>4
<1>6. MbTop(s[k - 1]) < s[k].at
  BY <1>5 DEF MbApart
<1>7. CASE k - 1 = i
  BY <1>4, <1>6, <1>7
<1>8. CASE k - 1 # i
  <2>1. i < k - 1 /\ k - 1 \notin T
    BY <1>3, <1>4, <1>5, <1>8
  <2>2. MbTop(s[i]) < s[k - 1].at
    BY <1>5, <2>1
  <2>3. /\ s[k - 1].at \in Nat /\ s[k - 1].len \in Nat /\ MbTop(s[k - 1]) \in Nat /\ MbTop(s[i]) \in Nat
        /\ s[k].at \in Nat /\ MbTop(s[k - 1]) = s[k - 1].at + s[k - 1].len
    <3>1. PICK m \in 1 .. Len(s) : m = k - 1 /\ MbTop(s[m]) = s[m].at + s[m].len
      BY <1>5 DEF MbTop
    <3>2. k \in 1 .. Len(s)
      BY <1>4
    <3> HIDE DEF T
    <3>3. s[m].at \in Nat /\ s[m].len \in Nat /\ MbTop(s[m]) \in Nat
      BY MbFields
    <3>4. s[k].at \in Nat /\ MbTop(s[i]) \in Nat
      BY <3>2, MbFields
    <3> QED  BY <3>1, <3>3, <3>4
  <2> QED  BY <1>4, <1>6, <2>2, <2>3, SMTT(30)
<1> QED  BY <1>7, <1>8

\* An interval of free cells lies in one block: there is a gap behind each.
LEMMA MbFits ==
  ASSUME NEW s \in Seq(MemBlocks), MbApart(s), NEW a \in Nat, NEW n \in Nat \ {0},
         a .. a + n - 1 \subseteq MbCells(s)
  PROVE  \E i \in 1 .. Len(s) : s[i].len >= n /\ s[i].at <= a
<1>1. a \in a .. a + n - 1
  OBVIOUS
<1>2. PICK i \in 1 .. Len(s) : s[i].at <= a /\ a < MbTop(s[i])
  BY <1>1, MbIn
<1>3. s[i].at \in Nat /\ s[i].len \in Nat /\ MbTop(s[i]) \in Nat /\ MbTop(s[i]) = s[i].at + s[i].len
  BY MbFields DEF MbTop
<1>4. SUFFICES ASSUME MbTop(s[i]) < a + n  PROVE FALSE
  BY <1>2, <1>3
<1>5. MbTop(s[i]) \in a .. a + n - 1
  BY <1>2, <1>3, <1>4
<1>6. PICK j \in 1 .. Len(s) : s[j].at <= MbTop(s[i]) /\ MbTop(s[i]) < MbTop(s[j])
  BY <1>5, MbIn
<1>7. s[j].at \in Nat /\ s[j].len \in Nat /\ MbTop(s[j]) \in Nat /\ MbTop(s[j]) = s[j].at + s[j].len
  BY MbFields DEF MbTop
<1>8. i # j
  BY <1>3, <1>6
<1>9. CASE i < j
  BY <1>3, <1>6, <1>7, <1>9, MbSorted
<1>10. CASE j < i
  <2>1. MbTop(s[j]) < s[i].at
    BY <1>10, MbSorted
  <2> QED  BY <1>3, <1>6, <1>7, <2>1
<1> QED  BY <1>8, <1>9, <1>10
\* A set of indices that with each contains all the smaller ones.
LEMMA MbInitial ==
  ASSUME NEW L \in Nat, NEW S, S \subseteq 1 .. L, \A i \in S : \A j \in 1 .. i : j \in S
  PROVE  Cardinality(S) \in 0 .. L /\ S = 1 .. Cardinality(S)
<1> DEFINE T == {k \in Nat : k > 0 /\ k \notin S}
<1>1. T \subseteq Nat /\ L + 1 \in T
  OBVIOUS
<1>2. PICK m \in T : \A k \in T : m <= k
  <2> HIDE DEF T
  <2> QED  BY <1>1, LeastNat
<1>3. m \in Nat /\ m > 0 /\ m \notin S /\ m <= L + 1
  BY <1>1, <1>2
<1>4. \A j \in 1 .. m - 1 : j \in S
  BY <1>2, <1>3
<1>5. \A j \in S : j \in 1 .. m - 1
  <2> SUFFICES ASSUME NEW j \in S, j >= m  PROVE FALSE
    BY <1>3
  <2>1. m \in 1 .. j
    BY <1>3
  <2> QED  BY <1>3, <2>1
<1>6. S = 1 .. m - 1
  BY <1>4, <1>5
<1>7. Cardinality(1 .. m - 1) = m - 1
  BY <1>3, FS_Interval
<1> QED  BY <1>3, <1>6, <1>7

\* Where freemem's scan stops: before it are exactly the blocks that begin below the one
\* to be freed (freemem.c).
LEMMA BelowIs ==
  ASSUME memlist \in Seq(MemBlocks), MbApart(memlist), NEW a \in Nat
  PROVE  /\ Below(a) \in 0 .. Len(memlist)
         /\ \A i \in 1 .. Len(memlist) : memlist[i].at < a <=> i <= Below(a)
<1> DEFINE S == {i \in 1 .. Len(memlist) : memlist[i].at < a}
<1>1. DOMAIN memlist = 1 .. Len(memlist) /\ Len(memlist) \in Nat
  OBVIOUS
<1>2. Below(a) = Cardinality(S)
  BY <1>1 DEF Below
<1>3. \A i \in S : \A j \in 1 .. i : j \in S
  <2> SUFFICES ASSUME NEW i \in S, NEW j \in 1 .. i  PROVE j \in S
    OBVIOUS
  <2>1. i \in 1 .. Len(memlist) /\ j \in 1 .. Len(memlist) /\ memlist[i].at < a
    BY <1>1
  <2>2. CASE i = j
    BY <2>2
  <2>3. CASE i # j
    <3>1. MbTop(memlist[j]) < memlist[i].at
      BY <2>1, <2>3, MbSorted
    <3>2. memlist[j].at \in Nat /\ memlist[j].len \in Nat /\ memlist[i].at \in Nat
            /\ MbTop(memlist[j]) = memlist[j].at + memlist[j].len
      BY <2>1, MbFields DEF MbTop
    <3> QED  BY <2>1, <3>1, <3>2
  <2> QED  BY <2>2, <2>3
<1>4. S \subseteq 1 .. Len(memlist)
  OBVIOUS
<1>5. Cardinality(S) \in 0 .. Len(memlist) /\ S = 1 .. Cardinality(S)
  <2> HIDE DEF S
  <2> QED  BY <1>1, <1>3, <1>4, MbInitial
<1>6. ASSUME NEW i \in 1 .. Len(memlist)  PROVE memlist[i].at < a <=> i <= Below(a)
  <2>1. memlist[i].at < a <=> i \in S
    OBVIOUS
  <2> HIDE DEF S
  <2> QED  BY <1>2, <1>5, <2>1
<1> QED  BY <1>2, <1>5, <1>6

\* A request is for at least one unit (memory.h).
LEMMA RoundmbIs ==
  ASSUME NEW bytes \in Requests
  PROVE  Roundmb(bytes) \in Nat \ {0}
<1>1. bytes \in Nat \ {0} /\ UNIT \in Nat \ {0}
  BY MemoryAssumption
<1>2. PICK x \in Nat : x = bytes + UNIT - 1
  BY <1>1
<1>3. x >= UNIT
  BY <1>1, <1>2
<1>4. x \div UNIT \in Nat
  BY <1>1
<1>5. x \div UNIT # 0
  BY <1>1, <1>3
<1> QED  BY <1>2, <1>4, <1>5 DEF Roundmb

(* Cell x lies in block b. *)
MbHas(b, x) == x \in Int /\ b.at <= x /\ x < MbTop(b)

\* No cell lies in two blocks of a list.
LEMMA MbOnce ==
  ASSUME NEW s \in Seq(MemBlocks), MbApart(s), NEW i \in 1 .. Len(s), NEW j \in 1 .. Len(s),
         NEW x, MbHas(s[i], x), MbHas(s[j], x)
  PROVE  i = j
<1>1. /\ s[i].at \in Nat /\ s[j].at \in Nat /\ MbTop(s[i]) \in Nat /\ MbTop(s[j]) \in Nat
  BY MbFields
<1>2. ~ (i < j)
  <2> SUFFICES ASSUME i < j  PROVE FALSE
    OBVIOUS
  <2>1. MbTop(s[i]) < s[j].at
    BY MbSorted
  <2> QED  BY <1>1, <2>1 DEF MbHas
<1>3. ~ (j < i)
  <2> SUFFICES ASSUME j < i  PROVE FALSE
    OBVIOUS
  <2>1. MbTop(s[j]) < s[i].at
    BY MbSorted
  <2> QED  BY <1>1, <2>1 DEF MbHas
<1> QED  BY <1>2, <1>3

\* Block b takes the place of blocks lo to hi of list s, of none of them if hi = lo - 1.
MbSplice(s, lo, hi, b) == SubSeq(s, 1, lo - 1) \o <<b>> \o SubSeq(s, hi + 1, Len(s))

MbPlaces(s, lo, hi, b, t) ==
  /\ t \in Seq(MemBlocks) /\ Len(t) = lo + Len(s) - hi /\ t[lo] = b
  /\ \A k \in 1 .. lo - 1 : t[k] = s[k]
  /\ \A k \in lo + 1 .. Len(t) : t[k] = s[k - lo + hi] /\ k - lo + hi \in hi + 1 .. Len(s)

\* Where the blocks end up.
LEMMA MbSpliced ==
  ASSUME NEW s \in Seq(MemBlocks), NEW lo \in Nat \ {0}, NEW hi \in Nat, lo - 1 <= hi, hi <= Len(s),
         NEW b \in MemBlocks, NEW t, t = MbSplice(s, lo, hi, b)
  PROVE  MbPlaces(s, lo, hi, b, t)
<1> DEFINE u == SubSeq(s, 1, lo - 1)
           v == SubSeq(s, hi + 1, Len(s))
<1>1. Len(s) \in Nat /\ \A j \in 1 .. Len(s) : s[j] \in MemBlocks
  BY LenProperties, ElementOfSeq
<1>2. /\ u \in Seq(MemBlocks) /\ Len(u) = lo - 1
      /\ \A j \in 1 .. lo - 1 : u[j] = s[j]
  BY <1>1, SubSeqProperties
<1>3. /\ v \in Seq(MemBlocks) /\ Len(v) = Len(s) - hi
      /\ \A j \in 1 .. Len(s) - hi : v[j] = s[hi + j]
  BY <1>1, SubSeqProperties
<1> HIDE DEF u, v
<1>4. <<b>> \in Seq(MemBlocks) /\ Len(<<b>>) = 1 /\ <<b>>[1] = b
  OBVIOUS
<1>5. /\ u \o <<b>> \in Seq(MemBlocks) /\ Len(u \o <<b>>) = lo
      /\ \A j \in 1 .. lo : (u \o <<b>>)[j] = IF j <= lo - 1 THEN u[j] ELSE b
  BY <1>2, <1>4, ConcatProperties
<1>6. PICK w : w = u \o <<b>>
  OBVIOUS
<1>7. t = w \o v
  BY <1>6 DEF MbSplice, u, v
<1>8. /\ t \in Seq(MemBlocks) /\ Len(t) = lo + (Len(s) - hi)
      /\ \A j \in 1 .. lo + (Len(s) - hi) : t[j] = IF j <= lo THEN w[j] ELSE v[j - lo]
  <2>1. w \in Seq(MemBlocks) /\ Len(w) = lo
    BY <1>5, <1>6
  <2>2. /\ w \o v \in Seq(MemBlocks) /\ Len(w \o v) = Len(w) + Len(v)
        /\ \A j \in 1 .. Len(w) + Len(v) : (w \o v)[j] = IF j <= Len(w) THEN w[j] ELSE v[j - Len(w)]
    BY <1>3, <2>1, ConcatProperties
  <2> QED  BY <1>3, <1>7, <2>1, <2>2
<1>9. Len(t) = lo + Len(s) - hi
  BY <1>1, <1>8
<1>10. t[lo] = b /\ \A k \in 1 .. lo - 1 : t[k] = s[k]
  <2>1. ASSUME NEW k \in 1 .. lo  PROVE t[k] = IF k <= lo - 1 THEN u[k] ELSE b
    <3>1. k \in 1 .. lo + (Len(s) - hi) /\ k <= lo
      BY <1>1
    <3>2. t[k] = w[k]
      BY <1>8, <3>1
    <3> QED  BY <1>5, <1>6, <3>2
  <2> QED  BY <1>2, <2>1
<1>11. ASSUME NEW k \in lo + 1 .. Len(t)
       PROVE  t[k] = s[k - lo + hi] /\ k - lo + hi \in hi + 1 .. Len(s)
  <2>1. k - lo \in 1 .. Len(s) - hi /\ ~ (k <= lo) /\ k \in 1 .. lo + (Len(s) - hi)
    BY <1>1, <1>9
  <2>2. t[k] = v[k - lo]
    BY <1>8, <2>1
  <2>3. v[k - lo] = s[hi + (k - lo)] /\ hi + (k - lo) = k - lo + hi
    BY <1>3, <2>1
  <2> QED  BY <1>1, <2>1, <2>2, <2>3
<1> QED  BY <1>8, <1>9, <1>10, <1>11 DEF MbPlaces

\* The list stays apart if there is a gap before and behind the new block, and its cells
\* are those of the blocks that stay and of the new one.
LEMMA MbSplicedApart ==
  ASSUME NEW s \in Seq(MemBlocks), MbApart(s), NEW lo \in Nat \ {0}, NEW hi \in Nat, lo - 1 <= hi, hi <= Len(s),
         NEW b \in MemBlocks, NEW t, t = MbSplice(s, lo, hi, b),
         \A k \in 1 .. Len(s) : (k < lo => MbTop(s[k]) < b.at) /\ (k > hi => MbTop(b) < s[k].at)
  PROVE  /\ t \in Seq(MemBlocks) /\ MbApart(t)
         /\ \A x : x \in MbCells(t) <=>
                     MbHas(b, x) \/ \E k \in 1 .. Len(s) : (k < lo \/ k > hi) /\ MbHas(s[k], x)
<1>1. /\ t \in Seq(MemBlocks) /\ Len(t) = lo + Len(s) - hi /\ t[lo] = b
      /\ \A k \in 1 .. lo - 1 : t[k] = s[k]
      /\ \A k \in lo + 1 .. Len(t) : t[k] = s[k - lo + hi] /\ k - lo + hi \in hi + 1 .. Len(s)
  <2>1. MbPlaces(s, lo, hi, b, t)
    BY MbSpliced
  <2> QED  BY <2>1, Zenon DEF MbPlaces
<1>2. Len(s) \in Nat /\ Len(t) \in Nat
  BY <1>1, LenProperties
<1>3. ASSUME NEW i \in 1 .. Len(t), i < Len(t)  PROVE MbTop(t[i]) < t[i + 1].at
  <2>1. CASE i + 1 < lo
    <3>1. i \in 1 .. lo - 1 /\ i + 1 \in 1 .. lo - 1 /\ i \in 1 .. Len(s) /\ i < Len(s)
      BY <1>2, <1>3, <2>1
    <3>2. t[i] = s[i] /\ t[i + 1] = s[i + 1]
      BY <1>1, <3>1
    <3> QED  BY <3>1, <3>2 DEF MbApart
  <2>2. CASE i + 1 = lo
    <3>1. i \in 1 .. lo - 1 /\ i \in 1 .. Len(s) /\ i < lo
      BY <1>2, <1>3, <2>2
    <3>2. t[i] = s[i] /\ t[i + 1] = b
      BY <1>1, <2>2, <3>1
    <3> QED  BY <3>1, <3>2
  <2>3. CASE i = lo
    <3>1. i + 1 \in lo + 1 .. Len(t) /\ i + 1 - lo + hi = hi + 1
      BY <1>2, <1>3, <2>3
    <3>2. t[i + 1] = s[hi + 1] /\ hi + 1 \in 1 .. Len(s) /\ hi + 1 > hi
      BY <1>1, <1>2, <3>1
    <3> QED  BY <1>1, <2>3, <3>2
  <2>4. CASE i > lo
    <3>1. i \in lo + 1 .. Len(t) /\ i + 1 \in lo + 1 .. Len(t)
      BY <1>2, <1>3, <2>4
    <3>2. PICK k \in hi + 1 .. Len(s) : k = i - lo + hi /\ t[i] = s[k]
      BY <1>1, <3>1
    <3>3. t[i + 1] = s[k + 1] /\ k + 1 \in hi + 1 .. Len(s)
      <4>1. i + 1 - lo + hi = k + 1
        BY <1>2, <3>2
      <4> QED  BY <1>1, <3>1, <4>1
    <3>4. k \in 1 .. Len(s) /\ k < Len(s)
      BY <1>2, <3>3
    <3> QED  BY <3>2, <3>3, <3>4 DEF MbApart
  <2> QED  BY <1>2, <1>3, <2>1, <2>2, <2>3, <2>4
<1>4. ASSUME NEW x
      PROVE  x \in MbCells(t) <=>
               MbHas(b, x) \/ \E k \in 1 .. Len(s) : (k < lo \/ k > hi) /\ MbHas(s[k], x)
  <2>1. x \in MbCells(t) <=> \E i \in 1 .. Len(t) : MbHas(t[i], x)
    BY <1>1, MbIn DEF MbHas
  <2>2. ASSUME NEW i \in 1 .. Len(t), MbHas(t[i], x)
        PROVE  MbHas(b, x) \/ \E k \in 1 .. Len(s) : (k < lo \/ k > hi) /\ MbHas(s[k], x)
    <3>1. CASE i < lo
      <4>1. i \in 1 .. Len(s) /\ t[i] = s[i]
        BY <1>1, <1>2, <3>1
      <4> QED  BY <2>2, <3>1, <4>1
    <3>2. CASE i = lo
      BY <1>1, <2>2, <3>2
    <3>3. CASE i > lo
      <4>1. i \in lo + 1 .. Len(t)
        BY <1>2, <3>3
      <4>2. PICK k \in hi + 1 .. Len(s) : t[i] = s[k]
        BY <1>1, <4>1
      <4>3. k \in 1 .. Len(s) /\ k > hi
        BY <1>2
      <4> QED  BY <2>2, <4>2, <4>3
    <3> QED  BY <1>2, <3>1, <3>2, <3>3
  <2>3. ASSUME MbHas(b, x)  PROVE \E i \in 1 .. Len(t) : MbHas(t[i], x)
    <3>1. lo \in 1 .. Len(t)
      BY <1>1, <1>2
    <3> QED  BY <1>1, <2>3, <3>1
  <2>4. ASSUME NEW k \in 1 .. Len(s), k < lo \/ k > hi, MbHas(s[k], x)
        PROVE  \E i \in 1 .. Len(t) : MbHas(t[i], x)
    <3>1. CASE k < lo
      <4>1. Len(t) = lo + Len(s) - hi
        BY <1>1
      <4>2. k \in 1 .. lo - 1 /\ k \in 1 .. Len(t)
        BY <1>2, <3>1, <4>1
      <4>3. t[k] = s[k]
        BY <1>1, <4>2, Zenon
      <4> QED  BY <2>4, <4>2, <4>3
    <3>2. CASE k > hi
      <4>0. Len(t) = lo + Len(s) - hi
        BY <1>1
      <4>1. PICK i \in lo + 1 .. Len(t) : i = k - hi + lo
        <5>1. k - hi + lo \in lo + 1 .. Len(t)
          BY <1>2, <3>2, <4>0
        <5> QED  BY <5>1, Zenon
      <4>2. i - lo + hi = k /\ i \in 1 .. Len(t)
        BY <1>2, <4>1
      <4>3. t[i] = s[k]
        BY <1>1, <4>2
      <4> QED  BY <2>4, <4>2, <4>3
    <3> QED  BY <2>4, <3>1, <3>2
  <2> QED  BY <2>1, <2>2, <2>3, <2>4
<1> QED  BY <1>1, <1>3, <1>4 DEF MbApart

(* List t is list s without the n cells from a on. *)
MbWithout(s, a, n, t) ==
  /\ t \in Seq(MemBlocks) /\ MbApart(t)
  /\ \A x : x \in MbCells(t) <=> x \in MbCells(s) /\ ~MbHas(MemBlock(a, n), x)

\* A block leaves the list as a whole (getmem.c, getstk.c).
LEMMA MbLeaves ==
  ASSUME NEW s \in Seq(MemBlocks), MbApart(s), NEW i \in 1 .. Len(s)
  PROVE  MbWithout(s, s[i].at, s[i].len, RemoveAt(s, i))
<1>1. PICK t : t = RemoveAt(s, i)
  OBVIOUS
<1>2. Len(s) \in Nat
  BY LenProperties
<1>3. /\ t \in Seq(MemBlocks) /\ Len(t) = Len(s) - 1
      /\ \A j \in 1 .. Len(s) - 1 : t[j] = IF j < i THEN s[j] ELSE s[j + 1]
  BY <1>1, RemoveAtFacts DEF RemovedAt
<1>4. ASSUME NEW j \in 1 .. Len(t), j < Len(t)  PROVE MbTop(t[j]) < t[j + 1].at
  <2>1. PICK k, m \in 1 .. Len(s) : k < m /\ t[j] = s[k] /\ t[j + 1] = s[m]
    <3>1. /\ j \in 1 .. Len(s) - 1 /\ j + 1 \in 1 .. Len(s) - 1 /\ j + 2 \in 1 .. Len(s)
          /\ j \in 1 .. Len(s) /\ j + 1 \in 1 .. Len(s) /\ j < j + 1 /\ j < j + 2 /\ j + 1 < j + 2
      BY <1>2, <1>3, <1>4
    <3>2. (t[j] = IF j < i THEN s[j] ELSE s[j + 1]) /\ (t[j + 1] = IF j + 1 < i THEN s[j + 1] ELSE s[j + 2])
      <4>1. (j + 1) + 1 = j + 2
        BY <3>1
      <4> QED  BY <1>3, <3>1, <4>1
    <3>3. CASE j + 1 < i
      BY <3>1, <3>2, <3>3
    <3>4. CASE j < i /\ ~ (j + 1 < i)
      BY <3>1, <3>2, <3>4
    <3>5. CASE ~ (j < i)
      <4>1. ~ (j + 1 < i)
        BY <3>1, <3>5
      <4> QED  BY <3>1, <3>2, <3>5, <4>1
    <3> QED  BY <3>3, <3>4, <3>5
  <2> QED  BY <2>1, MbSorted
<1>5. ASSUME NEW x
      PROVE  x \in MbCells(t) <=> x \in MbCells(s) /\ ~MbHas(s[i], x)
  <2>1. /\ x \in MbCells(t) <=> \E j \in 1 .. Len(t) : MbHas(t[j], x)
        /\ x \in MbCells(s) <=> \E j \in 1 .. Len(s) : MbHas(s[j], x)
    BY <1>3, MbIn DEF MbHas
  <2>2. ASSUME NEW j \in 1 .. Len(t), MbHas(t[j], x)
        PROVE  \E k \in 1 .. Len(s) : MbHas(s[k], x) /\ k # i
    <3>1. PICK k \in 1 .. Len(s) : t[j] = s[k] /\ k # i
      BY <1>2, <1>3
    <3> QED  BY <2>2, <3>1
  <2>3. ASSUME NEW k \in 1 .. Len(s), MbHas(s[k], x), k # i
        PROVE  \E j \in 1 .. Len(t) : MbHas(t[j], x)
    <3>1. CASE k < i
      <4>1. k \in 1 .. Len(t) /\ t[k] = s[k]
        BY <1>2, <1>3, <3>1
      <4> QED  BY <2>3, <4>1
    <3>2. CASE k > i
      <4>1. k - 1 \in 1 .. Len(t) /\ t[k - 1] = s[k]
        BY <1>2, <1>3, <3>2
      <4> QED  BY <2>3, <4>1
    <3> QED  BY <1>2, <2>3, <3>1, <3>2
  <2>4. \A k \in 1 .. Len(s) : MbHas(s[k], x) /\ MbHas(s[i], x) => k = i
    BY MbOnce
  <2> QED  BY <2>1, <2>2, <2>3, <2>4
<1>6. \A x : MbHas(s[i], x) <=> MbHas(MemBlock(s[i].at, s[i].len), x)
  BY DEF MbHas, MbTop, MemBlock
<1> QED  BY <1>1, <1>3, <1>4, <1>5, <1>6 DEF MbWithout, MbApart

\* A list of cells of the heap ends with the heap.
LEMMA MbInside ==
  ASSUME NEW s \in Seq(MemBlocks), MbCells(s) \subseteq 1 .. HEAP, NEW i \in 1 .. Len(s)
  PROVE  MbTop(s[i]) <= HEAP + 1
<1>1. s[i].at \in Nat /\ s[i].len \in Nat \ {0} /\ MbTop(s[i]) = s[i].at + s[i].len
  BY MbFields DEF MbTop
<1>2. MbTop(s[i]) - 1 \in MbCells(s)
  <2> DEFINE x == MbTop(s[i]) - 1
  <2>1. \A at, len, top : at \in Nat /\ len \in Nat \ {0} /\ top = at + len =>
          top - 1 \in Int /\ at <= top - 1 /\ top - 1 < top
    OBVIOUS
  <2>2. x \in Int /\ s[i].at <= x /\ x < MbTop(s[i])
    BY <1>1, <2>1, Zenon
  <2> HIDE DEF x
  <2>3. x \in MbCells(s)
    BY <2>2, MbIn
  <2> QED  BY <2>3 DEF x
<1> QED  BY <1>1, <1>2, MemoryAssumption

\* Block r gives n cells at one end: the n from a on go, those from b on stay.
LEMMA MbShrunk ==
  ASSUME NEW r \in MemBlocks, NEW n \in Nat \ {0}, n < r.len, NEW a, NEW b,
         (a = r.at /\ b = a + n) \/ (a = r.at + r.len - n /\ b = r.at)
  PROVE  \A x : MbHas(MemBlock(b, r.len - n), x) <=> MbHas(r, x) /\ ~MbHas(MemBlock(a, n), x)
<1> SUFFICES ASSUME NEW x \in Int
             PROVE  (b <= x /\ x < b + (r.len - n)) <=>
                      (/\ r.at <= x /\ x < r.at + r.len
                       /\ ~ (a <= x /\ x < a + n))
  BY DEF MbHas, MbTop, MemBlock
<1>1. r.at \in Nat /\ r.len \in Nat
  BY MemoryAssumption DEF MemBlocks
<1>2. CASE a = r.at /\ b = a + n
  BY <1>1, <1>2
<1>3. CASE a = r.at + r.len - n /\ b = r.at
  BY <1>1, <1>3
<1> QED  BY <1>2, <1>3

\* A block gives up cells at its bottom or at its top (getmem.c, getstk.c).
LEMMA MbShrinks ==
  ASSUME NEW s \in Seq(MemBlocks), MbApart(s), NEW i \in 1 .. Len(s), MbTop(s[i]) <= HEAP + 1,
         NEW n \in Nat \ {0}, n < s[i].len, NEW a, NEW b,
         (a = s[i].at /\ b = a + n) \/ (a = s[i].at + s[i].len - n /\ b = s[i].at)
  PROVE  MbWithout(s, a, n, [s EXCEPT ![i] = MemBlock(b, s[i].len - n)])
<1> DEFINE m == MemBlock(b, s[i].len - n)
<1>1. PICK t : t = [s EXCEPT ![i] = m]
  OBVIOUS
<1>2. /\ Len(s) \in Nat /\ s[i].at \in Nat /\ s[i].len \in Nat /\ s[i].at \in 1 .. HEAP /\ s[i].len \in 1 .. HEAP
      /\ MbTop(s[i]) = s[i].at + s[i].len
  BY LenProperties, MbFields DEF MbTop
<1>3. /\ a \in Nat /\ b \in Nat /\ s[i].at <= b /\ m.at = b /\ m.len = s[i].len - n /\ MbTop(m) = b + (s[i].len - n)
      /\ MbTop(m) <= MbTop(s[i])
  BY <1>2, SMTT(20) DEF MemBlock, MbTop
<1>4. m \in MemBlocks
  <2>1. b \in 1 .. HEAP /\ s[i].len - n \in 1 .. HEAP
    <3> HIDE DEF m
    <3>1. HEAP \in Nat
      BY MemoryAssumption
    <3>2. PICK d \in Nat \ {0} : d = s[i].len - n
      BY <1>2
    <3>3. b + d <= HEAP + 1 /\ d <= HEAP
      <4>1. MbTop(m) = b + d /\ d <= s[i].len
        BY <1>2, <1>3, <3>2
      <4>2. PICK y \in Nat : y = MbTop(s[i]) /\ y <= HEAP + 1 /\ b + d <= y
        BY <1>2, <1>3, <4>1
      <4>3. d <= HEAP
        BY <1>2, <3>1, <3>2, <4>1
      <4> QED  BY <1>3, <3>1, <3>2, <4>2, <4>3
    <3>4. b \in Nat /\ b >= 1
      BY <1>2, <1>3
    <3>5. b <= HEAP
      BY <3>1, <3>2, <3>3, <3>4
    <3> QED  BY <3>1, <3>2, <3>3, <3>4, <3>5
  <2> QED  BY <2>1 DEF MemBlocks, MemBlock
<1>5. \A x : MbHas(m, x) <=> MbHas(s[i], x) /\ ~MbHas(MemBlock(a, n), x)
  <2>1. s[i] \in MemBlocks
    BY MbFields
  <2> QED  BY <2>1, MbShrunk, ZenonT(40)
<1> HIDE DEF m
<1>6. t \in Seq(MemBlocks) /\ Len(t) = Len(s) /\ \A j \in 1 .. Len(s) : t[j] = IF j = i THEN m ELSE s[j]
  BY <1>1, <1>4
<1>7. ASSUME NEW j \in 1 .. Len(t), j < Len(t)  PROVE MbTop(t[j]) < t[j + 1].at
  <2>1. j \in 1 .. Len(s) /\ j + 1 \in 1 .. Len(s) /\ MbTop(s[j]) < s[j + 1].at
    BY <1>2, <1>6, <1>7 DEF MbApart
  <2>2. MbTop(t[j]) <= MbTop(s[j]) /\ s[j + 1].at <= t[j + 1].at
    <3>1. MbTop(s[j]) \in Nat /\ s[j + 1].at \in Nat
      BY <2>1, MbFields
    <3> QED  BY <1>3, <1>6, <2>1, <3>1
  <2>3. /\ MbTop(s[j]) \in Nat /\ s[j + 1].at \in Nat /\ MbTop(t[j]) \in Nat /\ t[j + 1].at \in Nat
    BY <1>6, <1>7, <2>1, MbFields
  <2> QED  BY <2>1, <2>2, <2>3
<1>8. ASSUME NEW x
      PROVE  x \in MbCells(t) <=> x \in MbCells(s) /\ ~MbHas(MemBlock(a, n), x)
  <2>1. /\ x \in MbCells(t) <=> \E j \in 1 .. Len(s) : MbHas(t[j], x)
        /\ x \in MbCells(s) <=> \E j \in 1 .. Len(s) : MbHas(s[j], x)
    BY <1>6, MbIn DEF MbHas
  <2>2. \A j \in 1 .. Len(s) : MbHas(s[j], x) /\ MbHas(s[i], x) => j = i
    BY MbOnce
  <2>3. MbHas(MemBlock(a, n), x) => MbHas(s[i], x)
    <3>1. ASSUME x \in Int, a <= x, x < a + n  PROVE s[i].at <= x /\ x < s[i].at + s[i].len
      BY <1>2, <1>3, <3>1, SMTT(20)
    <3> QED  BY <1>2, <3>1 DEF MbHas, MbTop, MemBlock
  <2> QED  BY <1>5, <1>6, <2>1, <2>2, <2>3
<1> QED  BY <1>1, <1>6, <1>7, <1>8 DEF MbWithout, MbApart, m

\* What getmem and getstk leave of the list (getmem.c, getstk.c).
LEMMA UnlinkIs ==
  ASSUME memlist \in Seq(MemBlocks), MbApart(memlist), MbCells(memlist) \subseteq 1 .. HEAP,
         NEW i \in 1 .. Len(memlist), NEW n \in Nat \ {0}, memlist[i].len >= n, NEW a,
         a = memlist[i].at \/ a = memlist[i].at + memlist[i].len - n
  PROVE  MbWithout(memlist, a, n, Unlink(i, a, n))
<1>1. PICK s : s = memlist
  OBVIOUS
<1>2. s \in Seq(MemBlocks) /\ MbApart(s) /\ i \in 1 .. Len(s) /\ MbTop(s[i]) <= HEAP + 1
  BY <1>1, MbInside
<1>3. s[i].at \in Nat /\ s[i].len \in Nat
  BY <1>2, MbFields
<1>4. CASE s[i].len = n
  <2>1. a = s[i].at /\ Unlink(i, a, n) = RemoveAt(s, i)
    BY <1>1, <1>3, <1>4 DEF Unlink
  <2> QED  BY <1>1, <1>2, <1>4, <2>1, MbLeaves
<1>5. CASE s[i].len # n
  <2>1. n < s[i].len
    BY <1>1, <1>3, <1>5
  <2>2. PICK b : b = IF a = s[i].at THEN a + n ELSE s[i].at
    OBVIOUS
  <2>3. (a = s[i].at /\ b = a + n) \/ (a = s[i].at + s[i].len - n /\ b = s[i].at)
    <3>1. a = s[i].at \/ a = s[i].at + s[i].len - n
      BY <1>1
    <3>2. CASE a = s[i].at
      <4>1. b = a + n
        BY <2>2, <3>2
      <4> QED  BY <3>2, <4>1
    <3>3. CASE a # s[i].at
      BY <2>2, <3>1, <3>3, Zenon
    <3> QED  BY <3>2, <3>3
  <2>4. Unlink(i, a, n) = [s EXCEPT ![i] = MemBlock(b, s[i].len - n)]
    BY <1>1, <1>5, <2>2, Zenon DEF Unlink
  <2>5. MbWithout(s, a, n, [s EXCEPT ![i] = MemBlock(b, s[i].len - n)])
    BY <1>2, <2>1, <2>3, MbShrinks
  <2> QED  BY <1>1, <2>4, <2>5, Zenon
<1> QED  BY <1>4, <1>5

\* freemem's test finds out exactly whether a cell of the block is free already, although
\* it looks at the two neighbours only (freemem.c).
LEMMA OverlapsIs ==
  ASSUME memlist \in Seq(MemBlocks), MbApart(memlist), NEW a \in Nat, NEW n \in Nat \ {0}
  PROVE  Overlaps(a, n) <=> \E x \in MbCells(memlist) : a <= x /\ x < a + n
<1>1. PICK s : s = memlist
  OBVIOUS
<1>2. s \in Seq(MemBlocks) /\ MbApart(s) /\ Len(s) \in Nat
  BY <1>1, LenProperties
<1>3. PICK i \in 0 .. Len(s) : i = Below(a) /\ \A k \in 1 .. Len(s) : s[k].at < a <=> k <= i
  BY <1>1, BelowIs
<1>4. Overlaps(a, n) <=> \/ i > 0 /\ a < MbTop(s[i])
                         \/ i < Len(s) /\ a + n > s[i + 1].at
  BY <1>1, <1>3 DEF Overlaps, MemTop, MbTop
<1>5. ASSUME i > 0, a < MbTop(s[i])  PROVE \E x \in MbCells(s) : a <= x /\ x < a + n
  <2>1. i \in 1 .. Len(s) /\ s[i].at < a
    BY <1>2, <1>3, <1>5
  <2>2. a \in MbCells(s)
    <3>1. s[i].at \in Nat
      BY <1>2, <2>1, MbFields
    <3>2. s[i].at <= a /\ a \in Int
      BY <2>1, <3>1
    <3> QED  BY <1>2, <1>5, <2>1, <3>2, MbIn
  <2> QED  BY <2>2
<1>6. ASSUME i < Len(s), a + n > s[i + 1].at  PROVE \E x \in MbCells(s) : a <= x /\ x < a + n
  <2>1. i + 1 \in 1 .. Len(s) /\ ~ (i + 1 <= i)
    BY <1>2, <1>3, <1>6
  <2>2. PICK x \in Nat : x = s[i + 1].at /\ x < MbTop(s[i + 1])
    <3>1. s[i + 1].at \in Nat /\ s[i + 1].len \in Nat \ {0}
      BY <1>2, <2>1, MbFields
    <3> QED  BY <3>1 DEF MbTop
  <2>3. a <= x /\ x < a + n
    BY <1>3, <1>6, <2>1, <2>2
  <2>4. x \in MbCells(s)
    BY <1>2, <2>1, <2>2, MbIn
  <2> QED  BY <2>3, <2>4
<1>7. ASSUME NEW x \in MbCells(s), a <= x, x < a + n
      PROVE  (i > 0 /\ a < MbTop(s[i])) \/ (i < Len(s) /\ a + n > s[i + 1].at)
  <2>1. PICK k \in 1 .. Len(s) : x \in Int /\ s[k].at <= x /\ x < MbTop(s[k])
    BY <1>2, MbIn
  <2>2. s[k].at \in Nat /\ MbTop(s[k]) \in Nat
    BY <1>2, MbFields
  <2>3. CASE k <= i
    <3>1. i \in 1 .. Len(s) /\ i > 0
      BY <1>2, <2>3
    <3>2. MbTop(s[i]) \in Nat /\ s[i].at \in Nat /\ s[i].at <= MbTop(s[i])
      BY <1>2, <3>1, MbFields DEF MbTop
    <3>3. MbTop(s[k]) <= MbTop(s[i])
      <4>1. CASE k = i
        BY <4>1, <2>2
      <4>2. CASE k < i
        <5>1. MbTop(s[k]) < s[i].at
          BY <1>2, <3>1, <4>2, MbSorted
        <5> QED  BY <2>2, <3>2, <5>1
      <4> QED  BY <1>2, <2>3, <4>1, <4>2
    <3>4. a <= x /\ x < MbTop(s[k]) /\ x \in Int
      BY <1>7, <2>1
    <3>5. a < MbTop(s[i])
      BY <2>2, <3>2, <3>3, <3>4
    <3> QED  BY <3>1, <3>5
  <2>4. CASE k > i
    <3>1. i + 1 \in 1 .. Len(s) /\ i < Len(s)
      BY <1>2, <2>4
    <3>2. s[i + 1].at \in Nat /\ MbTop(s[i + 1]) \in Nat /\ s[i + 1].at <= MbTop(s[i + 1])
      BY <1>2, <3>1, MbFields DEF MbTop
    <3>3. s[i + 1].at <= s[k].at
      <4>1. CASE k = i + 1
        BY <4>1, <2>2
      <4>2. CASE i + 1 < k
        <5>1. MbTop(s[i + 1]) < s[k].at
          BY <1>2, <3>1, <4>2, MbSorted
        <5> QED  BY <2>2, <3>2, <5>1
      <4> QED  BY <1>2, <2>4, <4>1, <4>2
    <3> QED  BY <1>7, <2>1, <2>2, <3>1, <3>2, <3>3, SMTT(20)
  <2> QED  BY <1>2, <2>3, <2>4
<1> QED  BY <1>1, <1>4, <1>5, <1>6, <1>7

(* List t is list s with the n cells from a on. *)
MbWith(s, a, n, t) ==
  /\ t \in Seq(MemBlocks) /\ MbApart(t)
  /\ \A x : x \in MbCells(t) <=> x \in MbCells(s) \/ MbHas(MemBlock(a, n), x)

\* Blocks lo to hi and the n cells from a on make up block b.
LEMMA MbJoined ==
  ASSUME NEW s \in Seq(MemBlocks), MbApart(s), NEW lo \in Nat \ {0}, NEW hi \in Nat, lo - 1 <= hi, hi <= Len(s),
         NEW b \in MemBlocks, NEW a, NEW n,
         \A k \in 1 .. Len(s) : (k < lo => MbTop(s[k]) < b.at) /\ (k > hi => MbTop(b) < s[k].at),
         \A x : MbHas(b, x) <=> MbHas(MemBlock(a, n), x) \/ \E k \in lo .. hi : MbHas(s[k], x)
  PROVE  MbWith(s, a, n, MbSplice(s, lo, hi, b))
<1>1. PICK t : t = MbSplice(s, lo, hi, b)
  OBVIOUS
<1>2. /\ t \in Seq(MemBlocks) /\ MbApart(t)
      /\ \A x : x \in MbCells(t) <=>
                  MbHas(b, x) \/ \E k \in 1 .. Len(s) : (k < lo \/ k > hi) /\ MbHas(s[k], x)
  BY <1>1, MbSplicedApart
<1>3. Len(s) \in Nat
  BY LenProperties
<1>4. ASSUME NEW x  PROVE x \in MbCells(t) <=> x \in MbCells(s) \/ MbHas(MemBlock(a, n), x)
  <2>1. x \in MbCells(s) <=> \E k \in 1 .. Len(s) : MbHas(s[k], x)
    BY MbIn DEF MbHas
  <2>2. \A k \in 1 .. Len(s) : k < lo \/ k > hi \/ k \in lo .. hi
    BY <1>3
  <2>3. \A k \in lo .. hi : k \in 1 .. Len(s)
    BY <1>3
  <2> QED  BY <1>2, <2>1, <2>2, <2>3
<1> QED  BY <1>1, <1>2, <1>4 DEF MbWith

\* freemem's list has the block linked in, or joined to what it touches on either side: no
\* two blocks that touch are left apart (freemem.c).
LEMMA JoinIs ==
  ASSUME memlist \in Seq(MemBlocks), MbApart(memlist), MbCells(memlist) \subseteq 1 .. HEAP,
         NEW a \in 1 .. HEAP, NEW n \in Nat \ {0}, a + n <= HEAP + 1, ~Overlaps(a, n)
  PROVE  MbWith(memlist, a, n, Join(a, n))
<1>1. PICK s : s = memlist
  OBVIOUS
<1>2. HEAP \in Nat /\ a \in Nat
  BY MemoryAssumption
<1>3. s \in Seq(MemBlocks) /\ MbApart(s) /\ Len(s) \in Nat /\ MbCells(s) \subseteq 1 .. HEAP
  BY <1>1, LenProperties
<1>4. PICK i \in 0 .. Len(s) : i = Below(a) /\ \A k \in 1 .. Len(s) : s[k].at < a <=> k <= i
  BY <1>1, <1>2, BelowIs
<1>5. ASSUME NEW k \in 1 .. Len(s)
      PROVE  /\ s[k].at \in Nat /\ s[k].len \in Nat \ {0} /\ MbTop(s[k]) = s[k].at + s[k].len
             /\ s[k].at \in 1 .. HEAP /\ MbTop(s[k]) \in Nat /\ MbTop(s[k]) <= HEAP + 1
             /\ k <= i => MbTop(s[k]) <= a
             /\ k > i => a + n <= s[k].at
  <2>1. /\ s[k].at \in Nat /\ s[k].len \in Nat \ {0} /\ MbTop(s[k]) = s[k].at + s[k].len
        /\ s[k].at \in 1 .. HEAP /\ MbTop(s[k]) \in Nat /\ MbTop(s[k]) <= HEAP + 1
    <3>1. MbTop(s[k]) <= HEAP + 1
      BY <1>3, MbInside
    <3> QED  BY <1>3, <3>1, MbFields DEF MbTop
  <2>2. ~ \E x \in MbCells(s) : a <= x /\ x < a + n
    BY <1>1, <1>2, OverlapsIs
  <2>3. ASSUME k <= i, a < MbTop(s[k])  PROVE FALSE
    <3>1. s[k].at <= a
      BY <1>2, <1>4, <2>1, <2>3
    <3>2. a \in MbCells(s)
      BY <1>2, <1>3, <2>3, <3>1, MbIn
    <3> QED  BY <1>2, <2>2, <3>2
  <2>4. ASSUME k > i, s[k].at < a + n  PROVE FALSE
    <3>1. PICK x \in Nat : x = s[k].at /\ a <= x /\ x < MbTop(s[k])
      BY <1>2, <1>4, <2>1, <2>4, SMTT(20)
    <3>2. x \in MbCells(s)
      BY <1>3, <3>1, MbIn
    <3> QED  BY <2>2, <2>4, <3>1, <3>2
  <2> QED  BY <1>2, <2>1, <2>3, <2>4
<1> DEFINE left == i > 0 /\ MbTop(s[i]) = a
           right == i < Len(s) /\ s[i + 1].at = a + n
<1>6. PICK lo : lo = IF left THEN i ELSE i + 1
  OBVIOUS
<1>7. PICK hi : hi = IF right THEN i + 1 ELSE i
  OBVIOUS
<1>8. PICK first : first = IF left THEN s[i].at ELSE a
  OBVIOUS
<1>9. PICK last : last = IF right THEN MbTop(s[i + 1]) ELSE a + n
  OBVIOUS
<1>10. PICK b : b = MemBlock(first, last - first)
  OBVIOUS
<1>11. Join(a, n) = MbSplice(s, lo, hi, b)
  <2>1. lo = i <=> left
    BY <1>6
  <2>2. hi = i + 1 <=> right
    BY <1>7
  <2>3. right => hi = i + 1
    BY <1>7
  <2> QED  BY <1>1, <1>4, <1>6, <1>7, <1>8, <1>9, <1>10, <2>1, <2>2, <2>3 DEF Join, MbSplice, MemTop, MbTop
<1>12. /\ lo \in Nat \ {0} /\ hi \in Nat /\ lo - 1 <= hi /\ hi <= Len(s) /\ i \in Nat
       /\ i <= hi /\ hi <= i + 1 /\ i <= lo /\ lo <= i + 1
  BY <1>3, <1>6, <1>7
<1>13. /\ first \in Nat \ {0} /\ first <= a /\ last \in Nat /\ a + n <= last /\ last <= HEAP + 1
       /\ left => i \in 1 .. Len(s) /\ MbTop(s[i]) = a /\ first = s[i].at
       /\ right => i + 1 \in 1 .. Len(s) /\ s[i + 1].at = a + n /\ last = MbTop(s[i + 1])
  <2>1. /\ first \in Nat \ {0} /\ first <= a
        /\ left => i \in 1 .. Len(s) /\ MbTop(s[i]) = a /\ first = s[i].at
    <3>1. CASE left
      <4>1. i \in 1 .. Len(s)
        BY <1>3, <3>1
      <4> QED  BY <1>2, <1>5, <1>8, <3>1, <4>1
    <3>2. CASE ~left
      BY <1>2, <1>8, <3>2
    <3> QED  BY <3>1, <3>2
  <2>2. /\ last \in Nat /\ a + n <= last /\ last <= HEAP + 1
        /\ right => i + 1 \in 1 .. Len(s) /\ s[i + 1].at = a + n /\ last = MbTop(s[i + 1])
    <3>1. CASE right
      <4>1. i + 1 \in 1 .. Len(s)
        BY <1>3, <3>1
      <4>2. last = MbTop(s[i + 1]) /\ s[i + 1].at = a + n
        BY <1>9, <3>1
      <4>3. /\ s[i + 1].at \in Nat /\ s[i + 1].len \in Nat /\ MbTop(s[i + 1]) = s[i + 1].at + s[i + 1].len
            /\ MbTop(s[i + 1]) \in Nat /\ MbTop(s[i + 1]) <= HEAP + 1
        BY <1>5, <4>1
      <4>4. a + n <= last
        <5> HIDE DEF right
        <5> QED  BY <1>2, <4>2, <4>3
      <4> QED  BY <4>1, <4>2, <4>3, <4>4
    <3>2. CASE ~right
      BY <1>2, <1>9, <3>2
    <3> QED  BY <3>1, <3>2
  <2> QED  BY <2>1, <2>2
<1>14. b.at = first /\ b.len = last - first /\ MbTop(b) = last /\ b \in MemBlocks
  <2>1. b.at = first /\ b.len = last - first
    BY <1>10 DEF MemBlock
  <2>2. last - first \in 1 .. HEAP /\ first \in 1 .. HEAP
    BY <1>2, <1>13
  <2> QED  BY <1>10, <1>13, <2>1, <2>2 DEF MemBlock, MemBlocks, MbTop
<1>15. ASSUME NEW k \in 1 .. Len(s)
       PROVE  (k < lo => MbTop(s[k]) < b.at) /\ (k > hi => MbTop(b) < s[k].at)
  <2>1. ASSUME k < lo  PROVE MbTop(s[k]) < first
    <3>1. CASE left
      <4>1. lo = i /\ i \in 1 .. Len(s) /\ first = s[i].at
        BY <1>6, <1>13, <3>1
      <4> QED  BY <1>3, <2>1, <4>1, MbSorted
    <3>2. CASE ~left
      <4>1. first = a /\ k <= i
        BY <1>6, <1>8, <1>12, <2>1, <3>2
      <4>2. MbTop(s[k]) <= a
        BY <1>5, <4>1
      <4>3. CASE k = i
        BY <1>2, <1>5, <3>2, <4>1, <4>2, <4>3
      <4>4. CASE k # i
        <5>1. i \in 1 .. Len(s) /\ k < i
          BY <1>3, <4>1, <4>4
        <5>2. MbTop(s[k]) < s[i].at
          BY <1>3, <5>1, MbSorted
        <5>3. s[i].at < a
          <6>1. i <= i
            BY <1>12
          <6> QED  BY <1>4, <5>1, <6>1
        <5> QED  BY <1>2, <1>5, <4>1, <5>1, <5>2, <5>3
      <4> QED  BY <4>3, <4>4
    <3> QED  BY <3>1, <3>2
  <2>2. ASSUME k > hi  PROVE last < s[k].at
    <3>1. CASE right
      <4>1. hi = i + 1 /\ i + 1 \in 1 .. Len(s) /\ last = MbTop(s[i + 1])
        BY <1>7, <1>13, <3>1
      <4> QED  BY <1>3, <2>2, <4>1, MbSorted
    <3>2. CASE ~right
      <4>1. last = a + n /\ k > i
        BY <1>7, <1>9, <1>12, <2>2, <3>2
      <4>2. a + n <= s[k].at
        BY <1>5, <4>1
      <4>3. CASE k = i + 1
        <5>1. i < Len(s) /\ s[k].at # a + n
          BY <1>3, <3>2, <4>3
        <5>2. s[k].at \in Nat
          BY <1>5
        <5> QED  BY <1>2, <4>1, <4>2, <5>1, <5>2
      <4>4. CASE k # i + 1
        <5>1. i + 1 \in 1 .. Len(s) /\ i + 1 < k /\ i + 1 > i
          BY <1>3, <4>1, <4>4
        <5>2. MbTop(s[i + 1]) < s[k].at
          BY <1>3, <5>1, MbSorted
        <5>3. a + n <= s[i + 1].at /\ s[i + 1].at <= MbTop(s[i + 1])
          <6>1. /\ a + n <= s[i + 1].at /\ s[i + 1].at \in Nat /\ s[i + 1].len \in Nat
                /\ MbTop(s[i + 1]) = s[i + 1].at + s[i + 1].len
            BY <1>5, <5>1
          <6> QED  BY <6>1, SMTT(20)
        <5>4. s[k].at \in Nat /\ s[i + 1].at \in Nat /\ MbTop(s[i + 1]) \in Nat
          BY <1>5, <5>1
        <5> QED  BY <1>2, <4>1, <5>2, <5>3, <5>4, SMTT(20)
      <4> QED  BY <4>3, <4>4
    <3> QED  BY <3>1, <3>2
  <2> QED  BY <1>14, <2>1, <2>2
<1>16. ASSUME NEW x
       PROVE  MbHas(b, x) <=> MbHas(MemBlock(a, n), x) \/ \E k \in lo .. hi : MbHas(s[k], x)
  <2>1. MbHas(b, x) <=> x \in Int /\ first <= x /\ x < last
    BY <1>14 DEF MbHas
  <2>2. MbHas(MemBlock(a, n), x) <=> x \in Int /\ a <= x /\ x < a + n
    BY DEF MbHas, MbTop, MemBlock
  <2>3. \A k \in lo .. hi : (k = i /\ left) \/ (k = i + 1 /\ right)
    BY <1>6, <1>7, <1>12
  <2>4. left => MbHas(s[i], x) = (x \in Int /\ first <= x /\ x < a) /\ i \in lo .. hi
    BY <1>6, <1>12, <1>13 DEF MbHas
  <2>5. right => MbHas(s[i + 1], x) = (x \in Int /\ a + n <= x /\ x < last) /\ i + 1 \in lo .. hi
    BY <1>7, <1>12, <1>13 DEF MbHas
  <2>6. ~left => first = a
    BY <1>8
  <2>7. ~right => last = a + n
    BY <1>9
  <2>8. ASSUME NEW k \in lo .. hi, MbHas(s[k], x)  PROVE MbHas(b, x)
    <3>1. CASE k = i /\ left
      <4>1. x \in Int /\ first <= x /\ x < a
        BY <2>4, <2>8, <3>1
      <4> QED  BY <1>2, <1>13, <2>1, <4>1
    <3>2. CASE k = i + 1 /\ right
      <4>1. x \in Int /\ a + n <= x /\ x < last
        BY <2>5, <2>8, <3>2
      <4> QED  BY <1>2, <1>13, <2>1, <4>1
    <3> QED  BY <2>3, <3>1, <3>2
  <2>9. ASSUME MbHas(MemBlock(a, n), x)  PROVE MbHas(b, x)
    BY <1>2, <1>13, <2>1, <2>2, <2>9
  <2>10. ASSUME MbHas(b, x), ~MbHas(MemBlock(a, n), x)  PROVE \E k \in lo .. hi : MbHas(s[k], x)
    <3>1. x \in Int /\ first <= x /\ x < last /\ (x < a \/ a + n <= x)
      BY <1>2, <1>13, <2>1, <2>2, <2>10
    <3>2. CASE x < a
      <4>1. left
        BY <1>2, <2>6, <3>1, <3>2
      <4> QED  BY <2>4, <3>1, <3>2, <4>1
    <3>3. CASE a + n <= x
      <4>1. right
        BY <1>2, <2>7, <3>1, <3>3
      <4> QED  BY <2>5, <3>1, <3>3, <4>1
    <3> QED  BY <3>1, <3>2, <3>3
  <2> QED  BY <2>8, <2>9, <2>10
<1>17. MbWith(s, a, n, MbSplice(s, lo, hi, b))
  <2> HIDE DEF left, right
  <2> QED  BY <1>3, <1>12, <1>14, <1>15, <1>16, MbJoined
<1> QED  BY <1>1, <1>11, <1>17

-----------------------------------------------------------------------------
(* Held blocks share no cell. *)
MemHeldOnce == \A b, c \in memheld : b # c => MemCells(b) \cap MemCells(c) = {}

(* The free list and the blocks that are held *)
MemInv ==
  /\ memlist \in Seq(MemBlocks)
  /\ memheld \subseteq MemBlocks
  /\ \A b \in memheld : MbTop(b) <= HEAP + 1
  /\ MemHeldOnce
  /\ MemPartition

(* The same of any list and any set of blocks *)
MbHeap(H) == UNION {MemCells(b) : b \in H}
MbGood(s, H) ==
  /\ s \in Seq(MemBlocks) /\ H \subseteq MemBlocks
  /\ \A b \in H : MbTop(b) <= HEAP + 1
  /\ \A b, c \in H : b # c => MemCells(b) \cap MemCells(c) = {}
  /\ MbApart(s) /\ MbCells(s) = (1 .. HEAP) \ MbHeap(H)

\* The invariant says this of the free list and the blocks that are held, now and next.
LEMMA MemInvIs ==
  (MemInv <=> MbGood(memlist, memheld)) /\ (MemInv' <=> MbGood(memlist', memheld'))
<1>1. ASSUME memlist \in Seq(MemBlocks)  PROVE DOMAIN memlist = 1 .. Len(memlist)
  BY <1>1
<1>2. MemInv <=> MbGood(memlist, memheld)
  BY <1>1 DEF MemInv, MbGood, MemHeldOnce, MemPartition, MbApart, MbCells, MbHeap, Heaped, MemTop, MbTop
<1>3. ASSUME memlist' \in Seq(MemBlocks)  PROVE DOMAIN memlist' = 1 .. Len(memlist')
  BY <1>3
<1>4. MemInv' <=> MbGood(memlist', memheld')
  BY <1>3 DEF MemInv, MbGood, MemHeldOnce, MemPartition, MbApart, MbCells, MbHeap, Heaped, MemTop, MbTop
<1> QED  BY <1>2, <1>4

\* The cells of a block.
LEMMA MbHasIs ==
  ASSUME NEW b, b.at \in Nat, b.len \in Nat, NEW x
  PROVE  x \in MemCells(b) <=> MbHas(b, x)
BY DEF MemCells, MbHas, MbTop

\* The cells of a block that begins at a and has n of them.
LEMMA MbBlockIs ==
  ASSUME NEW a \in Nat, NEW n \in Nat
  PROVE  /\ MemBlock(a, n).at = a /\ MemBlock(a, n).len = n /\ MbTop(MemBlock(a, n)) = a + n
         /\ MemCells(MemBlock(a, n)) = a .. a + n - 1
         /\ \A x : MbHas(MemBlock(a, n), x) <=> x \in a .. a + n - 1
BY DEF MemBlock, MbTop, MemCells, MbHas

\* A free block is handed out.
LEMMA MbHandGood ==
  ASSUME NEW s, NEW H, MbGood(s, H), NEW a \in Nat, NEW n \in Nat \ {0}, NEW t, MbWithout(s, a, n, t),
         a .. a + n - 1 \subseteq MbCells(s)
  PROVE  MbGood(t, H \cup {MemBlock(a, n)})
<1> DEFINE m == MemBlock(a, n)
<1>1. /\ MemCells(m) = a .. a + n - 1 /\ MbTop(m) = a + n /\ m.at = a /\ m.len = n
      /\ \A x : MbHas(m, x) <=> x \in a .. a + n - 1
  BY MbBlockIs
<1>2. MbCells(s) = (1 .. HEAP) \ MbHeap(H) /\ HEAP \in Nat
  BY MemoryAssumption DEF MbGood
<1>3. a \in 1 .. HEAP /\ a + n - 1 \in 1 .. HEAP
  <2>1. a \in a .. a + n - 1 /\ a + n - 1 \in a .. a + n - 1
    OBVIOUS
  <2> QED  BY <1>2, <2>1
<1>4. m \in MemBlocks /\ MbTop(m) <= HEAP + 1
  <2>1. a \in 1 .. HEAP /\ n \in 1 .. HEAP /\ a + n <= HEAP + 1
    BY <1>2, <1>3
  <2> QED  BY <1>1, <2>1 DEF MemBlocks, MemBlock
<1>5. \A x : x \in MbHeap(H \cup {m}) <=> x \in MbHeap(H) \/ x \in MemCells(m)
  BY DEF MbHeap
<1>6. MbCells(t) = (1 .. HEAP) \ MbHeap(H \cup {m})
  <2>1. \A x : x \in MbCells(t) <=> x \in MbCells(s) /\ ~ (x \in MemCells(m))
    BY <1>1 DEF MbWithout
  <2> QED  BY <1>2, <1>5, <2>1
<1>7. \A c \in H : MemCells(c) \cap MemCells(m) = {}
  <2>1. \A c \in H : \A x \in MemCells(c) : x \in MbHeap(H)
    BY DEF MbHeap
  <2> QED  BY <1>1, <1>2, <2>1
<1>8. ASSUME NEW b \in H \cup {m}, NEW c \in H \cup {m}, b # c  PROVE MemCells(b) \cap MemCells(c) = {}
  <2>1. CASE b \in H /\ c \in H
    BY <1>8, <2>1 DEF MbGood
  <2>2. CASE b = m /\ c \in H
    BY <1>7, <2>2
  <2>3. CASE c = m /\ b \in H
    BY <1>7, <2>3
  <2> QED  BY <1>8, <2>1, <2>2, <2>3
<1> HIDE DEF m
<1>9. H \cup {m} \subseteq MemBlocks /\ (\A b \in H \cup {m} : MbTop(b) <= HEAP + 1)
  BY <1>4 DEF MbGood
<1>10. t \in Seq(MemBlocks) /\ MbApart(t)
  BY DEF MbWithout
<1>11. MbGood(t, H \cup {m})
  BY <1>6, <1>8, <1>9, <1>10 DEF MbGood
<1> QED  BY <1>11 DEF m

\* A block that is held is given back.
LEMMA MbFreeGood ==
  ASSUME NEW s, NEW H, MbGood(s, H), NEW b \in H, NEW t, MbWith(s, b.at, b.len, t)
  PROVE  MbGood(t, H \ {b})
<1>1. b \in MemBlocks /\ b.at \in 1 .. HEAP /\ b.len \in 1 .. HEAP /\ b.at \in Nat /\ b.len \in Nat /\ HEAP \in Nat
  BY MemoryAssumption DEF MbGood, MemBlocks
<1>2. MbTop(b) <= HEAP + 1
  BY DEF MbGood
<1>3. \A x \in MemCells(b) : x \in 1 .. HEAP
  BY <1>1, <1>2 DEF MemCells, MbTop
<1>4. \A x : x \in MbHeap(H) <=> x \in MbHeap(H \ {b}) \/ x \in MemCells(b)
  BY DEF MbHeap
<1>5. \A x : ~ (x \in MbHeap(H \ {b}) /\ x \in MemCells(b))
  <2> SUFFICES ASSUME NEW c \in H \ {b}  PROVE MemCells(b) \cap MemCells(c) = {}
    BY DEF MbHeap
  <2> QED  BY DEF MbGood
<1>6. \A x : x \in MbCells(t) <=> x \in MbCells(s) \/ x \in MemCells(b)
  <2>1. b = MemBlock(b.at, b.len)
    BY <1>1 DEF MemBlocks, MemBlock
  <2>2. \A x : MbHas(MemBlock(b.at, b.len), x) <=> x \in MemCells(b)
    BY <1>1, <2>1, MbHasIs
  <2> QED  BY <2>2 DEF MbWith
<1>7. MbCells(s) = (1 .. HEAP) \ MbHeap(H)
  BY DEF MbGood
<1>8. MbCells(t) = (1 .. HEAP) \ MbHeap(H \ {b})
  BY <1>3, <1>4, <1>5, <1>6, <1>7
<1>9. t \in Seq(MemBlocks) /\ MbApart(t)
  BY DEF MbWith
<1> QED  BY <1>8, <1>9 DEF MbGood

\* Promise's room for a block: free cells only.
LEMMA RoomIs ==
  ASSUME MemInv, NEW a \in Nat, NEW n \in Nat
  PROVE  Promise!Room(Promise!Block(a, n)) <=> a .. a + n - 1 \subseteq MbCells(memlist)
<1>1. MbCells(memlist) = (1 .. HEAP) \ MbHeap(memheld)
  BY MemInvIs DEF MbGood
<1>2. Promise!Block(a, n).at = a /\ Promise!Block(a, n).len = n
  BY DEF Promise!Block
<1>3. Promise!Room(Promise!Block(a, n)) <=>
        a .. a + n - 1 \subseteq 1 .. HEAP /\ \A h \in memheld : MemCells(h) \cap (a .. a + n - 1) = {}
  BY <1>2 DEF Promise!Room, Promise!Covers, MemCells
<1>4. (\A h \in memheld : MemCells(h) \cap (a .. a + n - 1) = {}) <=> MbHeap(memheld) \cap (a .. a + n - 1) = {}
  BY DEF MbHeap
<1> QED  BY <1>1, <1>3, <1>4

\* Block i of the list is cut at its bottom (getmem) or at its top (getstk) and handed out.
LEMMA HandStep ==
  ASSUME MemInv, NEW n \in Nat \ {0}, NEW i \in Fitting(n), NEW a,
         a = memlist[i].at \/ a = memlist[i].at + memlist[i].len - n, Hand(i, a, n)
  PROVE  MemInv' /\ Promise!Allocate(n)
<1>1. MbGood(memlist, memheld)
  BY MemInvIs
<1>2. /\ memlist \in Seq(MemBlocks) /\ MbApart(memlist) /\ MbCells(memlist) \subseteq 1 .. HEAP
  BY <1>1 DEF MbGood
<1>3. i \in 1 .. Len(memlist) /\ memlist[i].len >= n
  BY <1>2 DEF Fitting
<1>4. MbWithout(memlist, a, n, Unlink(i, a, n))
  BY <1>2, <1>3, UnlinkIs
<1>5. memlist[i].at \in Nat /\ memlist[i].len \in Nat /\ MbTop(memlist[i]) = memlist[i].at + memlist[i].len
  BY <1>2, <1>3, MbFields DEF MbTop
<1>6. a \in Nat /\ memlist[i].at <= a /\ a + n <= MbTop(memlist[i])
  BY <1>3, <1>5
<1>7. ASSUME NEW x \in a .. a + n - 1  PROVE x \in MbCells(memlist)
  <2>1. x \in Int /\ memlist[i].at <= x /\ x < MbTop(memlist[i])
    BY <1>5, <1>6
  <2> QED  BY <1>2, <1>3, <2>1, MbIn
<1>8. MbGood(Unlink(i, a, n), memheld \cup {MemBlock(a, n)})
  BY <1>1, <1>4, <1>6, <1>7, MbHandGood
<1>9. MemInv'
  BY <1>8, MemInvIs DEF Hand
<1>10. a \in 1 .. HEAP
  <2>1. a \in a .. a + n - 1
    BY <1>6
  <2> QED  BY <1>2, <1>7, <2>1
<1>11. Promise!Room(Promise!Block(a, n))
  BY <1>6, <1>7, RoomIs
<1>12. memheld' = memheld \cup {Promise!Block(a, n)} /\ memanswer' = "ok"
  BY DEF Hand, MemBlock, Promise!Block
<1>13. Promise!Allocate(n)
  BY <1>10, <1>11, <1>12 DEF Promise!Allocate
<1> QED  BY <1>9, <1>13

\* getmem and getstk refuse only what has no room: every gap is one block of the list.
LEMMA RefuseStep ==
  ASSUME MemInv, NEW n \in Nat \ {0}, Fitting(n) = {}, MemRefuse("full")
  PROVE  MemInv' /\ Promise!Allocate(n)
<1>1. MemInv'
  BY MemInvIs DEF MemRefuse
<1>2. /\ memlist \in Seq(MemBlocks) /\ MbApart(memlist)
  BY MemInvIs DEF MbGood
<1>3. ASSUME NEW a \in 1 .. HEAP, Promise!Room(Promise!Block(a, n))  PROVE FALSE
  <2>1. a \in Nat
    BY MemoryAssumption
  <2>2. a .. a + n - 1 \subseteq MbCells(memlist)
    BY <1>3, <2>1, RoomIs
  <2>3. PICK i \in 1 .. Len(memlist) : memlist[i].len >= n
    BY <1>2, <2>1, <2>2, MbFits
  <2>4. i \in Fitting(n)
    BY <1>2, <2>3 DEF Fitting
  <2> QED  BY <2>4
<1>4. Promise!Allocate(n)
  BY <1>3 DEF Promise!Allocate, MemRefuse
<1> QED  BY <1>1, <1>4

\* freemem takes back a block that is held: nothing of it is free (freemem.c).
LEMMA FreeStep ==
  ASSUME MemInv, NEW b \in memheld, Freemem(b.at, b.len)
  PROVE  MemInv' /\ Promise!Free(b)
<1>1. MbGood(memlist, memheld)
  BY MemInvIs
<1>2. /\ memlist \in Seq(MemBlocks) /\ MbApart(memlist) /\ MbCells(memlist) = (1 .. HEAP) \ MbHeap(memheld)
      /\ MbTop(b) <= HEAP + 1
  BY <1>1 DEF MbGood
<1>3. b \in MemBlocks /\ b.at \in 1 .. HEAP /\ b.at \in Nat /\ b.len \in Nat \ {0}
      /\ b = MemBlock(b.at, b.len) /\ b.at + b.len <= HEAP + 1
  BY <1>1, <1>2, MemoryAssumption DEF MbGood, MemBlocks, MemBlock, MbTop
<1>4. ~Overlaps(b.at, b.len)
  <2>1. ASSUME NEW x \in MbCells(memlist), b.at <= x, x < b.at + b.len  PROVE FALSE
    <3>1. x \in Int
      BY <1>2
    <3>2. x \in MemCells(b)
      BY <1>3, <2>1, <3>1 DEF MemCells
    <3>3. x \in MbHeap(memheld)
      BY <3>2 DEF MbHeap
    <3> QED  BY <1>2, <3>3
  <2> QED  BY <1>2, <1>3, <2>1, OverlapsIs
<1>5. memlist' = Join(b.at, b.len) /\ memheld' = memheld \ {b} /\ memanswer' = "ok"
  BY <1>3, <1>4 DEF Freemem
<1>6. MbWith(memlist, b.at, b.len, Join(b.at, b.len))
  BY <1>2, <1>3, <1>4, JoinIs
<1>7. MbGood(Join(b.at, b.len), memheld \ {b})
  BY <1>1, <1>6, MbFreeGood
<1> QED  BY <1>5, <1>7, MemInvIs DEF Promise!Free

\* freemem refuses a block that is not held as a whole: part of it is free (freemem.c).
LEMMA FreeAgainStep ==
  ASSUME MemInv, NEW a \in 1 .. HEAP, NEW n \in Nat \ {0}, MemCells(MemBlock(a, n)) \subseteq 1 .. HEAP,
         ~ (MemCells(MemBlock(a, n)) \subseteq Heaped), Freemem(a, n)
  PROVE  MemInv' /\ Promise!FreeAgain(Promise!Block(a, n))
<1>1. /\ memlist \in Seq(MemBlocks) /\ MbApart(memlist) /\ MbCells(memlist) = (1 .. HEAP) \ MbHeap(memheld)
  BY MemInvIs DEF MbGood
<1>2. a \in Nat /\ MemCells(MemBlock(a, n)) = a .. a + n - 1 /\ Heaped = MbHeap(memheld)
  <2>1. a \in Nat
    BY MemoryAssumption
  <2> QED  BY <2>1, MbBlockIs DEF Heaped, MbHeap
<1>3. PICK x \in a .. a + n - 1 : x \in MbCells(memlist)
  BY <1>1, <1>2
<1>4. a <= x /\ x < a + n
  BY <1>2
<1>5. Overlaps(a, n)
  BY <1>1, <1>2, <1>3, <1>4, OverlapsIs
<1>6. MemRefuse("free")
  BY <1>5 DEF Freemem
<1>7. MemInv'
  BY <1>6, MemInvIs DEF MemRefuse
<1>8. Promise!Covers(Promise!Block(a, n)) = MemCells(MemBlock(a, n))
  BY DEF Promise!Covers, Promise!Block, MemCells, MemBlock
<1>9. UNION {Promise!Covers(h) : h \in memheld} = Heaped
  BY DEF Promise!Covers, MemCells, Heaped
<1> QED  BY <1>6, <1>7, <1>8, <1>9 DEF Promise!FreeAgain, MemRefuse

\* meminit: one block, the whole heap (meminit.c).
LEMMA MemInitially ==
  MemInit => MemInv
<1> SUFFICES ASSUME MemInit  PROVE MemInv
  OBVIOUS
<1>1. HEAP \in Nat \ {0}
  BY MemoryAssumption
<1>2. PICK m : m = MemBlock(1, HEAP)
  OBVIOUS
<1>3. m \in MemBlocks
  BY <1>1, <1>2 DEF MemBlock, MemBlocks
<1>4. MemCells(m) = 1 .. HEAP
  BY <1>1, <1>2 DEF MemBlock, MemCells
<1>5. memlist = <<m>> /\ memlist \in Seq(MemBlocks) /\ Len(memlist) = 1 /\ memlist[1] = m /\ memheld = {}
  BY <1>2, <1>3 DEF MemInit
<1>6. MbApart(memlist)
  BY <1>5 DEF MbApart
<1>7. MbCells(memlist) = 1 .. HEAP
  <2>1. \A x : x \in MbCells(memlist) <=> x \in MemCells(m)
    BY <1>5 DEF MbCells
  <2> QED  BY <1>4, <2>1
<1>8. MbHeap(memheld) = {}
  BY <1>5 DEF MbHeap
<1> QED  BY <1>5, <1>6, <1>7, <1>8, MemInvIs DEF MbGood

\* Every step keeps the invariant and is one of Promise's.
LEMMA MemStepIs ==
  ASSUME MemInv, MemNext
  PROVE  MemInv' /\ Promise!Next
<1> DEFINE Sizes == {Roundmb(b) : b \in Requests}
<1>1. ASSUME NEW bytes \in Requests, Getmem(bytes) \/ GetstkBlock(bytes)
      PROVE  MemInv' /\ Promise!Allocate(Roundmb(bytes))
  <2>1. PICK n \in Nat \ {0} : n = Roundmb(bytes)
    BY RoundmbIs
  <2>2. CASE Fitting(n) = {} /\ MemRefuse("full")
    BY <2>1, <2>2, RefuseStep
  <2>3. ASSUME NEW i \in Fitting(n), Hand(i, memlist[i].at, n)
        PROVE  MemInv' /\ Promise!Allocate(n)
    BY <2>3, HandStep
  <2>4. ASSUME NEW i \in Fitting(n), Hand(i, memlist[i].at + memlist[i].len - n, n)
        PROVE  MemInv' /\ Promise!Allocate(n)
    BY <2>4, HandStep
  <2> QED  BY <1>1, <2>1, <2>2, <2>3, <2>4, Zenon DEF Getmem, GetstkBlock
<1>2. ASSUME NEW bytes \in Requests, Getmem(bytes) \/ GetstkBlock(bytes)
      PROVE  MemInv' /\ Promise!Next
  <2>1. Roundmb(bytes) \in Sizes
    OBVIOUS
  <2> QED  BY <1>1, <1>2, <2>1, Zenon DEF Promise!Next
<1>3. ASSUME NEW b \in memheld, Freemem(b.at, b.len)
      PROVE  MemInv' /\ Promise!Next
  BY <1>3, FreeStep, Zenon DEF Promise!Next
<1>4. ASSUME NEW a \in 1 .. HEAP, NEW bytes \in Requests, MemCells(MemBlock(a, Roundmb(bytes))) \subseteq 1 .. HEAP,
             ~ (MemCells(MemBlock(a, Roundmb(bytes))) \subseteq Heaped),
             Freemem(MemBlock(a, Roundmb(bytes)).at, MemBlock(a, Roundmb(bytes)).len)
      PROVE  MemInv' /\ Promise!Next
  <2>1. PICK n \in Nat \ {0} : n = Roundmb(bytes)
    BY RoundmbIs
  <2>2. n \in Sizes
    BY <2>1
  <2>3. Freemem(a, n)
    BY <1>4, <2>1 DEF MemBlock
  <2>4. MemInv' /\ Promise!FreeAgain(Promise!Block(a, n))
    BY <1>4, <2>1, <2>3, FreeAgainStep
  <2> QED  BY <2>2, <2>4, Zenon DEF Promise!Next
<1> QED  BY <1>2, <1>3, <1>4, Zenon DEF MemNext

\* The free list keeps the promise of module Heap whatever the size of the heap and the
\* requests: getmem and getstk hand out what nobody holds and refuse only what no gap
\* between the held blocks can hold, freemem refuses the second free of the same memory,
\* and the list is in order, joined, and exactly what nobody holds (MemPartition).
THEOREM FreeListKeepsPromise == MemSpec => MemPromise /\ Promise!Spec
<1>1. MemInit => MemInv /\ Promise!Init
  BY MemInitially DEF MemInit, Promise!Init
<1>2. MemInv /\ [MemNext]_memvars => MemInv' /\ [Promise!Next]_<<memheld, memanswer>>
  <2> SUFFICES ASSUME MemInv, [MemNext]_memvars
               PROVE  MemInv' /\ [Promise!Next]_<<memheld, memanswer>>
    OBVIOUS
  <2>1. CASE MemNext
    BY <2>1, MemStepIs
  <2>2. CASE UNCHANGED memvars
    <3>1. MbGood(memlist', memheld') <=> MbGood(memlist, memheld)
      BY <2>2 DEF memvars
    <3> QED  BY <2>2, <3>1, MemInvIs DEF memvars
  <2> QED  BY <2>1, <2>2
<1>3. MemInv => MemPartition
  BY DEF MemInv
<1>4. [Promise!Next]_<<memheld, memanswer>>
        => [UNCHANGED memvars \/ Promise!Next]_<<memheld, memanswer>>
  OBVIOUS
<1> QED  BY <1>1, <1>2, <1>3, <1>4, PTL DEF MemSpec, MemPromise, Promise!Spec, Promise!heapvars

-----------------------------------------------------------------------------
(* The name space (nam/mount.c, nam/nammap.c) *)

IsTable(tab) == \E S : tab \in Seq(S)

(* The entries whose prefix a name has, and the first of them *)
NmFits(tab, name) == {i \in 1 .. Len(tab) : IsPrefix(tab[i].prefix, name)}
NmFirst(tab, name) == CHOOSE i \in NmFits(tab, name) : \A j \in NmFits(tab, name) : i <= j

(* What an entry makes of a name that fits *)
NmBy(e, name) ==
  LET remain == ((Len(name) + 1) % NM_MAXLEN) - Len(e.prefix) IN
  IF Len(e.replace) + remain > NM_MAXLEN THEN Unmapped
  ELSE [device |-> e.device,
        name |-> IF remain > 0 THEN e.replace \o SubSeq(name, Len(e.prefix) + 1, Len(name))
                               ELSE Append(e.replace, NmGarbage)]

NmTable == IsTable(nametab)

\* namrepl asks for the first entry that fits and nothing else of the table (nammap.c).
LEMMA ReplIs ==
  ASSUME NEW tab, NEW name
  PROVE  NamRepl(tab, name) = IF NmFits(tab, name) = {} THEN Unmapped
                                                        ELSE NmBy(tab[NmFirst(tab, name)], name)
<1>1. CASE NmFits(tab, name) = {}
  BY <1>1 DEF NamRepl, NmFits
<1>2. CASE NmFits(tab, name) # {}
  <2> DEFINE e == tab[NmFirst(tab, name)]
             remain == ((Len(name) + 1) % NM_MAXLEN) - Len(e.prefix)
             other == [device |-> e.device,
                       name |-> IF remain > 0
                                THEN e.replace \o SubSeq(name, Len(e.prefix) + 1, Len(name))
                                ELSE Append(e.replace, NmGarbage)]
  <2>1. NamRepl(tab, name) =
          CASE NmFits(tab, name) = {} -> Unmapped
            [] NmFits(tab, name) # {} /\ Len(e.replace) + remain > NM_MAXLEN -> Unmapped
            [] OTHER -> other
    BY DEF NamRepl, NmFits, NmFirst
  <2>2. NmBy(e, name) = IF Len(e.replace) + remain > NM_MAXLEN THEN Unmapped ELSE other
    BY DEF NmBy
  <2> HIDE DEF e, remain, other
  <2>3. NamRepl(tab, name) = NmBy(e, name)
    BY <1>2, <2>1, <2>2, Zenon
  <2> QED  BY <1>2, <2>3 DEF e
<1> QED  BY <1>1, <1>2

\* mount leaves the entries there are where they are (mount.c).
LEMMA MountAppends ==
  ASSUME NEW tab, IsTable(tab), NEW prefix, NEW replace, NEW d
  PROVE  /\ IsTable(Mount(tab, prefix, replace, d))
         /\ Len(tab) \in Nat /\ Len(tab) <= Len(Mount(tab, prefix, replace, d))
         /\ Len(Mount(tab, prefix, replace, d)) \in Nat
         /\ \A i \in 1 .. Len(tab) : Mount(tab, prefix, replace, d)[i] = tab[i]
<1> DEFINE e == [prefix |-> prefix, replace |-> replace, device |-> d]
<1>1. PICK S : tab \in Seq(S)
  BY DEF IsTable
<1>2. tab \in Seq(S \cup {e})
  BY <1>1
<1>3. /\ Append(tab, e) \in Seq(S \cup {e}) /\ Len(Append(tab, e)) = Len(tab) + 1
      /\ Len(tab) \in Nat /\ \A i \in 1 .. Len(tab) : Append(tab, e)[i] = tab[i]
  BY <1>2
<1>4. Mount(tab, prefix, replace, d) \in {tab, Append(tab, e)}
  BY DEF Mount
<1> HIDE DEF e
<1> QED  BY <1>1, <1>3, <1>4 DEF IsTable

\* naminit makes a table, whichever of its mounts succeed (naminit.c).
LEMMA NamInitTable == IsTable(NamInit)
<1>1. NDEVS \in Nat
  BY DEF NDEVS, DeviceNames
<1> DEFINE devices == [i \in 1 .. NDEVS |-> [prefix |-> <<"/", "dev", "/", DeviceNames[i]>>,
                                             replace |-> <<>>, device |-> i - 1]]
<1>2. devices \in Seq({devices[i] : i \in 1 .. NDEVS})
  BY <1>1
<1>3. IsTable(devices)
  BY <1>2 DEF IsTable
<1> HIDE DEF devices
<1>4. ASSUME NEW tab, IsTable(tab)
      PROVE  \A prefix, replace, d : IsTable(Mount(tab, prefix, replace, d))
  BY <1>4, MountAppends
<1> QED  BY <1>3, <1>4, Zenon DEF NamInit, devices

\* A name with a fitting entry is mapped by the same one when others come behind it
\* (namrepl in nammap.c).
LEMMA FirstStays ==
  ASSUME NEW tab, NEW tab2, NEW name, Len(tab) \in Nat, Len(tab2) \in Nat, Len(tab) <= Len(tab2),
         \A i \in 1 .. Len(tab) : tab2[i] = tab[i], NmFits(tab, name) # {}
  PROVE  /\ NmFirst(tab2, name) = NmFirst(tab, name) /\ NmFirst(tab, name) \in 1 .. Len(tab)
         /\ NmFits(tab2, name) # {}
<1> DEFINE F == NmFits(tab, name)
           G == NmFits(tab2, name)
<1>1. F \subseteq Nat /\ F \subseteq 1 .. Len(tab)
  BY DEF NmFits
<1>2. PICK n \in F : \A m \in F : n <= m
  BY <1>1, LeastNat
<1>3. G \subseteq Nat /\ \A i \in G : i \in F \/ i > Len(tab)
  BY DEF NmFits
<1>4. n \in G /\ \A m \in G : n <= m
  <2>1. n \in 1 .. Len(tab) /\ n \in 1 .. Len(tab2) /\ IsPrefix(tab[n].prefix, name)
    BY <1>1, <1>2 DEF NmFits
  <2>2. n \in G
    BY <2>1 DEF NmFits
  <2>3. \A m \in G : n <= m
    BY <1>1, <1>2, <1>3, <2>1
  <2> QED  BY <2>2, <2>3
<1>5. \A i \in F : (\A j \in F : i <= j) => i = n
  BY <1>1, <1>2
<1>6. \A i \in G : (\A j \in G : i <= j) => i = n
  BY <1>3, <1>4
<1> HIDE DEF F, G
<1>7. (CHOOSE i \in F : \A j \in F : i <= j) = n
  BY <1>2, <1>5
<1>8. (CHOOSE i \in G : \A j \in G : i <= j) = n
  BY <1>4, <1>6
<1> QED  BY <1>1, <1>2, <1>4, <1>7, <1>8 DEF NmFirst, F, G

\* What a name is mapped to does not change, unless it was not mapped (nammap.c).
LEMMA MapStays ==
  ASSUME NEW tab, NEW tab2, NEW name, Len(tab) \in Nat, Len(tab2) \in Nat, Len(tab) <= Len(tab2),
         \A i \in 1 .. Len(tab) : tab2[i] = tab[i]
  PROVE  NamMap(tab, name) \in {Unmapped, NamMap(tab2, name)}
<1>1. CASE NmFits(tab, name) = {}
  <2>1. NamRepl(tab, name) = Unmapped
    BY <1>1 DEF NamRepl, NmFits
  <2> QED  BY <2>1 DEF NamMap
<1>2. CASE NmFits(tab, name) # {}
  <2>1. /\ NmFirst(tab2, name) = NmFirst(tab, name) /\ NmFirst(tab, name) \in 1 .. Len(tab)
        /\ NmFits(tab2, name) # {}
    BY <1>2, FirstStays
  <2>2. tab2[NmFirst(tab2, name)] = tab[NmFirst(tab, name)]
    BY <2>1
  <2>3. NamRepl(tab, name) = NamRepl(tab2, name)
    BY <1>2, <2>1, <2>2, ReplIs
  <2> QED  BY <2>3 DEF NamMap
<1> QED  BY <1>1, <1>2

\* Whatever is mounted and opened in between, a name that was mapped once is mapped to
\* the same device and name for good (mount.c, nammap.c).
THEOREM NamesKeepDevices == NmSpec => NmNamesStay
<1> DEFINE Stay == nametab' # nametab =>
                     \A name \in NmNames : NamMap(nametab, name) \in {Unmapped, NamMap(nametab', name)}
<1>1. NmInit => NmTable
  BY NamInitTable DEF NmInit, NmTable
<1>2. ASSUME IsTable(nametab), [NmNext]_nmvars
      PROVE  /\ IsTable(nametab')
             /\ nametab' # nametab =>
                  \A name \in NmNames : NamMap(nametab, name) \in {Unmapped, NamMap(nametab', name)}
  <2>1. CASE UNCHANGED nametab
    BY <1>2, <2>1
  <2>2. ASSUME NEW prefix \in NmPrefixes, NEW replace \in NmPrefixes,
               NEW d \in {SYSERR, NULLDEV, NAMESPACE, RAM0}, NmMount(prefix, replace, d)
        PROVE  /\ IsTable(nametab')
               /\ \A name \in NmNames : NamMap(nametab, name) \in {Unmapped, NamMap(nametab', name)}
    <3>1. nametab' = Mount(nametab, prefix, replace, d)
      BY <2>2 DEF NmMount
    <3> QED  BY <1>2, <3>1, MountAppends, MapStays
  <2>3. nametab' = nametab \/ \E prefix, replace \in NmPrefixes, d \in {SYSERR, NULLDEV, NAMESPACE, RAM0} :
                                NmMount(prefix, replace, d)
    BY <1>2 DEF NmNext, nmvars, NmOpen, NmGetdev
  <2> QED  BY <2>1, <2>2, <2>3
<1>3. NmTable /\ [NmNext]_nmvars => NmTable'
  BY <1>2 DEF NmTable
<1>4. NmTable /\ [NmNext]_nmvars => [Stay]_nmvars
  BY <1>2 DEF NmTable
<1> QED  BY <1>1, <1>3, <1>4, PTL DEF NmSpec, NmNamesStay

-----------------------------------------------------------------------------
(* Positions in a ring *)

\* What a remainder is.
LEMMA ModDef ==
  ASSUME NEW L \in Nat \ {0}, NEW x \in Int
  PROVE  x % L \in 0 .. L - 1 /\ x \div L \in Int /\ x = L * (x \div L) + (x % L)
<1>1. x % L \in 0 .. L - 1
  BY Z3
<1>2. x \div L \in Int
  BY Z3
<1>3. x = L * (x \div L) + (x % L)
  BY SMT
<1> QED  BY <1>1, <1>2, <1>3

\* A position inside the ring is itself, and a turn of the ring changes nothing.
LEMMA ModIs ==
  ASSUME NEW L \in Nat \ {0}, NEW r \in 0 .. L - 1, NEW k \in Int
  PROVE  (r + L * k) % L = r /\ r % L = r
<1>1. (r + L * k) % L = r
  BY SMT
<1> QED  BY <1>1

\* A position may be reduced before something is added.
LEMMA ModPlus ==
  ASSUME NEW L \in Nat \ {0}, NEW x \in Int, NEW y \in Int
  PROVE  /\ ((x % L) + y) % L = (x + y) % L
         /\ (x + L) % L = x % L
<1> DEFINE r == x % L
           k == x \div L
           z == r + y
           s == z % L
           l == z \div L
<1>1. r \in 0 .. L - 1 /\ k \in Int /\ x = L * k + r
  BY ModDef
<1> HIDE DEF r, k
<1>2. z \in Int
  BY <1>1
<1>3. s \in 0 .. L - 1 /\ l \in Int /\ z = L * l + s
  <2> HIDE DEF z
  <2> QED  BY <1>2, ModDef
<1> HIDE DEF s, l
<1>4. x + y = s + L * (l + k) /\ l + k \in Int
  BY <1>1, <1>3
<1>5. (s + L * (l + k)) % L = s
  <2>1. \A m \in Int : (s + L * m) % L = s
    BY <1>3, ModIs
  <2> QED  BY <1>4, <2>1
<1>6. (x + y) % L = s
  <2>1. PICK v \in Int : v = x + y
    BY <1>4
  <2>2. v % L = s
    BY <1>4, <1>5, <2>1
  <2> QED  BY <2>1, <2>2
<1>7. x + L = r + L * (k + 1) /\ k + 1 \in Int
  BY <1>1
<1>8. (x + L) % L = r
  <2>1. \A m \in Int : (r + L * m) % L = r
    BY <1>1, ModIs
  <2>2. (r + L * (k + 1)) % L = r
    BY <1>7, <2>1
  <2> QED  BY <1>7, <2>2
<1> QED  BY <1>6, <1>8 DEF s, z, r

\* Different places of a ring that is not longer than the buffer are different.
LEMMA ModApart ==
  ASSUME NEW L \in Nat \ {0}, NEW s \in Int, NEW i \in 0 .. L - 1, NEW j \in 0 .. L - 1,
         (s + i) % L = (s + j) % L
  PROVE  i = j
<1> DEFINE r == s % L
           k == s \div L
<1>1. r \in 0 .. L - 1 /\ k \in Int /\ s = L * k + r
  BY ModDef
<1>2. \A y \in Int : (r + y) % L = (s + y) % L
  BY ModPlus
<1> HIDE DEF r, k
<1>3. \A m \in 0 .. L - 1 : (r + m) % L = IF r + m < L THEN r + m ELSE r + m - L
  <2> TAKE m \in 0 .. L - 1
  <2>1. CASE r + m < L
    <3>1. r + m \in 0 .. L - 1
      BY <1>1, <2>1
    <3>2. \A x \in 0 .. L - 1 : x % L = x
      BY ModIs
    <3> QED  BY <2>1, <3>1, <3>2
  <2>2. CASE r + m >= L
    <3>1. r + m - L \in 0 .. L - 1 /\ r + m = (r + m - L) + L
      BY <1>1, <2>2
    <3>2. \A x \in 0 .. L - 1 : (x + L) % L = x
      BY ModIs, ModPlus
    <3>3. ((r + m - L) + L) % L = r + m - L
      BY <3>1, <3>2
    <3> QED  BY <2>2, <3>1, <3>3
  <2> QED  BY <1>1, <2>1, <2>2
<1>4. (r + i) % L = (s + i) % L /\ (r + j) % L = (s + j) % L
  <2>1. i \in Int /\ j \in Int
    OBVIOUS
  <2> QED  BY <1>2, <2>1
<1>5. (r + i) % L = (r + j) % L
  BY <1>4
<1> QED  BY <1>1, <1>3, <1>5

\* The place behind the last element of a ring that is not full is none of those before it.
LEMMA RingPut ==
  ASSUME NEW L \in Nat \ {0}, NEW s \in Int, NEW n \in 0 .. L - 1
  PROVE  /\ (s + n) % L \in 0 .. L - 1
         /\ \A i \in 0 .. n - 1 : (s + i) % L \in 0 .. L - 1 /\ (s + i) % L # (s + n) % L
<1>1. (s + n) % L \in 0 .. L - 1
  BY ModDef
<1>2. ASSUME NEW i \in 0 .. n - 1  PROVE (s + i) % L \in 0 .. L - 1 /\ (s + i) % L # (s + n) % L
  <2>1. i \in 0 .. L - 1 /\ i # n /\ s + i \in Int
    BY <1>2
  <2>2. (s + i) % L \in 0 .. L - 1
    BY <2>1, ModDef
  <2>3. (s + i) % L # (s + n) % L
    BY <2>1, ModApart
  <2> QED  BY <2>2, <2>3
<1> QED  BY <1>1, <1>2

\* What follows the first element of a ring.
LEMMA RingStep ==
  ASSUME NEW L \in Nat \ {0}, NEW s \in Int
  PROVE  /\ (s + 1) % L \in 0 .. L - 1
         /\ \A i \in Int : (((s + 1) % L) + i) % L = (s + (i + 1)) % L
<1>1. s + 1 \in Int /\ (s + 1) % L \in 0 .. L - 1
  BY ModDef
<1>2. ASSUME NEW i \in Int  PROVE (((s + 1) % L) + i) % L = (s + (i + 1)) % L
  <2>1. \A x \in Int : ((x % L) + i) % L = (x + i) % L
    BY ModPlus
  <2>2. (((s + 1) % L) + i) % L = ((s + 1) + i) % L
    BY <1>1, <2>1
  <2>3. (s + 1) + i = s + (i + 1)
    OBVIOUS
  <2> QED  BY <2>2, <2>3
<1> QED  BY <1>1, <1>2

-----------------------------------------------------------------------------
(* Counting callers *)

\* One caller has moved.
LEMMA CountMoves ==
  ASSUME NEW F, NEW G, F \subseteq Procs, G \subseteq Procs, NEW p \in Procs,
         \A q \in Procs : q # p => (q \in F <=> q \in G)
  PROVE  /\ Cardinality(F) \in Nat /\ Cardinality(G) \in Nat
         /\ Cardinality(G) = Cardinality(F) + (IF p \in G THEN 1 ELSE 0) - (IF p \in F THEN 1 ELSE 0)
<1>1. Cardinality(F) \in Nat /\ Cardinality(G) \in Nat
  BY OneMore
<1>2. CASE p \in F <=> p \in G
  <2>1. F = G
    BY <1>2
  <2> QED  BY <1>1, <2>1
<1>3. CASE p \in F /\ p \notin G
  <2>1. G = F \ {p}
    BY <1>3
  <2> QED  BY <1>1, <1>3, <2>1, OneMore
<1>4. CASE p \notin F /\ p \in G
  <2>1. G = F \cup {p}
    BY <1>4
  <2> QED  BY <1>1, <1>4, <2>1, OneMore
<1> QED  BY <1>2, <1>3, <1>4

\* What a semaphore has left and those it has let through, of those who came to it, are
\* together its count and those who came (wait.c, signal.c).
LEMMA SemaBalance ==
  ASSUME NEW s, SemaSound(s), NEW P, P \subseteq Procs, Waiters(s) \subseteq P
  PROVE  /\ Available(s) + Cardinality(P \ Waiters(s)) = s.n + Cardinality(P)
         /\ Available(s) \in Nat /\ Cardinality(P \ Waiters(s)) \in Nat /\ Cardinality(P) \in Nat
         /\ s.n \in Int
<1>1. /\ s.n \in Int /\ Len(s.q) = (IF s.n < 0 THEN -s.n ELSE 0)
      /\ Cardinality(Waiters(s)) = Len(s.q) /\ IsFiniteSet(P) /\ IsFiniteSet(Waiters(s))
  BY SoundIsOK, SemasAssumption, FS_Subset DEF SemaSound, SemaOK
<1>2. /\ Cardinality(P) \in Nat /\ Cardinality(P \ Waiters(s)) \in Nat
      /\ Cardinality(P \ Waiters(s)) = Cardinality(P) - Cardinality(P \cap Waiters(s))
  BY <1>1, FS_Difference, FS_CardinalityType
<1>3. P \cap Waiters(s) = Waiters(s)
  OBVIOUS
<1>4. Cardinality(P \ Waiters(s)) = Cardinality(P) - Len(s.q)
  BY <1>1, <1>2, <1>3
<1>5. Available(s) \in Nat /\ Available(s) = s.n + Len(s.q)
  BY <1>1 DEF Available
<1> QED  BY <1>1, <1>2, <1>4, <1>5

\* signaln: the first k of the queue leave it (signaln.c).
LEMMA UpNIs ==
  ASSUME NEW s, SemaSound(s), NEW k \in Nat
  PROVE  /\ SemaSound(UpN(s, k)) /\ UpN(s, k).n = s.n + k
         /\ Waiters(UpN(s, k)) \subseteq Waiters(s)
<1> DEFINE m == IF k < Len(s.q) THEN k ELSE Len(s.q)
           r == SubSeq(s.q, 1 + m, Len(s.q))
<1>1. /\ s.q \in Seq(Procs) /\ Len(s.q) \in Nat /\ DOMAIN s.q = 1 .. Len(s.q) /\ s.n \in Int
      /\ Len(s.q) = (IF s.n < 0 THEN -s.n ELSE 0)
      /\ \A i, j \in 1 .. Len(s.q) : s.q[i] = s.q[j] => i = j
  BY DEF SemaSound
<1>2. m \in 0 .. Len(s.q) /\ Len(s.q) - m = (IF s.n + k < 0 THEN -(s.n + k) ELSE 0)
  BY <1>1
<1>3. UpN(s, k) = [n |-> s.n + k, q |-> r]
  BY DEF UpN
<1> HIDE DEF m
<1>4. /\ r \in Seq(Procs) /\ Len(r) = Len(s.q) - m /\ DOMAIN r = 1 .. Len(s.q) - m
      /\ \A i \in 1 .. Len(s.q) - m : r[i] = s.q[i + m]
  <2>1. 1 + m \in 1 .. Len(s.q) + 1 /\ Len(s.q) \in 1 + m - 1 .. Len(s.q)
    BY <1>1, <1>2
  <2>2. /\ r \in Seq(Procs) /\ Len(r) = Len(s.q) - (1 + m) + 1
        /\ \A i \in 1 .. Len(s.q) - (1 + m) + 1 : r[i] = s.q[1 + m + i - 1]
    BY <1>1, <2>1, SubSeqProperties
  <2> HIDE DEF r
  <2>3. Len(s.q) \in Int /\ m \in Int
    BY <1>1, <1>2
  <2>4. Len(r) = Len(s.q) - m /\ DOMAIN r = 1 .. Len(s.q) - m
    BY <2>2, <2>3
  <2>5. ASSUME NEW i \in 1 .. Len(s.q) - m  PROVE r[i] = s.q[i + m]
    <3>1. i \in 1 .. Len(s.q) - (1 + m) + 1 /\ 1 + m + i - 1 = i + m
      BY <2>3
    <3> QED  BY <2>2, <3>1
  <2> QED  BY <2>2, <2>4, <2>5
<1> HIDE DEF r
<1>5. \A i \in 1 .. Len(r) : i + m \in 1 .. Len(s.q)
  BY <1>1, <1>2, <1>4
<1>6. \A i, j \in 1 .. Len(r) : r[i] = r[j] => i = j
  <2> SUFFICES ASSUME NEW i \in 1 .. Len(r), NEW j \in 1 .. Len(r), r[i] = r[j]  PROVE i = j
    OBVIOUS
  <2>1. s.q[i + m] = s.q[j + m] /\ i + m \in 1 .. Len(s.q) /\ j + m \in 1 .. Len(s.q)
    BY <1>4, <1>5
  <2>2. i + m = j + m
    BY <1>1, <2>1
  <2> QED  BY <1>2, <2>2
<1>7. SemaSound(UpN(s, k)) /\ UpN(s, k).n = s.n + k /\ UpN(s, k).q = r
  BY <1>1, <1>2, <1>3, <1>4, <1>6 DEF SemaSound
<1>8. Waiters(UpN(s, k)) \subseteq Waiters(s)
  BY <1>1, <1>4, <1>5, <1>7 DEF Waiters
<1> QED  BY <1>7, <1>8
=============================================================================
