---------------------------- MODULE QueueProofs ----------------------------
(***************************************************************************)
(* What the queue operations return, for every list and every key.         *)
(*                                                                         *)
(* The operations are CHOOSEs and, for the delta list, a function defined  *)
(* by recursion, so each starts with a proof that what it chooses exists:  *)
(* a least place where a scan stops, and the running sums of the keys.     *)
(* Everything the kernel's proofs need of a list afterwards is who is on   *)
(* it, that nobody is on it twice, and that its members are processes.     *)
(***************************************************************************)
EXTENDS Queues, TLAPS, WellFoundedInduction, SequenceTheorems

\* A nonempty set of natural numbers has a least element: where the scans of
\* insert.c and insertd.c stop is the least place that fits.
LEMMA LeastNat ==
  ASSUME NEW T, T \subseteq Nat, T # {}
  PROVE  \E n \in T : \A m \in T : n <= m
<1>1. IsWellFoundedOn(OpToRel(<, Nat), Nat)  BY NatLessThanWellFounded
<1>2. PICK n \in T : \A m \in T : <<m, n>> \notin OpToRel(<, Nat)
  BY <1>1, WFMin, Zenon
<1>3. \A m \in T : ~ (m < n)
  BY <1>2 DEF OpToRel
<1> QED  BY <1>3

\* r is the list q with e added, or with e taken away.
Grows(S, q, e, r) ==
  /\ r \in Seq(S) /\ r # <<>>
  /\ \A p : OnQueue(r, p) <=> OnQueue(q, p) \/ p = e
  /\ NoDuplicates(q) /\ ~OnQueue(q, e) => NoDuplicates(r)

Shrinks(S, q, e, r) ==
  /\ r \in Seq(S)
  /\ \A p : OnQueue(r, p) <=> OnQueue(q, p) /\ p # e
  /\ NoDuplicates(r)

\* The same, place by place: e comes in at position i, or position i is taken out.
InsertedAt(S, q, i, e, r) ==
  /\ r \in Seq(S) /\ Len(r) = Len(q) + 1
  /\ \A j \in 1 .. i - 1 : r[j] = q[j]
  /\ r[i] = e
  /\ \A j \in i + 1 .. Len(q) + 1 : r[j] = q[j-1]

RemovedAt(S, q, i, r) ==
  /\ r \in Seq(S) /\ Len(r) = Len(q) - 1
  /\ \A j \in 1 .. Len(q) - 1 : r[j] = IF j < i THEN q[j] ELSE q[j+1]

\* Where the elements of a list end up when one is inserted (queue.c, insert.c,
\* insertd.c).
LEMMA InsertAtFacts ==
  ASSUME NEW S, NEW q \in Seq(S), NEW i \in Nat \ {0}, i <= Len(q) + 1, NEW e \in S
  PROVE  InsertedAt(S, q, i, e, InsertAt(q, i, e))
<1> DEFINE a == SubSeq(q, 1, i - 1)
           b == SubSeq(q, i, Len(q))
<1>1. Len(q) \in Nat /\ \A j \in 1 .. Len(q) : q[j] \in S
  BY LenProperties, ElementOfSeq
<1>2. /\ a \in Seq(S) /\ Len(a) = i - 1
      /\ \A j \in 1 .. i - 1 : a[j] = q[j]
  BY <1>1, SubSeqProperties
<1>3. /\ b \in Seq(S) /\ Len(b) = Len(q) - i + 1
      /\ \A j \in 1 .. Len(q) - i + 1 : b[j] = q[i + j - 1]
  BY <1>1, SubSeqProperties
<1>4. /\ <<e>> \in Seq(S) /\ Len(<<e>>) = 1 /\ <<e>>[1] = e
  OBVIOUS
<1> DEFINE ae == a \o <<e>>
<1>5. /\ ae \in Seq(S) /\ Len(ae) = i
      /\ \A j \in 1 .. i : ae[j] = IF j <= i - 1 THEN a[j] ELSE <<e>>[j - (i - 1)]
  BY <1>1, <1>2, <1>4, ConcatProperties
<1>6. (\A j \in 1 .. i - 1 : ae[j] = q[j]) /\ ae[i] = e
  <2> HIDE DEF a, ae
  <2>1. ASSUME NEW j \in 1 .. i - 1  PROVE ae[j] = q[j]
    <3>1. j \in 1 .. i /\ j <= i - 1  OBVIOUS
    <3> QED  BY <3>1, <1>2, <1>5
  <2>2. ae[i] = e
    <3>1. i \in 1 .. i /\ ~(i <= i - 1) /\ i - (i - 1) = 1  OBVIOUS
    <3>2. ae[i] = <<e>>[1]  BY <3>1, <1>5
    <3> QED  BY <3>2, <1>4
  <2> QED  BY <2>1, <2>2
<1>7. /\ ae \o b \in Seq(S) /\ Len(ae \o b) = Len(q) + 1
      /\ \A j \in 1 .. Len(q) + 1 : (ae \o b)[j] = IF j <= i THEN ae[j] ELSE b[j - i]
  <2> HIDE DEF ae, b
  <2>1. Len(ae) + Len(b) = Len(q) + 1  BY <1>1, <1>3, <1>5
  <2>2. /\ ae \o b \in Seq(S) /\ Len(ae \o b) = Len(ae) + Len(b)
        /\ \A j \in 1 .. Len(ae) + Len(b) : (ae \o b)[j] =
             IF j <= Len(ae) THEN ae[j] ELSE b[j - Len(ae)]
    BY <1>3, <1>5, ConcatProperties, ZenonT(60)
  <2> QED  BY <1>5, <2>1, <2>2
<1>8. InsertAt(q, i, e) = ae \o b
  BY DEF InsertAt
<1> DEFINE r == ae \o b
<1> HIDE DEF ae, b
<1>9. \A j \in 1 .. i - 1 : r[j] = q[j]
  BY <1>1, <1>6, <1>7
<1>10. r[i] = e
  BY <1>1, <1>6, <1>7
<1>11. \A j \in i + 1 .. Len(q) + 1 : r[j] = q[j-1]
  <2> SUFFICES ASSUME NEW j \in i + 1 .. Len(q) + 1  PROVE r[j] = q[j-1]
    OBVIOUS
  <2>1. j - i \in 1 .. Len(q) - i + 1 /\ i + (j - i) - 1 = j - 1 /\ ~(j <= i) /\ j \in 1 .. Len(q) + 1
    BY <1>1
  <2>2. r[j] = b[j - i]  BY <1>7, <2>1
  <2> QED  BY <1>3, <2>1, <2>2
<1>12. InsertedAt(S, q, i, e, r)
  BY <1>7, <1>9, <1>10, <1>11 DEF InsertedAt
<1> QED  BY <1>8, <1>12

\* Where the elements of a list end up when one is removed (getitem.c).
LEMMA RemoveAtFacts ==
  ASSUME NEW S, NEW q \in Seq(S), NEW i \in 1 .. Len(q)
  PROVE  RemovedAt(S, q, i, RemoveAt(q, i))
<1> DEFINE a == SubSeq(q, 1, i - 1)
           b == SubSeq(q, i + 1, Len(q))
<1>1. Len(q) \in Nat /\ \A j \in 1 .. Len(q) : q[j] \in S
  BY LenProperties, ElementOfSeq
<1>2. /\ a \in Seq(S) /\ Len(a) = i - 1
      /\ \A j \in 1 .. i - 1 : a[j] = q[j]
  BY <1>1, SubSeqProperties
<1>3. /\ b \in Seq(S) /\ Len(b) = Len(q) - i
      /\ \A j \in 1 .. Len(q) - i : b[j] = q[i + j]
  BY <1>1, SubSeqProperties
<1>4. RemoveAt(q, i) = a \o b
  BY DEF RemoveAt
<1> HIDE DEF a, b
<1>5. Len(a) + Len(b) = Len(q) - 1
  BY <1>1, <1>2, <1>3
<1>6. /\ a \o b \in Seq(S) /\ Len(a \o b) = Len(a) + Len(b)
      /\ \A j \in 1 .. Len(a) + Len(b) : (a \o b)[j] =
           IF j <= Len(a) THEN a[j] ELSE b[j - Len(a)]
  BY <1>2, <1>3, ConcatProperties, Zenon
<1>7. ASSUME NEW j \in 1 .. Len(q) - 1
      PROVE  (a \o b)[j] = IF j < i THEN q[j] ELSE q[j+1]
  <2>1. (a \o b)[j] = IF j <= i - 1 THEN a[j] ELSE b[j - (i - 1)]
    BY <1>2, <1>5, <1>6
  <2>2. CASE j < i
    <3>1. j \in 1 .. i - 1 /\ j <= i - 1  BY <2>2
    <3> QED  BY <1>2, <2>1, <2>2, <3>1
  <2>3. CASE ~(j < i)
    <3>1. /\ ~(j <= i - 1) /\ j - (i - 1) \in 1 .. Len(q) - i
          /\ i + (j - (i - 1)) = j + 1
      BY <1>1, <2>3
    <3>2. b[j - (i - 1)] = q[i + (j - (i - 1))]  BY <1>3, <3>1
    <3> QED  BY <2>1, <2>3, <3>1, <3>2
  <2> QED  BY <2>2, <2>3
<1>8. RemovedAt(S, q, i, a \o b)
  BY <1>5, <1>6, <1>7 DEF RemovedAt
<1> QED  BY <1>4, <1>8

\* An insertion adds one process, wherever it was made (queue.c, insert.c,
\* insertd.c).
LEMMA InsertAtMembers ==
  ASSUME NEW S, NEW q \in Seq(S), NEW i \in Nat \ {0}, i <= Len(q) + 1, NEW e \in S,
         NEW r, InsertedAt(S, q, i, e, r)
  PROVE  Grows(S, q, e, r)
<1> DEFINE n == Len(q)
<1>1. n \in Nat /\ DOMAIN q = 1 .. n
  BY LenProperties
<1>2. /\ r \in Seq(S) /\ Len(r) = n + 1
      /\ \A j \in 1 .. i - 1 : r[j] = q[j]
      /\ r[i] = e
      /\ \A j \in i + 1 .. n + 1 : r[j] = q[j-1]
  BY DEF InsertedAt
<1> HIDE DEF n
<1>3. DOMAIN r = 1 .. n + 1 /\ i \in 1 .. n + 1
  BY <1>1, <1>2, LenProperties DEF n
<1>4. ASSUME NEW p, OnQueue(q, p)  PROVE OnQueue(r, p)
  <2>1. PICK j \in 1 .. n : q[j] = p  BY <1>1, <1>4 DEF OnQueue
  <2>2. CASE j < i  BY <2>1, <2>2, <1>1, <1>2, <1>3 DEF OnQueue
  <2>3. CASE ~(j < i)
    <3>1. j + 1 \in 1 .. n + 1 /\ r[j + 1] = p  BY <2>1, <2>3, <1>1, <1>2, <1>3
    <3> QED  BY <3>1, <1>3 DEF OnQueue
  <2> QED  BY <2>2, <2>3
<1>5. OnQueue(r, e)  BY <1>1, <1>2, <1>3 DEF OnQueue
<1>6. ASSUME NEW p, OnQueue(r, p), p # e  PROVE OnQueue(q, p)
  <2>1. PICK j \in 1 .. n + 1 : r[j] = p  BY <1>3, <1>6 DEF OnQueue
  <2>2. CASE j < i  BY <2>1, <2>2, <1>1, <1>2, <1>3 DEF OnQueue
  <2>3. CASE ~(j < i)
    <3>1. j - 1 \in 1 .. n /\ q[j - 1] = p  BY <2>1, <2>3, <1>1, <1>2, <1>3, <1>6
    <3> QED  BY <3>1, <1>1 DEF OnQueue
  <2> QED  BY <2>2, <2>3
<1>7. ASSUME NoDuplicates(q), ~OnQueue(q, e)  PROVE NoDuplicates(r)
  <2> SUFFICES ASSUME NEW j \in 1 .. n + 1, NEW k \in 1 .. n + 1, j < k  PROVE r[j] # r[k]
    BY <1>1, <1>3 DEF NoDuplicates
  <2>1. \A a, b \in 1 .. n : a # b => q[a] # q[b]  BY <1>1, <1>7 DEF NoDuplicates
  <2>2. \A a \in 1 .. n : q[a] # e  BY <1>1, <1>7 DEF OnQueue
  <2>3. CASE k < i
    <3>1. j \in 1 .. i - 1 /\ k \in 1 .. i - 1 /\ j \in 1 .. n /\ k \in 1 .. n
      BY <1>1, <1>3, <2>3
    <3> QED  BY <1>2, <2>1, <3>1
  <2>4. CASE k = i
    <3>1. j \in 1 .. i - 1 /\ j \in 1 .. n  BY <1>1, <1>3, <2>4
    <3> QED  BY <1>2, <2>2, <2>4, <3>1
  <2>5. CASE k > i
    <3>1. r[k] = q[k-1] /\ k - 1 \in 1 .. n  BY <1>1, <1>2, <1>3, <2>5
    <3>2. CASE j < i
      <4>1. j \in 1 .. i - 1 /\ j \in 1 .. n /\ j # k - 1  BY <1>1, <1>3, <2>5, <3>2
      <4> QED  BY <1>2, <2>1, <3>1, <4>1
    <3>3. CASE j = i
      BY <1>2, <2>2, <3>1, <3>3
    <3>4. CASE j > i
      <4>1. r[j] = q[j-1] /\ j - 1 \in 1 .. n /\ j - 1 # k - 1  BY <1>1, <1>2, <1>3, <3>4
      <4> QED  BY <2>1, <3>1, <4>1
    <3> QED  BY <1>1, <1>3, <3>2, <3>3, <3>4
  <2> QED  BY <1>1, <1>3, <2>3, <2>4, <2>5
<1>8. r # <<>>  BY <1>3, <1>1
<1> QED  BY <1>2, <1>4, <1>5, <1>6, <1>7, <1>8 DEF Grows

\* A removal takes one process off the list, wherever it was (getitem.c).
LEMMA RemoveAtMembers ==
  ASSUME NEW S, NEW q \in Seq(S), NEW i \in 1 .. Len(q), NoDuplicates(q),
         NEW r, RemovedAt(S, q, i, r)
  PROVE  Shrinks(S, q, q[i], r)
<1> DEFINE n == Len(q)
<1>1. n \in Nat /\ DOMAIN q = 1 .. n
  BY LenProperties
<1>2. /\ r \in Seq(S) /\ Len(r) = n - 1
      /\ \A j \in 1 .. n - 1 : r[j] = IF j < i THEN q[j] ELSE q[j+1]
  BY DEF RemovedAt
<1> HIDE DEF n
<1>3. DOMAIN r = 1 .. n - 1 /\ i \in 1 .. n
  BY <1>1, <1>2, LenProperties DEF n
<1>0. \A a, b \in 1 .. n : a # b => q[a] # q[b]  BY <1>1 DEF NoDuplicates
<1>4. ASSUME NEW p, OnQueue(q, p), p # q[i]  PROVE OnQueue(r, p)
  <2>1. PICK j \in 1 .. n : q[j] = p  BY <1>1, <1>4 DEF OnQueue
  <2>2. CASE j < i  BY <2>1, <2>2, <1>1, <1>2, <1>3 DEF OnQueue
  <2>3. CASE ~(j < i)
    <3>1. j - 1 \in 1 .. n - 1 /\ r[j - 1] = p  BY <2>1, <2>3, <1>1, <1>2, <1>3, <1>4
    <3> QED  BY <3>1, <1>3 DEF OnQueue
  <2> QED  BY <2>2, <2>3
<1>5. ASSUME NEW p, OnQueue(r, p)  PROVE OnQueue(q, p) /\ p # q[i]
  <2>1. PICK j \in 1 .. n - 1 : r[j] = p  BY <1>3, <1>5 DEF OnQueue
  <2>2. PICK k \in 1 .. n : k # i /\ q[k] = p  BY <2>1, <1>1, <1>2, <1>3
  <2> QED  BY <2>2, <1>0, <1>1, <1>3 DEF OnQueue
<1>6. NoDuplicates(r)
  <2> SUFFICES ASSUME NEW j \in 1 .. n - 1, NEW k \in 1 .. n - 1, j < k  PROVE r[j] # r[k]
    BY <1>1, <1>3 DEF NoDuplicates
  <2>1. PICK a \in 1 .. n, b \in 1 .. n : a < b /\ r[j] = q[a] /\ r[k] = q[b]
    <3> DEFINE f(m) == IF m < i THEN m ELSE m + 1
    <3>1. r[j] = q[f(j)] /\ r[k] = q[f(k)]  BY <1>2
    <3>2. f(j) \in 1 .. n /\ f(k) \in 1 .. n /\ f(j) < f(k)  BY <1>1, <1>3
    <3> QED  BY <3>1, <3>2
  <2> QED  BY <1>0, <1>1, <2>1
<1> QED  BY <1>2, <1>4, <1>5, <1>6 DEF Shrinks

-----------------------------------------------------------------------------
(* What the kernel relies on, stated for each operation on a list.         *)

\* enqueue adds the process at the tail and nobody else (queue.c).
LEMMA EnqueueFacts ==
  ASSUME NEW S, NEW q \in Seq(S), NEW e \in S
  PROVE  Grows(S, q, e, Enqueue(q, e))
<1> DEFINE r == Append(q, e)
           n == Len(q)
<1>1. n \in Nat /\ DOMAIN q = 1 .. n
  BY LenProperties
<1>2. /\ r \in Seq(S) /\ Len(r) = n + 1
      /\ \A j \in 1 .. n : r[j] = q[j]
      /\ r[n + 1] = e
  BY AppendProperties
<1> HIDE DEF r, n
<1>3. DOMAIN r = 1 .. n + 1
  BY <1>1, <1>2, LenProperties
<1>4. \A p : OnQueue(r, p) <=> OnQueue(q, p) \/ p = e
  BY <1>1, <1>2, <1>3 DEF OnQueue
<1>5. NoDuplicates(q) /\ ~OnQueue(q, e) => NoDuplicates(r)
  BY <1>1, <1>2, <1>3 DEF OnQueue, NoDuplicates
<1>6. r # <<>>  BY <1>1, <1>3
<1> QED  BY <1>2, <1>4, <1>5, <1>6 DEF r, Enqueue, Grows

\* dequeue and getfirst take the head off the list and nobody else (queue.c,
\* getitem.c).
LEMMA TailFacts ==
  ASSUME NEW S, NEW q \in Seq(S), q # <<>>
  PROVE  /\ q[1] \in S /\ OnQueue(q, q[1])
         /\ NoDuplicates(q) => Shrinks(S, q, q[1], Tail(q))
<1>1. Len(q) \in Nat \ {0} /\ DOMAIN q = 1 .. Len(q)
  BY EmptySeq, LenProperties
<1>2. /\ Tail(q) \in Seq(S)
      /\ Len(Tail(q)) = Len(q) - 1
      /\ \A i \in 1 .. Len(Tail(q)) : Tail(q)[i] = q[i+1]
  BY HeadTailProperties
<1>3. DOMAIN Tail(q) = 1 .. Len(q) - 1
  BY <1>2, LenProperties
<1>4. q[1] \in S /\ OnQueue(q, q[1])
  BY <1>1, ElementOfSeq DEF OnQueue
<1>5. ASSUME NoDuplicates(q), NEW p, OnQueue(q, p), p # q[1]  PROVE OnQueue(Tail(q), p)
  <2>1. PICK j \in 1 .. Len(q) : q[j] = p  BY <1>1, <1>5 DEF OnQueue
  <2>2. j - 1 \in 1 .. Len(q) - 1 /\ Tail(q)[j - 1] = p
    BY <2>1, <1>1, <1>2, <1>5
  <2> QED  BY <2>2, <1>3 DEF OnQueue
<1>6. ASSUME NoDuplicates(q), NEW p, OnQueue(Tail(q), p)  PROVE OnQueue(q, p) /\ p # q[1]
  BY <1>1, <1>2, <1>3, <1>6 DEF OnQueue, NoDuplicates
<1>7. NoDuplicates(q) => NoDuplicates(Tail(q))
  BY <1>1, <1>2, <1>3 DEF NoDuplicates
<1> QED  BY <1>2, <1>4, <1>5, <1>6, <1>7 DEF Shrinks

\* getitem takes a process off the list, wherever it is, and nobody else
\* (getitem.c).
LEMMA GetItemFacts ==
  ASSUME NEW S, NEW q \in Seq(S), NEW e, OnQueue(q, e), NoDuplicates(q)
  PROVE  Shrinks(S, q, e, GetItem(q, e))
<1>1. PlaceOf(q, e) \in 1 .. Len(q) /\ q[PlaceOf(q, e)] = e
  <2>1. \E i \in DOMAIN q : q[i] = e  BY DEF OnQueue
  <2>2. PlaceOf(q, e) \in DOMAIN q /\ q[PlaceOf(q, e)] = e  BY <2>1 DEF PlaceOf
  <2> QED  BY <2>2, LenProperties
<1>2. RemovedAt(S, q, PlaceOf(q, e), GetItem(q, e))
  BY <1>1, RemoveAtFacts DEF GetItem
<1> QED  BY <1>1, <1>2, RemoveAtMembers

\* insert: the scan stops at a node of the list or behind the last (insert.c).
LEMMA InsertPlaceFacts ==
  ASSUME NEW S, NEW q \in Seq(S), NEW key \in [S -> Int], NEW k \in Int
  PROVE  /\ InsertPlace(q, key, k) \in 1 .. Len(q) + 1
         /\ \A j \in 1 .. InsertPlace(q, key, k) - 1 : key[q[j]] >= k
         /\ InsertPlace(q, key, k) <= Len(q) => key[q[InsertPlace(q, key, k)]] < k
<1> DEFINE P(i) == /\ \A j \in 1 .. i - 1 : key[q[j]] >= k
                   /\ i <= Len(q) => key[q[i]] < k
           T == {i \in 1 .. Len(q) + 1 : i <= Len(q) => key[q[i]] < k}
<1>1. Len(q) \in Nat /\ \A j \in 1 .. Len(q) : key[q[j]] \in Int
  BY LenProperties, ElementOfSeq
<1>2. T \subseteq Nat /\ Len(q) + 1 \in T  BY <1>1
<1>3. PICK i \in T : \A m \in T : i <= m  BY <1>2, LeastNat
<1>4. i \in 1 .. Len(q) + 1 /\ P(i)  BY <1>1, <1>3
<1>5. InsertPlace(q, key, k) = CHOOSE n \in 1 .. Len(q) + 1 : P(n)  BY DEF InsertPlace
<1> HIDE DEF P
<1>6. InsertPlace(q, key, k) \in 1 .. Len(q) + 1 /\ P(InsertPlace(q, key, k))
  BY <1>4, <1>5
<1> QED  BY <1>6 DEF P

\* insert adds one process, whatever the keys are, and keeps the list free of
\* duplicates (insert.c).
LEMMA InsertFacts ==
  ASSUME NEW S, NEW q \in Seq(S), NEW key \in [S -> Int], NEW e \in S, NEW k \in Int
  PROVE  Grows(S, q, e, Insert(q, key, e, k))
<1> DEFINE i == InsertPlace(q, key, k)
<1>1. i \in Nat \ {0} /\ i <= Len(q) + 1
  <2>1. i \in 1 .. Len(q) + 1  BY InsertPlaceFacts
  <2>2. Len(q) \in Nat  BY LenProperties
  <2> QED  BY <2>1, <2>2
<1> HIDE DEF i
<1>2. Insert(q, key, e, k) = InsertAt(q, i, e)  BY DEF Insert, i
<1>3. InsertedAt(S, q, i, e, InsertAt(q, i, e))
  BY <1>1, InsertAtFacts
<1> QED  BY <1>1, <1>2, <1>3, InsertAtMembers

-----------------------------------------------------------------------------
(* Delta lists.  DeltaSum is a function defined by recursion over the      *)
(* positions; that it exists and has integer values is shown by looking at *)
(* the least position where it would not.                                  *)

\* The recursion of DeltaSum over the length of the list defines a function: its
\* values for the first n nodes exist for every n (insertd.c walks the list once).
LEMMA DeltaSumExists ==
  ASSUME NEW S, NEW q \in Seq(S), NEW key \in [S -> Int]
  PROVE  \E f : f = [i \in 0 .. Len(q) |-> IF i = 0 THEN 0 ELSE f[i-1] + key[q[i]]]
<1> DEFINE D(n, f) == f = [i \in 0 .. n |-> IF i = 0 THEN 0 ELSE f[i-1] + key[q[i]]]
           T == {n \in Nat : ~ \E f : D(n, f)}
<1>1. SUFFICES T = {}
  BY LenProperties
<1>2. SUFFICES ASSUME T # {}  PROVE FALSE
  OBVIOUS
<1>3. PICK n \in T : \A m \in T : n <= m
  BY <1>2, LeastNat
<1>4. n # 0
  <2>1. D(0, [i \in 0 .. 0 |-> 0])  OBVIOUS
  <2> QED  BY <2>1, <1>3
<1>5. n - 1 \in Nat /\ n - 1 \notin T
  <2>1. n \in Nat  OBVIOUS
  <2> HIDE DEF T
  <2> QED  BY <2>1, <1>3, <1>4
<1>6. PICK f : D(n - 1, f)
  BY <1>5
<1> DEFINE g == [i \in 0 .. n |-> IF i = n THEN f[n-1] + key[q[n]] ELSE f[i]]
<1>7. \A i \in 0 .. n : g[i] = IF i = 0 THEN 0 ELSE g[i-1] + key[q[i]]
  <2>1. \A i \in 0 .. n - 1 : f[i] = IF i = 0 THEN 0 ELSE f[i-1] + key[q[i]]
    BY <1>6
  <2> QED  BY <2>1, <1>4, <1>5
<1>8. D(n, g)
  BY <1>7
<1> QED  BY <1>3, <1>8

\* The time until a node of the delta list is due is an integer (insertd.c).
LEMMA DeltaSumType ==
  ASSUME NEW S, NEW q \in Seq(S), NEW key \in [S -> Int]
  PROVE  /\ DeltaSum(q, key)[0] = 0
         /\ \A i \in 1 .. Len(q) : DeltaSum(q, key)[i] = DeltaSum(q, key)[i-1] + key[q[i]]
         /\ \A i \in 0 .. Len(q) : DeltaSum(q, key)[i] \in Int
<1> DEFINE d == DeltaSum(q, key)
           T == {i \in 0 .. Len(q) : d[i] \notin Int}
<1>1. d = [i \in 0 .. Len(q) |-> IF i = 0 THEN 0 ELSE d[i-1] + key[q[i]]]
  BY DeltaSumExists, ZenonT(60) DEF DeltaSum
<1> HIDE DEF d
<1>2. Len(q) \in Nat /\ \A j \in 1 .. Len(q) : key[q[j]] \in Int
  BY LenProperties, ElementOfSeq
<1>3. d[0] = 0 /\ \A i \in 1 .. Len(q) : d[i] = d[i-1] + key[q[i]]
  BY <1>1, <1>2
<1>4. T = {}
  <2>1. SUFFICES ASSUME T # {}  PROVE FALSE
    OBVIOUS
  <2>2. T \subseteq Nat  BY <1>2
  <2>3. PICK n \in T : \A m \in T : n <= m
    BY <2>1, <2>2, LeastNat
  <2>4. n # 0  BY <2>3, <1>3
  <2>5. n - 1 \in 0 .. Len(q) /\ n - 1 \notin T /\ n \in 1 .. Len(q)
    BY <2>3, <2>4, <1>2
  <2> QED  BY <2>3, <2>5, <1>2, <1>3
<1> QED  BY <1>3, <1>4 DEF d

\* insertd: the scan stops at a node of the list or behind the last (insertd.c).
LEMMA InsertdPlaceFacts ==
  ASSUME NEW S, NEW q \in Seq(S), NEW key \in [S -> Int], NEW k \in Int
  PROVE  /\ InsertdPlace(q, key, k) \in 1 .. Len(q) + 1
         /\ \A j \in 1 .. InsertdPlace(q, key, k) - 1 : DeltaSum(q, key)[j] <= k
         /\ InsertdPlace(q, key, k) <= Len(q) => DeltaSum(q, key)[InsertdPlace(q, key, k)] > k
<1> DEFINE d == DeltaSum(q, key)
           P(i) == /\ \A j \in 1 .. i - 1 : d[j] <= k
                   /\ i <= Len(q) => d[i] > k
           T == {i \in 1 .. Len(q) + 1 : i <= Len(q) => d[i] > k}
<1>1. Len(q) \in Nat /\ \A j \in 1 .. Len(q) : d[j] \in Int
  BY LenProperties, DeltaSumType
<1>5. InsertdPlace(q, key, k) = CHOOSE n \in 1 .. Len(q) + 1 : P(n)  BY DEF InsertdPlace
<1> HIDE DEF d
<1>2. T \subseteq Nat /\ Len(q) + 1 \in T  BY <1>1
<1>3. PICK i \in T : \A m \in T : i <= m  BY <1>2, LeastNat
<1>4. i \in 1 .. Len(q) + 1 /\ P(i)  BY <1>1, <1>3
<1> HIDE DEF P
<1>6. InsertdPlace(q, key, k) \in 1 .. Len(q) + 1 /\ P(InsertdPlace(q, key, k))
  BY <1>4, <1>5
<1> QED  BY <1>6 DEF P, d

\* insertd adds one process and changes keys only, whatever the delay is
\* (insertd.c).
LEMMA InsertdFacts ==
  ASSUME NEW S, NEW q \in Seq(S), NEW key \in [S -> Int], NEW e \in S, NEW k \in Int
  PROVE  /\ Grows(S, q, e, Insertd(q, key, e, k))
         /\ InsertdKeys(q, key, e, k) \in [S -> Int]
<1> DEFINE i == InsertdPlace(q, key, k)
           d == DeltaSum(q, key)
           left == k - d[i-1]
           own == [key EXCEPT ![e] = left]
<1>1. i \in Nat \ {0} /\ i <= Len(q) + 1
  <2>1. i \in 1 .. Len(q) + 1  BY InsertdPlaceFacts
  <2>2. Len(q) \in Nat  BY LenProperties
  <2> QED  BY <2>1, <2>2
<1>2. left \in Int
  <2>1. \A j \in 0 .. Len(q) : d[j] \in Int  BY DeltaSumType
  <2> HIDE DEF i, d
  <2> QED  BY <1>1, <2>1, LenProperties
<1>3. Insertd(q, key, e, k) = InsertAt(q, i, e)  BY DEF Insertd
<1>4. InsertdKeys(q, key, e, k) = IF i <= Len(q) THEN [own EXCEPT ![q[i]] = @ - left] ELSE own
  BY DEF InsertdKeys
<1> HIDE DEF i, d, left
<1>5. InsertdKeys(q, key, e, k) \in [S -> Int]
  <2>1. own \in [S -> Int]  BY <1>2
  <2> HIDE DEF own
  <2>2. CASE i <= Len(q)
    <3>1. q[i] \in S  BY <1>1, <2>2, ElementOfSeq
    <3>2. own[q[i]] - left \in Int  BY <1>2, <2>1, <3>1
    <3>3. InsertdKeys(q, key, e, k) = [own EXCEPT ![q[i]] = @ - left]  BY <1>4, <2>2
    <3> QED  BY <2>1, <3>1, <3>2, <3>3
  <2>3. CASE ~(i <= Len(q))
    BY <1>4, <2>1, <2>3
  <2> QED  BY <2>2, <2>3
<1>6. InsertedAt(S, q, i, e, InsertAt(q, i, e))
  BY <1>1, InsertAtFacts
<1> QED  BY <1>1, <1>3, <1>5, <1>6, InsertAtMembers

\* unsleep leaves every key an integer (unsleep.c).
LEMMA UnsleepFacts ==
  ASSUME NEW S, NEW q \in Seq(S), NEW key \in [S -> Int], NEW e \in S, OnQueue(q, e)
  PROVE  UnsleepKeys(q, key, e) \in [S -> Int]
<1> DEFINE i == PlaceOf(q, e)
<1>1. i \in 1 .. Len(q)
  <2>1. \E j \in DOMAIN q : q[j] = e  BY DEF OnQueue
  <2>2. i \in DOMAIN q  BY <2>1 DEF PlaceOf
  <2> QED  BY <2>2, LenProperties
<1>2. UnsleepKeys(q, key, e) =
        IF i < Len(q) THEN [key EXCEPT ![q[i+1]] = @ + key[e]] ELSE key
  BY DEF UnsleepKeys
<1> HIDE DEF i
<1>3. Len(q) \in Nat /\ \A j \in 1 .. Len(q) : q[j] \in S
  BY LenProperties, ElementOfSeq
<1> QED  BY <1>1, <1>2, <1>3

=============================================================================
