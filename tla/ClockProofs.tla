---------------------------- MODULE ClockProofs ----------------------------
(***************************************************************************)
(* Proofs about delays: nobody is left on the sleep queue when its time    *)
(* has passed, and the delta list implements one timer per process.        *)
(*                                                                         *)
(* insertd, unsleep and the clock interrupt change one or two keys of the  *)
(* delta list; what each process waits for is a sum of keys.  The lemmas   *)
(* of the first part say what the operations do to the sums: a process     *)
(* that comes or goes leaves those of all the others as they were, and a   *)
(* tick takes one off each.                                                *)
(***************************************************************************)
EXTENDS ProcessProofs

-----------------------------------------------------------------------------
(* The sums of a delta list                                                *)

\* f starts at zero and grows by the key of each node.
Sums(q, key, f) == f[0] = 0 /\ \A i \in 1 .. Len(q) : f[i] = f[i-1] + key[q[i]]

\* Values that start at zero and grow by the keys are the sums.
LEMMA DeltaSumIs ==
  ASSUME NEW S, NEW q \in Seq(S), NEW key \in [S -> Int], NEW f, Sums(q, key, f)
  PROVE  \A i \in 0 .. Len(q) : DeltaSum(q, key)[i] = f[i]
<1> DEFINE d == DeltaSum(q, key)
           Off == {i \in 0 .. Len(q) : d[i] # f[i]}
<1>1. /\ d[0] = 0
      /\ \A i \in 1 .. Len(q) : d[i] = d[i-1] + key[q[i]]
  BY DeltaSumType
<1> HIDE DEF d
<1>2. Len(q) \in Nat
  BY LenProperties
<1>3. Off = {}
  <2>1. SUFFICES ASSUME Off # {}  PROVE FALSE
    OBVIOUS
  <2>a. Off \subseteq Nat
    BY <1>2
  <2>b. \E n \in Off : \A m \in Off : n <= m
    <3> HIDE DEF Off
    <3> QED  BY <2>1, <2>a, LeastNat
  <2>2. PICK n \in Off : \A m \in Off : n <= m
    BY <2>b
  <2>3. n # 0
    BY <1>1, <2>2 DEF Sums
  <2>4. n - 1 \in 0 .. Len(q) /\ n - 1 \notin Off /\ n \in 1 .. Len(q)
    BY <1>2, <2>2, <2>3
  <2>5. d[n-1] = f[n-1]
    BY <2>4
  <2>6. d[n] = f[n]
    BY <1>1, <2>4, <2>5 DEF Sums
  <2> QED  BY <2>2, <2>6
<1> QED  BY <1>3 DEF d

\* The two assignments of keys are the same on the list.
AgreeOn(q, key, k) == \A i \in 1 .. Len(q) : key[q[i]] = k[q[i]]

\* The keys of processes that are not on the list do not matter.
LEMMA DeltaSumSame ==
  ASSUME NEW S, NEW q \in Seq(S), NEW key \in [S -> Int], NEW k \in [S -> Int], AgreeOn(q, key, k)
  PROVE  \A i \in 0 .. Len(q) : DeltaSum(q, k)[i] = DeltaSum(q, key)[i]
<1> DEFINE d == DeltaSum(q, key)
<1>1. /\ d[0] = 0
      /\ \A i \in 1 .. Len(q) : d[i] = d[i-1] + key[q[i]]
  BY DeltaSumType
<1>2. Sums(q, k, d)
  BY <1>1 DEF AgreeOn, Sums
<1> HIDE DEF d
<1>3. \A i \in 0 .. Len(q) : DeltaSum(q, k)[i] = d[i]
  BY <1>2, DeltaSumIs
<1> QED  BY <1>3 DEF d

\* insertd puts the new sum where it belongs and moves the others up, unchanged
\* (insertd.c).
LEMMA InsertdSums ==
  ASSUME NEW S, NEW q \in Seq(S), NEW key \in [S -> Int], NEW e \in S, NEW k \in Int,
         ~OnQueue(q, e), NoDuplicates(q)
  PROVE  LET i == InsertdPlace(q, key, k)
             r == Insertd(q, key, e, k)
             D == DeltaSum(q, key)
             E == DeltaSum(r, InsertdKeys(q, key, e, k))
         IN  /\ i \in 1 .. Len(q) + 1 /\ InsertedAt(S, q, i, e, r)
             /\ \A j \in 1 .. i - 1 : E[j] = D[j] /\ D[j] <= k
             /\ E[i] = k
             /\ \A j \in i + 1 .. Len(q) + 1 : E[j] = D[j-1]
             /\ i <= Len(q) => D[i] > k
<1> DEFINE i == InsertdPlace(q, key, k)
           r == Insertd(q, key, e, k)
           nk == InsertdKeys(q, key, e, k)
           D == DeltaSum(q, key)
           left == k - D[i-1]
           own == [key EXCEPT ![e] = left]
           f == [j \in 0 .. Len(q) + 1 |-> IF j < i THEN D[j] ELSE IF j = i THEN k ELSE D[j-1]]
<1>1. Len(q) \in Nat /\ DOMAIN q = 1 .. Len(q) /\ \A j \in 1 .. Len(q) : q[j] \in S
  BY LenProperties, ElementOfSeq
<1>2. /\ i \in 1 .. Len(q) + 1
      /\ \A j \in 1 .. i - 1 : D[j] <= k
      /\ i <= Len(q) => D[i] > k
  BY InsertdPlaceFacts
<1>3. /\ D[0] = 0
      /\ \A j \in 1 .. Len(q) : D[j] = D[j-1] + key[q[j]]
      /\ \A j \in 0 .. Len(q) : D[j] \in Int
  BY DeltaSumType
<1>4. r = InsertAt(q, i, e)
  BY DEF Insertd
<1>5. nk = IF i <= Len(q) THEN [own EXCEPT ![q[i]] = @ - left] ELSE own
  BY DEF InsertdKeys
<1>6. nk \in [S -> Int]
  BY InsertdFacts
<1> HIDE DEF i, D, r, nk
<1>7. InsertedAt(S, q, i, e, r)
  BY <1>1, <1>2, <1>4, InsertAtFacts
<1>8. /\ r \in Seq(S) /\ Len(r) = Len(q) + 1
      /\ \A j \in 1 .. i - 1 : r[j] = q[j]
      /\ r[i] = e
      /\ \A j \in i + 1 .. Len(q) + 1 : r[j] = q[j-1]
  BY <1>7 DEF InsertedAt
<1>9. left \in Int
  BY <1>1, <1>2, <1>3
<1>10. \A j \in 1 .. Len(q) : q[j] # e
  BY <1>1 DEF OnQueue
<1>11. \A j, m \in 1 .. Len(q) : j # m => q[j] # q[m]
  BY <1>1 DEF NoDuplicates
<1> HIDE DEF left
<1>12. own \in [S -> Int] /\ own[e] = left /\ \A x \in S : x # e => own[x] = key[x]
  BY <1>9
<1> HIDE DEF own
<1>13. \A j \in 1 .. Len(q) : nk[q[j]] = IF j = i THEN key[q[j]] - left ELSE key[q[j]]
  <2> TAKE j \in 1 .. Len(q)
  <2>1. CASE i <= Len(q)
    <3>1. nk = [own EXCEPT ![q[i]] = own[q[i]] - left] /\ q[i] \in S /\ q[j] \in S
      BY <1>1, <1>2, <1>5, <2>1
    <3>2. own[q[i]] = key[q[i]] /\ own[q[j]] = key[q[j]]
      BY <1>10, <1>12, <1>2, <2>1, <3>1, SMTT(20)
    <3>3. j # i => q[j] # q[i]
      BY <1>2, <1>11, <2>1
    <3> QED  BY <1>12, <3>1, <3>2, <3>3
  <2>2. CASE ~(i <= Len(q))
    <3>1. nk = own /\ j # i  BY <1>2, <1>5, <2>2
    <3> QED  BY <1>1, <1>10, <1>12, <3>1
  <2> QED  BY <2>1, <2>2
<1>14. nk[e] = left
  <2>1. CASE i <= Len(q)
    <3>1. q[i] # e /\ q[i] \in S  BY <1>1, <1>2, <1>10, <2>1
    <3> QED  BY <1>5, <1>12, <2>1, <3>1
  <2>2. CASE ~(i <= Len(q))
    BY <1>5, <1>12, <2>2
  <2> QED  BY <2>1, <2>2
<1>15. \A j \in 0 .. Len(q) + 1 : f[j] = IF j < i THEN D[j] ELSE IF j = i THEN k ELSE D[j-1]
  OBVIOUS
<1>15a. 0 \in 0 .. Len(q) + 1 /\ \A j \in 1 .. Len(q) + 1 : j \in 0 .. Len(q) + 1 /\ j - 1 \in 0 .. Len(q) + 1
  BY <1>1
<1> HIDE DEF f
<1>16. f[0] = 0
  BY <1>2, <1>3, <1>15, <1>15a
<1>17. ASSUME NEW j \in 1 .. Len(r)  PROVE f[j] = f[j-1] + nk[r[j]]
  <2>0. j \in 1 .. Len(q) + 1  BY <1>8
  <2>1. CASE j < i
    <3>1. j \in 1 .. Len(q) /\ j \in 1 .. i - 1 /\ j - 1 < i  BY <1>1, <1>2, <2>0, <2>1
    <3>2. f[j] = D[j] /\ f[j-1] = D[j-1]  BY <1>15, <1>15a, <2>0, <2>1, <3>1
    <3>3. nk[r[j]] = key[q[j]]  BY <1>8, <1>13, <2>1, <3>1
    <3> QED  BY <1>3, <3>1, <3>2, <3>3
  <2>2. CASE j = i
    <3>1. j - 1 < i /\ j - 1 \in 0 .. Len(q)  BY <1>1, <1>2, <2>2
    <3>2. f[j] = k /\ f[j-1] = D[i-1]  BY <1>15, <1>15a, <2>0, <2>2, <3>1
    <3>3. nk[r[j]] = left  BY <1>8, <1>14, <2>2
    <3>4. D[i-1] \in Int  BY <1>3, <2>2, <3>1
    <3> QED  BY <3>2, <3>3, <3>4 DEF left
  <2>3. CASE j = i + 1
    <3>1. i \in 1 .. Len(q) /\ j \in i + 1 .. Len(q) + 1 /\ j - 1 = i  BY <1>1, <1>2, <2>0, <2>3
    <3>2. f[j] = D[i] /\ f[j-1] = k  BY <1>2, <1>15, <1>15a, <2>0, <2>3, <3>1
    <3>3. nk[r[j]] = key[q[i]] - left  BY <1>8, <1>13, <3>1
    <3>4. D[i] = D[i-1] + key[q[i]] /\ D[i-1] \in Int /\ key[q[i]] \in Int
      <4>1. i - 1 \in 0 .. Len(q) /\ q[i] \in S  BY <1>1, <3>1
      <4> QED  BY <1>3, <3>1, <4>1
    <3> QED  BY <3>2, <3>3, <3>4 DEF left
  <2>4. CASE j > i + 1
    <3>1. j - 1 \in 1 .. Len(q) /\ j \in i + 1 .. Len(q) + 1 /\ j - 1 # i /\ ~(j - 1 < i) /\ ~(j < i) /\ j # i
      BY <1>1, <1>2, <2>0, <2>4
    <3>2. f[j] = D[j-1] /\ f[j-1] = D[(j-1)-1]  BY <1>15, <1>15a, <2>0, <3>1
    <3>3. nk[r[j]] = key[q[j-1]]  BY <1>8, <1>13, <3>1
    <3> QED  BY <1>3, <3>1, <3>2, <3>3
  <2> QED  BY <1>2, <2>0, <2>1, <2>2, <2>3, <2>4
<1> DEFINE E == DeltaSum(r, nk)
<1> HIDE DEF E
<1>18. \A j \in 0 .. Len(r) : E[j] = f[j]
  <2>1. Sums(r, nk, f)
    BY <1>16, <1>17 DEF Sums
  <2>2. r \in Seq(S)
    BY <1>8
  <2>3. \A j \in 0 .. Len(r) : DeltaSum(r, nk)[j] = f[j]
    BY <1>6, <2>1, <2>2, DeltaSumIs, SMTT(20)
  <2> QED  BY <2>3 DEF E
<1>19. \A j \in 1 .. Len(q) + 1 : E[j] = IF j < i THEN D[j] ELSE IF j = i THEN k ELSE D[j-1]
  BY <1>8, <1>15, <1>15a, <1>18
<1>20. \A j \in 1 .. i - 1 : E[j] = D[j] /\ D[j] <= k
  BY <1>1, <1>2, <1>19
<1>21. E[i] = k
  BY <1>2, <1>19
<1>22. \A j \in i + 1 .. Len(q) + 1 : E[j] = D[j-1]
  BY <1>1, <1>2, <1>19
<1> QED  BY <1>2, <1>7, <1>20, <1>21, <1>22 DEF i, r, D, E, nk

\* unsleep and getitem take one sum out and leave the others (unsleep.c,
\* getitem.c).
LEMMA UnsleepSums ==
  ASSUME NEW S, NEW q \in Seq(S), NEW key \in [S -> Int], NEW e, OnQueue(q, e), NoDuplicates(q)
  PROVE  LET i == PlaceOf(q, e)
             r == GetItem(q, e)
             D == DeltaSum(q, key)
             E == DeltaSum(r, UnsleepKeys(q, key, e))
         IN  /\ i \in 1 .. Len(q) /\ q[i] = e /\ RemovedAt(S, q, i, r)
             /\ UnsleepKeys(q, key, e) \in [S -> Int]
             /\ \A j \in 1 .. Len(q) - 1 : E[j] = IF j < i THEN D[j] ELSE D[j+1]
<1> DEFINE i == PlaceOf(q, e)
           r == GetItem(q, e)
           nk == UnsleepKeys(q, key, e)
           D == DeltaSum(q, key)
           f == [j \in 0 .. Len(q) - 1 |-> IF j < i THEN D[j] ELSE D[j+1]]
<1>1. Len(q) \in Nat /\ DOMAIN q = 1 .. Len(q) /\ \A j \in 1 .. Len(q) : q[j] \in S
  BY LenProperties, ElementOfSeq
<1>2. i \in 1 .. Len(q) /\ q[i] = e
  BY <1>1 DEF OnQueue, PlaceOf
<1>3. /\ D[0] = 0
      /\ \A j \in 1 .. Len(q) : D[j] = D[j-1] + key[q[j]]
      /\ \A j \in 0 .. Len(q) : D[j] \in Int
  BY DeltaSumType
<1>4. r = RemoveAt(q, i)
  BY DEF GetItem
<1>5. nk = IF i < Len(q) THEN [key EXCEPT ![q[i+1]] = @ + key[e]] ELSE key
  BY DEF UnsleepKeys
<1>6. nk \in [S -> Int]
  BY <1>1, <1>2, UnsleepFacts
<1> HIDE DEF i, D, r, nk
<1>7. RemovedAt(S, q, i, r)
  BY <1>2, <1>4, RemoveAtFacts
<1>8. /\ r \in Seq(S) /\ Len(r) = Len(q) - 1
      /\ \A j \in 1 .. Len(q) - 1 : r[j] = IF j < i THEN q[j] ELSE q[j+1]
  BY <1>7 DEF RemovedAt
<1>9. \A j, m \in 1 .. Len(q) : j # m => q[j] # q[m]
  BY <1>1 DEF NoDuplicates
<1>10. \A j \in 1 .. Len(q) : nk[q[j]] = IF j = i + 1 THEN key[q[j]] + key[q[i]] ELSE key[q[j]]
  <2> TAKE j \in 1 .. Len(q)
  <2>1. CASE i < Len(q)
    <3>1. nk = [key EXCEPT ![q[i+1]] = key[q[i+1]] + key[q[i]]] /\ q[i+1] \in S /\ q[j] \in S
      BY <1>1, <1>2, <1>5, <2>1
    <3>2. j # i + 1 => q[j] # q[i+1]
      BY <1>2, <1>9, <2>1
    <3> QED  BY <3>1, <3>2
  <2>2. CASE ~(i < Len(q))
    BY <1>2, <1>5, <2>2
  <2> QED  BY <2>1, <2>2
<1>11. \A j \in 0 .. Len(q) - 1 : f[j] = IF j < i THEN D[j] ELSE D[j+1]
  OBVIOUS
<1> HIDE DEF f
<1>12. f[0] = 0
  BY <1>1, <1>2, <1>3, <1>11
<1>13. ASSUME NEW j \in 1 .. Len(r)  PROVE f[j] = f[j-1] + nk[r[j]]
  <2>0. /\ j \in 1 .. Len(q) - 1 /\ j \in 0 .. Len(q) - 1 /\ j - 1 \in 0 .. Len(q) - 1
        /\ j \in 1 .. Len(q) /\ j + 1 \in 1 .. Len(q) /\ (j - 1) + 1 = j /\ (j + 1) - 1 = j
    BY <1>1, <1>8
  <2>1. CASE j < i
    <3>1. f[j] = D[j] /\ f[j-1] = D[j-1]  BY <1>2, <1>11, <2>0, <2>1, SMTT(20)
    <3>2. nk[r[j]] = key[q[j]]  BY <1>2, <1>8, <1>10, <2>0, <2>1, SMTT(20)
    <3> QED  BY <1>3, <2>0, <3>1, <3>2
  <2>2. CASE j = i
    <3>1. f[j] = D[j+1] /\ f[j-1] = D[j-1]  BY <1>2, <1>11, <2>0, <2>2, SMTT(20)
    <3>2. nk[r[j]] = key[q[j+1]] + key[q[j]]  BY <1>2, <1>8, <1>10, <2>0, <2>2
    <3>3. D[j+1] = D[j] + key[q[j+1]] /\ D[j] = D[j-1] + key[q[j]]  BY <1>3, <2>0
    <3>4. key[q[j+1]] \in Int /\ key[q[j]] \in Int /\ D[j-1] \in Int  BY <1>1, <1>3, <2>0
    <3> QED  BY <3>1, <3>2, <3>3, <3>4
  <2>3. CASE j > i
    <3>1. f[j] = D[j+1] /\ f[j-1] = D[j]  BY <1>2, <1>11, <2>0, <2>3
    <3>2. nk[r[j]] = key[q[j+1]]  BY <1>2, <1>8, <1>10, <2>0, <2>3, SMTT(20)
    <3>3. D[j+1] = D[j] + key[q[j+1]]  BY <1>3, <2>0
    <3> QED  BY <3>1, <3>2, <3>3
  <2> QED  BY <1>2, <2>0, <2>1, <2>2, <2>3
<1> DEFINE E == DeltaSum(r, nk)
<1> HIDE DEF E
<1>14. \A j \in 0 .. Len(r) : E[j] = f[j]
  <2>1. Sums(r, nk, f)
    BY <1>12, <1>13 DEF Sums
  <2>2. r \in Seq(S)
    BY <1>8
  <2>3. \A j \in 0 .. Len(r) : DeltaSum(r, nk)[j] = f[j]
    BY <1>6, <2>1, <2>2, DeltaSumIs
  <2> QED  BY <2>3 DEF E
<1>15. ASSUME NEW j \in 1 .. Len(q) - 1  PROVE E[j] = IF j < i THEN D[j] ELSE D[j+1]
  <2>1. j \in 0 .. Len(q) - 1 /\ 0 .. Len(r) = 0 .. Len(q) - 1
    BY <1>1, <1>8
  <2>2. E[j] = f[j]
    BY <1>14, <2>1
  <2> QED  BY <1>11, <2>1, <2>2
<1> QED  BY <1>2, <1>6, <1>7, <1>15 DEF i, r, D, E, nk

\* The keys after a tick.
Ticked(S, q, key, less) ==
  \A x \in S : less[x] = IF x = q[1] THEN key[x] - 1 ELSE key[x]

\* A tick takes one off the first key and so off every sum (clkhandler.c).
LEMMA TickSums ==
  ASSUME NEW S, NEW q \in Seq(S), NEW key \in [S -> Int], NoDuplicates(q), q # <<>>,
         NEW less \in [S -> Int], Ticked(S, q, key, less)
  PROVE  \A j \in 1 .. Len(q) : DeltaSum(q, less)[j] = DeltaSum(q, key)[j] - 1
<1> DEFINE D == DeltaSum(q, key)
           f == [j \in 0 .. Len(q) |-> IF j = 0 THEN 0 ELSE D[j] - 1]
<1>1. Len(q) \in Nat \ {0} /\ DOMAIN q = 1 .. Len(q) /\ \A j \in 1 .. Len(q) : q[j] \in S
  BY LenProperties, ElementOfSeq, EmptySeq
<1>2. /\ D[0] = 0
      /\ \A j \in 1 .. Len(q) : D[j] = D[j-1] + key[q[j]]
      /\ \A j \in 0 .. Len(q) : D[j] \in Int
  BY DeltaSumType
<1>3. q[1] \in S
  BY <1>1
<1>5. \A j \in 1 .. Len(q) : less[q[j]] = IF j = 1 THEN key[q[j]] - 1 ELSE key[q[j]]
  BY <1>1, <1>3, SMTT(20) DEF NoDuplicates, Ticked
<1>6. \A j \in 0 .. Len(q) : f[j] = IF j = 0 THEN 0 ELSE D[j] - 1
  OBVIOUS
<1> HIDE DEF D, f
<1>7. Sums(q, less, f)
  <2>1. f[0] = 0
    BY <1>1, <1>6
  <2>2. ASSUME NEW j \in 1 .. Len(q)  PROVE f[j] = f[j-1] + less[q[j]]
    <3>1. j \in 0 .. Len(q) /\ j # 0 /\ j - 1 \in 0 .. Len(q) /\ (j - 1 = 0 <=> j = 1)
      BY <1>1
    <3>2. D[j] = D[j-1] + key[q[j]] /\ D[j-1] \in Int /\ key[q[j]] \in Int
      BY <1>1, <1>2, <3>1
    <3>3. f[j] = D[j] - 1 /\ f[j-1] = IF j = 1 THEN 0 ELSE D[j-1] - 1
      BY <1>6, <3>1
    <3>4. less[q[j]] = IF j = 1 THEN key[q[j]] - 1 ELSE key[q[j]]
      BY <1>5
    <3>5. CASE j = 1
      <4>1. D[j-1] = 0  BY <1>2, <3>1, <3>5
      <4> QED  BY <3>2, <3>3, <3>4, <3>5, <4>1
    <3>6. CASE j # 1
      BY <3>2, <3>3, <3>4, <3>6
    <3> QED  BY <3>5, <3>6
  <2> QED  BY <2>1, <2>2 DEF Sums
<1>8. \A j \in 0 .. Len(q) : DeltaSum(q, less)[j] = f[j]
  BY <1>7, DeltaSumIs
<1>9. ASSUME NEW j \in 1 .. Len(q)  PROVE DeltaSum(q, less)[j] = D[j] - 1
  <2>1. j \in 0 .. Len(q) /\ j # 0
    BY <1>1
  <2> QED  BY <1>6, <1>8, <2>1
<1> QED  BY <1>9 DEF D

\* getfirst takes the head off the list, and its sum off every other (wakeup.c).
LEMMA TailSums ==
  ASSUME NEW S, NEW q \in Seq(S), NEW key \in [S -> Int], q # <<>>
  PROVE  /\ Len(Tail(q)) = Len(q) - 1 /\ \A j \in 1 .. Len(q) - 1 : Tail(q)[j] = q[j+1]
         /\ \A j \in 1 .. Len(q) - 1 :
              DeltaSum(Tail(q), key)[j] = DeltaSum(q, key)[j+1] - DeltaSum(q, key)[1]
<1> DEFINE D == DeltaSum(q, key)
           f == [j \in 0 .. Len(q) - 1 |-> D[j+1] - D[1]]
<1>1. Len(q) \in Nat \ {0} /\ \A j \in 1 .. Len(q) : q[j] \in S
  BY LenProperties, ElementOfSeq, EmptySeq
<1>2. /\ Tail(q) \in Seq(S) /\ Len(Tail(q)) = Len(q) - 1
      /\ \A j \in 1 .. Len(q) - 1 : Tail(q)[j] = q[j+1]
  BY HeadTailProperties
<1>3. /\ \A j \in 1 .. Len(q) : D[j] = D[j-1] + key[q[j]]
      /\ \A j \in 0 .. Len(q) : D[j] \in Int
  BY DeltaSumType
<1>4. \A j \in 0 .. Len(q) - 1 : f[j] = D[j+1] - D[1]
  OBVIOUS
<1> HIDE DEF D, f
<1>5. Sums(Tail(q), key, f)
  <2>1. f[0] = 0
    <3>1. 0 \in 0 .. Len(q) - 1 /\ 1 \in 0 .. Len(q) /\ 0 + 1 = 1  BY <1>1
    <3> QED  BY <1>3, <1>4, <3>1
  <2>2. ASSUME NEW j \in 1 .. Len(Tail(q))  PROVE f[j] = f[j-1] + key[Tail(q)[j]]
    <3>1. /\ j \in 0 .. Len(q) - 1 /\ j - 1 \in 0 .. Len(q) - 1 /\ j + 1 \in 1 .. Len(q)
          /\ (j + 1) - 1 = j /\ (j - 1) + 1 = j /\ j \in 0 .. Len(q) /\ 1 \in 0 .. Len(q)
          /\ j \in 1 .. Len(q) - 1
      BY <1>1, <1>2
    <3>2. Tail(q)[j] = q[j+1] /\ q[j+1] \in S
      BY <1>1, <1>2, <3>1
    <3>3. D[j+1] = D[j] + key[q[j+1]] /\ D[j] \in Int /\ D[1] \in Int /\ key[q[j+1]] \in Int
      BY <1>3, <3>1, <3>2
    <3>4. f[j] = D[j+1] - D[1] /\ f[j-1] = D[j] - D[1]
      BY <1>4, <3>1, SMTT(20)
    <3> QED  BY <3>2, <3>3, <3>4
  <2> QED  BY <2>1, <2>2 DEF Sums
<1>6. \A j \in 0 .. Len(Tail(q)) : DeltaSum(Tail(q), key)[j] = f[j]
  <2>1. Tail(q) \in Seq(S)
    BY <1>2
  <2> QED  BY <1>5, <2>1, DeltaSumIs, ZenonT(40)
<1>7. \A j \in 1 .. Len(q) - 1 : DeltaSum(Tail(q), key)[j] = D[j+1] - D[1]
  BY <1>1, <1>2, <1>4, <1>6
<1> QED  BY <1>2, <1>7 DEF D

-----------------------------------------------------------------------------
(* Who has how long to go                                                  *)

\* Process p is on the list with n ticks to go.
ToGo(q, key, p, n) == \E i \in 1 .. Len(q) : q[i] = p /\ DeltaSum(q, key)[i] = n

\* Whoever is in front is due first, and everyone in at least lo ticks and fewer
\* than SIGN, so that no key is mistaken for a negative one.
DueOrder(q, key, lo) ==
  /\ \A i, j \in 1 .. Len(q) : i <= j => DeltaSum(q, key)[i] <= DeltaSum(q, key)[j]
  /\ \A i \in 1 .. Len(q) : lo <= DeltaSum(q, key)[i] /\ DeltaSum(q, key)[i] < SIGN

\* Keys of processes that are not on the list make no difference.
LEMMA AgreeGo ==
  ASSUME NEW S, NEW q \in Seq(S), NEW key \in [S -> Int], NEW k \in [S -> Int],
         AgreeOn(q, key, k), NEW lo
  PROVE  /\ \A p, n : ToGo(q, k, p, n) <=> ToGo(q, key, p, n)
         /\ DueOrder(q, key, lo) => DueOrder(q, k, lo)
<1>1. \A i \in 1 .. Len(q) : DeltaSum(q, k)[i] = DeltaSum(q, key)[i]
  <2>1. \A i \in 0 .. Len(q) : DeltaSum(q, k)[i] = DeltaSum(q, key)[i]
    BY DeltaSumSame, ZenonT(40)
  <2>2. \A i \in 1 .. Len(q) : i \in 0 .. Len(q)
    BY LenProperties
  <2> QED  BY <2>1, <2>2
<1>2. \A p, n : ToGo(q, k, p, n) <=> ToGo(q, key, p, n)
  BY <1>1 DEF ToGo
<1>3. DueOrder(q, key, lo) => DueOrder(q, k, lo)
  BY <1>1, Zenon DEF DueOrder
<1> QED  BY <1>2, <1>3

\* insertd: the newcomer has as long to go as it asked for, the others as long as
\* before, and the order is kept (insertd.c).
LEMMA InsertdGo ==
  ASSUME NEW S, NEW q \in Seq(S), NEW key \in [S -> Int], NEW e \in S, NEW k \in Int,
         ~OnQueue(q, e), NoDuplicates(q)
  PROVE  LET r == Insertd(q, key, e, k)
             nk == InsertdKeys(q, key, e, k)
         IN  /\ \A p, n : ToGo(r, nk, p, n) <=> ToGo(q, key, p, n) \/ (p = e /\ n = k)
             /\ \A lo \in Int : DueOrder(q, key, lo) /\ lo <= k /\ k < SIGN => DueOrder(r, nk, lo)
<1> DEFINE i == InsertdPlace(q, key, k)
           r == Insertd(q, key, e, k)
           nk == InsertdKeys(q, key, e, k)
           D == DeltaSum(q, key)
           E == DeltaSum(r, nk)
<1>0. Len(q) \in Nat /\ SIGN \in Nat /\ \A j \in 1 .. Len(q) : D[j] \in Int
  <2>1. \A j \in 0 .. Len(q) : D[j] \in Int  BY DeltaSumType
  <2>2. Len(q) \in Nat  BY LenProperties
  <2> QED  BY <2>1, <2>2, DelayAssumption
<1>1. /\ i \in 1 .. Len(q) + 1 /\ InsertedAt(S, q, i, e, r)
      /\ \A j \in 1 .. i - 1 : E[j] = D[j] /\ D[j] <= k
      /\ E[i] = k
      /\ \A j \in i + 1 .. Len(q) + 1 : E[j] = D[j-1]
      /\ i <= Len(q) => D[i] > k
  BY InsertdSums
<1> HIDE DEF i, r, nk, D, E
<1>2. /\ Len(r) = Len(q) + 1 /\ \A j \in 1 .. i - 1 : r[j] = q[j]
      /\ r[i] = e /\ \A j \in i + 1 .. Len(q) + 1 : r[j] = q[j-1]
  BY <1>1 DEF InsertedAt
<1>3. ASSUME NEW p, NEW n
      PROVE  (\E j \in 1 .. Len(r) : r[j] = p /\ E[j] = n)
               <=> (\E j \in 1 .. Len(q) : q[j] = p /\ D[j] = n) \/ (p = e /\ n = k)
  <2>1. ASSUME NEW j \in 1 .. Len(r), r[j] = p, E[j] = n
        PROVE  (\E m \in 1 .. Len(q) : q[m] = p /\ D[m] = n) \/ (p = e /\ n = k)
    <3>1. CASE j < i
      <4>1. j \in 1 .. Len(q) /\ j \in 1 .. i - 1  BY <1>0, <1>1, <3>1
      <4> QED  BY <1>1, <1>2, <2>1, <4>1
    <3>2. CASE j = i
      BY <1>1, <1>2, <2>1, <3>2
    <3>3. CASE j > i
      <4>1. j - 1 \in 1 .. Len(q) /\ j \in i + 1 .. Len(q) + 1  BY <1>0, <1>1, <1>2, <3>3
      <4> QED  BY <1>1, <1>2, <2>1, <4>1
    <3> QED  BY <1>1, <3>1, <3>2, <3>3
  <2>2. ASSUME NEW m \in 1 .. Len(q), q[m] = p, D[m] = n
        PROVE  \E j \in 1 .. Len(r) : r[j] = p /\ E[j] = n
    <3>1. CASE m < i
      <4>1. m \in 1 .. Len(r) /\ m \in 1 .. i - 1  BY <1>0, <1>1, <1>2, <3>1
      <4> QED  BY <1>1, <1>2, <2>2, <4>1
    <3>2. CASE m >= i
      <4>1. m + 1 \in 1 .. Len(r) /\ m + 1 \in i + 1 .. Len(q) + 1 /\ (m + 1) - 1 = m
        BY <1>0, <1>1, <1>2, <3>2
      <4> QED  BY <1>1, <1>2, <2>2, <4>1
    <3> QED  BY <1>1, <3>1, <3>2
  <2>3. i \in 1 .. Len(r)
    BY <1>1, <1>2
  <2> QED  BY <1>1, <1>2, <2>1, <2>2, <2>3
<1>4. ASSUME NEW lo \in Int, lo <= k, k < SIGN,
             \A a, b \in 1 .. Len(q) : a <= b => D[a] <= D[b],
             \A a \in 1 .. Len(q) : lo <= D[a] /\ D[a] < SIGN
      PROVE  /\ \A a, b \in 1 .. Len(r) : a <= b => E[a] <= E[b]
             /\ \A a \in 1 .. Len(r) : lo <= E[a] /\ E[a] < SIGN
  <2>1. ASSUME NEW a \in 1 .. Len(r)
        PROVE  /\ a < i => a \in 1 .. Len(q) /\ E[a] = D[a] /\ D[a] <= k
               /\ a = i => E[a] = k
               /\ a > i => a - 1 \in 1 .. Len(q) /\ i <= a - 1 /\ E[a] = D[a-1] /\ D[a-1] > k
    <3>1. a < i => a \in 1 .. Len(q) /\ a \in 1 .. i - 1
      BY <1>0, <1>1, <1>2
    <3>2. a > i => /\ a - 1 \in 1 .. Len(q) /\ i <= a - 1 /\ i \in 1 .. Len(q)
                   /\ a \in i + 1 .. Len(q) + 1
      BY <1>0, <1>1, <1>2
    <3>3. a > i => D[a-1] > k
      <4>1. a > i => D[i] > k /\ D[i] <= D[a-1]
        BY <1>1, <1>4, <3>2
      <4>2. a > i => D[i] \in Int /\ D[a-1] \in Int
        BY <1>0, <3>2
      <4> QED  BY <4>1, <4>2
    <3> QED  BY <1>1, <3>1, <3>2, <3>3
  <2>2. ASSUME NEW a \in 1 .. Len(r), NEW b \in 1 .. Len(r), a <= b  PROVE E[a] <= E[b]
    <3>1. a \in Int /\ b \in Int /\ i \in Int  BY <1>0, <1>1
    <3>2. CASE b < i
      <4>1. a < i  BY <2>2, <3>1, <3>2
      <4> QED  BY <1>4, <2>1, <2>2, <3>2, <4>1
    <3>3. CASE b = i
      <4>1. a < i \/ a = i  BY <2>2, <3>1, <3>3
      <4> QED  BY <2>1, <3>3, <4>1
    <3>4. CASE b > i
      <4>1. b - 1 \in 1 .. Len(q) /\ E[b] = D[b-1] /\ D[b-1] > k /\ D[b-1] \in Int
        BY <1>0, <2>1, <3>4
      <4>2. CASE a < i
        <5>1. E[a] = D[a] /\ D[a] <= k /\ D[a] \in Int  BY <1>0, <2>1, <4>2
        <5> QED  BY <4>1, <5>1
      <4>3. CASE a = i
        BY <2>1, <4>1, <4>3
      <4>4. CASE a > i
        <5>1. a - 1 \in 1 .. Len(q) /\ E[a] = D[a-1] /\ a - 1 <= b - 1
          BY <2>1, <2>2, <3>1, <4>4
        <5> QED  BY <1>4, <4>1, <5>1
      <4> QED  BY <3>1, <4>2, <4>3, <4>4
    <3> QED  BY <3>1, <3>2, <3>3, <3>4
  <2>3. ASSUME NEW a \in 1 .. Len(r)  PROVE lo <= E[a] /\ E[a] < SIGN
    <3>1. a \in Int /\ i \in Int  BY <1>1
    <3>2. a < i \/ a = i \/ a > i  BY <3>1
    <3> QED  BY <1>4, <2>1, <3>2
  <2> QED  BY <2>2, <2>3
<1>5. \A p, n : ToGo(r, nk, p, n) <=> ToGo(q, key, p, n) \/ (p = e /\ n = k)
  BY <1>3 DEF ToGo, E, D
<1>6. \A lo \in Int : DueOrder(q, key, lo) /\ lo <= k /\ k < SIGN => DueOrder(r, nk, lo)
  BY <1>4 DEF DueOrder, E, D
<1> QED  BY <1>5, <1>6 DEF r, nk

\* unsleep and getitem: whoever leaves is gone, the others have as long to go as
\* before (unsleep.c, getitem.c).
LEMMA UnsleepGo ==
  ASSUME NEW S, NEW q \in Seq(S), NEW key \in [S -> Int], NEW e, OnQueue(q, e), NoDuplicates(q)
  PROVE  LET r == GetItem(q, e)
             nk == UnsleepKeys(q, key, e)
         IN  /\ \A p, n : ToGo(r, nk, p, n) <=> ToGo(q, key, p, n) /\ p # e
             /\ \A lo \in Int : DueOrder(q, key, lo) => DueOrder(r, nk, lo)
<1> DEFINE i == PlaceOf(q, e)
           r == GetItem(q, e)
           nk == UnsleepKeys(q, key, e)
           D == DeltaSum(q, key)
           E == DeltaSum(r, nk)
<1>0. Len(q) \in Nat /\ DOMAIN q = 1 .. Len(q)
  BY LenProperties
<1>1. /\ i \in 1 .. Len(q) /\ q[i] = e /\ RemovedAt(S, q, i, r)
      /\ \A j \in 1 .. Len(q) - 1 : E[j] = IF j < i THEN D[j] ELSE D[j+1]
  BY UnsleepSums
<1> HIDE DEF i, r, nk, D, E
<1>2. /\ Len(r) = Len(q) - 1
      /\ \A j \in 1 .. Len(q) - 1 : r[j] = IF j < i THEN q[j] ELSE q[j+1]
  BY <1>1 DEF RemovedAt
<1>3. \A j \in 1 .. Len(q) : q[j] = e <=> j = i
  BY <1>0, <1>1 DEF NoDuplicates
<1> DEFINE from(j) == IF j < i THEN j ELSE j + 1
<1>4. \A j \in 1 .. Len(r) : /\ from(j) \in 1 .. Len(q) /\ from(j) # i
                             /\ r[j] = q[from(j)] /\ E[j] = D[from(j)]
  <2> TAKE j \in 1 .. Len(r)
  <2>1. j \in 1 .. Len(q) - 1  BY <1>2
  <2>2. from(j) \in 1 .. Len(q) /\ from(j) # i  BY <1>0, <1>1, <2>1
  <2> QED  BY <1>1, <1>2, <2>1, <2>2
<1>5. \A m \in 1 .. Len(q) : m # i => \E j \in 1 .. Len(r) : from(j) = m
  <2> TAKE m \in 1 .. Len(q)
  <2>1. CASE m < i
    <3>1. m \in 1 .. Len(r) /\ from(m) = m  BY <1>0, <1>1, <1>2, <2>1
    <3> QED  BY <3>1
  <2>2. CASE m > i
    <3>1. m - 1 \in 1 .. Len(r) /\ from(m - 1) = m  BY <1>0, <1>1, <1>2, <2>2
    <3> QED  BY <3>1
  <2> QED  BY <1>1, <2>1, <2>2
<1>6. \A a, b \in 1 .. Len(r) : a <= b => from(a) <= from(b)
  BY <1>0, <1>1, <1>2
<1> HIDE DEF from
<1>7. ASSUME NEW p, NEW n
      PROVE  (\E j \in 1 .. Len(r) : r[j] = p /\ E[j] = n)
               <=> (\E m \in 1 .. Len(q) : q[m] = p /\ D[m] = n) /\ p # e
  <2>1. ASSUME NEW j \in 1 .. Len(r), r[j] = p, E[j] = n
        PROVE  (\E m \in 1 .. Len(q) : q[m] = p /\ D[m] = n) /\ p # e
    <3>1. from(j) \in 1 .. Len(q) /\ q[from(j)] = p /\ D[from(j)] = n /\ from(j) # i
      BY <1>4, <2>1
    <3> QED  BY <1>3, <3>1
  <2>2. ASSUME NEW m \in 1 .. Len(q), q[m] = p, D[m] = n, p # e
        PROVE  \E j \in 1 .. Len(r) : r[j] = p /\ E[j] = n
    <3>1. PICK j \in 1 .. Len(r) : from(j) = m
      BY <1>3, <1>5, <2>2
    <3> QED  BY <1>4, <2>2, <3>1
  <2> QED  BY <2>1, <2>2
<1>8. ASSUME NEW lo \in Int,
             \A a, b \in 1 .. Len(q) : a <= b => D[a] <= D[b],
             \A a \in 1 .. Len(q) : lo <= D[a] /\ D[a] < SIGN
      PROVE  /\ \A a, b \in 1 .. Len(r) : a <= b => E[a] <= E[b]
             /\ \A a \in 1 .. Len(r) : lo <= E[a] /\ E[a] < SIGN
  BY <1>4, <1>6, <1>8
<1>9. \A p, n : ToGo(r, nk, p, n) <=> ToGo(q, key, p, n) /\ p # e
  BY <1>7 DEF ToGo, E, D
<1>10. \A lo \in Int : DueOrder(q, key, lo) => DueOrder(r, nk, lo)
  BY <1>8 DEF DueOrder, E, D
<1> QED  BY <1>9, <1>10 DEF r, nk

\* By the new keys everyone has one tick less to go.
OneTickCloser(q, key, less) ==
  \A p, n : ToGo(q, less, p, n) <=> \E m \in Int : n = m - 1 /\ ToGo(q, key, p, m)

\* A tick brings everyone one tick closer (clkhandler.c).
LEMMA TickGo ==
  ASSUME NEW S, NEW q \in Seq(S), NEW key \in [S -> Int], NoDuplicates(q), q # <<>>,
         NEW less \in [S -> Int], Ticked(S, q, key, less)
  PROVE  /\ OneTickCloser(q, key, less)
         /\ \A lo \in Int : DueOrder(q, key, lo) => DueOrder(q, less, lo - 1)
<1> DEFINE D == DeltaSum(q, key)
           E == DeltaSum(q, less)
<1>1. Len(q) \in Nat /\ SIGN \in Nat /\ \A j \in 1 .. Len(q) : D[j] \in Int
  <2>1. \A j \in 0 .. Len(q) : D[j] \in Int  BY DeltaSumType
  <2>2. Len(q) \in Nat  BY LenProperties
  <2> QED  BY <2>1, <2>2, DelayAssumption
<1>2. \A j \in 1 .. Len(q) : E[j] = D[j] - 1
  BY TickSums
<1> HIDE DEF D, E
<1>3. ASSUME NEW p, NEW n
      PROVE  (\E j \in 1 .. Len(q) : q[j] = p /\ E[j] = n)
               <=> \E m \in Int : n = m - 1 /\ \E j \in 1 .. Len(q) : q[j] = p /\ D[j] = m
  <2>1. ASSUME NEW j \in 1 .. Len(q), q[j] = p, E[j] = n
        PROVE  \E m \in Int : n = m - 1 /\ \E i \in 1 .. Len(q) : q[i] = p /\ D[i] = m
    <3>1. D[j] \in Int /\ n = D[j] - 1  BY <1>1, <1>2, <2>1
    <3> QED  BY <2>1, <3>1
  <2>2. ASSUME NEW m \in Int, n = m - 1, NEW j \in 1 .. Len(q), q[j] = p, D[j] = m
        PROVE  \E i \in 1 .. Len(q) : q[i] = p /\ E[i] = n
    BY <1>2, <2>2
  <2> QED  BY <2>1, <2>2
<1>4. ASSUME NEW lo \in Int,
             \A a, b \in 1 .. Len(q) : a <= b => D[a] <= D[b],
             \A a \in 1 .. Len(q) : lo <= D[a] /\ D[a] < SIGN
      PROVE  /\ \A a, b \in 1 .. Len(q) : a <= b => E[a] <= E[b]
             /\ \A a \in 1 .. Len(q) : lo - 1 <= E[a] /\ E[a] < SIGN
  <2>1. ASSUME NEW a \in 1 .. Len(q), NEW b \in 1 .. Len(q), a <= b  PROVE E[a] <= E[b]
    <3>1. D[a] \in Int /\ D[b] \in Int /\ E[a] = D[a] - 1 /\ E[b] = D[b] - 1 /\ D[a] <= D[b]
      BY <1>1, <1>2, <1>4, <2>1
    <3> QED  BY <3>1, SMTT(20)
  <2>2. ASSUME NEW a \in 1 .. Len(q)  PROVE lo - 1 <= E[a] /\ E[a] < SIGN
    <3>1. D[a] \in Int /\ E[a] = D[a] - 1 /\ lo <= D[a] /\ D[a] < SIGN
      BY <1>1, <1>2, <1>4
    <3> QED  BY <1>1, <3>1
  <2> QED  BY <2>1, <2>2
<1>5. OneTickCloser(q, key, less)
  BY <1>3 DEF OneTickCloser, ToGo, E, D
<1>6. \A lo \in Int : DueOrder(q, key, lo) => DueOrder(q, less, lo - 1)
  BY <1>4 DEF DueOrder, E, D
<1> QED  BY <1>5, <1>6

\* Taking the head off when it is due now leaves the others as long to go as
\* before (wakeup.c).
LEMMA TailGo ==
  ASSUME NEW S, NEW q \in Seq(S), NEW key \in [S -> Int], NoDuplicates(q), q # <<>>,
         key[q[1]] = 0
  PROVE  /\ \A p, n : ToGo(Tail(q), key, p, n) <=> ToGo(q, key, p, n) /\ p # q[1]
         /\ \A lo \in Int : DueOrder(q, key, lo) => DueOrder(Tail(q), key, lo)
<1> DEFINE r == Tail(q)
           D == DeltaSum(q, key)
           E == DeltaSum(r, key)
<1>1. /\ Len(q) \in Nat \ {0} /\ SIGN \in Nat /\ \A j \in 1 .. Len(q) : D[j] \in Int
      /\ D[1] = 0 /\ DOMAIN q = 1 .. Len(q)
  <2>1. \A j \in 0 .. Len(q) : D[j] \in Int  BY DeltaSumType
  <2>2. Len(q) \in Nat \ {0} /\ DOMAIN q = 1 .. Len(q)  BY LenProperties, EmptySeq
  <2>3. D[0] = 0 /\ \A j \in 1 .. Len(q) : D[j] = D[j-1] + key[q[j]]  BY DeltaSumType
  <2> HIDE DEF D
  <2>4. 1 \in 1 .. Len(q) /\ 1 - 1 = 0  BY <2>2
  <2>5. D[1] = 0  BY <2>3, <2>4
  <2> QED  BY <2>1, <2>2, <2>5, DelayAssumption
<1>2. /\ Len(r) = Len(q) - 1 /\ \A j \in 1 .. Len(q) - 1 : r[j] = q[j+1]
      /\ \A j \in 1 .. Len(q) - 1 : E[j] = D[j+1] - D[1]
  BY TailSums
<1> HIDE DEF r, D, E
<1>3. \A j \in 1 .. Len(r) : j + 1 \in 1 .. Len(q) /\ j + 1 # 1 /\ r[j] = q[j+1] /\ E[j] = D[j+1]
  <2> TAKE j \in 1 .. Len(r)
  <2>1. j \in 1 .. Len(q) - 1 /\ j + 1 \in 1 .. Len(q) /\ j + 1 # 1  BY <1>1, <1>2
  <2>2. D[j+1] \in Int  BY <1>1, <2>1
  <2> QED  BY <1>1, <1>2, <2>1, <2>2
<1>4. \A j \in 1 .. Len(q) : j # 1 => j - 1 \in 1 .. Len(r) /\ (j - 1) + 1 = j
  BY <1>1, <1>2
<1>5. \A j \in 1 .. Len(q) : j # 1 => q[j] # q[1]
  BY <1>1 DEF NoDuplicates
<1>6. ASSUME NEW p, NEW n
      PROVE  (\E j \in 1 .. Len(r) : r[j] = p /\ E[j] = n)
               <=> (\E j \in 1 .. Len(q) : q[j] = p /\ D[j] = n) /\ p # q[1]
  <2>1. ASSUME NEW j \in 1 .. Len(r), r[j] = p, E[j] = n
        PROVE  (\E m \in 1 .. Len(q) : q[m] = p /\ D[m] = n) /\ p # q[1]
    BY <1>3, <1>5, <2>1
  <2>2. ASSUME NEW j \in 1 .. Len(q), q[j] = p, D[j] = n, p # q[1]
        PROVE  \E m \in 1 .. Len(r) : r[m] = p /\ E[m] = n
    <3>1. j # 1  BY <2>2
    <3>2. j - 1 \in 1 .. Len(r) /\ (j - 1) + 1 = j  BY <1>4, <3>1
    <3>3. r[j-1] = q[j] /\ E[j-1] = D[j]  BY <1>3, <3>2
    <3> QED  BY <2>2, <3>2, <3>3
  <2> QED  BY <2>1, <2>2
<1>7. ASSUME NEW lo \in Int,
             \A a, b \in 1 .. Len(q) : a <= b => D[a] <= D[b],
             \A a \in 1 .. Len(q) : lo <= D[a] /\ D[a] < SIGN
      PROVE  /\ \A a, b \in 1 .. Len(r) : a <= b => E[a] <= E[b]
             /\ \A a \in 1 .. Len(r) : lo <= E[a] /\ E[a] < SIGN
  <2>1. Len(r) \in Nat  BY <1>1, <1>2
  <2> QED  BY <1>3, <1>7, <2>1
<1>8. \A p, n : ToGo(r, key, p, n) <=> ToGo(q, key, p, n) /\ p # q[1]
  BY <1>6 DEF ToGo, E, D
<1>9. \A lo \in Int : DueOrder(q, key, lo) => DueOrder(r, key, lo)
  BY <1>7 DEF DueOrder, E, D
<1> QED  BY <1>8, <1>9 DEF r

\* The first has its own key to go (insertd.c).
LEMMA FirstToGo ==
  ASSUME NEW S, NEW q \in Seq(S), NEW key \in [S -> Int], q # <<>>
  PROVE  /\ DeltaSum(q, key)[1] = key[q[1]] /\ 1 \in 1 .. Len(q) /\ Len(q) \in Nat
         /\ q[1] \in S /\ key[q[1]] \in Int
         /\ \A i \in 1 .. Len(q) : DeltaSum(q, key)[i] \in Int
<1> DEFINE D == DeltaSum(q, key)
<1>1. Len(q) \in Nat \ {0}
  BY LenProperties, EmptySeq
<1>2. /\ D[0] = 0
      /\ \A j \in 1 .. Len(q) : D[j] = D[j-1] + key[q[j]]
      /\ \A j \in 0 .. Len(q) : D[j] \in Int
  BY DeltaSumType
<1> HIDE DEF D
<1>3. 1 \in 1 .. Len(q) /\ 1 - 1 = 0 /\ \A i \in 1 .. Len(q) : i \in 0 .. Len(q)
  BY <1>1
<1>4. q[1] \in S /\ key[q[1]] \in Int
  BY <1>3, ElementOfSeq
<1>5. D[1] = key[q[1]]
  BY <1>2, <1>3, <1>4
<1> QED  BY <1>1, <1>2, <1>3, <1>4, <1>5 DEF D

-----------------------------------------------------------------------------
(* What a step of the kernel does to the sleep queue                       *)

Waking == pc[currpid] = "wakeup"

\* Everyone on the list when the step is over has the key it is given here: the
\* keys that ready and resched write belong to processes that are not delayed.
KeysOf(key) == AgreeOn(sleepq', key, qkey')

FirstKey == qkey[sleepq[1]]
Less == [qkey EXCEPT ![sleepq[1]] = Int32(@ - 1)]

\* Nothing changes; wakeup ends only when the first process is not due.
Calm ==
  /\ sleepq' = sleepq /\ KeysOf(qkey) /\ (Waking' => Waking)
  /\ Waking /\ ~Waking' /\ sleepq # <<>> => FirstKey > 0

\* The current process is delayed.
Dozes(delay) ==
  /\ ~Waking /\ ~Waking' /\ ~OnQueue(sleepq, currpid)
  /\ sleepq' = Insertd(sleepq, qkey, currpid, delay)
  /\ KeysOf(InsertdKeys(sleepq, qkey, currpid, delay))

\* A delay is cut short.
Leaves(p) ==
  /\ ~Waking /\ ~Waking' /\ OnQueue(sleepq, p)
  /\ sleepq' = GetItem(sleepq, p)
  /\ KeysOf(UnsleepKeys(sleepq, qkey, p))

\* The clock ticks, and wakeup begins if the first process is due.
Ticks ==
  /\ ~Waking /\ sleepq # <<>> /\ sleepq' = sleepq /\ KeysOf(Less)
  /\ Waking' <=> Due(Less[sleepq[1]])

\* wakeup takes the first process off the list.
Pops ==
  /\ Waking /\ Waking' /\ sleepq # <<>> /\ FirstKey <= 0
  /\ sleepq' = Tail(sleepq) /\ KeysOf(qkey)

\* The delays that insertd is called with.
Asked == {Int32(d) : d \in Delays \ {0}} \cup {w \in Waits : w >= 0}

SleepStep ==
  \/ Calm \/ Ticks \/ Pops
  \/ \E d \in Asked : Dozes(d)
  \/ \E p \in Pids : Leaves(p)

\* What the steps have in common.
LEMMA SleepTypes ==
  ASSUME IInv
  PROVE  /\ sleepq \in Seq(Pids) /\ qkey \in [Pids -> Int] /\ NoDuplicates(sleepq)
         /\ currpid \in Pids /\ prstate \in [Pids -> States] /\ pc \in [Pids -> Points]
         /\ \A p \in Pids : OnQueue(sleepq, p) <=> prstate[p] \in {"PR_SLEEP", "PR_RECTIM"}
         /\ \A i \in 1 .. Len(sleepq) : sleepq[i] \in Pids /\ OnQueue(sleepq, sleepq[i])
         /\ DOMAIN sleepq = 1 .. Len(sleepq)
         /\ prstate[currpid] = "PR_CURR" /\ ~OnQueue(sleepq, currpid)
<1>1. /\ sleepq \in Seq(Pids) /\ qkey \in [Pids -> Int] /\ NoDuplicates(sleepq)
      /\ currpid \in Pids /\ prstate \in [Pids -> States] /\ pc \in [Pids -> Points]
      /\ \A p \in Pids : OnQueue(sleepq, p) <=> prstate[p] \in {"PR_SLEEP", "PR_RECTIM"}
      /\ prstate[currpid] = "PR_CURR"
  BY DEF IInv, TypeOK, QueuesAgree, SleepAgrees, CurrAgrees
<1>2. DOMAIN sleepq = 1 .. Len(sleepq) /\ \A i \in 1 .. Len(sleepq) : sleepq[i] \in Pids
  BY <1>1, LenProperties, ElementOfSeq
<1>3. \A i \in 1 .. Len(sleepq) : OnQueue(sleepq, sleepq[i])
  BY <1>2 DEF OnQueue
<1>4. ~OnQueue(sleepq, currpid)
  BY <1>1
<1> QED  BY <1>1, <1>2, <1>3, <1>4

\* resched writes no key but that of the current process, and only if that may go
\* on (resched.c).
LEMMA ReschedKeys ==
  ASSUME NEW st, NEW rl, NEW key \in [Pids -> Int], Resched(st, rl, key),
         NEW p \in Pids, p # currpid \/ st[p] # "PR_CURR"
  PROVE  qkey'[p] = key[p]
BY DEF Resched, Dispatch

\* ready writes the key of its process too (ready.c).
LEMMA ReadyKeysStay ==
  ASSUME IInv, NEW pid \in Pids, NEW key \in [Pids -> Int], Ready(pid, key), NEW p \in Pids,
         p # pid, p # currpid
  PROVE  qkey'[p] = key[p]
<1>1. CASE isbadpid(pid)
  BY <1>1 DEF Ready
<1>2. CASE ~isbadpid(pid)
  <2> DEFINE k == [key EXCEPT ![pid] = prprio[pid]]
             st == [prstate EXCEPT ![pid] = "PR_READY"]
             rl == Insert(readylist, key, pid, prprio[pid])
  <2>1. k \in [Pids -> Int] /\ k[p] = key[p]
    BY DEF IInv, TypeOK
  <2>2. Resched(st, rl, k)
    BY <1>2 DEF Ready
  <2> HIDE DEF k, st, rl
  <2>3. qkey'[p] = k[p]
    BY <2>1, <2>2, ReschedKeys
  <2> QED  BY <2>1, <2>3
<1> QED  BY <1>1, <1>2

\* The end of a deferral writes no key but that of the current process
\* (resched.c).
LEMMA StopKeys ==
  ASSUME IInv, DeferStop, NEW p \in Pids, p # currpid
  PROVE  qkey'[p] = qkey[p]
BY DEF DeferStop, Dispatch, sched, IInv, TypeOK

\* Nobody is sent to wakeup.
NobodyWakes == \A p \in Pids : pc'[p] = pc[p] \/ pc'[p] # "wakeup"

\* Only the current process can be inside wakeup, so a step that sends nobody
\* there does not make it so.
LEMMA StaysAwake ==
  ASSUME IInv, IInv', NobodyWakes, Waking'
  PROVE  Waking
<1>1. currpid' \in Pids
  BY SleepTypes DEF IInv, TypeOK
<1>2. pc[currpid'] = "wakeup"
  BY <1>1 DEF NobodyWakes, Waking
<1>3. currpid' = currpid
  BY <1>1, <1>2 DEF IInv, DeferralsPaired, Loops
<1> QED  BY <1>2, <1>3 DEF Waking

\* A step that leaves the list alone and the keys of those on it.
LEMMA CalmIs ==
  ASSUME IInv, IInv', NobodyWakes, ~Waking, sleepq' = sleepq,
         \A p \in Pids : OnQueue(sleepq, p) => qkey'[p] = qkey[p]
  PROVE  Calm
<1>1. KeysOf(qkey)
  BY SleepTypes DEF KeysOf, AgreeOn
<1> QED  BY <1>1, StaysAwake DEF Calm

\* Whoever is made ready was not delayed (resume.c, signal.c, send.c).
LEMMA ReadyCalm ==
  ASSUME IInv, NEW pid \in Pids, Ready(pid, qkey), ~OnQueue(sleepq, pid),
         NEW p \in Pids, OnQueue(sleepq, p)
  PROVE  qkey'[p] = qkey[p]
<1>1. p # pid /\ p # currpid /\ qkey \in [Pids -> Int]
  BY SleepTypes
<1> QED  BY <1>1, ReadyKeysStay

\* The release of the first process of a semaphore (signal.c, signaln.c,
\* semdelete.c, semreset.c).
LEMMA ReadyFirstCalm ==
  ASSUME IInv, NEW s \in Sems, ReadyFirst(s), NEW p \in Pids, OnQueue(sleepq, p)
  PROVE  qkey'[p] = qkey[p]
<1>1. CASE squeue[s] = <<>>
  <2>1. Ready(EMPTY, qkey) /\ isbadpid(EMPTY)
    BY <1>1, TableAssumption DEF ReadyFirst, isbadpid, EMPTY, Pids
  <2> QED  BY <2>1 DEF Ready
<1>2. CASE squeue[s] # <<>>
  <2>1. Ready(squeue[s][1], qkey)
    BY <1>2 DEF ReadyFirst
  <2>2. squeue[s] \in Seq(Pids)
    BY DEF IInv, TypeOK
  <2>3. squeue[s][1] \in Pids /\ OnQueue(squeue[s], squeue[s][1])
    BY <1>2, <2>2, TailFacts
  <2>4. prstate[squeue[s][1]] = "PR_WAIT"
    BY <2>3 DEF IInv, QueuesAgree, WaitAgrees
  <2>5. ~OnQueue(sleepq, squeue[s][1])
    BY <2>3, <2>4, SleepTypes
  <2> QED  BY <2>1, <2>3, <2>5, ReadyCalm
<1> QED  BY <1>1, <1>2

\* Signalling a semaphore leaves the keys of sleeping processes alone (signal.c).
LEMMA ReleaseCalm ==
  ASSUME IInv, NEW s \in Sems, Release(s), NEW p \in Pids, OnQueue(sleepq, p)
  PROVE  qkey'[p] = qkey[p]
BY ReadyFirstCalm DEF Release, sched

\* resched when the current process has been given any other state than one of the
\* delayed (suspend.c, wait.c, receive.c, yield.c, kill.c).
LEMMA ReschedCalm ==
  ASSUME IInv, NEW st, NEW rl, Resched(st, rl, qkey), NEW p \in Pids, OnQueue(sleepq, p)
  PROVE  qkey'[p] = qkey[p]
<1>1. p # currpid /\ qkey \in [Pids -> Int]
  BY SleepTypes
<1> QED  BY <1>1, ReschedKeys

\* send takes its recipient off the sleep queue if that is where it is (send.c).
LEMMA DeliverSleeps ==
  ASSUME IInv, IInv', NobodyWakes, ~Waking, NEW pid \in Pids, NEW msg, Deliver(pid, msg)
  PROVE  Calm \/ Leaves(pid)
<1>1. CASE UNCHANGED <<sched, sleepq>>
  BY <1>1, CalmIs DEF sched
<1>2. CASE prstate[pid] = "PR_RECV" /\ Ready(pid, qkey) /\ UNCHANGED sleepq
  <2>1. ~OnQueue(sleepq, pid)
    BY <1>2, SleepTypes
  <2> QED  BY <1>2, <2>1, ReadyCalm, CalmIs
<1>3. CASE /\ prstate[pid] = "PR_RECTIM" /\ sleepq' = GetItem(sleepq, pid)
           /\ Ready(pid, UnsleepKeys(sleepq, qkey, pid))
  <2> DEFINE key == UnsleepKeys(sleepq, qkey, pid)
  <2>1. OnQueue(sleepq, pid)
    BY <1>3, SleepTypes
  <2>2. Shrinks(Pids, sleepq, pid, sleepq') /\ key \in [Pids -> Int]
    BY <1>3, <2>1, SleepTypes, GetItemFacts, UnsleepFacts
  <2>3. Ready(pid, key)
    BY <1>3
  <2> HIDE DEF key
  <2>4. ASSUME NEW i \in 1 .. Len(sleepq')  PROVE qkey'[sleepq'[i]] = key[sleepq'[i]]
    <3>1. sleepq' \in Seq(Pids) /\ sleepq'[i] \in Pids /\ OnQueue(sleepq', sleepq'[i])
      BY <2>2, LenProperties, ElementOfSeq DEF Shrinks, OnQueue
    <3>2. OnQueue(sleepq, sleepq'[i]) /\ sleepq'[i] # pid
      BY <2>2, <3>1 DEF Shrinks
    <3>3. sleepq'[i] # currpid
      BY <3>2, SleepTypes
    <3> QED  BY <2>2, <2>3, <3>1, <3>2, <3>3, ReadyKeysStay
  <2>5. KeysOf(key)
    BY <2>4 DEF KeysOf, AgreeOn
  <2> QED  BY <1>3, <2>1, <2>5, StaysAwake DEF Leaves, key
<1> QED  BY <1>1, <1>2, <1>3 DEF Deliver, sched

\* A process that goes to sleep is put on the list with what it asked for
\* (sleep.c, recvtime.c).
LEMMA DozeSleeps ==
  ASSUME IInv, IInv', NobodyWakes, ~Waking, NEW delay \in Int,
         NEW s \in {"PR_SLEEP", "PR_RECTIM"}, Doze(s, delay)
  PROVE  Dozes(delay)
<1> DEFINE key == InsertdKeys(sleepq, qkey, currpid, delay)
           st == [prstate EXCEPT ![currpid] = s]
<1>1. ~OnQueue(sleepq, currpid) /\ currpid \in Pids /\ st[currpid] # "PR_CURR"
  BY SleepTypes
<1>2. key \in [Pids -> Int]
  BY SleepTypes, InsertdFacts
<1>3. Grows(Pids, sleepq, currpid, sleepq')
  BY SleepTypes, InsertdFacts DEF Doze
<1>4. Resched(st, readylist, key)
  BY DEF Doze
<1> HIDE DEF key, st
<1>5. ASSUME NEW i \in 1 .. Len(sleepq')  PROVE qkey'[sleepq'[i]] = key[sleepq'[i]]
  <2>1. sleepq'[i] \in Pids
    BY <1>3, LenProperties, ElementOfSeq DEF Grows
  <2> QED  BY <1>1, <1>2, <1>4, <2>1, ReschedKeys
<1>6. KeysOf(key)
  BY <1>5 DEF KeysOf, AgreeOn
<1> QED  BY <1>1, <1>6, StaysAwake DEF Dozes, Doze, key

\* A step that sends the current process somewhere other than to wakeup.
LEMMA GoesOn ==
  ASSUME IInv, pc' = pc \/ \E c, a : GoTo(c, a) /\ c # "wakeup"
  PROVE  NobodyWakes
<1>1. CASE pc' = pc
  BY <1>1 DEF NobodyWakes
<1>2. ASSUME NEW c, NEW a, GoTo(c, a), c # "wakeup"  PROVE NobodyWakes
  BY <1>2, SleepTypes DEF GoTo, NobodyWakes
<1> QED  BY <1>1, <1>2

-----------------------------------------------------------------------------
(* The operations                                                          *)

\* create, resume, suspend, yield, chprio and kill up to its message: kill may end
\* the delay of the parent it sends the message to.
LEMMA ProcessCallSleeps ==
  ASSUME IInv, IInv', ProcessCall
  PROVE  SleepStep
<1>1. pc' = pc => NobodyWakes
  BY GoesOn
<1>2. ASSUME NEW prio \in Prios, Create(prio)  PROVE Calm
  <2>1. sleepq' = sleepq /\ qkey' = qkey /\ pc' = pc /\ ~Waking
    BY <1>2 DEF Create, where, Program, Waking
  <2> QED  BY <1>1, <2>1, CalmIs
<1>3. ASSUME NEW pid \in Pids, Resume(pid)  PROVE Calm
  <2>1. sleepq' = sleepq /\ Ready(pid, qkey) /\ pc' = pc /\ ~Waking
    BY <1>3 DEF Resume, where, Program, Waking
  <2>2. ~OnQueue(sleepq, pid)
    BY <1>3, SleepTypes DEF Resume
  <2> QED  BY <1>1, <2>1, <2>2, ReadyCalm, CalmIs
<1>4. ASSUME NEW pid \in Pids, Suspend(pid)  PROVE Calm
  <2>1. sleepq' = sleepq /\ pc' = pc /\ ~Waking
    BY <1>4 DEF Suspend, where, Program, Waking
  <2>2. qkey' = qkey \/ Resched([prstate EXCEPT ![pid] = "PR_SUSP"], readylist, qkey)
    BY <1>4 DEF Suspend
  <2> QED  BY <1>1, <2>1, <2>2, ReschedCalm, CalmIs
<1>5. ASSUME NEW pid \in Pids, Kill(pid)  PROVE SleepStep
  <2>1. ~Waking
    BY <1>5 DEF Kill, Program, Waking
  <2>2. CASE UNCHANGED <<sched, msgs, sleepq, where>>
    BY <1>1, <2>1, <2>2, CalmIs DEF sched, where, SleepStep
  <2>3. CASE Deliver(prparent[pid], pid) /\ GoTo("kill", [id |-> pid, n |-> 0])
    <3>1. NobodyWakes
      BY <2>3, GoesOn
    <3>2. prparent[pid] \in Pids
      BY DEF IInv, TypeOK
    <3> QED  BY <2>1, <2>3, <3>1, <3>2, DeliverSleeps DEF SleepStep
  <2> QED  BY <1>5, <2>2, <2>3 DEF Kill
<1>6. ASSUME NEW pid \in Pids, NEW prio \in NewPrios, Chprio(pid, prio)  PROVE Calm
  <2>1. sleepq' = sleepq /\ qkey' = qkey /\ pc' = pc /\ ~Waking
    BY <1>6 DEF Chprio, sched, where, Program, Waking
  <2> QED  BY <1>1, <2>1, CalmIs
<1>7. ASSUME Yield  PROVE Calm
  <2>1. sleepq' = sleepq /\ Resched(prstate, readylist, qkey) /\ pc' = pc /\ ~Waking
    BY <1>7 DEF Yield, where, Program, Waking
  <2> QED  BY <1>1, <2>1, ReschedCalm, CalmIs
<1> QED  BY <1>2, <1>3, <1>4, <1>5, <1>6, <1>7 DEF ProcessCall, SleepStep

\* The rest of kill: a delayed victim leaves the list (kill.c, unsleep.c).
LEMMA KillFinishSleeps ==
  ASSUME IInv, IInv', KillFinish
  PROVE  SleepStep
<1> DEFINE v    == arg[currpid].id
           gone == [prstate EXCEPT ![v] = "PR_FREE"]
<1>1. v \in Pids /\ ~Waking
  BY SleepTypes DEF KillFinish, Inside, IInv, CallArgs, Waking
<1>2. /\ pc' = [p \in Pids |-> IF p \in {currpid, v} THEN "user" ELSE pc[p]]
      /\ \/ /\ prstate[v] \in {"PR_SLEEP", "PR_RECTIM"}
            /\ sleepq' = GetItem(sleepq, v) /\ qkey' = UnsleepKeys(sleepq, qkey, v)
         \/ sleepq' = sleepq /\ (qkey' = qkey \/ Resched(gone, readylist, qkey))
  BY DEF KillFinish
<1> HIDE DEF v, gone
<1>3. NobodyWakes
  BY <1>2 DEF NobodyWakes
<1>4. CASE /\ prstate[v] \in {"PR_SLEEP", "PR_RECTIM"}
           /\ sleepq' = GetItem(sleepq, v) /\ qkey' = UnsleepKeys(sleepq, qkey, v)
  <2>1. OnQueue(sleepq, v)
    BY <1>1, <1>4, SleepTypes
  <2>2. Leaves(v)
    BY <1>1, <1>3, <1>4, <2>1, StaysAwake DEF Leaves, KeysOf, AgreeOn
  <2> QED  BY <1>1, <2>2 DEF SleepStep
<1>5. CASE sleepq' = sleepq /\ (qkey' = qkey \/ Resched(gone, readylist, qkey))
  <2>1. Calm
    BY <1>1, <1>3, <1>5, ReschedCalm, CalmIs
  <2> QED  BY <2>1 DEF SleepStep
<1> QED  BY <1>2, <1>4, <1>5

\* No semaphore call touches the sleep queue (semcreate.c, wait.c, signal.c,
\* signaln.c, semdelete.c, semreset.c).
LEMMA SemaphoreCallSleeps ==
  ASSUME IInv, IInv', SemaphoreCall
  PROVE  SleepStep
<1>1. /\ sleepq' = sleepq /\ ~Waking
      /\ pc' = pc \/ \E c, a : GoTo(c, a) /\ c # "wakeup"
  <2>1. ASSUME NEW c, NEW s, NEW n, StartLoop(c, s, n), c \in Loops \ {"wakeup"}
        PROVE  \E d, a : GoTo(d, a) /\ d # "wakeup"
    BY <2>1 DEF StartLoop
  <2>2. \A c, s, n : StartLoop(c, s, n) /\ c \in {"signaln", "semdelete", "semreset"} =>
          \E d, a : GoTo(d, a) /\ d # "wakeup"
    BY <2>1 DEF Loops
  <2>3. ASSUME NEW s \in Sems, Wait(s) \/ Signal(s)  PROVE sleepq' = sleepq /\ pc' = pc /\ ~Waking
    BY <2>3 DEF Wait, Signal, Program, where, Waking
  <2>4. ASSUME NEW c \in Counts, Semcreate(c)  PROVE sleepq' = sleepq /\ pc' = pc /\ ~Waking
    BY <2>4 DEF Semcreate, Program, where, Waking
  <2>5. ASSUME NEW s \in Sems, NEW c \in Counts, Signaln(s, c) \/ Semreset(s, c)
        PROVE  sleepq' = sleepq /\ ~Waking /\ \E d, a : GoTo(d, a) /\ d # "wakeup"
    BY <2>2, <2>5 DEF Signaln, Semreset, Program, Waking
  <2>6. ASSUME NEW s \in Sems, Semdelete(s)
        PROVE  sleepq' = sleepq /\ ~Waking /\ \E d, a : GoTo(d, a) /\ d # "wakeup"
    BY <2>2, <2>6 DEF Semdelete, Program, Waking
  <2> QED  BY <2>3, <2>4, <2>5, <2>6 DEF SemaphoreCall
<1>2. NobodyWakes
  BY <1>1, GoesOn
<1>3. ASSUME NEW p \in Pids, OnQueue(sleepq, p)  PROVE qkey'[p] = qkey[p]
  <2>1. \/ qkey' = qkey
        \/ \E s \in Sems : Release(s)
        \/ Resched([prstate EXCEPT ![currpid] = "PR_WAIT"], readylist, qkey)
    BY DEF SemaphoreCall, Semcreate, Wait, Signal, Semdelete, Signaln, Semreset, StartLoop, sched
  <2> QED  BY <1>3, <2>1, ReleaseCalm, ReschedCalm
<1> QED  BY <1>1, <1>2, <1>3, CalmIs DEF SleepStep

\* send, receive, recvtime and sleepms.
LEMMA MessageCallSleeps ==
  ASSUME IInv, IInv', MessageCall
  PROVE  SleepStep
<1>1. pc' = pc => NobodyWakes
  BY GoesOn
<1>2. ASSUME NEW pid \in Pids, NEW m \in Messages, Send(pid, m)  PROVE SleepStep
  <2>1. Deliver(pid, m) /\ pc' = pc /\ ~Waking
    BY <1>2 DEF Send, where, Program, Waking
  <2> QED  BY <1>1, <2>1, DeliverSleeps DEF SleepStep
<1>3. ASSUME Receive  PROVE Calm
  <2>1. sleepq' = sleepq /\ qkey' = qkey /\ pc' = pc /\ ~Waking
    BY <1>3 DEF Receive, sched, where, Program, Waking
  <2> QED  BY <1>1, <2>1, CalmIs
<1>4. ASSUME ReceiveBlock  PROVE Calm
  <2>1. /\ sleepq' = sleepq /\ GoTo("receive", NoArg) /\ ~Waking
        /\ Resched([prstate EXCEPT ![currpid] = "PR_RECV"], readylist, qkey)
    BY <1>4 DEF ReceiveBlock, Program, Waking
  <2>2. NobodyWakes
    BY <2>1, GoesOn
  <2> QED  BY <2>1, <2>2, ReschedCalm, CalmIs
<1>5. ASSUME NEW w \in Waits, RecvtimeBlock(w)  PROVE SleepStep
  <2>1. Doze("PR_RECTIM", w) /\ w \in Int /\ w \in Asked /\ GoTo("recvtime", NoArg) /\ ~Waking
    BY <1>5, DelayAssumption DEF RecvtimeBlock, Program, Waking, Asked
  <2>2. NobodyWakes
    BY <2>1, GoesOn
  <2>3. Dozes(w)
    BY <2>1, <2>2, DozeSleeps
  <2> QED  BY <2>1, <2>3 DEF SleepStep
<1>6. ASSUME NEW d \in Delays, Sleepms(d)  PROVE SleepStep
  <2>1. pc' = pc /\ ~Waking
    BY <1>6 DEF Sleepms, where, Program, Waking
  <2>2. CASE Resched(prstate, readylist, qkey) /\ UNCHANGED sleepq
    <3>1. Calm
      BY <1>1, <2>1, <2>2, ReschedCalm, CalmIs
    <3> QED  BY <3>1 DEF SleepStep
  <2>3. CASE d # 0 /\ Doze("PR_SLEEP", Int32(d))
    <3>1. Int32(d) \in Int /\ Int32(d) \in Asked
      BY <2>3, DelayAssumption, Int32Type DEF Asked
    <3>2. Dozes(Int32(d))
      BY <1>1, <2>1, <2>3, <3>1, DozeSleeps
    <3> QED  BY <3>1, <3>2 DEF SleepStep
  <2> QED  BY <1>6, <2>2, <2>3 DEF Sleepms
<1> QED  BY <1>2, <1>3, <1>4, <1>5, <1>6 DEF MessageCall, SleepStep

\* The loops of the semaphore calls and the end of receive and recvtime leave the
\* sleep queue alone (signaln.c, semdelete.c, semreset.c, receive.c, recvtime.c).
LEMMA LoopSleeps ==
  ASSUME IInv, IInv', SignalnLoop \/ SemdeleteLoop \/ SemresetLoop \/ TakeMessage
  PROVE  SleepStep
<1>1. /\ sleepq' = sleepq /\ ~Waking
      /\ pc' = pc \/ \E c, a : GoTo(c, a) /\ c # "wakeup"
  <2>1. Return => \E c, a : GoTo(c, a) /\ c # "wakeup"
    BY DEF Return
  <2>2. CASE SignalnLoop
    BY <2>1, <2>2 DEF SignalnLoop, Inside, EndLoop, Waking
  <2>3. CASE SemdeleteLoop \/ SemresetLoop \/ TakeMessage
    BY <2>1, <2>3 DEF SemdeleteLoop, SemresetLoop, TakeMessage, Inside, EndLoop, where, Waking
  <2> QED  BY <2>2, <2>3
<1>2. NobodyWakes
  BY <1>1, GoesOn
<1>3. ASSUME NEW p \in Pids, OnQueue(sleepq, p)  PROVE qkey'[p] = qkey[p]
  <2>1. CASE TakeMessage
    BY <2>1 DEF TakeMessage, sched
  <2>2. CASE SignalnLoop \/ SemdeleteLoop \/ SemresetLoop
    <3>1. arg[currpid].id \in Sems
      BY <2>2, InSemLoop DEF SignalnLoop, SemdeleteLoop, SemresetLoop
    <3>2. \/ DeferStop \/ Release(arg[currpid].id) \/ ReadyFirst(arg[currpid].id)
      BY <2>2 DEF SignalnLoop, SemdeleteLoop, SemresetLoop, EndLoop
    <3>3. p # currpid
      BY <1>3, SleepTypes
    <3> QED  BY <1>3, <3>1, <3>2, <3>3, ReleaseCalm, ReadyFirstCalm, StopKeys
  <2> QED  BY <2>1, <2>2
<1> QED  BY <1>1, <1>2, <1>3, CalmIs DEF SleepStep

\* The clock interrupt up to wakeup's loop, and its end on arm-bbb (clkhandler.c).
LEMMA ClockSleeps ==
  ASSUME IInv, IInv', ClockTick \/ Preempt
  PROVE  SleepStep
<1>1. CASE Preempt
  <2>1. sleepq' = sleepq /\ ~Waking /\ Return
    BY <1>1 DEF Preempt, Inside, Waking
  <2>2. NobodyWakes
    BY <2>1, GoesOn DEF Return
  <2>3. \A p \in Pids : OnQueue(sleepq, p) => qkey'[p] = qkey[p]
    BY <1>1, SleepTypes DEF Preempt, Dispatch
  <2> QED  BY <2>1, <2>2, <2>3, CalmIs DEF SleepStep
<1>2. CASE ClockTick
  <2> DEFINE less == IF sleepq = <<>> THEN qkey ELSE Less
             due  == sleepq # <<>> /\ Due(less[sleepq[1]])
  <2>1. /\ sleepq' = sleepq /\ ~Waking
        /\ \/ due /\ Wakeup(less)
           \/ ~due /\ (Resched(prstate, readylist, less) \/ qkey' = less)
              /\ (pc' = pc \/ GoTo("preempt", NoArg))
    BY <1>2 DEF ClockTick, Inside, Waking, where, Less
  <2>2. less \in [Pids -> Int]
    <3>1. CASE sleepq = <<>>
      BY <3>1, SleepTypes
    <3>2. CASE sleepq # <<>>
      <4>1. sleepq[1] \in Pids
        BY <3>2, SleepTypes, TailFacts
      <4>2. Int32(qkey[sleepq[1]] - 1) \in Int
        BY <4>1, SleepTypes, Int32Type
      <4> QED  BY <3>2, <4>2, SleepTypes DEF Less
    <3> QED  BY <3>1, <3>2
  <2>3. sleepq # <<>> => less = Less
    OBVIOUS
  <2>4. sleepq = <<>> => less = qkey
    OBVIOUS
  <2>5. due <=> sleepq # <<>> /\ Due(Less[sleepq[1]])
    BY <2>3
  <2> HIDE DEF less, due
  <2>6. \A p \in Pids : OnQueue(sleepq, p) => qkey'[p] = less[p]
    <3> SUFFICES ASSUME NEW p \in Pids, OnQueue(sleepq, p)  PROVE qkey'[p] = less[p]
      OBVIOUS
    <3>1. p # currpid
      BY SleepTypes
    <3> QED  BY <2>1, <2>2, <3>1, ReschedKeys DEF Wakeup
  <2>7. KeysOf(less)
    BY <2>1, <2>6, SleepTypes DEF KeysOf, AgreeOn
  <2>8. due <=> Waking'
    <3>1. CASE due
      <4>1. GoTo("wakeup", NoArg) /\ currpid' = currpid
        BY <2>1, <3>1 DEF Wakeup
      <4> QED  BY <3>1, <4>1, SleepTypes DEF GoTo, Waking
    <3>2. CASE ~due
      <4>1. NobodyWakes
        BY <2>1, <3>2, GoesOn
      <4> QED  BY <2>1, <3>2, <4>1, StaysAwake
    <3> QED  BY <3>1, <3>2
  <2>9. CASE sleepq = <<>>
    BY <2>1, <2>4, <2>5, <2>7, <2>8, <2>9 DEF Calm, SleepStep
  <2>10. CASE sleepq # <<>>
    BY <2>1, <2>3, <2>5, <2>7, <2>8, <2>10 DEF Ticks, SleepStep
  <2> QED  BY <2>9, <2>10
<1> QED  BY <1>1, <1>2

\* An iteration of wakeup's loop or its end (wakeup.c).
LEMMA WakeupSleeps ==
  ASSUME IInv, IInv', WakeupLoop
  PROVE  SleepStep
<1>1. Waking
  BY DEF WakeupLoop, Inside, Waking
<1>2. CASE sleepq # <<>> /\ Overdue(FirstKey)
  <2> DEFINE v == sleepq[1]
  <2>1. Ready(v, qkey) /\ sleepq' = Tail(sleepq) /\ pc' = pc /\ FirstKey <= 0
    BY <1>2 DEF WakeupLoop, FirstKey, Overdue, where
  <2>2. v \in Pids /\ OnQueue(sleepq, v) /\ Shrinks(Pids, sleepq, v, sleepq')
    BY <1>2, <2>1, SleepTypes, TailFacts
  <2> HIDE DEF v
  <2>3. ASSUME NEW i \in 1 .. Len(sleepq')  PROVE qkey'[sleepq'[i]] = qkey[sleepq'[i]]
    <3>1. sleepq'[i] \in Pids /\ OnQueue(sleepq', sleepq'[i])
      BY <2>2, LenProperties, ElementOfSeq DEF Shrinks, OnQueue
    <3>2. OnQueue(sleepq, sleepq'[i]) /\ sleepq'[i] # v
      BY <2>2, <3>1 DEF Shrinks
    <3>3. sleepq'[i] # currpid /\ qkey \in [Pids -> Int]
      BY <3>2, SleepTypes
    <3> QED  BY <2>1, <2>2, <3>1, <3>2, <3>3, ReadyKeysStay
  <2>4. KeysOf(qkey)
    BY <2>3 DEF KeysOf, AgreeOn
  <2>5. Waking'
    <3>1. pc'[currpid] = "wakeup" /\ currpid \in Pids
      BY <1>1, <2>1, SleepTypes DEF Waking
    <3>2. currpid' = currpid
      BY <3>1 DEF IInv, DeferralsPaired, Loops
    <3> QED  BY <3>1, <3>2 DEF Waking
  <2> QED  BY <1>1, <1>2, <2>1, <2>4, <2>5 DEF Pops, SleepStep
<1>3. CASE ~(sleepq # <<>> /\ Overdue(FirstKey))
  <2>1. /\ DeferStop /\ sleepq' = sleepq
        /\ GoTo(IF Platform = "arm-bbb" THEN "preempt" ELSE "user", NoArg)
    BY <1>3 DEF WakeupLoop, FirstKey
  <2>2. KeysOf(qkey)
    <3>1. \A p \in Pids : p # currpid => qkey'[p] = qkey[p]
      BY <2>1, StopKeys
    <3> QED  BY <2>1, <3>1, SleepTypes DEF KeysOf, AgreeOn
  <2>3. sleepq # <<>> => FirstKey > 0
    <3>1. sleepq # <<>> => FirstKey \in Int
      <4>1. sleepq # <<>> => sleepq[1] \in Pids
        BY SleepTypes, TailFacts
      <4> QED  BY <4>1, SleepTypes DEF FirstKey
    <3> QED  BY <1>3, <3>1 DEF Overdue
  <2> QED  BY <1>1, <2>1, <2>2, <2>3 DEF Calm, SleepStep
<1> QED  BY <1>2, <1>3

\* Every step of the kernel does one of these things to the sleep queue.
LEMMA NextSleeps ==
  ASSUME IInv, Next
  PROVE  SleepStep
<1>1. IInv'
  BY NextIInv
<1> QED  BY <1>1, ProcessCallSleeps, SemaphoreCallSleeps, MessageCallSleeps, KillFinishSleeps,
            LoopSleeps, ClockSleeps, WakeupSleeps DEF Next, InKernel

-----------------------------------------------------------------------------
(* Nobody is overdue                                                       *)

\* The delays are not zero where zero means to wait, and short enough for a signed
\* key; recvtime refuses a negative one.  The runs ZeroWaitQemu, ZeroWaitBbb and
\* LongSleep show what becomes of the others (recvtime.c, sleep.c).
FitDelays ==
  /\ \A d \in Delays : d < SIGN
  /\ \A w \in Waits : w # 0 /\ w < SIGN

\* The inductive invariant: the sleep queue is in order, and except while wakeup is
\* at work nobody on it is due.
DueInv == DueOrder(sleepq, qkey, IF Waking THEN 0 ELSE 1)

\* A value that fits is stored as it is (insertd.c).
LEMMA Int32Same ==
  ASSUME NEW x \in Nat, x < SIGN
  PROVE  Int32(x) = x
<1> DEFINE m == 2 * SIGN
<1>1. SIGN \in Nat \ {0}
  BY DelayAssumption
<1>2. m \in Nat \ {0} /\ x < m
  BY <1>1
<1> HIDE DEF m
<1>3. x % m = x
  BY <1>2
<1> QED  BY <1>3 DEF Int32, m

\* A delay or wait that is asked for is a positive key below the sign bit.
LEMMA AskedFits ==
  ASSUME FitDelays, NEW d \in Asked
  PROVE  /\ d \in Int /\ 1 <= d /\ d < SIGN
         /\ d \in {n \in Delays \cup Waits : n > 0}
<1>1. CASE d \in Waits /\ d >= 0
  BY <1>1, DelayAssumption DEF FitDelays
<1>2. ASSUME NEW n \in Delays \ {0}, d = Int32(n)
      PROVE  d \in Int /\ 1 <= d /\ d < SIGN /\ d \in {x \in Delays \cup Waits : x > 0}
  <2>1. n \in Nat /\ n < SIGN
    BY DelayAssumption DEF FitDelays
  <2>2. d = n
    BY <1>2, <2>1, Int32Same
  <2> QED  BY <2>1, <2>2
<1> QED  BY <1>1, <1>2 DEF Asked

\* When the first is not due, nobody is.
LEMMA FirstDecides ==
  ASSUME NEW S, NEW q \in Seq(S), NEW key \in [S -> Int], DueOrder(q, key, 0),
         q # <<>> => key[q[1]] > 0
  PROVE  DueOrder(q, key, 1)
<1>1. CASE q = <<>>
  <2>1. 1 .. Len(q) = {}
    BY <1>1
  <2> QED  BY <2>1 DEF DueOrder
<1>2. CASE q # <<>>
  <2> DEFINE D == DeltaSum(q, key)
  <2>1. /\ D[1] = key[q[1]] /\ 1 \in 1 .. Len(q) /\ key[q[1]] \in Int
        /\ \A i \in 1 .. Len(q) : D[i] \in Int
    BY <1>2, FirstToGo
  <2>2. \A i \in 1 .. Len(q) : D[1] <= D[i]
    <3>1. \A i \in 1 .. Len(q) : 1 <= i
      OBVIOUS
    <3> QED  BY <2>1, <3>1 DEF DueOrder
  <2> HIDE DEF D
  <2>3. \A i \in 1 .. Len(q) : 1 <= D[i]
    BY <1>2, <2>1, <2>2
  <2> QED  BY <2>3 DEF DueOrder, D
<1> QED  BY <1>1, <1>2

\* The first key before and after a tick, none of the keys being too large.
LEMMA TickFits ==
  ASSUME IInv, DueInv, ~Waking, sleepq # <<>>
  PROVE  /\ FirstKey \in 1 .. SIGN - 1 /\ sleepq[1] \in Pids /\ OnQueue(sleepq, sleepq[1])
         /\ Less \in [Pids -> Int] /\ Ticked(Pids, sleepq, qkey, Less)
         /\ Less[sleepq[1]] = FirstKey - 1
<1>1. sleepq[1] \in Pids /\ 1 \in 1 .. Len(sleepq) /\ OnQueue(sleepq, sleepq[1])
  BY SleepTypes, FirstToGo
<1>2. DeltaSum(sleepq, qkey)[1] = FirstKey /\ FirstKey \in Int
  BY SleepTypes, FirstToGo DEF FirstKey
<1>3. 1 <= FirstKey /\ FirstKey < SIGN
  BY <1>1, <1>2 DEF DueInv, DueOrder
<1>4. FirstKey - 1 \in Nat /\ FirstKey - 1 < SIGN /\ FirstKey \in 1 .. SIGN - 1
  BY <1>2, <1>3, DelayAssumption
<1>5. Int32(FirstKey - 1) = FirstKey - 1
  BY <1>4, Int32Same
<1>6. Less = [qkey EXCEPT ![sleepq[1]] = FirstKey - 1]
  BY <1>5 DEF Less, FirstKey
<1>7. Less \in [Pids -> Int] /\ Ticked(Pids, sleepq, qkey, Less) /\ Less[sleepq[1]] = FirstKey - 1
  BY <1>1, <1>4, <1>6, SleepTypes DEF Ticked, FirstKey
<1> QED  BY <1>1, <1>4, <1>7

\* The first process is due when wakeup takes it off the list, not overdue.
LEMMA PopFits ==
  ASSUME IInv, DueInv, Pops
  PROVE  qkey[sleepq[1]] = 0
<1>1. /\ DeltaSum(sleepq, qkey)[1] = FirstKey /\ FirstKey \in Int /\ 1 \in 1 .. Len(sleepq)
  BY SleepTypes, FirstToGo DEF FirstKey, Pops
<1>2. 0 <= FirstKey
  BY <1>1 DEF DueInv, DueOrder, Pops
<1> QED  BY <1>1, <1>2 DEF Pops, FirstKey

\* Every step keeps the order, and leaves nobody due except to wakeup.
LEMMA SleepStepDue ==
  ASSUME FitDelays, IInv, IInv', DueInv, SleepStep
  PROVE  DueInv'
<1>1. /\ sleepq \in Seq(Pids) /\ qkey \in [Pids -> Int] /\ NoDuplicates(sleepq)
      /\ currpid \in Pids /\ SIGN \in Nat
  BY SleepTypes, DelayAssumption
<1>2. sleepq' \in Seq(Pids) /\ qkey' \in [Pids -> Int]
  BY DEF IInv, TypeOK
<1>3. ASSUME NEW key \in [Pids -> Int], NEW lo, KeysOf(key), DueOrder(sleepq', key, lo)
      PROVE  DueOrder(sleepq', qkey', lo)
  BY <1>2, <1>3, AgreeGo DEF KeysOf
<1>4. DueInv' <=> DueOrder(sleepq', qkey', IF Waking' THEN 0 ELSE 1)
  BY DEF DueInv
<1>5. CASE Calm
  <2>1. CASE Waking <=> Waking'
    BY <1>1, <1>3, <1>4, <1>5, <2>1 DEF Calm, DueInv
  <2>2. CASE Waking /\ ~Waking'
    <3>1. DueOrder(sleepq, qkey, 1)
      BY <1>1, <1>5, <2>2, FirstDecides DEF Calm, DueInv, FirstKey
    <3> QED  BY <1>1, <1>3, <1>4, <1>5, <2>2, <3>1 DEF Calm
  <2> QED  BY <1>5, <2>1, <2>2 DEF Calm
<1>6. CASE Ticks
  <2>1. /\ FirstKey \in 1 .. SIGN - 1 /\ Less \in [Pids -> Int]
        /\ Ticked(Pids, sleepq, qkey, Less) /\ Less[sleepq[1]] = FirstKey - 1
    BY <1>6, TickFits DEF Ticks
  <2>2. DueOrder(sleepq, Less, 1 - 1)
    <3>1. DueOrder(sleepq, qkey, 1)
      BY <1>6 DEF Ticks, DueInv
    <3>2. sleepq # <<>>
      BY <1>6 DEF Ticks
    <3>3. \A lo \in Int : DueOrder(sleepq, qkey, lo) => DueOrder(sleepq, Less, lo - 1)
      BY <1>1, <2>1, <3>2, TickGo
    <3>4. 1 \in Int
      OBVIOUS
    <3> QED  BY <3>1, <3>3, <3>4
  <2>3. DueOrder(sleepq, Less, 0)
    BY <2>2
  <2>4. CASE Waking'
    BY <1>3, <1>4, <1>6, <2>1, <2>3, <2>4 DEF Ticks
  <2>5. CASE ~Waking'
    <3>1. Less[sleepq[1]] > 0
      BY <1>6, <2>1, <2>5 DEF Ticks, Due
    <3>2. DueOrder(sleepq, Less, 1)
      BY <1>1, <2>1, <2>3, <3>1, FirstDecides
    <3> QED  BY <1>3, <1>4, <1>6, <2>1, <2>5, <3>2 DEF Ticks
  <2> QED  BY <2>4, <2>5
<1>7. CASE Pops
  <2>1. DueOrder(Tail(sleepq), qkey, 0)
    BY <1>1, <1>7, PopFits, TailGo DEF Pops, DueInv
  <2> QED  BY <1>1, <1>3, <1>4, <1>7, <2>1 DEF Pops
<1>8. ASSUME NEW d \in Asked, Dozes(d)  PROVE DueInv'
  <2>1. d \in Int /\ 1 <= d /\ d < SIGN
    BY AskedFits
  <2>2. DueOrder(sleepq', InsertdKeys(sleepq, qkey, currpid, d), 1)
    BY <1>1, <1>8, <2>1, InsertdGo DEF Dozes, DueInv
  <2>3. InsertdKeys(sleepq, qkey, currpid, d) \in [Pids -> Int]
    BY <1>1, <2>1, InsertdFacts
  <2> QED  BY <1>3, <1>4, <1>8, <2>2, <2>3 DEF Dozes
<1>9. ASSUME NEW p \in Pids, Leaves(p)  PROVE DueInv'
  <2>1. DueOrder(sleepq', UnsleepKeys(sleepq, qkey, p), 1)
    BY <1>1, <1>9, UnsleepGo DEF Leaves, DueInv
  <2>2. UnsleepKeys(sleepq, qkey, p) \in [Pids -> Int]
    BY <1>1, <1>9, UnsleepFacts DEF Leaves
  <2> QED  BY <1>3, <1>4, <1>9, <2>1, <2>2 DEF Leaves
<1> QED  BY <1>5, <1>6, <1>7, <1>8, <1>9 DEF SleepStep

\* The sleep queue is in order and, outside wakeup, nobody on it is due.
THEOREM DueAlways == ASSUME FitDelays  PROVE Spec => []DueInv
<1>1. Init => DueInv
  <2> SUFFICES ASSUME Init  PROVE DueInv
    OBVIOUS
  <2>1. 1 .. Len(sleepq) = {}
    BY DEF Init
  <2> QED  BY <2>1 DEF DueInv, DueOrder
<1>2. IInv /\ DueInv /\ [Next]_vars => DueInv'
  <2> SUFFICES ASSUME IInv, DueInv, [Next]_vars  PROVE DueInv'
    OBVIOUS
  <2>1. CASE UNCHANGED vars
    BY <2>1 DEF vars, sched, where, DueInv, Waking
  <2>2. CASE Next
    BY <2>2, NextSleeps, NextIInv, SleepStepDue
  <2> QED  BY <2>1, <2>2
<1> QED  BY <1>1, <1>2, Invariance, PTL DEF Spec

\* No process is left on the sleep queue when its time has passed, for delays that
\* fit (recvtime.c, sleep.c, insertd.c, unsleep.c, wakeup.c, clkhandler.c).
THEOREM NobodyOverdue == ASSUME FitDelays  PROVE Spec => []NoneOverdue
<1>1. IInv /\ DueInv => NoneOverdue
  <2> SUFFICES ASSUME IInv, DueInv, pc[currpid] = "user", NEW i \in DOMAIN sleepq
               PROVE  DeltaSum(sleepq, qkey)[i] >= 0
    BY DEF NoneOverdue
  <2>1. i \in 1 .. Len(sleepq) /\ i \in 0 .. Len(sleepq) /\ ~Waking
    BY SleepTypes DEF Waking
  <2>2. DeltaSum(sleepq, qkey)[i] \in Int
    BY <2>1, SleepTypes, DeltaSumType
  <2> QED  BY <2>1, <2>2 DEF DueInv, DueOrder
<1> QED  BY <1>1, DueAlways, Invariance, PTL

-----------------------------------------------------------------------------
(* The delta list implements one timer per process                         *)

\* What process p has left, by the list q and its keys.
TimeOf(q, key, p) ==
  IF OnQueue(q, p) THEN Max({0, DeltaSum(q, key)[PlaceOf(q, p)]}) ELSE 0

\* It is what p has to go, if p is on the list.
LEMMA TimeIs ==
  ASSUME NEW S, NEW q \in Seq(S), NEW key \in [S -> Int], NoDuplicates(q),
         NEW lo \in {0, 1}, DueOrder(q, key, lo), NEW p \in S
  PROVE  /\ OnQueue(q, p) => ToGo(q, key, p, TimeOf(q, key, p)) /\ TimeOf(q, key, p) >= lo
         /\ ~OnQueue(q, p) => TimeOf(q, key, p) = 0
         /\ \A n : ToGo(q, key, p, n) => OnQueue(q, p) /\ n = TimeOf(q, key, p)
         /\ TimeOf(q, key, p) \in Nat
<1> DEFINE D == DeltaSum(q, key)
           i == PlaceOf(q, p)
<1>1. DOMAIN q = 1 .. Len(q)
  BY LenProperties
<1>2. CASE ~OnQueue(q, p)
  BY <1>1, <1>2 DEF TimeOf, ToGo, OnQueue
<1>3. CASE OnQueue(q, p)
  <2>1. i \in 1 .. Len(q) /\ q[i] = p
    BY <1>1, <1>3 DEF OnQueue, PlaceOf
  <2>2. \A j \in 1 .. Len(q) : q[j] = p => j = i
    BY <1>1, <2>1 DEF NoDuplicates
  <2>3. D[i] \in Int /\ D[i] >= lo
    <3>1. i \in 0 .. Len(q)
      BY <2>1
    <3>2. D[i] \in Int
      BY <3>1, DeltaSumType
    <3> QED  BY <2>1, <3>2 DEF DueOrder
  <2>4. TimeOf(q, key, p) = Max({0, D[i]})
    BY <1>3 DEF TimeOf
  <2> HIDE DEF D, i
  <2>5. Max({0, D[i]}) = D[i]
    <3>1. D[i] \in {0, D[i]} /\ \A y \in {0, D[i]} : D[i] >= y
      BY <2>3
    <3>2. \A x \in {0, D[i]} : (\A y \in {0, D[i]} : x >= y) => x = D[i]
      BY <2>3
    <3> QED  BY <3>1, <3>2 DEF Max
  <2>6. \A n : ToGo(q, key, p, n) <=> n = D[i]
    BY <2>1, <2>2 DEF ToGo, D
  <2>7. TimeOf(q, key, p) = D[i] /\ D[i] \in Nat
    BY <2>3, <2>4, <2>5
  <2>8. ToGo(q, key, p, D[i])
    BY <2>6
  <2> QED  BY <1>3, <2>3, <2>6, <2>7, <2>8
<1> QED  BY <1>2, <1>3

\* The list's processes are those somebody has to go, and nobody else.
LEMMA OnListToGo ==
  ASSUME NEW S, NEW q \in Seq(S), NEW key, NEW p
  PROVE  OnQueue(q, p) <=> \E n : ToGo(q, key, p, n)
<1>1. DOMAIN q = 1 .. Len(q)
  BY LenProperties
<1> QED  BY <1>1 DEF OnQueue, ToGo

\* Every step of the kernel is a step of the timers or leaves them alone: insertd
\* starts one, unsleep cancels one, a tick counts them all down, and wakeup takes
\* those off that have run out.
LEMMA TimerStep ==
  ASSUME FitDelays, IInv, IInv', DueInv, DueInv', SleepStep
  PROVE  [AsTimers!Next]_TimeLeft
<1> DEFINE go(p, n) == ToGo(sleepq, qkey, p, n)
           went(p, n) == ToGo(sleepq', qkey', p, n)
           t(p) == TimeOf(sleepq, qkey, p)
           u(p) == TimeOf(sleepq', qkey', p)
<1>1. /\ sleepq \in Seq(Pids) /\ qkey \in [Pids -> Int] /\ NoDuplicates(sleepq)
      /\ currpid \in Pids /\ ~OnQueue(sleepq, currpid)
  BY SleepTypes
<1>2. sleepq' \in Seq(Pids) /\ qkey' \in [Pids -> Int] /\ NoDuplicates(sleepq')
  BY DEF IInv, TypeOK, QueuesAgree, SleepAgrees
<1>3. /\ TimeLeft = [p \in Pids |-> t(p)]
      /\ TimeLeft' = [p \in Pids |-> u(p)]
  BY DEF TimeLeft, TimeOf
<1>4. ASSUME NEW p \in Pids
      PROVE  /\ t(p) \in Nat
             /\ \A n : go(p, n) => n = t(p)
             /\ (\E n : go(p, n)) => go(p, t(p))
             /\ (\A n : ~go(p, n)) => t(p) = 0
             /\ ~Waking /\ (\E n : go(p, n)) => t(p) >= 1
  <2> DEFINE lo == IF Waking THEN 0 ELSE 1
  <2>1. lo \in {0, 1} /\ DueOrder(sleepq, qkey, lo) /\ (~Waking => lo = 1)
    BY DEF DueInv
  <2>2. OnQueue(sleepq, p) <=> \E n : go(p, n)
    BY <1>1, OnListToGo
  <2> HIDE DEF lo
  <2>3. /\ OnQueue(sleepq, p) => go(p, t(p)) /\ t(p) >= lo
        /\ ~OnQueue(sleepq, p) => t(p) = 0
        /\ \A n : go(p, n) => n = t(p)
        /\ t(p) \in Nat
    BY <1>1, <2>1, TimeIs
  <2> QED  BY <2>1, <2>2, <2>3
<1>5. ASSUME NEW p \in Pids
      PROVE  /\ \A n : went(p, n) => n = u(p)
             /\ (\A n : ~went(p, n)) => u(p) = 0
  <2> DEFINE lo == IF Waking' THEN 0 ELSE 1
  <2>1. lo \in {0, 1} /\ DueOrder(sleepq', qkey', lo)
    BY DEF DueInv
  <2>2. OnQueue(sleepq', p) <=> \E n : went(p, n)
    BY <1>2, OnListToGo
  <2> HIDE DEF lo
  <2>3. /\ ~OnQueue(sleepq', p) => u(p) = 0
        /\ \A n : went(p, n) => n = u(p)
    BY <1>2, <2>1, TimeIs
  <2> QED  BY <2>2, <2>3
<1>6. ASSUME NEW key \in [Pids -> Int], KeysOf(key), NEW p, NEW n
      PROVE  went(p, n) <=> ToGo(sleepq', key, p, n)
  BY <1>2, <1>6, AgreeGo DEF KeysOf
<1>7. \A p \in Pids : OnQueue(sleepq, p) <=> \E n : go(p, n)
  BY <1>1, OnListToGo
<1> HIDE DEF go, went, t, u
<1>8. ASSUME NEW p \in Pids, \A n : went(p, n) <=> go(p, n)  PROVE u(p) = t(p)
  BY <1>4, <1>5, <1>8
<1>9. CASE Calm
  <2>1. \A p \in Pids : \A n : went(p, n) <=> go(p, n)
    BY <1>1, <1>6, <1>9 DEF Calm, go
  <2> QED  BY <1>3, <1>8, <2>1
<1>10. CASE Pops
  <2>1. \A p, n : ToGo(sleepq', qkey, p, n) <=> go(p, n) /\ p # sleepq[1]
    BY <1>1, <1>10, PopFits, TailGo DEF Pops, go
  <2>2. \A p, n : went(p, n) <=> go(p, n) /\ p # sleepq[1]
    BY <1>1, <1>6, <1>10, <2>1 DEF Pops
  <2>3. 1 \in 1 .. Len(sleepq) /\ DeltaSum(sleepq, qkey)[1] = 0 /\ sleepq[1] \in Pids
    BY <1>1, <1>10, PopFits, FirstToGo DEF Pops
  <2>4. go(sleepq[1], 0)
    BY <2>3 DEF go, ToGo
  <2>5. t(sleepq[1]) = 0 /\ u(sleepq[1]) = 0
    BY <1>4, <1>5, <2>2, <2>3, <2>4
  <2>6. \A p \in Pids : u(p) = t(p)
    BY <1>8, <2>2, <2>5
  <2> QED  BY <1>3, <2>6
<1>11. ASSUME NEW d \in Asked, Dozes(d)  PROVE AsTimers!Next
  <2>1. d \in Int /\ d \in {n \in Delays \cup Waits : n > 0}
    BY AskedFits
  <2>2. \A p, n : ToGo(sleepq', InsertdKeys(sleepq, qkey, currpid, d), p, n)
                    <=> go(p, n) \/ (p = currpid /\ n = d)
    BY <1>1, <1>11, <2>1, InsertdGo DEF Dozes, go
  <2>3. InsertdKeys(sleepq, qkey, currpid, d) \in [Pids -> Int]
    BY <1>1, <2>1, InsertdFacts
  <2>4. \A p, n : went(p, n) <=> go(p, n) \/ (p = currpid /\ n = d)
    BY <1>6, <1>11, <2>2, <2>3 DEF Dozes
  <2>5. t(currpid) = 0
    BY <1>1, <1>4, <1>7
  <2>6. u(currpid) = d
    BY <1>1, <1>5, <2>4
  <2>7. \A p \in Pids : p # currpid => u(p) = t(p)
    BY <1>8, <2>4
  <2>8. TimeLeft' = [TimeLeft EXCEPT ![currpid] = d]
    BY <1>1, <1>3, <2>6, <2>7
  <2>9. TimeLeft[currpid] = 0
    BY <1>1, <1>3, <2>5
  <2> QED  BY <1>1, <2>1, <2>8, <2>9 DEF AsTimers!Next, AsTimers!Start
<1>12. ASSUME NEW p \in Pids, Leaves(p)  PROVE AsTimers!Next
  <2>1. \A r, n : ToGo(sleepq', UnsleepKeys(sleepq, qkey, p), r, n) <=> go(r, n) /\ r # p
    BY <1>1, <1>12, UnsleepGo DEF Leaves, go
  <2>2. UnsleepKeys(sleepq, qkey, p) \in [Pids -> Int]
    BY <1>1, <1>12, UnsleepFacts DEF Leaves
  <2>3. \A r, n : went(r, n) <=> go(r, n) /\ r # p
    BY <1>6, <1>12, <2>1, <2>2 DEF Leaves
  <2>4. t(p) > 0
    <3>1. t(p) >= 1 /\ t(p) \in Nat
      BY <1>4, <1>7, <1>12 DEF Leaves
    <3> QED  BY <3>1
  <2>5. u(p) = 0
    BY <1>5, <2>3
  <2>6. \A r \in Pids : r # p => u(r) = t(r)
    BY <1>8, <2>3
  <2>7. TimeLeft' = [TimeLeft EXCEPT ![p] = 0] /\ TimeLeft[p] > 0
    BY <1>3, <2>4, <2>5, <2>6
  <2> QED  BY <2>7 DEF AsTimers!Next, AsTimers!Cancel
<1>13. CASE Ticks
  <2>1. /\ sleepq[1] \in Pids /\ OnQueue(sleepq, sleepq[1])
        /\ Less \in [Pids -> Int] /\ Ticked(Pids, sleepq, qkey, Less)
    BY <1>13, TickFits DEF Ticks
  <2>2. \A p, n : ToGo(sleepq, Less, p, n) <=> \E m \in Int : n = m - 1 /\ go(p, m)
    <3>1. sleepq # <<>>
      BY <1>13 DEF Ticks
    <3>2. OneTickCloser(sleepq, qkey, Less)
      BY <1>1, <2>1, <3>1, TickGo
    <3> QED  BY <3>2 DEF OneTickCloser, go
  <2>3. \A p, n : went(p, n) <=> \E m \in Int : n = m - 1 /\ go(p, m)
    BY <1>6, <1>13, <2>1, <2>2 DEF Ticks
  <2>4. ~Waking
    BY <1>13 DEF Ticks
  <2>5. ASSUME NEW p \in Pids  PROVE u(p) = IF t(p) > 0 THEN t(p) - 1 ELSE 0
    <3>1. CASE \E n : go(p, n)
      <4>1. go(p, t(p)) /\ t(p) >= 1 /\ t(p) \in Nat
        BY <1>4, <2>4, <3>1
      <4>2. went(p, t(p) - 1)
        BY <2>3, <4>1
      <4> QED  BY <1>5, <4>1, <4>2
    <3>2. CASE ~ \E n : go(p, n)
      <4>1. t(p) = 0 /\ u(p) = 0
        BY <1>4, <1>5, <2>3, <3>2
      <4> QED  BY <4>1
    <3> QED  BY <3>1, <3>2
  <2>6. TimeLeft' = [p \in Pids |-> IF TimeLeft[p] > 0 THEN TimeLeft[p] - 1 ELSE 0]
    BY <1>3, <2>5
  <2>7. TimeLeft[sleepq[1]] > 0
    <3>1. t(sleepq[1]) >= 1 /\ t(sleepq[1]) \in Nat
      BY <1>4, <1>7, <2>1, <2>4
    <3> QED  BY <1>3, <2>1, <3>1
  <2>8. AsTimers!Tick
    BY <2>1, <2>6, <2>7 DEF AsTimers!Tick
  <2> QED  BY <2>8 DEF AsTimers!Next
<1> QED  BY <1>9, <1>10, <1>11, <1>12, <1>13 DEF SleepStep

\* Delays that fit end after as many ticks as were asked for, however many
\* processes come and go on the sleep queue: the kernel implements the timers, step
\* by step (sleep.c, recvtime.c, insertd.c, unsleep.c, wakeup.c, clkhandler.c).
THEOREM DelaysKeepTime == ASSUME FitDelays  PROVE Spec => AsTimers!Init /\ [][AsTimers!Next]_TimeLeft
<1>1. Init => AsTimers!Init
  <2> SUFFICES ASSUME Init  PROVE TimeLeft = [p \in Pids |-> 0]
    BY DEF AsTimers!Init
  <2>1. \A p : ~OnQueue(sleepq, p)
    BY DEF Init, OnQueue
  <2> QED  BY <2>1 DEF TimeLeft
<1>2. IInv /\ IInv' /\ DueInv /\ DueInv' /\ [Next]_vars => [AsTimers!Next]_TimeLeft
  <2> SUFFICES ASSUME IInv, IInv', DueInv, DueInv', [Next]_vars  PROVE [AsTimers!Next]_TimeLeft
    OBVIOUS
  <2>1. CASE UNCHANGED vars
    BY <2>1 DEF vars, sched, TimeLeft
  <2>2. CASE Next
    BY <2>2, NextSleeps, TimerStep
  <2> QED  BY <2>1, <2>2
<1> QED  BY <1>1, <1>2, DueAlways, Invariance, PTL DEF Spec

=============================================================================
