------------------------------- MODULE Queues -------------------------------
(***************************************************************************)
(* The process queues of system/queue.c, getitem.c, insert.c, insertd.c    *)
(* and unsleep.c.                                                          *)
(*                                                                         *)
(* queuetab links processes into doubly linked lists and holds ONE key per *)
(* process, whatever list the process is on.  A list is modelled by the    *)
(* sequence of the process IDs met from its head to its tail, and the keys *)
(* by one function from process IDs to integers, so a key that was written *)
(* for one list is still there when the process joins another.             *)
(***************************************************************************)
EXTENDS Integers, Sequences, SequencesExt

\* The process is linked into the list.
OnQueue(q, pid) == \E i \in DOMAIN q : q[i] = pid

\* No process is linked into the list twice.
NoDuplicates(q) == \A i, j \in DOMAIN q : i # j => q[i] # q[j]

\* The position of a process on its list.
PlaceOf(q, pid) == CHOOSE i \in DOMAIN q : q[i] = pid

(* Definitions whose names begin with Bug are not part of the model: each is *)
(* a definition that follows it with a plausible error, kept to show that    *)
(* the properties would notice.                                              *)

\* enqueue: in front of the tail node.
BugEnqueue(q, pid) == <<pid>> \o q
Enqueue(q, pid) == Append(q, pid)

\* getitem: unlink a process from wherever it is on the list.
BugGetItem(q, pid) == Tail(q)
GetItem(q, pid) == RemoveAt(q, PlaceOf(q, pid))

\* insert: the scan passes every node whose key is not below the new key, so
\* equals stay in order of arrival; the tail node holds MINKEY and stops it.
BugInsertPlace(q, key, k) ==
  CHOOSE i \in 1 .. Len(q) + 1 :
    /\ \A j \in 1 .. i - 1 : key[q[j]] > k
    /\ i <= Len(q) => key[q[i]] <= k
BugInsertLast(q, key, k) == Len(q) + 1
InsertPlace(q, key, k) ==
  CHOOSE i \in 1 .. Len(q) + 1 :
    /\ \A j \in 1 .. i - 1 : key[q[j]] >= k
    /\ i <= Len(q) => key[q[i]] < k

Insert(q, key, pid, k) == InsertAt(q, InsertPlace(q, key, k), pid)

\* The sum of the keys of the first i nodes of a delta list.
DeltaSum(q, key) ==
  LET sum[i \in 0 .. Len(q)] == IF i = 0 THEN 0 ELSE sum[i-1] + key[q[i]]
  IN  sum

\* insertd: the scan passes every node whose key is not above what is left of
\* the delay, taking the key of each node it passes from the delay.
BugInsertdPlace(q, key, k) == Len(q) + 1
InsertdPlace(q, key, k) ==
  CHOOSE i \in 1 .. Len(q) + 1 :
    /\ \A j \in 1 .. i - 1 : DeltaSum(q, key)[j] <= k
    /\ i <= Len(q) => DeltaSum(q, key)[i] > k

Insertd(q, key, pid, k) == InsertAt(q, InsertdPlace(q, key, k), pid)

\* insertd: what is left of the delay is the key of the new node and comes off
\* the key of the node behind it.
InsertdKeys(q, key, pid, k) ==
  LET i    == InsertdPlace(q, key, k)
      left == k - DeltaSum(q, key)[i-1]
      own  == [key EXCEPT ![pid] = left]
  IN  IF i <= Len(q) THEN [own EXCEPT ![q[i]] = @ - left] ELSE own

\* unsleep: the next process inherits the key of the one about to leave.
BugUnsleepKeys(q, key, pid) == key
UnsleepKeys(q, key, pid) ==
  LET i == PlaceOf(q, pid)
  IN  IF i < Len(q) THEN [key EXCEPT ![q[i+1]] = @ + key[pid]] ELSE key

=============================================================================
