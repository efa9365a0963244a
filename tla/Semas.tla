------------------------------- MODULE Semas -------------------------------
(***************************************************************************)
(* Counting semaphores as the layers above the kernel use them: a record   *)
(* with the count and the queue of waiting processes (module Kernel has    *)
(* the table of them, with switches in the middle of the calls).           *)
(*                                                                         *)
(* In the modules built on this one a process is blocked exactly while it  *)
(* is in some queue. Any process that is not may run next, which covers    *)
(* every assignment of priorities and every clock interrupt. A stretch of  *)
(* code with interrupts disabled is one action; it ends where the code may *)
(* give up the processor.                                                  *)
(***************************************************************************)
EXTENDS Integers, Sequences, FiniteSets

CONSTANTS Procs,   \* the processes that call the component, of a table of NPROC
          NoProc   \* a value that is no process

ASSUME SemasAssumption == NoProc \notin Procs /\ IsFiniteSet(Procs)

(* semcreate(n), and what semreset(s, n) makes of any semaphore *)
Sema(n) == [n |-> n, q |-> <<>>]

BugBlocks(s) == s.n < 0

(* wait: does the caller have to stop? *)
Blocks(s) == s.n <= 0

(* wait(s) by process p *)
Down(s, p) == [n |-> s.n - 1, q |-> IF Blocks(s) THEN Append(s.q, p) ELSE s.q]

(* signal(s) *)
Up(s) == [n |-> s.n + 1, q |-> IF s.n < 0 THEN Tail(s.q) ELSE s.q]

(* signaln(s, k): the first k waiting processes go on *)
UpN(s, k) == [n |-> s.n + k,
              q |-> SubSeq(s.q, 1 + (IF k < Len(s.q) THEN k ELSE Len(s.q)), Len(s.q))]

Waiters(s) == {s.q[i] : i \in DOMAIN s.q}

(* the resources a semaphore has to give away at once *)
Available(s) == IF s.n > 0 THEN s.n ELSE 0

(* the count and the queue agree, and nobody is queued twice *)
SemaOK(s) ==
  /\ s.n \in Int
  /\ Len(s.q) = (IF s.n < 0 THEN -s.n ELSE 0)
  /\ Cardinality(Waiters(s)) = Len(s.q)
============================================================================
