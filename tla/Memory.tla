------------------------------- MODULE Memory -------------------------------
(***************************************************************************)
(* The free memory list (meminit.c, getmem.c, getstk.c, freemem.c): blocks *)
(* in the order of their addresses. getmem takes the lowest block that     *)
(* fits, from its bottom, and getstk the highest, from its top; freemem    *)
(* joins a block with the neighbours it touches. Addresses are counted in  *)
(* units of UNIT bytes, the size of a struct memblk, requests in bytes.    *)
(***************************************************************************)
EXTENDS Integers, Sequences, FiniteSets, SequencesExt

CONSTANTS HEAP,      \* units between minheap and maxheap
          UNIT,      \* bytes of a struct memblk
          Requests   \* bytes that are asked for

ASSUME MemoryAssumption == HEAP \in Nat \ {0} /\ UNIT \in Nat \ {0} /\ Requests \subseteq Nat \ {0}

VARIABLES memlist,   \* free blocks [at, len], lowest first
          memheld,   \* blocks that callers hold
          memanswer  \* of the last call: "ok", or which call returned SYSERR:
                     \* "full" getmem or getstk, "free" freemem

memvars == <<memlist, memheld, memanswer>>

Roundmb(bytes) == (bytes + UNIT - 1) \div UNIT

MemBlock(a, n) == [at |-> a, len |-> n]

(* meminit: one big block, from address 1 so that 0 is NULL *)
MemInit == memlist = <<MemBlock(1, HEAP)>> /\ memheld = {} /\ memanswer = "ok"

BugFitting(n) == {i \in DOMAIN memlist : memlist[i].len > n}
Fitting(n) == {i \in DOMAIN memlist : memlist[i].len >= n}

(* block i gives up n units that begin at address a *)
Unlink(i, a, n) ==
  LET b == memlist[i] IN
  IF b.len = n THEN RemoveAt(memlist, i)
  ELSE [memlist EXCEPT ![i] = MemBlock(IF a = b.at THEN a + n ELSE b.at, b.len - n)]

Hand(i, a, n) == /\ memlist' = Unlink(i, a, n)
                 /\ memheld' = memheld \cup {MemBlock(a, n)}
                 /\ memanswer' = "ok"

MemRefuse(why) == memanswer' = why /\ UNCHANGED <<memlist, memheld>>

Getmem(bytes) ==
  LET n == Roundmb(bytes) IN
  \/ Fitting(n) = {} /\ MemRefuse("full")
  \/ \E i \in Fitting(n) : /\ \A j \in Fitting(n) : i <= j
                           /\ Hand(i, memlist[i].at, n)

(* getstk returns the highest word of the block, freestk computes back *)
GetstkBlock(bytes) ==
  LET n == Roundmb(bytes) IN
  \/ Fitting(n) = {} /\ MemRefuse("full")
  \/ \E i \in Fitting(n) : /\ \A j \in Fitting(n) : j <= i
                           /\ Hand(i, memlist[i].at + memlist[i].len - n, n)

(* blocks below the one to be freed: the scan stops at the first that is not *)
Below(a) == Cardinality({i \in DOMAIN memlist : memlist[i].at < a})

MemTop(i) == memlist[i].at + memlist[i].len

(* freemem refuses a block that overlaps the free block before or behind it *)
Overlaps(a, n) ==
  LET i == Below(a) IN
  \/ i > 0 /\ a < MemTop(i)
  \/ i < Len(memlist) /\ a + n > memlist[i + 1].at

(* the list with the block linked in, or joined to what it touches *)
Join(a, n) ==
  LET i == Below(a)
      lo == IF i > 0 /\ MemTop(i) = a THEN i ELSE i + 1
      hi == IF i < Len(memlist) /\ memlist[i + 1].at = a + n THEN i + 1 ELSE i
      first == IF lo = i THEN memlist[i].at ELSE a
      last == IF hi = i + 1 THEN MemTop(hi) ELSE a + n
  IN SubSeq(memlist, 1, lo - 1) \o <<MemBlock(first, last - first)>>
       \o SubSeq(memlist, hi + 1, Len(memlist))

Freemem(a, n) ==
  \/ Overlaps(a, n) /\ MemRefuse("free")
  \/ /\ ~Overlaps(a, n)
     /\ memlist' = Join(a, n)
     /\ memheld' = memheld \ {MemBlock(a, n)}
     /\ memanswer' = "ok"

(* A caller gives back a block it holds, or one that somebody, perhaps the *)
(* caller itself, has given back before: it may have been joined since, or *)
(* handed out again in part.                                               *)
MemCells(b) == b.at .. b.at + b.len - 1
Heaped == UNION {MemCells(b) : b \in memheld}

MemNext ==
  \/ \E bytes \in Requests : Getmem(bytes) \/ GetstkBlock(bytes)
  \/ \E b \in memheld : Freemem(b.at, b.len)
  \/ \E a \in 1 .. HEAP, bytes \in Requests :
       LET b == MemBlock(a, Roundmb(bytes)) IN
       /\ MemCells(b) \subseteq 1 .. HEAP /\ ~ (MemCells(b) \subseteq Heaped)
       /\ Freemem(b.at, b.len)

MemSpec == MemInit /\ [][MemNext]_memvars

----------------------------------------------------------------------------

MemTypeOK ==
  /\ memlist \in Seq([at : 1 .. HEAP, len : 1 .. HEAP])
  /\ memheld \subseteq [at : 1 .. HEAP, len : 1 .. HEAP]
  /\ memanswer \in {"ok", "full", "free"}

(* The list is in ascending order with a gap between any two blocks - no   *)
(* two that touch are left apart, however the frees came - and it holds    *)
(* exactly the memory nobody holds.                                        *)
MemPartition ==
  /\ \A i \in DOMAIN memlist : i < Len(memlist) => MemTop(i) < memlist[i + 1].at
  /\ UNION {MemCells(memlist[i]) : i \in DOMAIN memlist} = (1 .. HEAP) \ Heaped

Promise == INSTANCE Heap WITH Words <- 1 .. HEAP, Sizes <- {Roundmb(b) : b \in Requests},
                              held <- memheld, answer <- memanswer

(* The free list of getmem, getstk and freemem is always that partition,   *)
(* and it keeps the promise of module Heap: what is handed out is disjoint *)
(* from everything held, a request fails only when no gap is long enough,  *)
(* and a second free of the same memory is refused. (This is Promise!Spec; *)
(* TLC need not look for a step of it where the memory does not change.)   *)
MemPromise == /\ []MemPartition
              /\ Promise!Init /\ [][UNCHANGED memvars \/ Promise!Next]_<<memheld, memanswer>>
=============================================================================
