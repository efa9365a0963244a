-------------------------------- MODULE Heap --------------------------------
(***************************************************************************)
(* What the memory manager promises its callers, without a free list: the  *)
(* blocks they hold are disjoint, a request is refused only if no gap      *)
(* between them is long enough, and giving back what is free already does  *)
(* nothing but return SYSERR.                                              *)
(***************************************************************************)
EXTENDS Integers

CONSTANTS Words,   \* the addresses of the heap, in units of one memory block
          Sizes    \* lengths that are asked for, in the same unit

VARIABLES held,    \* blocks that callers hold: a set of [at, len]
          answer   \* of the last call: "ok", or what SYSERR stands for, "full" or "free"

heapvars == <<held, answer>>

Covers(b) == b.at .. b.at + b.len - 1

Room(b) == Covers(b) \subseteq Words /\ \A h \in held : Covers(h) \cap Covers(b) = {}

Block(a, n) == [at |-> a, len |-> n]

Init == held = {} /\ answer = "ok"

Allocate(n) ==
  \/ \E a \in Words : Room(Block(a, n)) /\ held' = held \cup {Block(a, n)} /\ answer' = "ok"
  \/ /\ ~ \E a \in Words : Room(Block(a, n))
     /\ answer' = "full" /\ UNCHANGED held

Free(b) == held' = held \ {b} /\ answer' = "ok"

FreeAgain(b) == /\ ~ (Covers(b) \subseteq UNION {Covers(h) : h \in held})
                /\ answer' = "free" /\ UNCHANGED held

Next == \/ \E n \in Sizes : Allocate(n)
        \/ \E b \in held : Free(b)
        \/ \E a \in Words, n \in Sizes : FreeAgain(Block(a, n))

Spec == Init /\ [][Next]_heapvars
=============================================================================
