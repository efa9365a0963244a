------------------------------ MODULE Loopback ------------------------------
(***************************************************************************)
(* The loopback device (device/loopback): what is written to it is read    *)
(* from it. The number of characters in the buffer is the count of a       *)
(* semaphore. The characters written are numbered.                         *)
(***************************************************************************)
EXTENDS Semas

CONSTANTS LOOP_BUFFER,  \* length of the buffer
          LbLens,       \* lengths of reads and writes
          LbWritten     \* bound: characters written

ASSUME LoopbackAssumption ==
  LOOP_BUFFER \in Nat \ {0} /\ LbLens \subseteq Nat \ {0} /\ LbWritten \in Nat

VARIABLES lbstate, lbindex, lbnonblock, lbsem, lbbuffer,  \* struct loopback
          lbproc,   \* [p -> the call it is in and the characters left]
          lbgiven,  \* the last character that was accepted
          lbtaken,  \* the last character that was read
          lbwaited  \* some reader has found the buffer empty and waited

lbdev == <<lbstate, lbindex, lbnonblock, lbsem, lbbuffer>>
lbvars == <<lbdev, lbproc, lbgiven, lbtaken, lbwaited>>

LbIdle == [at |-> "user", left |-> 0]
LbCells == 0 .. LOOP_BUFFER - 1

LbInit == /\ lbstate = "free" /\ lbindex = 0 /\ lbnonblock = FALSE /\ lbsem = Sema(0)
          /\ lbbuffer = [i \in LbCells |-> 0]
          /\ lbproc = [p \in Procs |-> LbIdle]
          /\ lbgiven = 0 /\ lbtaken = 0 /\ lbwaited = FALSE

LbAt(p, at) == lbproc[p].at = at /\ p \notin Waiters(lbsem)
LbMore(p) ==
  LET c == lbproc[p] IN
  lbproc' = [lbproc EXCEPT ![p] = IF c.left = 1 THEN LbIdle
                                  ELSE [at |-> IF c.at = "write" THEN "write" ELSE "read",
                                        left |-> c.left - 1]]
LbLeave(p) == lbproc' = [lbproc EXCEPT ![p] = LbIdle]

(* loopbackOpen: what was in the buffer is gone; the index stays *)
LbOpen(p) ==
  /\ LbAt(p, "user") /\ lbstate = "free"
  /\ lbstate' = "alloc" /\ lbsem' = Sema(0) /\ lbnonblock' = FALSE
  /\ lbbuffer' = [i \in LbCells |-> 0]
  /\ lbtaken' = lbgiven
  /\ UNCHANGED <<lbindex, lbproc, lbgiven, lbwaited>>

(* loopbackClose *)
LbClose(p) ==
  /\ LbAt(p, "user") /\ lbstate = "alloc"
  /\ lbstate' = "free" /\ lbsem' = Sema(0)
  /\ UNCHANGED <<lbindex, lbnonblock, lbbuffer, lbproc, lbgiven, lbtaken, lbwaited>>

(* loopbackControl *)
LbControl(p) ==
  /\ LbAt(p, "user") /\ lbstate = "alloc"
  /\ lbnonblock' = ~lbnonblock
  /\ UNCHANGED <<lbstate, lbindex, lbsem, lbbuffer, lbproc, lbgiven, lbtaken, lbwaited>>

(* loopbackRead, loopbackWrite *)
LbCall(p, at, len) ==
  /\ LbAt(p, "user") /\ lbstate = "alloc"
  /\ lbproc' = [lbproc EXCEPT ![p] = [at |-> at, left |-> len]]
  /\ UNCHANGED <<lbdev, lbgiven, lbtaken, lbwaited>>

(* loopbackGetc behind its wait *)
LbTake(p) == /\ lbtaken' = lbbuffer[lbindex]
             /\ lbindex' = (lbindex + 1) % LOOP_BUFFER
             /\ LbMore(p)

(* the calls it makes on a semaphore that is gone fail and it goes on *)
LbGetc(p) ==
  /\ LbAt(p, "read")
  /\ IF lbnonblock /\ lbsem.n <= 0
     THEN LbLeave(p) /\ UNCHANGED <<lbsem, lbindex, lbtaken, lbwaited>>
     ELSE IF lbstate = "free" THEN LbTake(p) /\ UNCHANGED <<lbsem, lbwaited>>
     ELSE /\ lbsem' = Down(lbsem, p)
          /\ lbwaited' = (lbwaited \/ Blocks(lbsem))
          /\ IF Blocks(lbsem)
             THEN /\ lbproc' = [lbproc EXCEPT ![p].at = "got"]
                  /\ UNCHANGED <<lbindex, lbtaken>>
             ELSE LbTake(p)
  /\ UNCHANGED <<lbstate, lbnonblock, lbbuffer, lbgiven>>

LbGot(p) == /\ LbAt(p, "got")
            /\ LbTake(p)
            /\ UNCHANGED <<lbstate, lbnonblock, lbsem, lbbuffer, lbgiven, lbwaited>>

LbFull == lbsem.n >= LOOP_BUFFER

(* loopbackPutc: the remainder of a negative number is negative in C, and  *)
(* the byte before the buffer is of no interest here                       *)
LbPutc(p) ==
  LET i == lbindex + IF lbstate = "free" THEN -1 ELSE lbsem.n IN
  /\ LbAt(p, "write") /\ lbgiven < LbWritten
  /\ IF LbFull THEN LbLeave(p) /\ UNCHANGED <<lbbuffer, lbsem, lbgiven>>
     ELSE /\ lbgiven' = lbgiven + 1
          /\ lbbuffer' = IF i < 0 THEN lbbuffer ELSE [lbbuffer EXCEPT ![i % LOOP_BUFFER] = lbgiven']
          /\ lbsem' = IF lbstate = "free" THEN lbsem ELSE Up(lbsem)
          /\ LbMore(p)
  /\ UNCHANGED <<lbstate, lbindex, lbnonblock, lbtaken, lbwaited>>

LbNext ==
  \E p \in Procs : \/ LbOpen(p) \/ LbClose(p) \/ LbControl(p)
                   \/ LbGetc(p) \/ LbGot(p) \/ LbPutc(p)
                   \/ \E at \in {"read", "write"}, len \in LbLens : LbCall(p, at, len)

LbSpec == LbInit /\ [][LbNext]_lbvars

-----------------------------------------------------------------------------

LbTypeOK == /\ lbindex \in LbCells /\ SemaOK(lbsem)
            /\ lbbuffer \in [LbCells -> 0 .. LbWritten]

(* The device is a queue as long as no reader has had to wait: what has    *)
(* been accepted and not read, and nothing else, lies in the buffer from   *)
(* the index on, in its order.                                             *)
LbIsQueue ==
  (lbstate = "alloc" /\ ~lbwaited) =>
     /\ lbsem.n = lbgiven - lbtaken
     /\ \A i \in 1 .. lbsem.n : lbbuffer[(lbindex + i - 1) % LOOP_BUFFER] = lbtaken + i
=============================================================================
