-------------------------------- MODULE Ring --------------------------------
(***************************************************************************)
(* The process ring that counts down with semaphores (apps/process_ring.c  *)
(* and sem() of shell/xsh_process_ring.c): the command creates the         *)
(* elements and waits for them. The polling variant is not modelled: its   *)
(* command returns while the elements still use its frame.                 *)
(***************************************************************************)
EXTENDS Semas

CONSTANTS RgElements,   \* the processes of sem_function, in the order of their creation
          RgCommand,    \* the process of sem(), another one
          RgRounds

ASSUME RingAssumption ==
  /\ RgElements \in Seq(Procs) /\ Len(RgElements) > 0 /\ RgCommand \notin Procs /\ RgRounds \in Nat
  /\ \A i, j \in 1 .. Len(RgElements) : RgElements[i] = RgElements[j] => i = j

VARIABLES rgsem, rgdone,  \* semarray and done_sem, NoSema once deleted
          globalarray,
          rgproc,         \* [element -> where it is, index, rounds_local, value]
          rgcmd,          \* elements created, and semaphores waited for and deleted
          rglast,         \* the value printed last
          rgorder         \* each printed value was one less than the one before

rgvars == <<rgsem, rgdone, globalarray, rgproc, rgcmd, rglast, rgorder>>

RgSize == Len(RgElements)
RgIndices == 0 .. RgSize - 1
RgElement(k) == RgElements[k + 1]
RgFirst == RgSize * RgRounds - 1
NoSema == [n |-> 1, q |-> <<>>]   \* wait and signal on it return at once

(* sem() up to its loops *)
RgInit == /\ rgsem = [k \in RgIndices |-> Sema(IF k = 0 THEN 1 ELSE 0)]
          /\ rgdone = [k \in RgIndices |-> Sema(0)]
          /\ globalarray = [k \in RgIndices |-> IF k = 0 THEN RgFirst ELSE -1]
          /\ rgproc = [k \in RgIndices |-> [at |-> "none", index |-> k, rounds |-> 0, value |-> 0]]
          /\ rgcmd = [created |-> 0, waiting |-> FALSE, deleted |-> 0]
          /\ rglast = RgFirst + 1 /\ rgorder = TRUE

RgDeleted(k) == k < rgcmd.deleted
RgDown(sems, k, p) == IF RgDeleted(k) THEN sems ELSE [sems EXCEPT ![k] = Down(@, p)]
RgUp(sems, k) == IF RgDeleted(k) THEN sems ELSE [sems EXCEPT ![k] = Up(@)]

RgBlocked(p) == \E k \in RgIndices : p \in Waiters(rgsem[k]) \cup Waiters(rgdone[k])

(* the test of the loop, and the wait or the last signal behind it *)
RgTest(k) ==
  LET x == rgproc[k] IN
  /\ x.at = "test"
  /\ IF x.rounds < RgRounds /\ x.value >= 0
     THEN /\ rgsem' = RgDown(rgsem, x.index, RgElement(k)) /\ UNCHANGED rgdone
          /\ rgproc' = [rgproc EXCEPT ![k].at = "take"]
     ELSE /\ rgdone' = RgUp(rgdone, x.index) /\ UNCHANGED rgsem
          /\ rgproc' = [rgproc EXCEPT ![k].at = "gone"]
  /\ UNCHANGED <<globalarray, rgcmd, rglast, rgorder>>

(* the value is read and printed *)
RgTake(k) ==
  LET v == globalarray[rgproc[k].index] IN
  /\ rgproc[k].at = "take" /\ ~RgBlocked(RgElement(k))
  /\ rgproc' = [rgproc EXCEPT ![k].at = "pass", ![k].value = v - 1]
  /\ rglast' = v /\ rgorder' = (rgorder /\ v = rglast - 1)
  /\ UNCHANGED <<rgsem, rgdone, globalarray, rgcmd>>

BugRgTurn(k) == [rgproc[k] EXCEPT !.at = "test", !.index = @ + 1]

(* the index moves on around the ring *)
RgTurn(k) == IF rgproc[k].index = RgSize - 1
             THEN [rgproc[k] EXCEPT !.at = "test", !.index = 0, !.rounds = @ + 1]
             ELSE [rgproc[k] EXCEPT !.at = "test", !.index = @ + 1]

RgPass(k) ==
  /\ rgproc[k].at = "pass"
  /\ rgproc' = [rgproc EXCEPT ![k] = RgTurn(k)]
  /\ globalarray' = [globalarray EXCEPT ![RgTurn(k).index] = rgproc[k].value]
  /\ rgsem' = RgUp(rgsem, RgTurn(k).index)
  /\ UNCHANGED <<rgdone, rgcmd, rglast, rgorder>>

(* The value of an element is not set before it is tested: any number may   *)
(* be there.                                                                *)
RgCreate == /\ rgcmd.created < RgSize
            /\ rgcmd' = [rgcmd EXCEPT !.created = @ + 1]
            /\ \E v \in {-1, RgFirst} :
                 rgproc' = [rgproc EXCEPT ![rgcmd.created].at = "test", ![rgcmd.created].value = v]
            /\ UNCHANGED <<rgsem, rgdone, globalarray, rglast, rgorder>>

(* the loop at the end of sem(): wait, then delete two semaphores. Who      *)
(* waits on them goes on.                                                   *)
RgWait == /\ rgcmd.created = RgSize /\ ~rgcmd.waiting /\ rgcmd.deleted < RgSize
          /\ rgcmd' = [rgcmd EXCEPT !.waiting = TRUE]
          /\ rgdone' = [rgdone EXCEPT ![rgcmd.deleted] = Down(@, RgCommand)]
          /\ UNCHANGED <<rgsem, globalarray, rgproc, rglast, rgorder>>

RgDelete == /\ rgcmd.waiting /\ ~RgBlocked(RgCommand)
            /\ rgcmd' = [rgcmd EXCEPT !.waiting = FALSE, !.deleted = @ + 1]
            /\ rgsem' = [rgsem EXCEPT ![rgcmd.deleted] = NoSema]
            /\ rgdone' = [rgdone EXCEPT ![rgcmd.deleted] = NoSema]
            /\ UNCHANGED <<globalarray, rgproc, rglast, rgorder>>

(* when the command has returned, the arrays are no longer there *)
RgNext == /\ rgcmd.deleted < RgSize
          /\ \/ \E k \in RgIndices : RgTest(k) \/ RgTake(k) \/ RgPass(k)
             \/ RgCreate \/ RgWait \/ RgDelete

RgSpec == RgInit /\ [][RgNext]_rgvars

-----------------------------------------------------------------------------

RgTypeOK == /\ \A k \in RgIndices : SemaOK(rgsem[k]) /\ SemaOK(rgdone[k])
            /\ \A k \in RgIndices : rgproc[k].index \in RgIndices /\ rgproc[k].rounds \in 0 .. RgRounds

(* As long as the command has deleted nothing, one element at a time has   *)
(* the turn, and the ring counts down without leaving a number out.        *)
RgCountsDown ==
  rgcmd.deleted = 0 =>
    LET holders == {k \in RgIndices : rgproc[k].at = "pass" \/ (rgproc[k].at = "take"
                                                                /\ ~RgBlocked(RgElement(k)))}
        free == {k \in RgIndices : Available(rgsem[k]) = 1} IN
    /\ rgorder
    /\ Cardinality(holders) + Cardinality(free) = 1
    /\ \A k \in RgIndices : Available(rgsem[k]) <= 1

=============================================================================
