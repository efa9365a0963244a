-------------------------------- MODULE Mark --------------------------------
(***************************************************************************)
(* Marks (mark.c): a table of the locations that were initialised at run   *)
(* time; a marked location holds its index. mark runs with interrupts      *)
(* enabled and takes a semaphore only for the assignment.                  *)
(***************************************************************************)
EXTENDS Semas

CONSTANTS MAXMARK,   \* entries of marks
          Locations  \* what is marked

ASSUME MarkAssumption == MAXMARK \in Nat \ {0}

VARIABLES marks, nmarks, index, mkmutex, mkat

mkvars == <<marks, nmarks, index, mkmutex, mkat>>

MkNone == [at |-> "user", loc |-> "none"]

(* markinit; an entry behind the table belongs to something else *)
MkInit ==
  /\ marks = [i \in 0 .. MAXMARK + Cardinality(Procs) - 1 |-> "none"]
  /\ nmarks = 0
  /\ index = [l \in Locations |-> -1]
  /\ mkmutex = Sema(1)
  /\ mkat = [p \in Procs |-> MkNone]

MkRuns(p, at) == mkat[p].at = at /\ p \notin Waiters(mkmutex)

MkGoto(p, at) == mkat' = [mkat EXCEPT ![p].at = at]

(* !notmarked(loc) *)
IsMarked(l) == index[l] \in 0 .. nmarks - 1 /\ marks[index[l]] = l

MkTest(p, l) ==
  /\ MkRuns(p, "user") /\ ~IsMarked(l)
  /\ nmarks < MAXMARK
  /\ mkat' = [mkat EXCEPT ![p] = [at |-> "wait", loc |-> l]]
  /\ UNCHANGED <<marks, nmarks, index, mkmutex>>

BugMkWait(p) == MkRuns(p, "wait") /\ MkGoto(p, "mark")
                /\ UNCHANGED <<marks, nmarks, index, mkmutex>>
MkWait(p) ==
  /\ MkRuns(p, "wait")
  /\ mkmutex' = Down(mkmutex, p)
  /\ MkGoto(p, "mark")
  /\ UNCHANGED <<marks, nmarks, index>>

(* marks[ *loc = nmarks++ ] = loc, in two steps: interrupts are enabled *)
MkCount(p) ==
  /\ MkRuns(p, "mark")
  /\ index' = [index EXCEPT ![mkat[p].loc] = nmarks]
  /\ MkGoto(p, "count")
  /\ UNCHANGED <<marks, nmarks, mkmutex>>

MkStore(p) ==
  /\ MkRuns(p, "count")
  /\ nmarks' = nmarks + 1
  /\ marks' = [marks EXCEPT ![nmarks] = mkat[p].loc]
  /\ MkGoto(p, "signal")
  /\ UNCHANGED <<index, mkmutex>>

MkSignal(p) ==
  /\ MkRuns(p, "signal")
  /\ mkmutex' = Up(mkmutex)
  /\ MkGoto(p, "user")
  /\ UNCHANGED <<marks, nmarks, index>>

MkNext == \E p \in Procs : \/ \E l \in Locations : MkTest(p, l)
                           \/ MkWait(p) \/ MkCount(p) \/ MkStore(p) \/ MkSignal(p)

MkSpec == MkInit /\ [][MkNext]_mkvars

-----------------------------------------------------------------------------

MkTypeOK == nmarks \in Nat /\ index \in [Locations -> -1 .. MAXMARK + Cardinality(Procs)]
            /\ SemaOK(mkmutex)

(* While nobody is between the two semaphore calls every location that was *)
(* ever marked is found marked, also if two processes marked it at once;   *)
(* and although the bound on the table is tested before the semaphore is   *)
(* taken, it is passed by at most one entry for every caller but one.      *)
MkMarksStay ==
  /\ mkmutex.n = 1 => \A l \in Locations : index[l] # -1 => IsMarked(l)
  /\ nmarks <= MAXMARK + Cardinality(Procs) - 1
=============================================================================
