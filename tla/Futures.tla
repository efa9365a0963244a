------------------------------ MODULE Futures ------------------------------
(***************************************************************************)
(* Futures (future*.c): a cell that one process sets and others get. In    *)
(* the exclusive mode the cell remembers one waiting process, in the       *)
(* shared mode it has a queue of them, and in the queue mode a second      *)
(* queue holds processes that came to set it. Waiting does not use the     *)
(* semaphores: a process sets its own state to PR_WAIT.                    *)
(***************************************************************************)
EXTENDS Integers, Sequences, FiniteSets

CONSTANTS Producers, Consumers,  \* processes that call future_set, future_get, once each
          FutureModes            \* modes future_alloc is called with

Nobody == "nobody"

ASSUME FuturesAssumption == /\ FutureModes \subseteq {"exclusive", "shared", "queue"}
                            /\ Nobody \notin Producers \cup Consumers
                            /\ Producers \cap Consumers = {}

VARIABLES future,   \* the cell, mode "none" before future_alloc
          ftat,     \* where each process is
          ftwait,   \* the processes whose state is PR_WAIT
          ftgot,    \* what future_get has stored for its caller
          ftbroken  \* a list was broken: an entry was linked that is linked already

ftvars == <<future, ftat, ftwait, ftgot, ftbroken>>

FtProcs == Producers \cup Consumers

FtInit ==
  /\ future = [mode |-> "none", state |-> "empty", value |-> Nobody, pid |-> Nobody,
               setq |-> <<>>, getq |-> <<>>]
  /\ ftat = [p \in FtProcs |-> "start"]
  /\ ftwait = {}
  /\ ftgot = [p \in Consumers |-> Nobody]
  /\ ftbroken = FALSE

(* An eligible process; nothing is modelled behind a broken list. *)
FtRuns(p, at) == ~ftbroken /\ p \notin ftwait /\ ftat[p] = at

FtGoto(p, at) == ftat' = [ftat EXCEPT ![p] = at]

FutureAlloc(m) ==
  /\ future.mode = "none"
  /\ future' = [future EXCEPT !.mode = m]
  /\ UNCHANGED <<ftat, ftwait, ftgot, ftbroken>>

(* Those of ps that ready() finds in the process table: for the -1 of an   *)
(* unused cell, and for a process that has exited, it returns SYSERR.      *)
InTable(ps) == {p \in ps \ {Nobody} : ftat[p] # "exited"}

(* ready(p) for every p of ps; whoever is not waiting is linked twice *)
FtReady(ps) == /\ ftwait' = ftwait \ InTable(ps)
               /\ ftbroken' = (ftbroken \/ ~(InTable(ps) \subseteq ftwait))

FtFirst(q) == IF q = <<>> THEN {} ELSE {Head(q)}
FtRest(q) == IF q = <<>> THEN q ELSE Tail(q)

FtBlock(p, at) == ftwait' = ftwait \cup {p} /\ FtGoto(p, at) /\ UNCHANGED ftbroken

(* future_get of an empty cell. In the queue mode it may find a process     *)
(* that came to set the cell, which future_signal makes ready. Unless the  *)
(* caller keeps the processor there, and waits in future_wait, resched     *)
(* links it on the ready list while its entry is in the queue of the cell. *)
GetEmpty(p) ==
  /\ FtRuns(p, "start") \/ FtRuns(p, "again")
  /\ future.state = "empty"
  /\ \/ /\ future.mode = "exclusive"
        /\ future' = [future EXCEPT !.state = "waiting", !.pid = IF @ = Nobody THEN p ELSE @]
        /\ FtBlock(p, "exclusive")
     \/ /\ future.mode = "shared"
        /\ future' = [future EXCEPT !.state = "waiting", !.getq = Append(@, p)]
        /\ FtBlock(p, "shared")
     \/ /\ future.mode = "queue" /\ future.setq = <<>>
        /\ future' = [future EXCEPT !.getq = Append(@, p)]
        /\ FtBlock(p, "again")
     \/ /\ future.mode = "queue" /\ future.setq # <<>>
        /\ future' = [future EXCEPT !.getq = Append(@, p), !.setq = Tail(@)]
        /\ ftwait' = (ftwait \ {Head(future.setq)}) \cup {p}
        /\ FtGoto(p, "again")
        /\ ftbroken' \in BOOLEAN
  /\ UNCHANGED ftgot

GetReady(p) ==
  /\ FtRuns(p, "start") \/ FtRuns(p, "again")
  /\ future.state = "ready"
  /\ ftgot' = [ftgot EXCEPT ![p] = future.value]
  /\ future' = [future EXCEPT !.state = "empty"]
  /\ FtGoto(p, "done")
  /\ UNCHANGED <<ftwait, ftbroken>>

(* future_get of a cell somebody waits for: SYSERR, or one more who waits *)
GetWaiting(p) ==
  /\ FtRuns(p, "start") /\ future.state = "waiting"
  /\ \/ /\ future.mode = "exclusive"
        /\ FtGoto(p, "done")
        /\ UNCHANGED <<future, ftwait, ftbroken>>
     \/ /\ future.mode = "shared"
        /\ future' = [future EXCEPT !.getq = Append(@, p)]
        /\ FtBlock(p, "shared")
  /\ UNCHANGED ftgot

(* future_get behind its wait *)
GetResume(p) ==
  /\ FtRuns(p, "exclusive") \/ FtRuns(p, "shared")
  /\ ftgot' = [ftgot EXCEPT ![p] = future.value]
  /\ future' = IF ftat[p] = "exclusive" THEN [future EXCEPT !.state = "empty"] ELSE future
  /\ FtGoto(p, "done")
  /\ UNCHANGED <<ftwait, ftbroken>>

BugWhoWaits == IF future.mode = "exclusive" THEN {future.pid} ELSE FtFirst(future.getq)
(* whom future_set makes ready once it has stored the value *)
WhoWaits ==
  CASE future.mode = "exclusive" -> {future.pid}
    [] future.mode = "shared" -> {future.getq[i] : i \in DOMAIN future.getq}
    [] OTHER -> FtFirst(future.getq)

FtStore(p) ==
  /\ future' = [future EXCEPT !.value = p, !.state = "ready",
                  !.getq = IF future.mode = "shared" THEN <<>> ELSE FtRest(@)]
  /\ FtReady(WhoWaits)
  /\ FtGoto(p, "done")

(* future_set; in the queue mode it waits for somebody to get the value *)
Set(p) ==
  /\ FtRuns(p, "start") /\ future.mode # "none" /\ future.state # "ready"
  /\ IF future.mode = "queue" /\ future.getq = <<>>
     THEN future' = [future EXCEPT !.setq = Append(@, p)] /\ FtBlock(p, "set")
     ELSE FtStore(p)
  /\ UNCHANGED ftgot

SetResume(p) == FtRuns(p, "set") /\ FtStore(p) /\ UNCHANGED ftgot

(* future_set of a cell that is set: the exclusive mode drops the old value *)
SetReady(p) ==
  /\ FtRuns(p, "start") /\ future.state = "ready"
  /\ future' = IF future.mode = "exclusive" THEN [future EXCEPT !.state = "empty"] ELSE future
  /\ FtGoto(p, "done")
  /\ UNCHANGED <<ftwait, ftgot, ftbroken>>

(* The function the process was created with returns. *)
FtExit(p) ==
  /\ FtRuns(p, "done")
  /\ FtGoto(p, "exited")
  /\ UNCHANGED <<future, ftwait, ftgot, ftbroken>>

FtNext ==
  \/ \E m \in FutureModes : FutureAlloc(m)
  \/ \E p \in Consumers : /\ future.mode # "none"
                          /\ GetEmpty(p) \/ GetReady(p) \/ GetWaiting(p) \/ GetResume(p)
  \/ \E p \in Producers : Set(p) \/ SetResume(p) \/ SetReady(p)
  \/ \E p \in FtProcs : FtExit(p)

FtSpec == FtInit /\ [][FtNext]_ftvars

----------------------------------------------------------------------------

FtTypeOK ==
  /\ future.mode \in {"none"} \cup FutureModes
  /\ future.state \in {"empty", "waiting", "ready"}
  /\ future.value \in Producers \cup {Nobody}
  /\ ftwait \subseteq FtProcs /\ ftgot \in [Consumers -> Producers \cup {Nobody}]

FtQueued == {future.getq[i] : i \in DOMAIN future.getq}

(* As long as the lists are sound, once the cell is set nobody waits for   *)
(* its value, except in one case: the exclusive mode remembers the process *)
(* that waited first and no other, so when that one has exited and another *)
(* waits, future_set wakes nobody. In the queue mode whoever waits is in   *)
(* the queue that is served. Nobody comes out of its wait without a value. *)
FtNoneForgotten == ~ftbroken =>
  /\ future.state = "ready" =>
       /\ future.mode = "shared" => ftwait = {}
       /\ future.mode = "exclusive" /\ ftwait # {} =>
            future.pid # Nobody /\ ftat[future.pid] = "exited"
  /\ future.mode = "queue" =>
       /\ ftwait \cap Consumers = FtQueued
       /\ ftwait \cap Producers = {future.setq[i] : i \in DOMAIN future.setq}
  /\ \A p \in Consumers \ ftwait : ftat[p] \in {"exclusive", "shared"} => future.value # Nobody
============================================================================
