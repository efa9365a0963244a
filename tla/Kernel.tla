------------------------------- MODULE Kernel -------------------------------
(***************************************************************************)
(* The Xinu process manager: scheduler, process creation and termination,  *)
(* semaphores, messages, delays and the clock interrupt.                   *)
(*                                                                         *)
(* A system call runs with interrupts disabled, so nothing happens between *)
(* its entry and its exit except at the points where it calls resched and  *)
(* another process gets the processor.  Each call is therefore one action  *)
(* up to such a point; pc says where a process goes on when it is switched *)
(* back in, and "user" that it runs its own code with interrupts enabled.  *)
(* The loops that release several processes while rescheduling is deferred *)
(* take one step per iteration.                                            *)
(***************************************************************************)
EXTENDS Queues, FiniteSets

CONSTANTS
  NPROC,      \* entries of the process table
  NSEM,       \* entries of the semaphore table
  NSTACK,     \* the stack blocks the memory has room for
  InitPrio,   \* INITPRIO, the priority of the main process
  Prios,      \* the priorities passed to create
  NewPrios,   \* the priorities passed to chprio
  Delays,     \* the unsigned delays passed to sleepms
  Waits,      \* the waiting times passed to recvtime
  Counts,     \* the counts passed to semcreate, semreset and signaln
  Messages,   \* the messages passed to send
  Calls,      \* the system calls the programs make
  Platform,   \* which clkhandler.c is linked in
  QUANTUM,    \* time slice in ticks
  SIGN,       \* the least unsigned value that is negative as an int32 (2^31)
  MaxCount    \* bound on semaphore counts

ASSUME TableAssumption == NPROC \in Nat /\ NPROC >= 2 /\ NSEM \in Nat
ASSUME PrioAssumption  == InitPrio \in Nat \ {0} /\ Prios \subseteq Int /\ NewPrios \subseteq Int
ASSUME DelayAssumption == Delays \subseteq Nat /\ Waits \subseteq Int /\ SIGN \in Nat \ {0}
ASSUME CountAssumption == Counts \subseteq Int /\ MaxCount \in Nat
ASSUME ClockAssumption == Platform \in {"arm-qemu", "arm-bbb"} /\ QUANTUM \in Nat \ {0}
ASSUME StackAssumption == NSTACK \in Nat /\ NSTACK >= 2

Pids     == 0 .. NPROC - 1
Sems     == 0 .. NSEM - 1
NULLPROC == 0
EMPTY    == -1
Stacks   == 1 .. NSTACK           \* in order of address; 0 is NULL
Mails    == Messages \cup Pids      \* a parent is sent the ID of its dead child

VARIABLES
  prstate, prprio, prsem, prparent, prhasmsg, prmsg, prstk,  \* proctab
  readylist, sleepq, qkey,              \* two of the queues and queuetab's keys
  sstate, scount, squeue, nextsem,      \* semtab
  currpid, prcount, nextpid, preempt,
  ndefers, attempt,                     \* Defer
  stkfree,                              \* the stack blocks not handed out
  halted,                               \* xdone has stopped the processor
  pc, arg                               \* where each process is in the kernel

sched == <<prstate, readylist, qkey, currpid, preempt, attempt>>
ident == <<prprio, prparent, prstk, stkfree, prcount, nextpid, halted>>
sems  == <<sstate, scount, squeue, nextsem, prsem>>
msgs  == <<prhasmsg, prmsg>>
where == <<pc, arg>>
vars  == <<sched, ident, sems, msgs, where, sleepq, ndefers>>

\* A value stored in an int32: an unsigned delay above 2^31 is a negative key,
\* and a key counted down below the least integer wraps around.
Int32(x) == LET u == x % (2 * SIGN) IN IF u < SIGN THEN u ELSE u - 2 * SIGN

NoArg == [id |-> 0, n |-> 0]
States == {"PR_FREE", "PR_CURR", "PR_READY", "PR_RECV",
           "PR_SLEEP", "PR_SUSP", "PR_WAIT", "PR_RECTIM"}
Points == {"user", "receive", "recvtime", "kill", "signaln",
           "semdelete", "semreset", "wakeup", "preempt"}

(* Definitions whose names begin with Bug are not part of the model: each is *)
(* a definition that follows it with a plausible error, kept to show that    *)
(* the properties would notice.                                              *)

isbadpid(pid) == pid \notin Pids \/ prstate[pid] = "PR_FREE"

\* A process that may be neither killed nor suspended.
BugRefused(pid) == isbadpid(pid)
Refused(pid) == isbadpid(pid) \/ pid = NULLPROC

\* The index at which newpid and newsem go on next time.
BugNextSlot(i, n) == i + 1
NextSlot(i, n) == (i + 1) % n

-----------------------------------------------------------------------------
(* Scheduling.  The operators take the values prstate, the ready list and  *)
(* the keys have when the C function is called.                            *)

\* resched once it is known not to be deferred; slice is the value preempt
\* keeps if the current process goes on.
Dispatch(st, rl, key, slice) ==
  LET eligible == st[currpid] = "PR_CURR"
      keeps    == eligible /\ (rl = <<>> \/ prprio[currpid] > key[rl[1]])
      rl1      == IF eligible THEN Insert(rl, key, currpid, prprio[currpid]) ELSE rl
      st1      == IF eligible THEN [st EXCEPT ![currpid] = "PR_READY"] ELSE st
      key1     == IF eligible THEN [key EXCEPT ![currpid] = prprio[currpid]] ELSE key
  IN  IF keeps
      THEN /\ prstate' = st /\ readylist' = rl /\ qkey' = key
           /\ preempt' = slice
           /\ UNCHANGED currpid
      ELSE /\ currpid' = rl1[1]
           /\ prstate' = [st1 EXCEPT ![rl1[1]] = "PR_CURR"]
           /\ readylist' = Tail(rl1)
           /\ qkey' = key1
           /\ preempt' = QUANTUM

\* resched
BugResched(st, rl, key) == Dispatch(st, rl, key, preempt) /\ UNCHANGED attempt
Resched(st, rl, key) ==
  IF ndefers > 0
  THEN /\ attempt' = TRUE
       /\ prstate' = st /\ readylist' = rl /\ qkey' = key
       /\ UNCHANGED <<currpid, preempt>>
  ELSE Dispatch(st, rl, key, preempt) /\ UNCHANGED attempt

\* ready
BugReady(pid, key) ==
  /\ prstate' = [prstate EXCEPT ![pid] = "PR_READY"]
  /\ readylist' = Insert(readylist, key, pid, prprio[pid])
  /\ qkey' = [key EXCEPT ![pid] = prprio[pid]]
  /\ UNCHANGED <<currpid, preempt, attempt>>
Ready(pid, key) ==
  IF isbadpid(pid)
  THEN qkey' = key /\ UNCHANGED <<prstate, readylist, currpid, preempt, attempt>>
  ELSE Resched([prstate EXCEPT ![pid] = "PR_READY"],
               Insert(readylist, key, pid, prprio[pid]),
               [key EXCEPT ![pid] = prprio[pid]])

\* resched_cntl(DEFER_START)
DeferStart ==
  /\ ndefers' = ndefers + 1
  /\ attempt' = IF ndefers = 0 THEN FALSE ELSE attempt

\* resched_cntl(DEFER_STOP)
BugDeferStop == ndefers' = ndefers - 1 /\ UNCHANGED sched
DeferStop ==
  /\ ndefers' = IF ndefers <= 0 THEN ndefers ELSE ndefers - 1
  /\ IF ndefers = 1 /\ attempt
     THEN Dispatch(prstate, readylist, qkey, preempt) /\ UNCHANGED attempt
     ELSE UNCHANGED sched

\* The current process, not the null process, makes system call c.
Program(c) ==
  /\ ~halted
  /\ c \in Calls
  /\ currpid # NULLPROC
  /\ pc[currpid] = "user"

\* The current process goes on inside the kernel at point c.
Inside(c) == ~halted /\ pc[currpid] = c

GoTo(c, a) == pc' = [pc EXCEPT ![currpid] = c] /\ arg' = [arg EXCEPT ![currpid] = a]
Return == GoTo("user", NoArg)

-----------------------------------------------------------------------------
(* Processes: create, resume, suspend, yield, chprio, kill                 *)

\* newpid: the first free entry at or after nextpid, which ends one beyond it.
BugFreePids == {p \in Pids : prstate[p] \in {"PR_FREE", "PR_SUSP"}}
FreePids == {p \in Pids : prstate[p] = "PR_FREE"}
Newpid ==
  LET dist(p) == (p - nextpid) % NPROC
  IN  CHOOSE p \in FreePids : \A r \in FreePids : dist(p) <= dist(r)

\* getstk: the last block that fits.
BugGetstk == CHOOSE s \in Stacks : \A t \in Stacks : t <= s
Getstk == CHOOSE s \in stkfree : \A t \in stkfree : t <= s

\* create.  The stack is allocated first; when newpid fails or the priority is
\* refused, the block is not given back.
Create(prio) ==
  /\ Program("create")
  /\ stkfree # {}
  /\ stkfree' = stkfree \ {Getstk}
  /\ nextpid' = IF FreePids = {} THEN nextpid ELSE NextSlot(Newpid, NPROC)
  /\ IF FreePids = {} \/ prio < 1
     THEN UNCHANGED <<prcount, prstate, prprio, prstk, prsem, prparent, prhasmsg>>
     ELSE /\ prcount' = prcount + 1
          /\ prstate' = [prstate EXCEPT ![Newpid] = "PR_SUSP"]
          /\ prprio' = [prprio EXCEPT ![Newpid] = prio]
          /\ prstk' = [prstk EXCEPT ![Newpid] = Getstk]
          /\ prsem' = [prsem EXCEPT ![Newpid] = -1]
          /\ prparent' = [prparent EXCEPT ![Newpid] = currpid]
          /\ prhasmsg' = [prhasmsg EXCEPT ![Newpid] = FALSE]
  /\ UNCHANGED <<readylist, qkey, currpid, preempt, attempt, halted, sstate, scount,
                 squeue, nextsem, prmsg, where, sleepq, ndefers>>

\* resume
Resume(pid) ==
  /\ Program("resume")
  /\ prstate[pid] = "PR_SUSP"
  /\ Ready(pid, qkey)
  /\ UNCHANGED <<ident, sems, msgs, where, sleepq, ndefers>>

\* suspend
Suspend(pid) ==
  /\ Program("suspend")
  /\ ~Refused(pid)
  /\ \/ /\ prstate[pid] = "PR_READY"
        /\ readylist' = GetItem(readylist, pid)
        /\ prstate' = [prstate EXCEPT ![pid] = "PR_SUSP"]
        /\ UNCHANGED <<qkey, currpid, preempt, attempt>>
     \/ /\ prstate[pid] = "PR_CURR"
        /\ Resched([prstate EXCEPT ![pid] = "PR_SUSP"], readylist, qkey)
  /\ UNCHANGED <<ident, sems, msgs, where, sleepq, ndefers>>

\* yield
Yield ==
  /\ Program("yield")
  /\ Resched(prstate, readylist, qkey)
  /\ UNCHANGED <<ident, sems, msgs, where, sleepq, ndefers>>

\* chprio
Chprio(pid, newprio) ==
  /\ Program("chprio")
  /\ ~isbadpid(pid)
  /\ prprio' = [prprio EXCEPT ![pid] = newprio]
  /\ UNCHANGED <<sched, prparent, prstk, stkfree, prcount, nextpid, halted, sems, msgs,
                 where, sleepq, ndefers>>

\* send, once called: the recipient's message buffer, its state and whatever
\* ready does.
BugUndeliverable(pid) == isbadpid(pid)
Undeliverable(pid) == isbadpid(pid) \/ prhasmsg[pid]
Deliver(pid, msg) ==
  IF Undeliverable(pid)
  THEN UNCHANGED <<sched, msgs, sleepq>>
  ELSE /\ prmsg' = [prmsg EXCEPT ![pid] = msg]
       /\ prhasmsg' = [prhasmsg EXCEPT ![pid] = TRUE]
       /\ \/ /\ prstate[pid] = "PR_RECV"
             /\ Ready(pid, qkey)
             /\ UNCHANGED sleepq
          \/ /\ prstate[pid] = "PR_RECTIM"
             /\ sleepq' = GetItem(sleepq, pid)
             /\ Ready(pid, UnsleepKeys(sleepq, qkey, pid))
          \/ /\ prstate[pid] \notin {"PR_RECV", "PR_RECTIM"}
             /\ UNCHANGED <<sched, sleepq>>

\* kill's test for the last user process, the null process being counted too
BugLastProcess(count) == count <= 2
LastProcess(count) == count <= 1

\* kill up to and including send(prparent, pid), where the parent may take the
\* processor; xdone never returns.  exit, and userret, where a process ends up
\* when its main function returns, are the process killing itself.
Kill(pid) ==
  /\ Program("kill") \/ (pid = currpid /\ Program("exit"))
  /\ ~Refused(pid)
  /\ prcount' = prcount - 1
  /\ \/ /\ LastProcess(prcount')
        /\ halted' = TRUE
        /\ UNCHANGED <<sched, msgs, sleepq, where>>
     \/ /\ ~LastProcess(prcount')
        /\ Deliver(prparent[pid], pid)
        /\ GoTo("kill", [id |-> pid, n |-> 0])
        /\ UNCHANGED halted
  /\ UNCHANGED <<prprio, prparent, prstk, stkfree, nextpid, sems, ndefers>>

\* kill from freestk on, with the state the victim is in by then.
KillFinish ==
  LET v    == arg[currpid].id
      gone == [prstate EXCEPT ![v] = "PR_FREE"]
      out  == [p \in Pids |-> IF p \in {currpid, v} THEN "user" ELSE pc[p]]
  IN  /\ Inside("kill")
      /\ stkfree' = stkfree \cup {prstk[v]}
      /\ pc' = out
      /\ arg' = [arg EXCEPT ![currpid] = NoArg, ![v] = NoArg]
      /\ \/ /\ prstate[v] = "PR_CURR"
            /\ Resched(gone, readylist, qkey)
            /\ UNCHANGED <<sleepq, scount, squeue>>
         \/ /\ prstate[v] \in {"PR_SLEEP", "PR_RECTIM"}
            /\ sleepq' = GetItem(sleepq, v)
            /\ qkey' = UnsleepKeys(sleepq, qkey, v)
            /\ prstate' = gone
            /\ UNCHANGED <<readylist, currpid, preempt, attempt, scount, squeue>>
         \/ /\ prstate[v] = "PR_WAIT"
            /\ scount' = [scount EXCEPT ![prsem[v]] = @ + 1]
            /\ squeue' = [squeue EXCEPT ![prsem[v]] = GetItem(@, v)]
            /\ prstate' = gone
            /\ UNCHANGED <<readylist, qkey, currpid, preempt, attempt, sleepq>>
         \/ /\ prstate[v] = "PR_READY"
            /\ readylist' = GetItem(readylist, v)
            /\ prstate' = gone
            /\ UNCHANGED <<qkey, currpid, preempt, attempt, sleepq, scount, squeue>>
         \/ /\ prstate[v] \in {"PR_SUSP", "PR_RECV", "PR_FREE"}
            /\ prstate' = gone
            /\ UNCHANGED <<readylist, qkey, currpid, preempt, attempt, sleepq, scount, squeue>>
      /\ UNCHANGED <<prprio, prparent, prstk, prcount, nextpid, halted, sstate, nextsem,
                     prsem, msgs, ndefers>>

-----------------------------------------------------------------------------
(* Semaphores                                                              *)

\* newsem: the first free entry at or after nextsem.
FreeSems == {s \in Sems : sstate[s] = "S_FREE"}
Newsem ==
  LET dist(s) == (s - nextsem) % NSEM
  IN  CHOOSE s \in FreeSems : \A r \in FreeSems : dist(s) <= dist(r)

\* semcreate.  The queue of the entry is taken as it was left.
Semcreate(count) ==
  /\ Program("semcreate")
  /\ count >= 0
  /\ FreeSems # {}
  /\ sstate' = [sstate EXCEPT ![Newsem] = "S_USED"]
  /\ scount' = [scount EXCEPT ![Newsem] = count]
  /\ nextsem' = NextSlot(Newsem, NSEM)
  /\ UNCHANGED <<sched, ident, squeue, prsem, msgs, where, sleepq, ndefers>>

\* ready(dequeue(squeue)) or ready(getfirst(squeue))
ReadyFirst(s) ==
  IF squeue[s] = <<>>
  THEN Ready(EMPTY, qkey) /\ UNCHANGED squeue
  ELSE Ready(squeue[s][1], qkey) /\ squeue' = [squeue EXCEPT ![s] = Tail(@)]

\* The count says that a process waits.
BugHasWaiter(s) == scount[s] < -1
HasWaiter(s) == scount[s] < 0

\* scount++ < 0, and the release of a process if so
Release(s) ==
  /\ scount' = [scount EXCEPT ![s] = @ + 1]
  /\ IF HasWaiter(s) THEN ReadyFirst(s) ELSE UNCHANGED <<sched, squeue>>

\* wait
Wait(s) ==
  /\ Program("wait")
  /\ sstate[s] = "S_USED"
  /\ scount' = [scount EXCEPT ![s] = @ - 1]
  /\ IF scount'[s] < 0
     THEN /\ prsem' = [prsem EXCEPT ![currpid] = s]
          /\ squeue' = [squeue EXCEPT ![s] = Enqueue(@, currpid)]
          /\ Resched([prstate EXCEPT ![currpid] = "PR_WAIT"], readylist, qkey)
     ELSE UNCHANGED <<prsem, squeue, sched>>
  /\ UNCHANGED <<ident, sstate, nextsem, msgs, where, sleepq, ndefers>>

\* signal
Signal(s) ==
  /\ Program("signal")
  /\ sstate[s] = "S_USED"
  /\ scount[s] < MaxCount
  /\ Release(s)
  /\ UNCHANGED <<ident, sstate, nextsem, prsem, msgs, where, sleepq, ndefers>>

\* A call that defers rescheduling while it works on semaphore s, and its end.
StartLoop(c, s, n) ==
  /\ DeferStart
  /\ GoTo(c, [id |-> s, n |-> n])
  /\ UNCHANGED <<prstate, readylist, qkey, currpid, preempt>>
EndLoop == DeferStop /\ Return

\* signaln, and one iteration of its loop or its end
Signaln(s, count) ==
  /\ Program("signaln")
  /\ count >= 0
  /\ sstate[s] = "S_USED"
  /\ scount[s] + count <= MaxCount
  /\ StartLoop("signaln", s, count)
  /\ UNCHANGED <<ident, sems, msgs, sleepq>>

SignalnLoop ==
  LET a == arg[currpid]
  IN  /\ Inside("signaln")
      /\ \/ /\ a.n > 0
            /\ Release(a.id)
            /\ GoTo("signaln", [a EXCEPT !.n = @ - 1])
            /\ UNCHANGED ndefers
         \/ a.n = 0 /\ EndLoop /\ UNCHANGED <<scount, squeue>>
      /\ UNCHANGED <<ident, sstate, nextsem, prsem, msgs, sleepq>>

\* semdelete, and one iteration of its loop or its end
Semdelete(s) ==
  /\ Program("semdelete")
  /\ sstate[s] = "S_USED"
  /\ sstate' = [sstate EXCEPT ![s] = "S_FREE"]
  /\ StartLoop("semdelete", s, 0)
  /\ UNCHANGED <<ident, scount, squeue, nextsem, prsem, msgs, sleepq>>

SemdeleteLoop ==
  LET s == arg[currpid].id
  IN  /\ Inside("semdelete")
      /\ scount' = [scount EXCEPT ![s] = @ + 1]
      /\ \/ HasWaiter(s) /\ ReadyFirst(s) /\ UNCHANGED <<ndefers, where>>
         \/ ~HasWaiter(s) /\ EndLoop /\ UNCHANGED squeue
      /\ UNCHANGED <<ident, sstate, nextsem, prsem, msgs, sleepq>>

\* semreset, and one iteration of its loop or its end
Semreset(s, count) ==
  /\ Program("semreset")
  /\ count >= 0
  /\ sstate[s] = "S_USED"
  /\ StartLoop("semreset", s, count)
  /\ UNCHANGED <<ident, sems, msgs, sleepq>>

SemresetLoop ==
  LET a == arg[currpid]
  IN  /\ Inside("semreset")
      /\ \/ /\ squeue[a.id] # <<>>
            /\ ReadyFirst(a.id)
            /\ UNCHANGED <<scount, ndefers, where>>
         \/ /\ squeue[a.id] = <<>>
            /\ scount' = [scount EXCEPT ![a.id] = a.n]
            /\ EndLoop
            /\ UNCHANGED squeue
      /\ UNCHANGED <<ident, sstate, nextsem, prsem, msgs, sleepq>>

-----------------------------------------------------------------------------
(* Messages and delays                                                     *)

\* send
Send(pid, msg) ==
  /\ Program("send")
  /\ ~isbadpid(pid)
  /\ Deliver(pid, msg)
  /\ UNCHANGED <<ident, sems, where, ndefers>>

\* receive, recvtime and recvclr, a message being there
Receive ==
  /\ Program("receive")
  /\ prhasmsg[currpid]
  /\ prhasmsg' = [prhasmsg EXCEPT ![currpid] = FALSE]
  /\ UNCHANGED <<sched, ident, sems, prmsg, where, sleepq, ndefers>>

\* receive up to resched, no message being there
BugReceiveBlock ==
  /\ Program("receive")
  /\ GoTo("receive", NoArg)
  /\ Resched([prstate EXCEPT ![currpid] = "PR_RECV"], readylist, qkey)
  /\ UNCHANGED <<ident, sems, msgs, sleepq, ndefers>>
ReceiveBlock ==
  /\ Program("receive")
  /\ ~prhasmsg[currpid]
  /\ GoTo("receive", NoArg)
  /\ Resched([prstate EXCEPT ![currpid] = "PR_RECV"], readylist, qkey)
  /\ UNCHANGED <<ident, sems, msgs, sleepq, ndefers>>

\* receive from resched on, which takes the message without looking again, and
\* recvtime from resched on: whatever is there by now, message or not, the
\* flag is off when the call returns.
TakeMessage ==
  /\ Inside("receive") \/ Inside("recvtime")
  /\ prhasmsg' = [prhasmsg EXCEPT ![currpid] = FALSE]
  /\ Return
  /\ UNCHANGED <<sched, ident, sems, prmsg, sleepq, ndefers>>

\* insertd(currpid, sleepq, delay), the state st and resched
Doze(st, delay) ==
  /\ sleepq' = Insertd(sleepq, qkey, currpid, delay)
  /\ Resched([prstate EXCEPT ![currpid] = st], readylist,
             InsertdKeys(sleepq, qkey, currpid, delay))

\* recvtime up to resched, no message being there
RecvtimeBlock(maxwait) ==
  /\ Program("recvtime")
  /\ maxwait >= 0
  /\ ~prhasmsg[currpid]
  /\ GoTo("recvtime", NoArg)
  /\ Doze("PR_RECTIM", maxwait)
  /\ UNCHANGED <<ident, sems, msgs, ndefers>>

\* sleepms; a delay of zero is a yield
Sleepms(delay) ==
  /\ Program("sleepms")
  /\ \/ delay = 0 /\ Resched(prstate, readylist, qkey) /\ UNCHANGED sleepq
     \/ delay # 0 /\ Doze("PR_SLEEP", Int32(delay))
  /\ UNCHANGED <<ident, sems, msgs, where, ndefers>>

-----------------------------------------------------------------------------
(* The clock interrupt                                                     *)

\* wakeup as the handler calls it, up to its loop
Wakeup(key) ==
  /\ DeferStart
  /\ GoTo("wakeup", NoArg)
  /\ qkey' = key
  /\ UNCHANGED <<prstate, readylist, currpid, preempt>>

\* The test of the first key, just counted down.
Due(key) == IF Platform = "arm-qemu" THEN key <= 0 ELSE key = 0

\* platform/arm-qemu/clkhandler.c: wake whoever is due, or else reschedule.
\* platform/arm-bbb/clkhandler.c: wake whoever is due when the first key
\* reaches zero exactly, then count down the time slice.
ClockTick ==
  LET less == IF sleepq = <<>> THEN qkey ELSE [qkey EXCEPT ![sleepq[1]] = Int32(@ - 1)]
      due  == sleepq # <<>> /\ Due(less[sleepq[1]])
  IN  /\ Inside("user")
      /\ \/ due /\ Wakeup(less)
         \/ /\ ~due /\ Platform = "arm-qemu"
            /\ Resched(prstate, readylist, less)
            /\ UNCHANGED <<where, ndefers>>
         \/ /\ ~due /\ Platform = "arm-bbb"
            /\ GoTo("preempt", NoArg)
            /\ qkey' = less
            /\ UNCHANGED <<prstate, readylist, currpid, preempt, attempt, ndefers>>
      /\ UNCHANGED <<ident, sems, msgs, sleepq>>

\* The test of wakeup's loop.
Overdue(key) == key <= 0

\* One iteration of wakeup's loop, or its end; on arm-bbb the handler goes on.
WakeupLoop ==
  LET due == sleepq # <<>> /\ Overdue(qkey[sleepq[1]])
  IN  /\ Inside("wakeup")
      /\ \/ /\ due
            /\ Ready(sleepq[1], qkey)
            /\ sleepq' = Tail(sleepq)
            /\ UNCHANGED <<where, ndefers>>
         \/ /\ ~due
            /\ DeferStop
            /\ GoTo(IF Platform = "arm-bbb" THEN "preempt" ELSE "user", NoArg)
            /\ UNCHANGED sleepq
      /\ UNCHANGED <<ident, sems, msgs>>

\* The end of the arm-bbb handler, which a process that wakeup switched away
\* from only runs when it is switched back in.
Preempt ==
  /\ Inside("preempt")
  /\ Return
  /\ \/ preempt = 1 /\ Dispatch(prstate, readylist, qkey, QUANTUM) /\ UNCHANGED attempt
     \/ /\ preempt > 1
        /\ preempt' = preempt - 1
        /\ UNCHANGED <<prstate, readylist, qkey, currpid, attempt>>
  /\ UNCHANGED <<ident, sems, msgs, sleepq, ndefers>>

-----------------------------------------------------------------------------
\* nulluser, once it has created and resumed the main process, which
\* preempted it.
Init ==
  /\ prstate = [p \in Pids |-> CASE p = 0 -> "PR_READY" [] p = 1 -> "PR_CURR"
                                 [] OTHER -> "PR_FREE"]
  /\ prprio = [p \in Pids |-> IF p = 1 THEN InitPrio ELSE 0]
  /\ prsem = [p \in Pids |-> -1]
  /\ prparent = [p \in Pids |-> NULLPROC]
  /\ prhasmsg = [p \in Pids |-> FALSE]
  /\ prmsg = [p \in Pids |-> 0]
  /\ prstk = [p \in Pids |-> CASE p = 0 -> NSTACK [] p = 1 -> NSTACK - 1 [] OTHER -> 0]
  /\ stkfree = 1 .. NSTACK - 2
  /\ readylist = <<NULLPROC>>
  /\ sleepq = <<>>
  /\ qkey = [p \in Pids |-> 0]
  /\ sstate = [s \in Sems |-> "S_FREE"]
  /\ scount = [s \in Sems |-> 0]
  /\ squeue = [s \in Sems |-> <<>>]
  /\ nextsem = 0
  /\ currpid = 1 /\ prcount = 2 /\ nextpid = 2 % NPROC
  /\ preempt = QUANTUM
  /\ ndefers = 0 /\ attempt = FALSE
  /\ halted = FALSE
  /\ pc = [p \in Pids |-> "user"] /\ arg = [p \in Pids |-> NoArg]

ProcessCall ==
  \/ \E prio \in Prios : Create(prio)
  \/ \E pid \in Pids : Resume(pid) \/ Suspend(pid) \/ Kill(pid)
  \/ \E pid \in Pids, prio \in NewPrios : Chprio(pid, prio)
  \/ Yield

SemaphoreCall ==
  \/ \E c \in Counts : Semcreate(c)
  \/ \E s \in Sems : Wait(s) \/ Signal(s) \/ Semdelete(s)
  \/ \E s \in Sems, c \in Counts : Signaln(s, c) \/ Semreset(s, c)

MessageCall ==
  \/ \E pid \in Pids, m \in Messages : Send(pid, m)
  \/ Receive \/ ReceiveBlock
  \/ \E w \in Waits : RecvtimeBlock(w)
  \/ \E d \in Delays : Sleepms(d)

\* What runs with interrupts disabled and is already under way.
InKernel ==
  \/ KillFinish \/ SignalnLoop \/ SemdeleteLoop \/ SemresetLoop
  \/ TakeMessage \/ WakeupLoop \/ Preempt

Next == ProcessCall \/ SemaphoreCall \/ MessageCall \/ InKernel \/ ClockTick

Spec == Init /\ [][Next]_vars

\* A call under way is finished, and a pending clock interrupt is taken once
\* interrupts are enabled again and again; no program is obliged to do anything.
Fairness == WF_vars(InKernel) /\ SF_vars(ClockTick)
FairSpec == Spec /\ Fairness

-----------------------------------------------------------------------------
(* Invariants                                                              *)

Live  == {p \in Pids : prstate[p] # "PR_FREE"}
Dying == {arg[p].id : p \in {q \in Live : pc[q] = "kill"}}

\* Every variable keeps its type (the declarations of process.h, semaphore.h,
\* queue.h and sched.h).
TypeOK ==
  /\ prstate \in [Pids -> States]
  /\ prprio \in [Pids -> Int]
  /\ prsem \in [Pids -> Sems \cup {-1}]
  /\ prparent \in [Pids -> Pids]
  /\ prhasmsg \in [Pids -> BOOLEAN]
  /\ prmsg \in [Pids -> Mails]
  /\ prstk \in [Pids -> Stacks \cup {0}]
  /\ readylist \in Seq(Pids) /\ sleepq \in Seq(Pids)
  /\ qkey \in [Pids -> Int]
  /\ sstate \in [Sems -> {"S_FREE", "S_USED"}]
  /\ scount \in [Sems -> Int]
  /\ squeue \in [Sems -> Seq(Pids)]
  /\ nextsem \in Nat
  /\ currpid \in Pids /\ prcount \in Int /\ nextpid \in Pids
  /\ preempt \in 1 .. QUANTUM
  /\ ndefers \in Nat /\ attempt \in BOOLEAN
  /\ stkfree \subseteq Stacks /\ halted \in BOOLEAN
  /\ pc \in [Pids -> Points] /\ arg \in [Pids -> [id : Int, n : Int]]

\* A process is on the list its state says it is on, once, and on no other:
\* the links of queuetab are shared, so a second insertion would corrupt both
\* lists (ready.c, wait.c, sleep.c, recvtime.c, kill.c, suspend.c).
ReadyAgrees ==
  /\ NoDuplicates(readylist)
  /\ \A p \in Pids : OnQueue(readylist, p) <=> prstate[p] = "PR_READY"
CurrAgrees == \A p \in Pids : prstate[p] = "PR_CURR" <=> p = currpid
SleepAgrees ==
  /\ NoDuplicates(sleepq)
  /\ \A p \in Pids : OnQueue(sleepq, p) <=> prstate[p] \in {"PR_SLEEP", "PR_RECTIM"}
WaitAgrees ==
  /\ \A s \in Sems :
       /\ NoDuplicates(squeue[s])
       /\ \A p \in Pids : OnQueue(squeue[s], p) <=> prstate[p] = "PR_WAIT" /\ prsem[p] = s
  /\ \A p \in Pids : prstate[p] = "PR_WAIT" => prsem[p] \in Sems
QueuesAgree == ReadyAgrees /\ CurrAgrees /\ SleepAgrees /\ WaitAgrees

\* The ready list is in descending order of the keys its processes were inserted
\* with, whatever has become of their priorities (insert.c, chprio.c).
ReadySorted ==
  \A i, j \in DOMAIN readylist : i < j => qkey[readylist[i]] >= qkey[readylist[j]]

\* resched never finds the ready list empty: the null process is always
\* running or ready (the header comment of initialize.c:nulluser).
NullReady == prstate[NULLPROC] \in {"PR_CURR", "PR_READY"}

\* Rescheduling is deferred while a process is inside one of the four loops that
\* release processes, and such a process is the current one: a deferral nobody
\* ended would stop the scheduler for good (resched.c, signaln.c, semdelete.c,
\* semreset.c, wakeup.c).
Loops == {"signaln", "semdelete", "semreset", "wakeup"}
DeferralsPaired ==
  /\ ndefers = IF pc[currpid] \in Loops THEN 1 ELSE 0
  /\ \A p \in Pids : pc[p] \in Loops => p = currpid

\* A negative count says how many processes wait, and otherwise none does; nobody
\* is left waiting on a semaphore that has been deleted (wait.c, signal.c, kill.c,
\* semdelete.c).  semreset sets the count only after its loop.
SemCountAgrees ==
  \A s \in Sems :
    /\ ~(pc[currpid] = "semreset" /\ arg[currpid].id = s) =>
         Len(squeue[s]) = IF scount[s] < 0 THEN -scount[s] ELSE 0
    /\ sstate[s] = "S_FREE" /\ ~(pc[currpid] = "semdelete" /\ arg[currpid].id = s) =>
         squeue[s] = <<>>

\* While a process runs its own code, no ready process has a higher priority:
\* whoever makes one ready, even in a deferred loop, ends by rescheduling.
CurrIsHighest ==
  pc[currpid] = "user" => \A p \in Pids : prstate[p] = "PR_READY" => prprio[p] <= prprio[currpid]

\* A process waiting for a message has none, and a process that has left the
\* waiting state of receive has one: receive takes it without looking again.
MessagesAgree ==
  \A p \in Pids :
    /\ prstate[p] \in {"PR_RECV", "PR_RECTIM"} => ~prhasmsg[p]
    /\ p \in Live /\ pc[p] = "receive" /\ prstate[p] # "PR_RECV" => prhasmsg[p]

\* No live process uses a stack that has been given back or that another one
\* uses (create.c, kill.c).
StacksOwned ==
  \A p \in Live : prstk[p] \notin stkfree /\ \A r \in Live \ {p} : prstk[r] # prstk[p]

\* prcount counts the live processes but for those already on their way out
\* (process.h, kill.c).
PrcountExact == ~halted => prcount = Cardinality(Live \ Dying)

\* The system stops as the last user process exits and not before (xdone.c).
HaltsWithLast == halted => Live \ Dying \subseteq {NULLPROC, currpid}

\* No process is left on the sleep queue when its time has passed
\* (recvtime.c, wakeup.c, clkhandler.c).
NoneOverdue ==
  pc[currpid] = "user" => \A i \in DOMAIN sleepq : DeltaSum(sleepq, qkey)[i] >= 0

(* Action properties                                                       *)

\* Between the start and the end of a deferral nobody else gets the processor
\* (resched.c).
NoSwitchWhileDeferred == [][ndefers > 0 /\ ndefers' > 0 => currpid' = currpid]_vars

\* resched gives the processor to the eligible process of the highest priority
\* (the header comment of resched.c).
DispatchesHighest ==
  [][currpid' # currpid =>
       \A p \in Pids : prstate'[p] = "PR_READY" => prprio'[p] <= prprio'[currpid']]_vars

\* Whoever has waited longer for a semaphore stays ahead until it leaves: nobody
\* who waited less, and nobody who comes now, gets in front of it or leaves before
\* it, except by being killed (wait.c, signal.c, semreset.c).
Before(q, p, r) == \E i, j \in DOMAIN q : i < j /\ q[i] = p /\ q[j] = r
Joins(q, q1, r) == ~OnQueue(q, r) /\ OnQueue(q1, r)
FifoRelease ==
  [][\A s \in Sems : \A p, r \in Pids :
       /\ OnQueue(squeue[s], p) /\ OnQueue(squeue'[s], p)
       /\ Before(squeue[s], p, r) \/ Joins(squeue[s], squeue'[s], r)
       => Before(squeue'[s], p, r) \/ prstate'[r] = "PR_FREE"]_vars

\* A message stays in the one-message buffer until its owner takes it or the
\* process table entry is created anew (send.c, create.c).
MessageKept ==
  [][\A p \in Pids :
       prhasmsg[p] => \/ prhasmsg'[p] /\ prmsg'[p] = prmsg[p]
                      \/ p = currpid
                      \/ prstate[p] = "PR_FREE"]_vars

(* Liveness                                                                *)

\* A ready process gets the processor in the end, when no process has a higher
\* priority than it (resched puts the current process behind its equals and the
\* clock interrupt calls it).
EqualsTakeTurns ==
  \A p \in Pids \ {NULLPROC} : prstate[p] = "PR_READY" ~> prstate[p] # "PR_READY"

\* A delay ends (sleep.c, recvtime.c, clkhandler.c).
DelayEnds ==
  \A p \in Pids : prstate[p] \in {"PR_SLEEP", "PR_RECTIM"}
                    ~> prstate[p] \notin {"PR_SLEEP", "PR_RECTIM"}

-----------------------------------------------------------------------------
(* The delta list implements the abstract timers: the time a process has   *)
(* left is the sum of the keys up to its own, which insertd, unsleep and   *)
(* the clock interrupt keep up to date for everybody by touching one or    *)
(* two keys.                                                               *)

\* A process that is due but not yet taken off the list by wakeup has nothing
\* left.
TimeLeft ==
  [p \in Pids |->
     IF OnQueue(sleepq, p)
     THEN Max({0, DeltaSum(sleepq, qkey)[PlaceOf(sleepq, p)]})
     ELSE 0]

AsTimers == INSTANCE Timers WITH Procs <- Pids,
                                 Durations <- {d \in Delays \cup Waits : d > 0},
                                 left <- TimeLeft

\* Whatever the processes do, delays end after as many clock ticks as were asked
\* for, and the ticks keep coming (sleep.c, recvtime.c, insertd.c, unsleep.c,
\* wakeup.c, clkhandler.c).
TimersImplemented == AsTimers!Spec

\* A process that goes to sleep has the time to go that it asked for (sleep.c).
DelayAsAsked ==
  [][\A p \in Pids : prstate[p] # "PR_SLEEP" /\ prstate'[p] = "PR_SLEEP" => TimeLeft'[p] \in Delays]_vars
=============================================================================
