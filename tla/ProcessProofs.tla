---------------------------- MODULE ProcessProofs -----------------------------
(***************************************************************************)
(* Proofs about what a process owns, its message, its stack, its place in  *)
(* prcount, and about its turns: the scheduler runs the right process, and *)
(* a semaphore's count and its queue agree.                                *)
(*                                                                         *)
(* Messages. receive may take the message without looking again: whoever   *)
(* waits for a message has none, and whoever has been taken out of the     *)
(* waiting state of receive has one, whatever calls are made. The two      *)
(* facts alone are not inductive: kill may free the table entry of a       *)
(* process in the middle of receive, and create gives a free entry to a    *)
(* new process with an empty message buffer. What is missing is that no    *)
(* free entry is left in the middle of receive.                            *)
(*                                                                         *)
(* Life and death. No two processes use the same stack, prcount counts     *)
(* them, and the system stops with the last. All three hold as long as a   *)
(* process only ever ends itself (exit, and the return from its main       *)
(* function). A process that kills another may lose the processor to the   *)
(* victim's parent with the victim still alive, and the victim may then be *)
(* killed twice (run DoubleKill).                                          *)
(*                                                                         *)
(* Turns. The ready list is in descending order of the keys it was built   *)
(* with, whatever the programs call (ReadySorted). If nobody calls chprio  *)
(* those keys are the priorities, so the head of the list has the highest  *)
(* one. What has to be found is how long the current process stays the     *)
(* highest: as long as every process that is made ready while rescheduling *)
(* is deferred leaves a recorded attempt behind (Ranked).                  *)
(*                                                                         *)
(* Count and queue are changed by different statements of wait, signal,    *)
(* signaln, semdelete, semreset and kill, and by two loops that leave them *)
(* at odds until they end.  Outside those two loops every semaphore is in  *)
(* order (InOrder); inside, every semaphore but the one the loop works on, *)
(* whose other half is still right.  That is inductive together with IInv  *)
(* and with the count semreset holds on to, which its loop must not lose.  *)
(***************************************************************************)
EXTENDS KernelProofs, FiniteSetTheorems

\* A process of state st, with or without a message, at point c of the kernel.
WaitsRight(st, has, c) ==
  /\ st \in {"PR_RECV", "PR_RECTIM"} => ~has
  /\ st = "PR_FREE" => c # "receive"
  /\ c = "receive" /\ st \notin {"PR_FREE", "PR_RECV"} => has

MailInv == \A p \in Pids : WaitsRight(prstate[p], prhasmsg[p], pc[p])

\* The change from prstate to st, for all but the processes in S: who waits in
\* receive or is free stays so, and nobody becomes free or waits for a message.
Undisturbed(S, st) ==
  \A p \in Pids \ S :
    \/ st[p] = prstate[p]
    \/ /\ prstate[p] \notin {"PR_RECV", "PR_FREE"}
       /\ st[p] \notin {"PR_RECV", "PR_RECTIM", "PR_FREE"}

\* Nobody gets to the middle of receive.
NobodyEnters == \A p \in Pids : pc'[p] = pc[p] \/ pc'[p] # "receive"

-----------------------------------------------------------------------------
(* Scheduling                                                              *)

\* What resched does to the states disturbs nobody (resched.c).
LEMMA SwitchedUndisturbed ==
  ASSUME NEW S, NEW st, Switched(st), Undisturbed(S, st),
         \A p \in Pids \ S : prstate[p] # "PR_FREE" \/ st[p] = "PR_FREE"
  PROVE  Undisturbed(S, prstate')
BY DEF Switched, Undisturbed, Eligible

\* A step that disturbs nobody and touches no message buffer.
LEMMA CalmStep ==
  ASSUME MailInv, Undisturbed({}, prstate'), prhasmsg' = prhasmsg, NobodyEnters
  PROVE  MailInv'
<1> SUFFICES ASSUME NEW p \in Pids  PROVE WaitsRight(prstate'[p], prhasmsg'[p], pc'[p])
  BY DEF MailInv
<1>1. WaitsRight(prstate[p], prhasmsg[p], pc[p])
  BY DEF MailInv
<1> QED  BY <1>1 DEF Undisturbed, NobodyEnters, WaitsRight

\* The same for a step that changes no state at all.
LEMMA QuietStep ==
  ASSUME MailInv, prstate' = prstate, prhasmsg' = prhasmsg, NobodyEnters
  PROVE  MailInv'
BY CalmStep DEF Undisturbed

\* A step that disturbs nobody but the current process, and leaves that waiting
\* rightly.
LEMMA OwnStep ==
  ASSUME MailInv, Undisturbed({currpid}, prstate'),
         \A p \in Pids \ {currpid} : prhasmsg'[p] = prhasmsg[p] /\ pc'[p] = pc[p],
         WaitsRight(prstate'[currpid], prhasmsg'[currpid], pc'[currpid])
  PROVE  MailInv'
<1> SUFFICES ASSUME NEW p \in Pids, p # currpid
             PROVE  WaitsRight(prstate'[p], prhasmsg'[p], pc'[p])
  BY DEF MailInv
<1>1. WaitsRight(prstate[p], prhasmsg[p], pc[p])
  BY DEF MailInv
<1> QED  BY <1>1 DEF Undisturbed, WaitsRight

\* ready makes its process eligible and disturbs nobody else (ready.c).
LEMMA ReadyDisturbs ==
  ASSUME IInv, NEW pid \in Pids, NEW key \in [Pids -> Int], Ready(pid, key),
         prstate[pid] \notin {"PR_CURR", "PR_READY", "PR_FREE"}
  PROVE  Undisturbed({pid}, prstate') /\ prstate'[pid] \in Eligible
<1> DEFINE st == [prstate EXCEPT ![pid] = "PR_READY"]
<1>1. prstate \in [Pids -> States]
  BY DEF IInv, TypeOK
<1>2. Switched(st)
  BY ReadySwitches DEF Eligible
<1>3. /\ Undisturbed({pid}, st) /\ st[pid] \in Eligible
      /\ \A p \in Pids \ {pid} : prstate[p] # "PR_FREE" \/ st[p] = "PR_FREE"
  BY <1>1 DEF Undisturbed, Eligible
<1> HIDE DEF st
<1>4. prstate'[pid] \in Eligible
  BY <1>2, <1>3 DEF Switched
<1> QED  BY <1>2, <1>3, <1>4, SwitchedUndisturbed

\* ready on a process that was not waiting in receive disturbs nobody (ready.c).
LEMMA ReadyUndisturbed ==
  ASSUME IInv, NEW pid \in Pids, Ready(pid, qkey),
         prstate[pid] \notin {"PR_CURR", "PR_READY", "PR_FREE", "PR_RECV"}
  PROVE  Undisturbed({}, prstate')
<1>1. qkey \in [Pids -> Int]
  BY DEF IInv, TypeOK
<1> QED  BY <1>1, ReadyDisturbs DEF Undisturbed, Eligible

\* resched in the middle of a call that changes no state (yield.c, clkhandler.c).
LEMMA YieldUndisturbed ==
  ASSUME IInv, NEW key \in [Pids -> Int], Resched(prstate, readylist, key)
  PROVE  Undisturbed({}, prstate')
<1>1. Consistent(prstate, readylist, key) /\ prstate[currpid] = "PR_CURR"
  BY AsItIs DEF Consistent
<1>2. Switched(prstate)
  BY <1>1, ReschedSwitches DEF IInv
<1> QED  BY <1>2, SwitchedUndisturbed DEF Undisturbed

\* resched when the current process has left the eligible states for s: nobody
\* else is disturbed (wait.c, receive.c, recvtime.c, sleep.c, suspend.c).
LEMMA BlockUndisturbed ==
  ASSUME IInv, NEW s \in States \ Eligible, NEW key \in [Pids -> Int],
         currpid # NULLPROC, ndefers = 0,
         Resched([prstate EXCEPT ![currpid] = s], readylist, key)
  PROVE  Undisturbed({currpid}, prstate') /\ prstate'[currpid] = s
<1> DEFINE st == [prstate EXCEPT ![currpid] = s]
<1>1. prstate \in [Pids -> States] /\ currpid \in Pids
  BY DEF IInv, TypeOK
<1>2. Switched(st)
  BY BlockSwitches
<1>3. /\ Undisturbed({currpid}, st) /\ st[currpid] = s
      /\ \A p \in Pids \ {currpid} : prstate[p] # "PR_FREE" \/ st[p] = "PR_FREE"
  BY <1>1 DEF Undisturbed
<1> HIDE DEF st
<1>4. prstate'[currpid] = s
  BY <1>1, <1>2, <1>3 DEF Switched
<1> QED  BY <1>2, <1>3, <1>4, SwitchedUndisturbed

\* The release of the first process of a semaphore disturbs nobody (signal.c,
\* signaln.c, semdelete.c, semreset.c).
LEMMA ReadyFirstUndisturbed ==
  ASSUME IInv, NEW s \in Sems, ReadyFirst(s)
  PROVE  Undisturbed({}, prstate')
<1>1. CASE squeue[s] = <<>>
  <2>1. Ready(EMPTY, qkey)
    BY <1>1 DEF ReadyFirst
  <2>2. isbadpid(EMPTY)
    BY TableAssumption DEF isbadpid, EMPTY, Pids
  <2> QED  BY <2>1, <2>2 DEF Ready, Undisturbed
<1>2. CASE squeue[s] # <<>>
  <2>1. Ready(squeue[s][1], qkey)
    BY <1>2 DEF ReadyFirst
  <2>2. squeue[s] \in Seq(Pids) /\ NoDuplicates(squeue[s])
    BY DEF IInv, TypeOK, QueuesAgree, WaitAgrees
  <2>3. squeue[s][1] \in Pids /\ OnQueue(squeue[s], squeue[s][1])
    BY <1>2, <2>2, TailFacts
  <2>4. prstate[squeue[s][1]] = "PR_WAIT"
    BY <2>3 DEF IInv, QueuesAgree, WaitAgrees
  <2> QED  BY <2>1, <2>3, <2>4, ReadyUndisturbed
<1> QED  BY <1>1, <1>2

\* The release of a waiter, if the count says there is one, disturbs nobody.
LEMMA ReleaseUndisturbed ==
  ASSUME IInv, NEW s \in Sems, Release(s)
  PROVE  Undisturbed({}, prstate')
BY ReadyFirstUndisturbed DEF Release, sched, Undisturbed

\* A process that goes to sleep disturbs nobody else (sleep.c, recvtime.c).
LEMMA DozeUndisturbed ==
  ASSUME IInv, NEW s \in {"PR_SLEEP", "PR_RECTIM"}, NEW delay \in Int, Doze(s, delay),
         currpid # NULLPROC, ndefers = 0
  PROVE  Undisturbed({currpid}, prstate') /\ prstate'[currpid] = s
<1>1. sleepq \in Seq(Pids) /\ qkey \in [Pids -> Int] /\ currpid \in Pids
  BY DEF IInv, TypeOK
<1>2. InsertdKeys(sleepq, qkey, currpid, delay) \in [Pids -> Int]
  BY <1>1, InsertdFacts
<1> QED  BY <1>2, BlockUndisturbed DEF Doze, States, Eligible

\* The end of a deferral disturbs nobody (resched.c).
LEMMA StopUndisturbed ==
  ASSUME IInv, DeferStop
  PROVE  Undisturbed({}, prstate')
<1>1. Switched(prstate)
  BY DeferStopSwitches
<1> QED  BY <1>1, SwitchedUndisturbed DEF Undisturbed

\* What send does: the recipient has a message and waits for none (send.c).
LEMMA DeliverDisturbs ==
  ASSUME IInv, MailInv, NEW pid \in Pids, NEW msg, Deliver(pid, msg), NobodyEnters
  PROVE  MailInv'
<1>1. CASE Undeliverable(pid)
  BY <1>1, QuietStep DEF Deliver, sched, msgs
<1>2. CASE ~Undeliverable(pid)
  <2>1. /\ prhasmsg' = [prhasmsg EXCEPT ![pid] = TRUE]
        /\ \/ prstate[pid] = "PR_RECV" /\ Ready(pid, qkey)
           \/ prstate[pid] = "PR_RECTIM" /\ Ready(pid, UnsleepKeys(sleepq, qkey, pid))
           \/ prstate[pid] \notin {"PR_RECV", "PR_RECTIM"} /\ UNCHANGED sched
    BY <1>2 DEF Deliver
  <2>2. prstate[pid] # "PR_FREE" /\ prhasmsg \in [Pids -> BOOLEAN] /\ qkey \in [Pids -> Int]
    BY <1>2 DEF Undeliverable, isbadpid, IInv, TypeOK
  <2>3. /\ Undisturbed({pid}, prstate')
        /\ prstate'[pid] \notin {"PR_RECV", "PR_RECTIM", "PR_FREE"}
    <3>1. CASE prstate[pid] = "PR_RECV" /\ Ready(pid, qkey)
      BY <2>2, <3>1, ReadyDisturbs DEF Eligible
    <3>2. CASE prstate[pid] = "PR_RECTIM" /\ Ready(pid, UnsleepKeys(sleepq, qkey, pid))
      <4>1. sleepq \in Seq(Pids) /\ OnQueue(sleepq, pid)
        BY <3>2 DEF IInv, TypeOK, QueuesAgree, SleepAgrees
      <4>2. UnsleepKeys(sleepq, qkey, pid) \in [Pids -> Int]
        BY <2>2, <4>1, UnsleepFacts
      <4> QED  BY <3>2, <4>2, ReadyDisturbs DEF Eligible
    <3>3. CASE prstate[pid] \notin {"PR_RECV", "PR_RECTIM"} /\ UNCHANGED sched
      BY <2>2, <3>3 DEF sched, Undisturbed
    <3> QED  BY <2>1, <3>1, <3>2, <3>3
  <2> SUFFICES ASSUME NEW p \in Pids  PROVE WaitsRight(prstate'[p], prhasmsg'[p], pc'[p])
    BY DEF MailInv
  <2>4. WaitsRight(prstate[p], prhasmsg[p], pc[p]) /\ (pc'[p] = pc[p] \/ pc'[p] # "receive")
    BY DEF MailInv, NobodyEnters
  <2>5. CASE p = pid
    BY <2>1, <2>2, <2>3, <2>5 DEF WaitsRight
  <2>6. CASE p # pid
    <3>1. prhasmsg'[p] = prhasmsg[p]
      BY <2>1, <2>2, <2>6
    <3> QED  BY <2>3, <2>4, <2>6, <3>1 DEF Undisturbed, WaitsRight
  <2> QED  BY <2>5, <2>6
<1> QED  BY <1>1, <1>2

\* A process that moves inside the kernel to another point than the middle of
\* receive.
LEMMA GoesElsewhere ==
  ASSUME IInv, NEW c, NEW a, GoTo(c, a), c # "receive"
  PROVE  NobodyEnters
BY DEF GoTo, NobodyEnters, IInv, TypeOK

-----------------------------------------------------------------------------
(* The operations                                                          *)

\* create, resume, suspend, yield, chprio and kill up to its message: a new process
\* has an empty message buffer and is not in the middle of anything.
LEMMA ProcessCallWaits ==
  ASSUME IInv, MailInv, ProcessCall
  PROVE  MailInv'
<1>0. /\ prstate \in [Pids -> States] /\ prhasmsg \in [Pids -> BOOLEAN] /\ currpid \in Pids
      /\ qkey \in [Pids -> Int] /\ prparent \in [Pids -> Pids]
      /\ \A p \in Pids : prstate[p] = "PR_CURR" <=> p = currpid
  BY DEF IInv, TypeOK, QueuesAgree, CurrAgrees
<1>1. pc' = pc => NobodyEnters
  BY DEF NobodyEnters
<1>2. ASSUME NEW prio \in Prios, Create(prio)  PROVE MailInv'
  <2>1. pc' = pc
    BY <1>2 DEF Create, where
  <2>2. CASE FreePids = {} \/ prio < 1
    BY <1>1, <1>2, <2>1, <2>2, QuietStep DEF Create
  <2>3. CASE ~(FreePids = {} \/ prio < 1)
    <3>1. Newpid \in Pids /\ prstate[Newpid] = "PR_FREE"
      BY <2>3, NewpidFree DEF FreePids
    <3>2. /\ prstate' = [prstate EXCEPT ![Newpid] = "PR_SUSP"]
          /\ prhasmsg' = [prhasmsg EXCEPT ![Newpid] = FALSE]
      BY <1>2, <2>3 DEF Create
    <3> SUFFICES ASSUME NEW p \in Pids  PROVE WaitsRight(prstate'[p], prhasmsg'[p], pc'[p])
      BY DEF MailInv
    <3>3. WaitsRight(prstate[p], prhasmsg[p], pc[p]) /\ pc'[p] = pc[p]
      BY <2>1 DEF MailInv
    <3>4. CASE p = Newpid
      BY <1>0, <3>1, <3>2, <3>3, <3>4 DEF WaitsRight
    <3>5. CASE p # Newpid
      <4>1. prstate'[p] = prstate[p] /\ prhasmsg'[p] = prhasmsg[p]
        BY <1>0, <3>2, <3>5
      <4> QED  BY <3>3, <4>1
    <3> QED  BY <3>4, <3>5
  <2> QED  BY <2>2, <2>3
<1>3. ASSUME NEW pid \in Pids, Resume(pid)  PROVE MailInv'
  <2>1. prstate[pid] = "PR_SUSP" /\ Ready(pid, qkey) /\ prhasmsg' = prhasmsg /\ pc' = pc
    BY <1>3 DEF Resume, msgs, where
  <2>2. Undisturbed({}, prstate')
    BY <2>1, ReadyUndisturbed
  <2> QED  BY <1>1, <2>1, <2>2, CalmStep
<1>4. ASSUME NEW pid \in Pids, Suspend(pid)  PROVE MailInv'
  <2>1. prhasmsg' = prhasmsg /\ pc' = pc
    BY <1>4 DEF Suspend, msgs, where
  <2>2. Undisturbed({}, prstate')
    <3>1. CASE prstate[pid] = "PR_READY"
      <4>1. prstate' = [prstate EXCEPT ![pid] = "PR_SUSP"]
        BY <1>4, <3>1 DEF Suspend
      <4> QED  BY <1>0, <3>1, <4>1 DEF Undisturbed
    <3>2. CASE prstate[pid] = "PR_CURR"
      <4>1. /\ Resched([prstate EXCEPT ![currpid] = "PR_SUSP"], readylist, qkey)
            /\ currpid # NULLPROC /\ ndefers = 0
        BY <1>0, <1>4, <3>2, NotDeferred DEF Suspend, Program, Loops
      <4>2. Undisturbed({currpid}, prstate') /\ prstate'[currpid] = "PR_SUSP"
        BY <1>0, <4>1, BlockUndisturbed DEF States, Eligible
      <4> QED  BY <1>0, <4>2 DEF Undisturbed
    <3> QED  BY <1>4, <3>1, <3>2 DEF Suspend
  <2> QED  BY <1>1, <2>1, <2>2, CalmStep
<1>5. ASSUME NEW pid \in Pids, Kill(pid)  PROVE MailInv'
  <2>1. CASE UNCHANGED <<sched, msgs, sleepq, where>>
    BY <1>1, <2>1, QuietStep DEF sched, msgs, where
  <2>2. CASE Deliver(prparent[pid], pid) /\ GoTo("kill", [id |-> pid, n |-> 0])
    <3>1. NobodyEnters
      BY <2>2, GoesElsewhere
    <3> QED  BY <1>0, <2>2, <3>1, DeliverDisturbs
  <2> QED  BY <1>5, <2>1, <2>2 DEF Kill
<1>6. ASSUME NEW pid \in Pids, NEW prio \in NewPrios, Chprio(pid, prio)  PROVE MailInv'
  BY <1>1, <1>6, QuietStep DEF Chprio, sched, msgs, where
<1>7. ASSUME Yield  PROVE MailInv'
  <2>1. Undisturbed({}, prstate')
    BY <1>0, <1>7, YieldUndisturbed DEF Yield
  <2> QED  BY <1>1, <1>7, <2>1, CalmStep DEF Yield, msgs, where
<1> QED  BY <1>2, <1>3, <1>4, <1>5, <1>6, <1>7 DEF ProcessCall

\* The rest of kill: the victim's entry is free and its call forgotten (kill.c).
LEMMA KillFinishWaits ==
  ASSUME IInv, MailInv, KillFinish
  PROVE  MailInv'
<1> DEFINE v    == arg[currpid].id
           gone == [prstate EXCEPT ![v] = "PR_FREE"]
<1>0. /\ prstate \in [Pids -> States] /\ currpid \in Pids /\ pc \in [Pids -> Points]
      /\ qkey \in [Pids -> Int] /\ \A p \in Pids : prstate[p] = "PR_CURR" <=> p = currpid
  BY DEF IInv, TypeOK, QueuesAgree, CurrAgrees
<1>1. v \in Pids \ {NULLPROC} /\ ndefers = 0
  BY <1>0, NotDeferred DEF KillFinish, Inside, IInv, CallArgs, Loops
<1>2. /\ pc' = [p \in Pids |-> IF p \in {currpid, v} THEN "user" ELSE pc[p]]
      /\ prhasmsg' = prhasmsg
      /\ \/ prstate[v] = "PR_CURR" /\ Resched(gone, readylist, qkey)
         \/ prstate' = gone
  BY DEF KillFinish, msgs
<1> HIDE DEF v
<1>3. Undisturbed({v}, prstate') /\ prstate'[v] = "PR_FREE"
  <2>1. CASE prstate[v] = "PR_CURR" /\ Resched(gone, readylist, qkey)
    <3>1. v = currpid
      BY <1>0, <1>1, <2>1
    <3> QED  BY <1>0, <1>1, <2>1, <3>1, BlockUndisturbed DEF States, Eligible
  <2>2. CASE prstate' = gone
    BY <1>0, <1>1, <2>2 DEF Undisturbed
  <2> QED  BY <1>2, <2>1, <2>2
<1> SUFFICES ASSUME NEW p \in Pids  PROVE WaitsRight(prstate'[p], prhasmsg'[p], pc'[p])
  BY DEF MailInv
<1>4. WaitsRight(prstate[p], prhasmsg[p], pc[p])
  BY DEF MailInv
<1>5. CASE p = v
  BY <1>2, <1>3, <1>5 DEF WaitsRight
<1>6. CASE p # v
  BY <1>2, <1>3, <1>4, <1>6 DEF Undisturbed, WaitsRight
<1> QED  BY <1>5, <1>6

\* semcreate, wait, signal, semdelete, signaln and semreset
LEMMA SemaphoreCallWaits ==
  ASSUME IInv, MailInv, SemaphoreCall
  PROVE  MailInv'
<1>0. /\ prstate \in [Pids -> States] /\ currpid \in Pids /\ qkey \in [Pids -> Int]
      /\ prstate[currpid] = "PR_CURR"
  BY AsItIs DEF IInv, TypeOK
<1>1. pc' = pc => NobodyEnters
  BY DEF NobodyEnters
<1>2. ASSUME NEW c, NEW s, NEW n, StartLoop(c, s, n), c \in Loops, UNCHANGED msgs  PROVE MailInv'
  <2>1. NobodyEnters
    BY <1>2, GoesElsewhere DEF StartLoop, Loops
  <2> QED  BY <1>2, <2>1, QuietStep DEF StartLoop, msgs
<1>3. ASSUME NEW c \in Counts, Semcreate(c)  PROVE MailInv'
  BY <1>1, <1>3, QuietStep DEF Semcreate, sched, msgs, where
<1>4. ASSUME NEW s \in Sems, Wait(s)  PROVE MailInv'
  <2>1. prhasmsg' = prhasmsg /\ pc' = pc
    BY <1>4 DEF Wait, msgs, where
  <2>2. CASE UNCHANGED sched
    BY <1>1, <2>1, <2>2, QuietStep DEF sched
  <2>3. CASE Resched([prstate EXCEPT ![currpid] = "PR_WAIT"], readylist, qkey)
    <3>1. currpid # NULLPROC /\ ndefers = 0
      BY <1>4, NotDeferred DEF Wait, Program, Loops
    <3>2. Undisturbed({currpid}, prstate') /\ prstate'[currpid] = "PR_WAIT"
      BY <1>0, <2>3, <3>1, BlockUndisturbed DEF States, Eligible
    <3>3. Undisturbed({}, prstate')
      BY <1>0, <3>2 DEF Undisturbed
    <3> QED  BY <1>1, <2>1, <3>3, CalmStep
  <2> QED  BY <1>4, <2>2, <2>3 DEF Wait
<1>5. ASSUME NEW s \in Sems, Signal(s)  PROVE MailInv'
  <2>1. Undisturbed({}, prstate')
    BY <1>5, ReleaseUndisturbed DEF Signal
  <2> QED  BY <1>1, <1>5, <2>1, CalmStep DEF Signal, msgs, where
<1>6. ASSUME NEW s \in Sems, Semdelete(s)  PROVE MailInv'
  BY <1>2, <1>6 DEF Semdelete, Loops
<1>7. ASSUME NEW s \in Sems, NEW c \in Counts, Signaln(s, c) \/ Semreset(s, c)  PROVE MailInv'
  BY <1>2, <1>7 DEF Signaln, Semreset, Loops
<1> QED  BY <1>3, <1>4, <1>5, <1>6, <1>7 DEF SemaphoreCall

\* send, receive, recvtime and sleepms: whoever begins to wait for a message has
\* looked whether there is one.
LEMMA MessageCallWaits ==
  ASSUME IInv, MailInv, MessageCall
  PROVE  MailInv'
<1>0. /\ prstate \in [Pids -> States] /\ currpid \in Pids /\ qkey \in [Pids -> Int]
      /\ prhasmsg \in [Pids -> BOOLEAN] /\ pc \in [Pids -> Points]
      /\ prstate[currpid] = "PR_CURR"
  BY AsItIs DEF IInv, TypeOK
<1>1. pc' = pc => NobodyEnters
  BY DEF NobodyEnters
<1>2. ASSUME NEW pid \in Pids, NEW m \in Messages, Send(pid, m)  PROVE MailInv'
  BY <1>1, <1>2, DeliverDisturbs DEF Send, where
<1>3. ASSUME Receive  PROVE MailInv'
  <2>1. /\ prhasmsg' = [prhasmsg EXCEPT ![currpid] = FALSE] /\ prstate' = prstate /\ pc' = pc
        /\ pc[currpid] = "user"
    BY <1>3 DEF Receive, Program, sched, where
  <2> QED  BY <1>0, <2>1, OwnStep DEF Undisturbed, WaitsRight
<1>4. ASSUME ReceiveBlock  PROVE MailInv'
  <2>1. /\ Resched([prstate EXCEPT ![currpid] = "PR_RECV"], readylist, qkey)
        /\ currpid # NULLPROC /\ ndefers = 0 /\ ~prhasmsg[currpid] /\ prhasmsg' = prhasmsg
        /\ pc' = [pc EXCEPT ![currpid] = "receive"]
    BY <1>4, NotDeferred DEF ReceiveBlock, Program, GoTo, Loops, msgs
  <2>2. Undisturbed({currpid}, prstate') /\ prstate'[currpid] = "PR_RECV"
    BY <1>0, <2>1, BlockUndisturbed DEF States, Eligible
  <2>3. WaitsRight(prstate'[currpid], prhasmsg'[currpid], pc'[currpid])
    BY <2>1, <2>2 DEF WaitsRight
  <2> QED  BY <1>0, <2>1, <2>2, <2>3, OwnStep
<1>5. ASSUME NEW w \in Waits, RecvtimeBlock(w)  PROVE MailInv'
  <2>1. /\ Doze("PR_RECTIM", w) /\ w \in Int
        /\ currpid # NULLPROC /\ ndefers = 0 /\ ~prhasmsg[currpid] /\ prhasmsg' = prhasmsg
        /\ pc' = [pc EXCEPT ![currpid] = "recvtime"]
    BY <1>5, DelayAssumption, NotDeferred DEF RecvtimeBlock, Program, GoTo, Loops, msgs
  <2>2. Undisturbed({currpid}, prstate') /\ prstate'[currpid] = "PR_RECTIM"
    BY <2>1, DozeUndisturbed
  <2>3. WaitsRight(prstate'[currpid], prhasmsg'[currpid], pc'[currpid])
    BY <1>0, <2>1, <2>2 DEF WaitsRight
  <2> QED  BY <1>0, <2>1, <2>2, <2>3, OwnStep
<1>6. ASSUME NEW d \in Delays, Sleepms(d)  PROVE MailInv'
  <2>1. /\ currpid # NULLPROC /\ ndefers = 0 /\ prhasmsg' = prhasmsg /\ pc' = pc
        /\ pc[currpid] = "user" /\ Int32(d) \in Int
    BY <1>6, DelayAssumption, Int32Type, NotDeferred DEF Sleepms, Program, Loops, msgs, where
  <2>2. CASE Resched(prstate, readylist, qkey)
    <3>1. Undisturbed({}, prstate')
      BY <1>0, <2>2, YieldUndisturbed
    <3> QED  BY <1>1, <2>1, <3>1, CalmStep
  <2>3. CASE Doze("PR_SLEEP", Int32(d))
    <3>1. Undisturbed({currpid}, prstate') /\ prstate'[currpid] = "PR_SLEEP"
      BY <2>1, <2>3, DozeUndisturbed
    <3>2. Undisturbed({}, prstate')
      BY <1>0, <3>1 DEF Undisturbed
    <3> QED  BY <1>1, <2>1, <3>2, CalmStep
  <2> QED  BY <1>6, <2>2, <2>3 DEF Sleepms
<1> QED  BY <1>2, <1>3, <1>4, <1>5, <1>6 DEF MessageCall

\* The iterations of the semaphore loops and of wakeup, and their ends, disturb
\* nobody (signaln.c, semdelete.c, semreset.c, wakeup.c).
LEMMA LoopUndisturbed ==
  ASSUME IInv, SignalnLoop \/ SemdeleteLoop \/ SemresetLoop \/ WakeupLoop
  PROVE  Undisturbed({}, prstate')
<1>1. CASE SignalnLoop \/ SemdeleteLoop \/ SemresetLoop
  <2>1. arg[currpid].id \in Sems
    BY <1>1, InSemLoop DEF SignalnLoop, SemdeleteLoop, SemresetLoop
  <2> QED  BY <1>1, <2>1, ReleaseUndisturbed, ReadyFirstUndisturbed, StopUndisturbed
           DEF SignalnLoop, SemdeleteLoop, SemresetLoop, EndLoop
<1>2. CASE WakeupLoop
  <2>1. CASE DeferStop
    BY <2>1, StopUndisturbed
  <2>2. CASE sleepq # <<>> /\ Ready(sleepq[1], qkey)
    <3>1. sleepq[1] \in Pids /\ OnQueue(sleepq, sleepq[1])
      BY <2>2, TailFacts DEF IInv, TypeOK, QueuesAgree, SleepAgrees
    <3>2. prstate[sleepq[1]] \in {"PR_SLEEP", "PR_RECTIM"}
      BY <3>1 DEF IInv, QueuesAgree, SleepAgrees
    <3> QED  BY <2>2, <3>1, <3>2, ReadyUndisturbed
  <2> QED  BY <1>2, <2>1, <2>2 DEF WakeupLoop
<1> QED  BY <1>1, <1>2

\* The loops of signaln, semdelete, semreset and wakeup give nobody a message and put
\* nobody to wait for one.
LEMMA LoopWaits ==
  ASSUME IInv, MailInv, SignalnLoop \/ SemdeleteLoop \/ SemresetLoop \/ WakeupLoop
  PROVE  MailInv'
<1>1. prhasmsg' = prhasmsg
  BY DEF SignalnLoop, SemdeleteLoop, SemresetLoop, WakeupLoop, msgs
<1>2. NobodyEnters
  <2>1. pc' = pc => NobodyEnters
    BY DEF NobodyEnters
  <2>2. pc' = pc \/ \E c, a : GoTo(c, a) /\ c # "receive"
    BY DEF SignalnLoop, SemdeleteLoop, SemresetLoop, WakeupLoop, EndLoop, Return, where
  <2> QED  BY <2>1, <2>2, GoesElsewhere
<1> QED  BY <1>1, <1>2, LoopUndisturbed, CalmStep

\* The clock interrupt, before and after the wake-ups, disturbs nobody
\* (clkhandler.c).
LEMMA ClockUndisturbed ==
  ASSUME IInv, ClockTick \/ Preempt
  PROVE  Undisturbed({}, prstate')
<1> DEFINE less == IF sleepq = <<>> THEN qkey ELSE [qkey EXCEPT ![sleepq[1]] = Int32(@ - 1)]
<1>1. less \in [Pids -> Int]
  <2>1. sleepq \in Seq(Pids) /\ qkey \in [Pids -> Int] /\ NoDuplicates(sleepq)
    BY DEF IInv, TypeOK, QueuesAgree, SleepAgrees
  <2>2. CASE sleepq # <<>>
    <3>1. sleepq[1] \in Pids
      BY <2>1, <2>2, TailFacts
    <3>2. Int32(qkey[sleepq[1]] - 1) \in Int
      BY <2>1, <3>1, Int32Type
    <3> QED  BY <2>1, <2>2, <3>2
  <2> QED  BY <2>1, <2>2
<1>2. \/ prstate' = prstate
      \/ Resched(prstate, readylist, less)
      \/ Dispatch(prstate, readylist, qkey, QUANTUM) /\ attempt' = attempt
  BY DEF ClockTick, Wakeup, Preempt
<1> HIDE DEF less
<1>3. CASE prstate' = prstate
  BY <1>3 DEF Undisturbed
<1>4. CASE Resched(prstate, readylist, less)
  BY <1>1, <1>4, YieldUndisturbed
<1>5. CASE Dispatch(prstate, readylist, qkey, QUANTUM) /\ attempt' = attempt
  <2>1. QUANTUM \in 1 .. QUANTUM
    BY ClockAssumption
  <2>2. TypeOK
    BY DEF IInv
  <2>3. attempt' \in BOOLEAN
    BY <1>5, <2>2, Zenon DEF TypeOK
  <2>4. Switched(prstate)
    BY <1>5, <2>1, <2>2, <2>3, AsItIs, DispatchSwitches
  <2> QED  BY <2>4, SwitchedUndisturbed DEF Undisturbed
<1> QED  BY <1>2, <1>3, <1>4, <1>5

\* Nor do the rest of the clock interrupt and preemption.
LEMMA ClockWaits ==
  ASSUME IInv, MailInv, ClockTick \/ Preempt
  PROVE  MailInv'
<1>1. prhasmsg' = prhasmsg
  BY DEF ClockTick, Preempt, msgs
<1>2. NobodyEnters
  <2>1. pc' = pc => NobodyEnters
    BY DEF NobodyEnters
  <2>2. pc' = pc \/ \E c, a : GoTo(c, a) /\ c # "receive"
    BY DEF ClockTick, Preempt, Wakeup, Return, where
  <2> QED  BY <2>1, <2>2, GoesElsewhere
<1> QED  BY <1>1, <1>2, ClockUndisturbed, CalmStep

\* receive and recvtime once their process runs again (receive.c, recvtime.c)
LEMMA TakeMessageWaits ==
  ASSUME IInv, MailInv, TakeMessage
  PROVE  MailInv'
<1>1. /\ prhasmsg \in [Pids -> BOOLEAN] /\ pc \in [Pids -> Points] /\ currpid \in Pids
      /\ prstate[currpid] = "PR_CURR"
  BY AsItIs DEF IInv, TypeOK
<1>2. /\ prhasmsg' = [prhasmsg EXCEPT ![currpid] = FALSE] /\ prstate' = prstate
      /\ pc' = [pc EXCEPT ![currpid] = "user"]
  BY DEF TakeMessage, Return, GoTo, sched
<1> QED  BY <1>1, <1>2, OwnStep DEF Undisturbed, WaitsRight

-----------------------------------------------------------------------------
(* The theorem                                                             *)

\* A process waiting for a message has none, and a process that has left the waiting
\* state of receive has one, so receive need not look again (receive.c, send.c,
\* recvtime.c, wakeup.c, kill.c, create.c).
THEOREM WaitersHaveNoMail == Spec => []MessagesAgree
<1>1. Init => MailInv
  BY DEF Init, MailInv, WaitsRight
<1>2. IInv /\ MailInv /\ [Next]_vars => MailInv'
  <2> SUFFICES ASSUME IInv, MailInv, [Next]_vars  PROVE MailInv'
    OBVIOUS
  <2>1. CASE UNCHANGED vars
    BY <2>1 DEF vars, sched, msgs, where, MailInv
  <2> QED  BY <2>1, ProcessCallWaits, SemaphoreCallWaits, MessageCallWaits, KillFinishWaits,
              LoopWaits, TakeMessageWaits, ClockWaits DEF Next, InKernel
<1>3. MailInv => MessagesAgree
  BY DEF MailInv, WaitsRight, MessagesAgree, Live
<1> QED  BY <1>1, <1>2, <1>3, Invariance, PTL DEF Spec

-----------------------------------------------------------------------------
\* The processes prcount counts: those not yet on their way out.
Staying == {p \in Pids : prstate[p] # "PR_FREE" /\ pc[p] # "kill"}

\* Who is on the way out is on its own way out, and still uses its table entry.
SelfKill == \A p \in Pids : pc[p] = "kill" => arg[p].id = p /\ prstate[p] # "PR_FREE"

ExitInv ==
  /\ SelfKill
  /\ StacksOwned
  /\ ~halted => prcount = Cardinality(Staying)
  /\ halted => Staying \subseteq {NULLPROC, currpid}

\* No entry of the process table comes into use or is given up, and nobody gets
\* to the middle of kill or leaves it.
EntriesKept ==
  /\ \A p \in Pids : prstate'[p] = "PR_FREE" <=> prstate[p] = "PR_FREE"
  /\ \A p \in Pids : /\ pc'[p] = "kill" <=> pc[p] = "kill"
                     /\ pc[p] = "kill" => arg'[p] = arg[p]
  /\ UNCHANGED <<prcount, prstk, stkfree, halted>>

\* A step that keeps the entries keeps the invariant.
LEMMA EntriesStep ==
  ASSUME ExitInv, EntriesKept, ~halted
  PROVE  ExitInv'
<1>1. Staying' = Staying
  BY DEF EntriesKept, Staying
<1>2. SelfKill'
  BY DEF ExitInv, EntriesKept, SelfKill
<1>3. Live' = Live
  BY DEF EntriesKept, Live
<1>4. StacksOwned'
  BY <1>3 DEF ExitInv, EntriesKept, StacksOwned
<1> QED  BY <1>1, <1>2, <1>4 DEF ExitInv, EntriesKept

\* Who stays where it is, or goes on at a point that is not in kill.
LEMMA NotToKill ==
  ASSUME IInv, pc[currpid] # "kill",
         \/ UNCHANGED where
         \/ \E c, a : GoTo(c, a) /\ c # "kill"
  PROVE  \A p \in Pids : /\ pc'[p] = "kill" <=> pc[p] = "kill"
                         /\ pc[p] = "kill" => arg'[p] = arg[p]
<1>1. CASE UNCHANGED where
  BY <1>1 DEF where
<1>2. CASE \E c, a : GoTo(c, a) /\ c # "kill"
  <2>1. PICK c, a : GoTo(c, a) /\ c # "kill"
    BY <1>2
  <2>2. /\ pc' = [pc EXCEPT ![currpid] = c] /\ arg' = [arg EXCEPT ![currpid] = a]
        /\ pc \in [Pids -> Points] /\ arg \in [Pids -> [id : Int, n : Int]]
    BY <2>1 DEF GoTo, IInv, TypeOK
  <2> QED  BY <2>1, <2>2
<1> QED  BY <1>1, <1>2

\* A step that disturbs nobody frees no entry and takes none.
LEMMA UndisturbedKeeps ==
  ASSUME IInv, pc[currpid] # "kill", Undisturbed({}, prstate'),
         UNCHANGED <<prcount, prstk, stkfree, halted>>,
         \/ UNCHANGED where
         \/ \E c, a : GoTo(c, a) /\ c # "kill"
  PROVE  EntriesKept
BY NotToKill DEF EntriesKept, Undisturbed

\* The same if the current process leaves the eligible states but not its entry.
LEMMA BlockedKeeps ==
  ASSUME IInv, pc[currpid] # "kill", Undisturbed({currpid}, prstate'),
         prstate'[currpid] # "PR_FREE",
         UNCHANGED <<prcount, prstk, stkfree, halted>>,
         \/ UNCHANGED where
         \/ \E c, a : GoTo(c, a) /\ c # "kill"
  PROVE  EntriesKept
<1>1. prstate[currpid] = "PR_CURR"
  BY AsItIs
<1> QED  BY <1>1, NotToKill DEF EntriesKept, Undisturbed

-----------------------------------------------------------------------------
(* The operations that leave the entries alone                             *)

\* resume, suspend, yield and chprio free no entry.
LEMMA ProcessCallKeeps ==
  ASSUME IInv,
         \/ \E pid \in Pids : Resume(pid) \/ Suspend(pid)
         \/ \E pid \in Pids, prio \in NewPrios : Chprio(pid, prio)
         \/ Yield
  PROVE  EntriesKept
<1>0. /\ prstate \in [Pids -> States] /\ currpid \in Pids /\ qkey \in [Pids -> Int]
      /\ \A p \in Pids : prstate[p] = "PR_CURR" <=> p = currpid
  BY DEF IInv, TypeOK, QueuesAgree, CurrAgrees
<1>1. ASSUME NEW pid \in Pids, Resume(pid)  PROVE EntriesKept
  <2>1. Undisturbed({}, prstate')
    BY <1>1, ReadyUndisturbed DEF Resume
  <2> QED  BY <1>1, <2>1, UndisturbedKeeps DEF Resume, Program, ident
<1>2. ASSUME NEW pid \in Pids, Suspend(pid)  PROVE EntriesKept
  <2>1. CASE prstate[pid] = "PR_READY"
    <3>1. prstate' = [prstate EXCEPT ![pid] = "PR_SUSP"]
      BY <1>2, <2>1 DEF Suspend
    <3>2. Undisturbed({}, prstate')
      BY <1>0, <2>1, <3>1 DEF Undisturbed
    <3> QED  BY <1>2, <3>2, UndisturbedKeeps DEF Suspend, Program, ident
  <2>2. CASE prstate[pid] = "PR_CURR"
    <3>1. /\ Resched([prstate EXCEPT ![currpid] = "PR_SUSP"], readylist, qkey)
          /\ currpid # NULLPROC /\ ndefers = 0
      BY <1>0, <1>2, <2>2, NotDeferred DEF Suspend, Program, Loops
    <3>2. Undisturbed({currpid}, prstate') /\ prstate'[currpid] = "PR_SUSP"
      BY <1>0, <3>1, BlockUndisturbed DEF States, Eligible
    <3> QED  BY <1>2, <3>2, BlockedKeeps DEF Suspend, Program, ident
  <2> QED  BY <1>2, <2>1, <2>2 DEF Suspend
<1>3. ASSUME NEW pid \in Pids, NEW prio \in NewPrios, Chprio(pid, prio)  PROVE EntriesKept
  <2>1. Undisturbed({}, prstate')
    BY <1>3 DEF Chprio, sched, Undisturbed
  <2> QED  BY <1>3, <2>1, UndisturbedKeeps DEF Chprio, Program
<1>4. ASSUME Yield  PROVE EntriesKept
  <2>1. Undisturbed({}, prstate')
    BY <1>0, <1>4, YieldUndisturbed DEF Yield
  <2> QED  BY <1>4, <2>1, UndisturbedKeeps DEF Yield, Program, ident
<1> QED  BY <1>1, <1>2, <1>3, <1>4

\* The semaphore calls free no entry.
LEMMA SemaphoreCallKeeps ==
  ASSUME IInv, SemaphoreCall
  PROVE  EntriesKept
<1>0. /\ prstate \in [Pids -> States] /\ currpid \in Pids /\ qkey \in [Pids -> Int]
  BY DEF IInv, TypeOK
<1>1. ASSUME NEW c \in Counts, Semcreate(c)  PROVE EntriesKept
  <2>1. Undisturbed({}, prstate')
    BY <1>1 DEF Semcreate, sched, Undisturbed
  <2> QED  BY <1>1, <2>1, UndisturbedKeeps DEF Semcreate, Program, ident
<1>2. ASSUME NEW s \in Sems, Wait(s)  PROVE EntriesKept
  <2>1. CASE UNCHANGED sched
    <3>1. Undisturbed({}, prstate')
      BY <2>1 DEF sched, Undisturbed
    <3> QED  BY <1>2, <3>1, UndisturbedKeeps DEF Wait, Program, ident
  <2>2. CASE Resched([prstate EXCEPT ![currpid] = "PR_WAIT"], readylist, qkey)
    <3>1. currpid # NULLPROC /\ ndefers = 0
      BY <1>2, NotDeferred DEF Wait, Program, Loops
    <3>2. Undisturbed({currpid}, prstate') /\ prstate'[currpid] = "PR_WAIT"
      BY <1>0, <2>2, <3>1, BlockUndisturbed DEF States, Eligible
    <3> QED  BY <1>2, <3>2, BlockedKeeps DEF Wait, Program, ident
  <2> QED  BY <1>2, <2>1, <2>2 DEF Wait
<1>3. ASSUME NEW s \in Sems, Signal(s)  PROVE EntriesKept
  <2>1. Undisturbed({}, prstate')
    BY <1>3, ReleaseUndisturbed DEF Signal
  <2> QED  BY <1>3, <2>1, UndisturbedKeeps DEF Signal, Program, ident
<1>4. ASSUME NEW c \in Loops, NEW s, NEW n, StartLoop(c, s, n), UNCHANGED ident, pc[currpid] = "user"
      PROVE  EntriesKept
  <2>1. Undisturbed({}, prstate')
    BY <1>4 DEF StartLoop, Undisturbed
  <2>2. GoTo(c, [id |-> s, n |-> n]) /\ c # "kill"
    BY <1>4 DEF StartLoop, Loops
  <2> QED  BY <1>4, <2>1, <2>2, UndisturbedKeeps DEF ident
<1>5. ASSUME NEW s \in Sems, Semdelete(s)  PROVE EntriesKept
  BY <1>4, <1>5 DEF Semdelete, Program, Loops
<1>6. ASSUME NEW s \in Sems, NEW c \in Counts, Signaln(s, c) \/ Semreset(s, c)  PROVE EntriesKept
  BY <1>4, <1>6 DEF Signaln, Semreset, Program, Loops
<1> QED  BY <1>1, <1>2, <1>3, <1>5, <1>6 DEF SemaphoreCall

\* What send does frees no entry, whoever is woken (send.c).
LEMMA DeliverKeeps ==
  ASSUME IInv, NEW pid \in Pids, NEW msg, Deliver(pid, msg)
  PROVE  \A p \in Pids : prstate'[p] = "PR_FREE" <=> prstate[p] = "PR_FREE"
<1>1. qkey \in [Pids -> Int]
  BY DEF IInv, TypeOK
<1>2. CASE UNCHANGED sched
  BY <1>2 DEF sched
<1>3. CASE prstate[pid] = "PR_RECV" /\ Ready(pid, qkey)
  <2>1. Undisturbed({pid}, prstate') /\ prstate'[pid] \in Eligible
    BY <1>1, <1>3, ReadyDisturbs
  <2> QED  BY <1>3, <2>1 DEF Undisturbed, Eligible
<1>4. CASE prstate[pid] = "PR_RECTIM" /\ Ready(pid, UnsleepKeys(sleepq, qkey, pid))
  <2>1. sleepq \in Seq(Pids) /\ OnQueue(sleepq, pid)
    BY <1>4 DEF IInv, TypeOK, QueuesAgree, SleepAgrees
  <2>2. UnsleepKeys(sleepq, qkey, pid) \in [Pids -> Int]
    BY <1>1, <2>1, UnsleepFacts
  <2>3. Undisturbed({pid}, prstate') /\ prstate'[pid] \in Eligible
    BY <1>4, <2>2, ReadyDisturbs
  <2> QED  BY <1>4, <2>3 DEF Undisturbed, Eligible
<1> QED  BY <1>2, <1>3, <1>4 DEF Deliver

\* The message calls free no entry.
LEMMA MessageCallKeeps ==
  ASSUME IInv, MessageCall
  PROVE  EntriesKept
<1>0. /\ prstate \in [Pids -> States] /\ currpid \in Pids /\ qkey \in [Pids -> Int]
  BY DEF IInv, TypeOK
<1>1. ASSUME NEW pid \in Pids, NEW m \in Messages, Send(pid, m)  PROVE EntriesKept
  BY <1>1, DeliverKeeps, NotToKill DEF Send, Program, ident, EntriesKept
<1>2. ASSUME Receive  PROVE EntriesKept
  <2>1. Undisturbed({}, prstate')
    BY <1>2 DEF Receive, sched, Undisturbed
  <2> QED  BY <1>2, <2>1, UndisturbedKeeps DEF Receive, Program, ident
<1>3. ASSUME ReceiveBlock  PROVE EntriesKept
  <2>1. /\ Resched([prstate EXCEPT ![currpid] = "PR_RECV"], readylist, qkey)
        /\ currpid # NULLPROC /\ ndefers = 0
    BY <1>3, NotDeferred DEF ReceiveBlock, Program, Loops
  <2>2. Undisturbed({currpid}, prstate') /\ prstate'[currpid] = "PR_RECV"
    BY <1>0, <2>1, BlockUndisturbed DEF States, Eligible
  <2> QED  BY <1>3, <2>2, BlockedKeeps DEF ReceiveBlock, Program, ident
<1>4. ASSUME NEW w \in Waits, RecvtimeBlock(w)  PROVE EntriesKept
  <2>1. /\ Doze("PR_RECTIM", w) /\ w \in Int
        /\ currpid # NULLPROC /\ ndefers = 0
    BY <1>4, DelayAssumption, NotDeferred DEF RecvtimeBlock, Program, Loops
  <2>2. Undisturbed({currpid}, prstate') /\ prstate'[currpid] = "PR_RECTIM"
    BY <2>1, DozeUndisturbed
  <2> QED  BY <1>4, <2>2, BlockedKeeps DEF RecvtimeBlock, Program, ident
<1>5. ASSUME NEW d \in Delays, Sleepms(d)  PROVE EntriesKept
  <2>1. CASE Resched(prstate, readylist, qkey)
    <3>1. Undisturbed({}, prstate')
      BY <1>0, <2>1, YieldUndisturbed
    <3> QED  BY <1>5, <3>1, UndisturbedKeeps DEF Sleepms, Program, ident
  <2>2. CASE Doze("PR_SLEEP", Int32(d))
    <3>1. currpid # NULLPROC /\ ndefers = 0 /\ Int32(d) \in Int
      BY <1>5, DelayAssumption, Int32Type, NotDeferred DEF Sleepms, Program, Loops
    <3>2. Undisturbed({currpid}, prstate') /\ prstate'[currpid] = "PR_SLEEP"
      BY <2>2, <3>1, DozeUndisturbed
    <3> QED  BY <1>5, <3>2, BlockedKeeps DEF Sleepms, Program, ident
  <2> QED  BY <1>5, <2>1, <2>2 DEF Sleepms
<1> QED  BY <1>1, <1>2, <1>3, <1>4, <1>5 DEF MessageCall

\* What is under way inside the kernel, the rest of kill apart, and the clock
\* interrupt free no entry.
LEMMA InsideKeeps ==
  ASSUME IInv,
         \/ SignalnLoop \/ SemdeleteLoop \/ SemresetLoop \/ WakeupLoop
         \/ TakeMessage \/ Preempt \/ ClockTick
  PROVE  EntriesKept
<1>1. pc[currpid] # "kill" /\ UNCHANGED <<prcount, prstk, stkfree, halted>>
  BY DEF SignalnLoop, SemdeleteLoop, SemresetLoop, WakeupLoop, TakeMessage, Preempt, ClockTick,
         Inside, ident
<1>2. UNCHANGED where \/ \E c, a : GoTo(c, a) /\ c # "kill"
  BY DEF SignalnLoop, SemdeleteLoop, SemresetLoop, WakeupLoop, TakeMessage, Preempt, ClockTick,
         EndLoop, Return, Wakeup
<1>3. Undisturbed({}, prstate')
  <2>1. CASE SignalnLoop \/ SemdeleteLoop \/ SemresetLoop \/ WakeupLoop
    BY <2>1, LoopUndisturbed
  <2>2. CASE TakeMessage
    BY <2>2 DEF TakeMessage, sched, Undisturbed
  <2>3. CASE Preempt \/ ClockTick
    BY <2>3, ClockUndisturbed
  <2> QED  BY <2>1, <2>2, <2>3
<1> QED  BY <1>1, <1>2, <1>3, UndisturbedKeeps

-----------------------------------------------------------------------------
(* create, exit and the theorems                                           *)

\* There are finitely many processes, so they can be counted.
LEMMA StayingCount ==
  IsFiniteSet(Staying) /\ Cardinality(Staying) \in Nat
<1>1. IsFiniteSet(Pids)
  BY TableAssumption, FS_Interval DEF Pids
<1>2. IsFiniteSet(Staying)
  BY <1>1, FS_Subset DEF Staying
<1> QED  BY <1>2, FS_CardinalityType

\* A new process gets a stack nobody has and is one more to count; when create
\* fails it has lost a block, but nobody else has it (create.c).
LEMMA CreateExits ==
  ASSUME IInv, ExitInv, NEW prio \in Prios, Create(prio), ~halted
  PROVE  ExitInv'
<1>1. /\ stkfree' = stkfree \ {Getstk} /\ Getstk \in stkfree /\ Getstk \in Stacks
      /\ UNCHANGED <<halted, where>>
  BY GetstkFree DEF Create
<1>2. CASE FreePids = {} \/ prio < 1
  <2>1. UNCHANGED <<prcount, prstate, prstk>>
    BY <1>2 DEF Create
  <2>2. SelfKill' /\ StacksOwned'
    BY <1>1, <2>1 DEF ExitInv, SelfKill, StacksOwned, Live, where
  <2>3. Staying' = Staying
    BY <1>1, <2>1 DEF Staying, where
  <2> QED  BY <1>1, <2>1, <2>2, <2>3 DEF ExitInv
<1>3. CASE ~(FreePids = {} \/ prio < 1)
  <2> DEFINE n == Newpid
  <2>1. n \in Pids /\ prstate[n] = "PR_FREE"
    BY <1>3, NewpidFree DEF FreePids
  <2> HIDE DEF n
  <2>2. /\ prcount' = prcount + 1
        /\ prstate' = [prstate EXCEPT ![n] = "PR_SUSP"]
        /\ prstk' = [prstk EXCEPT ![n] = Getstk]
    BY <1>3 DEF Create, n
  <2>3. /\ pc' = pc /\ arg' = arg /\ pc[n] # "kill"
        /\ \A p \in Pids : prstate'[p] = IF p = n THEN "PR_SUSP" ELSE prstate[p]
        /\ \A p \in Pids : prstk'[p] = IF p = n THEN Getstk ELSE prstk[p]
    BY <1>1, <2>1, <2>2 DEF ExitInv, SelfKill, IInv, TypeOK, where
  <2>4. SelfKill'
    BY <2>1, <2>3 DEF ExitInv, SelfKill
  <2>5. StacksOwned'
    <3>1. Live' = Live \cup {n}
      BY <2>1, <2>3 DEF Live
    <3>2. \A p \in Live : p # n /\ prstk'[p] = prstk[p] /\ prstk[p] # Getstk
      BY <1>1, <2>1, <2>3 DEF Live, ExitInv, StacksOwned
    <3>3. prstk'[n] = Getstk /\ Getstk \notin stkfree'
      BY <1>1, <2>1, <2>3
    <3> QED  BY <1>1, <3>1, <3>2, <3>3 DEF ExitInv, StacksOwned
  <2>6. Staying' = Staying \cup {n} /\ n \notin Staying
    BY <2>1, <2>3 DEF Staying
  <2>7. Cardinality(Staying') = Cardinality(Staying) + 1
    BY <2>6, StayingCount, FS_AddElement
  <2> QED  BY <1>1, <2>2, <2>4, <2>5, <2>7 DEF ExitInv
<1> QED  BY <1>2, <1>3

\* A process that ends itself is no longer counted; if the null process is all that
\* is left besides it, the system stops (kill.c, xdone.c).
LEMMA KillExits ==
  ASSUME IInv, ExitInv, NEW pid \in Pids, Kill(pid), "kill" \notin Calls, ~halted
  PROVE  ExitInv'
<1>1. /\ pid = currpid /\ currpid # NULLPROC /\ pc[currpid] = "user"
      /\ prcount' = prcount - 1
      /\ UNCHANGED <<prstk, stkfree>>
      /\ currpid \in Pids /\ prstate[currpid] = "PR_CURR"
  BY AsItIs DEF Kill, Program, IInv, TypeOK
<1>2. currpid \in Staying
  BY <1>1 DEF Staying
<1>3. IsFiniteSet(Staying) /\ prcount = Cardinality(Staying)
  BY StayingCount DEF ExitInv
<1>4. CASE LastProcess(prcount')
  <2>1. halted' = TRUE /\ UNCHANGED <<sched, msgs, sleepq, where>>
    BY <1>4 DEF Kill
  <2>2. SelfKill' /\ StacksOwned' /\ Staying' = Staying /\ currpid' = currpid
    BY <1>1, <2>1 DEF ExitInv, SelfKill, StacksOwned, Live, Staying, sched, where
  <2>3. Staying \subseteq {NULLPROC, currpid}
    <3>1. NULLPROC \in Staying
      BY AsItIs DEF Staying, IInv, NullReady, ExitInv, SelfKill, CallArgs
    <3>2. SUFFICES ASSUME NEW p \in Staying, p \notin {NULLPROC, currpid}  PROVE FALSE
      OBVIOUS
    <3>3. Cardinality({NULLPROC}) = 1 /\ IsFiniteSet({NULLPROC})
      BY FS_Singleton
    <3>4. Cardinality({NULLPROC} \cup {currpid}) = 2 /\ IsFiniteSet({NULLPROC} \cup {currpid})
      <4>1. currpid \notin {NULLPROC}
        BY <1>1
      <4>2. /\ IsFiniteSet({NULLPROC} \cup {currpid})
            /\ Cardinality({NULLPROC} \cup {currpid}) = Cardinality({NULLPROC}) + 1
        BY <3>3, <4>1, FS_AddElement, Zenon
      <4> QED  BY <3>3, <4>2
    <3> DEFINE two == {NULLPROC} \cup {currpid}
    <3>5. Cardinality(two \cup {p}) = 3
      <4>1. p \notin two /\ IsFiniteSet(two) /\ Cardinality(two) = 2
        BY <3>2, <3>4
      <4> HIDE DEF two
      <4>2. Cardinality(two \cup {p}) = Cardinality(two) + 1
        BY <4>1, FS_AddElement
      <4> QED  BY <4>1, <4>2
    <3>6. ({NULLPROC} \cup {currpid}) \cup {p} \subseteq Staying
      BY <1>2, <3>1
    <3>7. 3 <= Cardinality(Staying)
      BY <1>3, <3>5, <3>6, FS_Subset
    <3> QED  BY <1>1, <1>3, <1>4, <3>7, StayingCount DEF LastProcess
  <2> QED  BY <2>1, <2>2, <2>3 DEF ExitInv
<1>5. CASE ~LastProcess(prcount')
  <2>1. /\ Deliver(prparent[pid], pid) /\ halted' = halted
        /\ GoTo("kill", [id |-> currpid, n |-> 0])
    BY <1>1, <1>5 DEF Kill
  <2>2. prparent[pid] \in Pids
    BY DEF IInv, TypeOK
  <2>3. \A p \in Pids : prstate'[p] = "PR_FREE" <=> prstate[p] = "PR_FREE"
    BY <2>1, <2>2, DeliverKeeps
  <2>4. /\ \A p \in Pids : pc'[p] = IF p = currpid THEN "kill" ELSE pc[p]
        /\ \A p \in Pids \ {currpid} : arg'[p] = arg[p]
        /\ arg'[currpid].id = currpid
    BY <1>1, <2>1 DEF GoTo, IInv, TypeOK
  <2>5. SelfKill'
    BY <1>1, <2>3, <2>4 DEF ExitInv, SelfKill
  <2>6. StacksOwned'
    BY <1>1, <2>3 DEF ExitInv, StacksOwned, Live
  <2>7. Staying' = Staying \ {currpid}
    BY <1>1, <2>3, <2>4 DEF Staying
  <2>8. Cardinality(Staying') = Cardinality(Staying) - 1
    BY <1>2, <1>3, <2>7, FS_RemoveElement
  <2> QED  BY <1>1, <1>3, <2>1, <2>5, <2>6, <2>8 DEF ExitInv
<1> QED  BY <1>4, <1>5

\* The rest of an exit gives back the stack, which nobody else has, and frees the
\* entry of a process that was no longer counted (kill.c).
LEMMA KillFinishExits ==
  ASSUME IInv, ExitInv, KillFinish, ~halted
  PROVE  ExitInv'
<1> DEFINE v == arg[currpid].id
<1>0. pc[currpid] = "kill" /\ currpid \in Pids /\ prstate[currpid] = "PR_CURR"
  BY AsItIs DEF KillFinish, Inside
<1>1. v = currpid /\ v # NULLPROC
  BY <1>0 DEF ExitInv, SelfKill, IInv, CallArgs
<1>2. /\ Resched([prstate EXCEPT ![currpid] = "PR_FREE"], readylist, qkey)
      /\ stkfree' = stkfree \cup {prstk[currpid]}
      /\ pc' = [p \in Pids |-> IF p = currpid THEN "user" ELSE pc[p]]
      /\ arg' = [arg EXCEPT ![currpid] = NoArg]
      /\ UNCHANGED <<prstk, prcount, halted>>
  <2>1. /\ stkfree' = stkfree \cup {prstk[v]}
        /\ pc' = [p \in Pids |-> IF p \in {currpid, v} THEN "user" ELSE pc[p]]
        /\ arg' = [arg EXCEPT ![currpid] = NoArg, ![v] = NoArg]
        /\ UNCHANGED <<prstk, prcount, halted>>
    BY DEF KillFinish
  <2>2. prstate[v] = "PR_CURR" => Resched([prstate EXCEPT ![v] = "PR_FREE"], readylist, qkey)
    BY DEF KillFinish
  <2> HIDE DEF v
  <2>3. [arg EXCEPT ![currpid] = NoArg, ![v] = NoArg] = [arg EXCEPT ![currpid] = NoArg]
    BY <1>0, <1>1 DEF IInv, TypeOK
  <2> QED  BY <1>0, <1>1, <2>1, <2>2, <2>3
<1>3. prstate \in [Pids -> States] /\ qkey \in [Pids -> Int] /\ arg \in [Pids -> [id : Int, n : Int]]
  BY DEF IInv, TypeOK
<1>4. ndefers = 0
  BY <1>0, NotDeferred DEF Loops
<1>5. Undisturbed({currpid}, prstate') /\ prstate'[currpid] = "PR_FREE"
  BY <1>0, <1>1, <1>2, <1>3, <1>4, BlockUndisturbed DEF States, Eligible
<1>6. \A p \in Pids : prstate'[p] = "PR_FREE" <=> prstate[p] = "PR_FREE" \/ p = currpid
  BY <1>5 DEF Undisturbed
<1>7. SelfKill'
  BY <1>2, <1>3, <1>6 DEF ExitInv, SelfKill
<1>8. StacksOwned'
  <2>1. Live' = Live \ {currpid} /\ currpid \in Live
    BY <1>0, <1>6 DEF Live
  <2> QED  BY <1>2, <2>1 DEF ExitInv, StacksOwned
<1>9. Staying' = Staying
  BY <1>0, <1>2, <1>6 DEF Staying
<1> QED  BY <1>2, <1>7, <1>8, <1>9 DEF ExitInv

\* Once the system has stopped nothing happens (xdone.c).
LEMMA Stopped ==
  ASSUME Next
  PROVE  ~halted
BY DEF Next, ProcessCall, SemaphoreCall, MessageCall, InKernel, Create, Resume, Suspend, Kill,
       Chprio, Yield, Semcreate, Wait, Signal, Semdelete, Signaln, Semreset, Send, Receive,
       ReceiveBlock, RecvtimeBlock, Sleepms, KillFinish, SignalnLoop, SemdeleteLoop,
       SemresetLoop, TakeMessage, WakeupLoop, Preempt, ClockTick, Program, Inside

\* The invariant of processes that only end themselves.
LEMMA ExitInvariance == "kill" \notin Calls => (Spec => []ExitInv)
<1> SUFFICES ASSUME "kill" \notin Calls  PROVE Spec => []ExitInv
  OBVIOUS
<1>1. Init => ExitInv
  <2> SUFFICES ASSUME Init  PROVE ExitInv
    OBVIOUS
  <2>1. /\ 0 \in Pids /\ 1 \in Pids
        /\ \A p \in Pids : prstate[p] = "PR_FREE" <=> p \notin {0, 1}
        /\ \A p \in Pids : pc[p] = "user"
    BY TableAssumption DEF Init, Pids
  <2>2. Staying = {0} \cup {1} /\ Live = {0, 1}
    BY <2>1 DEF Staying, Live
  <2>3. Cardinality(Staying) = 2
    <3>1. IsFiniteSet({0}) /\ Cardinality({0}) = 1
      BY FS_Singleton
    <3> QED  BY <2>2, <3>1, FS_AddElement
  <2>4. SelfKill
    BY <2>1 DEF SelfKill
  <2>5. StacksOwned
    <3>1. prstk[0] = NSTACK /\ prstk[1] = NSTACK - 1 /\ stkfree = 1 .. NSTACK - 2
      BY <2>1 DEF Init
    <3> QED  BY <2>2, <3>1, StackAssumption DEF StacksOwned
  <2> QED  BY <2>3, <2>4, <2>5 DEF Init, ExitInv
<1>2. IInv /\ ExitInv /\ [Next]_vars => ExitInv'
  <2> SUFFICES ASSUME IInv, ExitInv, [Next]_vars  PROVE ExitInv'
    OBVIOUS
  <2>1. CASE UNCHANGED vars
    BY <2>1 DEF vars, sched, ident, where, ExitInv, SelfKill, StacksOwned, Live, Staying
  <2>2. CASE Next
    <3>1. ~halted
      BY <2>2, Stopped
    <3>2. CASE ProcessCall
      BY <3>1, <3>2, CreateExits, KillExits, ProcessCallKeeps, EntriesStep DEF ProcessCall
    <3>3. CASE SemaphoreCall
      BY <3>1, <3>3, SemaphoreCallKeeps, EntriesStep
    <3>4. CASE MessageCall
      BY <3>1, <3>4, MessageCallKeeps, EntriesStep
    <3>5. CASE InKernel \/ ClockTick
      BY <3>1, <3>5, KillFinishExits, InsideKeeps, EntriesStep DEF InKernel
    <3> QED  BY <2>2, <3>2, <3>3, <3>4, <3>5 DEF Next
  <2> QED  BY <2>1, <2>2
<1> QED  BY <1>1, <1>2, Invariance, PTL DEF Spec

\* Whoever is not on the way out itself is what the two properties count.
LEMMA WhoStays ==
  ASSUME SelfKill
  PROVE  Live \ Dying = Staying
<1>1. \A p \in Live : p \in Dying <=> pc[p] = "kill"
  BY DEF SelfKill, Live, Dying
<1> QED  BY <1>1 DEF Live, Staying

\* As long as processes only end themselves, no live process uses a stack that is
\* free or that another one uses, however creates that fail, exits and parents woken
\* by them interleave (create.c, kill.c).
THEOREM NoSharedStacks == "kill" \notin Calls => (Spec => []StacksOwned)
<1>1. ExitInv => StacksOwned
  BY DEF ExitInv
<1> QED  BY <1>1, ExitInvariance, PTL

\* As long as processes only end themselves, prcount counts the processes that are
\* not on their way out (create.c, kill.c).
THEOREM CountIsExact == "kill" \notin Calls => (Spec => []PrcountExact)
<1>1. ExitInv => PrcountExact
  BY WhoStays DEF ExitInv, PrcountExact
<1> QED  BY <1>1, ExitInvariance, PTL

\* As long as processes only end themselves, the system stops only when nobody but
\* the null process and the one that ends last is left (kill.c, xdone.c).
THEOREM StopsWithLast == "kill" \notin Calls => (Spec => []HaltsWithLast)
<1>1. ExitInv => HaltsWithLast
  BY WhoStays DEF ExitInv, HaltsWithLast
<1> QED  BY <1>1, ExitInvariance, PTL

-----------------------------------------------------------------------------
(* Whose turn it is *)

Sorted(q, key) == \A i, j \in DOMAIN q : i < j => key[q[i]] >= key[q[j]]

\* Ready processes have their priority as the key, and no ready process is above
\* the current one, unless a switch to it has been put off.
Keyed(st, key) == \A p \in Pids : st[p] = "PR_READY" => key[p] = prprio[p]
Top == \A p \in Pids : prstate[p] = "PR_READY" => prprio[p] <= prprio[currpid]
Ranked == /\ Keyed(prstate, qkey)
          /\ ndefers = 0 \/ ~attempt => Top

\* The same of the next state, with the priorities as they are now.
KeyedNext == \A p \in Pids : prstate'[p] = "PR_READY" => qkey'[p] = prprio[p]
TopNext == \A p \in Pids : prstate'[p] = "PR_READY" => prprio[p] <= prprio[currpid']

-----------------------------------------------------------------------------
(* Order of the lists                                                      *)

\* insert keeps a list in order that does not hold the process yet (insert.c).
LEMMA SortedInsert ==
  ASSUME NEW S, NEW q \in Seq(S), NEW key \in [S -> Int], NEW e \in S, NEW k \in Int,
         Sorted(q, key), ~OnQueue(q, e)
  PROVE  Sorted(Insert(q, key, e, k), [key EXCEPT ![e] = k])
<1> DEFINE i == InsertPlace(q, key, k)
           r == Insert(q, key, e, k)
           key1 == [key EXCEPT ![e] = k]
<1>1. /\ i \in 1 .. Len(q) + 1
      /\ \A j \in 1 .. i - 1 : key[q[j]] >= k
      /\ i <= Len(q) => key[q[i]] < k
  BY InsertPlaceFacts
<1>2. Len(q) \in Nat /\ DOMAIN q = 1 .. Len(q) /\ \A j \in 1 .. Len(q) : q[j] \in S /\ key[q[j]] \in Int
  BY LenProperties, ElementOfSeq
<1>3. r = InsertAt(q, i, e)
  BY DEF Insert
<1> HIDE DEF i, r
<1>4. i \in Nat \ {0} /\ i <= Len(q) + 1
  BY <1>1, <1>2
<1>5. /\ r \in Seq(S) /\ Len(r) = Len(q) + 1
      /\ \A j \in 1 .. i - 1 : r[j] = q[j]
      /\ r[i] = e
      /\ \A j \in i + 1 .. Len(q) + 1 : r[j] = q[j-1]
  <2>1. InsertedAt(S, q, i, e, InsertAt(q, i, e))  BY <1>4, InsertAtFacts
  <2> QED  BY <1>3, <2>1 DEF InsertedAt
<1>6. DOMAIN r = 1 .. Len(q) + 1
  BY <1>5, LenProperties
<1>7. key1[e] = k /\ \A j \in 1 .. Len(q) : key1[q[j]] = key[q[j]]
  BY <1>2 DEF OnQueue
<1> HIDE DEF key1
<1>8. \A j \in i .. Len(q) : key[q[j]] < k
  <2> SUFFICES ASSUME NEW j \in i .. Len(q)  PROVE key[q[j]] < k
    OBVIOUS
  <2>1. i \in 1 .. Len(q) /\ j \in 1 .. Len(q)  BY <1>1, <1>2
  <2>2. key[q[i]] >= key[q[j]]  BY <1>2, <2>1 DEF Sorted
  <2> QED  BY <1>1, <1>2, <2>1, <2>2
<1>9. \A j \in 1 .. i - 1 : j \in 1 .. Len(q) /\ key1[r[j]] = key[q[j]]
  BY <1>1, <1>2, <1>5, <1>7
<1>10. \A j \in i + 1 .. Len(q) + 1 : j - 1 \in i .. Len(q) /\ j - 1 \in 1 .. Len(q)
                                      /\ key1[r[j]] = key[q[j-1]]
  <2> SUFFICES ASSUME NEW j \in i + 1 .. Len(q) + 1
               PROVE  /\ j - 1 \in i .. Len(q) /\ j - 1 \in 1 .. Len(q)
                      /\ key1[r[j]] = key[q[j-1]]
    OBVIOUS
  <2>1. j - 1 \in i .. Len(q) /\ j - 1 \in 1 .. Len(q)  BY <1>1, <1>2
  <2>2. r[j] = q[j-1]  BY <1>5
  <2> QED  BY <1>7, <2>1, <2>2
<1>11. ASSUME NEW a \in DOMAIN r, NEW b \in DOMAIN r, a < b  PROVE key1[r[a]] >= key1[r[b]]
  <2>1. CASE b < i
    <3>1. a \in 1 .. i - 1 /\ b \in 1 .. i - 1  BY <1>6, <1>11, <2>1, <1>1, <1>2
    <3>2. key[q[a]] >= key[q[b]]  BY <1>2, <1>9, <1>11, <3>1 DEF Sorted
    <3> QED  BY <1>9, <3>1, <3>2
  <2>2. CASE b = i
    <3>1. a \in 1 .. i - 1  BY <1>6, <1>11, <2>2, <1>1, <1>2
    <3> QED  BY <1>1, <1>5, <1>7, <1>9, <2>2, <3>1
  <2>3. CASE b > i
    <3>1. b \in i + 1 .. Len(q) + 1  BY <1>6, <2>3, <1>1, <1>2
    <3>2. CASE a < i
      <4>1. a \in 1 .. i - 1  BY <1>6, <3>2, <1>1, <1>2
      <4>2. a \in 1 .. Len(q) /\ b - 1 \in 1 .. Len(q) /\ a < b - 1
        <5>1. a \in 1 .. Len(q)  BY <1>9, <4>1
        <5>2. b - 1 \in 1 .. Len(q)  BY <1>10, <3>1
        <5>3. a < i /\ i <= b - 1 /\ i \in Nat /\ a \in Nat /\ b \in Nat
          BY <1>1, <1>2, <3>1, <4>1
        <5> QED  BY <5>1, <5>2, <5>3
      <4>3. key[q[a]] >= key[q[b-1]]  BY <1>2, <4>2 DEF Sorted
      <4> QED  BY <1>9, <1>10, <3>1, <4>1, <4>3
    <3>3. CASE a = i
      <4>1. key1[r[a]] = k /\ key1[r[b]] = key[q[b-1]] /\ key[q[b-1]] < k /\ key[q[b-1]] \in Int
        BY <1>2, <1>5, <1>7, <1>8, <1>10, <3>1, <3>3
      <4> QED  BY <4>1
    <3>4. CASE a > i
      <4>1. a \in i + 1 .. Len(q) + 1  BY <1>6, <3>4, <1>1, <1>2
      <4>2. a - 1 \in 1 .. Len(q) /\ b - 1 \in 1 .. Len(q) /\ a - 1 < b - 1
        <5>1. b - 1 \in 1 .. Len(q)  BY <1>10, <3>1
        <5>2. a - 1 \in 1 .. Len(q)  BY <1>10, <4>1
        <5>3. a \in Int /\ b \in Int  BY <1>1, <1>2, <3>1, <4>1
        <5> QED  BY <1>11, <5>1, <5>2, <5>3
      <4>3. key[q[a-1]] >= key[q[b-1]]  BY <1>2, <4>2 DEF Sorted
      <4> QED  BY <1>10, <3>1, <4>1, <4>3
    <3> QED  BY <3>2, <3>3, <3>4, <1>1, <1>2, <1>6, <1>11
  <2> QED  BY <2>1, <2>2, <2>3, <1>1, <1>2, <1>6
<1> QED  BY <1>11 DEF Sorted, r, key1

\* dequeue keeps a list in order, and the head has the largest key (queue.c).
LEMMA SortedTail ==
  ASSUME NEW S, NEW q \in Seq(S), NEW key \in [S -> Int], q # <<>>, Sorted(q, key)
  PROVE  /\ Sorted(Tail(q), key)
         /\ \A p : OnQueue(q, p) => key[p] <= key[q[1]]
<1>1. Len(q) \in Nat \ {0} /\ DOMAIN q = 1 .. Len(q) /\ \A j \in 1 .. Len(q) : q[j] \in S /\ key[q[j]] \in Int
  BY LenProperties, ElementOfSeq, EmptySeq
<1>2. /\ Tail(q) \in Seq(S) /\ Len(Tail(q)) = Len(q) - 1
      /\ \A i \in 1 .. Len(Tail(q)) : Tail(q)[i] = q[i+1]
  BY HeadTailProperties
<1>3. DOMAIN Tail(q) = 1 .. Len(q) - 1
  BY <1>2, LenProperties
<1>4. ASSUME NEW i \in DOMAIN Tail(q), NEW j \in DOMAIN Tail(q), i < j
      PROVE  key[Tail(q)[i]] >= key[Tail(q)[j]]
  <2>1. /\ Tail(q)[i] = q[i+1] /\ Tail(q)[j] = q[j+1]
        /\ i + 1 \in 1 .. Len(q) /\ j + 1 \in 1 .. Len(q) /\ i + 1 < j + 1
    BY <1>1, <1>2, <1>3, <1>4
  <2> QED  BY <1>1, <2>1 DEF Sorted
<1>5. ASSUME NEW p, OnQueue(q, p)  PROVE key[p] <= key[q[1]]
  <2>1. PICK j \in 1 .. Len(q) : q[j] = p  BY <1>1, <1>5 DEF OnQueue
  <2>2. 1 \in DOMAIN q /\ j \in DOMAIN q  BY <1>1, <2>1
  <2>3. CASE j = 1  BY <1>1, <2>1, <2>2, <2>3
  <2>4. CASE j # 1
    <3>1. 1 < j  BY <1>1, <2>1, <2>4
    <3>2. key[q[1]] >= key[q[j]]  BY <2>2, <3>1 DEF Sorted
    <3> QED  BY <1>1, <2>1, <2>2, <3>2
  <2> QED  BY <2>3, <2>4
<1> QED  BY <1>4, <1>5 DEF Sorted

\* getitem keeps a list in order (getitem.c).
LEMMA SortedGetItem ==
  ASSUME NEW S, NEW q \in Seq(S), NEW key \in [S -> Int], NEW e, OnQueue(q, e), Sorted(q, key)
  PROVE  Sorted(GetItem(q, e), key)
<1> DEFINE i == PlaceOf(q, e)
           r == GetItem(q, e)
<1>1. Len(q) \in Nat /\ DOMAIN q = 1 .. Len(q)
  BY LenProperties
<1>2. i \in 1 .. Len(q)
  <2>1. \E j \in DOMAIN q : q[j] = e  BY DEF OnQueue
  <2>2. i \in DOMAIN q  BY <2>1 DEF PlaceOf
  <2> QED  BY <1>1, <2>2
<1>3. r = RemoveAt(q, i)  BY DEF GetItem
<1> HIDE DEF i, r
<1>4. /\ r \in Seq(S) /\ Len(r) = Len(q) - 1
      /\ \A j \in 1 .. Len(q) - 1 : r[j] = IF j < i THEN q[j] ELSE q[j+1]
  BY <1>2, <1>3, RemoveAtFacts DEF RemovedAt
<1>5. DOMAIN r = 1 .. Len(q) - 1  BY <1>4, LenProperties
<1>6. ASSUME NEW a \in DOMAIN r, NEW b \in DOMAIN r, a < b  PROVE key[r[a]] >= key[r[b]]
  <2>1. PICK c \in 1 .. Len(q), d \in 1 .. Len(q) : r[a] = q[c] /\ r[b] = q[d] /\ c < d
    <3> DEFINE c == IF a < i THEN a ELSE a + 1
               d == IF b < i THEN b ELSE b + 1
    <3>1. r[a] = q[c] /\ r[b] = q[d]
      BY <1>4, <1>5, <1>6
    <3>2. i \in Int /\ a \in Int /\ b \in Int /\ Len(q) \in Int
      BY <1>1, <1>2, <1>5, <1>6
    <3>3. 1 <= a /\ a <= Len(q) - 1 /\ 1 <= b /\ b <= Len(q) - 1
      BY <1>1, <1>5, <1>6
    <3>4. c \in 1 .. Len(q)
      BY <3>2, <3>3
    <3>5. d \in 1 .. Len(q)
      BY <3>2, <3>3
    <3>6. c < d
      BY <1>6, <3>2
    <3> HIDE DEF c, d
    <3> QED  BY <3>1, <3>4, <3>5, <3>6
  <2> QED  BY <1>1, <2>1 DEF Sorted
<1> QED  BY <1>6 DEF Sorted, r

\* A list stays in order when only the keys of others change.
LEMMA SortedSame ==
  ASSUME NEW S, NEW q \in Seq(S), NEW key, NEW other, Sorted(q, key),
         \A p : OnQueue(q, p) => other[p] = key[p]
  PROVE  Sorted(q, other)
<1>1. \A i \in DOMAIN q : other[q[i]] = key[q[i]]  BY DEF OnQueue
<1> QED  BY <1>1 DEF Sorted

\* insertd writes the keys of the process it inserts and of one on the delta list
\* (insertd.c).
LEMMA InsertdElse ==
  ASSUME NEW S, NEW q \in Seq(S), NEW key \in [S -> Int], NEW e \in S, NEW k \in Int,
         NEW p \in S, p # e, ~OnQueue(q, p)
  PROVE  InsertdKeys(q, key, e, k)[p] = key[p]
<1> DEFINE i == InsertdPlace(q, key, k)
           left == k - DeltaSum(q, key)[i-1]
           own == [key EXCEPT ![e] = left]
<1>1. i \in 1 .. Len(q) + 1  BY InsertdPlaceFacts
<1>2. InsertdKeys(q, key, e, k) = IF i <= Len(q) THEN [own EXCEPT ![q[i]] = @ - left] ELSE own
  BY DEF InsertdKeys
<1> HIDE DEF i, left
<1>3. i <= Len(q) => q[i] # p
  BY <1>1, LenProperties DEF OnQueue
<1> QED  BY <1>2, <1>3

\* unsleep writes the key of a process on the delta list (unsleep.c).
LEMMA UnsleepElse ==
  ASSUME NEW S, NEW q \in Seq(S), NEW key \in [S -> Int], NEW e, OnQueue(q, e),
         NEW p \in S, ~OnQueue(q, p)
  PROVE  UnsleepKeys(q, key, e)[p] = key[p]
<1> DEFINE i == PlaceOf(q, e)
<1>1. i \in 1 .. Len(q)
  <2>1. \E j \in DOMAIN q : q[j] = e  BY DEF OnQueue
  <2>2. i \in DOMAIN q  BY <2>1 DEF PlaceOf
  <2> QED  BY <2>2, LenProperties
<1>2. UnsleepKeys(q, key, e) = IF i < Len(q) THEN [key EXCEPT ![q[i+1]] = @ + key[e]] ELSE key
  BY DEF UnsleepKeys
<1> HIDE DEF i
<1>3. i < Len(q) => q[i+1] # p
  <2>1. Len(q) \in Nat /\ DOMAIN q = 1 .. Len(q)  BY LenProperties
  <2>2. i < Len(q) => i + 1 \in DOMAIN q  BY <1>1, <2>1
  <2> QED  BY <2>2 DEF OnQueue
<1> QED  BY <1>2, <1>3

-----------------------------------------------------------------------------
(* The scheduler                                                           *)

\* What a step makes of an ordered ready list: it is still in order, and if it was
\* ranked it is again, unless the switch this calls for is put off.
Orders ==
  /\ ReadySorted'
  /\ Ranked => KeyedNext /\ (ndefers = 0 \/ ndefers' = 0 \/ ~attempt' => TopNext)

\* Keys that may differ from queuetab's for processes that are not ready.
ReadyKeys(key) ==
  key \in [Pids -> Int] /\ \A p \in Pids : prstate[p] = "PR_READY" => key[p] = qkey[p]

\* resched, not deferred, passes the processor to the head of a list in order: if
\* the keys are the priorities, to one of the highest (resched.c).
LEMMA DispatchOrders ==
  ASSUME TypeOK, NEW st, NEW rl, NEW key, NEW slice, Consistent(st, rl, key), Sorted(rl, key),
         Dispatch(st, rl, key, slice)
  PROVE  ReadySorted' /\ (Keyed(st, key) => KeyedNext /\ TopNext)
<1> DEFINE eligible == st[currpid] = "PR_CURR"
           rl1  == IF eligible THEN Insert(rl, key, currpid, prprio[currpid]) ELSE rl
           st1  == IF eligible THEN [st EXCEPT ![currpid] = "PR_READY"] ELSE st
           key1 == IF eligible THEN [key EXCEPT ![currpid] = prprio[currpid]] ELSE key
           keeps == eligible /\ (rl = <<>> \/ prprio[currpid] > key[rl[1]])
<1>1. /\ st \in [Pids -> States] /\ rl \in Seq(Pids) /\ key \in [Pids -> Int]
      /\ \A p \in Pids : OnQueue(rl, p) <=> st[p] = "PR_READY"
      /\ st[NULLPROC] \in Eligible
      /\ \A p \in Pids : st[p] = "PR_CURR" => p = currpid
  BY DEF Consistent
<1>2. currpid \in Pids /\ prprio \in [Pids -> Int] /\ NULLPROC \in Pids
  BY TableAssumption DEF TypeOK, Pids, NULLPROC
<1>3. CASE keeps
  <2>1. prstate' = st /\ readylist' = rl /\ qkey' = key /\ currpid' = currpid
    BY <1>3 DEF Dispatch
  <2>2. ReadySorted'
    BY <2>1 DEF ReadySorted, Sorted
  <2>3. ASSUME Keyed(st, key), NEW p \in Pids, st[p] = "PR_READY"
        PROVE  prprio[p] <= prprio[currpid]
    <3>1. OnQueue(rl, p) /\ key[p] = prprio[p]  BY <1>1, <2>3 DEF Keyed
    <3>2. rl # <<>>  BY <3>1 DEF OnQueue
    <3>3. key[p] <= key[rl[1]]  BY <1>1, <3>1, <3>2, SortedTail
    <3>4. rl[1] \in Pids  BY <1>1, <3>2, TailFacts
    <3> QED  BY <1>1, <1>2, <1>3, <3>1, <3>2, <3>3, <3>4
  <2> QED  BY <2>1, <2>2, <2>3 DEF Keyed, KeyedNext, TopNext
<1>4. CASE ~keeps
  <2>1. /\ currpid' = rl1[1] /\ prstate' = [st1 EXCEPT ![rl1[1]] = "PR_CURR"]
        /\ readylist' = Tail(rl1) /\ qkey' = key1
    BY <1>4 DEF Dispatch
  <2>2. /\ rl1 \in Seq(Pids) /\ rl1 # <<>> /\ Sorted(rl1, key1)
        /\ \A p \in Pids : st1[p] = "PR_READY" => OnQueue(rl1, p)
    <3>1. CASE eligible
      <4>1. ~OnQueue(rl, currpid)  BY <1>1, <1>2, <3>1
      <4>2. Grows(Pids, rl, currpid, Insert(rl, key, currpid, prprio[currpid]))
        BY <1>1, <1>2, InsertFacts
      <4>3. Sorted(Insert(rl, key, currpid, prprio[currpid]), [key EXCEPT ![currpid] = prprio[currpid]])
        BY <1>1, <1>2, <4>1, SortedInsert
      <4>4. \A p \in Pids : st1[p] = IF p = currpid THEN "PR_READY" ELSE st[p]
        BY <1>1, <3>1
      <4>5. /\ rl1 = Insert(rl, key, currpid, prprio[currpid])
            /\ key1 = [key EXCEPT ![currpid] = prprio[currpid]]
        BY <3>1
      <4> HIDE DEF rl1, st1, key1, eligible
      <4> QED  BY <1>1, <4>2, <4>3, <4>4, <4>5 DEF Grows
    <3>2. CASE ~eligible
      <4>1. rl1 = rl /\ st1 = st /\ key1 = key  BY <3>2
      <4>2. OnQueue(rl, NULLPROC)  BY <1>1, <1>2, <3>2 DEF Eligible
      <4>3. rl # <<>>  BY <4>2 DEF OnQueue
      <4> QED  BY <4>1, <4>3, <1>1
    <3> QED  BY <3>1, <3>2
  <2>3. st1 \in [Pids -> States] /\ key1 \in [Pids -> Int]
    BY <1>1, <1>2 DEF States
  <2>4. Keyed(st, key) => \A p \in Pids : st1[p] = "PR_READY" => key1[p] = prprio[p]
    BY <1>1, <1>2 DEF Keyed
  <2> HIDE DEF rl1, st1, key1, keeps, eligible
  <2>5. Sorted(Tail(rl1), key1) /\ \A p : OnQueue(rl1, p) => key1[p] <= key1[rl1[1]]
    BY <2>2, <2>3, SortedTail
  <2>6. ReadySorted'
    BY <2>1, <2>5 DEF ReadySorted, Sorted
  <2>7. rl1[1] \in Pids /\ OnQueue(rl1, rl1[1])
    BY <2>2, TailFacts
  <2>8. \A p \in Pids : prstate'[p] = "PR_READY" => p # rl1[1] /\ st1[p] = "PR_READY"
    BY <2>1, <2>3, <2>7
  <2>9. ASSUME Keyed(st, key)  PROVE KeyedNext
    BY <2>1, <2>4, <2>8, <2>9 DEF KeyedNext
  <2>10. ASSUME Keyed(st, key), st1[rl1[1]] = "PR_READY"  PROVE TopNext
    <3> SUFFICES ASSUME NEW p \in Pids, prstate'[p] = "PR_READY"
                 PROVE  prprio[p] <= prprio[rl1[1]]
      BY <2>1 DEF TopNext
    <3>1. key1[p] <= key1[rl1[1]]  BY <2>2, <2>5, <2>8
    <3> QED  BY <2>4, <2>7, <2>8, <2>10, <3>1
  <2>11. st1[rl1[1]] = "PR_READY"
    <3>1. CASE eligible
      <4>1. Grows(Pids, rl, currpid, rl1)
        BY <1>1, <1>2, <3>1, InsertFacts DEF rl1
      <4>2. OnQueue(rl, rl1[1]) \/ rl1[1] = currpid  BY <2>7, <4>1 DEF Grows
      <4>3. st[rl1[1]] = "PR_READY" \/ rl1[1] = currpid  BY <1>1, <2>7, <4>2
      <4> QED  BY <1>1, <1>2, <3>1, <4>3 DEF st1
    <3>2. CASE ~eligible
      BY <1>1, <2>7, <3>2 DEF rl1, st1
    <3> QED  BY <3>1, <3>2
  <2> QED  BY <2>6, <2>9, <2>10, <2>11
<1> QED  BY <1>3, <1>4

\* resched, which leaves an attempt behind while it is deferred (resched.c).
LEMMA ReschedOrders ==
  ASSUME IInv, NEW st, NEW rl, NEW key, Consistent(st, rl, key), Sorted(rl, key),
         Resched(st, rl, key), Ranked => Keyed(st, key),
         ndefers' = ndefers
  PROVE  Orders
<1>0. TypeOK /\ ndefers \in Nat
  BY DEF IInv, TypeOK
<1>1. CASE ndefers > 0
  <2>1. attempt' = TRUE /\ prstate' = st /\ readylist' = rl /\ qkey' = key
    BY <1>1 DEF Resched
  <2>2. ReadySorted'
    BY <2>1 DEF ReadySorted, Sorted
  <2> QED  BY <1>0, <1>1, <2>1, <2>2 DEF Orders, Keyed, KeyedNext
<1>2. CASE ~(ndefers > 0)
  <2>1. Dispatch(st, rl, key, preempt)
    BY <1>2 DEF Resched
  <2> QED  BY <1>0, <2>1, DispatchOrders DEF Orders
<1> QED  BY <1>1, <1>2

\* A step that lets the current process go on and neither adds a ready process nor
\* takes one away.
LEMMA GoesOnOrders ==
  ASSUME IInv, ReadySorted, UNCHANGED <<readylist, currpid>>, ReadyKeys(qkey'),
         \A p \in Pids : prstate'[p] = "PR_READY" <=> prstate[p] = "PR_READY",
         attempt' = attempt \/ ndefers = 0, ndefers' = ndefers \/ ndefers = 0
  PROVE  Orders
<1>1. readylist \in Seq(Pids) /\ \A p \in Pids : OnQueue(readylist, p) <=> prstate[p] = "PR_READY"
  BY DEF IInv, TypeOK, QueuesAgree, ReadyAgrees
<1>2. \A p : OnQueue(readylist, p) => p \in Pids
  BY <1>1, LenProperties, ElementOfSeq DEF OnQueue
<1>3. Sorted(readylist, qkey')
  <2>1. Sorted(readylist, qkey)  BY DEF ReadySorted, Sorted
  <2>2. \A p : OnQueue(readylist, p) => qkey'[p] = qkey[p]  BY <1>1, <1>2 DEF ReadyKeys
  <2> QED  BY <1>1, <2>1, <2>2, SortedSame
<1>4. ReadySorted'
  BY <1>3 DEF ReadySorted, Sorted
<1>5. Ranked => KeyedNext
  BY DEF Ranked, Keyed, KeyedNext, ReadyKeys
<1>6. Ranked /\ (ndefers = 0 \/ ndefers' = 0 \/ ~attempt') => TopNext
  BY DEF Ranked, Top, TopNext
<1> QED  BY <1>4, <1>5, <1>6 DEF Orders

\* A call that leaves the scheduler alone.
LEMMA QuietOrders ==
  ASSUME IInv, ReadySorted, UNCHANGED <<sched, ndefers>>
  PROVE  Orders
<1>1. ReadyKeys(qkey')
  BY DEF ReadyKeys, sched, IInv, TypeOK
<1> QED  BY <1>1, GoesOnOrders DEF sched

\* ready (ready.c)
LEMMA ReadyOrders ==
  ASSUME IInv, ReadySorted, NEW pid \in Pids, NEW key, ReadyKeys(key),
         prstate[pid] \notin Eligible \cup {"PR_FREE"}, Ready(pid, key), ndefers' = ndefers
  PROVE  Orders
<1> DEFINE st  == [prstate EXCEPT ![pid] = "PR_READY"]
           rl  == Insert(readylist, key, pid, prprio[pid])
           k   == [key EXCEPT ![pid] = prprio[pid]]
<1>1. Resched(st, rl, k)
  BY DEF Ready, isbadpid
<1>2. /\ prprio[pid] \in Int /\ prstate \in [Pids -> States] /\ readylist \in Seq(Pids)
      /\ key \in [Pids -> Int]
  BY DEF IInv, TypeOK, ReadyKeys
<1>3. NoDuplicates(readylist) /\ ~OnQueue(readylist, pid)
  BY DEF IInv, QueuesAgree, ReadyAgrees, Eligible
<1>4. Grows(Pids, readylist, pid, rl)
  BY <1>2, InsertFacts
<1>5. Sorted(readylist, key)
  <2>1. Sorted(readylist, qkey)  BY DEF ReadySorted, Sorted
  <2>2. \A p : OnQueue(readylist, p) => p \in Pids
    BY <1>2, LenProperties, ElementOfSeq DEF OnQueue
  <2>3. \A p : OnQueue(readylist, p) => key[p] = qkey[p]
    BY <2>2 DEF ReadyKeys, IInv, QueuesAgree, ReadyAgrees
  <2> QED  BY <1>2, <2>1, <2>3, SortedSame
<1>6. Sorted(rl, k)
  BY <1>2, <1>3, <1>5, SortedInsert
<1>7. st \in [Pids -> States] /\ k \in [Pids -> Int]
      /\ \A p \in Pids : /\ st[p] = IF p = pid THEN "PR_READY" ELSE prstate[p]
                         /\ k[p] = IF p = pid THEN prprio[pid] ELSE key[p]
  BY <1>2 DEF States
<1> HIDE DEF rl, st, k
<1>8. Consistent(st, rl, k)
  BY <1>3, <1>4, <1>7, AsItIs DEF Consistent, Eligible, Grows
<1>9. Ranked => Keyed(st, k)
  BY <1>7 DEF Ranked, Keyed, ReadyKeys
<1> QED  BY <1>1, <1>6, <1>8, <1>9, ReschedOrders

\* resched as called by a process that blocks or stays eligible (wait.c, receive.c,
\* sleep.c, yield.c, clkhandler.c)
LEMMA RescheduleOrders ==
  ASSUME IInv, ReadySorted, NEW s \in States \ {"PR_READY"}, NEW key, ReadyKeys(key),
         s \in Eligible \/ currpid # NULLPROC,
         Resched([prstate EXCEPT ![currpid] = s], readylist, key), ndefers' = ndefers
  PROVE  Orders
<1> DEFINE st == [prstate EXCEPT ![currpid] = s]
<1>1. prstate \in [Pids -> States] /\ currpid \in Pids /\ readylist \in Seq(Pids)
  BY DEF IInv, TypeOK
<1>2. st \in [Pids -> States] /\ \A p \in Pids : st[p] = IF p = currpid THEN s ELSE prstate[p]
  BY <1>1
<1>3. \A p \in Pids : prstate[p] = "PR_CURR" <=> p = currpid
  BY DEF IInv, QueuesAgree, CurrAgrees
<1> HIDE DEF st
<1>4. Consistent(st, readylist, key)
  BY <1>1, <1>2, <1>3, AsItIs DEF Consistent, Eligible, ReadyKeys
<1>5. Sorted(readylist, key)
  <2>1. Sorted(readylist, qkey)  BY DEF ReadySorted, Sorted
  <2>2. \A p : OnQueue(readylist, p) => p \in Pids
    BY <1>1, LenProperties, ElementOfSeq DEF OnQueue
  <2>3. \A p : OnQueue(readylist, p) => key[p] = qkey[p]
    BY <2>2 DEF ReadyKeys, IInv, QueuesAgree, ReadyAgrees
  <2> QED  BY <1>1, <2>1, <2>3, SortedSame
<1>6. Ranked => Keyed(st, key)
  BY <1>2, <1>3 DEF Ranked, Keyed, ReadyKeys
<1> QED  BY <1>4, <1>5, <1>6, ReschedOrders DEF st

\* The current process stays eligible (yield.c, sleep.c, clkhandler.c).
LEMMA YieldOrders ==
  ASSUME IInv, ReadySorted, NEW key, ReadyKeys(key), Resched(prstate, readylist, key),
         ndefers' = ndefers
  PROVE  Orders
<1>1. [prstate EXCEPT ![currpid] = "PR_CURR"] = prstate
  BY AsItIs DEF IInv, TypeOK
<1> QED  BY <1>1, RescheduleOrders DEF States, Eligible

\* DEFER_STOP switches to whoever was made ready meanwhile (resched.c).
LEMMA StopOrders ==
  ASSUME IInv, ReadySorted, DeferStop, ndefers = 1
  PROVE  Orders
<1>1. CASE attempt
  <2>1. Dispatch(prstate, readylist, qkey, preempt)
    BY <1>1 DEF DeferStop
  <2>2. Sorted(readylist, qkey) /\ TypeOK
    BY DEF ReadySorted, Sorted, IInv
  <2>3. ReadySorted' /\ (Keyed(prstate, qkey) => KeyedNext /\ TopNext)
    BY <2>1, <2>2, AsItIs, DispatchOrders
  <2> QED  BY <2>3 DEF Orders, Ranked
<1>2. CASE ~attempt
  <2>1. UNCHANGED sched
    BY <1>2 DEF DeferStop
  <2>2. ReadySorted'
    BY <2>1 DEF ReadySorted, sched
  <2> QED  BY <1>2, <2>1, <2>2 DEF Orders, Ranked, Keyed, Top, KeyedNext, TopNext, sched
<1> QED  BY <1>1, <1>2

\* A ready process is taken off the list (suspend.c, kill.c).
LEMMA LeaveOrders ==
  ASSUME IInv, ReadySorted, NEW v \in Pids, prstate[v] = "PR_READY",
         readylist' = GetItem(readylist, v),
         NEW s \in States \ {"PR_READY"}, prstate' = [prstate EXCEPT ![v] = s],
         UNCHANGED <<qkey, currpid, attempt, ndefers>>
  PROVE  Orders
<1>1. /\ readylist \in Seq(Pids) /\ qkey \in [Pids -> Int] /\ prstate \in [Pids -> States]
      /\ OnQueue(readylist, v)
  BY DEF IInv, TypeOK, QueuesAgree, ReadyAgrees
<1>2. Sorted(readylist, qkey)
  BY DEF ReadySorted, Sorted
<1>3. Sorted(readylist', qkey)
  BY <1>1, <1>2, SortedGetItem
<1>4. ReadySorted'
  BY <1>3 DEF ReadySorted, Sorted
<1>5. \A p \in Pids : prstate'[p] = "PR_READY" => prstate[p] = "PR_READY"
  BY <1>1
<1>6. Ranked => KeyedNext
  BY <1>5 DEF Ranked, Keyed, KeyedNext
<1>7. Ranked /\ (ndefers = 0 \/ ndefers' = 0 \/ ~attempt') => TopNext
  BY <1>5 DEF Ranked, Top, TopNext
<1> QED  BY <1>4, <1>6, <1>7 DEF Orders

\* insertd and resched: the key of the sleeping process in front of which the current
\* one goes is not a key of the ready list (sleep.c, recvtime.c, insertd.c).
LEMMA DozeOrders ==
  ASSUME IInv, ReadySorted, NEW s \in {"PR_SLEEP", "PR_RECTIM"}, NEW delay \in Int,
         Doze(s, delay), currpid # NULLPROC, ndefers' = ndefers
  PROVE  Orders
<1> DEFINE key == InsertdKeys(sleepq, qkey, currpid, delay)
<1>1. Resched([prstate EXCEPT ![currpid] = s], readylist, key)
  BY DEF Doze
<1>2. /\ sleepq \in Seq(Pids) /\ qkey \in [Pids -> Int] /\ currpid \in Pids
      /\ prstate[currpid] = "PR_CURR"
      /\ \A p \in Pids : OnQueue(sleepq, p) <=> prstate[p] \in {"PR_SLEEP", "PR_RECTIM"}
  BY AsItIs DEF IInv, TypeOK, QueuesAgree, SleepAgrees
<1>3. key \in [Pids -> Int]
  BY <1>2, InsertdFacts
<1>4. ASSUME NEW p \in Pids, prstate[p] = "PR_READY"  PROVE key[p] = qkey[p]
  <2>1. p # currpid /\ ~OnQueue(sleepq, p)
    BY <1>2, <1>4
  <2> QED  BY <1>2, <2>1, InsertdElse
<1> HIDE DEF key
<1>5. ReadyKeys(key)
  BY <1>3, <1>4 DEF ReadyKeys
<1> QED  BY <1>1, <1>5, RescheduleOrders DEF States

\* send (send.c)
LEMMA DeliverOrders ==
  ASSUME IInv, ReadySorted, NEW pid \in Pids, NEW msg, Deliver(pid, msg), ndefers' = ndefers
  PROVE  Orders
<1>1. CASE UNCHANGED sched
  BY <1>1, QuietOrders
<1>2. CASE prstate[pid] = "PR_RECV" /\ Ready(pid, qkey)
  <2>1. ReadyKeys(qkey)  BY DEF ReadyKeys, IInv, TypeOK
  <2> QED  BY <1>2, <2>1, ReadyOrders DEF Eligible
<1>3. CASE prstate[pid] = "PR_RECTIM" /\ Ready(pid, UnsleepKeys(sleepq, qkey, pid))
  <2>1. /\ sleepq \in Seq(Pids) /\ qkey \in [Pids -> Int] /\ OnQueue(sleepq, pid)
        /\ \A p \in Pids : prstate[p] = "PR_READY" => ~OnQueue(sleepq, p)
    BY <1>3 DEF IInv, TypeOK, QueuesAgree, SleepAgrees
  <2>2. UnsleepKeys(sleepq, qkey, pid) \in [Pids -> Int]
    BY <2>1, UnsleepFacts
  <2>3. \A p \in Pids : prstate[p] = "PR_READY" => UnsleepKeys(sleepq, qkey, pid)[p] = qkey[p]
    BY <2>1, UnsleepElse
  <2>4. ReadyKeys(UnsleepKeys(sleepq, qkey, pid))
    BY <2>2, <2>3 DEF ReadyKeys
  <2> QED  BY <1>3, <2>4, ReadyOrders DEF Eligible
<1> QED  BY <1>1, <1>2, <1>3 DEF Deliver

\* The release of the first process of a semaphore (signal.c, semdelete.c, semreset.c).
LEMMA ReadyFirstOrders ==
  ASSUME IInv, ReadySorted, NEW s \in Sems, ReadyFirst(s), ndefers' = ndefers
  PROVE  Orders
<1>1. CASE squeue[s] = <<>>
  <2>1. Ready(EMPTY, qkey)
    BY <1>1 DEF ReadyFirst
  <2>2. isbadpid(EMPTY)
    BY TableAssumption DEF isbadpid, EMPTY, Pids
  <2>3. UNCHANGED sched
    BY <2>1, <2>2 DEF Ready, sched
  <2> QED  BY <2>3, QuietOrders
<1>2. CASE squeue[s] # <<>>
  <2>1. Ready(squeue[s][1], qkey)
    BY <1>2 DEF ReadyFirst
  <2>2. squeue[s] \in Seq(Pids) /\ NoDuplicates(squeue[s])
    BY DEF IInv, TypeOK, QueuesAgree, WaitAgrees
  <2>3. squeue[s][1] \in Pids /\ OnQueue(squeue[s], squeue[s][1])
    BY <1>2, <2>2, TailFacts
  <2>4. prstate[squeue[s][1]] = "PR_WAIT"
    BY <2>3 DEF IInv, QueuesAgree, WaitAgrees
  <2>5. ReadyKeys(qkey)
    BY DEF ReadyKeys, IInv, TypeOK
  <2> QED  BY <2>1, <2>3, <2>4, <2>5, ReadyOrders DEF Eligible
<1> QED  BY <1>1, <1>2

\* signal's release of a process (signal.c)
LEMMA ReleaseOrders ==
  ASSUME IInv, ReadySorted, NEW s \in Sems, Release(s), ndefers' = ndefers
  PROVE  Orders
<1>1. CASE HasWaiter(s)
  BY <1>1, ReadyFirstOrders DEF Release
<1>2. CASE ~HasWaiter(s)
  BY <1>2, QuietOrders DEF Release
<1> QED  BY <1>1, <1>2

-----------------------------------------------------------------------------
(* The operations                                                          *)

\* create, resume, suspend, yield, chprio and kill
LEMMA ProcessCallOrders ==
  ASSUME IInv, ReadySorted, ProcessCall
  PROVE  Orders
<1>0. /\ ReadyKeys(qkey) /\ prstate \in [Pids -> States] /\ currpid \in Pids
      /\ \A p \in Pids : prstate[p] = "PR_CURR" <=> p = currpid
  BY DEF ReadyKeys, IInv, TypeOK, QueuesAgree, CurrAgrees
<1>1. ASSUME NEW prio \in Prios, Create(prio)  PROVE Orders
  <2>1. /\ UNCHANGED <<readylist, qkey, currpid, attempt, ndefers>>
        /\ \/ prstate' = prstate
           \/ FreePids # {} /\ prstate' = [prstate EXCEPT ![Newpid] = "PR_SUSP"]
    BY <1>1 DEF Create
  <2>2. FreePids # {} => Newpid \in Pids /\ prstate[Newpid] = "PR_FREE"
    BY NewpidFree DEF FreePids
  <2>3. \A p \in Pids : prstate'[p] = "PR_READY" <=> prstate[p] = "PR_READY"
    BY <1>0, <2>1, <2>2
  <2> QED  BY <1>0, <2>1, <2>3, GoesOnOrders
<1>2. ASSUME NEW pid \in Pids, Resume(pid)  PROVE Orders
  BY <1>0, <1>2, ReadyOrders DEF Resume, Eligible
<1>3. ASSUME NEW pid \in Pids, Suspend(pid)  PROVE Orders
  <2>1. CASE prstate[pid] = "PR_READY"
    BY <1>3, <2>1, LeaveOrders DEF Suspend, States
  <2>2. CASE prstate[pid] = "PR_CURR"
    <3>1. /\ Resched([prstate EXCEPT ![currpid] = "PR_SUSP"], readylist, qkey)
          /\ currpid # NULLPROC /\ ndefers' = ndefers
      BY <1>0, <1>3, <2>2 DEF Suspend, Program
    <3> QED  BY <1>0, <3>1, RescheduleOrders DEF States
  <2> QED  BY <1>3, <2>1, <2>2 DEF Suspend
<1>4. ASSUME NEW pid \in Pids, Kill(pid)  PROVE Orders
  <2>1. ndefers' = ndefers /\ (UNCHANGED sched \/ Deliver(prparent[pid], pid))
    BY <1>4 DEF Kill
  <2>2. prparent[pid] \in Pids
    BY DEF IInv, TypeOK
  <2> QED  BY <2>1, <2>2, QuietOrders, DeliverOrders
<1>5. ASSUME NEW pid \in Pids, NEW prio \in NewPrios, Chprio(pid, prio)  PROVE Orders
  BY <1>5, QuietOrders DEF Chprio
<1>6. ASSUME Yield  PROVE Orders
  BY <1>0, <1>6, YieldOrders DEF Yield
<1> QED  BY <1>1, <1>2, <1>3, <1>4, <1>5, <1>6 DEF ProcessCall

\* The rest of kill (kill.c).
LEMMA KillFinishOrders ==
  ASSUME IInv, ReadySorted, KillFinish
  PROVE  Orders
<1> DEFINE v == arg[currpid].id
           gone == [prstate EXCEPT ![v] = "PR_FREE"]
<1>0. /\ ReadyKeys(qkey) /\ prstate \in [Pids -> States] /\ currpid \in Pids
      /\ \A p \in Pids : prstate[p] = "PR_CURR" <=> p = currpid
  BY DEF ReadyKeys, IInv, TypeOK, QueuesAgree, CurrAgrees
<1>1. v \in Pids \ {NULLPROC}
  BY <1>0 DEF KillFinish, Inside, IInv, CallArgs
<1>2. /\ ndefers' = ndefers
      /\ \/ prstate[v] = "PR_CURR" /\ Resched(gone, readylist, qkey)
         \/ /\ prstate[v] = "PR_READY" /\ readylist' = GetItem(readylist, v) /\ prstate' = gone
            /\ UNCHANGED <<qkey, currpid, attempt>>
         \/ /\ prstate[v] \notin {"PR_CURR", "PR_READY"} /\ prstate' = gone
            /\ UNCHANGED <<readylist, currpid, attempt>>
            /\ qkey' = IF prstate[v] \in {"PR_SLEEP", "PR_RECTIM"}
                       THEN UnsleepKeys(sleepq, qkey, v) ELSE qkey
  BY DEF KillFinish
<1> HIDE DEF v
<1>3. CASE prstate[v] = "PR_CURR" /\ Resched(gone, readylist, qkey)
  <2>1. v = currpid
    BY <1>0, <1>1, <1>3
  <2> QED  BY <1>0, <1>1, <1>2, <1>3, <2>1, RescheduleOrders DEF States
<1>4. CASE /\ prstate[v] = "PR_READY" /\ readylist' = GetItem(readylist, v) /\ prstate' = gone
           /\ UNCHANGED <<qkey, currpid, attempt>>
  BY <1>1, <1>2, <1>4, LeaveOrders DEF States
<1>5. CASE /\ prstate[v] \notin {"PR_CURR", "PR_READY"} /\ prstate' = gone
           /\ UNCHANGED <<readylist, currpid, attempt>>
           /\ qkey' = IF prstate[v] \in {"PR_SLEEP", "PR_RECTIM"}
                      THEN UnsleepKeys(sleepq, qkey, v) ELSE qkey
  <2>1. ReadyKeys(qkey')
    <3>1. CASE prstate[v] \in {"PR_SLEEP", "PR_RECTIM"}
      <4>1. /\ sleepq \in Seq(Pids) /\ qkey \in [Pids -> Int] /\ OnQueue(sleepq, v)
            /\ \A p \in Pids : prstate[p] = "PR_READY" => ~OnQueue(sleepq, p)
        BY <1>1, <3>1 DEF IInv, TypeOK, QueuesAgree, SleepAgrees
      <4>2. qkey' = UnsleepKeys(sleepq, qkey, v)
        BY <1>5, <3>1
      <4>3. UnsleepKeys(sleepq, qkey, v) \in [Pids -> Int]
        BY <1>1, <4>1, UnsleepFacts
      <4>4. \A p \in Pids : prstate[p] = "PR_READY" => UnsleepKeys(sleepq, qkey, v)[p] = qkey[p]
        BY <4>1, UnsleepElse
      <4> QED  BY <4>2, <4>3, <4>4 DEF ReadyKeys
    <3>2. CASE prstate[v] \notin {"PR_SLEEP", "PR_RECTIM"}
      BY <1>0, <1>5, <3>2
    <3> QED  BY <3>1, <3>2
  <2>2. \A p \in Pids : prstate'[p] = "PR_READY" <=> prstate[p] = "PR_READY"
    BY <1>0, <1>1, <1>5
  <2> QED  BY <1>2, <1>5, <2>1, <2>2, GoesOnOrders
<1> QED  BY <1>2, <1>3, <1>4, <1>5

\* DEFER_START on the way into a loop (signaln.c, semdelete.c, semreset.c)
LEMMA StartLoopOrders ==
  ASSUME IInv, ReadySorted, NEW c, NEW s, NEW n, StartLoop(c, s, n), pc[currpid] = "user"
  PROVE  Orders
<1>1. ndefers = 0
  BY NotDeferred DEF Loops
<1>2. UNCHANGED <<prstate, readylist, qkey, currpid>>
  BY DEF StartLoop
<1>3. ReadyKeys(qkey')
  BY <1>2 DEF ReadyKeys, IInv, TypeOK
<1> QED  BY <1>1, <1>2, <1>3, GoesOnOrders

\* semcreate, wait, signal, semdelete, signaln and semreset
LEMMA SemaphoreCallOrders ==
  ASSUME IInv, ReadySorted, SemaphoreCall
  PROVE  Orders
<1>1. ASSUME NEW c \in Counts, Semcreate(c)  PROVE Orders
  BY <1>1, QuietOrders DEF Semcreate
<1>2. ASSUME NEW s \in Sems, Wait(s)  PROVE Orders
  <2>1. CASE UNCHANGED sched
    BY <1>2, <2>1, QuietOrders DEF Wait
  <2>2. CASE Resched([prstate EXCEPT ![currpid] = "PR_WAIT"], readylist, qkey)
    <3>1. ReadyKeys(qkey) /\ currpid # NULLPROC /\ ndefers' = ndefers
      BY <1>2 DEF Wait, Program, ReadyKeys, IInv, TypeOK
    <3> QED  BY <2>2, <3>1, RescheduleOrders DEF States
  <2> QED  BY <1>2, <2>1, <2>2 DEF Wait
<1>3. ASSUME NEW s \in Sems, Signal(s)  PROVE Orders
  BY <1>3, ReleaseOrders DEF Signal
<1>4. ASSUME NEW s \in Sems, Semdelete(s)  PROVE Orders
  BY <1>4, StartLoopOrders DEF Semdelete, Program
<1>5. ASSUME NEW s \in Sems, NEW c \in Counts, Signaln(s, c) \/ Semreset(s, c)  PROVE Orders
  BY <1>5, StartLoopOrders DEF Signaln, Semreset, Program
<1> QED  BY <1>1, <1>2, <1>3, <1>4, <1>5 DEF SemaphoreCall

\* send, receive, recvtime and sleepms
LEMMA MessageCallOrders ==
  ASSUME IInv, ReadySorted, MessageCall
  PROVE  Orders
<1>0. ReadyKeys(qkey)
  BY DEF ReadyKeys, IInv, TypeOK
<1>1. ASSUME NEW pid \in Pids, NEW m \in Messages, Send(pid, m)  PROVE Orders
  BY <1>1, DeliverOrders DEF Send
<1>2. ASSUME Receive  PROVE Orders
  BY <1>2, QuietOrders DEF Receive
<1>3. ASSUME ReceiveBlock  PROVE Orders
  <2>1. /\ Resched([prstate EXCEPT ![currpid] = "PR_RECV"], readylist, qkey)
        /\ currpid # NULLPROC /\ ndefers' = ndefers
    BY <1>3 DEF ReceiveBlock, Program
  <2> QED  BY <1>0, <2>1, RescheduleOrders DEF States
<1>4. ASSUME NEW w \in Waits, RecvtimeBlock(w)  PROVE Orders
  BY <1>4, DelayAssumption, DozeOrders DEF RecvtimeBlock, Program
<1>5. ASSUME NEW d \in Delays, Sleepms(d)  PROVE Orders
  <2>1. currpid # NULLPROC /\ ndefers' = ndefers /\ Int32(d) \in Int
    BY <1>5, DelayAssumption, Int32Type DEF Sleepms, Program
  <2>2. CASE Resched(prstate, readylist, qkey)
    BY <1>0, <2>1, <2>2, YieldOrders
  <2>3. CASE Doze("PR_SLEEP", Int32(d))
    BY <2>1, <2>3, DozeOrders
  <2> QED  BY <1>5, <2>2, <2>3 DEF Sleepms
<1> QED  BY <1>1, <1>2, <1>3, <1>4, <1>5 DEF MessageCall

\* The iterations of the semaphore loops, and their ends.
LEMMA SemLoopOrders ==
  ASSUME IInv, ReadySorted, SignalnLoop \/ SemdeleteLoop \/ SemresetLoop
  PROVE  Orders
<1>1. ndefers = 1 /\ arg[currpid].id \in Sems
  BY InSemLoop DEF SignalnLoop, SemdeleteLoop, SemresetLoop
<1>2. ASSUME EndLoop  PROVE Orders
  BY <1>1, <1>2, StopOrders DEF EndLoop
<1>3. CASE SignalnLoop
  BY <1>1, <1>2, <1>3, ReleaseOrders DEF SignalnLoop
<1>4. CASE SemdeleteLoop
  BY <1>1, <1>2, <1>4, ReadyFirstOrders DEF SemdeleteLoop
<1>5. CASE SemresetLoop
  BY <1>1, <1>2, <1>5, ReadyFirstOrders DEF SemresetLoop
<1> QED  BY <1>3, <1>4, <1>5

\* The clock interrupt counts down the key of a sleeping process and reschedules or
\* begins to wake who is due (clkhandler.c).
LEMMA ClockTickOrders ==
  ASSUME IInv, ReadySorted, ClockTick
  PROVE  Orders
<1> DEFINE less == IF sleepq = <<>> THEN qkey ELSE [qkey EXCEPT ![sleepq[1]] = Int32(@ - 1)]
<1>1. ndefers = 0
  BY NotDeferred DEF ClockTick, Inside, Loops
<1>2. ReadyKeys(less)
  <2>1. /\ sleepq \in Seq(Pids) /\ qkey \in [Pids -> Int]
        /\ \A p \in Pids : prstate[p] = "PR_READY" => ~OnQueue(sleepq, p)
    BY DEF IInv, TypeOK, QueuesAgree, SleepAgrees
  <2>2. CASE sleepq = <<>>
    BY <2>1, <2>2 DEF ReadyKeys
  <2>3. CASE sleepq # <<>>
    <3>1. sleepq[1] \in Pids /\ OnQueue(sleepq, sleepq[1])
      BY <2>1, <2>3, TailFacts DEF IInv, QueuesAgree, SleepAgrees
    <3>2. Int32(qkey[sleepq[1]] - 1) \in Int
      BY <2>1, <3>1, Int32Type
    <3> QED  BY <2>1, <2>3, <3>1, <3>2 DEF ReadyKeys
  <2> QED  BY <2>2, <2>3
<1>3. \/ UNCHANGED <<prstate, readylist, currpid>> /\ qkey' = less
      \/ Resched(prstate, readylist, less) /\ ndefers' = ndefers
  BY DEF ClockTick, Wakeup
<1> HIDE DEF less
<1>4. CASE UNCHANGED <<prstate, readylist, currpid>> /\ qkey' = less
  BY <1>1, <1>2, <1>4, GoesOnOrders
<1>5. CASE Resched(prstate, readylist, less) /\ ndefers' = ndefers
  BY <1>2, <1>5, YieldOrders
<1> QED  BY <1>3, <1>4, <1>5

\* wakeup's loop (wakeup.c)
LEMMA WakeupLoopOrders ==
  ASSUME IInv, ReadySorted, WakeupLoop
  PROVE  Orders
<1>1. ndefers = 1
  BY DEF WakeupLoop, Inside, IInv, DeferralsPaired, Loops
<1>2. CASE DeferStop
  BY <1>1, <1>2, StopOrders
<1>3. CASE sleepq # <<>> /\ Ready(sleepq[1], qkey) /\ ndefers' = ndefers
  <2>1. sleepq[1] \in Pids /\ OnQueue(sleepq, sleepq[1])
    BY <1>3, TailFacts DEF IInv, TypeOK, QueuesAgree, SleepAgrees
  <2>2. prstate[sleepq[1]] \in {"PR_SLEEP", "PR_RECTIM"}
    BY <2>1 DEF IInv, QueuesAgree, SleepAgrees
  <2>3. ReadyKeys(qkey)
    BY DEF ReadyKeys, IInv, TypeOK
  <2> QED  BY <1>3, <2>1, <2>2, <2>3, ReadyOrders DEF Eligible
<1> QED  BY <1>2, <1>3 DEF WakeupLoop

\* The end of the arm-bbb handler (clkhandler.c).
LEMMA PreemptOrders ==
  ASSUME IInv, ReadySorted, Preempt
  PROVE  Orders
<1>1. ndefers = 0 /\ ndefers' = ndefers
  BY NotDeferred DEF Preempt, Inside, Loops
<1>2. CASE Dispatch(prstate, readylist, qkey, QUANTUM)
  <2>1. Sorted(readylist, qkey) /\ TypeOK
    BY DEF ReadySorted, Sorted, IInv
  <2>2. ReadySorted' /\ (Keyed(prstate, qkey) => KeyedNext /\ TopNext)
    BY <1>2, <2>1, AsItIs, DispatchOrders
  <2> QED  BY <2>2 DEF Orders, Ranked
<1>3. CASE UNCHANGED <<prstate, readylist, qkey, currpid, attempt>>
  <2>1. ReadyKeys(qkey')
    BY <1>3 DEF ReadyKeys, IInv, TypeOK
  <2> QED  BY <1>1, <1>3, <2>1, GoesOnOrders
<1> QED  BY <1>2, <1>3 DEF Preempt

\* Every step keeps the order: one lemma above for each kind of step.
LEMMA NextOrders ==
  ASSUME IInv, ReadySorted, Next
  PROVE  Orders
<1>1. CASE TakeMessage
  BY <1>1, QuietOrders DEF TakeMessage
<1> QED  BY <1>1, ProcessCallOrders, SemaphoreCallOrders, MessageCallOrders, KillFinishOrders,
            SemLoopOrders, WakeupLoopOrders, PreemptOrders, ClockTickOrders
         DEF Next, InKernel

-----------------------------------------------------------------------------
(* The theorems                                                            *)

\* The ready list is in descending order of its keys, whatever chprio has made of
\* the priorities meanwhile and whatever was written to the keys of sleeping
\* processes (insert.c, insertd.c, unsleep.c, chprio.c).
THEOREM ReadyListInOrder == Spec => []ReadySorted
<1>1. Init => ReadySorted
  BY DEF Init, ReadySorted
<1>2. IInv /\ ReadySorted /\ [Next]_vars => ReadySorted'
  <2>1. ASSUME ReadySorted, UNCHANGED vars  PROVE ReadySorted'
    BY <2>1 DEF ReadySorted, vars, sched
  <2> QED  BY <2>1, NextOrders DEF Orders
<1> QED  BY <1>1, <1>2, Invariance, PTL DEF Spec

\* Only create and chprio write a priority, and create only that of a process which
\* does not run (create.c, chprio.c).
LEMMA PriorityKept ==
  ASSUME IInv, Next, "chprio" \notin Calls, NEW p \in Pids, prstate'[p] # "PR_SUSP"
  PROVE  prprio'[p] = prprio[p]
<1>1. ASSUME UNCHANGED ident  PROVE prprio'[p] = prprio[p]
  BY <1>1 DEF ident
<1>2. ASSUME NEW prio \in Prios, Create(prio)  PROVE prprio'[p] = prprio[p]
  <2>1. CASE FreePids = {} \/ prio < 1
    BY <1>2, <2>1 DEF Create
  <2>2. CASE ~(FreePids = {} \/ prio < 1)
    <3>1. /\ prstate' = [prstate EXCEPT ![Newpid] = "PR_SUSP"]
          /\ prprio' = [prprio EXCEPT ![Newpid] = prio]
      BY <1>2, <2>2 DEF Create
    <3>2. p # Newpid
      BY <3>1 DEF IInv, TypeOK
    <3> QED  BY <3>1, <3>2 DEF IInv, TypeOK
  <2> QED  BY <2>1, <2>2
<1>3. CASE ProcessCall
  BY <1>1, <1>2, <1>3 DEF ProcessCall, Resume, Suspend, Kill, Chprio, Yield, Program
<1>4. CASE SemaphoreCall
  BY <1>1, <1>4 DEF SemaphoreCall, Semcreate, Wait, Signal, Semdelete, Signaln, Semreset
<1>5. CASE MessageCall
  BY <1>1, <1>5 DEF MessageCall, Send, Receive, ReceiveBlock, RecvtimeBlock, Sleepms
<1>6. CASE KillFinish
  BY <1>6 DEF KillFinish
<1>7. CASE SignalnLoop \/ SemdeleteLoop \/ SemresetLoop \/ TakeMessage \/ WakeupLoop \/ Preempt \/ ClockTick
  BY <1>1, <1>7 DEF SignalnLoop, SemdeleteLoop, SemresetLoop, TakeMessage, WakeupLoop, Preempt,
                    ClockTick
<1> QED  BY <1>3, <1>4, <1>5, <1>6, <1>7 DEF Next, InKernel

\* What the order of the ready list says once priorities never change after create.
LEMMA NextRanked ==
  ASSUME IInv, IInv', ReadySorted, Ranked, Next, "chprio" \notin Calls
  PROVE  /\ Ranked'
         /\ currpid' # currpid =>
              \A p \in Pids : prstate'[p] = "PR_READY" => prprio'[p] <= prprio'[currpid']
<1>1. KeyedNext /\ (ndefers = 0 \/ ndefers' = 0 \/ ~attempt' => TopNext)
  BY NextOrders DEF Orders
<1>2. currpid' \in Pids /\ prstate'[currpid'] = "PR_CURR"
  BY DEF IInv, TypeOK, QueuesAgree, CurrAgrees
<1>3. /\ prprio'[currpid'] = prprio[currpid']
      /\ \A p \in Pids : prstate'[p] = "PR_READY" => prprio'[p] = prprio[p]
  BY <1>2, PriorityKept
<1>4. Ranked'
  BY <1>1, <1>3 DEF Ranked, Keyed, KeyedNext, Top, TopNext
<1>5. ASSUME currpid' # currpid  PROVE ndefers = 0 \/ ndefers' = 0
  <2>1. pc'[currpid'] \in {pc[currpid'], "user"}
    BY <1>2, <1>5, OwnProgress DEF IInv
  <2> QED  BY <1>2, <1>5, <2>1 DEF IInv, DeferralsPaired, Loops
<1> QED  BY <1>1, <1>3, <1>4, <1>5 DEF TopNext

\* The invariant behind the two theorems below.
THEOREM RankedAlways == ASSUME "chprio" \notin Calls  PROVE Spec => []Ranked
<1>1. Init => Ranked
  <2> SUFFICES ASSUME Init, NEW p \in Pids, prstate[p] = "PR_READY"
               PROVE  qkey[p] = prprio[p] /\ prprio[p] <= prprio[currpid]
    BY DEF Ranked, Keyed, Top
  <2>1. p = 0 /\ prprio[p] = 0 /\ qkey[p] = 0
    BY DEF Init
  <2>2. prprio[currpid] = InitPrio
    BY TableAssumption DEF Init, Pids
  <2> QED  BY <2>1, <2>2, PrioAssumption
<1>2. IInv /\ IInv' /\ ReadySorted /\ Ranked /\ [Next]_vars => Ranked'
  <2>1. ASSUME Ranked, UNCHANGED vars  PROVE Ranked'
    BY <2>1 DEF Ranked, Keyed, Top, vars, sched, ident
  <2> QED  BY <2>1, NextRanked
<1> QED  BY <1>1, <1>2, Invariance, ReadyListInOrder, PTL DEF Spec

\* While a process runs its own code, no ready process has a higher priority, if
\* nobody calls chprio: every loop that releases processes while rescheduling is
\* deferred ends by rescheduling (ready.c, resched.c, signaln.c, semdelete.c,
\* semreset.c, wakeup.c).
THEOREM HighestRuns == ASSUME "chprio" \notin Calls  PROVE Spec => []CurrIsHighest
<1>1. IInv /\ Ranked => CurrIsHighest
  BY NotDeferred DEF Ranked, Top, CurrIsHighest, Loops
<1> QED  BY <1>1, Invariance, RankedAlways, PTL

\* Whenever the processor passes to another process, no ready process has a higher
\* priority than it, if nobody calls chprio (resched.c).
THEOREM SwitchesToHighest == ASSUME "chprio" \notin Calls  PROVE Spec => DispatchesHighest
<1>1. IInv /\ IInv' /\ ReadySorted /\ Ranked /\ [Next]_vars =>
        [currpid' # currpid =>
           \A p \in Pids : prstate'[p] = "PR_READY" => prprio'[p] <= prprio'[currpid']]_vars
  BY NextRanked
<1> QED  BY <1>1, Invariance, ReadyListInOrder, RankedAlways, PTL DEF Spec, DispatchesHighest

-----------------------------------------------------------------------------
(* Semaphores                                                              *)

\* The count semreset will set is one it has checked.
ResetArgs == \A p \in Pids : pc[p] = "semreset" => arg[p].n >= 0

Counted(s) == Len(squeue[s]) = IF scount[s] < 0 THEN -scount[s] ELSE 0
Cleared(s) == sstate[s] = "S_FREE" => squeue[s] = <<>>
InOrder(s) == Counted(s) /\ Cleared(s)

WorkingOn(c, s) == pc[currpid] = c /\ arg[currpid].id = s

SInv == IInv /\ SemCountAgrees /\ ResetArgs

-----------------------------------------------------------------------------
(* What the queue operations do to the length of a queue                   *)

\* Types of the semaphore table and the lengths of its queues (semaphore.h).
LEMMA SemTypes ==
  ASSUME IInv
  PROVE  /\ squeue \in [Sems -> Seq(Pids)] /\ scount \in [Sems -> Int]
         /\ sstate \in [Sems -> {"S_FREE", "S_USED"}] /\ currpid \in Pids
         /\ \A s \in Sems : Len(squeue[s]) \in Nat /\ (squeue[s] = <<>> <=> Len(squeue[s]) = 0)
<1>1. squeue \in [Sems -> Seq(Pids)] /\ scount \in [Sems -> Int] /\ currpid \in Pids
      /\ sstate \in [Sems -> {"S_FREE", "S_USED"}]
  BY DEF IInv, TypeOK
<1>2. \A s \in Sems : Len(squeue[s]) \in Nat /\ (squeue[s] = <<>> <=> Len(squeue[s]) = 0)
  BY <1>1, EmptySeq, LenProperties
<1> QED  BY <1>1, <1>2

\* dequeue and getfirst make a queue one shorter (queue.c, getitem.c).
LEMMA TailLen ==
  ASSUME IInv, NEW s \in Sems, squeue[s] # <<>>
  PROVE  Len(Tail(squeue[s])) = Len(squeue[s]) - 1
<1>1. squeue[s] \in Seq(Pids)  BY SemTypes
<1> QED  BY <1>1, HeadTailProperties

\* getitem makes a queue one shorter (getitem.c).
LEMMA GetItemLen ==
  ASSUME IInv, NEW s \in Sems, NEW v, OnQueue(squeue[s], v)
  PROVE  Len(GetItem(squeue[s], v)) = Len(squeue[s]) - 1
<1>1. squeue[s] \in Seq(Pids)  BY SemTypes
<1>2. PlaceOf(squeue[s], v) \in 1 .. Len(squeue[s])
  <2>1. \E i \in DOMAIN squeue[s] : squeue[s][i] = v  BY DEF OnQueue
  <2>2. PlaceOf(squeue[s], v) \in DOMAIN squeue[s]  BY <2>1 DEF PlaceOf
  <2> QED  BY <1>1, <2>2, LenProperties
<1> QED  BY <1>1, <1>2, RemoveAtFacts DEF GetItem, RemovedAt

-----------------------------------------------------------------------------
(* From SemCountAgrees to semaphores in order, and back                    *)

\* A process that is in neither loop finds every semaphore in order.
LEMMA AllInOrder ==
  ASSUME SemCountAgrees, pc[currpid] \notin {"semreset", "semdelete"}
  PROVE  \A s \in Sems : InOrder(s)
BY DEF SemCountAgrees, InOrder, Counted, Cleared

\* Semaphores in order are what SemCountAgrees asks for.
LEMMA OrderAgrees ==
  ASSUME \A s \in Sems : InOrder(s)'
  PROVE  SemCountAgrees'
BY DEF SemCountAgrees, InOrder, Counted, Cleared

\* A step that does not touch the semaphore table leaves it in order.
LEMMA NoSemTouched ==
  ASSUME SemCountAgrees, pc[currpid] \notin {"semreset", "semdelete"},
         UNCHANGED <<sstate, scount, squeue>>
  PROVE  SemCountAgrees'
<1>1. \A s \in Sems : InOrder(s)  BY AllInOrder
<1>2. \A s \in Sems : InOrder(s)'  BY <1>1 DEF InOrder, Counted, Cleared
<1> QED  BY <1>2, OrderAgrees

\* An iteration that takes the first waiter off a queue that is not empty, as the
\* loops and signal do.
LEMMA FirstLeaves ==
  ASSUME IInv, NEW s \in Sems, ReadyFirst(s), squeue[s] # <<>>
  PROVE  /\ squeue' = [squeue EXCEPT ![s] = Tail(@)]
         /\ Len(squeue'[s]) = Len(squeue[s]) - 1
         /\ \A z \in Sems \ {s} : squeue'[z] = squeue[z]
<1>1. squeue' = [squeue EXCEPT ![s] = Tail(@)]
  BY DEF ReadyFirst
<1>2. squeue'[s] = Tail(squeue[s]) /\ \A z \in Sems \ {s} : squeue'[z] = squeue[z]
  BY <1>1, SemTypes
<1> QED  BY <1>1, <1>2, TailLen

\* One more in the count and one fewer in the queue keep a semaphore in order, and
\* there is somebody to release whenever the count says so (signal.c, signaln.c).
LEMMA ReleaseKeepsOrder ==
  ASSUME IInv, NEW s \in Sems, Release(s), UNCHANGED sstate, \A z \in Sems : InOrder(z)
  PROVE  \A z \in Sems : InOrder(z)'
<1>1. scount' = [scount EXCEPT ![s] = @ + 1] /\ scount'[s] = scount[s] + 1 /\ scount[s] \in Int
      /\ \A z \in Sems \ {s} : scount'[z] = scount[z]
  BY SemTypes DEF Release
<1>2. CASE HasWaiter(s)
  <2>1. ReadyFirst(s) /\ scount[s] < 0
    BY <1>2 DEF Release, HasWaiter
  <2>2. squeue[s] # <<>> /\ Len(squeue[s]) = -scount[s]
    BY <2>1, SemTypes DEF InOrder, Counted
  <2>3. Len(squeue'[s]) = Len(squeue[s]) - 1 /\ \A z \in Sems \ {s} : squeue'[z] = squeue[z]
    BY <2>1, <2>2, FirstLeaves
  <2>4. Counted(s)'
    BY <1>1, <2>1, <2>2, <2>3 DEF Counted
  <2>5. Cleared(s)'
    BY <2>2 DEF InOrder, Cleared
  <2> QED  BY <1>1, <2>3, <2>4, <2>5 DEF InOrder, Counted, Cleared
<1>3. CASE ~HasWaiter(s)
  <2>1. squeue' = squeue /\ ~(scount[s] < 0)
    BY <1>3 DEF Release, HasWaiter
  <2>2. Counted(s)'
    BY <1>1, <2>1 DEF InOrder, Counted
  <2> QED  BY <1>1, <2>1, <2>2 DEF InOrder, Counted, Cleared
<1> QED  BY <1>2, <1>3

-----------------------------------------------------------------------------
(* One lemma for each kind of step that touches the semaphore table        *)

\* wait takes one from the count and joins the queue exactly when the count has
\* become negative (wait.c).
LEMMA WaitKeepsOrder ==
  ASSUME SInv, NEW s \in Sems, Wait(s)
  PROVE  SemCountAgrees'
<1>1. \A z \in Sems : InOrder(z)
  BY AllInOrder DEF SInv, Wait, Program
<1>2. /\ sstate' = sstate /\ sstate[s] = "S_USED"
      /\ scount'[s] = scount[s] - 1 /\ scount[s] \in Int
      /\ \A z \in Sems \ {s} : scount'[z] = scount[z]
  BY SemTypes DEF Wait, SInv
<1>3. CASE scount'[s] < 0
  <2>1. squeue' = [squeue EXCEPT ![s] = Enqueue(@, currpid)]
    BY <1>3 DEF Wait
  <2>2. squeue'[s] = Append(squeue[s], currpid) /\ \A z \in Sems \ {s} : squeue'[z] = squeue[z]
    BY <2>1, SemTypes DEF Enqueue, SInv
  <2>3. Len(squeue'[s]) = Len(squeue[s]) + 1
    BY <2>2, SemTypes, AppendProperties DEF SInv
  <2>4. Counted(s)'
    BY <1>1, <1>2, <1>3, <2>3 DEF InOrder, Counted
  <2>5. \A z \in Sems : InOrder(z)'
    BY <1>1, <1>2, <2>2, <2>4 DEF InOrder, Counted, Cleared
  <2> QED  BY <2>5, OrderAgrees
<1>4. CASE ~(scount'[s] < 0)
  <2>1. squeue' = squeue
    BY <1>4 DEF Wait
  <2>2. Counted(s)'
    BY <1>1, <1>2, <1>4, <2>1 DEF InOrder, Counted
  <2>3. \A z \in Sems : InOrder(z)'
    BY <1>1, <1>2, <2>1, <2>2 DEF InOrder, Counted, Cleared
  <2> QED  BY <2>3, OrderAgrees
<1> QED  BY <1>3, <1>4

\* signal (signal.c)
LEMMA SignalKeepsOrder ==
  ASSUME SInv, NEW s \in Sems, Signal(s)
  PROVE  SemCountAgrees'
<1>1. \A z \in Sems : InOrder(z)
  BY AllInOrder DEF SInv, Signal, Program
<1>2. \A z \in Sems : InOrder(z)'
  BY <1>1, ReleaseKeepsOrder DEF SInv, Signal
<1> QED  BY <1>2, OrderAgrees

\* semcreate takes an entry whose queue was left empty (semcreate.c).
LEMMA SemcreateKeepsOrder ==
  ASSUME SInv, NEW c \in Counts, Semcreate(c)
  PROVE  SemCountAgrees'
<1>1. \A z \in Sems : InOrder(z)
  BY AllInOrder DEF SInv, Semcreate, Program
<1>2. PICK n \in Sems : n = Newsem /\ sstate[n] = "S_FREE"
  BY NewsemFree DEF SInv, Semcreate, FreeSems
<1>3. /\ sstate' = [sstate EXCEPT ![n] = "S_USED"] /\ scount' = [scount EXCEPT ![n] = c]
      /\ squeue' = squeue /\ c >= 0 /\ c \in Int
  BY <1>2, CountAssumption DEF Semcreate
<1>4. /\ sstate'[n] = "S_USED" /\ scount'[n] = c
      /\ \A z \in Sems \ {n} : sstate'[z] = sstate[z] /\ scount'[z] = scount[z]
  BY <1>2, <1>3, SemTypes DEF SInv
<1>5. squeue[n] = <<>> /\ Len(squeue[n]) = 0
  BY <1>1, <1>2, SemTypes DEF InOrder, Cleared, SInv
<1>6. InOrder(n)'
  BY <1>3, <1>4, <1>5 DEF InOrder, Counted, Cleared
<1>7. \A z \in Sems : InOrder(z)'
  BY <1>1, <1>3, <1>4, <1>6 DEF InOrder, Counted, Cleared
<1> QED  BY <1>7, OrderAgrees

\* kill of a waiting process repairs both halves (kill.c).
LEMMA KillFinishKeepsOrder ==
  ASSUME SInv, KillFinish
  PROVE  SemCountAgrees'
<1> DEFINE v == arg[currpid].id
<1>0. pc[currpid] = "kill" /\ v \in Pids /\ sstate' = sstate
  BY DEF KillFinish, Inside, SInv, IInv, TypeOK, CallArgs
<1>1. \A z \in Sems : InOrder(z)
  BY <1>0, AllInOrder DEF SInv
<1>2. \/ scount' = scount /\ squeue' = squeue
      \/ /\ prstate[v] = "PR_WAIT"
         /\ scount' = [scount EXCEPT ![prsem[v]] = @ + 1]
         /\ squeue' = [squeue EXCEPT ![prsem[v]] = GetItem(@, v)]
  BY DEF KillFinish
<1> HIDE DEF v
<1>3. CASE scount' = scount /\ squeue' = squeue
  BY <1>0, <1>3, NoSemTouched DEF SInv
<1>4. CASE /\ prstate[v] = "PR_WAIT"
           /\ scount' = [scount EXCEPT ![prsem[v]] = @ + 1]
           /\ squeue' = [squeue EXCEPT ![prsem[v]] = GetItem(@, v)]
  <2>1. PICK s \in Sems : s = prsem[v] /\ OnQueue(squeue[s], v)
    BY <1>0, <1>4 DEF SInv, IInv, QueuesAgree, WaitAgrees
  <2>2. /\ scount'[s] = scount[s] + 1 /\ scount[s] \in Int
        /\ squeue'[s] = GetItem(squeue[s], v)
        /\ \A z \in Sems \ {s} : scount'[z] = scount[z] /\ squeue'[z] = squeue[z]
    BY <1>4, <2>1, SemTypes DEF SInv
  <2>3. Len(squeue'[s]) = Len(squeue[s]) - 1 /\ Len(squeue[s]) \in Nat
    BY <2>1, <2>2, GetItemLen, SemTypes DEF SInv
  <2>4. Len(squeue[s]) # 0
    <3>1. DOMAIN squeue[s] = 1 .. Len(squeue[s])  BY <2>1, SemTypes, LenProperties DEF SInv
    <3> QED  BY <2>1, <3>1 DEF OnQueue
  <2>5. Counted(s)'
    <3>1. Counted(s)  BY <1>1, <2>1 DEF InOrder
    <3>2. scount[s] = -Len(squeue[s])  BY <2>2, <2>3, <2>4, <3>1 DEF Counted
    <3> QED  BY <2>2, <2>3, <2>4, <3>2 DEF Counted
  <2>6. Cleared(s)'
    BY <1>0, <1>1, <2>1, <2>4, SemTypes DEF InOrder, Cleared, SInv
  <2>7. \A z \in Sems : InOrder(z)'
    BY <1>0, <1>1, <2>2, <2>5, <2>6 DEF InOrder, Counted, Cleared
  <2> QED  BY <2>7, OrderAgrees
<1> QED  BY <1>2, <1>3, <1>4

\* signaln, semdelete and semreset up to their loop: the one semaphore that ceases
\* to be in order is the one the loop is about to work on.
LEMMA StartKeepsOrder ==
  ASSUME SInv, NEW s \in Sems, NEW c,
         Signaln(s, c) \/ Semdelete(s) \/ Semreset(s, c)
  PROVE  SemCountAgrees'
<1>1. pc[currpid] = "user" /\ currpid' = currpid /\ UNCHANGED <<scount, squeue>>
  BY DEF Signaln, Semdelete, Semreset, Program, StartLoop, sems
<1>2. \A z \in Sems : InOrder(z)
  BY <1>1, AllInOrder DEF SInv
<1>3. CASE Signaln(s, c) \/ Semreset(s, c)
  <2>1. sstate' = sstate
    BY <1>3 DEF Signaln, Semreset, sems
  <2> QED  BY <1>1, <2>1, NoSemTouched DEF SInv
<1>4. CASE Semdelete(s)
  <2>1. /\ sstate' = [sstate EXCEPT ![s] = "S_FREE"]
        /\ pc' = [pc EXCEPT ![currpid] = "semdelete"]
        /\ arg' = [arg EXCEPT ![currpid] = [id |-> s, n |-> 0]]
    BY <1>4 DEF Semdelete, StartLoop, GoTo
  <2>2. pc'[currpid'] = "semdelete" /\ arg'[currpid'].id = s
    BY <1>1, <2>1 DEF SInv, IInv, TypeOK
  <2>3. \A z \in Sems \ {s} : sstate'[z] = sstate[z]
    BY <2>1, SemTypes DEF SInv
  <2> QED  BY <1>1, <1>2, <2>2, <2>3 DEF SemCountAgrees, InOrder, Counted, Cleared
<1> QED  BY <1>3, <1>4

\* signaln's loop (signaln.c)
LEMMA SignalnLoopKeepsOrder ==
  ASSUME SInv, SignalnLoop
  PROVE  SemCountAgrees'
<1>1. /\ pc[currpid] = "signaln" /\ arg[currpid].id \in Sems /\ sstate' = sstate
  BY InSemLoop DEF SInv, SignalnLoop
<1>2. \A z \in Sems : InOrder(z)
  BY <1>1, AllInOrder DEF SInv
<1>3. CASE Release(arg[currpid].id)
  <2>1. \A z \in Sems : InOrder(z)'
    BY <1>1, <1>2, <1>3, ReleaseKeepsOrder DEF SInv
  <2> QED  BY <2>1, OrderAgrees
<1>4. CASE UNCHANGED <<scount, squeue>>
  BY <1>1, <1>4, NoSemTouched DEF SInv
<1> QED  BY <1>3, <1>4 DEF SignalnLoop

\* While rescheduling is deferred ready does not switch (resched.c).
LEMMA FirstStays ==
  ASSUME IInv, NEW s, ReadyFirst(s), ndefers > 0
  PROVE  currpid' = currpid
BY DEF ReadyFirst, Ready, Resched

\* semdelete's loop: the entry is already free while its waiters are released
\* (semdelete.c).
LEMMA SemdeleteLoopKeepsOrder ==
  ASSUME SInv, SemdeleteLoop
  PROVE  SemCountAgrees'
<1>0. PICK s \in Sems : s = arg[currpid].id
  BY InSemLoop DEF SInv, SemdeleteLoop
<1>1. pc[currpid] = "semdelete" /\ sstate' = sstate /\ ndefers = 1
  BY InSemLoop DEF SInv, SemdeleteLoop
<1>2. scount' = [scount EXCEPT ![s] = @ + 1]
  BY <1>0 DEF SemdeleteLoop
<1>3. \/ HasWaiter(s) /\ ReadyFirst(s) /\ UNCHANGED where
      \/ ~HasWaiter(s) /\ squeue' = squeue
  BY <1>0 DEF SemdeleteLoop
<1>4. Counted(s) /\ \A z \in Sems \ {s} : InOrder(z)
  BY <1>0, <1>1 DEF SInv, SemCountAgrees, InOrder, Counted, Cleared
<1>5. scount'[s] = scount[s] + 1 /\ scount[s] \in Int /\ \A z \in Sems \ {s} : scount'[z] = scount[z]
  BY <1>1, <1>2, SemTypes DEF SInv
<1>6. CASE HasWaiter(s) /\ ReadyFirst(s) /\ UNCHANGED where
  <2>1. currpid' = currpid /\ pc'[currpid'] = "semdelete" /\ arg'[currpid'].id = s
    BY <1>0, <1>1, <1>6, FirstStays DEF SInv, where
  <2>2. scount[s] < 0 /\ squeue[s] # <<>> /\ Len(squeue[s]) = -scount[s]
    BY <1>1, <1>4, <1>6, SemTypes DEF HasWaiter, Counted, SInv
  <2>3. Len(squeue'[s]) = Len(squeue[s]) - 1 /\ \A z \in Sems \ {s} : squeue'[z] = squeue[z]
    BY <1>1, <1>6, <2>2, FirstLeaves DEF SInv
  <2>4. Counted(s)'
    BY <1>5, <2>2, <2>3 DEF Counted
  <2>5. \A z \in Sems \ {s} : InOrder(z)'
    BY <1>1, <1>4, <1>5, <2>3 DEF InOrder, Counted, Cleared
  <2> QED  BY <2>1, <2>4, <2>5 DEF SemCountAgrees, InOrder, Counted, Cleared
<1>7. CASE ~HasWaiter(s) /\ squeue' = squeue
  <2>1. ~(scount[s] < 0) /\ Len(squeue[s]) = 0 /\ squeue[s] = <<>>
    BY <1>1, <1>4, <1>7, SemTypes DEF HasWaiter, Counted, SInv
  <2>2. InOrder(s)'
    BY <1>5, <1>7, <2>1 DEF InOrder, Counted, Cleared
  <2>3. \A z \in Sems : InOrder(z)'
    BY <1>1, <1>4, <1>5, <1>7, <2>2 DEF InOrder, Counted, Cleared
  <2> QED  BY <2>3, OrderAgrees
<1> QED  BY <1>3, <1>6, <1>7

\* semreset's loop: the queue is emptied before the count is set (semreset.c).
LEMMA SemresetLoopKeepsOrder ==
  ASSUME SInv, SemresetLoop
  PROVE  SemCountAgrees'
<1>0. PICK s \in Sems, n \in Int : s = arg[currpid].id /\ n = arg[currpid].n
  BY InSemLoop DEF SInv, SemresetLoop
<1>1. pc[currpid] = "semreset" /\ sstate' = sstate /\ ndefers = 1
  BY InSemLoop DEF SInv, SemresetLoop
<1>2. n >= 0
  BY <1>0, <1>1, SemTypes DEF SInv, ResetArgs
<1>3. \/ /\ squeue[s] # <<>> /\ ReadyFirst(s) /\ UNCHANGED <<scount, where>>
      \/ /\ squeue[s] = <<>> /\ scount' = [scount EXCEPT ![s] = n] /\ squeue' = squeue
  BY <1>0 DEF SemresetLoop
<1>4. Cleared(s) /\ \A z \in Sems \ {s} : InOrder(z)
  BY <1>0, <1>1 DEF SInv, SemCountAgrees, InOrder, Counted, Cleared
<1>5. CASE squeue[s] # <<>> /\ ReadyFirst(s) /\ UNCHANGED <<scount, where>>
  <2>1. currpid' = currpid /\ pc'[currpid'] = "semreset" /\ arg'[currpid'].id = s
    BY <1>0, <1>1, <1>5, FirstStays DEF SInv, where
  <2>2. \A z \in Sems \ {s} : squeue'[z] = squeue[z]
    BY <1>1, <1>5, FirstLeaves DEF SInv
  <2>3. Cleared(s)'
    BY <1>1, <1>4, <1>5 DEF Cleared
  <2>4. \A z \in Sems \ {s} : InOrder(z)'
    BY <1>1, <1>4, <1>5, <2>2 DEF InOrder, Counted, Cleared
  <2> QED  BY <2>1, <2>3, <2>4 DEF SemCountAgrees, InOrder, Counted, Cleared
<1>6. CASE squeue[s] = <<>> /\ scount' = [scount EXCEPT ![s] = n] /\ squeue' = squeue
  <2>1. scount'[s] = n /\ \A z \in Sems \ {s} : scount'[z] = scount[z]
    BY <1>1, <1>6, SemTypes DEF SInv
  <2>2. Len(squeue[s]) = 0
    BY <1>1, <1>6, SemTypes DEF SInv
  <2>3. InOrder(s)'
    BY <1>1, <1>2, <1>6, <2>1, <2>2 DEF InOrder, Counted, Cleared
  <2>4. \A z \in Sems : InOrder(z)'
    BY <1>1, <1>4, <1>6, <2>1, <2>3 DEF InOrder, Counted, Cleared
  <2> QED  BY <2>4, OrderAgrees
<1> QED  BY <1>3, <1>5, <1>6

-----------------------------------------------------------------------------
(* The invariant                                                           *)

\* Every step leaves counts and queues in agreement.
LEMMA NextCounts ==
  ASSUME SInv, Next
  PROVE  SemCountAgrees'
<1>1. CASE ProcessCall
  BY <1>1, NoSemTouched
  DEF SInv, ProcessCall, Create, Resume, Suspend, Kill, Chprio, Yield, Program, sems
<1>2. CASE SemaphoreCall
  BY <1>2, SemcreateKeepsOrder, WaitKeepsOrder, SignalKeepsOrder, StartKeepsOrder DEF SemaphoreCall
<1>3. CASE MessageCall
  BY <1>3, NoSemTouched
  DEF SInv, MessageCall, Send, Receive, ReceiveBlock, RecvtimeBlock, Sleepms, Program, sems
<1>4. CASE TakeMessage \/ WakeupLoop \/ Preempt \/ ClockTick
  BY <1>4, NoSemTouched DEF SInv, TakeMessage, WakeupLoop, Preempt, ClockTick, Inside, sems
<1> QED  BY <1>1, <1>2, <1>3, <1>4, KillFinishKeepsOrder, SignalnLoopKeepsOrder,
            SemdeleteLoopKeepsOrder, SemresetLoopKeepsOrder
         DEF Next, InKernel

\* A process enters semreset's loop with the count it has checked, and keeps it
\* (semreset.c).
LEMMA NextResetArgs ==
  ASSUME SInv, Next
  PROVE  ResetArgs'
<1>0. pc \in [Pids -> Points] /\ arg \in [Pids -> [id : Int, n : Int]] /\ currpid \in Pids
  BY DEF SInv, IInv, TypeOK
<1>1. ASSUME UNCHANGED where  PROVE ResetArgs'
  BY <1>1 DEF where, ResetArgs, SInv
<1>2. ASSUME NEW c, NEW a, GoTo(c, a), c # "semreset" \/ a.n >= 0  PROVE ResetArgs'
  BY <1>0, <1>2 DEF GoTo, ResetArgs, SInv
<1>3. CASE ProcessCall
  BY <1>1, <1>2, <1>3 DEF ProcessCall, Create, Resume, Suspend, Kill, Chprio, Yield
<1>4. CASE SemaphoreCall
  <2>1. ASSUME NEW s \in Sems, NEW c \in Counts, Semreset(s, c)  PROVE ResetArgs'
    <3>1. GoTo("semreset", [id |-> s, n |-> c]) /\ c >= 0
      BY <2>1 DEF Semreset, StartLoop
    <3> QED  BY <1>2, <3>1
  <2>2. ASSUME NEW s \in Sems, NEW c \in Counts, Signaln(s, c)  PROVE ResetArgs'
    BY <1>2, <2>2 DEF Signaln, StartLoop
  <2>3. ASSUME NEW s \in Sems, Semdelete(s)  PROVE ResetArgs'
    BY <1>2, <2>3 DEF Semdelete, StartLoop
  <2> QED  BY <1>1, <1>4, <2>1, <2>2, <2>3 DEF SemaphoreCall, Semcreate, Wait, Signal
<1>5. CASE MessageCall
  BY <1>1, <1>2, <1>5 DEF MessageCall, Send, Receive, ReceiveBlock, RecvtimeBlock, Sleepms
<1>6. CASE KillFinish
  <2>1. /\ pc' = [p \in Pids |-> IF p \in {currpid, arg[currpid].id} THEN "user" ELSE pc[p]]
        /\ arg' = [arg EXCEPT ![currpid] = NoArg, ![arg[currpid].id] = NoArg]
    BY <1>6 DEF KillFinish
  <2> QED  BY <1>0, <2>1 DEF ResetArgs, SInv
<1>7. CASE SignalnLoop \/ SemdeleteLoop \/ SemresetLoop
  <2>1. SignalnLoop => ResetArgs'
    BY <1>2 DEF SignalnLoop, EndLoop, Return
  <2>2. SemdeleteLoop \/ SemresetLoop => ResetArgs'
    BY <1>1, <1>2 DEF SemdeleteLoop, SemresetLoop, EndLoop, Return
  <2> QED  BY <1>7, <2>1, <2>2
<1>8. CASE TakeMessage \/ WakeupLoop \/ Preempt \/ ClockTick
  BY <1>1, <1>2, <1>8 DEF TakeMessage, WakeupLoop, Preempt, ClockTick, Wakeup, Return
<1> QED  BY <1>3, <1>4, <1>5, <1>6, <1>7, <1>8 DEF Next, InKernel

\* A semaphore's count and its queue agree at every moment, and nobody is left
\* waiting on a semaphore that has been deleted, however calls, kills and messages
\* interleave (wait.c, signal.c, signaln.c, semdelete.c, semreset.c, kill.c).
THEOREM CountsMatchQueues == Spec => []SemCountAgrees
<1>1. Init => SInv
  <2>1. Init => SemCountAgrees
    <3> SUFFICES ASSUME Init, NEW s \in Sems  PROVE InOrder(s)
      BY DEF SemCountAgrees, InOrder, Counted, Cleared
    <3>1. squeue[s] = <<>> /\ scount[s] = 0
      BY DEF Init
    <3>2. Len(squeue[s]) = 0
      BY <3>1
    <3> QED  BY <3>1, <3>2 DEF InOrder, Counted, Cleared
  <2>2. Init => ResetArgs
    BY DEF Init, ResetArgs
  <2> QED  BY <2>1, <2>2, InitIInv DEF SInv
<1>2. SInv /\ [Next]_vars => SInv'
  <2>1. ASSUME SInv, UNCHANGED vars  PROVE SemCountAgrees' /\ ResetArgs'
    BY <2>1 DEF SInv, SemCountAgrees, ResetArgs, vars, sems, where, sched
  <2> QED  BY <2>1, NextIInv, NextCounts, NextResetArgs DEF SInv
<1>3. SInv => SemCountAgrees
  BY DEF SInv
<1> QED  BY <1>1, <1>2, <1>3, PTL DEF Spec
=============================================================================
