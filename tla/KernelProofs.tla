--------------------------- MODULE KernelProofs ---------------------------
(***************************************************************************)
(* Proofs about the process manager for every size of its tables, every    *)
(* set of system calls and both clock handlers.                            *)
(*                                                                         *)
(* That a process is on the list its state says (QueuesAgree) is inductive *)
(* only together with four other facts: the types, the null process being  *)
(* eligible (so that resched finds a process to run), the deferral of      *)
(* rescheduling being confined to the loops (so that a process that blocks *)
(* is really switched away from), and what a call that lost the processor  *)
(* in the middle still holds in its local variables.                       *)
(***************************************************************************)
EXTENDS Kernel, QueueProofs

\* What a process in the middle of a call has in hand: kill a process that once
\* got a stack, the semaphore loops an entry of the semaphore table.
CallArgs ==
  \A p \in Pids :
    /\ pc[p] = "kill" => arg[p].id \in Pids \ {NULLPROC} /\ prstk[arg[p].id] # 0
    /\ pc[p] \in {"signaln", "semdelete", "semreset"} => arg[p].id \in Sems
    /\ prstate[p] # "PR_FREE" => prstk[p] # 0

IInv == TypeOK /\ QueuesAgree /\ NullReady /\ DeferralsPaired /\ CallArgs

-----------------------------------------------------------------------------
(* The scheduler                                                           *)

Eligible == {"PR_CURR", "PR_READY"}

\* The states, the ready list and the keys with which resched may be called.
Consistent(st, rl, key) ==
  /\ st \in [Pids -> States] /\ rl \in Seq(Pids) /\ key \in [Pids -> Int]
  /\ NoDuplicates(rl)
  /\ \A p \in Pids : OnQueue(rl, p) <=> st[p] = "PR_READY"
  /\ \A p \in Pids : st[p] = "PR_CURR" => p = currpid
  /\ st[NULLPROC] \in Eligible

\* What scheduling makes of the states st: only who is current changes.
Switched(st) ==
  /\ prstate' \in [Pids -> States] /\ readylist' \in Seq(Pids) /\ qkey' \in [Pids -> Int]
  /\ currpid' \in Pids /\ preempt' \in 1 .. QUANTUM /\ attempt' \in BOOLEAN
  /\ ReadyAgrees' /\ CurrAgrees' /\ NullReady'
  /\ \A p \in Pids : IF st[p] \in Eligible THEN prstate'[p] \in Eligible
                                           ELSE prstate'[p] = st[p]

\* resched, not deferred, called with consistent states and list: it puts the
\* current process on the ready list if that is still eligible and makes exactly
\* one process current (resched.c).
LEMMA DispatchSwitches ==
  ASSUME TypeOK, NEW st, NEW rl, NEW key, NEW slice \in 1 .. QUANTUM,
         Consistent(st, rl, key), Dispatch(st, rl, key, slice), attempt' \in BOOLEAN
  PROVE  Switched(st)
<1> DEFINE eligible == st[currpid] = "PR_CURR"
           rl1  == IF eligible THEN Insert(rl, key, currpid, prprio[currpid]) ELSE rl
           st1  == IF eligible THEN [st EXCEPT ![currpid] = "PR_READY"] ELSE st
           key1 == IF eligible THEN [key EXCEPT ![currpid] = prprio[currpid]] ELSE key
           keeps == eligible /\ (rl = <<>> \/ prprio[currpid] > key[rl[1]])
<1>1. /\ st \in [Pids -> States] /\ rl \in Seq(Pids) /\ key \in [Pids -> Int]
      /\ NoDuplicates(rl)
      /\ \A p \in Pids : OnQueue(rl, p) <=> st[p] = "PR_READY"
      /\ \A p \in Pids : st[p] = "PR_CURR" => p = currpid
      /\ st[NULLPROC] \in Eligible
  BY DEF Consistent
<1>2. /\ currpid \in Pids /\ prprio[currpid] \in Int /\ NULLPROC \in Pids
      /\ QUANTUM \in 1 .. QUANTUM
  BY TableAssumption, ClockAssumption DEF TypeOK, Pids, NULLPROC
<1>3. CASE keeps
  <2>1. /\ prstate' = st /\ readylist' = rl /\ qkey' = key
        /\ preempt' = slice /\ currpid' = currpid
    BY <1>3 DEF Dispatch
  <2> QED  BY <1>1, <1>2, <1>3, <2>1 DEF Switched, ReadyAgrees, CurrAgrees, NullReady, Eligible
<1>4. CASE ~keeps
  <2>1. /\ currpid' = rl1[1]
        /\ prstate' = [st1 EXCEPT ![rl1[1]] = "PR_CURR"]
        /\ readylist' = Tail(rl1)
        /\ qkey' = key1
        /\ preempt' = QUANTUM
    BY <1>4 DEF Dispatch
  <2>2. st1 \in [Pids -> States] /\ key1 \in [Pids -> Int]
    BY <1>1, <1>2 DEF States
  <2>3. /\ rl1 \in Seq(Pids) /\ rl1 # <<>> /\ NoDuplicates(rl1)
        /\ \A p \in Pids : OnQueue(rl1, p) <=> st1[p] = "PR_READY"
    <3>1. CASE eligible
      <4>1. ~OnQueue(rl, currpid)  BY <1>1, <1>2, <3>1
      <4>2. rl1 = Insert(rl, key, currpid, prprio[currpid])  BY <3>1
      <4>5. Grows(Pids, rl, currpid, Insert(rl, key, currpid, prprio[currpid]))
        BY <1>1, <1>2, InsertFacts
      <4>3. \A p \in Pids : st1[p] = IF p = currpid THEN "PR_READY" ELSE st[p]
        BY <1>1, <3>1
      <4> HIDE DEF rl1, st1, eligible
      <4> QED  BY <1>1, <1>2, <4>1, <4>2, <4>3, <4>5 DEF Grows
    <3>2. CASE ~eligible
      <4>1. rl1 = rl /\ st1 = st  BY <3>2
      <4>2. OnQueue(rl, NULLPROC)  BY <1>1, <1>2, <3>2 DEF Eligible
      <4>3. rl # <<>>  BY <4>2 DEF OnQueue
      <4> QED  BY <4>1, <4>3, <1>1
    <3> QED  BY <3>1, <3>2
  <2>4. \A p \in Pids : st1[p] # "PR_CURR"
    BY <1>1, <1>2
  <2>5. \A p \in Pids : /\ st[p] \notin Eligible => st1[p] = st[p]
                        /\ st[p] \in Eligible => st1[p] = "PR_READY"
    BY <1>1, <1>2, <2>4 DEF Eligible
  <2> HIDE DEF rl1, st1, key1, keeps, eligible
  <2>6. rl1[1] \in Pids /\ OnQueue(rl1, rl1[1]) /\ Shrinks(Pids, rl1, rl1[1], Tail(rl1))
    BY <2>3, TailFacts
  <2>7. prstate' \in [Pids -> States]
        /\ \A p \in Pids : prstate'[p] = IF p = rl1[1] THEN "PR_CURR" ELSE st1[p]
    BY <2>1, <2>2, <2>6 DEF States
  <2>8. ReadyAgrees'
    BY <2>1, <2>3, <2>6, <2>7 DEF ReadyAgrees, Shrinks
  <2>9. CurrAgrees'
    BY <2>1, <2>4, <2>7 DEF CurrAgrees
  <2>10. \A p \in Pids : IF st[p] \in Eligible THEN prstate'[p] \in Eligible
                                               ELSE prstate'[p] = st[p]
    BY <2>3, <2>5, <2>6, <2>7 DEF Eligible
  <2>11. NullReady'
    BY <1>1, <1>2, <2>10 DEF NullReady, Eligible
  <2> QED  BY <1>2, <2>1, <2>2, <2>6, <2>7, <2>8, <2>9, <2>10, <2>11 DEF Switched, Shrinks
<1> QED  BY <1>3, <1>4

\* resched, which only records the attempt while it is deferred (resched.c).
LEMMA ReschedSwitches ==
  ASSUME TypeOK, NEW st, NEW rl, NEW key,
         Consistent(st, rl, key), Resched(st, rl, key),
         ndefers > 0 => st[currpid] = "PR_CURR"
  PROVE  Switched(st) /\ (ndefers > 0 => currpid' = currpid)
<1>1. CASE ndefers > 0
  <2>1. /\ attempt' = TRUE
        /\ prstate' = st /\ readylist' = rl /\ qkey' = key
        /\ currpid' = currpid /\ preempt' = preempt
    BY <1>1 DEF Resched
  <2> QED  BY <1>1, <2>1 DEF Switched, Consistent, ReadyAgrees, CurrAgrees, NullReady, Eligible, TypeOK
<1>2. CASE ~(ndefers > 0)
  <2>1. Dispatch(st, rl, key, preempt) /\ attempt' = attempt
    BY <1>2 DEF Resched
  <2>2. preempt \in 1 .. QUANTUM /\ attempt' \in BOOLEAN
    BY <2>1 DEF TypeOK
  <2> QED  BY <1>2, <2>1, <2>2, DispatchSwitches
<1> QED  BY <1>1, <1>2

\* Between two calls the scheduler's own variables are consistent (resched.c).
LEMMA AsItIs ==
  ASSUME IInv
  PROVE  /\ Consistent(prstate, readylist, qkey)
         /\ currpid \in Pids /\ NULLPROC \in Pids
         /\ prstate[currpid] = "PR_CURR"
<1>1. NULLPROC \in Pids  BY TableAssumption DEF Pids, NULLPROC
<1>2. currpid \in Pids  BY DEF IInv, TypeOK
<1>3. \A p \in Pids : prstate[p] = "PR_CURR" <=> p = currpid  BY DEF IInv, QueuesAgree, CurrAgrees
<1>4. prstate[NULLPROC] \in Eligible  BY DEF IInv, NullReady, Eligible
<1>5. /\ prstate \in [Pids -> States] /\ readylist \in Seq(Pids) /\ qkey \in [Pids -> Int]
      /\ NoDuplicates(readylist)
      /\ \A p \in Pids : OnQueue(readylist, p) <=> prstate[p] = "PR_READY"
  BY DEF IInv, TypeOK, QueuesAgree, ReadyAgrees
<1> QED  BY <1>1, <1>2, <1>3, <1>4, <1>5 DEF Consistent

\* resched once the current process has left the eligible states (wait.c,
\* receive.c, sleep.c).
LEMMA BlockSwitches ==
  ASSUME IInv, NEW s \in States \ Eligible, NEW key \in [Pids -> Int],
         currpid # NULLPROC, ndefers = 0,
         Resched([prstate EXCEPT ![currpid] = s], readylist, key)
  PROVE  Switched([prstate EXCEPT ![currpid] = s])
<1> DEFINE st == [prstate EXCEPT ![currpid] = s]
<1>1. prstate \in [Pids -> States] /\ currpid \in Pids
  BY DEF IInv, TypeOK
<1>3. st \in [Pids -> States] /\ \A p \in Pids : st[p] = IF p = currpid THEN s ELSE prstate[p]
  BY <1>1
<1>4. \A p \in Pids : prstate[p] = "PR_CURR" <=> p = currpid
  BY DEF IInv, QueuesAgree, CurrAgrees
<1> HIDE DEF st
<1>5. Consistent(st, readylist, key)
  BY <1>1, <1>3, <1>4, AsItIs DEF Consistent, Eligible
<1>2. ~(ndefers > 0)
  OBVIOUS
<1> QED  BY <1>5, <1>2, ReschedSwitches DEF IInv, st

\* ready on a process that was on no ready list (ready.c).
LEMMA ReadySwitches ==
  ASSUME IInv, NEW pid \in Pids, NEW key \in [Pids -> Int],
         prstate[pid] \notin Eligible \cup {"PR_FREE"}, Ready(pid, key)
  PROVE  /\ Switched([prstate EXCEPT ![pid] = "PR_READY"])
         /\ ndefers > 0 => currpid' = currpid
<1> DEFINE st  == [prstate EXCEPT ![pid] = "PR_READY"]
           rl  == Insert(readylist, key, pid, prprio[pid])
           k   == [key EXCEPT ![pid] = prprio[pid]]
<1>1. Resched(st, rl, k)
  BY DEF Ready, isbadpid
<1>2. prprio[pid] \in Int /\ prstate \in [Pids -> States] /\ readylist \in Seq(Pids)
  BY DEF IInv, TypeOK
<1>3. NoDuplicates(readylist) /\ ~OnQueue(readylist, pid)
  BY DEF IInv, QueuesAgree, ReadyAgrees, Eligible
<1>4. Grows(Pids, readylist, pid, rl)
  BY <1>2, InsertFacts
<1>5. st \in [Pids -> States] /\ k \in [Pids -> Int]
      /\ \A p \in Pids : st[p] = IF p = pid THEN "PR_READY" ELSE prstate[p]
  BY <1>2 DEF States
<1> HIDE DEF rl, st, k
<1>8. currpid \in Pids /\ pid # currpid
      /\ \A p \in Pids : prstate[p] = "PR_CURR" <=> p = currpid
  BY DEF IInv, TypeOK, QueuesAgree, CurrAgrees, Eligible
<1>6. Consistent(st, rl, k) /\ st[currpid] = "PR_CURR"
  BY <1>3, <1>4, <1>5, <1>8, AsItIs DEF Consistent, Eligible, Grows
<1>7. Switched(st) /\ (ndefers > 0 => currpid' = currpid)
  BY <1>1, <1>6, ReschedSwitches DEF IInv
<1> QED  BY <1>7 DEF st

\* DEFER_STOP reschedules if somebody tried to (resched.c:resched_cntl).
LEMMA DeferStopSwitches ==
  ASSUME IInv, DeferStop
  PROVE  Switched(prstate) /\ ndefers' = IF ndefers = 0 THEN 0 ELSE ndefers - 1
<1>1. ndefers' = IF ndefers = 0 THEN 0 ELSE ndefers - 1
  BY DEF DeferStop, IInv, TypeOK
<1>2. CASE ndefers = 1 /\ attempt
  <2>1. Dispatch(prstate, readylist, qkey, preempt) /\ attempt' = attempt
    BY <1>2 DEF DeferStop
  <2>2. preempt \in 1 .. QUANTUM /\ attempt' \in BOOLEAN /\ TypeOK
    BY <2>1 DEF IInv, TypeOK
  <2> QED  BY <1>1, <2>1, <2>2, AsItIs, DispatchSwitches
<1>3. CASE ~(ndefers = 1 /\ attempt)
  <2>1. UNCHANGED sched  BY <1>3 DEF DeferStop
  <2> QED  BY <1>1, <2>1 DEF sched, Switched, IInv, QueuesAgree, ReadyAgrees, CurrAgrees, NullReady,
                              TypeOK, Eligible
<1> QED  BY <1>2, <1>3

-----------------------------------------------------------------------------
(* From the states the scheduler works on to the invariant                 *)

\* The sleep queue and the semaphore queues are right for the states st.
Placed(st, sq, wq, ps) ==
  /\ sq \in Seq(Pids) /\ NoDuplicates(sq)
  /\ \A p \in Pids : OnQueue(sq, p) <=> st[p] \in {"PR_SLEEP", "PR_RECTIM"}
  /\ wq \in [Sems -> Seq(Pids)] /\ ps \in [Pids -> Sems \cup {-1}]
  /\ \A s \in Sems :
       /\ NoDuplicates(wq[s])
       /\ \A p \in Pids : OnQueue(wq[s], p) <=> st[p] = "PR_WAIT" /\ ps[p] = s
  /\ \A p \in Pids : st[p] = "PR_WAIT" => ps[p] \in Sems

\* Everything the invariant says of the scheduler and the queues is true again,
\* nobody was switched away from while rescheduling was deferred, and no entry of
\* the process table came into use.
Settled ==
  /\ prstate' \in [Pids -> States] /\ readylist' \in Seq(Pids) /\ qkey' \in [Pids -> Int]
  /\ currpid' \in Pids /\ preempt' \in 1 .. QUANTUM /\ attempt' \in BOOLEAN
  /\ sleepq' \in Seq(Pids) /\ squeue' \in [Sems -> Seq(Pids)]
  /\ prsem' \in [Pids -> Sems \cup {-1}]
  /\ QueuesAgree' /\ NullReady'
  /\ ndefers > 0 => currpid' = currpid \/ ndefers' = 0
  /\ \A p \in Pids : prstate'[p] # "PR_FREE" => prstate[p] # "PR_FREE"

\* The types of the variables Settled does not speak of.
OtherTypes ==
  /\ prprio \in [Pids -> Int] /\ prparent \in [Pids -> Pids]
  /\ prhasmsg \in [Pids -> BOOLEAN] /\ prmsg \in [Pids -> Mails]
  /\ prstk \in [Pids -> Stacks \cup {0}] /\ stkfree \subseteq Stacks
  /\ sstate \in [Sems -> {"S_FREE", "S_USED"}] /\ scount \in [Sems -> Int] /\ nextsem \in Nat
  /\ prcount \in Int /\ nextpid \in Pids /\ ndefers \in Nat /\ halted \in BOOLEAN
  /\ pc \in [Pids -> Points] /\ arg \in [Pids -> [id : Int, n : Int]]

\* QueuesAgree is what Placed says of the states as they are.
LEMMA PlacedNow ==
  ASSUME IInv
  PROVE  Placed(prstate, sleepq, squeue, prsem)
BY DEF Placed, IInv, TypeOK, QueuesAgree, SleepAgrees, WaitAgrees

\* A process that goes from one state without a list to another disturbs no list
\* (create.c, resume.c, receive.c).
LEMMA PlacedMove ==
  ASSUME NEW a, NEW b, NEW sq, NEW wq, NEW ps, Placed(a, sq, wq, ps),
         \A p \in Pids : a[p] = b[p] \/ ~({a[p], b[p]} \cap {"PR_SLEEP", "PR_RECTIM", "PR_WAIT"} # {})
  PROVE  Placed(b, sq, wq, ps)
<1>1. \A p \in Pids : /\ a[p] = "PR_WAIT" <=> b[p] = "PR_WAIT"
                      /\ a[p] \in {"PR_SLEEP", "PR_RECTIM"} <=> b[p] \in {"PR_SLEEP", "PR_RECTIM"}
  OBVIOUS
<1> QED  BY <1>1 DEF Placed

\* After scheduling, states whose processes were placed are placed again, and some
\* process is current (resched.c).
LEMMA SwitchedSettles ==
  ASSUME NEW st, Switched(st), Placed(st, sleepq', squeue', prsem'),
         ndefers > 0 => currpid' = currpid \/ ndefers' = 0,
         \A p \in Pids : prstate[p] = "PR_FREE" => st[p] = "PR_FREE"
  PROVE  Settled
<1>1. \A p \in Pids : /\ prstate'[p] = "PR_WAIT" <=> st[p] = "PR_WAIT"
                      /\ prstate'[p] \in {"PR_SLEEP", "PR_RECTIM"} <=> st[p] \in {"PR_SLEEP", "PR_RECTIM"}
                      /\ st[p] = "PR_FREE" => prstate'[p] = "PR_FREE"
  BY DEF Switched, Eligible
<1>2. SleepAgrees'
  BY <1>1 DEF Placed, SleepAgrees
<1>3. WaitAgrees'
  BY <1>1 DEF Placed, WaitAgrees
<1>4. ReadyAgrees' /\ CurrAgrees' /\ NullReady'
  BY DEF Switched
<1>5. QueuesAgree'
  BY <1>2, <1>3, <1>4 DEF QueuesAgree
<1> QED  BY <1>1, <1>4, <1>5 DEF Settled, Switched, Placed

\* A step after which the current process is where it was: its call is over
\* (restore, intr.S).
LEMMA SamePlace ==
  ASSUME IInv, Settled, OtherTypes', UNCHANGED <<where, prstk, ndefers>>
  PROVE  IInv'
<1>1. TypeOK'
  BY DEF TypeOK, Settled, OtherTypes
<1>2. pc' = pc /\ arg' = arg /\ prstk' = prstk /\ ndefers' = ndefers
  BY DEF where
<1>3. DeferralsPaired'
  <2>1. CASE ndefers = 0
    BY <1>2, <2>1 DEF IInv, DeferralsPaired, Settled
  <2>2. CASE ndefers # 0
    <3>1. currpid' = currpid  BY <2>2 DEF Settled, IInv, TypeOK
    <3> QED  BY <1>2, <3>1 DEF IInv, DeferralsPaired
  <2> QED  BY <2>1, <2>2
<1>4. CallArgs'
  BY <1>2 DEF IInv, CallArgs, Settled
<1> QED  BY <1>1, <1>3, <1>4 DEF IInv, Settled

\* Outside the loops rescheduling is not deferred (resched.c).
LEMMA NotDeferred ==
  ASSUME IInv, pc[currpid] \notin Loops
  PROVE  ndefers = 0 /\ \A p \in Pids : pc[p] \notin Loops
BY DEF IInv, DeferralsPaired, Loops

\* A step after which the process that ran will go on at a point outside the loops.
LEMMA LeavesTo ==
  ASSUME IInv, Settled, OtherTypes', NEW c \in Points \ Loops, NEW a, GoTo(c, a),
         ndefers' = 0, prstk' = prstk,
         c = "kill" => a.id \in Pids \ {NULLPROC} /\ prstk[a.id] # 0
  PROVE  IInv'
<1>1. TypeOK'
  BY DEF TypeOK, Settled, OtherTypes
<1>2. /\ currpid \in Pids /\ pc \in [Pids -> Points] /\ arg \in [Pids -> [id : Int, n : Int]]
      /\ pc' = [pc EXCEPT ![currpid] = c] /\ arg' = [arg EXCEPT ![currpid] = a]
  BY DEF GoTo, IInv, TypeOK
<1>3. \A p \in Pids : pc'[p] \notin Loops
  BY <1>2 DEF IInv, DeferralsPaired
<1>4. DeferralsPaired'
  BY <1>3 DEF DeferralsPaired, Settled
<1>5. CallArgs'
  BY <1>2 DEF IInv, CallArgs, Settled, Loops
<1> QED  BY <1>1, <1>4, <1>5 DEF IInv, Settled

-----------------------------------------------------------------------------
(* The operations                                                          *)

\* A call that leaves the scheduler, the states and the queues alone.
LEMMA QuietSettles ==
  ASSUME IInv, UNCHANGED <<sched, sleepq, squeue, prsem>>
  PROVE  Settled
BY DEF Settled, IInv, TypeOK, sched, QueuesAgree, ReadyAgrees, CurrAgrees, SleepAgrees, WaitAgrees,
       NullReady

\* ready on a process that is on no list: it joins the ready list or runs (ready.c).
LEMMA ReadySettles ==
  ASSUME IInv, NEW pid \in Pids, NEW key \in [Pids -> Int], Ready(pid, key),
         prstate[pid] \notin Eligible \cup {"PR_FREE"},
         Placed([prstate EXCEPT ![pid] = "PR_READY"], sleepq', squeue', prsem')
  PROVE  Settled
<1> DEFINE st == [prstate EXCEPT ![pid] = "PR_READY"]
<1>1. Switched(st) /\ (ndefers > 0 => currpid' = currpid)
  BY ReadySwitches
<1>2. \A p \in Pids : prstate[p] = "PR_FREE" => st[p] = "PR_FREE"
  BY DEF IInv, TypeOK
<1> HIDE DEF st
<1>3. Placed(st, sleepq', squeue', prsem')  BY DEF st
<1> QED  BY <1>1, <1>2, <1>3, SwitchedSettles

\* The current process blocks and another one runs (resched.c).
LEMMA BlockSettles ==
  ASSUME IInv, NEW s \in States \ Eligible, NEW key \in [Pids -> Int],
         currpid # NULLPROC, ndefers = 0,
         Resched([prstate EXCEPT ![currpid] = s], readylist, key),
         Placed([prstate EXCEPT ![currpid] = s], sleepq', squeue', prsem')
  PROVE  Settled
<1> DEFINE st == [prstate EXCEPT ![currpid] = s]
<1>1. Switched(st)
  BY BlockSwitches
<1>2. \A p \in Pids : prstate[p] = "PR_FREE" => st[p] = "PR_FREE"
  BY DEF IInv, TypeOK, QueuesAgree, CurrAgrees
<1> HIDE DEF st
<1>3. Placed(st, sleepq', squeue', prsem')  BY DEF st
<1> QED  BY <1>1, <1>2, <1>3, SwitchedSettles

\* The current process stays eligible and may be switched away from (yield.c).
LEMMA YieldSettles ==
  ASSUME IInv, NEW key \in [Pids -> Int], Resched(prstate, readylist, key),
         UNCHANGED <<sleepq, squeue, prsem>>
  PROVE  Settled
<1>1. Consistent(prstate, readylist, key) /\ prstate[currpid] = "PR_CURR"
  BY AsItIs DEF Consistent
<1>2. Switched(prstate) /\ (ndefers > 0 => currpid' = currpid)
  BY <1>1, ReschedSwitches DEF IInv
<1>3. Placed(prstate, sleepq', squeue', prsem')
  BY PlacedNow
<1> QED  BY <1>2, <1>3, SwitchedSettles

\* A process that is not current is taken off whatever list it is on, as suspend
\* and kill do (suspend.c, kill.c).
LEMMA LeaveSettles ==
  ASSUME IInv, NEW v \in Pids \ {NULLPROC}, NEW s \in States \ Eligible,
         prstate[v] # "PR_CURR", prstate[v] = "PR_FREE" => s = "PR_FREE",
         prstate' = [prstate EXCEPT ![v] = s],
         \/ prstate[v] = "PR_READY" /\ readylist' = GetItem(readylist, v)
         \/ prstate[v] # "PR_READY" /\ readylist' = readylist,
         qkey' \in [Pids -> Int], UNCHANGED <<currpid, preempt, attempt>>,
         Placed([prstate EXCEPT ![v] = s], sleepq', squeue', prsem')
  PROVE  Settled
<1> DEFINE st == [prstate EXCEPT ![v] = s]
<1>1. /\ prstate \in [Pids -> States] /\ st \in [Pids -> States]
      /\ \A p \in Pids : st[p] = IF p = v THEN s ELSE prstate[p]
  BY DEF IInv, TypeOK
<1>2. \A p \in Pids : prstate[p] = "PR_FREE" => st[p] = "PR_FREE"
  BY <1>1
<1>3. Placed(st, sleepq', squeue', prsem') /\ prstate' = st
  OBVIOUS
<1> HIDE DEF st
<1>4. readylist' \in Seq(Pids) /\ ReadyAgrees'
  <2>1. CASE prstate[v] = "PR_READY"
    <3>1. Shrinks(Pids, readylist, v, readylist')
      BY <2>1, AsItIs, GetItemFacts DEF Consistent
    <3> QED  BY <1>1, <1>3, <2>1, <3>1, AsItIs DEF Consistent, ReadyAgrees, Shrinks, Eligible
  <2>2. CASE prstate[v] # "PR_READY"
    BY <1>1, <1>3, <2>2, AsItIs DEF Consistent, ReadyAgrees, Eligible
  <2> QED  BY <2>1, <2>2
<1>5. CurrAgrees'
  BY <1>1, <1>3 DEF IInv, QueuesAgree, CurrAgrees, Eligible
<1>6. NullReady'
  BY <1>1, <1>3, AsItIs DEF IInv, NullReady
<1>7. Switched(st)
  BY <1>1, <1>3, <1>4, <1>5, <1>6 DEF Switched, IInv, TypeOK, Eligible
<1> QED  BY <1>2, <1>3, <1>7, SwitchedSettles

\* resume keeps the invariant (resume.c).
LEMMA ResumeStep ==
  ASSUME IInv, NEW pid \in Pids, Resume(pid)
  PROVE  IInv'
<1>1. prstate[pid] = "PR_SUSP" /\ Ready(pid, qkey) /\ UNCHANGED <<ident, sems, msgs, where, sleepq, ndefers>>
  BY DEF Resume
<1>2. Placed([prstate EXCEPT ![pid] = "PR_READY"], sleepq, squeue, prsem)
  BY <1>1, PlacedNow, PlacedMove DEF IInv, TypeOK
<1>3. Settled
  BY <1>1, <1>2, ReadySettles DEF IInv, TypeOK, Eligible, sems
<1>4. OtherTypes'
  BY <1>1 DEF OtherTypes, IInv, TypeOK, ident, sems, msgs, where
<1> QED  BY <1>1, <1>3, <1>4, SamePlace DEF ident

\* suspend keeps the invariant, of a ready process and of the caller (suspend.c).
LEMMA SuspendStep ==
  ASSUME IInv, NEW pid \in Pids, Suspend(pid)
  PROVE  IInv'
<1>1. /\ Program("suspend") /\ pid # NULLPROC /\ prstate[pid] # "PR_FREE"
      /\ UNCHANGED <<ident, sems, msgs, where, sleepq, ndefers>>
  BY DEF Suspend, Refused, isbadpid
<1> DEFINE st == [prstate EXCEPT ![pid] = "PR_SUSP"]
<1>2. /\ prstate \in [Pids -> States] /\ st \in [Pids -> States]
      /\ \A p \in Pids : st[p] = IF p = pid THEN "PR_SUSP" ELSE prstate[p]
  BY DEF IInv, TypeOK, States
<1>3. ASSUME prstate[pid] \in Eligible  PROVE Placed(st, sleepq, squeue, prsem)
  BY <1>2, <1>3, PlacedNow, PlacedMove DEF Eligible
<1>4. CASE prstate[pid] = "PR_READY"
  <2>1. /\ readylist' = GetItem(readylist, pid)
        /\ prstate' = st
        /\ UNCHANGED <<qkey, currpid, preempt, attempt>>
    BY <1>4 DEF Suspend
  <2>2. Placed(st, sleepq', squeue', prsem')
    BY <1>1, <1>3, <1>4 DEF Eligible, sems
  <2>5. Settled
    BY <1>1, <1>4, <2>1, <2>2, LeaveSettles DEF States, Eligible, IInv, TypeOK
  <2>6. OtherTypes'
    BY <1>1 DEF OtherTypes, IInv, TypeOK, ident, sems, msgs, where
  <2> QED  BY <1>1, <2>5, <2>6, SamePlace DEF ident
<1>5. CASE prstate[pid] = "PR_CURR"
  <2>1. pid = currpid /\ Resched(st, readylist, qkey)
    BY <1>5 DEF Suspend, IInv, QueuesAgree, CurrAgrees
  <2>2. Placed(st, sleepq', squeue', prsem')
    BY <1>1, <1>3, <1>5 DEF Eligible, sems
  <2>3. ndefers = 0  BY <1>1, NotDeferred DEF Program, Loops
  <2>4. Settled
    BY <1>1, <2>1, <2>2, <2>3, BlockSettles DEF IInv, TypeOK, States, Eligible
  <2>5. OtherTypes'
    BY <1>1 DEF OtherTypes, IInv, TypeOK, ident, sems, msgs, where
  <2> QED  BY <1>1, <2>4, <2>5, SamePlace DEF ident
<1> QED  BY <1>4, <1>5 DEF Suspend

\* yield keeps the invariant (yield.c).
LEMMA YieldStep ==
  ASSUME IInv, Yield
  PROVE  IInv'
<1>1. Resched(prstate, readylist, qkey) /\ UNCHANGED <<ident, sems, msgs, where, sleepq, ndefers>>
  BY DEF Yield
<1>2. Settled
  BY <1>1, YieldSettles DEF IInv, TypeOK, sems
<1>3. OtherTypes'
  BY <1>1 DEF OtherTypes, IInv, TypeOK, ident, sems, msgs, where
<1> QED  BY <1>1, <1>2, <1>3, SamePlace DEF ident

\* chprio keeps the invariant: it touches no list (chprio.c).
LEMMA ChprioStep ==
  ASSUME IInv, NEW pid \in Pids, NEW prio \in NewPrios, Chprio(pid, prio)
  PROVE  IInv'
<1>1. Settled
  BY QuietSettles DEF Chprio, sems
<1>2. OtherTypes'
  BY PrioAssumption DEF Chprio, OtherTypes, IInv, TypeOK, sems, msgs, where
<1> QED  BY <1>1, <1>2, SamePlace DEF Chprio

\* A cyclic search from any entry of a table meets the nearest of the entries it
\* looks for (create.c:newpid, semcreate.c:newsem).
LEMMA CyclicFirst ==
  ASSUME NEW n \in Nat \ {0}, NEW i \in Int, NEW S, S \subseteq Int, S # {}
  PROVE  \E p \in S : \A r \in S : (p - i) % n <= (r - i) % n
<1> DEFINE dist(p) == (p - i) % n
           T == {dist(p) : p \in S}
<1>1. \A p \in S : dist(p) \in Nat
  OBVIOUS
<1> HIDE DEF dist
<1>2. PICK d \in T : \A e \in T : d <= e
  <2>1. T \subseteq Nat /\ T # {}  BY <1>1
  <2> QED  BY <2>1, LeastNat
<1>3. PICK p \in S : d = dist(p)
  BY <1>2
<1>4. \A r \in S : dist(p) <= dist(r)
  BY <1>2, <1>3
<1> QED  BY <1>4 DEF dist

\* newpid finds a free entry when there is one (create.c).
LEMMA NewpidFree ==
  ASSUME IInv, FreePids # {}
  PROVE  Newpid \in FreePids /\ NextSlot(Newpid, NPROC) \in Pids
<1>1. FreePids \subseteq Int /\ nextpid \in Int /\ NPROC \in Nat \ {0}
  BY TableAssumption DEF FreePids, Pids, IInv, TypeOK
<1>2. \E p \in FreePids : \A r \in FreePids : (p - nextpid) % NPROC <= (r - nextpid) % NPROC
  BY <1>1, CyclicFirst
<1>3. Newpid \in FreePids
  BY <1>2 DEF Newpid
<1>4. NextSlot(Newpid, NPROC) \in Pids
  BY <1>1, <1>3 DEF NextSlot, Pids
<1> QED  BY <1>3, <1>4

\* newsem finds a free entry when there is one (semcreate.c).
LEMMA NewsemFree ==
  ASSUME IInv, FreeSems # {}
  PROVE  Newsem \in FreeSems /\ NextSlot(Newsem, NSEM) \in Nat
<1>1. FreeSems \subseteq Int /\ nextsem \in Int /\ NSEM \in Nat \ {0}
  BY TableAssumption DEF FreeSems, Sems, IInv, TypeOK
<1>2. \E s \in FreeSems : \A r \in FreeSems : (s - nextsem) % NSEM <= (r - nextsem) % NSEM
  BY <1>1, CyclicFirst
<1>3. Newsem \in FreeSems
  BY <1>2 DEF Newsem
<1>4. NextSlot(Newsem, NSEM) \in Nat
  BY <1>1, <1>3 DEF NextSlot
<1> QED  BY <1>3, <1>4

\* getstk hands out a block that is free (getstk.c).
LEMMA GetstkFree ==
  ASSUME IInv, stkfree # {}
  PROVE  Getstk \in stkfree /\ Getstk \in Stacks
<1>1. stkfree \subseteq 1 .. NSTACK /\ NSTACK \in Nat
  BY StackAssumption DEF IInv, TypeOK, Stacks
<1> DEFINE T == {NSTACK - a : a \in stkfree}
<1>2. T \subseteq Nat /\ T # {}
  BY <1>1
<1>3. PICK d \in T : \A e \in T : d <= e
  BY <1>2, LeastNat
<1>4. PICK a \in stkfree : d = NSTACK - a
  BY <1>3
<1>5. ASSUME NEW b \in stkfree  PROVE b <= a
  <2>1. NSTACK - b \in T  OBVIOUS
  <2>2. d <= NSTACK - b  BY <1>3, <2>1
  <2> QED  BY <1>1, <1>4, <2>2
<1>6. Getstk \in stkfree
  BY <1>5 DEF Getstk
<1> QED  BY <1>1, <1>6 DEF Stacks

\* create keeps the invariant, whether it succeeds or fails half way (create.c).
LEMMA CreateStep ==
  ASSUME IInv, NEW prio \in Prios, Create(prio)
  PROVE  IInv'
<1>1. /\ Program("create")
      /\ stkfree # {} /\ stkfree' = stkfree \ {Getstk}
      /\ nextpid' = IF FreePids = {} THEN nextpid ELSE NextSlot(Newpid, NPROC)
      /\ UNCHANGED <<readylist, qkey, currpid, preempt, attempt, halted, sstate, scount,
                     squeue, nextsem, prmsg, where, sleepq, ndefers>>
  BY DEF Create
<1>2. Getstk \in Stacks
  BY <1>1, GetstkFree
<1>3. nextpid' \in Pids
  BY <1>1, NewpidFree DEF IInv, TypeOK
<1>4. CASE FreePids = {} \/ prio < 1
  <2>1. UNCHANGED <<prcount, prstate, prprio, prstk, prsem, prparent, prhasmsg>>
    BY <1>4 DEF Create
  <2>2. Settled
    BY <1>1, <2>1, QuietSettles DEF sched
  <2>3. OtherTypes'
    BY <1>1, <1>3, <2>1 DEF OtherTypes, IInv, TypeOK, where
  <2> QED  BY <1>1, <2>1, <2>2, <2>3, SamePlace
<1>5. CASE ~(FreePids = {} \/ prio < 1)
  <2> DEFINE n == Newpid
  <2>1. n \in Pids /\ prstate[n] = "PR_FREE"
    BY <1>5, NewpidFree DEF FreePids
  <2> HIDE DEF n
  <2>2. /\ prcount' = prcount + 1
        /\ prstate' = [prstate EXCEPT ![n] = "PR_SUSP"]
        /\ prprio' = [prprio EXCEPT ![n] = prio]
        /\ prstk' = [prstk EXCEPT ![n] = Getstk]
        /\ prsem' = [prsem EXCEPT ![n] = -1]
        /\ prparent' = [prparent EXCEPT ![n] = currpid]
        /\ prhasmsg' = [prhasmsg EXCEPT ![n] = FALSE]
    BY <1>5 DEF Create, n
  <2>3. /\ prstate \in [Pids -> States] /\ prstate' \in [Pids -> States]
        /\ prsem \in [Pids -> Sems \cup {-1}] /\ prsem' \in [Pids -> Sems \cup {-1}]
        /\ currpid \in Pids
        /\ \A p \in Pids : /\ p # n => prstate'[p] = prstate[p] /\ prsem'[p] = prsem[p]
                           /\ p = n => prstate'[p] = "PR_SUSP" /\ prsem'[p] = -1
    BY <2>1, <2>2 DEF IInv, TypeOK, States
  <2>4. OtherTypes'
    <3>1. prprio' \in [Pids -> Int] /\ prstk' \in [Pids -> Stacks \cup {0}]
      BY <1>2, <2>2, PrioAssumption DEF IInv, TypeOK
    <3>2. prparent' \in [Pids -> Pids] /\ prhasmsg' \in [Pids -> BOOLEAN]
      BY <2>2, <2>3 DEF IInv, TypeOK
    <3>3. prcount' \in Int /\ stkfree' \subseteq Stacks
      BY <1>1, <2>2 DEF IInv, TypeOK
    <3> QED  BY <1>1, <1>3, <3>1, <3>2, <3>3 DEF OtherTypes, IInv, TypeOK, where
  <2>5. QueuesAgree'
    <3>1. ReadyAgrees' /\ CurrAgrees' /\ SleepAgrees'
      BY <1>1, <2>1, <2>3 DEF IInv, QueuesAgree, ReadyAgrees, CurrAgrees, SleepAgrees
    <3>2. WaitAgrees'
      BY <1>1, <2>1, <2>3 DEF IInv, QueuesAgree, WaitAgrees
    <3> QED  BY <3>1, <3>2 DEF QueuesAgree
  <2>6. NullReady'
    BY <2>1, <2>3, AsItIs DEF IInv, NullReady
  <2>7. TypeOK'
    BY <1>1, <2>3, <2>4 DEF OtherTypes, IInv, TypeOK
  <2>8. DeferralsPaired'
    BY <1>1 DEF IInv, DeferralsPaired, where
  <2>9. \A p \in Pids : prstk'[p] = IF p = n THEN Getstk ELSE prstk[p]
    BY <2>1, <2>2 DEF IInv, TypeOK
  <2>10. Getstk # 0
    BY <1>2 DEF Stacks
  <2>11. CallArgs'
    BY <1>1, <2>1, <2>3, <2>9, <2>10 DEF IInv, CallArgs, where
  <2> QED  BY <2>5, <2>6, <2>7, <2>8, <2>11 DEF IInv
<1> QED  BY <1>4, <1>5

\* The part of send that hands over the message and wakes the recipient, from
\* receive or from recvtime (send.c).
LEMMA DeliverSettles ==
  ASSUME IInv, NEW pid \in Pids, NEW msg \in Mails, Deliver(pid, msg), UNCHANGED <<squeue, prsem>>
  PROVE  /\ Settled
         /\ prhasmsg' \in [Pids -> BOOLEAN] /\ prmsg' \in [Pids -> Mails]
<1>1. CASE Undeliverable(pid)
  <2>1. UNCHANGED <<sched, msgs, sleepq>>  BY <1>1 DEF Deliver
  <2> QED  BY <2>1, QuietSettles DEF msgs, IInv, TypeOK
<1>2. CASE ~Undeliverable(pid)
  <2> DEFINE st == [prstate EXCEPT ![pid] = "PR_READY"]
  <2>1. prhasmsg' \in [Pids -> BOOLEAN] /\ prmsg' \in [Pids -> Mails]
    <3>1. prmsg' = [prmsg EXCEPT ![pid] = msg] /\ prhasmsg' = [prhasmsg EXCEPT ![pid] = TRUE]
      BY <1>2 DEF Deliver
    <3> QED  BY <3>1 DEF IInv, TypeOK
  <2>2. CASE prstate[pid] = "PR_RECV"
    <3>1. Ready(pid, qkey) /\ sleepq' = sleepq
      BY <1>2, <2>2 DEF Deliver
    <3>2. Placed(st, sleepq, squeue, prsem)
      BY <2>2, PlacedNow, PlacedMove DEF IInv, TypeOK
    <3> QED  BY <2>1, <2>2, <3>1, <3>2, ReadySettles DEF IInv, TypeOK, Eligible
  <2>3. CASE prstate[pid] = "PR_RECTIM"
    <3>1. sleepq' = GetItem(sleepq, pid) /\ Ready(pid, UnsleepKeys(sleepq, qkey, pid))
      BY <1>2, <2>3 DEF Deliver
    <3>2. /\ sleepq \in Seq(Pids) /\ qkey \in [Pids -> Int]
          /\ OnQueue(sleepq, pid) /\ NoDuplicates(sleepq)
      BY <2>3 DEF IInv, TypeOK, QueuesAgree, SleepAgrees
    <3>3. Shrinks(Pids, sleepq, pid, sleepq')
      BY <3>1, <3>2, GetItemFacts
    <3>4. UnsleepKeys(sleepq, qkey, pid) \in [Pids -> Int]
      BY <3>2, UnsleepFacts
    <3>5. \A p \in Pids : st[p] = IF p = pid THEN "PR_READY" ELSE prstate[p]
      BY DEF IInv, TypeOK
    <3> HIDE DEF st
    <3>6. Placed(st, sleepq', squeue', prsem')
      BY <2>3, <3>3, <3>5, PlacedNow DEF Placed, Shrinks
    <3>7. Settled
      BY <2>3, <3>1, <3>4, <3>6, ReadySettles DEF Eligible, st
    <3> QED  BY <2>1, <3>7
  <2>4. CASE prstate[pid] \notin {"PR_RECV", "PR_RECTIM"}
    <3>1. UNCHANGED <<sched, sleepq>>  BY <1>2, <2>4 DEF Deliver
    <3> QED  BY <2>1, <3>1, QuietSettles
  <2> QED  BY <2>2, <2>3, <2>4
<1> QED  BY <1>1, <1>2

\* send keeps the invariant (send.c).
LEMMA SendStep ==
  ASSUME IInv, NEW pid \in Pids, NEW m \in Messages, Send(pid, m)
  PROVE  IInv'
<1>1. Deliver(pid, m) /\ UNCHANGED <<ident, sems, where, ndefers>>
  BY DEF Send
<1>2. m \in Mails  BY DEF Mails
<1>3. /\ Settled
      /\ prhasmsg' \in [Pids -> BOOLEAN] /\ prmsg' \in [Pids -> Mails]
  BY <1>1, <1>2, DeliverSettles DEF sems
<1>4. OtherTypes'
  BY <1>1, <1>3 DEF OtherTypes, IInv, TypeOK, ident, sems, where
<1> QED  BY <1>1, <1>3, <1>4, SamePlace DEF ident

\* kill up to the death notice keeps the invariant, although the parent may get the
\* processor while the victim is still on its list (kill.c).
LEMMA KillStep ==
  ASSUME IInv, NEW pid \in Pids, Kill(pid)
  PROVE  IInv'
<1>1. /\ pc[currpid] = "user" /\ pid # NULLPROC /\ prstate[pid] # "PR_FREE"
      /\ prcount' = prcount - 1
      /\ UNCHANGED <<prprio, prparent, prstk, stkfree, nextpid, sems, ndefers>>
  BY DEF Kill, Program, Refused, isbadpid
<1>2. ndefers' = 0
  BY <1>1, NotDeferred DEF Loops
<1>3. prcount' \in Int
  BY <1>1 DEF IInv, TypeOK
<1>4. CASE LastProcess(prcount')
  <2>1. halted' = TRUE /\ UNCHANGED <<sched, msgs, sleepq, where>>
    BY <1>4 DEF Kill
  <2>2. Settled
    BY <1>1, <2>1, QuietSettles DEF sems
  <2>3. OtherTypes'
    BY <1>1, <1>3, <2>1 DEF OtherTypes, IInv, TypeOK, sems, msgs, where
  <2> QED  BY <1>1, <2>1, <2>2, <2>3, SamePlace
<1>5. CASE ~LastProcess(prcount')
  <2> DEFINE a == [id |-> pid, n |-> 0]
  <2>1. Deliver(prparent[pid], pid) /\ GoTo("kill", a) /\ halted' = halted
    BY <1>5 DEF Kill
  <2>2. prparent[pid] \in Pids /\ pid \in Mails /\ a \in [id : Int, n : Int]
    BY DEF IInv, TypeOK, Mails, Pids
  <2>3. /\ Settled
        /\ prhasmsg' \in [Pids -> BOOLEAN] /\ prmsg' \in [Pids -> Mails]
    BY <1>1, <2>1, <2>2, DeliverSettles DEF sems
  <2>4. pc' \in [Pids -> Points] /\ arg' \in [Pids -> [id : Int, n : Int]]
    BY <2>1, <2>2 DEF GoTo, IInv, TypeOK, Points
  <2>5. OtherTypes'
    BY <1>1, <1>3, <2>1, <2>3, <2>4 DEF OtherTypes, IInv, TypeOK, sems
  <2>6. a.id \in Pids \ {NULLPROC} /\ prstk[a.id] # 0
    BY <1>1 DEF IInv, CallArgs
  <2>7. "kill" \in Points \ Loops
    BY DEF Points, Loops
  <2> QED  BY <1>1, <1>2, <2>1, <2>3, <2>5, <2>6, <2>7, LeavesTo
<1> QED  BY <1>4, <1>5

\* The rest of kill keeps the invariant whatever state the victim is in by then,
\* and even if somebody else has killed it meanwhile (kill.c).
LEMMA KillFinishStep ==
  ASSUME IInv, KillFinish
  PROVE  IInv'
<1> DEFINE v    == arg[currpid].id
           gone == [prstate EXCEPT ![v] = "PR_FREE"]
<1>1. /\ pc[currpid] = "kill" /\ currpid \in Pids
      /\ stkfree' = stkfree \cup {prstk[v]}
      /\ pc' = [p \in Pids |-> IF p \in {currpid, v} THEN "user" ELSE pc[p]]
      /\ arg' = [arg EXCEPT ![currpid] = NoArg, ![v] = NoArg]
      /\ UNCHANGED <<prprio, prparent, prstk, prcount, nextpid, halted, sstate, nextsem,
                     prsem, msgs, ndefers>>
  BY DEF KillFinish, Inside, IInv, TypeOK
<1>2. v \in Pids \ {NULLPROC} /\ prstk[v] \in Stacks
  BY <1>1 DEF IInv, TypeOK, CallArgs
<1>3. ndefers = 0 /\ \A p \in Pids : pc[p] \notin Loops
  BY <1>1, NotDeferred DEF Loops
<1>4. /\ scount' \in [Sems -> Int]
      /\ Settled
  <2> DEFINE Here(rl, key, sq) == /\ prstate' = gone
                                  /\ readylist' = rl /\ qkey' = key /\ sleepq' = sq
                                  /\ UNCHANGED <<currpid, preempt, attempt>>
  <2>1. /\ prstate \in [Pids -> States] /\ qkey \in [Pids -> Int] /\ scount \in [Sems -> Int]
        /\ \A p \in Pids : gone[p] = IF p = v THEN "PR_FREE" ELSE prstate[p]
        /\ "PR_FREE" \in States \ Eligible
    BY DEF IInv, TypeOK, States, Eligible
  <2>2. ASSUME prstate[v] \notin {"PR_SLEEP", "PR_RECTIM", "PR_WAIT"}
        PROVE  Placed(gone, sleepq, squeue, prsem)
    BY <2>1, <2>2, PlacedNow, PlacedMove
  <2> HIDE DEF v
  <2>3. CASE prstate[v] = "PR_CURR"
    <3>1. Resched(gone, readylist, qkey) /\ UNCHANGED <<sleepq, scount, squeue>>
      BY <2>3 DEF KillFinish, v
    <3>2. v = currpid
      BY <1>2, <2>3 DEF IInv, QueuesAgree, CurrAgrees
    <3>3. Placed(gone, sleepq', squeue', prsem')
      BY <1>1, <2>2, <2>3, <3>1
    <3> QED  BY <1>2, <1>3, <2>1, <3>1, <3>2, <3>3, BlockSettles
  <2>4. CASE prstate[v] \in {"PR_SLEEP", "PR_RECTIM"}
    <3>1. /\ sleepq' = GetItem(sleepq, v)
          /\ qkey' = UnsleepKeys(sleepq, qkey, v)
          /\ prstate' = gone
          /\ UNCHANGED <<readylist, currpid, preempt, attempt, scount, squeue>>
      BY <2>4 DEF KillFinish, v
    <3>2. sleepq \in Seq(Pids) /\ OnQueue(sleepq, v) /\ NoDuplicates(sleepq)
      BY <1>2, <2>4 DEF IInv, TypeOK, QueuesAgree, SleepAgrees
    <3>3. Shrinks(Pids, sleepq, v, sleepq')
      BY <3>1, <3>2, GetItemFacts
    <3>4. qkey' \in [Pids -> Int]
      BY <1>2, <2>1, <3>1, <3>2, UnsleepFacts
    <3> HIDE DEF gone
    <3>5. Placed(gone, sleepq', squeue', prsem')
      BY <1>1, <1>2, <2>1, <2>4, <3>1, <3>3, PlacedNow DEF Placed, Shrinks
    <3> QED  BY <1>2, <2>1, <2>4, <3>1, <3>4, <3>5, LeaveSettles DEF gone
  <2>5. CASE prstate[v] = "PR_WAIT"
    <3> DEFINE s == prsem[v]
    <3>1. /\ scount' = [scount EXCEPT ![s] = @ + 1]
          /\ squeue' = [squeue EXCEPT ![s] = GetItem(@, v)]
          /\ prstate' = gone
          /\ UNCHANGED <<readylist, qkey, currpid, preempt, attempt, sleepq>>
      BY <2>5 DEF KillFinish, v
    <3>2. s \in Sems
      BY <1>2, <2>5 DEF IInv, QueuesAgree, WaitAgrees
    <3>3. squeue[s] \in Seq(Pids) /\ OnQueue(squeue[s], v) /\ NoDuplicates(squeue[s])
      BY <1>2, <2>5, <3>2 DEF IInv, TypeOK, QueuesAgree, WaitAgrees
    <3>4. Shrinks(Pids, squeue[s], v, GetItem(squeue[s], v))
      BY <3>3, GetItemFacts
    <3>5. /\ squeue' \in [Sems -> Seq(Pids)]
          /\ \A z \in Sems : squeue'[z] = IF z = s THEN GetItem(squeue[s], v) ELSE squeue[z]
      BY <3>1, <3>2, <3>4 DEF IInv, TypeOK, Shrinks
    <3> HIDE DEF gone
    <3>6. Placed(gone, sleepq', squeue', prsem')
      <4>1. Placed(prstate, sleepq, squeue, prsem)  BY PlacedNow
      <4>2. prsem[v] = s  OBVIOUS
      <4> HIDE DEF s
      <4>3. ASSUME NEW z \in Sems
            PROVE  /\ NoDuplicates(squeue'[z])
                   /\ \A p \in Pids : OnQueue(squeue'[z], p) <=> gone[p] = "PR_WAIT" /\ prsem[p] = z
        <5>1. CASE z = s
          <6>1. \A p \in Pids : OnQueue(squeue[s], p) <=> prstate[p] = "PR_WAIT" /\ prsem[p] = s
            BY <3>2, <4>1 DEF Placed
          <6>2. Shrinks(Pids, squeue[s], v, squeue'[z])
            BY <3>2, <3>4, <3>5, <5>1
          <6> QED  BY <1>2, <2>1, <2>5, <5>1, <6>1, <6>2 DEF Shrinks
        <5>2. CASE z # s
          BY <1>2, <2>1, <2>5, <3>5, <4>1, <4>2, <5>2 DEF Placed
        <5> QED  BY <5>1, <5>2
      <4>4. sleepq' = sleepq /\ prsem' = prsem  BY <1>1, <3>1
      <4> QED  BY <1>2, <2>1, <2>5, <3>5, <4>1, <4>3, <4>4 DEF Placed
    <3>7. Settled
      BY <1>2, <2>1, <2>5, <3>1, <3>6, LeaveSettles DEF gone
    <3> QED  BY <2>1, <3>1, <3>2, <3>7
  <2>6. CASE prstate[v] = "PR_READY"
    <3>1. /\ readylist' = GetItem(readylist, v)
          /\ prstate' = gone
          /\ UNCHANGED <<qkey, currpid, preempt, attempt, sleepq, scount, squeue>>
      BY <2>6 DEF KillFinish, v
    <3>2. Placed(gone, sleepq', squeue', prsem')
      BY <1>1, <2>2, <2>6, <3>1
    <3> QED  BY <1>2, <2>1, <2>6, <3>1, <3>2, LeaveSettles
  <2>7. CASE prstate[v] \in {"PR_SUSP", "PR_RECV", "PR_FREE"}
    <3>1. /\ prstate' = gone
          /\ UNCHANGED <<readylist, qkey, currpid, preempt, attempt, sleepq, scount, squeue>>
      BY <2>7 DEF KillFinish, v
    <3>2. Placed(gone, sleepq', squeue', prsem')
      BY <1>1, <2>2, <2>7, <3>1
    <3> QED  BY <1>2, <2>1, <2>7, <3>1, <3>2, LeaveSettles
  <2> QED  BY <1>2, <2>1, <2>3, <2>4, <2>5, <2>6, <2>7 DEF States
<1> HIDE DEF v, gone
<1>5. NoArg \in [id : Int, n : Int]  BY DEF NoArg
<1>6. pc' \in [Pids -> Points] /\ arg' \in [Pids -> [id : Int, n : Int]]
  BY <1>1, <1>2, <1>5 DEF IInv, TypeOK, Points
<1>7. OtherTypes'
  BY <1>1, <1>2, <1>4, <1>6 DEF OtherTypes, IInv, TypeOK, msgs
<1>8. TypeOK'
  BY <1>4, <1>7 DEF TypeOK, Settled, OtherTypes
<1>9. \A p \in Pids : /\ pc'[p] # "user" => pc'[p] = pc[p] /\ arg'[p] = arg[p]
                      /\ pc'[p] \notin Loops
  BY <1>1, <1>2, <1>3 DEF IInv, TypeOK, Loops
<1>10. DeferralsPaired'
  BY <1>1, <1>3, <1>4, <1>9 DEF DeferralsPaired, Settled
<1>11. CallArgs'
  BY <1>1, <1>4, <1>9 DEF IInv, CallArgs, Settled
<1> QED  BY <1>4, <1>8, <1>10, <1>11 DEF IInv, Settled

-----------------------------------------------------------------------------

\* semcreate keeps the invariant (semcreate.c).
LEMMA SemcreateStep ==
  ASSUME IInv, NEW c \in Counts, Semcreate(c)
  PROVE  IInv'
<1>1. /\ FreeSems # {}
      /\ sstate' = [sstate EXCEPT ![Newsem] = "S_USED"]
      /\ scount' = [scount EXCEPT ![Newsem] = c]
      /\ nextsem' = NextSlot(Newsem, NSEM)
      /\ UNCHANGED <<sched, ident, squeue, prsem, msgs, where, sleepq, ndefers>>
  BY DEF Semcreate
<1>2. Newsem \in FreeSems /\ nextsem' \in Nat
  BY <1>1, NewsemFree
<1>3. Settled
  BY <1>1, QuietSettles
<1>4. OtherTypes'
  <2>1. sstate' \in [Sems -> {"S_FREE", "S_USED"}] /\ scount' \in [Sems -> Int]
    BY <1>1, CountAssumption DEF IInv, TypeOK
  <2> QED  BY <1>1, <1>2, <2>1 DEF OtherTypes, IInv, TypeOK, ident, msgs, where
<1> QED  BY <1>1, <1>3, <1>4, SamePlace DEF ident

\* The first waiter of a semaphore leaves its queue and becomes ready (signal.c,
\* signaln.c, semreset.c, semdelete.c).
LEMMA ReadyFirstSettles ==
  ASSUME IInv, NEW s \in Sems, ReadyFirst(s), UNCHANGED <<sleepq, prsem>>
  PROVE  Settled
<1>1. CASE squeue[s] = <<>>
  <2>1. Ready(EMPTY, qkey) /\ squeue' = squeue
    BY <1>1 DEF ReadyFirst
  <2>2. isbadpid(EMPTY)
    BY DEF isbadpid, EMPTY, Pids
  <2>3. UNCHANGED sched
    BY <2>1, <2>2 DEF Ready, sched
  <2> QED  BY <2>1, <2>3, QuietSettles
<1>2. CASE squeue[s] # <<>>
  <2> DEFINE v  == squeue[s][1]
             st == [prstate EXCEPT ![v] = "PR_READY"]
  <2>1. Ready(v, qkey) /\ squeue' = [squeue EXCEPT ![s] = Tail(@)]
    BY <1>2 DEF ReadyFirst
  <2>2. squeue[s] \in Seq(Pids) /\ NoDuplicates(squeue[s])
    BY DEF IInv, TypeOK, QueuesAgree, WaitAgrees
  <2>3. v \in Pids /\ OnQueue(squeue[s], v) /\ Shrinks(Pids, squeue[s], v, Tail(squeue[s]))
    BY <1>2, <2>2, TailFacts
  <2>4. prstate[v] = "PR_WAIT" /\ prsem[v] = s
    BY <2>3 DEF IInv, QueuesAgree, WaitAgrees
  <2>5. /\ squeue' \in [Sems -> Seq(Pids)]
        /\ \A z \in Sems : squeue'[z] = IF z = s THEN Tail(squeue[s]) ELSE squeue[z]
    BY <2>1, <2>3 DEF IInv, TypeOK, Shrinks
  <2>6. \A p \in Pids : st[p] = IF p = v THEN "PR_READY" ELSE prstate[p]
    BY DEF IInv, TypeOK
  <2> HIDE DEF v, st
  <2>7. Placed(st, sleepq', squeue', prsem')
    <3>1. Placed(prstate, sleepq, squeue, prsem)  BY PlacedNow
    <3>2. ASSUME NEW z \in Sems
          PROVE  /\ NoDuplicates(squeue'[z])
                 /\ \A p \in Pids : OnQueue(squeue'[z], p) <=> st[p] = "PR_WAIT" /\ prsem[p] = z
      <4>1. CASE z = s
        <5>1. \A p \in Pids : OnQueue(squeue[s], p) <=> prstate[p] = "PR_WAIT" /\ prsem[p] = s
          BY <3>1 DEF Placed
        <5>2. Shrinks(Pids, squeue[s], v, squeue'[z])
          BY <2>3, <2>5, <4>1
        <5> QED  BY <2>6, <4>1, <5>1, <5>2 DEF Shrinks
      <4>2. CASE z # s
        <5>1. \A p \in Pids : st[p] = "PR_WAIT" /\ prsem[p] = z <=> prstate[p] = "PR_WAIT" /\ prsem[p] = z
          BY <2>4, <2>6, <4>2
        <5>2. squeue'[z] = squeue[z]
          BY <2>5, <4>2
        <5> QED  BY <3>1, <5>1, <5>2 DEF Placed
      <4> QED  BY <4>1, <4>2
    <3>3. \A p \in Pids :
            /\ st[p] \in {"PR_SLEEP", "PR_RECTIM"} <=> prstate[p] \in {"PR_SLEEP", "PR_RECTIM"}
            /\ st[p] = "PR_WAIT" => prstate[p] = "PR_WAIT"
      BY <2>4, <2>6
    <3> QED  BY <2>5, <3>1, <3>2, <3>3 DEF Placed
  <2>8. qkey \in [Pids -> Int]
    BY DEF IInv, TypeOK
  <2> QED  BY <2>1, <2>3, <2>4, <2>7, <2>8, ReadySettles DEF st, Eligible
<1> QED  BY <1>1, <1>2

\* An increment of the count that releases a process if one waits (signal.c,
\* signaln.c).
LEMMA ReleaseSettles ==
  ASSUME IInv, NEW s \in Sems, Release(s), UNCHANGED <<sleepq, prsem>>
  PROVE  Settled /\ scount' \in [Sems -> Int]
<1>1. scount' \in [Sems -> Int]
  BY DEF Release, IInv, TypeOK
<1>2. CASE HasWaiter(s)
  BY <1>1, <1>2, ReadyFirstSettles DEF Release
<1>3. CASE ~HasWaiter(s)
  BY <1>1, <1>3, QuietSettles DEF Release
<1> QED  BY <1>2, <1>3

\* wait keeps the invariant, whether it blocks or not (wait.c).
LEMMA WaitStep ==
  ASSUME IInv, NEW s \in Sems, Wait(s)
  PROVE  IInv'
<1>1. /\ pc[currpid] = "user" /\ currpid # NULLPROC /\ currpid \in Pids
      /\ scount' = [scount EXCEPT ![s] = @ - 1]
      /\ UNCHANGED <<ident, sstate, nextsem, msgs, where, sleepq, ndefers>>
  BY DEF Wait, Program, IInv, TypeOK
<1>2. scount' \in [Sems -> Int]
  BY <1>1 DEF IInv, TypeOK
<1>3. Settled
  <2>1. CASE scount'[s] < 0
    <3> DEFINE st == [prstate EXCEPT ![currpid] = "PR_WAIT"]
    <3>1. /\ prsem' = [prsem EXCEPT ![currpid] = s]
          /\ squeue' = [squeue EXCEPT ![s] = Enqueue(@, currpid)]
          /\ Resched(st, readylist, qkey)
      BY <2>1 DEF Wait
    <3>2. /\ prsem' \in [Pids -> Sems \cup {-1}]
          /\ \A p \in Pids : prsem'[p] = IF p = currpid THEN s ELSE prsem[p]
          /\ \A p \in Pids : st[p] = IF p = currpid THEN "PR_WAIT" ELSE prstate[p]
      BY <1>1, <3>1 DEF IInv, TypeOK
    <3>3. squeue[s] \in Seq(Pids) /\ prstate[currpid] = "PR_CURR"
      BY AsItIs DEF IInv, TypeOK
    <3>4. Grows(Pids, squeue[s], currpid, Enqueue(squeue[s], currpid))
      BY <1>1, <3>3, EnqueueFacts
    <3>5. /\ squeue' \in [Sems -> Seq(Pids)]
          /\ \A z \in Sems : squeue'[z] = IF z = s THEN Enqueue(squeue[s], currpid) ELSE squeue[z]
      BY <3>1, <3>4 DEF IInv, TypeOK, Grows
    <3> HIDE DEF st
    <3>6. Placed(st, sleepq', squeue', prsem')
      <4>1. Placed(prstate, sleepq, squeue, prsem)  BY PlacedNow
      <4>2. ASSUME NEW z \in Sems
            PROVE  /\ NoDuplicates(squeue'[z])
                   /\ \A p \in Pids : OnQueue(squeue'[z], p) <=> st[p] = "PR_WAIT" /\ prsem'[p] = z
        <5>1. CASE z = s
          <6>1. /\ NoDuplicates(squeue[s])
                /\ \A p \in Pids : OnQueue(squeue[s], p) <=> prstate[p] = "PR_WAIT" /\ prsem[p] = s
            BY <4>1 DEF Placed
          <6>2. Grows(Pids, squeue[s], currpid, squeue'[z])
            BY <3>4, <3>5, <5>1
          <6> QED  BY <1>1, <3>2, <3>3, <5>1, <6>1, <6>2 DEF Grows
        <5>2. CASE z # s
          <6>1. \A p \in Pids : st[p] = "PR_WAIT" /\ prsem'[p] = z <=> prstate[p] = "PR_WAIT" /\ prsem[p] = z
            BY <3>2, <3>3, <5>2
          <6>2. squeue'[z] = squeue[z]
            BY <3>5, <5>2
          <6> QED  BY <4>1, <6>1, <6>2 DEF Placed
        <5> QED  BY <5>1, <5>2
      <4>3. \A p \in Pids :
              /\ st[p] \in {"PR_SLEEP", "PR_RECTIM"} <=> prstate[p] \in {"PR_SLEEP", "PR_RECTIM"}
              /\ st[p] = "PR_WAIT" => prsem'[p] = s \/ (prstate[p] = "PR_WAIT" /\ prsem'[p] = prsem[p])
        BY <1>1, <3>2, <3>3
      <4>4. /\ sleepq' \in Seq(Pids) /\ NoDuplicates(sleepq')
            /\ \A p \in Pids : OnQueue(sleepq', p) <=> st[p] \in {"PR_SLEEP", "PR_RECTIM"}
        BY <1>1, <4>1, <4>3 DEF Placed
      <4>5. \A p \in Pids : st[p] = "PR_WAIT" => prsem'[p] \in Sems
        BY <4>1, <4>3 DEF Placed
      <4> QED  BY <3>2, <3>5, <4>2, <4>4, <4>5 DEF Placed
    <3>7. ndefers = 0  BY <1>1, NotDeferred DEF Loops
    <3>8. "PR_WAIT" \in States \ Eligible /\ qkey \in [Pids -> Int]
      BY DEF States, Eligible, IInv, TypeOK
    <3> QED  BY <1>1, <3>1, <3>6, <3>7, <3>8, BlockSettles DEF st
  <2>2. CASE ~(scount'[s] < 0)
    BY <1>1, <2>2, QuietSettles DEF Wait
  <2> QED  BY <2>1, <2>2
<1>4. OtherTypes'
  BY <1>1, <1>2 DEF OtherTypes, IInv, TypeOK, ident, msgs, where
<1> QED  BY <1>1, <1>3, <1>4, SamePlace DEF ident

\* signal keeps the invariant (signal.c).
LEMMA SignalStep ==
  ASSUME IInv, NEW s \in Sems, Signal(s)
  PROVE  IInv'
<1>1. Release(s) /\ UNCHANGED <<ident, sstate, nextsem, prsem, msgs, where, sleepq, ndefers>>
  BY DEF Signal
<1>2. Settled /\ scount' \in [Sems -> Int]
  BY <1>1, ReleaseSettles
<1>3. OtherTypes'
  BY <1>1, <1>2 DEF OtherTypes, IInv, TypeOK, ident, msgs, where
<1> QED  BY <1>1, <1>2, <1>3, SamePlace DEF ident

-----------------------------------------------------------------------------
(* The loops that run while rescheduling is deferred                       *)

\* A step that changes no more of the scheduler than keys and the attempt leaves
\* every process where it is.
LEMMA KeysSettle ==
  ASSUME IInv, UNCHANGED <<prstate, readylist, currpid, preempt, sleepq, squeue, prsem>>,
         qkey' \in [Pids -> Int], attempt' \in BOOLEAN
  PROVE  Settled
BY DEF Settled, IInv, TypeOK, QueuesAgree, ReadyAgrees, CurrAgrees, SleepAgrees, WaitAgrees, NullReady

\* A step into a loop, or from one iteration of it to the next, keeps the processor
\* (resched.c).
LEMMA InLoop ==
  ASSUME IInv, Settled, OtherTypes', NEW c \in Loops, NEW a, GoTo(c, a),
         pc[currpid] \in {c, "user"}, currpid' = currpid, ndefers' = 1, prstk' = prstk,
         c = "wakeup" \/ a.id \in Sems
  PROVE  IInv'
<1>1. TypeOK'
  BY DEF TypeOK, Settled, OtherTypes
<1>2. /\ currpid \in Pids /\ pc \in [Pids -> Points] /\ arg \in [Pids -> [id : Int, n : Int]]
      /\ pc' = [pc EXCEPT ![currpid] = c] /\ arg' = [arg EXCEPT ![currpid] = a]
  BY DEF GoTo, IInv, TypeOK
<1>3. \A p \in Pids : p # currpid => pc[p] \notin Loops
  BY DEF IInv, DeferralsPaired
<1>4. DeferralsPaired'
  BY <1>2, <1>3 DEF DeferralsPaired
<1>5. CallArgs'
  BY <1>2 DEF IInv, CallArgs, Settled, Loops
<1> QED  BY <1>1, <1>4, <1>5 DEF IInv, Settled

\* signaln, semdelete and semreset up to their loop keep the invariant.
LEMMA StartLoopStep ==
  ASSUME IInv, NEW c \in Loops, NEW s \in Sems, NEW n \in Int, StartLoop(c, s, n),
         pc[currpid] = "user", UNCHANGED <<ident, scount, squeue, nextsem, prsem, msgs, sleepq>>,
         sstate' \in [Sems -> {"S_FREE", "S_USED"}]
  PROVE  IInv'
<1> DEFINE a == [id |-> s, n |-> n]
<1>1. /\ DeferStart /\ GoTo(c, a)
      /\ UNCHANGED <<prstate, readylist, qkey, currpid, preempt>>
  BY DEF StartLoop
<1>2. ndefers' = 1 /\ attempt' \in BOOLEAN
  <2>1. ndefers = 0  BY NotDeferred DEF Loops
  <2> QED  BY <1>1, <2>1 DEF DeferStart
<1>3. Settled
  BY <1>1, <1>2, KeysSettle DEF IInv, TypeOK
<1>4. a \in [id : Int, n : Int] /\ a.id \in Sems
  BY DEF Sems
<1>5. pc' \in [Pids -> Points] /\ arg' \in [Pids -> [id : Int, n : Int]]
  BY <1>1, <1>4 DEF GoTo, IInv, TypeOK, Points, Loops
<1>6. OtherTypes'
  BY <1>2, <1>5 DEF OtherTypes, IInv, TypeOK, ident, msgs
<1> HIDE DEF a
<1> QED  BY <1>1, <1>2, <1>3, <1>4, <1>6, InLoop DEF ident

\* The end of a loop ends the deferral and keeps the invariant (resched.c).
LEMMA EndLoopStep ==
  ASSUME IInv, DeferStop, NEW c \in Points \ Loops, c # "kill", GoTo(c, NoArg),
         pc[currpid] \in Loops,
         UNCHANGED <<ident, sstate, squeue, nextsem, prsem, msgs, sleepq>>,
         scount' \in [Sems -> Int]
  PROVE  IInv'
<1>1. Switched(prstate) /\ ndefers' = 0
  BY DeferStopSwitches DEF IInv, DeferralsPaired
<1>2. Placed(prstate, sleepq', squeue', prsem')
  BY PlacedNow
<1>3. Settled
  BY <1>1, <1>2, SwitchedSettles
<1>4. NoArg \in [id : Int, n : Int]
  BY DEF NoArg
<1>5. pc' \in [Pids -> Points] /\ arg' \in [Pids -> [id : Int, n : Int]]
  BY <1>4 DEF GoTo, IInv, TypeOK
<1>6. OtherTypes'
  BY <1>1, <1>5 DEF OtherTypes, IInv, TypeOK, ident, msgs
<1> QED  BY <1>1, <1>3, <1>6, LeavesTo DEF ident

\* signaln up to its loop keeps the invariant (signaln.c).
LEMMA SignalnStep ==
  ASSUME IInv, NEW s \in Sems, NEW c \in Counts, Signaln(s, c)
  PROVE  IInv'
<1>1. /\ pc[currpid] = "user" /\ StartLoop("signaln", s, c)
      /\ UNCHANGED <<ident, sems, msgs, sleepq>>
  BY DEF Signaln, Program
<1>2. "signaln" \in Loops /\ c \in Int
  BY CountAssumption DEF Loops
<1> QED  BY <1>1, <1>2, StartLoopStep DEF sems, IInv, TypeOK

\* semreset up to its loop keeps the invariant (semreset.c).
LEMMA SemresetStep ==
  ASSUME IInv, NEW s \in Sems, NEW c \in Counts, Semreset(s, c)
  PROVE  IInv'
<1>1. /\ pc[currpid] = "user" /\ StartLoop("semreset", s, c)
      /\ UNCHANGED <<ident, sems, msgs, sleepq>>
  BY DEF Semreset, Program
<1>2. "semreset" \in Loops /\ c \in Int
  BY CountAssumption DEF Loops
<1> QED  BY <1>1, <1>2, StartLoopStep DEF sems, IInv, TypeOK

\* semdelete up to its loop keeps the invariant (semdelete.c).
LEMMA SemdeleteStep ==
  ASSUME IInv, NEW s \in Sems, Semdelete(s)
  PROVE  IInv'
<1>1. /\ pc[currpid] = "user" /\ StartLoop("semdelete", s, 0)
      /\ sstate' = [sstate EXCEPT ![s] = "S_FREE"]
      /\ UNCHANGED <<ident, scount, squeue, nextsem, prsem, msgs, sleepq>>
  BY DEF Semdelete, Program
<1>2. "semdelete" \in Loops /\ 0 \in Int
  BY DEF Loops
<1>3. sstate' \in [Sems -> {"S_FREE", "S_USED"}]
  BY <1>1 DEF IInv, TypeOK
<1> QED  BY <1>1, <1>2, <1>3, StartLoopStep

\* An iteration of a semaphore loop starts with an entry of the semaphore table and
\* a deferral in force (signaln.c, semdelete.c, semreset.c).
LEMMA InSemLoop ==
  ASSUME IInv, NEW c \in {"signaln", "semdelete", "semreset"}, Inside(c)
  PROVE  /\ pc[currpid] = c /\ c \in Loops /\ ndefers = 1
         /\ arg[currpid].id \in Sems /\ arg[currpid] \in [id : Int, n : Int]
BY DEF Inside, IInv, DeferralsPaired, CallArgs, TypeOK, Loops

\* An iteration of a semaphore loop that goes round again keeps the invariant.
LEMMA IterationStep ==
  ASSUME IInv, Settled, NEW c \in {"signaln", "semdelete", "semreset"}, Inside(c),
         NEW a \in [id : Int, n : Int], a.id = arg[currpid].id,
         pc' = [pc EXCEPT ![currpid] = c], arg' = [arg EXCEPT ![currpid] = a],
         scount' \in [Sems -> Int], UNCHANGED <<ident, sstate, nextsem, msgs, ndefers>>
  PROVE  IInv'
<1>1. /\ pc[currpid] = c /\ c \in Loops /\ ndefers = 1
      /\ arg[currpid].id \in Sems
  BY InSemLoop
<1>2. currpid' = currpid
  BY <1>1 DEF Settled
<1>3. pc' \in [Pids -> Points] /\ arg' \in [Pids -> [id : Int, n : Int]]
  BY DEF IInv, TypeOK, Points
<1>4. OtherTypes'
  BY <1>3 DEF OtherTypes, IInv, TypeOK, ident, msgs
<1>5. GoTo(c, a)
  BY DEF GoTo
<1> QED  BY <1>1, <1>2, <1>4, <1>5, InLoop DEF ident

\* An iteration of signaln's loop, or its end, keeps the invariant (signaln.c).
LEMMA SignalnLoopStep ==
  ASSUME IInv, SignalnLoop
  PROVE  IInv'
<1> DEFINE a == arg[currpid]
<1>1. Inside("signaln") /\ UNCHANGED <<ident, sstate, nextsem, prsem, msgs, sleepq>>
  BY DEF SignalnLoop
<1>2. /\ pc[currpid] \in Loops /\ ndefers = 1
      /\ a.id \in Sems /\ a \in [id : Int, n : Int]
  BY <1>1, InSemLoop
<1>3. CASE a.n > 0
  <2>1. /\ Release(a.id)
        /\ GoTo("signaln", [a EXCEPT !.n = @ - 1])
        /\ ndefers' = ndefers
    BY <1>3 DEF SignalnLoop
  <2>2. Settled /\ scount' \in [Sems -> Int]
    BY <1>1, <1>2, <2>1, ReleaseSettles
  <2>3. [a EXCEPT !.n = @ - 1] \in [id : Int, n : Int] /\ [a EXCEPT !.n = @ - 1].id = a.id
    BY <1>2
  <2> QED  BY <1>1, <2>1, <2>2, <2>3, IterationStep DEF GoTo
<1>4. CASE ~(a.n > 0)
  <2>1. EndLoop /\ UNCHANGED <<scount, squeue>>
    BY <1>4 DEF SignalnLoop
  <2>2. DeferStop /\ GoTo("user", NoArg) /\ "user" \in Points \ Loops
    BY <2>1 DEF EndLoop, Return, Points, Loops
  <2> QED  BY <1>1, <1>2, <2>1, <2>2, EndLoopStep DEF IInv, TypeOK
<1> QED  BY <1>3, <1>4

\* An iteration of semdelete's loop, or its end, keeps the invariant
\* (semdelete.c).
LEMMA SemdeleteLoopStep ==
  ASSUME IInv, SemdeleteLoop
  PROVE  IInv'
<1> DEFINE s == arg[currpid].id
<1>1. /\ Inside("semdelete") /\ scount' = [scount EXCEPT ![s] = @ + 1]
      /\ UNCHANGED <<ident, sstate, nextsem, prsem, msgs, sleepq>>
  BY DEF SemdeleteLoop
<1>2. /\ pc[currpid] = "semdelete" /\ pc[currpid] \in Loops /\ ndefers = 1
      /\ s \in Sems /\ arg[currpid] \in [id : Int, n : Int]
  BY <1>1, InSemLoop
<1>3. scount' \in [Sems -> Int]
  BY <1>1, <1>2 DEF IInv, TypeOK
<1>4. CASE HasWaiter(s)
  <2>1. ReadyFirst(s) /\ UNCHANGED <<ndefers, where>>
    BY <1>4 DEF SemdeleteLoop
  <2>2. Settled
    BY <1>1, <1>2, <2>1, ReadyFirstSettles
  <2>3. OtherTypes'
    BY <1>1, <1>3, <2>1 DEF OtherTypes, IInv, TypeOK, ident, msgs, where
  <2> QED  BY <1>1, <2>1, <2>2, <2>3, SamePlace DEF ident
<1>5. CASE ~HasWaiter(s)
  <2>1. EndLoop /\ squeue' = squeue
    BY <1>5 DEF SemdeleteLoop
  <2>2. DeferStop /\ GoTo("user", NoArg) /\ "user" \in Points \ Loops
    BY <2>1 DEF EndLoop, Return, Points, Loops
  <2> QED  BY <1>1, <1>2, <1>3, <2>1, <2>2, EndLoopStep
<1> QED  BY <1>4, <1>5

\* An iteration of semreset's loop, or its end, keeps the invariant (semreset.c).
LEMMA SemresetLoopStep ==
  ASSUME IInv, SemresetLoop
  PROVE  IInv'
<1> DEFINE a == arg[currpid]
<1>1. Inside("semreset") /\ UNCHANGED <<ident, sstate, nextsem, prsem, msgs, sleepq>>
  BY DEF SemresetLoop
<1>2. /\ pc[currpid] \in Loops /\ ndefers = 1
      /\ a.id \in Sems /\ a \in [id : Int, n : Int]
  BY <1>1, InSemLoop
<1>3. CASE squeue[a.id] # <<>>
  <2>1. ReadyFirst(a.id) /\ UNCHANGED <<scount, ndefers, where>>
    BY <1>3 DEF SemresetLoop
  <2>2. Settled
    BY <1>1, <1>2, <2>1, ReadyFirstSettles
  <2>3. OtherTypes'
    BY <1>1, <2>1 DEF OtherTypes, IInv, TypeOK, ident, msgs, where
  <2> QED  BY <1>1, <2>1, <2>2, <2>3, SamePlace DEF ident
<1>4. CASE squeue[a.id] = <<>>
  <2>1. scount' = [scount EXCEPT ![a.id] = a.n] /\ EndLoop /\ squeue' = squeue
    BY <1>4 DEF SemresetLoop
  <2>2. scount' \in [Sems -> Int]
    BY <1>2, <2>1 DEF IInv, TypeOK
  <2>3. DeferStop /\ GoTo("user", NoArg) /\ "user" \in Points \ Loops
    BY <2>1 DEF EndLoop, Return, Points, Loops
  <2> QED  BY <1>1, <1>2, <2>1, <2>2, <2>3, EndLoopStep
<1> QED  BY <1>3, <1>4

-----------------------------------------------------------------------------
(* Messages, delays and the clock                                          *)

\* Taking a message that is there keeps the invariant (receive.c, recvclr.c).
LEMMA ReceiveStep ==
  ASSUME IInv, Receive
  PROVE  IInv'
<1>1. Settled
  BY QuietSettles DEF Receive, sems
<1>2. OtherTypes'
  BY DEF Receive, OtherTypes, IInv, TypeOK, ident, sems, where
<1> QED  BY <1>1, <1>2, SamePlace DEF Receive, ident

\* A call that blocks and goes on at point c keeps the invariant (receive.c).
LEMMA BlockStep ==
  ASSUME IInv, Settled, NEW c \in {"receive", "recvtime"}, GoTo(c, NoArg), pc[currpid] = "user",
         UNCHANGED <<ident, sstate, scount, nextsem, msgs, ndefers>>
  PROVE  IInv'
<1>1. ndefers' = 0
  BY NotDeferred DEF Loops
<1>2. c \in Points \ Loops /\ c # "kill"
  BY DEF Points, Loops
<1>3. NoArg \in [id : Int, n : Int]
  BY DEF NoArg
<1>4. pc' \in [Pids -> Points] /\ arg' \in [Pids -> [id : Int, n : Int]]
  BY <1>2, <1>3 DEF GoTo, IInv, TypeOK
<1>5. OtherTypes'
  BY <1>1, <1>4 DEF OtherTypes, IInv, TypeOK, ident, msgs
<1> QED  BY <1>1, <1>2, <1>5, LeavesTo DEF ident

\* receive without a message keeps the invariant (receive.c).
LEMMA ReceiveBlockStep ==
  ASSUME IInv, ReceiveBlock
  PROVE  IInv'
<1>1. /\ pc[currpid] = "user" /\ currpid # NULLPROC
      /\ GoTo("receive", NoArg)
      /\ Resched([prstate EXCEPT ![currpid] = "PR_RECV"], readylist, qkey)
      /\ UNCHANGED <<ident, sems, msgs, sleepq, ndefers>>
  BY DEF ReceiveBlock, Program
<1>2. ndefers = 0  BY <1>1, NotDeferred DEF Loops
<1>3. Placed([prstate EXCEPT ![currpid] = "PR_RECV"], sleepq', squeue', prsem')
  <2>1. prstate[currpid] = "PR_CURR"  BY AsItIs
  <2>2. Placed([prstate EXCEPT ![currpid] = "PR_RECV"], sleepq, squeue, prsem)
    BY <2>1, PlacedNow, PlacedMove DEF IInv, TypeOK
  <2> QED  BY <1>1, <2>2 DEF sems
<1>4. Settled
  BY <1>1, <1>2, <1>3, BlockSettles DEF IInv, TypeOK, States, Eligible
<1> QED  BY <1>1, <1>4, BlockStep DEF sems

\* receive and recvtime from resched on keep the invariant (receive.c, recvtime.c).
LEMMA TakeMessageStep ==
  ASSUME IInv, TakeMessage
  PROVE  IInv'
<1>1. /\ pc[currpid] \in {"receive", "recvtime"}
      /\ prhasmsg' = [prhasmsg EXCEPT ![currpid] = FALSE]
      /\ GoTo("user", NoArg)
      /\ UNCHANGED <<sched, ident, sems, prmsg, sleepq, ndefers>>
  BY DEF TakeMessage, Inside, Return
<1>2. ndefers' = 0  BY <1>1, NotDeferred DEF Loops
<1>3. Settled
  BY <1>1, QuietSettles DEF sems
<1>4. NoArg \in [id : Int, n : Int] /\ "user" \in Points \ Loops
  BY DEF NoArg, Points, Loops
<1>5. pc' \in [Pids -> Points] /\ arg' \in [Pids -> [id : Int, n : Int]]
  BY <1>1, <1>4 DEF GoTo, IInv, TypeOK
<1>6. OtherTypes'
  BY <1>1, <1>5 DEF OtherTypes, IInv, TypeOK, ident, sems
<1> QED  BY <1>1, <1>2, <1>3, <1>4, <1>6, LeavesTo DEF ident

\* The current process goes to sleep and joins the delta list (sleep.c,
\* recvtime.c).
LEMMA DozeSettles ==
  ASSUME IInv, NEW s \in {"PR_SLEEP", "PR_RECTIM"}, NEW delay \in Int, Doze(s, delay),
         currpid # NULLPROC, ndefers = 0, UNCHANGED <<squeue, prsem>>
  PROVE  Settled
<1> DEFINE st == [prstate EXCEPT ![currpid] = s]
<1>1. /\ sleepq' = Insertd(sleepq, qkey, currpid, delay)
      /\ Resched(st, readylist, InsertdKeys(sleepq, qkey, currpid, delay))
  BY DEF Doze
<1>2. /\ sleepq \in Seq(Pids) /\ qkey \in [Pids -> Int] /\ currpid \in Pids
      /\ prstate[currpid] = "PR_CURR"
  BY AsItIs DEF Consistent, IInv, TypeOK
<1>3. /\ Grows(Pids, sleepq, currpid, sleepq')
      /\ InsertdKeys(sleepq, qkey, currpid, delay) \in [Pids -> Int]
  BY <1>1, <1>2, InsertdFacts
<1>4. \A p \in Pids : st[p] = IF p = currpid THEN s ELSE prstate[p]
  BY <1>2 DEF IInv, TypeOK
<1> HIDE DEF st
<1>5. Placed(st, sleepq', squeue', prsem')
  <2>1. Placed(prstate, sleepq, squeue, prsem)
    BY PlacedNow
  <2>2. /\ sleepq' \in Seq(Pids) /\ NoDuplicates(sleepq')
        /\ \A p \in Pids : OnQueue(sleepq', p) <=> st[p] \in {"PR_SLEEP", "PR_RECTIM"}
    <3>1. \A p \in Pids : OnQueue(sleepq, p) <=> prstate[p] \in {"PR_SLEEP", "PR_RECTIM"}
      BY <2>1 DEF Placed
    <3>2. ~OnQueue(sleepq, currpid) /\ NoDuplicates(sleepq)
      BY <1>2, <2>1, <3>1 DEF Placed
    <3> QED  BY <1>2, <1>3, <1>4, <3>1, <3>2 DEF Grows
  <2>3. \A p \in Pids : st[p] = "PR_WAIT" <=> prstate[p] = "PR_WAIT"
    BY <1>2, <1>4
  <2> QED  BY <2>1, <2>2, <2>3 DEF Placed
<1> QED  BY <1>1, <1>3, <1>5, BlockSettles DEF st, States, Eligible

\* recvtime without a message keeps the invariant (recvtime.c).
LEMMA RecvtimeBlockStep ==
  ASSUME IInv, NEW w \in Waits, RecvtimeBlock(w)
  PROVE  IInv'
<1>1. /\ pc[currpid] = "user" /\ currpid # NULLPROC
      /\ GoTo("recvtime", NoArg) /\ Doze("PR_RECTIM", w)
      /\ UNCHANGED <<ident, sems, msgs, ndefers>>
  BY DEF RecvtimeBlock, Program
<1>2. ndefers = 0  BY <1>1, NotDeferred DEF Loops
<1>3. Settled
  BY <1>1, <1>2, DozeSettles, DelayAssumption DEF sems
<1> QED  BY <1>1, <1>3, BlockStep DEF sems

\* A value stored in an int32 is an integer (queue.h).
LEMMA Int32Type ==
  ASSUME NEW x \in Int
  PROVE  Int32(x) \in Int
<1> DEFINE m == 2 * SIGN
<1>1. SIGN \in Int /\ m \in Nat \ {0}
  BY DelayAssumption
<1> HIDE DEF m
<1>2. x % m \in Int
  BY <1>1
<1> QED  BY <1>1, <1>2 DEF Int32, m

\* sleepms keeps the invariant, for a delay of zero and any other (sleep.c).
LEMMA SleepmsStep ==
  ASSUME IInv, NEW d \in Delays, Sleepms(d)
  PROVE  IInv'
<1>1. /\ pc[currpid] = "user" /\ currpid # NULLPROC
      /\ UNCHANGED <<ident, sems, msgs, where, ndefers>>
  BY DEF Sleepms, Program
<1>2. ndefers = 0  BY <1>1, NotDeferred DEF Loops
<1>3. Settled
  <2>1. CASE d = 0
    <3>1. Resched(prstate, readylist, qkey) /\ sleepq' = sleepq
      BY <2>1 DEF Sleepms
    <3> QED  BY <1>1, <3>1, YieldSettles DEF sems, IInv, TypeOK
  <2>2. CASE d # 0
    <3>1. Doze("PR_SLEEP", Int32(d))
      BY <2>2 DEF Sleepms
    <3>2. Int32(d) \in Int
      BY DelayAssumption, Int32Type
    <3> QED  BY <1>1, <1>2, <3>1, <3>2, DozeSettles DEF sems
  <2> QED  BY <2>1, <2>2
<1>4. OtherTypes'
  BY <1>1 DEF OtherTypes, IInv, TypeOK, ident, sems, msgs, where
<1> QED  BY <1>1, <1>3, <1>4, SamePlace DEF ident

\* A clock interrupt keeps the invariant, with either handler (clkhandler.c).
LEMMA ClockTickStep ==
  ASSUME IInv, ClockTick
  PROVE  IInv'
<1> DEFINE less == IF sleepq = <<>> THEN qkey ELSE [qkey EXCEPT ![sleepq[1]] = Int32(@ - 1)]
           due  == sleepq # <<>> /\ Due(less[sleepq[1]])
<1>1. pc[currpid] = "user" /\ UNCHANGED <<ident, sems, msgs, sleepq>>
  BY DEF ClockTick, Inside
<1>2. ndefers = 0  BY <1>1, NotDeferred DEF Loops
<1>3. less \in [Pids -> Int]
  <2>1. sleepq \in Seq(Pids) /\ qkey \in [Pids -> Int]  BY DEF IInv, TypeOK
  <2>2. CASE sleepq = <<>>  BY <2>1, <2>2
  <2>3. CASE sleepq # <<>>
    <3>1. sleepq[1] \in Pids  BY <2>1, <2>3, TailFacts
    <3>2. Int32(qkey[sleepq[1]] - 1) \in Int  BY <2>1, <3>1, Int32Type
    <3> QED  BY <2>1, <2>3, <3>2
  <2> QED  BY <2>2, <2>3
<1>4. NoArg \in [id : Int, n : Int]
  BY DEF NoArg
<1>5. CASE due /\ Wakeup(less)
  <2> HIDE DEF less, due
  <2>1. /\ DeferStart /\ GoTo("wakeup", NoArg) /\ qkey' = less
        /\ UNCHANGED <<prstate, readylist, currpid, preempt>>
    BY <1>5 DEF Wakeup
  <2>2. ndefers' = 1 /\ attempt' \in BOOLEAN
    BY <1>2, <2>1 DEF DeferStart
  <2>3. Settled
    BY <1>1, <1>3, <2>1, <2>2, KeysSettle DEF sems
  <2>4. pc' \in [Pids -> Points] /\ arg' \in [Pids -> [id : Int, n : Int]]
    BY <1>4, <2>1 DEF GoTo, IInv, TypeOK, Points
  <2>5. OtherTypes'
    BY <1>1, <2>2, <2>4 DEF OtherTypes, IInv, TypeOK, ident, sems, msgs
  <2>6. "wakeup" \in Loops  BY DEF Loops
  <2> QED  BY <1>1, <2>1, <2>2, <2>3, <2>5, <2>6, InLoop DEF ident
<1>6. CASE ~due /\ Platform = "arm-qemu" /\ Resched(prstate, readylist, less) /\ UNCHANGED <<where, ndefers>>
  <2> HIDE DEF less, due
  <2>1. Settled
    BY <1>1, <1>3, <1>6, YieldSettles DEF sems
  <2>2. OtherTypes'
    BY <1>1, <1>6 DEF OtherTypes, IInv, TypeOK, ident, sems, msgs, where
  <2> QED  BY <1>1, <1>6, <2>1, <2>2, SamePlace DEF ident
<1>7. CASE /\ ~due /\ Platform = "arm-bbb"
           /\ GoTo("preempt", NoArg)
           /\ qkey' = less
           /\ UNCHANGED <<prstate, readylist, currpid, preempt, attempt, ndefers>>
  <2> HIDE DEF less, due
  <2>1. Settled
    BY <1>1, <1>3, <1>7, KeysSettle DEF sems, IInv, TypeOK
  <2>2. pc' \in [Pids -> Points] /\ arg' \in [Pids -> [id : Int, n : Int]]
    BY <1>4, <1>7 DEF GoTo, IInv, TypeOK, Points
  <2>3. OtherTypes'
    BY <1>1, <1>7, <2>2 DEF OtherTypes, IInv, TypeOK, ident, sems, msgs
  <2>4. "preempt" \in Points \ Loops  BY DEF Points, Loops
  <2> QED  BY <1>1, <1>2, <1>7, <2>1, <2>3, <2>4, LeavesTo DEF ident
<1> QED  BY <1>5, <1>6, <1>7 DEF ClockTick

\* An iteration of wakeup's loop, or its end, keeps the invariant (wakeup.c).
LEMMA WakeupLoopStep ==
  ASSUME IInv, WakeupLoop
  PROVE  IInv'
<1> DEFINE due == sleepq # <<>> /\ Overdue(qkey[sleepq[1]])
           v   == sleepq[1]
           st  == [prstate EXCEPT ![v] = "PR_READY"]
<1>1. pc[currpid] = "wakeup" /\ UNCHANGED <<ident, sems, msgs>>
  BY DEF WakeupLoop, Inside
<1>2. CASE due
  <2>1. Ready(v, qkey) /\ sleepq' = Tail(sleepq) /\ UNCHANGED <<where, ndefers>>
    BY <1>2 DEF WakeupLoop
  <2>2. sleepq \in Seq(Pids) /\ sleepq # <<>> /\ NoDuplicates(sleepq)
    BY <1>2 DEF IInv, TypeOK, QueuesAgree, SleepAgrees
  <2>3. v \in Pids /\ OnQueue(sleepq, v) /\ Shrinks(Pids, sleepq, v, sleepq')
    BY <2>1, <2>2, TailFacts
  <2>4. prstate[v] \in {"PR_SLEEP", "PR_RECTIM"}
    BY <2>3 DEF IInv, QueuesAgree, SleepAgrees
  <2>5. \A p \in Pids : st[p] = IF p = v THEN "PR_READY" ELSE prstate[p]
    BY DEF IInv, TypeOK
  <2> HIDE DEF v, st
  <2>6. Placed(st, sleepq', squeue', prsem')
    BY <1>1, <2>3, <2>4, <2>5, PlacedNow DEF Placed, Shrinks, sems
  <2>7. Settled
    BY <2>1, <2>3, <2>4, <2>6, ReadySettles DEF st, Eligible, IInv, TypeOK
  <2>8. OtherTypes'
    BY <1>1, <2>1 DEF OtherTypes, IInv, TypeOK, ident, sems, msgs, where
  <2> QED  BY <1>1, <2>1, <2>7, <2>8, SamePlace DEF ident
<1>3. CASE ~due
  <2> DEFINE c == IF Platform = "arm-bbb" THEN "preempt" ELSE "user"
  <2>1. DeferStop /\ GoTo(c, NoArg) /\ sleepq' = sleepq
    BY <1>3 DEF WakeupLoop
  <2>2. c \in Points \ Loops /\ c # "kill"
    BY DEF Points, Loops
  <2> HIDE DEF c
  <2>3. pc[currpid] \in Loops  BY <1>1 DEF Loops
  <2> QED  BY <1>1, <2>1, <2>2, <2>3, EndLoopStep DEF sems, IInv, TypeOK
<1> QED  BY <1>2, <1>3

\* The end of the arm-bbb handler keeps the invariant (clkhandler.c).
LEMMA PreemptStep ==
  ASSUME IInv, Preempt
  PROVE  IInv'
<1>1. /\ pc[currpid] = "preempt" /\ GoTo("user", NoArg)
      /\ UNCHANGED <<ident, sems, msgs, sleepq, ndefers>>
  BY DEF Preempt, Inside, Return
<1>2. ndefers = 0  BY <1>1, NotDeferred DEF Loops
<1>3. Settled
  <2>1. CASE preempt = 1
    <3>1. Dispatch(prstate, readylist, qkey, QUANTUM) /\ attempt' = attempt
      BY <2>1 DEF Preempt
    <3>2. QUANTUM \in 1 .. QUANTUM /\ attempt' \in BOOLEAN /\ TypeOK
      BY <3>1, ClockAssumption DEF IInv, TypeOK
    <3>3. Switched(prstate)
      BY <3>1, <3>2, AsItIs, DispatchSwitches
    <3>4. Placed(prstate, sleepq', squeue', prsem')
      BY <1>1, PlacedNow DEF sems
    <3> QED  BY <1>2, <3>3, <3>4, SwitchedSettles
  <2>2. CASE preempt # 1
    <3>1. preempt' = preempt - 1 /\ UNCHANGED <<prstate, readylist, qkey, currpid, attempt>> /\ preempt > 1
      BY <2>2 DEF Preempt
    <3>2. preempt' \in 1 .. QUANTUM
      BY <3>1, ClockAssumption DEF IInv, TypeOK
    <3> QED  BY <1>1, <3>1, <3>2 DEF Settled, IInv, TypeOK, QueuesAgree, ReadyAgrees, CurrAgrees,
                                     SleepAgrees, WaitAgrees, NullReady, sems
  <2> QED  BY <2>1, <2>2
<1>4. NoArg \in [id : Int, n : Int] /\ "user" \in Points \ Loops
  BY DEF NoArg, Points, Loops
<1>5. pc' \in [Pids -> Points] /\ arg' \in [Pids -> [id : Int, n : Int]]
  BY <1>1, <1>4 DEF GoTo, IInv, TypeOK
<1>6. OtherTypes'
  BY <1>1, <1>5 DEF OtherTypes, IInv, TypeOK, ident, sems, msgs
<1> QED  BY <1>1, <1>2, <1>3, <1>4, <1>6, LeavesTo DEF ident

-----------------------------------------------------------------------------
(* The invariant                                                           *)

\* The state nulluser leaves behind satisfies the invariant (initialize.c).
LEMMA InitIInv ==
  ASSUME Init
  PROVE  IInv
<1>1. {0, 1} \subseteq Pids /\ NPROC \in Nat /\ 2 % NPROC \in Pids
  BY TableAssumption DEF Pids
<1>2. NSTACK \in Nat /\ NSTACK \in Stacks /\ NSTACK - 1 \in Stacks /\ 1 .. NSTACK - 2 \subseteq Stacks
  BY StackAssumption DEF Stacks
<1>3. /\ prstate = [p \in Pids |-> CASE p = 0 -> "PR_READY" [] p = 1 -> "PR_CURR"
                                     [] OTHER -> "PR_FREE"]
      /\ readylist = <<0>> /\ currpid = 1
  BY DEF Init, NULLPROC
<1>4. \A p \in Pids : /\ p = 0 => prstate[p] = "PR_READY"
                      /\ p = 1 => prstate[p] = "PR_CURR"
                      /\ p \notin {0, 1} => prstate[p] = "PR_FREE"
  BY <1>3
<1>5. TypeOK
  <2>1. /\ prstate \in [Pids -> States] /\ prprio \in [Pids -> Int]
        /\ prsem \in [Pids -> Sems \cup {-1}] /\ prparent \in [Pids -> Pids]
    BY <1>1, <1>4, PrioAssumption DEF Init, States, NULLPROC
  <2>2. /\ prhasmsg \in [Pids -> BOOLEAN] /\ prmsg \in [Pids -> Mails]
        /\ prstk \in [Pids -> Stacks \cup {0}] /\ stkfree \subseteq Stacks
    BY <1>1, <1>2 DEF Init, Mails
  <2>3. /\ readylist \in Seq(Pids) /\ sleepq \in Seq(Pids) /\ qkey \in [Pids -> Int]
        /\ squeue \in [Sems -> Seq(Pids)]
    BY <1>1, <1>3 DEF Init
  <2>4. /\ sstate \in [Sems -> {"S_FREE", "S_USED"}] /\ scount \in [Sems -> Int] /\ nextsem \in Nat
        /\ currpid \in Pids /\ prcount \in Int /\ nextpid \in Pids
        /\ preempt \in 1 .. QUANTUM /\ ndefers \in Nat /\ attempt \in BOOLEAN /\ halted \in BOOLEAN
    BY <1>1, ClockAssumption DEF Init
  <2>5. pc \in [Pids -> Points] /\ arg \in [Pids -> [id : Int, n : Int]]
    BY DEF Init, Points, NoArg
  <2> QED  BY <2>1, <2>2, <2>3, <2>4, <2>5 DEF TypeOK
<1>6. QueuesAgree
  <2>1. ReadyAgrees
    BY <1>3, <1>4 DEF ReadyAgrees, NoDuplicates, OnQueue
  <2>2. CurrAgrees
    BY <1>3, <1>4 DEF CurrAgrees
  <2>3. SleepAgrees
    BY <1>4 DEF Init, SleepAgrees, NoDuplicates, OnQueue
  <2>4. WaitAgrees
    BY <1>4 DEF Init, WaitAgrees, NoDuplicates, OnQueue
  <2> QED  BY <2>1, <2>2, <2>3, <2>4 DEF QueuesAgree
<1>7. NullReady
  BY <1>1, <1>4 DEF NullReady, NULLPROC
<1>8. DeferralsPaired
  BY <1>1, <1>3 DEF Init, DeferralsPaired, Loops
<1>9. CallArgs
  <2>1. \A p \in Pids : pc[p] = "user"  BY DEF Init
  <2>2. \A p \in Pids : p \in {0, 1} => prstk[p] \in Stacks  BY <1>2 DEF Init
  <2> QED  BY <1>4, <2>1, <2>2 DEF CallArgs, Stacks
<1> QED  BY <1>5, <1>6, <1>7, <1>8, <1>9 DEF IInv

\* Every step keeps the invariant: one lemma above for each kind of step.
LEMMA NextIInv ==
  ASSUME IInv, [Next]_vars
  PROVE  IInv'
<1>1. CASE ProcessCall
  BY <1>1, CreateStep, ResumeStep, SuspendStep, KillStep, ChprioStep, YieldStep DEF ProcessCall
<1>2. CASE SemaphoreCall
  BY <1>2, SemcreateStep, WaitStep, SignalStep, SemdeleteStep, SignalnStep, SemresetStep
  DEF SemaphoreCall
<1>3. CASE MessageCall
  BY <1>3, SendStep, ReceiveStep, ReceiveBlockStep, RecvtimeBlockStep, SleepmsStep DEF MessageCall
<1>4. CASE InKernel
  BY <1>4, KillFinishStep, SignalnLoopStep, SemdeleteLoopStep, SemresetLoopStep, TakeMessageStep,
     WakeupLoopStep, PreemptStep
  DEF InKernel
<1>5. CASE ClockTick
  BY <1>5, ClockTickStep
<1>6. CASE UNCHANGED vars
  BY <1>6 DEF vars, sched, ident, sems, msgs, where, IInv, TypeOK, QueuesAgree, ReadyAgrees,
              CurrAgrees, SleepAgrees, WaitAgrees, NullReady, DeferralsPaired, CallArgs
<1> QED  BY <1>1, <1>2, <1>3, <1>4, <1>5, <1>6 DEF Next

\* All five parts hold in every reachable state.
THEOREM Invariance == Spec => []IInv
<1>1. Init => IInv  BY InitIInv
<1>2. IInv /\ [Next]_vars => IInv'  BY NextIInv
<1> QED  BY <1>1, <1>2, PTL DEF Spec

\* Every variable keeps its type (process.h, semaphore.h, queue.h, sched.h).
THEOREM TypeCorrect == Spec => []TypeOK
<1>1. IInv => TypeOK  BY DEF IInv
<1> QED  BY <1>1, Invariance, PTL

\* Every process is on the one list its state says it is on, and once: no sequence of
\* calls, kills and interrupts links a queue node twice (queue.c, getitem.c).
THEOREM OneListEach == Spec => []QueuesAgree
<1>1. IInv => QueuesAgree  BY DEF IInv
<1> QED  BY <1>1, Invariance, PTL

\* The null process is running or ready, so resched has a process to run (resched.c,
\* initialize.c).
THEOREM AlwaysSomebodyToRun == Spec => []NullReady
<1>1. IInv => NullReady  BY DEF IInv
<1> QED  BY <1>1, Invariance, PTL

\* Every DEFER_START meets its DEFER_STOP (resched.c).
THEOREM EveryDeferralEnds == Spec => []DeferralsPaired
<1>1. IInv => DeferralsPaired  BY DEF IInv
<1> QED  BY <1>1, Invariance, PTL

-----------------------------------------------------------------------------
(* Action properties                                                       *)

\* A step moves nobody else into a loop: only the current process goes on, and kill
\* takes its victim out of whatever call it was in.
LEMMA OwnProgress ==
  ASSUME TypeOK, Next, NEW p \in Pids, p # currpid
  PROVE  pc'[p] \in {pc[p], "user"}
<1>1. ASSUME NEW c, NEW a, GoTo(c, a)  PROVE pc'[p] = pc[p]
  BY <1>1 DEF GoTo, TypeOK
<1>2. ASSUME UNCHANGED where  PROVE pc'[p] = pc[p]
  BY <1>2 DEF where
<1>3. CASE ProcessCall
  BY <1>1, <1>2, <1>3 DEF ProcessCall, Create, Resume, Suspend, Kill, Chprio, Yield
<1>4. CASE SemaphoreCall
  BY <1>1, <1>2, <1>4
  DEF SemaphoreCall, Semcreate, Wait, Signal, Semdelete, Signaln, Semreset, StartLoop
<1>5. CASE MessageCall
  BY <1>1, <1>2, <1>5 DEF MessageCall, Send, Receive, ReceiveBlock, RecvtimeBlock, Sleepms
<1>6. CASE InKernel
  <2>1. KillFinish => pc'[p] \in {pc[p], "user"}  BY DEF KillFinish
  <2>2. SignalnLoop \/ SemdeleteLoop \/ SemresetLoop => pc'[p] = pc[p]
    BY <1>1, <1>2 DEF SignalnLoop, SemdeleteLoop, SemresetLoop, EndLoop, Return
  <2>3. TakeMessage \/ WakeupLoop \/ Preempt => pc'[p] = pc[p]
    BY <1>1, <1>2 DEF TakeMessage, WakeupLoop, Preempt, Return
  <2> QED  BY <1>6, <2>1, <2>2, <2>3 DEF InKernel
<1>7. CASE ClockTick
  BY <1>1, <1>2, <1>7 DEF ClockTick, Wakeup
<1> QED  BY <1>3, <1>4, <1>5, <1>6, <1>7 DEF Next

\* Between the start and the end of a deferral nobody else gets the processor
\* (resched.c).
THEOREM DeferralsHold == Spec => NoSwitchWhileDeferred
<1>1. IInv /\ IInv' /\ [Next]_vars => [ndefers > 0 /\ ndefers' > 0 => currpid' = currpid]_vars
  <2> SUFFICES ASSUME IInv, IInv', Next, ndefers > 0, ndefers' > 0, currpid' # currpid
               PROVE  FALSE
    OBVIOUS
  <2>1. currpid' \in Pids /\ pc'[currpid'] \in Loops /\ pc[currpid'] \notin Loops
    BY DEF IInv, TypeOK, DeferralsPaired
  <2>2. pc'[currpid'] \in {pc[currpid'], "user"}
    BY <2>1, OwnProgress DEF IInv
  <2> QED  BY <2>1, <2>2 DEF Loops
<1> QED  BY <1>1, Invariance, PTL DEF Spec, NoSwitchWhileDeferred

\* How a step changes the queue of a semaphore: not at all, by one process joining
\* at the tail, by the head leaving, or by a process that is killed.
LEMMA QueueChange ==
  ASSUME IInv, Next, NEW s \in Sems
  PROVE  \/ squeue'[s] = squeue[s]
         \/ squeue'[s] = Enqueue(squeue[s], currpid)
         \/ squeue[s] # <<>> /\ squeue'[s] = Tail(squeue[s])
         \/ \E v \in Pids : /\ OnQueue(squeue[s], v) /\ squeue'[s] = GetItem(squeue[s], v)
                            /\ prstate'[v] = "PR_FREE"
<1>0. squeue \in [Sems -> Seq(Pids)]
  BY DEF IInv, TypeOK
<1>1. ASSUME squeue' = squeue  PROVE squeue'[s] = squeue[s]
  BY <1>1
<1>2. ASSUME NEW z \in Sems, ReadyFirst(z)
      PROVE  squeue'[s] = squeue[s] \/ (squeue[s] # <<>> /\ squeue'[s] = Tail(squeue[s]))
  BY <1>0, <1>2 DEF ReadyFirst
<1>3. ASSUME NEW z \in Sems, Release(z)
      PROVE  squeue'[s] = squeue[s] \/ (squeue[s] # <<>> /\ squeue'[s] = Tail(squeue[s]))
  BY <1>1, <1>2, <1>3 DEF Release
<1>4. CASE ProcessCall
  BY <1>1, <1>4 DEF ProcessCall, Create, Resume, Suspend, Kill, Chprio, Yield, sems
<1>5. CASE SemaphoreCall
  <2>1. ASSUME NEW z \in Sems, Wait(z)
        PROVE  squeue'[s] = squeue[s] \/ squeue'[s] = Enqueue(squeue[s], currpid)
    BY <1>0, <2>1 DEF Wait
  <2> QED  BY <1>1, <1>3, <1>5, <2>1
           DEF SemaphoreCall, Semcreate, Signal, Semdelete, Signaln, Semreset, sems
<1>6. CASE MessageCall
  BY <1>1, <1>6 DEF MessageCall, Send, Receive, ReceiveBlock, RecvtimeBlock, Sleepms, sems
<1>7. CASE KillFinish
  <2> DEFINE v == arg[currpid].id
  <2>1. pc[currpid] = "kill" /\ currpid \in Pids
    BY <1>7 DEF KillFinish, Inside, IInv, TypeOK
  <2>2. v \in Pids
    BY <2>1 DEF IInv, CallArgs
  <2>3. squeue' = squeue \/ /\ prstate[v] = "PR_WAIT"
                            /\ squeue' = [squeue EXCEPT ![prsem[v]] = GetItem(@, v)]
                            /\ prstate' = [prstate EXCEPT ![v] = "PR_FREE"]
    BY <1>7 DEF KillFinish
  <2> HIDE DEF v
  <2>4. CASE squeue' = squeue
    BY <1>1, <2>4
  <2>5. CASE /\ prstate[v] = "PR_WAIT"
             /\ squeue' = [squeue EXCEPT ![prsem[v]] = GetItem(@, v)]
             /\ prstate' = [prstate EXCEPT ![v] = "PR_FREE"]
    <3>1. CASE s = prsem[v]
      <4>1. OnQueue(squeue[s], v)
        BY <2>2, <2>5, <3>1 DEF IInv, QueuesAgree, WaitAgrees
      <4>2. prstate'[v] = "PR_FREE" /\ squeue'[s] = GetItem(squeue[s], v)
        BY <1>0, <2>2, <2>5, <3>1 DEF IInv, TypeOK
      <4> QED  BY <2>2, <4>1, <4>2
    <3>2. CASE s # prsem[v]
      BY <1>0, <2>5, <3>2
    <3> QED  BY <3>1, <3>2
  <2> QED  BY <2>3, <2>4, <2>5
<1>8. CASE SignalnLoop \/ SemdeleteLoop \/ SemresetLoop
  BY <1>1, <1>2, <1>3, <1>8, InSemLoop DEF SignalnLoop, SemdeleteLoop, SemresetLoop
<1>9. CASE TakeMessage \/ WakeupLoop \/ Preempt \/ ClockTick
  BY <1>1, <1>9 DEF TakeMessage, WakeupLoop, Preempt, ClockTick, sems
<1> QED  BY <1>4, <1>5, <1>6, <1>7, <1>8, <1>9 DEF Next, InKernel

\* enqueue puts the newcomer behind everybody and leaves the others in order (queue.c).
LEMMA EnqueueBehind ==
  ASSUME NEW S, NEW q \in Seq(S), NEW e \in S, NEW p, NEW r, OnQueue(q, p),
         Before(q, p, r) \/ r = e
  PROVE  Before(Enqueue(q, e), p, r)
<1>1. Len(q) \in Nat /\ DOMAIN q = 1 .. Len(q)
  BY LenProperties
<1>2. /\ Enqueue(q, e) \in Seq(S) /\ Len(Enqueue(q, e)) = Len(q) + 1
      /\ \A j \in 1 .. Len(q) : Enqueue(q, e)[j] = q[j]
      /\ Enqueue(q, e)[Len(q) + 1] = e
  BY AppendProperties DEF Enqueue
<1>3. DOMAIN Enqueue(q, e) = 1 .. Len(q) + 1
  BY <1>2, LenProperties
<1>4. CASE Before(q, p, r)
  <2>1. PICK i \in 1 .. Len(q), j \in 1 .. Len(q) : i < j /\ q[i] = p /\ q[j] = r
    BY <1>1, <1>4 DEF Before
  <2>2. i \in 1 .. Len(q) + 1 /\ j \in 1 .. Len(q) + 1
    BY <1>1
  <2> QED  BY <1>2, <1>3, <2>1, <2>2 DEF Before
<1>5. CASE r = e
  <2>1. PICK i \in 1 .. Len(q) : q[i] = p
    BY <1>1 DEF OnQueue
  <2>2. i \in 1 .. Len(q) + 1 /\ Len(q) + 1 \in 1 .. Len(q) + 1 /\ i < Len(q) + 1
    BY <1>1
  <2> QED  BY <1>2, <1>3, <1>5, <2>1, <2>2 DEF Before
<1> QED  BY <1>4, <1>5

\* When somebody else leaves a queue, who is behind whom stays as it was (queue.c,
\* getitem.c).
LEMMA RemovedBehind ==
  ASSUME NEW S, NEW q \in Seq(S), NEW k \in 1 .. Len(q), NEW q1, RemovedAt(S, q, k, q1),
         NEW p, NEW r, Before(q, p, r), q[k] # p, q[k] # r
  PROVE  Before(q1, p, r)
<1>1. Len(q) \in Nat /\ DOMAIN q = 1 .. Len(q)
  BY LenProperties
<1>2. /\ q1 \in Seq(S) /\ Len(q1) = Len(q) - 1
      /\ \A j \in 1 .. Len(q) - 1 : q1[j] = IF j < k THEN q[j] ELSE q[j+1]
  BY DEF RemovedAt
<1>3. DOMAIN q1 = 1 .. Len(q) - 1
  BY <1>2, LenProperties
<1>4. PICK i \in 1 .. Len(q), j \in 1 .. Len(q) : i < j /\ q[i] = p /\ q[j] = r
  BY <1>1 DEF Before
<1> DEFINE a == IF i < k THEN i ELSE i - 1
           b == IF j < k THEN j ELSE j - 1
<1>5. i # k /\ j # k
  BY <1>4
<1>6. a \in 1 .. Len(q) - 1 /\ b \in 1 .. Len(q) - 1 /\ a < b
  BY <1>1, <1>4, <1>5
<1>7. q1[a] = q[i]
  BY <1>1, <1>2, <1>5, <1>6
<1>8. q1[b] = q[j]
  BY <1>1, <1>2, <1>5, <1>6
<1> HIDE DEF a, b
<1> QED  BY <1>3, <1>4, <1>6, <1>7, <1>8 DEF Before

\* dequeue takes the head out (queue.c).
LEMMA TailRemoves ==
  ASSUME NEW S, NEW q \in Seq(S), q # <<>>
  PROVE  1 \in 1 .. Len(q) /\ RemovedAt(S, q, 1, Tail(q))
<1>1. Len(q) \in Nat \ {0}
  BY LenProperties, EmptySeq
<1>2. /\ Tail(q) \in Seq(S) /\ Len(Tail(q)) = Len(q) - 1
      /\ \A i \in 1 .. Len(Tail(q)) : Tail(q)[i] = q[i+1]
  BY HeadTailProperties
<1> QED  BY <1>1, <1>2 DEF RemovedAt

\* Whoever has waited longer for a semaphore stays ahead until it leaves, unless the
\* other is killed (wait.c, signal.c, signaln.c, semreset.c, semdelete.c, kill.c).
THEOREM FirstComeFirstServed == Spec => FifoRelease
<1> DEFINE Fifo == \A s \in Sems : \A p, r \in Pids :
              /\ OnQueue(squeue[s], p) /\ OnQueue(squeue'[s], p)
              /\ Before(squeue[s], p, r) \/ Joins(squeue[s], squeue'[s], r)
              => Before(squeue'[s], p, r) \/ prstate'[r] = "PR_FREE"
<1>1. IInv /\ [Next]_vars => [Fifo]_vars
  <2> SUFFICES ASSUME IInv, Next, NEW s \in Sems, NEW p \in Pids, NEW r \in Pids,
                      OnQueue(squeue[s], p), OnQueue(squeue'[s], p),
                      Before(squeue[s], p, r) \/ Joins(squeue[s], squeue'[s], r)
               PROVE  Before(squeue'[s], p, r) \/ prstate'[r] = "PR_FREE"
    OBVIOUS
  <2> DEFINE q == squeue[s]
  <2>1. q \in Seq(Pids) /\ NoDuplicates(q) /\ currpid \in Pids
    BY DEF IInv, TypeOK, QueuesAgree, WaitAgrees
  <2>2. Before(q, p, r) => OnQueue(q, r)
    BY DEF Before, OnQueue
  <2>3. CASE squeue'[s] = q
    BY <2>3 DEF Joins
  <2>4. CASE squeue'[s] = Enqueue(q, currpid)
    <3>1. Grows(Pids, q, currpid, squeue'[s])
      BY <2>1, <2>4, EnqueueFacts
    <3>2. Before(q, p, r) \/ r = currpid
      BY <3>1 DEF Joins, Grows
    <3> QED  BY <2>1, <2>4, <3>2, EnqueueBehind
  <2>5. CASE q # <<>> /\ squeue'[s] = Tail(q)
    <3>1. Shrinks(Pids, q, q[1], squeue'[s])
      BY <2>1, <2>5, TailFacts
    <3>2. Before(q, p, r) /\ p # q[1]
      BY <3>1 DEF Joins, Shrinks
    <3>3. 1 \in 1 .. Len(q) /\ RemovedAt(Pids, q, 1, squeue'[s])
      BY <2>1, <2>5, TailRemoves
    <3>4. r # q[1]
      <4>1. PICK i \in DOMAIN q, j \in DOMAIN q : i < j /\ q[j] = r
        BY <3>2 DEF Before
      <4>2. DOMAIN q = 1 .. Len(q) /\ Len(q) \in Nat
        BY <2>1, LenProperties
      <4>3. 1 \in DOMAIN q /\ j # 1
        BY <4>1, <4>2
      <4> QED  BY <2>1, <4>1, <4>3 DEF NoDuplicates
    <3> QED  BY <2>1, <3>2, <3>3, <3>4, RemovedBehind
  <2>6. ASSUME NEW v \in Pids, OnQueue(q, v), squeue'[s] = GetItem(q, v), prstate'[v] = "PR_FREE"
        PROVE  Before(squeue'[s], p, r) \/ prstate'[r] = "PR_FREE"
    <3>1. Shrinks(Pids, q, v, squeue'[s])
      BY <2>1, <2>6, GetItemFacts
    <3>2. Before(q, p, r) /\ p # v
      BY <3>1 DEF Joins, Shrinks
    <3>3. PlaceOf(q, v) \in 1 .. Len(q) /\ q[PlaceOf(q, v)] = v
      <4>1. \E i \in DOMAIN q : q[i] = v  BY <2>6 DEF OnQueue
      <4>2. PlaceOf(q, v) \in DOMAIN q /\ q[PlaceOf(q, v)] = v  BY <4>1 DEF PlaceOf
      <4> QED  BY <2>1, <4>2, LenProperties
    <3>4. RemovedAt(Pids, q, PlaceOf(q, v), squeue'[s])
      BY <2>1, <2>6, <3>3, RemoveAtFacts DEF GetItem
    <3>5. CASE r = v
      BY <2>6, <3>5
    <3>6. CASE r # v
      BY <2>1, <3>2, <3>3, <3>4, <3>6, RemovedBehind
    <3> QED  BY <3>5, <3>6
  <2> QED  BY <2>3, <2>4, <2>5, <2>6, QueueChange
<1> QED  BY <1>1, Invariance, PTL DEF Spec, FifoRelease

\* A message stays in the one-message buffer until its owner takes it or the process
\* table entry is created anew (send.c, create.c).
THEOREM NoMessageLost == Spec => MessageKept
<1> DEFINE Kept(p) == \/ prhasmsg'[p] /\ prmsg'[p] = prmsg[p]
                      \/ p = currpid
                      \/ prstate[p] = "PR_FREE"
           Keeps == \A p \in Pids : prhasmsg[p] => Kept(p)
<1>1. IInv /\ [Next]_vars => [Keeps]_vars
  <2> SUFFICES ASSUME IInv, Next, NEW p \in Pids, prhasmsg[p]
               PROVE  Kept(p)
    OBVIOUS
  <2>0. prhasmsg \in [Pids -> BOOLEAN] /\ prmsg \in [Pids -> Mails]
    BY DEF IInv, TypeOK
  <2>1. ASSUME UNCHANGED msgs  PROVE Kept(p)
    BY <2>1 DEF msgs
  <2>2. ASSUME NEW r, NEW m, Deliver(r, m)  PROVE Kept(p)
    <3>1. CASE Undeliverable(r)
      BY <2>1, <2>2, <3>1 DEF Deliver
    <3>2. CASE ~Undeliverable(r)
      <4>1. /\ prmsg' = [prmsg EXCEPT ![r] = m]
            /\ prhasmsg' = [prhasmsg EXCEPT ![r] = TRUE]
        BY <2>2, <3>2 DEF Deliver
      <4>2. r # p
        BY <3>2 DEF Undeliverable
      <4> QED  BY <2>0, <4>1, <4>2
    <3> QED  BY <3>1, <3>2
  <2>3. ASSUME prhasmsg' = [prhasmsg EXCEPT ![currpid] = FALSE], prmsg' = prmsg  PROVE Kept(p)
    BY <2>0, <2>3
  <2>4. CASE ProcessCall
    <3>1. ASSUME NEW prio \in Prios, Create(prio)  PROVE Kept(p)
      <4>1. CASE FreePids = {} \/ prio < 1
        BY <2>1, <3>1, <4>1 DEF Create, msgs
      <4>2. CASE ~(FreePids = {} \/ prio < 1)
        <5>1. Newpid \in FreePids
          BY <4>2, NewpidFree
        <5>2. prhasmsg' = [prhasmsg EXCEPT ![Newpid] = FALSE] /\ prmsg' = prmsg
          BY <3>1, <4>2 DEF Create
        <5> QED  BY <2>0, <5>1, <5>2 DEF FreePids
      <4> QED  BY <4>1, <4>2
    <3>2. ASSUME NEW pid \in Pids, Kill(pid)  PROVE Kept(p)
      BY <2>1, <2>2, <3>2 DEF Kill
    <3> QED  BY <2>1, <2>4, <3>1, <3>2 DEF ProcessCall, Resume, Suspend, Chprio, Yield
  <2>5. CASE SemaphoreCall
    BY <2>1, <2>5 DEF SemaphoreCall, Semcreate, Wait, Signal, Semdelete, Signaln, Semreset
  <2>6. CASE MessageCall
    BY <2>1, <2>2, <2>3, <2>6 DEF MessageCall, Send, Receive, ReceiveBlock, RecvtimeBlock, Sleepms
  <2>7. CASE InKernel \/ ClockTick
    BY <2>1, <2>3, <2>7 DEF InKernel, KillFinish, SignalnLoop, SemdeleteLoop, SemresetLoop,
                            TakeMessage, WakeupLoop, Preempt, ClockTick
  <2> QED  BY <2>4, <2>5, <2>6, <2>7 DEF Next
<1> QED  BY <1>1, Invariance, PTL DEF Spec, MessageKept

=============================================================================
