------------------------------- MODULE Timers -------------------------------
(***************************************************************************)
(* What the delay calls promise: a process asks to be left alone for a     *)
(* number of clock ticks and every tick brings it one tick closer, whatever*)
(* the other processes ask for and however many of them there are.         *)
(***************************************************************************)
EXTENDS Naturals

CONSTANTS Procs,
          Durations   \* the delays asked for, in ticks, all positive

VARIABLE left      \* ticks until each process is due; 0 when it is not delayed

Init == left = [p \in Procs |-> 0]

\* A process asks for a delay.
Start(p, d) == left[p] = 0 /\ left' = [left EXCEPT ![p] = d]

\* A delay is cut short: a message arrived, or the process was killed.
Cancel(p) == left[p] > 0 /\ left' = [left EXCEPT ![p] = 0]

\* The clock ticks, for all of them at once.
Tick ==
  /\ \E p \in Procs : left[p] > 0
  /\ left' = [p \in Procs |-> IF left[p] > 0 THEN left[p] - 1 ELSE 0]

Next ==
  \/ \E p \in Procs : Cancel(p) \/ \E d \in Durations : Start(p, d)
  \/ Tick

Spec == Init /\ [][Next]_left /\ WF_left(Tick)

=============================================================================
