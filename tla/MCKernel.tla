------------------------------ MODULE MCKernel ------------------------------
(***************************************************************************)
(* Instances of the kernel for TLC.  The configurations choose the calls   *)
(* the programs make, so that each question is asked of the part of the    *)
(* kernel it is about.                                                     *)
(***************************************************************************)
EXTENDS Kernel

Spawn      == {"create", "resume"}
Scheduling == Spawn \cup {"suspend", "yield"}
Semaphores == {"semcreate", "wait", "signal", "signaln", "semdelete", "semreset"}
Scheduled  == Scheduling \cup Semaphores
Exiting    == Spawn \cup {"exit", "receive"}
Clocked    == Spawn \cup {"send", "receive", "recvtime", "sleepms"}
Clocking   == Spawn \cup {"recvtime", "sleepms"}
Everything == Spawn \cup {"send", "receive", "recvtime"} \cup {"semcreate", "wait", "signal", "kill", "chprio"}
Reprioritising      == Scheduling \cup {"chprio"}
KillingAndReceiving == Spawn \cup {"receive", "kill"}
=============================================================================
