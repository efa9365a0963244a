------------------------------- MODULE Shell -------------------------------
(***************************************************************************)
(* The shell (shell.c) and the commands it starts. The shell waits for a   *)
(* command in the foreground by the message that kill sends to the parent  *)
(* of a process that ends. A process holds one message: a notice that      *)
(* comes while another is unread is lost.                                  *)
(***************************************************************************)
EXTENDS Integers, FiniteSets

CONSTANTS Slots,    \* process table entries the commands run in
          NoNotice  \* an empty mailbox

ASSUME ShellAssumption == NoNotice \notin Slots

VARIABLES shat,     \* "prompt", "created", "cleared", "waiting", "exited"
          shchild,  \* the command that was created last
          shback,   \* it runs in the background
          shbox,    \* the shell's mailbox
          running,  \* commands, by process ID; created or resumed
          resumed,
          ended     \* the command in shchild has ended since it was created

shvars == <<shat, shchild, shback, shbox, running, resumed, ended>>

ShInit ==
  /\ shat = "prompt" /\ shbox = NoNotice /\ shchild = NoNotice /\ shback = FALSE
  /\ running = {} /\ resumed = {} /\ ended = FALSE

(* A line for a command: create, then addargs, which may fail and leaves   *)
(* the process suspended for good. A line with an error, a built-in        *)
(* command other than exit or a failing open changes nothing.              *)
ShCreate(c, back) ==
  /\ shat = "prompt" /\ c \in Slots \ running
  /\ running' = running \cup {c}
  /\ \/ shat' = "created" /\ shchild' = c /\ shback' = back /\ ended' = FALSE
     \/ UNCHANGED <<shat, shchild, shback, ended>>
  /\ UNCHANGED <<shbox, resumed>>

BugRecvclr ==
  /\ shat = "created" /\ shat' = "cleared"
  /\ UNCHANGED <<shchild, shback, shbox, running, resumed, ended>>

(* msg = recvclr() *)
ShRecvclr ==
  /\ shat = "created"
  /\ shbox' = NoNotice
  /\ shat' = "cleared"
  /\ UNCHANGED <<shchild, shback, running, resumed, ended>>

(* resume(child): the child may run, and end, before the shell goes on *)
ShResume ==
  /\ shat = "cleared"
  /\ resumed' = resumed \cup {shchild}
  /\ shat' = IF shback THEN "prompt" ELSE "waiting"
  /\ UNCHANGED <<shchild, shback, shbox, running, ended>>

(* receive until the message is the child *)
ShReceive ==
  /\ shat = "waiting" /\ shbox # NoNotice
  /\ shbox' = NoNotice
  /\ shat' = IF shbox = shchild THEN "prompt" ELSE "waiting"
  /\ UNCHANGED <<shchild, shback, running, resumed, ended>>

(* end-of-file or the command exit *)
ShExit == /\ shat = "prompt" /\ shat' = "exited"
          /\ UNCHANGED <<shchild, shback, shbox, running, resumed, ended>>

(* a command returns, calls exit or is killed: kill sends its ID to the shell *)
CommandEnds(c) ==
  /\ c \in resumed
  /\ running' = running \ {c}
  /\ resumed' = resumed \ {c}
  /\ shbox' = IF shat # "exited" /\ shbox = NoNotice THEN c ELSE shbox
  /\ ended' = (ended \/ c = shchild)
  /\ UNCHANGED <<shat, shchild, shback>>

ShNext == \/ \E c \in Slots, back \in BOOLEAN : ShCreate(c, back)
          \/ ShRecvclr \/ ShResume \/ ShReceive \/ ShExit
          \/ \E c \in Slots : CommandEnds(c)

ShSpec == ShInit /\ [][ShNext]_shvars

----------------------------------------------------------------------------

ShTypeOK ==
  /\ shat \in {"prompt", "created", "cleared", "waiting", "exited"}
  /\ shchild \in Slots \cup {NoNotice} /\ shbox \in Slots \cup {NoNotice}
  /\ shback \in BOOLEAN /\ ended \in BOOLEAN /\ resumed \subseteq running /\ running \subseteq Slots

(* The shell takes no stale notice for the end of its command: when it     *)
(* prompts again after a foreground command, that command has ended,       *)
(* although background commands end at any time and a process ID of one    *)
(* whose notice is unread may be given to the next command.                *)
ShWaitsForOwn == shat = "prompt" /\ shchild # NoNotice /\ ~shback => ended
============================================================================
