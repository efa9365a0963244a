-------------------------------- MODULE Uart --------------------------------
(***************************************************************************)
(* The serial line of arm-qemu (device/uart, device/uart-pl011). Processes *)
(* write bytes into a circular buffer, or straight into the transmitter    *)
(* when it is idle; the transmit interrupt empties the buffer and the      *)
(* receive interrupt fills another, from which processes read. The FIFOs   *)
(* of the hardware are off: it holds one byte in each direction.           *)
(***************************************************************************)
EXTENDS Semas

CONSTANTS IBLEN, OBLEN,  \* lengths of the input and output buffers
          UaLen,         \* bytes a process writes in one call
          UaInputs       \* bound: bytes that arrive

ASSUME UartAssumption == {IBLEN, OBLEN, UaLen} \subseteq Nat \ {0} /\ UaInputs \in Nat

VARIABLES uaout, uaostart, uaocount, uaosema, uaoidle,  \* output fields of struct uart
          uain, uaistart, uaicount, uaisema, uaflags,   \* input fields, flags of both
          uahold, uatxirq, ualine,  \* holding register, its interrupt, bytes on the line
          uarx, uaarrived,          \* byte in the receiver, bytes so far
          uaproc,    \* [p -> where it is and the bytes it has still to write]
          uainside,  \* the process that runs with interrupts disabled
          uagiven,   \* bytes that uartWrite has taken
          uataken    \* the last byte that was read

uaoutvars == <<uaout, uaostart, uaocount, uaosema, uaoidle, uahold, uatxirq, ualine, uagiven>>
uainvars == <<uain, uaistart, uaicount, uaisema, uarx, uaarrived, uataken>>
uavars == <<uaoutvars, uainvars, uaflags, uaproc, uainside>>

NoByte == <<>>

(* byte n of process p; what it echoes is numbered below zero *)
UaByte(p, n) == <<p, n>>
UaMessage(p) == [n \in 1 .. UaLen |-> UaByte(p, n)]

(* uartInit and uartHwInit *)
UaInit ==
  /\ uaout = [i \in 0 .. OBLEN - 1 |-> NoByte] /\ uaostart = 0 /\ uaocount = 0
  /\ uaosema = Sema(OBLEN) /\ uaoidle = TRUE
  /\ uain = [i \in 0 .. IBLEN - 1 |-> 0] /\ uaistart = 0 /\ uaicount = 0 /\ uaisema = Sema(0)
  /\ uaflags = {"echo"}
  /\ uahold = NoByte /\ uatxirq = FALSE /\ ualine = {}
  /\ uarx = 0 /\ uaarrived = 0
  /\ uaproc = [p \in Procs |-> [at |-> "user", todo |-> <<>>]] /\ uainside = NoProc
  /\ uagiven = {} /\ uataken = 0

UaRuns(p, at) == /\ uaproc[p].at = at /\ uainside \in {p, NoProc}
                 /\ p \notin Waiters(uaosema) \cup Waiters(uaisema)

(* p goes on at a point, with interrupts disabled unless it waits there or *)
(* is back in its program                                                  *)
UaGoto(p, at, todo) ==
  /\ uaproc' = [uaproc EXCEPT ![p] = [at |-> at, todo |-> todo]]
  /\ uainside' = IF at = "write" THEN p ELSE NoProc

UaReturn(p) == UaGoto(p, "user", <<>>)

(* uartWrite has taken a byte: the next one, or back to the program *)
UaAccept(p) ==
  LET todo == uaproc[p].todo IN
  /\ uagiven' = uagiven \cup {Head(todo)}
  /\ IF Len(todo) = 1 THEN UaReturn(p) ELSE UaGoto(p, "write", Tail(todo))

(* a program calls uartWrite, once *)
UaWriteStart(p) == /\ UaRuns(p, "user") /\ UaByte(p, 1) \notin uagiven
                   /\ UaGoto(p, "write", UaMessage(p))
                   /\ UNCHANGED <<uaoutvars, uainvars, uaflags>>

(* uartWrite: the transmitter is idle *)
UaWriteDirect(p) ==
  /\ UaRuns(p, "write") /\ uaoidle
  /\ uahold' = Head(uaproc[p].todo)
  /\ uaoidle' = FALSE
  /\ UaAccept(p)
  /\ UNCHANGED <<uaout, uaostart, uaocount, uaosema, uatxirq, ualine, uainvars, uaflags>>

UaStore(p) ==
  /\ uaout' = [uaout EXCEPT ![(uaostart + uaocount) % OBLEN] = Head(uaproc[p].todo)]
  /\ uaocount' = uaocount + 1
  /\ UaAccept(p)

(* or it is not: wait for space and store; in the non-blocking mode give   *)
(* up if the buffer is full                                                *)
UaWriteBuffer(p) ==
  /\ UaRuns(p, "write") /\ ~uaoidle
  /\ IF "noblock" \in uaflags /\ uaocount = OBLEN
     THEN UaReturn(p) /\ UNCHANGED <<uaosema, uaout, uaocount, uagiven>>
     ELSE /\ uaosema' = Down(uaosema, p)
          /\ IF Blocks(uaosema)
             THEN UaGoto(p, "store", uaproc[p].todo) /\ UNCHANGED <<uaout, uaocount, uagiven>>
             ELSE UaStore(p)
  /\ UNCHANGED <<uaostart, uaoidle, uahold, uatxirq, ualine, uainvars, uaflags>>

(* a writer that was released stores its byte, whatever became of oidle *)
UaWriteResume(p) ==
  /\ UaRuns(p, "store")
  /\ UaStore(p)
  /\ UNCHANGED <<uaostart, uaosema, uaoidle, uahold, uatxirq, ualine, uainvars, uaflags>>

(* the transmit half of uartInterrupt *)
UaTransmit ==
  /\ uatxirq /\ uainside = NoProc
  /\ uatxirq' = FALSE
  /\ IF uaocount > 0
     THEN /\ uahold' = uaout[uaostart]
          /\ uaostart' = (uaostart + 1) % OBLEN
          /\ uaocount' = uaocount - 1
          /\ uaosema' = UpN(uaosema, 1)
          /\ UNCHANGED uaoidle
     ELSE uaoidle' = TRUE /\ UNCHANGED <<uahold, uaostart, uaocount, uaosema>>
  /\ UNCHANGED <<uaout, ualine, uagiven, uaproc, uainside, uainvars, uaflags>>

(* hardware: the byte goes out, and the empty register interrupts *)
UaShift ==
  /\ uahold # NoByte
  /\ ualine' = ualine \cup {uahold} /\ uahold' = NoByte /\ uatxirq' = TRUE
  /\ UNCHANGED <<uaout, uaostart, uaocount, uaosema, uaoidle, uagiven, uaproc, uainside, uainvars,
                 uaflags>>

(* hardware: a byte arrives *)
UaArrive ==
  /\ uarx = 0 /\ uaarrived < UaInputs
  /\ uaarrived' = uaarrived + 1 /\ uarx' = uaarrived + 1
  /\ UNCHANGED <<uain, uaistart, uaicount, uaisema, uataken, uaoutvars, uaproc, uainside, uaflags>>

(* the receive half of uartInterrupt: the byte is stored, or overruns *)
UaReceive ==
  /\ uarx # 0 /\ uainside = NoProc
  /\ uarx' = 0
  /\ IF uaicount < IBLEN
     THEN /\ uain' = [uain EXCEPT ![(uaistart + uaicount) % IBLEN] = uarx]
          /\ uaicount' = uaicount + 1
          /\ uaisema' = UpN(uaisema, 1)
     ELSE UNCHANGED <<uain, uaicount, uaisema>>
  /\ UNCHANGED <<uaistart, uaarrived, uataken, uaoutvars, uaproc, uainside, uaflags>>

(* the byte that was read is echoed by a call of uartPutc *)
UaEcho(p) == IF "echo" \in uaflags THEN UaGoto(p, "write", <<UaByte(p, -uain[uaistart])>>)
                                   ELSE UaReturn(p)

BugUaTake(p) == /\ uataken' = uain[uaistart]
                /\ uaistart' = (uaistart + 1) % IBLEN
                /\ UaEcho(p) /\ UNCHANGED uaicount

(* uartRead behind its wait, one byte *)
UaTake(p) == /\ uataken' = uain[uaistart]
             /\ uaicount' = uaicount - 1
             /\ uaistart' = (uaistart + 1) % IBLEN
             /\ UaEcho(p)

UaRead(p) ==
  /\ UaRuns(p, "user")
  /\ "noblock" \in uaflags => uaicount > 0
  /\ uaisema' = Down(uaisema, p)
  /\ IF Blocks(uaisema) THEN /\ UaGoto(p, "read", <<>>)
                             /\ UNCHANGED <<uaistart, uaicount, uataken>>
                        ELSE UaTake(p)
  /\ UNCHANGED <<uain, uarx, uaarrived, uaoutvars, uaflags>>

UaReadResume(p) ==
  /\ UaRuns(p, "read")
  /\ UaTake(p)
  /\ UNCHANGED <<uain, uaisema, uarx, uaarrived, uaoutvars, uaflags>>

(* uartControl sets or clears a flag *)
UaControl(f) == /\ uainside = NoProc
                /\ uaflags' = (uaflags \ f) \cup (f \ uaflags)
                /\ UNCHANGED <<uaoutvars, uainvars, uaproc, uainside>>

UaNext ==
  \/ \E p \in Procs : \/ UaWriteStart(p) \/ UaWriteDirect(p) \/ UaWriteBuffer(p)
                      \/ UaWriteResume(p) \/ UaRead(p) \/ UaReadResume(p)
  \/ UaTransmit \/ UaShift \/ UaArrive \/ UaReceive
  \/ \E f \in {"echo", "noblock"} : UaControl({f})

UaSpec == UaInit /\ [][UaNext]_uavars

-----------------------------------------------------------------------------

UaBytes == UNION {{UaByte(p, n) : n \in -UaInputs .. UaLen} : p \in Procs}

UaTypeOK ==
  /\ \A i \in 0 .. OBLEN - 1 : uaout[i] \in UaBytes \cup {NoByte}
  /\ uaostart \in 0 .. OBLEN - 1 /\ uaocount \in 0 .. OBLEN /\ SemaOK(uaosema)
  /\ uaistart \in 0 .. IBLEN - 1 /\ uaicount \in 0 .. IBLEN /\ SemaOK(uaisema)
  /\ uahold \in UaBytes \cup {NoByte} /\ ualine \subseteq UaBytes

UaBuffered == {uaout[(uaostart + i) % OBLEN] : i \in 0 .. uaocount - 1}

(* No byte is lost or overwritten on its way out: although a released      *)
(* writer stores its byte only when it runs, after other writers and       *)
(* interrupts, and oidle may have changed, every byte that was handed over *)
(* is on the line, in the holding register or in the buffer. The register  *)
(* is only written when it is empty.                                       *)
UaNothingLost ==
  /\ Cardinality(UaBuffered) = uaocount
  /\ uaoidle => uahold = NoByte /\ ~uatxirq
  /\ uagiven = (ualine \cup {uahold} \cup UaBuffered) \ {NoByte}

(* What is read is what came in, in its order and never twice: the bytes   *)
(* in the buffer are later than the last that was read, and a reader that  *)
(* was let through finds one.                                              *)
UaInputInOrder ==
  /\ \A i \in 0 .. uaicount - 1 :
       uain[(uaistart + i) % IBLEN] > (IF i = 0 THEN uataken ELSE uain[(uaistart + i - 1) % IBLEN])
  /\ uaicount = Available(uaisema)
                  + Cardinality({p \in Procs \ Waiters(uaisema) : uaproc[p].at = "read"})
=============================================================================
