-------------------------------- MODULE Tty ---------------------------------
(***************************************************************************)
(* The terminal driver (device/tty). The input interrupt edits the line    *)
(* that is being typed and releases readers when it is complete; the       *)
(* output interrupt sends first the echo, then what processes have         *)
(* written. Positions in the three circular buffers are kept, and of the   *)
(* characters only their kind, and only of the input.                      *)
(***************************************************************************)
EXTENDS Semas

CONSTANTS TY_IBUFLEN, TY_OBUFLEN, TY_EBUFLEN, UART_FIFO_SIZE,
          TyModes,   \* the input modes that programs choose
          TyCounts,  \* lengths of their reads and writes
          TyChars,   \* kinds of characters that are typed
          TyTyped    \* bound: characters typed

ASSUME TtyAssumption ==
  /\ {TY_IBUFLEN, TY_OBUFLEN, TY_EBUFLEN, UART_FIFO_SIZE} \subseteq Nat \ {0}
  /\ TyModes \subseteq {"raw", "cooked", "cbreak"} /\ TyCounts \subseteq Nat /\ TyTyped \in Nat
  /\ TyChars \subseteq {"letter", "newline", "erase", "kill", "eof", "stop", "start"}

VARIABLES tyihead, tyitail, tyibuff, tyisem, tyicursor, tyimode, tyiecho, \* input
          tyohead, tyotail, tyosem, tyoheld, \* output
          tyechoed,  \* characters in the echo buffer
          tyier,     \* the output interrupt is enabled
          typroc,    \* [p -> where it is and how many characters are left]
          tyinside,  \* the process that runs with interrupts disabled
          tystray,   \* a pointer has left its buffer: what follows is undefined
          tytyped    \* characters typed so far

tyin == <<tyihead, tyitail, tyibuff, tyisem, tyicursor, tyimode, tyiecho>>
tyout == <<tyohead, tyotail, tyosem, tyoheld, tyechoed, tyier>>
tyvars == <<tyin, tyout, typroc, tyinside, tystray, tytyped>>

TyUser == [at |-> "user", left |-> 0, line |-> FALSE, first |-> TRUE]

(* ttyinit *)
TyInit ==
  /\ tyihead = 0 /\ tyitail = 0 /\ tyisem = Sema(0) /\ tyicursor = 0
  /\ tyibuff = [i \in 0 .. TY_IBUFLEN - 1 |-> "letter"]
  /\ tyohead = 0 /\ tyotail = 0 /\ tyosem = Sema(TY_OBUFLEN) /\ tyoheld = FALSE
  /\ tyechoed = 0 /\ tyimode = "cooked" /\ tyiecho = TRUE
  /\ tyier = TRUE
  /\ typroc = [p \in Procs |-> TyUser] /\ tyinside = NoProc
  /\ tystray = FALSE /\ tytyped = 0

TyRuns(p, at) == /\ typroc[p].at = at /\ tyinside \in {p, NoProc} /\ ~tystray
                 /\ p \notin Waiters(tyisem) \cup Waiters(tyosem)

(* p goes on at a point; it lets go of the processor when it has to wait *)
TyGoto(p, to) == /\ typroc' = [typroc EXCEPT ![p] = to]
                 /\ tyinside' = IF to.at \in {"get", "put"} THEN p ELSE NoProc

(* ttyread: outside the cooked mode, none asked for means all there are *)
TyRead(p, count) ==
  LET all == count = 0 /\ tyimode # "cooked"
      n == IF all THEN Available(tyisem) ELSE count IN
  /\ TyRuns(p, "user")
  /\ ~(all /\ n = 0)
  /\ TyGoto(p, [TyUser EXCEPT !.at = "get", !.left = n, !.line = (tyimode = "cooked")])
  /\ UNCHANGED <<tyin, tyout, tystray, tytyped>>

(* ttygetc behind its wait, and what ttyread makes of the character: it    *)
(* stops at the end of the line, at an end of file that comes first, and   *)
(* when it has as many as it asked for                                     *)
TyTake(p) ==
  LET ch == tyibuff[tyihead]
      at == typroc[p]
      eof == at.first /\ ch = "eof" /\ tyimode = "cooked"
      stop == at.left <= 1 \/ (at.line /\ (ch = "newline" \/ eof)) IN
  /\ tyihead' = (tyihead + 1) % TY_IBUFLEN
  /\ TyGoto(p, IF stop THEN TyUser
               ELSE [at EXCEPT !.at = "get", !.left = @ - 1, !.first = FALSE])

TyGet(p) ==
  /\ TyRuns(p, "get")
  /\ tyisem' = Down(tyisem, p)
  /\ IF Blocks(tyisem) THEN TyGoto(p, [typroc[p] EXCEPT !.at = "got"]) /\ UNCHANGED tyihead
                       ELSE TyTake(p)
  /\ UNCHANGED <<tyitail, tyibuff, tyicursor, tyimode, tyiecho, tyout, tystray, tytyped>>

TyGot(p) ==
  /\ TyRuns(p, "got")
  /\ TyTake(p)
  /\ UNCHANGED <<tyitail, tyibuff, tyisem, tyicursor, tyimode, tyiecho, tyout, tystray, tytyped>>

(* ttywrite *)
TyWrite(p, count) == /\ TyRuns(p, "user") /\ count > 0
                     /\ TyGoto(p, [TyUser EXCEPT !.at = "put", !.left = count])
                     /\ UNCHANGED <<tyin, tyout, tystray, tytyped>>

(* ttyputc behind its wait, with ttykickout *)
TyStore(p) ==
  /\ tyotail' = (tyotail + 1) % TY_OBUFLEN
  /\ tyier' = TRUE
  /\ TyGoto(p, IF typroc[p].left = 1 THEN TyUser
               ELSE [typroc[p] EXCEPT !.at = "put", !.left = @ - 1])

TyPut(p) ==
  /\ TyRuns(p, "put")
  /\ tyosem' = Down(tyosem, p)
  /\ IF Blocks(tyosem) THEN TyGoto(p, [typroc[p] EXCEPT !.at = "room"]) /\ UNCHANGED <<tyotail, tyier>>
                       ELSE TyStore(p)
  /\ UNCHANGED <<tyin, tyohead, tyoheld, tyechoed, tystray, tytyped>>

TyRoom(p) == /\ TyRuns(p, "room")
             /\ TyStore(p)
             /\ UNCHANGED <<tyin, tyohead, tyosem, tyoheld, tyechoed, tystray, tytyped>>

(* ttycontrol: TC_MODER, TC_MODEC, TC_MODEK; TC_ECHO, TC_NOECHO *)
TyControl ==
  /\ tyinside = NoProc /\ ~tystray
  /\ \/ tyimode' \in TyModes /\ UNCHANGED tyiecho
     \/ tyiecho' = ~tyiecho /\ UNCHANGED tyimode
  /\ UNCHANGED <<tyihead, tyitail, tyibuff, tyisem, tyicursor, tyout, typroc, tyinside, tystray, tytyped>>

(* eputc, n times: nothing keeps the tail of the ring from passing its head *)
TyEcho(n) == /\ tyechoed' = (tyechoed + n) % TY_EBUFLEN
             /\ tyier' = (tyier \/ n > 0)

(* echoch: two characters for the end of a line and for control characters *)
TyEchoch(ch) == TyEcho(IF ~tyiecho THEN 0 ELSE IF ch = "letter" THEN 1 ELSE 2)

TyKeep == UNCHANGED <<tyihead, tyitail, tyibuff, tyisem, tyicursor, tystray>>

(* a character is stored at the tail, which is wrapped or not *)
TyDeposit(ch, wrap) ==
  LET next == tyitail + 1 IN
  /\ tyibuff' = [tyibuff EXCEPT ![tyitail] = ch]
  /\ tyitail' = IF wrap THEN next % TY_IBUFLEN ELSE next
  /\ tystray' = (~wrap /\ next = TY_IBUFLEN)

(* the rubbed-out character and its echo *)
TyErase == IF tyicursor = 0 THEN TyEcho(0) /\ TyKeep
           ELSE /\ tyicursor' = tyicursor - 1
                /\ tyitail' = (tyitail - 1 + TY_IBUFLEN) % TY_IBUFLEN
                /\ TyEcho(IF tyiecho THEN 3 ELSE 0)
                /\ UNCHANGED <<tyihead, tyibuff, tyisem, tystray>>

(* the line killed; below the buffer, the head is moved instead *)
TyKill == /\ tyitail' = tyitail - tyicursor
          /\ tyihead' = IF tyitail' < 0 THEN tyihead + TY_IBUFLEN ELSE tyihead
          /\ tystray' = (tyitail' < 0)
          /\ tyicursor' = 0 /\ TyEcho(2)
          /\ UNCHANGED <<tyibuff, tyisem>>

TyNewline == /\ TyEchoch("newline")
             /\ TyDeposit("newline", TRUE)
             /\ tyisem' = UpN(tyisem, tyicursor + 1)
             /\ tyicursor' = 0 /\ UNCHANGED tyihead

(* cooked mode *)
TyCooked(ch) ==
  CASE ch = "kill" -> TyKill
    [] ch = "erase" -> TyErase
    [] ch = "newline" -> TyNewline
    [] Available(tyisem) + tyicursor >= TY_IBUFLEN - 1 /\ ch \in {"letter", "eof"} ->
         TyEcho(1) /\ TyKeep
    [] ch = "eof" /\ Available(tyisem) + tyicursor < TY_IBUFLEN - 1 ->
         /\ TyEchoch(ch)
         /\ IF tyicursor # 0 THEN TyKeep
            ELSE /\ TyDeposit(ch, FALSE) /\ tyisem' = UpN(tyisem, 1)
                 /\ UNCHANGED <<tyihead, tyicursor>>
    [] OTHER -> /\ TyEchoch(ch) /\ TyDeposit(ch, TRUE)
                /\ tyicursor' = tyicursor + 1 /\ UNCHANGED <<tyihead, tyisem>>

(* cbreak mode: nobody is signalled *)
TyCbreak(ch) == IF Available(tyisem) >= TY_IBUFLEN THEN TyEcho(1) /\ TyKeep
                ELSE TyDeposit(ch, TRUE) /\ TyEchoch(ch) /\ UNCHANGED <<tyihead, tyisem, tyicursor>>

(* raw mode: the pointer that is wrapped is another one *)
TyRaw(ch) == /\ TyEcho(0)
             /\ IF Available(tyisem) >= TY_IBUFLEN THEN TyKeep
                ELSE /\ TyDeposit(ch, FALSE) /\ tyisem' = UpN(tyisem, 1)
                     /\ UNCHANGED <<tyihead, tyicursor>>

(* ttyhandler on a received character, ttyhandle_in *)
TyReceive(ch) ==
  /\ tyinside = NoProc /\ ~tystray /\ tytyped < TyTyped
  /\ tytyped' = tytyped + 1
  /\ IF tyimode = "raw" THEN TyRaw(ch) /\ UNCHANGED tyoheld
     ELSE /\ tyoheld' = (ch = "stop")
          /\ IF ch \in {"stop", "start"}
             THEN TyKeep /\ tyier' = (tyier \/ ch = "start") /\ UNCHANGED tyechoed
             ELSE IF tyimode = "cbreak" THEN TyCbreak(ch) ELSE TyCooked(ch)
  /\ UNCHANGED <<tyimode, tyiecho, tyohead, tyotail, tyosem, typroc, tyinside>>

TySmaller(a, b) == IF a < b THEN a ELSE b

(* ttyhandler when the transmitter has space, ttyhandle_out: how many of   *)
(* the echo and then of the output go to its FIFO                          *)
TyTransmit(space) ==
  LET echo == TySmaller(space, tyechoed)
      ochars == TySmaller(space - echo, TY_OBUFLEN - tyosem.n) IN
  /\ tyier /\ tyinside = NoProc /\ ~tystray /\ ~tyoheld
  /\ tyechoed' = tyechoed - echo
  /\ tyohead' = (tyohead + ochars) % TY_OBUFLEN
  /\ tyosem' = UpN(tyosem, ochars)
  /\ tyier' = ~(tyechoed' = 0 /\ tyosem'.n >= TY_OBUFLEN)
  /\ UNCHANGED <<tyin, tyotail, tyoheld, typroc, tyinside, tystray, tytyped>>

TyNext ==
  \/ \E p \in Procs, n \in TyCounts : TyRead(p, n) \/ TyWrite(p, n)
  \/ \E p \in Procs : TyGet(p) \/ TyGot(p) \/ TyPut(p) \/ TyRoom(p)
  \/ \E ch \in TyChars : TyReceive(ch)
  \/ TyControl
  \/ \E space \in 1 .. UART_FIFO_SIZE : TyTransmit(space)

TySpec == TyInit /\ [][TyNext]_tyvars

-----------------------------------------------------------------------------

TyTypeOK ==
  /\ SemaOK(tyisem) /\ SemaOK(tyosem)
  /\ tyicursor \in 0 .. TY_IBUFLEN - 1 /\ tyechoed \in 0 .. TY_EBUFLEN - 1
  /\ ~tystray => tyihead \in 0 .. TY_IBUFLEN - 1 /\ tyitail \in 0 .. TY_IBUFLEN - 1
  /\ tyohead \in 0 .. TY_OBUFLEN - 1 /\ tyotail \in 0 .. TY_OBUFLEN - 1

(* processes that were let through a semaphore and have not moved its pointer *)
TyReleased(s, at) == Cardinality({p \in Procs \ Waiters(s) : typroc[p].at = at})

(* Readers see completed lines only, and editing stays within the line     *)
(* that is being typed: between head and tail lie the characters that the  *)
(* semaphore promises, those a released reader has still to fetch, and the *)
(* cursor's worth of the unfinished line. On the output side the ring is   *)
(* as full as its semaphore says, counting released writers. This is so as *)
(* long as no pointer has left its buffer and cbreak mode is not used.     *)
TyRingsAgree ==
  /\ ~tystray => tyitail =
       (tyihead + Available(tyisem) + TyReleased(tyisem, "got") + tyicursor) % TY_IBUFLEN
  /\ tyotail =
       (tyohead + TY_OBUFLEN - Available(tyosem) - TyReleased(tyosem, "room")) % TY_OBUFLEN
=============================================================================
