------------------------------ MODULE Drivers -------------------------------
(***************************************************************************)
(* The drivers: uart, tty and loopback device, and the two of Ethernet.    *)
(* They share no state, but promise the same: a character that was         *)
(* accepted is delivered once, in its order, and so are packets.           *)
(***************************************************************************)
EXTENDS Uart, Tty, Loopback, Ether, QuarkEther

(* uartWrite and uartRead deliver every byte once and in its order; the    *)
(* pointers of the terminal's rings and the promises of its semaphores     *)
(* agree (ttyread, ttywrite and both handlers); the loopback device is a   *)
(* queue until a reader has had to wait.                                   *)
CharactersKept == UaNothingLost /\ UaInputInOrder /\ TyRingsAgree /\ LbIsQueue

(* ethwrite, ethread and ethhandler of both boards: every packet is sent   *)
(* or read once, and the engine never stops while it has work; only where  *)
(* the ARM handler restarts an engine that has meanwhile finished is a     *)
(* packet sent twice or overwritten.                                       *)
PacketsKept == EoNoneStranded /\ EiNoneLost /\ QeAllSent /\ QeAllTold
=============================================================================
