----------------------------- MODULE QuarkEther -----------------------------
(***************************************************************************)
(* The Ethernet driver of the Galileo board (device/x86-galileo/eth). Each *)
(* ring is an array that the DMA engine goes around by itself: it stops at *)
(* a descriptor it does not own, and looks again when it is told to        *)
(* (transmit) or when the next packet arrives (receive). One handler       *)
(* serves both rings. Writers have interrupts disabled (ip.c, arp.c), the  *)
(* only reader, netin, has not.                                            *)
(*                                                                         *)
(* A writer waits when every descriptor is in use. The comments of the     *)
(* handler (ethhandler.c:49) and of ethwrite (:24) say that it goes on     *)
(* when one is sent; but head and tail of a full ring are equal, the       *)
(* handler's loop ends before it begins, and no release ever comes. So     *)
(* there is no action for a released writer.                               *)
(***************************************************************************)
EXTENDS Semas, SequencesExt

CONSTANTS QeTxRing,     \* ETH_QUARK_TX_RING_SIZE
          QeRxRing,     \* ETH_QUARK_RX_RING_SIZE
          ETH_NUM_MCAST,
          QeGroups,     \* multicast addresses
          QePackets     \* bound: packets written, and packets that arrive

ASSUME QuarkEtherAssumption ==
  QeTxRing \in Nat \ {0} /\ QeRxRing \in Nat \ {0} /\ ETH_NUM_MCAST \in Nat /\ QePackets \in Nat

VARIABLES qetx,     \* txRing: the packet in each descriptor and whether the engine owns it
          qetxhead, qetxtail, qeosem,  \* txHead, txTail, osem
          qetxat,   \* the descriptor the transmit engine is at
          qetxon,   \* it is not suspended
          qewritten, qesent,  \* packets so far; the packets on the wire
          qerx, qerxhead, qerxtail, qeisem, qerxat,  \* the same of the receive ring
          qereader, \* where netin is in ethread
          qearrived, qetaken,  \* packets stored; packets read or thrown away
          qemca,    \* ed_mca up to ed_mcc
          qesr,     \* causes of interrupts in the status register
          qecpu,    \* what the code that runs with interrupts disabled has yet to do
          qelapped  \* descriptors were counted twice

qetxvars == <<qetx, qetxhead, qetxtail, qeosem, qetxat, qetxon, qewritten, qesent>>
qerxvars == <<qerx, qerxhead, qerxtail, qeisem, qerxat, qereader, qearrived, qetaken, qemca>>
qevars == <<qetxvars, qerxvars, qesr, qecpu, qelapped>>

Netin == CHOOSE p \in Procs : TRUE
QeUs == "us"  \* our address and the broadcast address

QeInit ==
  /\ qetx = [i \in 0 .. QeTxRing - 1 |-> [packet |-> 0, own |-> FALSE]]
  /\ qetxhead = 0 /\ qetxtail = 0 /\ qeosem = Sema(QeTxRing)
  /\ qetxat = 0 /\ qetxon = FALSE /\ qewritten = 0 /\ qesent = <<>>
  /\ qerx = [i \in 0 .. QeRxRing - 1 |-> [packet |-> 0, to |-> QeUs, own |-> TRUE]]
  /\ qerxhead = 0 /\ qerxtail = 0 /\ qeisem = Sema(0) /\ qerxat = 0
  /\ qereader = "out" /\ qearrived = 0 /\ qetaken = {} /\ qemca = <<>>
  /\ qesr = {} /\ qecpu = "free" /\ qelapped = FALSE

-----------------------------------------------------------------------------
(* Sending *)

(* ethwrite behind its wait, to the descriptor it hands to the engine *)
QeFill ==
  /\ qewritten' = qewritten + 1
  /\ qetx' = [qetx EXCEPT ![qetxtail] = [packet |-> qewritten + 1, own |-> TRUE]]
  /\ qetxtail' = (qetxtail + 1) % QeTxRing
  /\ qecpu' = "poke"

QeWrite(p) ==
  /\ qecpu = "free" /\ p \notin Waiters(qeosem) /\ qewritten < QePackets
  /\ qeosem' = Down(qeosem, p)
  /\ IF Blocks(qeosem) THEN UNCHANGED <<qetx, qetxtail, qewritten, qecpu>> ELSE QeFill
  /\ UNCHANGED <<qetxhead, qetxat, qetxon, qesent, qerxvars, qesr, qelapped>>

(* ethwrite wakes the engine: tpdr *)
QePoke ==
  /\ qecpu = "poke" /\ qecpu' = "free"
  /\ qetxon' = TRUE
  /\ UNCHANGED <<qetx, qetxhead, qetxtail, qeosem, qetxat, qewritten, qesent,
                 qerxvars, qesr, qelapped>>

(* hardware: the engine sends the packet of its descriptor or goes to rest *)
QeSend ==
  /\ qetxon
  /\ IF qetx[qetxat].own
     THEN /\ qesent' = Append(qesent, qetx[qetxat].packet)
          /\ qetx' = [qetx EXCEPT ![qetxat].own = FALSE]
          /\ qetxat' = (qetxat + 1) % QeTxRing
          /\ qesr' = qesr \cup {"TI"}
          /\ UNCHANGED qetxon
     ELSE qetxon' = FALSE /\ UNCHANGED <<qetx, qetxat, qesent, qesr>>
  /\ UNCHANGED <<qetxhead, qetxtail, qeosem, qewritten, qerxvars, qecpu, qelapped>>

-----------------------------------------------------------------------------
(* The interrupt handler *)

(* descriptors from the head to the tail that the engine is done with; none *)
(* if the ring is full, because the head is the tail then                   *)
QeSentOff ==
  LET used == (qetxtail - qetxhead + QeTxRing) % QeTxRing
      off(k) == \A j \in 0 .. k - 1 : ~qetx[(qetxhead + j) % QeTxRing].own
  IN CHOOSE k \in 0 .. used : off(k) /\ (k = used \/ ~off(k + 1))

(* ethhandler up to the test for received packets *)
QeHandler ==
  /\ qecpu = "free" /\ qesr # {} /\ qesr' = {}
  /\ IF "TI" \in qesr
     THEN /\ qetxhead' = (qetxhead + QeSentOff) % QeTxRing
          /\ qeosem' = UpN(qeosem, QeSentOff)
     ELSE UNCHANGED <<qetxhead, qeosem>>
  /\ qecpu' = IF "RI" \in qesr THEN "receive" ELSE "free"
  /\ UNCHANGED <<qetx, qetxtail, qetxat, qetxon, qewritten, qesent, qerxvars, qelapped>>

QeFull == {i \in DOMAIN qerx : ~qerx[i].own}

(* packets that netin has been told of and not given back *)
QeTold == Available(qeisem) + (IF qereader \in {"through", "copied"} THEN 1 ELSE 0)

(* the count of the handler's second loop: it may go around *)
QeReceived ==
  LET full(k) == \A j \in 0 .. k - 1 : (qerxtail + j) % QeRxRing \in QeFull
      most == QeRxRing + 1
  IN CHOOSE k \in 0 .. most : full(k) /\ (k = most \/ ~full(k + 1))

QeHandlerReceives ==
  /\ qecpu = "receive" /\ qecpu' = "free"
  /\ qerxtail' = (qerxtail + QeReceived) % QeRxRing
  /\ qeisem' = UpN(qeisem, QeReceived)
  /\ qereader' = IF Waiters(qeisem) # Waiters(qeisem') THEN "through" ELSE qereader
  /\ qelapped' = (QeTold + QeReceived > Cardinality(QeFull))
  /\ UNCHANGED <<qetxvars, qerx, qerxhead, qerxat, qearrived, qetaken, qemca, qesr>>

-----------------------------------------------------------------------------
(* Receiving *)

(* hardware: a packet for somebody arrives; without a descriptor it is lost *)
QeArrive(to) ==
  /\ qerx[qerxat].own /\ qearrived < QePackets
  /\ qearrived' = qearrived + 1
  /\ qerx' = [qerx EXCEPT ![qerxat] = [packet |-> qearrived', to |-> to, own |-> FALSE]]
  /\ qerxat' = (qerxat + 1) % QeRxRing
  /\ qesr' = qesr \cup {"RI"}
  /\ UNCHANGED <<qetxvars, qerxhead, qerxtail, qeisem, qereader, qetaken, qemca,
                 qecpu, qelapped>>

(* the wait of ethread's loop *)
QeAwait == /\ qeisem' = Down(qeisem, Netin)
           /\ qereader' = IF Blocks(qeisem) THEN "waiting" ELSE "through"

QeRead == /\ qecpu = "free" /\ qereader = "out"
          /\ QeAwait
          /\ UNCHANGED <<qetxvars, qerx, qerxhead, qerxtail, qerxat, qearrived, qetaken, qemca,
                         qesr, qecpu, qelapped>>

(* the packet is copied if it is for us *)
QeCopy == /\ qecpu = "free" /\ qereader = "through" /\ qereader' = "copied"
          /\ qetaken' = qetaken \cup {qerx[qerxhead].packet}
          /\ UNCHANGED <<qetxvars, qerx, qerxhead, qerxtail, qeisem, qerxat, qearrived, qemca,
                         qesr, qecpu, qelapped>>

(* the descriptor goes back to the engine; for somebody else's packet the  *)
(* loop begins again                                                       *)
QeGiveBack ==
  LET to == qerx[qerxhead].to IN
  /\ qecpu = "free" /\ qereader = "copied"
  /\ qerx' = [qerx EXCEPT ![qerxhead] = [packet |-> 0, to |-> QeUs, own |-> TRUE]]
  /\ qerxhead' = (qerxhead + 1) % QeRxRing
  /\ IF to \in {QeUs} \cup ToSet(qemca) THEN qereader' = "out" /\ UNCHANGED qeisem ELSE QeAwait
  /\ UNCHANGED <<qetxvars, qerxtail, qerxat, qearrived, qetaken, qemca, qesr, qecpu, qelapped>>

(* ethmcast_add and ethmcast_remove *)
QeMulticast(g) ==
  /\ qecpu = "free"
  /\ \/ Len(qemca) < ETH_NUM_MCAST /\ qemca' = Append(qemca, g)
     \/ g \in ToSet(qemca) /\ qemca' = RemoveAt(qemca, SelectInSeq(qemca, LAMBDA a : a = g))
  /\ UNCHANGED <<qetxvars, qerx, qerxhead, qerxtail, qeisem, qerxat, qereader, qearrived, qetaken,
                 qesr, qecpu, qelapped>>

(* the model ends where netin may be told of a packet twice *)
QeStep ==
  /\ ~qelapped
  /\ \/ \E p \in Procs : QeWrite(p)
     \/ QePoke \/ QeSend \/ QeHandler \/ QeHandlerReceives
     \/ \E to \in {QeUs} \cup QeGroups : QeArrive(to)
     \/ QeRead \/ QeCopy \/ QeGiveBack
     \/ \E g \in QeGroups : QeMulticast(g)

QeSpec == QeInit /\ [][QeStep]_qevars

-----------------------------------------------------------------------------

QeTypeOK ==
  /\ qetxhead \in DOMAIN qetx /\ qetxtail \in DOMAIN qetx /\ qetxat \in DOMAIN qetx
  /\ qerxhead \in DOMAIN qerx /\ qerxtail \in DOMAIN qerx /\ qerxat \in DOMAIN qerx
  /\ SemaOK(qeosem) /\ SemaOK(qeisem)
  /\ (qereader = "waiting") = (Waiters(qeisem) # {})
  /\ qecpu \in {"free", "poke", "receive"}

(* Every packet is sent once, in order, or waits in a descriptor while the *)
(* engine works or is about to be told: no place is given away before its  *)
(* packet is out.                                                          *)
QeAllSent ==
  LET waiting == {i \in DOMAIN qetx : qetx[i].own} IN
  /\ qesent = [k \in 1 .. Len(qesent) |-> k]
  /\ Len(qesent) + 1 .. qewritten = {qetx[i].packet : i \in waiting}
  /\ waiting # {} => qetxon \/ qecpu = "poke"

(* Every packet is taken once or in a descriptor. Netin has been told of   *)
(* those in descriptors, or an interrupt or the handler's second half will *)
(* tell it, and it never takes a descriptor that the engine owns. This is  *)
(* so until the handler goes once around a full ring.                      *)
QeAllTold ==
  ~qelapped =>
    /\ qetaken \cup {qerx[i].packet : i \in QeFull} = 1 .. qearrived
    /\ qereader \in {"through", "copied"} => qerxhead \in QeFull
    /\ Cardinality(QeFull) > QeTold => "RI" \in qesr \/ qecpu = "receive"
=============================================================================
