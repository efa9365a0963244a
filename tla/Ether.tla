------------------------------- MODULE Ether --------------------------------
(***************************************************************************)
(* The two descriptor rings of the Ethernet driver (device/eth) and the    *)
(* DMA engine that works on them. ethwrite fills descriptors and links     *)
(* them to the list of the engine; the engine reads the link of a          *)
(* descriptor some time before it is done with it, and so may stop         *)
(* although another one was linked meanwhile; the interrupt handler takes  *)
(* back what was sent and restarts the engine. In the other direction the  *)
(* engine fills the descriptors on its list; the handler counts them in    *)
(* ring order; ethread empties them in ring order and links them to the    *)
(* end of the engine's list again.                                         *)
(*                                                                         *)
(* The engine runs while the processor does: between two reads of what it  *)
(* writes there is a step. So the handler may restart it with a descriptor *)
(* that it has finished since the handler found it owned. The source does  *)
(* not say what the engine does with a descriptor it does not own; here it *)
(* uses it as it would its own, which may repeat a packet or overwrite one *)
(* (an engine that stops there takes no more steps, which is a behaviour   *)
(* of the model too).                                                      *)
(***************************************************************************)
EXTENDS Semas

(* the descriptors that the links lead to from the first one *)
Linked(desc, first) ==
  {i \in DOMAIN desc :
     \A S \in SUBSET DOMAIN desc :
        first \in S /\ (\A j \in S : desc[j].next \in DOMAIN desc => desc[j].next \in S) => i \in S}

(* where the search for the end of the list stops *)
EndOf(desc, first) == CHOOSE i \in Linked(desc, first) : desc[i].next \notin DOMAIN desc

(* descriptor i with a packet is the engine's: alone, or behind the last  *)
(* of its list                                                            *)
Handed(null, desc, first, i, packet) ==
  LET given == [desc EXCEPT ![i] = [packet |-> packet, own |-> TRUE, next |-> null]]
  IN IF first = null THEN given ELSE [given EXCEPT ![EndOf(desc, first)].next = i]

(* the packets of a list that are not the engine's any more *)
Done(desc, first) == {desc[i].packet : i \in {j \in Linked(desc, first) : ~desc[j].own}}

-----------------------------------------------------------------------------
(* Sending *)

CONSTANTS TxRing,    \* ETH_AM335X_TX_RING_SIZE
          EoPackets  \* bound: packets written

ASSUME EtherOutAssumption == TxRing \in Nat \ {0} /\ EoPackets \in Nat

VARIABLES eodesc,    \* txRing: [packet, own, next] of each descriptor
          eohead, eotail, eosem,  \* txHead, txTail, osem
          eohdp,     \* tx_hdp: the descriptor the engine works on
          eolink,    \* the link it has read there, or Unread
          eoirq,     \* an interrupt is pending
          eoready,   \* processes let through in ethwrite that have not linked a descriptor
          eowriter,  \* the one of them that found the engine at work, or NoProc
          eocheck,   \* the owned descriptor the handler stopped at, or None
          eowritten, eosent,  \* packets so far; the packets on the wire
          eoagain,   \* packets the engine had sent when it was restarted with them
          eoended    \* what the driver does next is not modelled

eovars == <<eodesc, eohead, eotail, eosem, eohdp, eolink, eoirq, eoready, eowriter, eocheck,
            eowritten, eosent, eoagain, eoended>>

EoCells == 0 .. TxRing - 1
None == TxRing  \* no descriptor: the null pointer
Unread == TxRing + 1
EoNext(i) == (i + 1) % TxRing

(* ethinit *)
EoInit ==
  /\ eodesc = [i \in EoCells |-> [packet |-> 0, own |-> FALSE, next |-> None]]
  /\ eohead = 0 /\ eotail = 0 /\ eosem = Sema(TxRing)
  /\ eohdp = None /\ eolink = Unread /\ eoirq = FALSE
  /\ eoready = {} /\ eowriter = NoProc /\ eocheck = None
  /\ eowritten = 0 /\ eosent = <<>> /\ eoagain = {} /\ eoended = FALSE

(* ethwrite and the handler run with interrupts disabled *)
EoFree == eowriter = NoProc /\ eocheck = None

(* ethwrite hands its descriptor to the engine; the list is a circle when  *)
(* the engine is at that descriptor again, or about to come to it          *)
EoFill ==
  /\ eowritten' = eowritten + 1
  /\ eotail' = EoNext(eotail)
  /\ eodesc' = Handed(None, eodesc, eohdp, eotail, eowritten + 1)
  /\ eohdp' = IF eohdp = None THEN eotail ELSE eohdp
  /\ eoended' = (eohdp # None /\ eotail \in Linked(eodesc, eohdp))

(* ethwrite behind its wait, to its first look at the engine *)
EoLook(p) ==
  IF eohdp = None
  THEN EoFill /\ eoready' = eoready \ {p} /\ UNCHANGED eowriter
  ELSE /\ eowriter' = p /\ eoready' = eoready \cup {p}
       /\ UNCHANGED <<eodesc, eotail, eohdp, eowritten, eoended>>

EoWrite(p) ==
  /\ EoFree /\ p \notin Waiters(eosem) \cup eoready /\ eowritten < EoPackets
  /\ eosem' = Down(eosem, p)
  /\ IF Blocks(eosem) THEN UNCHANGED <<eodesc, eotail, eohdp, eowritten, eoready, eowriter, eoended>>
     ELSE EoLook(p)
  /\ UNCHANGED <<eohead, eolink, eoirq, eocheck, eosent, eoagain>>

EoResume(p) == /\ EoFree /\ p \in eoready
               /\ EoLook(p)
               /\ UNCHANGED <<eohead, eosem, eolink, eoirq, eocheck, eosent, eoagain>>

(* ethwrite found the engine at work and reads where it is: when it has    *)
(* stopped since, the search for the end of its list begins at address 0   *)
EoLink ==
  /\ eowriter # NoProc /\ eowriter' = NoProc
  /\ IF eohdp = None
     THEN eoended' = TRUE /\ UNCHANGED <<eodesc, eotail, eohdp, eowritten, eoready>>
     ELSE EoFill /\ eoready' = eoready \ {eowriter}
  /\ UNCHANGED <<eohead, eosem, eolink, eoirq, eocheck, eosent, eoagain>>

(* descriptors from the head on that the engine has given back; while a    *)
(* process waits the count of free ones allows for more than there are     *)
EoDone == LET room == TxRing - eosem.n
              back(k) == \A j \in 0 .. k - 1 : ~eodesc[(eohead + j) % TxRing].own
          IN CHOOSE k \in 0 .. room : back(k) /\ (k = room \/ ~back(k + 1))

(* ethhandler on a transmit interrupt, up to the descriptor still owned *)
EoHandler ==
  LET next == (eohead + EoDone) % TxRing IN
  /\ EoFree /\ eoirq /\ eoirq' = FALSE
  /\ eohead' = next
  /\ eosem' = UpN(eosem, EoDone)
  /\ eoready' = eoready \cup (Waiters(eosem) \ Waiters(eosem'))
  /\ eoended' = (EoDone > TxRing - Available(eosem) - Cardinality(eoready))
  /\ eocheck' = IF eosem'.n < TxRing THEN next ELSE None
  /\ UNCHANGED <<eodesc, eotail, eohdp, eolink, eowriter, eowritten, eosent, eoagain>>

BugEoRestart ==
  /\ eocheck # None /\ eocheck' = None
  /\ UNCHANGED <<eodesc, eohead, eotail, eosem, eohdp, eolink, eoirq, eoready, eowriter,
                 eowritten, eosent, eoagain, eoended>>

(* it restarts an idle engine with that descriptor *)
EoRestart ==
  /\ eocheck # None /\ eocheck' = None
  /\ IF eohdp = None
     THEN eohdp' = eocheck /\ eoagain' = eoagain \cup Done(eodesc, eocheck)
     ELSE UNCHANGED <<eohdp, eoagain>>
  /\ UNCHANGED <<eodesc, eohead, eotail, eosem, eolink, eoirq, eoready, eowriter,
                 eowritten, eosent, eoended>>

(* hardware: the engine reads the link *)
EoFetch == /\ eohdp # None /\ eolink = Unread
           /\ eolink' = eodesc[eohdp].next
           /\ UNCHANGED <<eodesc, eohead, eotail, eosem, eohdp, eoirq, eoready, eowriter, eocheck,
                          eowritten, eosent, eoagain, eoended>>

(* hardware: the packet is out *)
EoSend ==
  /\ eohdp # None /\ eolink # Unread
  /\ eosent' = Append(eosent, eodesc[eohdp].packet)
  /\ eodesc' = [eodesc EXCEPT ![eohdp].own = FALSE]
  /\ eohdp' = eolink /\ eolink' = Unread
  /\ eoirq' = TRUE
  /\ UNCHANGED <<eohead, eotail, eosem, eoready, eowriter, eocheck, eowritten, eoagain, eoended>>

(* the model ends where a descriptor is given to a process twice, where    *)
(* ethwrite follows the null pointer, and where the list is a circle       *)
EoStep == ~eoended /\ (\/ \E p \in Procs : EoWrite(p) \/ EoResume(p)
                       \/ EoLink \/ EoHandler \/ EoRestart \/ EoFetch \/ EoSend)

EoSpec == EoInit /\ [][EoStep]_eovars

-----------------------------------------------------------------------------

EoTypeOK == /\ eohead \in EoCells /\ eotail \in EoCells /\ SemaOK(eosem)
            /\ eohdp \in EoCells \cup {None} /\ eolink \in EoCells \cup {None, Unread}
            /\ eoready \subseteq Procs /\ eoready \cap Waiters(eosem) = {}
            /\ eowriter \in eoready \cup {NoProc} /\ eocheck \in {eohead, None}

(* However the engine's reading of a link races with the linking of the    *)
(* next descriptor, every packet is sent or waits in a descriptor, and if  *)
(* one waits the engine is at work or is about to be restarted. A packet   *)
(* is sent twice only when the handler has restarted the engine with it    *)
(* after the engine was done with it, and never a third time.              *)
EoNoneStranded ==
  ~eoended =>
     LET waiting == {i \in EoCells : eodesc[i].own}
         times(packet) == Cardinality({k \in DOMAIN eosent : eosent[k] = packet}) IN
     /\ 1 .. eowritten = {eosent[k] : k \in DOMAIN eosent} \cup {eodesc[i].packet : i \in waiting}
     /\ \A packet \in 1 .. eowritten : times(packet) <= (IF packet \in eoagain THEN 2 ELSE 1)
     /\ waiting # {} => eohdp # None \/ eoirq \/ eocheck # None

-----------------------------------------------------------------------------
(* Receiving *)

CONSTANTS RxRing,    \* ETH_AM335X_RX_RING_SIZE
          EiPackets  \* bound: packets that arrive

ASSUME EtherInAssumption == RxRing \in Nat \ {0} /\ EiPackets \in Nat

VARIABLES eidesc,    \* rxRing: [packet, own, next] of each descriptor
          eihead, eitail, eisem,  \* rxHead, rxTail, isem
          eihdp,     \* rx_hdp: the descriptor the engine fills next
          eilink,    \* the link it has read there, or NotRead
          eiirq,     \* an interrupt is pending
          eireader,  \* where netin is in ethread
          eiprev,    \* where it found the engine
          eicheck,   \* the owned descriptor the handler stopped at, or NoDesc
          eiarrived, eiread,  \* packets stored so far; those that were read
          eilost,    \* packets stored and overwritten, or given back unread
          eiagain,   \* packets in full descriptors that were handed to the engine
          eiended    \* what the driver does next is not modelled

eivars == <<eidesc, eihead, eitail, eisem, eihdp, eilink, eiirq, eireader, eiprev, eicheck,
            eiarrived, eiread, eilost, eiagain, eiended>>

EiCells == 0 .. RxRing - 1
NoDesc == RxRing  \* the null pointer
NotRead == RxRing + 1
EiNext(i) == (i + 1) % RxRing
EiReader == CHOOSE p \in Procs : TRUE  \* netin, the only caller of ethread

(* ethinit: the engine has the whole ring *)
EiInit ==
  /\ eidesc = [i \in EiCells |-> [packet |-> 0, own |-> TRUE, next |-> i + 1]]
  /\ eihead = 0 /\ eitail = 0 /\ eisem = Sema(0)
  /\ eihdp = 0 /\ eilink = NotRead /\ eiirq = FALSE
  /\ eireader = "out" /\ eiprev = NoDesc /\ eicheck = NoDesc
  /\ eiarrived = 0 /\ eiread = {} /\ eilost = {} /\ eiagain = {} /\ eiended = FALSE

(* a step of netin, which runs with interrupts enabled *)
EiGoes(from, to) == eicheck = NoDesc /\ eireader = from /\ eireader' = to

EiReadCall ==
  /\ EiGoes("out", IF Blocks(eisem) THEN "waiting" ELSE "through")
  /\ eisem' = Down(eisem, EiReader)
  /\ UNCHANGED <<eidesc, eihead, eitail, eihdp, eilink, eiirq, eiprev, eicheck,
                 eiarrived, eiread, eilost, eiagain, eiended>>

EiCopy ==
  /\ EiGoes("through", "copied")
  /\ eiread' = eiread \cup {eidesc[eihead].packet}
  /\ UNCHANGED <<eidesc, eihead, eitail, eisem, eihdp, eilink, eiirq, eiprev, eicheck,
                 eiarrived, eilost, eiagain, eiended>>

(* the descriptor is the engine's again *)
EiGive ==
  /\ EiGoes("copied", "given")
  /\ eidesc' = [eidesc EXCEPT ![eihead].packet = 0, ![eihead].own = TRUE]
  /\ eilost' = eilost \cup ({eidesc[eihead].packet} \ eiread)
  /\ UNCHANGED <<eihead, eitail, eisem, eihdp, eilink, eiirq, eiprev, eicheck,
                 eiarrived, eiread, eiagain, eiended>>

(* its link is cleared, and ethread looks where the engine is *)
EiFind ==
  /\ EiGoes("given", "found")
  /\ eidesc' = [eidesc EXCEPT ![eihead].next = NoDesc]
  /\ eiprev' = eihdp
  /\ UNCHANGED <<eihead, eitail, eisem, eihdp, eilink, eiirq, eicheck,
                 eiarrived, eiread, eilost, eiagain, eiended>>

(* and hands it to the engine: alone if it was idle, else at the end of    *)
(* the list that began where it was. The handler may have restarted the    *)
(* engine with the same descriptor meanwhile, and a packet may be in it.   *)
EiLink ==
  /\ EiGoes("found", "out")
  /\ eihead' = EiNext(eihead)
  /\ IF eiprev = NoDesc
     THEN eihdp' = eihead /\ eiended' = (eihdp # NoDesc) /\ UNCHANGED eidesc
     ELSE /\ eidesc' = [eidesc EXCEPT ![EndOf(eidesc, eiprev)].next = eihead]
          /\ eiended' = (eihead \in Linked(eidesc, eiprev))
          /\ UNCHANGED eihdp
  /\ eiagain' = eiagain \cup Done(eidesc, eihead)
  /\ eiprev' = NoDesc
  /\ UNCHANGED <<eitail, eisem, eilink, eiirq, eicheck, eiarrived, eiread, eilost>>

(* filled descriptors from the tail on, as far as the count lets it go *)
EiFilled == LET room == RxRing - eisem.n
                full(k) == \A j \in 0 .. k - 1 : ~eidesc[(eitail + j) % RxRing].own
            IN CHOOSE k \in 0 .. room : full(k) /\ (k = room \/ ~full(k + 1))

(* full descriptors that netin was told of *)
EiTold == Available(eisem) + (IF eireader \in {"through", "copied"} THEN 1 ELSE 0)

(* ethhandler on a receive interrupt, up to the descriptor still owned *)
EiHandler ==
  LET next == (eitail + EiFilled) % RxRing IN
  /\ eicheck = NoDesc /\ eiirq /\ eiirq' = FALSE
  /\ eitail' = next
  /\ eisem' = UpN(eisem, EiFilled)
  /\ eireader' = IF Waiters(eisem) # Waiters(eisem') THEN "through" ELSE eireader
  /\ eiended' = (EiFilled > RxRing - EiTold)
  /\ eicheck' = IF eisem'.n < RxRing THEN next ELSE NoDesc
  /\ UNCHANGED <<eidesc, eihead, eihdp, eilink, eiprev, eiarrived, eiread, eilost, eiagain>>

(* it restarts an idle engine with that descriptor *)
EiRestart ==
  /\ eicheck # NoDesc /\ eicheck' = NoDesc
  /\ IF eihdp = NoDesc
     THEN eihdp' = eicheck /\ eiagain' = eiagain \cup Done(eidesc, eicheck)
     ELSE UNCHANGED <<eihdp, eiagain>>
  /\ UNCHANGED <<eidesc, eihead, eitail, eisem, eilink, eiirq, eireader, eiprev,
                 eiarrived, eiread, eilost, eiended>>

(* hardware: the engine reads the link *)
EiFetch == /\ eihdp # NoDesc /\ eilink = NotRead
           /\ eilink' = eidesc[eihdp].next
           /\ UNCHANGED <<eidesc, eihead, eitail, eisem, eihdp, eiirq, eireader, eiprev, eicheck,
                          eiarrived, eiread, eilost, eiagain, eiended>>

(* hardware: a packet has arrived and is in the descriptor *)
EiArrive ==
  /\ eihdp # NoDesc /\ eilink # NotRead /\ eiarrived < EiPackets
  /\ eiarrived' = eiarrived + 1
  /\ eidesc' = [eidesc EXCEPT ![eihdp].packet = eiarrived', ![eihdp].own = FALSE]
  /\ eilost' = IF eidesc[eihdp].own THEN eilost ELSE eilost \cup ({eidesc[eihdp].packet} \ eiread)
  /\ eihdp' = eilink /\ eilink' = NotRead
  /\ eiirq' = TRUE
  /\ UNCHANGED <<eihead, eitail, eisem, eireader, eiprev, eicheck, eiread, eiagain, eiended>>

(* the model ends where a descriptor is counted twice, where the engine's  *)
(* head pointer is written while it works, and where the list is a circle  *)
EiStep == ~eiended /\ (\/ EiReadCall \/ EiCopy \/ EiGive \/ EiFind \/ EiLink
                       \/ EiHandler \/ EiRestart \/ EiFetch \/ EiArrive)

EiSpec == EiInit /\ [][EiStep]_eivars

-----------------------------------------------------------------------------

EiTypeOK == /\ eihead \in EiCells /\ eitail \in EiCells /\ SemaOK(eisem)
            /\ eihdp \in EiCells \cup {NoDesc} /\ eilink \in EiCells \cup {NoDesc, NotRead}
            /\ (eireader = "waiting") = (Waiters(eisem) # {})
            /\ eiprev \in EiCells \cup {NoDesc} /\ eicheck \in {eitail, NoDesc}

(* Netin finds a packet where it was told of one, never a descriptor that  *)
(* the engine still owns: every packet stored is read or waits in a        *)
(* descriptor, unless the handler has restarted the engine with one that   *)
(* was full; then the packets of that list may be overwritten. The engine  *)
(* is never left without work while it owns descriptors, unless an         *)
(* interrupt or netin is about to find it idle.                            *)
EiNoneLost ==
  ~eiended =>
     LET full == {i \in EiCells : ~eidesc[i].own} IN
     /\ 1 .. eiarrived = eiread \cup eilost \cup {eidesc[i].packet : i \in full}
     /\ Cardinality(eilost) <= Cardinality(eiagain)
     /\ eireader = "through" => eihead \in full
     /\ full # EiCells => \/ eihdp # NoDesc \/ eiirq \/ eicheck # NoDesc
                          \/ eireader \in {"given", "found"}
=============================================================================
