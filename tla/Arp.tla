-------------------------------- MODULE Arp ---------------------------------
(***************************************************************************)
(* The ARP cache (net/arp.c). A process that sends to a host whose address *)
(* is not known enters the host as pending, and waits in vain or until the *)
(* input process has seen a packet from it.                                *)
(***************************************************************************)
EXTENDS NetBase

CONSTANTS ARP_SIZ, ARP_RETRY

ASSUME ArpAssumption == ARP_SIZ \in Nat \ {0} /\ ARP_RETRY \in Nat \ {0}

VARIABLE arpcache

ArpSlots == 0 .. ARP_SIZ - 1
ArpFree == [state |-> "free", addr |-> NoHost, pid |-> NoProc]

(* arp_init *)
ArpInit == arpcache = [i \in ArpSlots |-> ArpFree]

First(S) == CHOOSE i \in S : \A j \in S : i <= j
ArpWith(state) == {i \in ArpSlots : arpcache[i].state = state}
ArpOf(addr) == {i \in ArpSlots : arpcache[i].state # "free" /\ arpcache[i].addr = addr}

BugArpVictims == IF ArpWith("free") # {} THEN ArpWith("free") ELSE ArpSlots

(* arp_alloc: where there may be a new entry; a pending one is never given up *)
ArpVictims == IF ArpWith("free") # {} THEN ArpWith("free") ELSE ArpWith("resolved")

(* arp_resolve, when it does not have to wait *)
ArpKnown(hop) == \E i \in ArpOf(hop) : arpcache[i].state = "resolved"
ArpFails(hop) == ~ArpKnown(hop) /\ (ArpOf(hop) # {} \/ ArpVictims = {})

(* or enter the host, ask for it and wait *)
ArpAsk(p, hop) ==
  arpcache' = [arpcache EXCEPT ![First(ArpVictims)] = [state |-> "pending", addr |-> hop, pid |-> p]]

(* the waiting time is over: ask again, or give the entry up *)
ArpAgain(p) ==
  /\ NtRuns(p, "arp") /\ p \notin mail /\ ntproc[p].try < ARP_RETRY
  /\ ntproc' = [ntproc EXCEPT ![p].try = @ + 1]
  /\ UNCHANGED <<mail, nbsem, arpcache>>

ArpGiveUp(p) ==
  arpcache' = [i \in ArpSlots |-> IF arpcache[i].state = "pending" /\ arpcache[i].pid = p
                                  THEN [arpcache[i] EXCEPT !.state = "free"] ELSE arpcache[i]]

(* arp_in: the sender is known from now on if it was asked for, or if it   *)
(* asks for this host and there is room; the waiting process is told       *)
ArpIn(kind, src) ==
  LET found == ArpOf(src)
      i == First(found)
      resolved == [state |-> "resolved", addr |-> src, pid |-> NoProc] IN
  IF found # {}
  THEN /\ arpcache' = [arpcache EXCEPT ![i].state = "resolved"]
       /\ IF arpcache[i].state = "pending" THEN Post(arpcache[i].pid) ELSE UNCHANGED mail
  ELSE /\ arpcache' = IF kind = "arp request" /\ ArpVictims # {}
                      THEN [arpcache EXCEPT ![First(ArpVictims)] = resolved] ELSE arpcache
       /\ UNCHANGED mail
=============================================================================
