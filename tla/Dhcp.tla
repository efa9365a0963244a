-------------------------------- MODULE Dhcp --------------------------------
(***************************************************************************)
(* The machine's address (getlocalip, net/dhcp.c) and the time of day      *)
(* (getutime, net/getutime.c), each asked for by several processes at      *)
(* once through a UDP slot that one of them can hold. Servers and network  *)
(* are external: a server that hears a message may answer it, and what was *)
(* ever sent may arrive at any time, any number of times. Addresses are    *)
(* named after the servers that own them. A parameter that only carries    *)
(* data along (masks, routers, boot files) is left out.                    *)
(***************************************************************************)
EXTENDS Semas   \* for the callers, Procs

CONSTANTS DHCP_RETRY,
          DhServers,     \* servers of this network
          Stranger,      \* who answers the broadcasts of other machines
          DhTicks        \* bound: how far clktime is followed

ASSUME DhcpAssumption == Stranger \notin DhServers /\ DHCP_RETRY \in Nat /\ DhTicks \in Nat

TimeAtBoot == 100   \* at the time server; any number would do

VARIABLES ipvalid, ipucast,   \* NetData
          dhslot, utslot,     \* the processes that registered for DHCP and for the time
          dhproc,             \* [p -> where it is, what for, the loops' counters, dmsg_snd]
          dhair,              \* messages sent to DHCP clients
          dhshape,            \* [server -> does the type come first? is there a server ID?]
          dhacked,            \* the servers that have acknowledged a request of ours
          clktime, dt_bootvalid, dt_boot,
          utair               \* times that the time server has sent

dhvars == <<ipvalid, ipucast, dhslot, dhproc, dhair, dhshape, dhacked>>
utvars == <<utslot, clktime, dt_bootvalid, dt_boot, utair>>

DhUser == [at |-> "user", for |-> "ip", i |-> 0, j |-> 0, out |-> "discover"]

DhMessages(kind, who, own) == {[kind |-> kind, who |-> s, own |-> own] : s \in who}

DhInit == /\ ipvalid = FALSE /\ ipucast = NoProc
          /\ dhslot = NoProc /\ dhproc = [p \in Procs |-> DhUser]
          /\ dhair = DhMessages("offer", {Stranger}, FALSE) \cup DhMessages("ack", {Stranger}, FALSE)
          /\ dhshape \in [DhServers -> [first : BOOLEAN, sid : BOOLEAN]]
          /\ dhacked = {}
          /\ utslot = NoProc /\ utair = {}
          /\ clktime = 0 /\ dt_bootvalid = FALSE /\ dt_boot = 0

DhAt(p, at) == dhproc[p].at = at

(* to the caller of getlocalip, or back into getutime *)
DhReturn(p, ok) ==
  dhproc' = [dhproc EXCEPT ![p] = IF ok /\ @.for = "time" THEN [@ EXCEPT !.at = "prompt"] ELSE DhUser]

(* build_dhcp_discover or build_dhcp_request has made the message; some of  *)
(* the servers hear the broadcast                                           *)
DhBroadcast(out) ==
  IF out = "discover"
  THEN /\ \E R \in SUBSET DhServers : dhair' = dhair \cup DhMessages("offer", R, TRUE)
       /\ UNCHANGED dhacked
  ELSE \/ dhair' = dhair \cup DhMessages("ack", {out}, TRUE) /\ dhacked' = dhacked \cup {out}
       \/ dhair' = dhair \cup DhMessages("nak", {out}, TRUE) /\ UNCHANGED dhacked
       \/ UNCHANGED <<dhair, dhacked>>

DhCall(p) == /\ DhAt(p, "user")
             /\ dhproc' = [dhproc EXCEPT ![p] = [DhUser EXCEPT !.at = "look"]]
             /\ UNCHANGED <<ipvalid, ipucast, dhslot, dhair, dhshape, dhacked, utvars>>

(* getlocalip: is there an address? *)
DhLook(p) == /\ DhAt(p, "look")
             /\ IF ipvalid THEN DhReturn(p, TRUE) ELSE dhproc' = [dhproc EXCEPT ![p].at = "register"]
             /\ UNCHANGED <<ipvalid, ipucast, dhslot, dhair, dhshape, dhacked, utvars>>

DhRegister(p) ==
  /\ DhAt(p, "register")
  /\ IF dhslot = NoProc
     THEN dhslot' = p /\ dhproc' = [dhproc EXCEPT ![p].at = "send"]
     ELSE UNCHANGED dhslot /\ DhReturn(p, FALSE)
  /\ UNCHANGED <<ipvalid, ipucast, dhair, dhshape, dhacked, utvars>>

(* the outer loop *)
DhSend(p) ==
  LET x == dhproc[p] IN
  /\ DhAt(p, "send")
  /\ IF x.i = DHCP_RETRY
     THEN dhslot' = NoProc /\ DhReturn(p, FALSE) /\ UNCHANGED <<dhair, dhacked>>
     ELSE /\ dhproc' = [dhproc EXCEPT ![p].at = "recv", ![p].i = @ + 1, ![p].j = 0]
          /\ DhBroadcast(x.out) /\ UNCHANGED dhslot
  /\ UNCHANGED <<ipvalid, ipucast, dhshape, utvars>>

(* the inner loop goes around: three messages or time limits *)
DhAgain(p, out) ==
  dhproc' = [dhproc EXCEPT ![p].out = out, ![p].j = @ + 1,
                           ![p].at = IF dhproc[p].j = 2 THEN "send" ELSE "recv"]

DhTimeout(p) == /\ DhAt(p, "recv") /\ DhAgain(p, dhproc[p].out)
                /\ UNCHANGED <<ipvalid, ipucast, dhslot, dhair, dhshape, dhacked, utvars>>

BugDhTakes(m) == m.own /\ m.kind # "offer"

(* the transaction is ours, and the first option says ack *)
DhTakes(m) == m.own /\ m.kind = "ack" /\ dhshape[m.who].first

(* a request needs the server ID of the offer; without it getlocalip_boot   *)
(* returns and keeps its slot                                               *)
DhOffer(p, m) ==
  IF dhshape[m.who].sid THEN DhAgain(p, m.who) /\ DhBroadcast(m.who)
                        ELSE DhReturn(p, FALSE) /\ UNCHANGED <<dhair, dhacked>>

DhReceive(p, m) ==
  /\ DhAt(p, "recv")
  /\ CASE m.own /\ m.kind = "offer" -> DhOffer(p, m) /\ UNCHANGED <<ipvalid, ipucast, dhslot>>
       [] DhTakes(m) -> /\ ipvalid' = TRUE /\ ipucast' = m.who /\ dhslot' = NoProc
                        /\ DhReturn(p, TRUE) /\ UNCHANGED <<dhair, dhacked>>
       [] OTHER -> /\ DhAgain(p, dhproc[p].out)
                   /\ UNCHANGED <<ipvalid, ipucast, dhslot, dhair, dhacked>>
  /\ UNCHANGED <<dhshape, utvars>>

-----------------------------------------------------------------------------
(* getutime; its slot stays registered when there is no address *)

UtCall(p) == /\ DhAt(p, "user") /\ ~dt_bootvalid
             /\ dhproc' = [dhproc EXCEPT ![p] = [DhUser EXCEPT !.for = "time", !.at = "open"]]
             /\ UNCHANGED <<ipvalid, ipucast, dhslot, dhair, dhshape, dhacked, utvars>>

UtRegister(p) ==
  /\ DhAt(p, "open")
  /\ IF utslot = NoProc THEN utslot' = p /\ dhproc' = [dhproc EXCEPT ![p].at = "look"]
                        ELSE UNCHANGED utslot /\ dhproc' = [dhproc EXCEPT ![p] = DhUser]
  /\ UNCHANGED <<ipvalid, ipucast, dhslot, dhair, dhshape, dhacked,
                 clktime, dt_bootvalid, dt_boot, utair>>

UtExit(p) == utslot' = NoProc /\ dhproc' = [dhproc EXCEPT ![p] = DhUser]

UtPrompt(p) ==
  /\ DhAt(p, "prompt")
  /\ \/ UtExit(p) /\ UNCHANGED utair   \* no packet buffer
     \/ /\ dhproc' = [dhproc EXCEPT ![p].at = "time"] /\ UNCHANGED utslot
        /\ utair' \in {utair, utair \cup {TimeAtBoot + clktime}}
  /\ UNCHANGED <<ipvalid, ipucast, dhslot, dhair, dhshape, dhacked, clktime, dt_bootvalid, dt_boot>>

UtReceive(p) ==
  /\ DhAt(p, "time") /\ UtExit(p)
  /\ \/ UNCHANGED <<dt_bootvalid, dt_boot>>  \* the time limit
     \/ \E now \in utair : dt_boot' = now - clktime /\ dt_bootvalid' = TRUE
  /\ UNCHANGED <<ipvalid, ipucast, dhslot, dhair, dhshape, dhacked, clktime, utair>>

DhTick == /\ clktime < DhTicks /\ clktime' = clktime + 1
          /\ UNCHANGED <<dhvars, utslot, dt_bootvalid, dt_boot, utair>>

DhRun(p) == \/ DhCall(p) \/ DhLook(p) \/ DhRegister(p) \/ DhSend(p) \/ DhTimeout(p)
            \/ \E m \in dhair : DhReceive(p, m)
            \/ UtCall(p) \/ UtRegister(p) \/ UtPrompt(p) \/ UtReceive(p)
DhNext == (\E p \in Procs : DhRun(p)) \/ DhTick

DhSpec == DhInit /\ [][DhNext]_<<dhvars, utvars>>

-----------------------------------------------------------------------------

DhTypeOK == /\ dhslot \in Procs \cup {NoProc} /\ utslot \in Procs \cup {NoProc}
            /\ ipucast \in DhServers \cup {NoProc}
            /\ \A p \in Procs : dhproc[p].i \in 0 .. DHCP_RETRY /\ dhproc[p].j \in 0 .. 3

(* With several callers, several servers and answers to earlier requests   *)
(* on the way, the address in use is one that its server has promised this *)
(* machine, and the time of day is never ahead of the time server's; one   *)
(* process at a time has each conversation.                                *)
DhPromised ==
  /\ ipvalid => ipucast \in dhacked
  /\ dt_bootvalid => dt_boot <= TimeAtBoot
  /\ \A p \in Procs : /\ dhproc[p].at \in {"send", "recv"} => dhslot = p
                      /\ dhproc[p].at = "time" => utslot = p

=============================================================================
