-------------------------------- MODULE Dns --------------------------------
(***************************************************************************)
(* The resolver (net/dns.c). Every query leaves through the same local     *)
(* port and its number is not looked at in the response, so a response to  *)
(* an earlier query may be the one that is received. The name server and   *)
(* the network are external: a query that arrives is answered in full, and *)
(* responses are delayed, repeated and lost.                               *)
(*                                                                         *)
(* The data of a response is a sequence of tokens: the labels of names,    *)
(* the zero byte that ends a name, pointers back into the data, the type   *)
(* of a question, and the rest of a resource record.                       *)
(***************************************************************************)
EXTENDS Semas   \* for the callers, Procs

CONSTANTS DnsNames,        \* the names that are looked up, sequences of labels
          DnsPrefixes,     \* pairs of labels of which the first begins the second
          DnsQueries       \* bound: lookups

ASSUME DnsAssumption == DnsQueries \in Nat

VARIABLES dnsslot,    \* who has registered the resolver's UDP slot
          dnsproc,    \* [p -> where it is, dname, the loop's counter, ipaddr]
          dnsair,     \* responses sent, by the name that was asked for
          dnsshape,   \* which way the name server puts its answers
          dnsasked,   \* lookups so far
          dnstold     \* [name -> what its lookups have returned]

dnsvars == <<dnsslot, dnsproc, dnsair, dnsshape, dnsasked, dnstold>>

Failed == <<"SYSERR">>
Address(name) == <<"address of", name>>   \* what the name server knows
DnsUser == [at |-> "user", dname |-> <<>>, i |-> 0, ipaddr |-> Failed]

-----------------------------------------------------------------------------
(* Responses *)

Label(l) == [k |-> "label", label |-> l]
EndOfName == [k |-> "end"]
Pointer(off) == [k |-> "pointer", to |-> off]
Record(a) == [k |-> "record", type |-> IF a = Failed THEN "alias" ELSE "A", addr |-> a]

(* dns_bldq, and with it what a response repeats of the query *)
Question(name) == [i \in 1 .. Len(name) |-> Label(name[i])] \o <<EndOfName, [k |-> "qtype"]>>

(* the answers come plain, behind another record that has the last labels   *)
(* of the name in common with it, or behind an alias to whose name the      *)
(* second answer points                                                     *)
Shapes == {"plain", "spelled", "second", "again", "unknown"}
Response(shape, name) ==
  LET q == Question(name)
      alias == <<Label("x"), Pointer(2), Record(Failed)>> IN
  CASE shape = "plain" -> [data |-> q \o <<Pointer(1), Record(Address(name))>>, qd |-> 1, an |-> 1]
    [] shape = "spelled" -> [data |-> q \o SubSeq(q, 1, Len(name) + 1) \o <<Record(Address(name))>>,
                             qd |-> 1, an |-> 1]
    [] shape = "second" -> [data |-> q \o alias \o <<Pointer(1), Record(Address(name))>>,
                            qd |-> 1, an |-> 2]
    [] shape = "again" -> [data |-> q \o <<Label(name[1]), Pointer(2), Record(Failed),
                                          Pointer(Len(q) + 1), Record(Address(name))>>,
                           qd |-> 1, an |-> 2]
    [] shape = "unknown" -> [data |-> q, qd |-> 1, an |-> 0]

(* the first token behind a name: dns_geta on questions, and the value of   *)
(* dns_getrname                                                             *)
NameEnd(data, at) ==
  LET ends == {i \in at .. Len(data) : data[i].k # "label"} IN
  1 + (CHOOSE i \in ends : \A j \in ends : i <= j)

(* dns_getrname: the labels it copies, and the data, in which every pointer *)
(* it follows has lost the bits that make it one, and reads as an end       *)
RECURSIVE GetRname(_, _)
GetRname(data, at) ==
  LET stop == NameEnd(data, at) - 1
      labels == [i \in 1 .. stop - at |-> data[at + i - 1].label] IN
  IF data[stop].k = "pointer"
  THEN LET rest == GetRname([data EXCEPT ![stop] = EndOfName], data[stop].to) IN
       [name |-> labels \o rest.name, data |-> rest.data]
  ELSE [name |-> labels, data |-> data]

BugSameName(rname, dname) == Len(rname) >= Len(dname)

(* strncmp(rname, dname, strlen(dname)) == 0: rname goes on with a dot *)
SameName(rname, dname) ==
  /\ Len(rname) >= Len(dname)
  /\ \A i \in 1 .. Len(dname) : \/ rname[i] = dname[i]
                                \/ i = Len(dname) /\ <<dname[i], rname[i]>> \in DnsPrefixes

RECURSIVE Answer(_, _, _, _)
Answer(dname, data, at, left) ==
  IF left = 0 THEN Failed
  ELSE LET r == GetRname(data, at)
           record == data[NameEnd(data, at)] IN
       IF SameName(r.name, dname) /\ record.type = "A" THEN record.addr
       ELSE Answer(dname, r.data, NameEnd(data, at) + 1, left - 1)

(* dns_geta; there is one question *)
GetA(dname, m) == Answer(dname, m.data, NameEnd(m.data, 1) + 1, m.an)

-----------------------------------------------------------------------------
(* dns_qa *)

DnsInit == /\ dnsslot = NoProc /\ dnsproc = [p \in Procs |-> DnsUser]
           /\ dnsair = {} /\ dnsshape \in [DnsNames -> Shapes]
           /\ dnsasked = 0 /\ dnstold = [n \in DnsNames |-> {}]

DnsReturn(p, addr) ==
  /\ dnsproc' = [dnsproc EXCEPT ![p] = DnsUser]
  /\ dnstold' = [dnstold EXCEPT ![dnsproc[p].dname] = @ \cup {addr}]

DnsCall(p, name) ==
  /\ dnsproc[p].at = "user" /\ dnsasked < DnsQueries
  /\ dnsasked' = dnsasked + 1
  /\ IF dnsslot = NoProc
     THEN \/ /\ dnsslot' = p
             /\ dnsproc' = [dnsproc EXCEPT ![p] = [DnsUser EXCEPT !.at = "send", !.dname = name]]
             /\ UNCHANGED dnstold
          \/ UNCHANGED <<dnsslot, dnsproc, dnstold>>  \* no memory for the packets
     ELSE UNCHANGED <<dnsslot, dnsproc, dnstold>>
  /\ UNCHANGED <<dnsair, dnsshape>>

(* three rounds, whatever the first of them has brought *)
DnsSend(p) ==
  /\ dnsproc[p].at = "send"
  /\ IF dnsproc[p].i = 3
     THEN dnsslot' = NoProc /\ DnsReturn(p, dnsproc[p].ipaddr) /\ UNCHANGED dnsair
     ELSE /\ dnsproc' = [dnsproc EXCEPT ![p].at = "recv", ![p].i = @ + 1]
          /\ dnsair' \in {dnsair, dnsair \cup {dnsproc[p].dname}}
          /\ UNCHANGED <<dnsslot, dnstold>>
  /\ UNCHANGED <<dnsshape, dnsasked>>

DnsReceive(p) ==
  /\ dnsproc[p].at = "recv"
  /\ \/ dnsproc' = [dnsproc EXCEPT ![p].at = "send"]   \* the time limit
     \/ \E n \in dnsair :
          dnsproc' = [dnsproc EXCEPT ![p].at = "send",
                                     ![p].ipaddr = GetA(dnsproc[p].dname, Response(dnsshape[n], n))]
  /\ UNCHANGED <<dnsslot, dnsair, dnsshape, dnsasked, dnstold>>

DnsRun(p) == (\E n \in DnsNames : DnsCall(p, n)) \/ DnsSend(p) \/ DnsReceive(p)
DnsNext == \E p \in Procs : DnsRun(p)

DnsSpec == DnsInit /\ [][DnsNext]_dnsvars

-----------------------------------------------------------------------------

DnsTypeOK == /\ dnsslot \in Procs \cup {NoProc}
             /\ \A p \in Procs : dnsproc[p].i \in 0 .. 3

(* a name as text begins another *)
Begins(n, m) == LET k == Len(n) IN
  /\ k <= Len(m) /\ \A i \in 1 .. k - 1 : n[i] = m[i]
  /\ k > 0 => n[k] = m[k] \/ <<n[k], m[k]>> \in DnsPrefixes

(* dns_qa: a lookup returns the address of its name, or of one that begins *)
(* with its name (dns_geta compares no further), though responses to       *)
(* earlier lookups may be read in its place, records of other names may    *)
(* come first, and reading a name damages it for the answers that point to *)
(* it: they are lost, but never taken for another name's.                  *)
DnsOwnName ==
  /\ \A n \in DnsNames : dnstold[n] \subseteq {Failed} \cup {Address(m) : m \in {o \in DnsNames : Begins(n, o)}}
  /\ \A p \in Procs : dnsproc[p].at # "user" => dnsslot = p

=============================================================================
