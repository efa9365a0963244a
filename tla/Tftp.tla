-------------------------------- MODULE Tftp --------------------------------
(***************************************************************************)
(* The TFTP client (net/tftp.c). The server and the network are external:  *)
(* the server opens a session with a port of its own for every read        *)
(* request that reaches it, and the network loses, delays, duplicates and  *)
(* reorders messages: one that was sent may arrive at any time, any number *)
(* of times. A block of the file is full but for the last; block numbers   *)
(* stay below 65536. The buffers count only by their total size.           *)
(***************************************************************************)
EXTENDS Integers, Sequences

CONSTANTS TFTP_MAXDATA, TFTP_MAXRETRIES,
          TfSizes, TfRooms,  \* sizes of the file and of the buffers
          TfSessions         \* bound: sessions the server opens

ASSUME TftpAssumption == /\ TFTP_MAXDATA \in Nat \ {0} /\ TFTP_MAXRETRIES \in Nat
                         /\ TfSessions \in Nat /\ TfSizes \subseteq Nat /\ TfRooms \subseteq Nat

TFTP_PORT == 0
TfPorts == 1 .. TfSessions

VARIABLES tfget,    \* the client: where it is, its tries, expected, remport, outmsg, the buffers
          tfair,    \* what was ever sent to the client
          tfsent,   \* [port of a session -> the block it has sent last], 0 before it opens
          tfsize,   \* the size of the file at the server
          tfroom    \* rcv_buf_sizes, added up

tfvars == <<tfget, tfair, tfsent, tfsize, tfroom>>

(* the bytes of the file, numbered, that block b carries *)
TfBytes(b) == LET last == IF b * TFTP_MAXDATA < tfsize THEN b * TFTP_MAXDATA ELSE tfsize
                  first == (b - 1) * TFTP_MAXDATA IN
              [i \in 1 .. last - first |-> first + i]

TfLastBlock == tfsize \div TFTP_MAXDATA + 1

TfData(b, port) == [op |-> "data", blk |-> b, port |-> port]

(* tftpget_mb up to its loop; getutime or udp_register may fail *)
TfInit == /\ tfsize \in TfSizes /\ tfroom \in TfRooms
          /\ tfget \in [at : {"send", "failed"}, tries : {0}, expected : {1},
                        remport : {TFTP_PORT}, out : {"rrq"}, got : {<<>>}]
          /\ tfair = {} /\ tfsent = [s \in TfPorts |-> 0]

(* the server has got the client's message *)
TfServer ==
  \/ /\ tfget.out = "rrq" /\ tfget.remport = TFTP_PORT
     /\ \/ \E s \in TfPorts : /\ tfsent[s] = 0 /\ \A t \in TfPorts : t < s => tfsent[t] # 0
                              /\ tfsent' = [tfsent EXCEPT ![s] = 1]
                              /\ tfair' = tfair \cup {TfData(1, s)}
        \/ /\ tfair' = tfair \cup {[op |-> "error", blk |-> 0, port |-> TFTP_PORT]}
           /\ UNCHANGED tfsent
  \/ /\ tfget.out = "ack" /\ tfget.remport \in TfPorts
     /\ tfsent[tfget.remport] = tfget.expected - 1 /\ tfget.expected <= TfLastBlock
     /\ tfsent' = [tfsent EXCEPT ![tfget.remport] = @ + 1]
     /\ tfair' = tfair \cup {TfData(tfget.expected, tfget.remport)}

(* the retry loop of tftpget_mb and the udp_sendto of tftp_send1 *)
TfSend == /\ tfget.at = "send"
          /\ \/ /\ tfget.tries < TFTP_MAXRETRIES
                /\ tfget' = [tfget EXCEPT !.at = "recv"]
                /\ TfServer \/ UNCHANGED <<tfair, tfsent>>
             \/ tfget' = [tfget EXCEPT !.at = "failed"] \* too many retries, or no packet buffer
                /\ UNCHANGED <<tfair, tfsent>>
          /\ UNCHANGED <<tfsize, tfroom>>

TfTimeout == /\ tfget.at = "recv"
             /\ tfget' = [tfget EXCEPT !.at = "send", !.tries = @ + 1]
             /\ UNCHANGED <<tfair, tfsent, tfsize, tfroom>>

BugTfMatches(m) == m.op = "data"

(* is it the data packet that tftp_send1 waits for? *)
TfMatches(m) == m.op = "data" /\ m.blk = tfget.expected

(* what tftpget_mb does with a data packet *)
TfStored(m) ==
  LET data == TfBytes(m.blk)
      all == tfget.got \o data IN
  IF Len(all) > tfroom
  THEN [tfget EXCEPT !.at = "full", !.got = SubSeq(all, 1, tfroom), !.remport = m.port]
  ELSE [tfget EXCEPT !.at = IF Len(data) < TFTP_MAXDATA THEN "final" ELSE "send",
                     !.got = all, !.out = "ack", !.remport = m.port,
                     !.tries = 0, !.expected = @ + 1]

(* every message names the port that is answered next *)
TfReceive(m) == /\ tfget.at = "recv"
                /\ tfget' = CASE TfMatches(m) -> TfStored(m)
                              [] m.op = "error" -> [tfget EXCEPT !.at = "failed"]
                              [] OTHER -> [tfget EXCEPT !.remport = m.port]
                /\ UNCHANGED <<tfair, tfsent, tfsize, tfroom>>

(* the last acknowledgement, which needs a packet buffer *)
TfFinal == /\ tfget.at = "final"
           /\ \E end \in {"done", "failed"} : tfget' = [tfget EXCEPT !.at = end]
           /\ UNCHANGED <<tfair, tfsent, tfsize, tfroom>>

TfNext == TfSend \/ TfTimeout \/ TfFinal \/ \E m \in tfair : TfReceive(m)

TfSpec == TfInit /\ [][TfNext]_tfvars

-----------------------------------------------------------------------------

TfTypeOK == /\ tfget.at \in {"send", "recv", "final", "full", "done", "failed"}
            /\ tfget.tries \in 0 .. TFTP_MAXRETRIES /\ tfget.remport \in TfPorts \cup {TFTP_PORT}
            /\ tfget.expected \in 1 .. TfLastBlock + 1

(* tftpget_mb, tftp_send1: whatever the network does with the messages of  *)
(* one or more sessions, the buffers hold the beginning of the file in     *)
(* order, and a transfer that reports a size has the whole file or has     *)
(* filled the buffers.                                                     *)
TfInOrder == /\ \A i \in 1 .. Len(tfget.got) : tfget.got[i] = i
             /\ tfget.at = "done" => Len(tfget.got) = tfsize
             /\ tfget.at = "full" => Len(tfget.got) = tfroom /\ tfroom < tfsize

=============================================================================
