------------------------------ MODULE Network ------------------------------
(***************************************************************************)
(* The protocol stack, and the clients that talk to servers over it,       *)
(* checked side by side. Each client has a server and a network of its     *)
(* own in its module, and shares no state with the others: a behaviour     *)
(* picks one part and the others stay as they are after initialisation.    *)
(* The callers of all of them are the programs, Apps.                      *)
(***************************************************************************)
EXTENDS Net, Rfs, Tftp, Dhcp, Dns, TLC

VARIABLE part   \* the part that runs

Parts == {"stack", "files", "transfer", "address", "resolver"}

Still ==
  /\ UNCHANGED part
  /\ part # "stack" => UNCHANGED ntvars
  /\ part # "files" => UNCHANGED rfvars
  /\ part # "transfer" => UNCHANGED tfvars
  /\ part # "address" => UNCHANGED <<dhvars, utvars>>
  /\ part # "resolver" => UNCHANGED dnsvars

(* what the servers are like matters only where they are talked to *)
Init ==
  /\ part \in Parts
  /\ NtInit /\ RfInit /\ TfInit /\ DhInit /\ DnsInit
  /\ part # "transfer" => \A size \in TfSizes, room \in TfRooms :
                            tfsize <= size /\ tfroom <= room /\ tfget.at = "send"
  /\ part # "address" => \A s \in DhServers : dhshape[s].first /\ dhshape[s].sid
  /\ part # "resolver" => \A n \in DnsNames : dnsshape[n] = "plain"

Next ==
  \/ part = "stack" /\ NtNext /\ Still
  \/ part = "files" /\ ((\E p \in Apps : RfRun(p)) \/ RfServe \/ RfArrive) /\ Still
  \/ part = "transfer" /\ TfNext /\ Still
  \/ part = "address" /\ ((\E p \in Apps : DhRun(p)) \/ DhTick) /\ Still
  \/ part = "resolver" /\ (\E p \in Apps : DnsRun(p)) /\ Still

vars == <<part, ntvars, rfvars, tfvars, dhvars, utvars, dnsvars>>

Spec == Init /\ [][Next]_vars

-----------------------------------------------------------------------------
(* Inputs of the clients, and the symmetry of programs, hosts and servers *)

FileModesUsed == {<<"r", "w">>}
NamesAsked == {<<"a", "c">>, <<"b", "c">>, <<"a", "cd">>}
BeginningLabels == {<<"c", "cd">>}

Symmetry == Permutations(Apps) \cup Permutations(Hosts)

-----------------------------------------------------------------------------
(* The properties of the parts are checked as they are: NtBuffersKept,     *)
(* NtWaitersTold and NtPendingOwned (the stack), RfReadsWritten (files),   *)
(* TfInOrder (transfer), DhPromised (address) and DnsOwnName (resolver). A *)
(* part that does not run keeps its initial state, of which they hold.     *)
(* Types are looked at where they may change.                              *)

TypeOK ==
  /\ part = "stack" => NtTypeOK
  /\ part = "files" => RfTypeOK
  /\ part = "transfer" => TfTypeOK
  /\ part = "address" => DhTypeOK
  /\ part = "resolver" => DnsTypeOK
=============================================================================
