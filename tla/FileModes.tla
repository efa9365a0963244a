------------------------------ MODULE FileModes ------------------------------
(***************************************************************************)
(* The mode argument of open for the remote and the local file system: a   *)
(* string of the letters r, w, o (the file must exist) and n (it must not).*)
(***************************************************************************)
EXTENDS Sequences, FiniteSets, Naturals

BadMode == {"bad"}

(* rfsgetmode: no letter twice, not both old and new; neither read nor     *)
(* write stands for both                                                   *)
GetMode(mode) ==
  LET bits == {mode[i] : i \in DOMAIN mode} IN
  IF ~ bits \subseteq {"r", "w", "o", "n"} \/ Cardinality(bits) < Len(mode)
     \/ {"o", "n"} \subseteq bits
  THEN BadMode
  ELSE bits \cup IF bits \cap {"r", "w"} = {} THEN {"r", "w"} ELSE {}

(* lfgetmode: the same code *)
LfGetMode(mode) == GetMode(mode)
==============================================================================
