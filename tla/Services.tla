------------------------------ MODULE Services ------------------------------
(***************************************************************************)
(* The components above the kernel, checked side by side. They share no    *)
(* state: a behaviour picks one of them and the others stay as they are    *)
(* after their initialisation. The processes Procs are the callers of all  *)
(* of them.                                                                *)
(***************************************************************************)
EXTENDS Ports, Memory, BufPool, Futures, Ring, Mark, Shell, CommandLine, Library,
        Drivers, Lfs, Rds, Names, FlatFiles, TLC

VARIABLE part   \* the component that runs

Parts == {"ports", "memory", "buffers", "futures", "ring", "marks", "shell", "lines", "library",
          "uart", "tty", "loopback", "etherout", "etherin", "quark", "files", "disk",
          "names", "flat"}

Still ==
  /\ UNCHANGED part
  /\ part # "ports" => UNCHANGED ptvars
  /\ part # "memory" => UNCHANGED memvars
  /\ part # "buffers" => UNCHANGED bpvars
  /\ part # "futures" => UNCHANGED ftvars
  /\ part # "ring" => UNCHANGED rgvars
  /\ part # "marks" => UNCHANGED mkvars
  /\ part # "shell" => UNCHANGED shvars
  /\ part # "lines" => UNCHANGED clvars
  /\ part # "library" => UNCHANGED livars
  /\ part # "uart" => UNCHANGED uavars
  /\ part # "tty" => UNCHANGED tyvars
  /\ part # "loopback" => UNCHANGED lbvars
  /\ part # "etherout" => UNCHANGED eovars
  /\ part # "etherin" => UNCHANGED eivars
  /\ part # "quark" => UNCHANGED qevars
  /\ part # "files" => UNCHANGED lfvars
  /\ part # "disk" => UNCHANGED rdvars
  /\ part # "names" => UNCHANGED nmvars
  /\ part # "flat" => UNCHANGED fsvars

Init ==
  /\ part \in Parts
  /\ PtInit /\ MemInit /\ BpInit /\ FtInit /\ RgInit /\ MkInit /\ ShInit /\ ClInit /\ LiInit
  /\ UaInit /\ TyInit /\ LbInit /\ EoInit /\ EiInit /\ QeInit /\ LfInit /\ RdInit
  /\ NmInit /\ FsInit

Next ==
  \/ part = "ports" /\ PtNext /\ Still
  \/ part = "memory" /\ MemNext /\ Still
  \/ part = "buffers" /\ BpNext /\ Still
  \/ part = "futures" /\ FtNext /\ Still
  \/ part = "ring" /\ RgNext /\ Still
  \/ part = "marks" /\ MkNext /\ Still
  \/ part = "shell" /\ ShNext /\ Still
  \/ part = "lines" /\ ClNext /\ Still
  \/ part = "library" /\ LiNext /\ Still
  \/ part = "uart" /\ UaNext /\ Still
  \/ part = "tty" /\ TyNext /\ Still
  \/ part = "loopback" /\ LbNext /\ Still
  \/ part = "etherout" /\ EoStep /\ Still
  \/ part = "etherin" /\ EiStep /\ Still
  \/ part = "quark" /\ QeStep /\ Still
  \/ part = "files" /\ LfNext /\ Still
  \/ part = "disk" /\ RdNext /\ Still
  \/ part = "names" /\ NmNext /\ Still
  \/ part = "flat" /\ FsNext /\ Still

vars == <<part, ptvars, memvars, bpvars, ftvars, rgvars, mkvars, shvars, clvars, livars,
          uavars, tyvars, lbvars, eovars, eivars, qevars, lfvars, rdvars, nmvars,
          fsvars>>

Spec == Init /\ [][Next]_vars

-----------------------------------------------------------------------------
(* The inputs of the components that are not given in the configuration *)

Elements == SetToSeq(Procs)

OpenModes == {<<>>, <<"n", "o">>}

MountPoints == {<<"/", "x">>, <<"/", "dev", "/", "ram0">>, <<>>}
PathNames == {<<"/", "x">>, <<"/", "dev", "/", "ram0">>, <<"/", "dev", "/", "console">>,
              <<"/", "dev", "/", "namespace">>, <<"/", "local", "/", "x">>,
              <<"~", "/", "x", "x", "x", "x", "x">>}

Lines == BoundedSeq({"c", "blank", "&", "<", ">", "quote"}, 4) \cup
         BoundedSeq({"c", "blank", "<", ">"}, 7)
Commands == (<<"c">> :> FALSE) @@ (<<"c", "c">> :> TRUE)

Numerals == BoundedSeq({" ", "-", "0", "1", "7", "f", "x"}, 4)
Addresses == BoundedSeq({"2", "5", "."}, 7)
DaysShown == 0 .. 1200 \cup 20440 .. 20810
Arrays == BoundedSeq(1 .. 3, 6)

-----------------------------------------------------------------------------
(* Each property is that of the component that runs. *)

TypeOK ==
  /\ part = "ports" => PtTypeOK
  /\ part = "memory" => MemTypeOK
  /\ part = "buffers" => BpTypeOK
  /\ part = "futures" => FtTypeOK
  /\ part = "ring" => RgTypeOK
  /\ part = "marks" => MkTypeOK
  /\ part = "shell" => ShTypeOK
  /\ part = "lines" => ClTypeOK
  /\ part = "library" => LiTypeOK
  /\ part = "uart" => UaTypeOK
  /\ part = "tty" => TyTypeOK
  /\ part = "loopback" => LbTypeOK
  /\ part = "etherout" => EoTypeOK
  /\ part = "etherin" => EiTypeOK
  /\ part = "quark" => QeTypeOK
  /\ part = "files" => LfTypeOK
  /\ part = "disk" => RdTypeOK
  /\ part = "names" => NmTypeOK
  /\ part = "flat" => FsTypeOK

(* Most components bring a property of their own that the run checks as   *)
(* it is: MemPromise (getmem, freemem), BpAccounted (getbuf, freebuf),     *)
(* PortsKept, FtNoneForgotten (futures), RgCountsDown (the ring of         *)
(* processes), MkMarksStay, ShWaitsForOwn (the shell), NmNamesStay (the    *)
(* name space), RdKept (the remote disk), CharactersKept and PacketsKept   *)
(* (the drivers). A component that does not run keeps its initial state,   *)
(* of which they hold. The properties that follow are put together from    *)
(* those of several components.                                            *)

(* lexan, shell and addargs lose nothing of a line, and conversions give   *)
(* what they are defined to give.                                          *)
TextKept == /\ part = "lines" => ClLineKept
            /\ part = "library" => LiRight

(* lfread gives what was written last, and every block of the disk has one *)
(* owner; fs_write never gives a block of the flat file system twice.      *)
FilesKept == /\ part = "files" => LfKept
             /\ part = "flat" => FsBlocksOnce
=============================================================================
