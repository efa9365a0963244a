------------------------------- MODULE Names -------------------------------
(***************************************************************************)
(* The device switch (system/conf.c and the calls that go through it), the *)
(* name space (device/nam) and the RAM disk (device/ram), in the           *)
(* configuration for QEMU. Names are sequences of tokens, none of which    *)
(* begins another. Every call runs with interrupts disabled.               *)
(***************************************************************************)
EXTENDS Integers, Sequences, SequencesExt

CONSTANTS NNAMES, NM_MAXLEN,    \* mappings, and the length of a name with its null byte
          NmPrefixes, NmNames,  \* what is mounted, and what is opened
          RM_BLKS, RM_BLKSIZ, RmBytes

ASSUME NamesAssumption == NNAMES \in Nat /\ NNAMES >= 12 /\ NM_MAXLEN \in Nat \ {0}
                          /\ RM_BLKS \in Nat \ {0} /\ RM_BLKSIZ \in Nat \ {0}

VARIABLES nametab,   \* the first nnames entries
          Ram,       \* the bytes of the disk
          nmfd,      \* what the last open returned
          nmret      \* what the last other call returned

nmvars == <<nametab, Ram, nmfd, nmret>>

OK == 1
SYSERR == -1
NmGarbage == "left in the buffer"

-----------------------------------------------------------------------------
(* The device switch *)

NULLDEV == 1
NAMESPACE == 2
RAM0 == 3
LFILESYS == 4
LFILE0 == 5
DeviceNames == <<"console", "nulldev", "namespace", "ram0", "lfilesys", "lfile0", "serial0", "loop0">>
NDEVS == Len(DeviceNames)   \* one of the local files stands for all six
RFILESYS == SYSERR          \* naminit: not configured

DevOps == {"open", "close", "read", "write", "seek", "getc", "putc", "control"}

(* devtab: the calls that end in ionull and those that end in ioerr; all    *)
(* others go to the driver                                                  *)
DevNull == <<{"open", "close"}, DevOps \ {"seek", "control"}, {}, {}, {}, {},
             {"open", "close"}, {}>>
DevErr == <<{"seek"}, {"seek", "control"}, DevOps \ {"open"}, {"seek", "getc", "putc", "control"},
            DevOps \ {"open"}, {"open"}, {"seek"}, {"seek"}>>

(* getdev: strncmp is not 0 where the names differ, so that it returns the  *)
(* first device of another name                                             *)
GetDev(name) == IF DeviceNames[1] # name THEN 0 ELSE 1

isbaddev(d) == d < 0 \/ d >= NDEVS

(* a call through the switch, when the driver would return r *)
DevCall(op, d, r) == CASE isbaddev(d) -> SYSERR
                       [] ~isbaddev(d) /\ op \in DevNull[d + 1] -> OK
                       [] ~isbaddev(d) /\ op \in DevErr[d + 1] -> SYSERR
                       [] OTHER -> r

DevClose(d, r) == DevCall("close", d, r)
DevRead(d, r) == DevCall("read", d, r)
DevWrite(d, r) == DevCall("write", d, r)
DevSeek(d, r) == DevCall("seek", d, r)
DevGetc(d, r) == DevCall("getc", d, r)
DevPutc(d, r) == DevCall("putc", d, r)
DevControl(d, r) == DevCall("control", d, r)

-----------------------------------------------------------------------------
(* The name space *)

BugMount(tab, prefix, replace, d) ==
  IF isbaddev(d) \/ Len(tab) >= NNAMES THEN tab
  ELSE <<[prefix |-> prefix, replace |-> replace, device |-> d]>> \o tab

(* mount; prefixes and replacements are short enough for their fields *)
Mount(tab, prefix, replace, d) ==
  IF isbaddev(d) \/ Len(tab) >= NNAMES THEN tab
  ELSE Append(tab, [prefix |-> prefix, replace |-> replace, device |-> d])

(* naminit: every device under its name in lower case; of the rest, only    *)
(* the mounts whose device is configured succeed                            *)
NamInit ==
  LET devices == [i \in 1 .. NDEVS |-> [prefix |-> <<"/", "dev", "/", DeviceNames[i]>>,
                                        replace |-> <<>>, device |-> i - 1]]
      null == Mount(devices, <<"/", "dev", "/", "null">>, <<>>, NULLDEV)
      remote == Mount(null, <<"/", "remote", "/">>, <<"remote:">>, RFILESYS)
      local == Mount(remote, <<"/", "local", "/">>, <<>>, LFILESYS)
      other == Mount(local, <<"/", "dev", "/">>, <<>>, SYSERR)
      home == Mount(other, <<"~", "/">>, <<>>, LFILESYS)
      root == Mount(home, <<"/">>, <<"root:">>, RFILESYS) IN
  Mount(root, <<>>, <<>>, LFILESYS)

Unmapped == [device |-> SYSERR, name |-> <<>>]

(* namrepl: the first prefix that fits. The length of the name is kept in   *)
(* one byte, in which the longest name is 0.                                *)
NamRepl(tab, name) ==
  LET fits == {i \in 1 .. Len(tab) : IsPrefix(tab[i].prefix, name)}
      e == tab[CHOOSE i \in fits : \A j \in fits : i <= j]
      remain == ((Len(name) + 1) % NM_MAXLEN) - Len(e.prefix) IN
  CASE fits = {} -> Unmapped
    [] fits # {} /\ Len(e.replace) + remain > NM_MAXLEN -> Unmapped
    [] OTHER -> [device |-> e.device,
                 name |-> IF remain > 0 THEN e.replace \o SubSeq(name, Len(e.prefix) + 1, Len(name))
                                        ELSE Append(e.replace, NmGarbage)]

(* nammap: every round replaces the prefix of the same name, so that a name *)
(* mapped to the name space leads nowhere                                   *)
NamMap(tab, name) ==
  LET m == NamRepl(tab, name) IN
  IF Len(name) >= NM_MAXLEN \/ m.device = NAMESPACE THEN Unmapped ELSE m

(* what the driver's open may return: the disk its own number, the file     *)
(* system the number of a file                                              *)
DriverOpens(d) == CASE d = RAM0 -> {RAM0}
                    [] d = LFILESYS -> {LFILE0, SYSERR}
                    [] OTHER -> {OK, SYSERR}

(* namopen on behalf of open(NAMESPACE, name, mode) *)
NamOpen(name) == LET d == NamMap(nametab, name).device IN
                 {DevCall("open", d, r) : r \in DriverOpens(d)}

-----------------------------------------------------------------------------
(* The RAM disk *)

RmBytesOf(blk) == blk * RM_BLKSIZ + 1 .. (blk + 1) * RM_BLKSIZ

(* raminit *)
RamInit == [i \in 1 .. RM_BLKS * RM_BLKSIZ |-> 0]

(* ramwrite of a block full of one byte *)
RamWrite(blk, b) == [i \in DOMAIN Ram |-> IF i \in RmBytesOf(blk) THEN b ELSE Ram[i]]

-----------------------------------------------------------------------------

NmInit == nametab = NamInit /\ Ram = RamInit /\ nmfd = SYSERR /\ nmret = OK

NmMount(prefix, replace, d) == /\ nametab' = Mount(nametab, prefix, replace, d)
                               /\ nmret' = IF nametab' = nametab THEN SYSERR ELSE OK
                               /\ UNCHANGED <<Ram, nmfd>>

NmOpen(name) == nmfd' \in NamOpen(name) /\ UNCHANGED <<nametab, Ram, nmret>>

NmGetdev(name) == nmret' = GetDev(name) /\ UNCHANGED <<nametab, Ram, nmfd>>

NmBlock(blk, b) ==
  \/ /\ nmret' = DevRead(nmfd, OK) /\ UNCHANGED Ram
  \/ /\ nmret' = DevWrite(nmfd, OK)
     /\ Ram' = IF nmfd = RAM0 THEN RamWrite(blk, b) ELSE Ram

NmOther(r) == /\ nmret' \in {DevClose(nmfd, r), DevSeek(nmfd, r), DevGetc(nmfd, r), DevPutc(nmfd, r),
                             DevControl(nmfd, r)}
              /\ UNCHANGED Ram

NmNext == \/ \E prefix, replace \in NmPrefixes, d \in {SYSERR, NULLDEV, NAMESPACE, RAM0} :
               NmMount(prefix, replace, d)
          \/ \E name \in NmNames : NmOpen(name)
          \/ \E i \in 1 .. NDEVS : NmGetdev(DeviceNames[i])
          \/ /\ \/ \E blk \in 0 .. RM_BLKS - 1, b \in RmBytes : NmBlock(blk, b)
                \/ \E r \in {OK, SYSERR} : NmOther(r)
             /\ UNCHANGED <<nametab, nmfd>>

NmSpec == NmInit /\ [][NmNext]_nmvars

-----------------------------------------------------------------------------

NmTypeOK == /\ Len(nametab) <= NNAMES /\ nmfd \in SYSERR .. NDEVS - 1 /\ nmret \in {OK, SYSERR, 0}
            /\ \A i \in 1 .. Len(nametab) : ~isbaddev(nametab[i].device)

(* Later mounts never take a name away from the device and the name it has *)
(* been mapped to.                                                         *)
NmNamesStay == [][nametab' # nametab =>
                    \A name \in NmNames : NamMap(nametab, name) \in {Unmapped, NamMap(nametab', name)}]_nmvars

=============================================================================
