-------------------------------- MODULE Lfs --------------------------------
(***************************************************************************)
(* The local file system (device/lfs). A disk holds the directory, index   *)
(* blocks and data blocks; an open file has a copy of one index block and  *)
(* one data block, and the directory is in memory. Every configuration has *)
(* the RAM disk below it, which never blocks; a device call keeps          *)
(* interrupts disabled: the operations do not interleave, and the          *)
(* semaphores are always free. Bytes are single values; a byte of a block  *)
(* never written is DFILL.                                                 *)
(***************************************************************************)
EXTENDS Integers, Sequences, FiniteSets, FileModes

CONSTANTS Nlfl,                  \* file devices
          LfNames, LfModes,      \* file names; mode strings
          LF_NUM_DIR_ENT, LF_BLKSIZ, LF_IBLEN,
          LfIblocks, LfDblocks,  \* index blocks and data blocks of the disk
          LfBytes, LfMaxPos      \* the bytes written; bound: position

DFILL == 0

ASSUME LfsAssumption ==
  /\ {Nlfl, LF_NUM_DIR_ENT, LF_BLKSIZ, LF_IBLEN, LfIblocks, LfDblocks} \subseteq Nat \ {0}
  /\ DFILL \notin LfBytes

VARIABLES lfdir, lfdirty,  \* Lf_data: the directory in memory, once it is present
          lfdisk,          \* [dir, ib, db]: what is on the disk
          lfltab,          \* struct lflcblk
          lffile,          \* [name -> the bytes written to it]
          lfpanic, lfwrong \* out of blocks; a read has given another byte

lfvars == <<lfdir, lfdirty, lfdisk, lfltab, lffile, lfpanic, lfwrong>>

LNULL == -1    \* LF_INULL, LF_DNULL
LfDevs == 0 .. Nlfl - 1
Ibs == 0 .. LfIblocks - 1
Dbs == 1 .. LfDblocks
LF_IDATA == LF_BLKSIZ * LF_IBLEN

(* lfibclear *)
IbClear(offset) == [next |-> LNULL, offset |-> offset, dba |-> [i \in 0 .. LF_IBLEN - 1 |-> LNULL]]
Blank == [i \in 0 .. LF_BLKSIZ - 1 |-> DFILL]

(* lflinit *)
Unopened == [used |-> FALSE, name |-> "", mode |-> {}, pos |-> 0, inum |-> LNULL, ib |-> IbClear(0),
             dnum |-> 0, db |-> Blank, byte |-> LF_BLKSIZ, ibdirty |-> FALSE, dbdirty |-> FALSE]

(* lfscreate: the lists of free blocks go through the blocks themselves *)
Create == LET next(i, n) == IF i = n THEN LNULL ELSE i + 1 IN
  [dir |-> [dfree |-> 1, ifree |-> 0, files |-> << >>],
   ib |-> [i \in Ibs |-> [IbClear(0) EXCEPT !.next = next(i, LfIblocks - 1)]],
   db |-> [i \in Dbs |-> [next |-> next(i, LfDblocks), data |-> Blank]]]

(* lfsinit, and lfsopen's first read of the directory *)
LfInit == /\ lfdisk = Create /\ lfdir = Create.dir /\ lfdirty = FALSE
          /\ lfltab = [d \in LfDevs |-> Unopened]
          /\ lffile = << >>
          /\ lfpanic = FALSE /\ lfwrong = FALSE

-----------------------------------------------------------------------------
(* Steps on s, a record of the directory, its dirty flag, the disk, the    *)
(* control block f of one file, and "the system has panicked"              *)

Now(d) == [dir |-> lfdir, dirty |-> lfdirty, disk |-> lfdisk, f |-> lfltab[d], panic |-> lfpanic]
Become(d, s) == /\ lfdir' = s.dir /\ lfdirty' = s.dirty /\ lfdisk' = s.disk
                /\ lfltab' = [lfltab EXCEPT ![d] = s.f] /\ lfpanic' = s.panic

PutDir(s) == [s EXCEPT !.disk.dir = s.dir, !.dirty = FALSE]

(* lfibput *)
IbPut(s, i, ib) == [s EXCEPT !.disk.ib[i] = ib]
PutData(s) == IF s.f.dbdirty THEN [s EXCEPT !.disk.db[s.f.dnum] = [next |-> LNULL, data |-> s.f.db],
                                            !.f.dbdirty = FALSE]
              ELSE s
PutIndex(s) == IF s.f.ibdirty THEN [IbPut(s, s.f.inum, s.f.ib) EXCEPT !.f.ibdirty = FALSE] ELSE s

(* lfflush *)
Flush(s) == PutIndex(PutData(IF s.dirty THEN PutDir(s) ELSE s))

(* lfibget, into the file's copy *)
IbGet(s, i) == [s EXCEPT !.f.ib = s.disk.ib[i], !.f.inum = i]

(* lfiballoc, lfdballoc: the directory is written at once *)
IbAlloc(s) == IF s.dir.ifree = LNULL THEN [s EXCEPT !.panic = TRUE]
              ELSE PutDir([s EXCEPT !.dir.ifree = s.disk.ib[s.dir.ifree].next])
DbAlloc(s) == IF s.dir.dfree = LNULL THEN [s EXCEPT !.panic = TRUE]
              ELSE [PutDir([s EXCEPT !.dir.dfree = s.disk.db[s.dir.dfree].next])
                      EXCEPT !.f.db = Blank]

(* lfdbfree *)
DbFree(s, b) ==
  LET t == [s EXCEPT !.disk.db[b] = [next |-> s.dir.dfree, data |-> Blank], !.dir.dfree = b]
  IN [t EXCEPT !.disk.dir = t.dir]

-----------------------------------------------------------------------------
(* lfsetup *)

BugHasIndex(s) == s.f.inum # LNULL

(* the index block in memory, or one behind it, covers the position *)
HasIndex(s) == s.f.inum # LNULL /\ s.f.pos >= s.f.ib.offset

FirstIndex(s) ==
  LET name == s.f.name
      first == s.dir.files[name].ilist
      t == IbAlloc(s) IN
  IF HasIndex(s) THEN s
  ELSE IF first # LNULL THEN IbGet(s, first)
  ELSE IF t.panic THEN t
  ELSE [t EXCEPT !.f.ib = IbClear(0), !.f.inum = s.dir.ifree, !.f.ibdirty = TRUE,
                 !.dir.files[name].ilist = s.dir.ifree]

Extend(s) ==
  LET new == s.dir.ifree
      t == IbAlloc(s) IN
  IF t.panic THEN t
  ELSE [IbPut(t, s.f.inum, [s.f.ib EXCEPT !.next = new])
          EXCEPT !.f.ib = IbClear(s.f.ib.offset + LF_IDATA), !.f.inum = new, !.f.ibdirty = TRUE]

RECURSIVE CoveringIndex(_)
CoveringIndex(s) ==
  LET t == IF s.f.ib.next = LNULL THEN Extend(s) ELSE IbGet(s, s.f.ib.next) IN
  IF s.panic \/ (s.f.pos \div LF_IDATA) * LF_IDATA <= s.f.ib.offset THEN s
  ELSE CoveringIndex([t EXCEPT !.f.dnum = LNULL])

DataBlock(s) ==
  LET i == (s.f.pos % LF_IDATA) \div LF_BLKSIZ
      b == s.f.ib.dba[i]
      t == DbAlloc(s) IN
  IF s.panic THEN s
  ELSE IF b = LNULL
  THEN IF t.panic THEN t
       ELSE [t EXCEPT !.f.ib.dba[i] = s.dir.dfree, !.f.ibdirty = TRUE, !.f.dnum = s.dir.dfree]
  ELSE IF b # s.f.dnum THEN [s EXCEPT !.f.db = s.disk.db[b].data, !.f.dbdirty = FALSE, !.f.dnum = b]
  ELSE s

Setup(s) ==
  LET t == DataBlock(CoveringIndex(FirstIndex(
             IF s.f.ibdirty \/ s.f.dbdirty THEN Flush(s) ELSE s)))
  IN [t EXCEPT !.f.byte = t.f.pos % LF_BLKSIZ]

(* the block for the next byte, when the byte pointer is outside it *)
Ready(s) == IF s.f.byte >= LF_BLKSIZ THEN Setup(s) ELSE s

-----------------------------------------------------------------------------

Size(d) == lfdir.files[lfltab[d].name].size
LfUses(d) == ~lfpanic /\ lfltab[d].used

(* lfsopen *)
LfOpen(name, mode) ==
  LET free == {d \in LfDevs : ~lfltab[d].used}
      d == CHOOSE e \in free : \A g \in free : e <= g
      bits == LfGetMode(mode)
      known == name \in DOMAIN lfdir.files IN
  /\ ~lfpanic /\ free # {} /\ bits # BadMode
  /\ \A e \in LfDevs \ free : lfltab[e].name # name
  /\ IF known THEN "n" \notin bits
     ELSE "o" \notin bits /\ Cardinality(DOMAIN lfdir.files) < LF_NUM_DIR_ENT
  /\ lfltab' = [lfltab EXCEPT ![d] =
       [@ EXCEPT !.used = TRUE, !.name = name, !.mode = bits \cap {"r", "w"}, !.pos = 0,
                 !.inum = LNULL, !.dnum = LNULL, !.byte = LF_BLKSIZ,
                 !.ibdirty = FALSE, !.dbdirty = FALSE]]
  /\ LET names == DOMAIN lfdir.files \cup {name} IN
     /\ lfdir' = [lfdir EXCEPT !.files = [n \in names |->
          IF n \in DOMAIN @ THEN @[n] ELSE [size |-> 0, ilist |-> LNULL]]]
     /\ lffile' = [n \in names |-> IF n \in DOMAIN lffile THEN lffile[n] ELSE << >>]
  /\ UNCHANGED <<lfdirty, lfdisk, lfpanic, lfwrong>>

(* lflgetc, and lflread byte by byte *)
LfGetc(d) ==
  LET s == Ready(Now(d)) IN
  /\ LfUses(d) /\ lfltab[d].pos < Size(d)
  /\ Become(d, IF s.panic THEN s ELSE [s EXCEPT !.f.byte = @ + 1, !.f.pos = @ + 1])
  /\ lfwrong' = (lfwrong \/ s.panic \/ s.f.db[s.f.byte] # lffile[s.f.name][s.f.pos + 1])
  /\ UNCHANGED lffile

(* lflputc, and lflwrite byte by byte. The mode is of no account. *)
LfPutc(d, b) ==
  LET s == Ready(Now(d))
      name == lfltab[d].name
      end == lfltab[d].pos >= Size(d)
      grown == IF end THEN [s EXCEPT !.dir.files[name].size = @ + 1, !.dirty = TRUE] ELSE s IN
  /\ LfUses(d) /\ lfltab[d].pos <= Size(d) /\ lfltab[d].pos < LfMaxPos
  /\ IF s.panic THEN Become(d, s) /\ UNCHANGED lffile
     ELSE /\ Become(d, [grown EXCEPT !.f.db[s.f.byte] = b, !.f.byte = @ + 1, !.f.pos = @ + 1,
                                     !.f.dbdirty = TRUE])
          /\ lffile' = [lffile EXCEPT ![name] =
               IF end THEN Append(@, b) ELSE [@ EXCEPT ![lfltab[d].pos + 1] = b]]
  /\ UNCHANGED lfwrong

(* lflseek *)
LfSeek(d, offset) ==
  /\ LfUses(d) /\ offset <= Size(d)
  /\ Become(d, [Now(d) EXCEPT !.f.pos = offset, !.f.byte = LF_BLKSIZ])
  /\ UNCHANGED <<lffile, lfwrong>>

(* lflclose *)
LfClose(d) ==
  LET s == Now(d) IN
  /\ LfUses(d)
  /\ Become(d, [(IF s.dirty \/ s.f.dbdirty \/ s.f.ibdirty THEN Flush(s) ELSE s)
                  EXCEPT !.f.used = FALSE])
  /\ UNCHANGED <<lffile, lfwrong>>

-----------------------------------------------------------------------------
(* lftruncate *)

RECURSIVE FreeData(_, _, _)
FreeData(s, ib, i) ==
  IF i = LF_IBLEN THEN s
  ELSE FreeData(IF ib.dba[i] = LNULL THEN s ELSE DbFree(s, ib.dba[i]), ib, i + 1)

(* the last index block of the file points to the free list *)
LastBlock(ib, ifree) == IF ib.next = LNULL THEN ifree ELSE ib.next

RECURSIVE FreeIndex(_, _, _)
FreeIndex(s, i, ifree) ==
  LET ib == s.disk.ib[i]
      next == LastBlock(ib, ifree) IN
  IF i = ifree THEN s
  ELSE FreeIndex(IbPut(FreeData(s, ib, 0), i, [IbClear(0) EXCEPT !.next = next]), next, ifree)

Truncate(s) ==
  LET t == IF s.f.ibdirty \/ s.f.dbdirty THEN Flush(s) ELSE s
      name == s.f.name
      first == s.dir.files[name].ilist
      u == FreeIndex([t EXCEPT !.f.pos = 0, !.f.inum = LNULL, !.f.dnum = LNULL,
                               !.f.byte = LF_BLKSIZ,
                               !.dir.files[name] = [size |-> 0, ilist |-> LNULL]],
                     first, s.dir.ifree)
  IN IF s.dir.files[name].size = 0 THEN s ELSE [u EXCEPT !.dir.ifree = first, !.dirty = TRUE]

(* lflcontrol(LF_CTL_TRUNC) *)
LfTruncate(d) == /\ LfUses(d)
                 /\ Become(d, Truncate(Now(d)))
                 /\ lffile' = [lffile EXCEPT ![lfltab[d].name] = << >>]
                 /\ UNCHANGED lfwrong

LfNext == \/ \E name \in LfNames, mode \in LfModes : LfOpen(name, mode)
          \/ \E d \in LfDevs : \/ LfGetc(d) \/ LfClose(d) \/ LfTruncate(d)
                               \/ \E b \in LfBytes : LfPutc(d, b)
                               \/ \E i \in 0 .. LfMaxPos : LfSeek(d, i)

LfSpec == LfInit /\ [][LfNext]_lfvars

-----------------------------------------------------------------------------

LfTypeOK ==
  /\ lfdir.dfree \in Dbs \cup {LNULL} /\ lfdir.ifree \in Ibs \cup {LNULL}
  /\ \A d \in LfDevs : lfltab[d].pos \in Nat /\ lfltab[d].byte \in 0 .. LF_BLKSIZ

(* the blocks of a chain *)
RECURSIVE Chain(_, _)
Chain(i, next) == IF i = LNULL THEN << >> ELSE <<i>> \o Chain(next[i], next)

(* index blocks and data blocks as they are: the copies of the open files  *)
(* where there are any, the disk otherwise                                 *)
OpenFiles == {lfltab[d] : d \in {e \in LfDevs : lfltab[e].used}}
IbNow == [i \in Ibs |-> IF \E f \in OpenFiles : f.inum = i
                        THEN (CHOOSE f \in OpenFiles : f.inum = i).ib ELSE lfdisk.ib[i]]
DbNow == [b \in Dbs |-> IF \E f \in OpenFiles : f.dnum = b
                        THEN (CHOOSE f \in OpenFiles : f.dnum = b).db ELSE lfdisk.db[b].data]
IbNext == [i \in Ibs |-> IbNow[i].next]
DbNext == [b \in Dbs |-> lfdisk.db[b].next]

DataOf(name) == LET ibs == Chain(lfdir.files[name].ilist, IbNext)
                IN [k \in 0 .. Len(ibs) * LF_IBLEN - 1 |->
                      IbNow[ibs[k \div LF_IBLEN + 1]].dba[k % LF_IBLEN]]

(* Every read gives the byte last written there. What is in the copies and *)
(* on the disk is what was written, file by file; and every index block    *)
(* and every data block belongs to one file or to the free list.           *)
LfKept == ~lfpanic =>
  /\ ~lfwrong
  /\ \A n \in DOMAIN lffile :
        /\ lfdir.files[n].size = Len(lffile[n])
        /\ \A i \in 0 .. Len(lffile[n]) - 1 :
              DbNow[DataOf(n)[i \div LF_BLKSIZ]][i % LF_BLKSIZ] = lffile[n][i + 1]
  /\ LET all(free, ofFiles(_)) == Len(free) + Cardinality(UNION {ofFiles(n) : n \in DOMAIN lffile})
         ibs(n) == LET c == Chain(lfdir.files[n].ilist, IbNext) IN {c[i] : i \in DOMAIN c}
         dbs(n) == {DataOf(n)[k] : k \in DOMAIN DataOf(n)} \ {LNULL}
     IN /\ all(Chain(lfdir.ifree, [i \in Ibs |-> lfdisk.ib[i].next]), ibs) = LfIblocks
        /\ all(Chain(lfdir.dfree, DbNext), dbs) = LfDblocks
        /\ \A m, n \in DOMAIN lffile : m # n => ibs(m) \cap ibs(n) = {} /\ dbs(m) \cap dbs(n) = {}
=============================================================================
