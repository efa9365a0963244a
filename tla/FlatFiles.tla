----------------------------- MODULE FlatFiles ------------------------------
(***************************************************************************)
(* The file system in memory (system/fs.c over the block store of bs.c),   *)
(* which the arm-qemu build includes. One process at a time calls it. Of   *)
(* the disk the inodes are kept, not the data: what was never written, or  *)
(* has been overwritten by data, is undetermined and may turn out to be    *)
(* anything. The descriptors that callers use are ones they were given.    *)
(* fs_seek is left out: no inode gets a size, so it only ever refuses.     *)
(***************************************************************************)
EXTENDS Integers, Sequences, FiniteSets

CONSTANTS FsNames,         \* file names, none of them empty
          FsLongest,       \* those of just FILENAMELEN characters
          DIRECTORY_SIZE, NUM_FD, INODEBLOCKS, MDEV_BLOCK_SIZE, MDEV_NUM_BLOCKS,
          FsInodes, INODES_PER_BLOCK,
          FsCounts,        \* bytes read or written at once
          FsTransfers      \* bound: reads and writes

SB_BLK == 0
BM_BLK == 1
FIRST_INODE_BLOCK == 2
InodeBlock(n) == FIRST_INODE_BLOCK + (n \div INODES_PER_BLOCK)
FIRST_DATA_BLOCK == InodeBlock(FsInodes - 1) + 1

ASSUME FlatFilesAssumption ==
  /\ {DIRECTORY_SIZE, NUM_FD, MDEV_BLOCK_SIZE, MDEV_NUM_BLOCKS, FsInodes, INODES_PER_BLOCK}
       \subseteq Nat \ {0}
  /\ INODEBLOCKS \in Nat /\ INODEBLOCKS > 2 /\ FsCounts \subseteq Nat
  /\ FsTransfers \in Nat /\ MDEV_NUM_BLOCKS > FIRST_DATA_BLOCK

Unknown == -2   \* an undetermined number
FsBlank == [id |-> Unknown, blocks |-> [i \in 0 .. INODEBLOCKS - 1 |-> Unknown]]

VARIABLES fsmask,   \* the blocks marked in fsd.freemask
          fsdir,    \* fsd.root_dir, the entries in use
          fsoft,    \* oft
          fsnextfd, fsnextdata, fsnextinode,
          fsinode,  \* the inodes on the disk
          fsgiven,  \* the blocks that writes were given since fs_mkfs
          fstwice,  \* one of them was given again
          fsstray,  \* memory outside the tables or the device was used
          fsmoved   \* reads and writes so far

fsvars == <<fsmask, fsdir, fsoft, fsnextfd, fsnextdata, fsnextinode, fsinode, fsgiven, fstwice, fsstray,
           fsmoved>>

Descriptors == 0 .. NUM_FD - 1
IsOpen(fd) == fsoft[fd].open

(* bs_mkdev and fs_mkfs for the first time *)
FsInit ==
  /\ fsmask = {SB_BLK, BM_BLK} /\ fsgiven = {} /\ fstwice = FALSE /\ fsstray = FALSE
  /\ fsdir = <<>> /\ fsoft = [fd \in Descriptors |-> [open |-> FALSE, pos |-> 0, in |-> FsBlank]]
  /\ fsnextfd = 0 /\ fsnextdata = 0 /\ fsnextinode = 0
  /\ fsinode = [n \in 0 .. FsInodes - 1 |-> FsBlank]
  /\ fsmoved = 0

(* and again: a new device and a new mask; directory, descriptors and the  *)
(* places where searches go on stay                                        *)
FsMkfs == /\ fsmask' = {SB_BLK, BM_BLK} /\ fsgiven' = {}
          /\ fsinode' = [n \in 0 .. FsInodes - 1 |-> FsBlank]
          /\ UNCHANGED <<fsdir, fsoft, fsnextfd, fsnextdata, fsnextinode, fstwice, fsstray>>

-----------------------------------------------------------------------------
(* Names and descriptors *)

(* strncmp over FILENAMELEN characters: the last of a longest name was cut *)
FsNamed(name) == {i \in 1 .. Len(fsdir) : fsdir[i].name = name /\ ~fsdir[i].cut}
FsEntry(name) == fsdir[CHOOSE i \in FsNamed(name) : \A j \in FsNamed(name) : i <= j]

(* the search for a closed descriptor, round the table from next_open_fd *)
FsProbe(j) == (fsnextfd + j) % NUM_FD
FsClosed == {j \in Descriptors : ~IsOpen(FsProbe(j))}
FsNextFd == FsProbe(CHOOSE j \in FsClosed : \A k \in FsClosed : j <= k)

(* what an open descriptor of an inode starts with *)
FsFresh(in) == [open |-> TRUE, pos |-> 0, in |-> in]

(* fs_open, fs_get_inode_by_num; the inode of an entry may be -1 *)
FsOpen(name) ==
  LET n == FsEntry(name).inode IN
  /\ FsNamed(name) # {} /\ FsClosed # {}
  /\ fsnextfd' = FsNextFd
  /\ IF n = -1 THEN fsstray' = TRUE /\ UNCHANGED fsoft
     ELSE fsoft' = [fsoft EXCEPT ![FsNextFd] = FsFresh(fsinode[n])] /\ UNCHANGED fsstray
  /\ UNCHANGED <<fsmask, fsdir, fsnextdata, fsnextinode, fsinode, fsgiven, fstwice>>

(* the search for an inode whose number is none, from next_free_inode: the *)
(* steps it may take, where an undetermined number may look either way     *)
FsInodeAt(j) == (fsnextinode + j) % FsInodes
FsLooksFree(n) == IF fsinode[n].id = Unknown THEN BOOLEAN ELSE {fsinode[n].id \notin 0 .. FsInodes - 1}
FsSteps == {j \in 0 .. FsInodes : /\ \A i \in 0 .. j - 1 : FALSE \in FsLooksFree(FsInodeAt(i))
                                  /\ j < FsInodes => TRUE \in FsLooksFree(FsInodeAt(j))}

(* fs_create, fs_put_inode_by_num: the entry is there before a descriptor  *)
(* is found for it, and whether or not the directory has room. When every  *)
(* inode is in use the search ends where it began, with the inode before   *)
(* that one in its hands.                                                  *)
FsCreate(name) ==
  LET entry(n) == [name |-> name, cut |-> name \in FsLongest, inode |-> n]
      made(j) == [fsinode[FsInodeAt(IF j < FsInodes THEN j ELSE j - 1)] EXCEPT !.id = FsInodeAt(j)] IN
  /\ FsNamed(name) = {}
  /\ fsstray' = (Len(fsdir) = DIRECTORY_SIZE)
  /\ IF FsClosed = {}
     THEN fsdir' = Append(fsdir, entry(-1)) /\ UNCHANGED <<fsoft, fsnextfd, fsnextinode, fsinode>>
     ELSE /\ fsnextfd' = FsNextFd
          /\ \E j \in FsSteps :
               /\ fsdir' = Append(fsdir, entry(FsInodeAt(j)))
               /\ fsnextinode' = FsInodeAt(j)
               /\ fsoft' = [fsoft EXCEPT ![FsNextFd] = FsFresh(made(j))]
               /\ fsinode' = [fsinode EXCEPT ![FsInodeAt(j)] = made(j)]
  /\ UNCHANGED <<fsmask, fsnextdata, fsgiven, fstwice>>

FsClose(fd) == /\ IsOpen(fd)
               /\ fsoft' = [fsoft EXCEPT ![fd].open = FALSE]
               /\ UNCHANGED <<fsmask, fsdir, fsnextfd, fsnextdata, fsnextinode, fsinode, fsgiven, fstwice,
                              fsstray>>

-----------------------------------------------------------------------------
(* Reading and writing. A transfer that would end at the last direct block *)
(* or beyond is refused.                                                   *)

FsFits(fd, count) == IsOpen(fd) /\ count + fsoft[fd].pos < MDEV_BLOCK_SIZE * (INODEBLOCKS - 2)

FsBlockAt(fd, pos) == fsoft[fd].in.blocks[pos \div MDEV_BLOCK_SIZE]

(* fs_read: blocks whose number is undetermined may be beyond the device,  *)
(* or -1, where the reading ends                                           *)
FsRead(fd, count) ==
  LET pos == fsoft[fd].pos
      starts == {pos + k * MDEV_BLOCK_SIZE : k \in 0 .. (count - 1) \div MDEV_BLOCK_SIZE}
      unknown == {s \in starts : FsBlockAt(fd, s) = Unknown} IN
  /\ FsFits(fd, count) /\ count > 0
  /\ \/ fsoft' = [fsoft EXCEPT ![fd].pos = pos + count] /\ UNCHANGED fsstray
     \/ /\ unknown # {}
        /\ \/ \E s \in unknown : fsoft' = [fsoft EXCEPT ![fd].pos = s] /\ UNCHANGED fsstray
           \/ fsstray' = TRUE /\ UNCHANGED fsoft
  /\ UNCHANGED <<fsmask, fsdir, fsnextfd, fsnextdata, fsnextinode, fsinode, fsgiven, fstwice>>

(* bs_bwrite of data: inodes in the block are undetermined afterwards *)
FsOverwritten(inodes, b) == [n \in DOMAIN inodes |-> IF InodeBlock(n) = b THEN FsBlank ELSE inodes[n]]

(* the search for a free block: up to the end of the device, then from the *)
(* first data block; as many steps as there are data blocks                *)
FsDataBlocks == MDEV_NUM_BLOCKS - FIRST_DATA_BLOCK
FsSearch(from, j) == IF from + j < MDEV_NUM_BLOCKS THEN from + j
                     ELSE FIRST_DATA_BLOCK + ((from + j - MDEV_NUM_BLOCKS) % FsDataBlocks)

BugFsAllocate(x) == [x EXCEPT !.given = @ \cup {x.next}, !.twice = @ \/ x.next \in x.given]

(* the block the search has stopped at is marked *)
FsAllocate(x) == [x EXCEPT !.mask = @ \cup {x.next}, !.given = @ \cup {x.next},
                           !.twice = @ \/ x.next \in x.given]

(* one turn of the loop of fs_write, on x: the mask, the next block to     *)
(* look at, the descriptor, the inodes, the bytes left to write            *)
FsTurn(x) ==
  LET free == {j \in 0 .. FsDataBlocks - 1 : FsSearch(x.next, j) \notin x.mask}
      found == FsSearch(x.next, CHOOSE j \in free : \A k \in free : j <= k)
      y == FsAllocate([x EXCEPT !.next = found])
      len == IF x.left < MDEV_BLOCK_SIZE THEN x.left ELSE MDEV_BLOCK_SIZE IN
  CASE x.left = 0 \/ x.full -> x
    [] x.left > 0 /\ ~x.full /\ free = {} -> [x EXCEPT !.full = TRUE, !.next = FsSearch(x.next, FsDataBlocks)]
    [] OTHER -> [y EXCEPT !.of.in.blocks[x.of.pos \div MDEV_BLOCK_SIZE] = found,
                          !.inodes = FsOverwritten(@, found),
                          !.of.pos = @ + len, !.left = @ - len]

(* fs_put_inode_by_num, for an inode whose own number may be undetermined *)
FsPut(inodes, in) ==
  IF in.id = Unknown THEN {inodes} \cup {[inodes EXCEPT ![n] = in] : n \in DOMAIN inodes}
  ELSE {[inodes EXCEPT ![in.id] = in]}

(* fs_write: the first bytes go to the block that the inode names already, *)
(* be there one or not; without a free block the inode is not put          *)
FsWrite(fd, count) ==
  LET of == fsoft[fd]
      room == MDEV_BLOCK_SIZE - (of.pos % MDEV_BLOCK_SIZE)
      first == IF count < room THEN count ELSE room
      b == FsBlockAt(fd, of.pos)
      start(k) == [mask |-> fsmask, next |-> fsnextdata, of |-> [of EXCEPT !.pos = @ + first],
                   inodes |-> IF first = 0 THEN fsinode ELSE FsOverwritten(fsinode, k),
                   left |-> count - first, full |-> FALSE, given |-> fsgiven, twice |-> fstwice]
      turns(k) == LET t[i \in 0 .. INODEBLOCKS] == IF i = 0 THEN start(k) ELSE FsTurn(t[i - 1])
                  IN t[INODEBLOCKS] IN
  /\ FsFits(fd, count)
  /\ \/ /\ (b = Unknown /\ first > 0) \/ of.in.id = Unknown
        /\ fsstray' = TRUE
        /\ UNCHANGED <<fsmask, fsoft, fsnextdata, fsinode, fsgiven, fstwice>>
     \/ \E k \in IF b = Unknown THEN 0 .. MDEV_NUM_BLOCKS - 1 ELSE {b} :
          LET x == turns(k) IN
          /\ fsmask' = x.mask /\ fsnextdata' = x.next /\ fsoft' = [fsoft EXCEPT ![fd] = x.of]
          /\ fsinode' \in IF x.full THEN {x.inodes} ELSE FsPut(x.inodes, x.of.in)
          /\ fsgiven' = x.given /\ fstwice' = x.twice
          /\ UNCHANGED fsstray
  /\ UNCHANGED <<fsdir, fsnextfd, fsnextinode>>

FsTransfer == /\ fsmoved < FsTransfers /\ fsmoved' = fsmoved + 1
              /\ \E fd \in Descriptors, n \in FsCounts : FsRead(fd, n) \/ FsWrite(fd, n)

FsNext == /\ ~fsstray
          /\ \/ FsTransfer
             \/ /\ \/ FsMkfs
                   \/ \E name \in FsNames : FsOpen(name) \/ FsCreate(name)
                   \/ \E fd \in Descriptors : FsClose(fd)
                /\ UNCHANGED fsmoved

FsSpec == FsInit /\ [][FsNext]_fsvars

-----------------------------------------------------------------------------

FsTypeOK == /\ fsnextfd \in Descriptors /\ fsnextinode \in 0 .. FsInodes - 1
            /\ fsnextdata \in 0 .. MDEV_NUM_BLOCKS - 1
            /\ \A fd \in Descriptors : fsoft[fd].pos < MDEV_BLOCK_SIZE * (INODEBLOCKS - 2)

(* However files are created, opened, written in pieces and closed, until  *)
(* the device is full and beyond: no block is given to two writes, none of *)
(* them is the file system's or the mask's own, and each is marked.        *)
FsBlocksOnce == /\ ~fstwice /\ fsgiven \subseteq fsmask
                /\ fsgiven \cap {SB_BLK, BM_BLK} = {}
=============================================================================
