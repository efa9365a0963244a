SPECIFICATION Spec
CONSTANTS
 Procs={p1,p2}
 NoProc=NoProc
 NPORTS=2
 PTMSGS=2
 PtCounts={1,2}
 PtMaxSeq=2
 HEAP=7
 UNIT=8
 Requests={4,8,20}
 NBPOOLS=3
 PoolSizes={1,2}
 BpMemory=4
 BpSems=2
 Producers={w1,w2}
 Consumers={r1,r2,r3}
 FutureModes={"exclusive","shared","queue"}
 RgElements<-Elements
 RgCommand=cmd
 RgRounds=3
 MAXMARK=2
 Locations={"a","b"}
 Slots={1,2,3}
 NoNotice=NoNotice
 SHELL_MAXTOK=5
 ClLines<-Lines
 ClCommands<-Commands
 LONG_MAX=31
 LiBillion=10
 LiNumerals<-Numerals
 LiAddresses<-Addresses
 LiDays<-DaysShown
 LiHours={0,1,2,22,23}
 LiWidths={0,1,3}
 LiArrays<-Arrays
 IBLEN=2
 OBLEN=1
 UaLen=2
 UaInputs=2
 TY_IBUFLEN=2
 TY_OBUFLEN=1
 TY_EBUFLEN=2
 UART_FIFO_SIZE=1
 TyModes={"raw","cooked"}
 TyCounts={2}
 TyChars={"letter","newline","erase","kill","eof","stop","start"}
 TyTyped=3
 LOOP_BUFFER=2
 LbLens={1,3}
 LbWritten=4
 TxRing=3
 EoPackets=5
 RxRing=3
 EiPackets=6
 QeTxRing=3
 QeRxRing=2
 ETH_NUM_MCAST=1
 QeGroups={"group"}
 QePackets=5
 Nlfl=1
 LfNames={"a","b"}
 LfModes<-OpenModes
 LF_NUM_DIR_ENT=2
 LF_BLKSIZ=2
 LF_IBLEN=1
 LfIblocks=2
 LfDblocks=2
 LfBytes={1,2}
 LfMaxPos=3
 RdComproc=RdComproc
 RD_BUFFS=2
 RD_RETRIES=2
 RdBlocks={1,2}
 RdWrites=2
 RdExchanges=2
 NNAMES=13
 NM_MAXLEN=8
 NmPrefixes<-MountPoints
 NmNames<-PathNames
 RM_BLKS=2
 RM_BLKSIZ=1
 RmBytes={1}
 FsNames={"a","l"}
 FsLongest={"l"}
 DIRECTORY_SIZE=2
 NUM_FD=2
 INODEBLOCKS=9
 MDEV_BLOCK_SIZE=2
 MDEV_NUM_BLOCKS=6
 FsInodes=2
 INODES_PER_BLOCK=2
 FsCounts={1,12}
 FsTransfers=2
INVARIANTS
 TypeOK
 BpAccounted
 PortsKept
 FtNoneForgotten
 RgCountsDown
 MkMarksStay
 ShWaitsForOwn
 TextKept
 
 PacketsKept
 FilesKept
 RdKept
PROPERTIES
 MemPromise
 NmNamesStay
CHECK_DEADLOCK FALSE
