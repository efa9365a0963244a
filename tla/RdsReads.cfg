SPECIFICATION RdSpec
CONSTANTS
 Procs={p1,p2}
 NoProc=NoProc
 RdComproc=RdComproc
 RD_BUFFS=2
 RD_RETRIES=2
 RdBlocks={1,2}
 RdWrites=1
 RdExchanges=3
INVARIANTS
 RdFresh
CHECK_DEADLOCK FALSE
