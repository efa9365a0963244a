SPECIFICATION Spec
SYMMETRY Symmetry
CONSTANTS
 Procs={NETIN,IPOUT,a1,a2}
 NoProc=NoProc
 NETIN=NETIN
 IPOUT=IPOUT
 Hosts={h1,h2}
 LocalHosts={h1,h2}
 Router=NoHost
 Me=Me
 NoHost=NoHost
 Broadcast=Broadcast
 AnyHost=AnyHost
 NBufs=3
 ARP_SIZ=1
 ARP_RETRY=2
 UDP_SLOTS=1
 UDP_QSIZ=1
 UdPorts={1}
 ICMP_SLOTS=1
 ICMP_QSIZ=1
 IP_OQSIZ=1
 NtFrames=2
 NtKinds={"udp","reply","echo"}
 Nrfl=1
 RF_RETRIES=2
 RfNames={"f"}
 RfModes<-FileModesUsed
 RfFunctions={"delete"}
 RfQueue=1
 RfWrites=1
 RfExchanges=3
 TFTP_MAXDATA=2
 TFTP_MAXRETRIES=3
 TfSizes={0,3,4}
 TfRooms={3,5}
 TfSessions=3
 DHCP_RETRY=1
 DhServers={s1,s2}
 Stranger=Stranger
 DhTicks=1
 DnsNames<-NamesAsked
 DnsPrefixes<-BeginningLabels
 DnsQueries=2
INVARIANTS
 TypeOK
 NtBuffersKept
 NtWaitersTold
 NtPendingOwned
 RfReadsWritten
 TfInOrder
 DhPromised
 DnsOwnName
CHECK_DEADLOCK FALSE
