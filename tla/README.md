# A verification project for Xinu

Xinu is a small teaching kernel: processes with fixed priorities, counting semaphores,
one-message mailboxes, delays, and on top of them memory and buffer pools, ports, devices, a
network stack, file systems and a shell. The tree builds for two ARM boards, `arm-qemu` and
`arm-bbb`, which have different clock interrupt handlers. This directory holds TLA+ modules
translated from that source, TLC configurations that check them on small instances, and proofs
checked by TLAPS. Paths below are relative to the repository (`src/`).

The **process manager** is modelled call by call, checked and largely proved. **Everything above
it** - memory, buffers, ports, marks, futures, the drivers, the disks and file systems, the
network stack with its clients, the shell and the library - has a module each, checked in two
runs. Section 8 says what is not modelled.

Contents: 1 the system · 2 the modules and the code · 3 what is abstracted, and why · 4 the
runs · 5 what the runs found · 6 the proofs · 7 the plan · 8 what is not modelled

---

## 1. The system

### How it works as a whole

Everything shared is protected by disabling interrupts. A system call starts with `disable()`
and ends with `restore()`; in between nothing happens *unless the call itself gives up the
processor*. It does so by calling `resched` (usually through `ready`, `wait`, `receive`,
`sleepms`, ...), and what it has read before that point may be out of date after it. Those
points are where the kernel is hard to get right and hard to test: the interleaving depends on
priorities and on who happens to be ready. The other source of interleaving is the clock
interrupt, which can arrive wherever interrupts are enabled.

A call that has to release several processes brackets its loop with `resched_cntl(DEFER_START)`
and `DEFER_STOP`, so that a released process does not run before the loop is over.

### Components

| component | state | operations | interacts with | what is hard | what makes it correct |
|---|---|---|---|---|---|
| scheduler (`resched.c`, `ready.c`, `yield.c`, `chprio.c`) | `currpid`, ready list, `preempt`, `Defer` | `resched`, `ready`, `resched_cntl`, `yield`, `chprio` | called by every other component | deferral; keys of the ready list against priorities | highest eligible process runs; equals take turns; no switch while deferred |
| process queues (`queue.c`, `insert.c`, `insertd.c`, `getitem.c`, `newqueue.c`) | `queuetab`: links and one key per process | `enqueue`, `dequeue`, `getitem`, `insert`, `insertd` | lists of scheduler, clock, semaphores, futures share one table | a process linked twice corrupts two lists | each process on the one list its state names |
| processes (`create.c`, `kill.c`, `suspend.c`, `resume.c`, ...) | `proctab`, `prcount`, `nextpid` | `create`, `resume`, `suspend`, `kill`, exit, `xdone` | memory (stacks), messages (death notice), semaphores | `kill` may lose the processor before its victim has left its list; entries are reused | `prcount` exact; no stack shared; system halts with the last user process |
| semaphores | `semtab` | `wait`, `signal`, `signaln`, `semcreate`, `semdelete`, `semreset` | scheduler; `kill` repairs counts | count and queue changed separately | count and queue agree; FIFO release |
| messages | `prmsg`, `prhasmsg` | `send`, `receive`, `recvclr`, `recvtime` | scheduler, clock, `kill` | message against timeout | no message lost or overwritten; no false wakeup |
| clock (`clkhandler.c`, `sleep.c`, `wakeup.c`, `unsleep.c`) | delta list `sleepq` | `sleepms`, `recvtime`, `wakeup`, tick | scheduler | relative keys; keys of zero; two handlers | one independent timer per process |
| free memory (`getmem.c`, `getstk.c`, `freemem.c`) | `memlist` | allocate from the bottom or top, free with coalescing | create, kill, buffer pools | coalescing on both sides | blocks disjoint, sorted, coalesced, none lost |
| buffer pools | `buftab` | `mkbufpool`, `getbuf`, `freebuf` | semaphores, memory | failure half way through `mkbufpool` | a buffer has one holder |
| ports | `porttab`, shared node list | `ptcreate`, `ptsend`, `ptrecv`, `ptreset`, `ptdelete` | semaphores; a caller's dispose function | deletion while others wait; shared pool | no message crosses a reset; FIFO |
| marks (`mark.c`) | `marks[]` | `mark` | semaphores | bound tested outside the lock | table not overrun |
| futures | `future` objects, two queues each | `future_alloc`, `future_get`, `future_set`, `future_free` | scheduler (own `PR_WAIT`), queues | stale waiter, interrupts left disabled | a waiter gets the value set |
| uart (`device/uart*`) | circular buffers, idle flag | read, write, interrupt | semaphores, hardware | upper half against interrupt | characters in order, none stuck |
| tty (`device/tty`) | three circular buffers, line mode | `ttyhandle_in`, `ttyhandle_out`, read, write, control | uart, semaphores | cursor arithmetic, erasing | what is typed is read |
| loopback | one circular buffer | putc, getc | semaphores | count used as an index | FIFO |
| ethernet, `device/eth` and `device/x86-galileo/eth` | two descriptor rings; multicast list | read, write, interrupt | network | rings wrapping, full rings | each packet once; an engine left without work is restarted |
| remote disk, remote file system | request queue and cache; sequence numbers | read, write, sync, ... | UDP, a server | lost and late replies | what is read was last written |
| local file system (`device/lfs`) | directory, index blocks, free lists | open, read, write, close, truncate | RAM disk | copies of blocks in memory, free lists | a block has one owner; what is read was written |
| flat file system (`fs.c`) | directory, open files, free-block mask | create, open, read, write, seek, close | block store | searches that go round; order of updates | a block is given out once |
| ARP, UDP, ICMP, IP | tables, packet queues, output queue | send, receive, input | ethernet driver, messages as wakeups, `recvtime` | timeouts racing answers, slots reused | a packet reaches the right slot once |
| DHCP, DNS, TFTP | the address, the time; else none that lasts | request and reply with retries | UDP | lost, late, duplicated replies; two callers at once | what is told was answered to this question |
| shell (`shell/shell.c`) | token buffer; child processes | parse, create, wait | tty, processes, messages | death notice lost | foreground command waited for |
| device switch, name space, RAM disk | device table, name table, disk | open and the other device calls, mount | all drivers | order of prefixes | a name keeps its device |
| library | none | printf, scanf, strtol, qsort, dates | - | limits of numbers and fields | results as defined |
| mmu, platform code, build tools | registers, or none | | | hardware, sequential | - |

`PROJECT.json` lists each with its files, status and reason, and lists under "hazards" every
place where the code is exposed to behaviour a test would hardly reach, with the properties
that watch over it.

---

## 2. The modules and the code

```
Queues ── Kernel ── MCKernel (runs)
   │         └── INSTANCE Timers (abstract specification)
   └── QueueProofs ── KernelProofs ── ProcessProofs ── ClockProofs
```

**`Queues`** - the lists of `queuetab` as sequences of process IDs from head to tail, and the
keys as one function for all lists, because each process has one key whatever list it is on.
`Enqueue`, `GetItem`, `Insert`, `Insertd` with `InsertdKeys`, and `UnsleepKeys` are the C
functions of those names. The scans of `insert` and `insertd` are written as "the place such
that everything before it passes the test and it does not".

**`Kernel`** - the process manager. Variables carry the C names (`prstate`, `prprio`,
`prhasmsg`, `readylist`, `sleepq`, `currpid`, `preempt`, `prcount`, `nextpid`, ...); `ndefers`
and `attempt` are `Defer`; `sstate`, `scount`, `squeue` are `semtab`. Two more say where
processes are in the kernel: `pc[p]` is `"user"` when `p` runs its own code with interrupts
enabled, else the point where `p` goes on when it is switched back in, and `arg[p]` holds its
local variables there.

A system call is one action up to the point where it may lose the processor:

| action | code | goes on in |
|---|---|---|
| `Create`, `Resume`, `Suspend`, `Yield`, `Chprio` | `create.c`, `resume.c`, `suspend.c`, `yield.c`, `chprio.c` | - (nothing is done after `resched`) |
| `Kill` | `kill.c` to `send(prparent, pid)`; `exit` and `userret` are a process killing itself | `KillFinish` |
| `Wait`, `Signal`, `Semcreate` | `wait.c`, `signal.c`, `semcreate.c` | - |
| `Signaln`, `Semdelete`, `Semreset` | the call up to its loop | `SignalnLoop`, `SemdeleteLoop`, `SemresetLoop`, one step per iteration |
| `Send`, `Receive` | `send.c`; `receive.c`, `recvclr.c`, `recvtime.c` with a message there | - |
| `ReceiveBlock`, `RecvtimeBlock` | `receive.c`, `recvtime.c` to `resched` | `TakeMessage` |
| `Sleepms` | `sleep.c` | - |
| `ClockTick` | both `clkhandler.c`, chosen by `Platform` | `WakeupLoop` (`wakeup.c`), `Preempt` (arm-bbb: the time slice) |

`Resched`, `Dispatch`, `Ready`, `DeferStart`, `DeferStop`, `Deliver`, `Release`, `Newpid`,
`Getstk` are the functions (or the parts of functions) these call; they take the values
`prstate`, the ready list and the keys have at the time of the call. A call that returns
`SYSERR` without having changed anything is a step that changes nothing, so it is not written
down; one that has changed something by then is (`Create` keeps the stack it has allocated when
`newpid` fails or the priority is refused).

**`Timers`** - what the delay calls promise: a timer per process that every tick brings one
closer, whoever else sleeps. It knows nothing of a delta list. The refinement mapping is at the
end of `Kernel` (`TimeLeft`, `AsTimers`): a process's timer is the sum of the keys up to its own,
at least zero. `TimersImplemented` is `Timers!Spec` under it, fairness included.

**`MCKernel`** - the sets of system calls the programs of each run make.

### The modules above the kernel

```
Semas ─┬─ Uart  Tty  Loopback  Ether  QuarkEther ── Drivers ───────────────────────────────┐
       ├─ Ports  BufPool  Ring  Mark  Rds ─────────────────────────────────────────────────┤
Heap ─── Memory   Futures  Shell  CommandLine  Library  Lfs  Names  FlatFiles ─────────────┴─ Services (run)
       └─ NetBase ─ Arp, Udp, Icmp ─ Ip ─ Net ─┐
FileModes ── Rfs, Lfs          Rfs  Tftp  Dhcp  Dns ─┴─ Network (run)
                                       Rds ─ RdsReads (run)
Mark BufPool Futures Shell Memory Names, QueueProofs ─ ServiceProofs ─┬─ DeviceProofs (with Ports, Ring, Rds)
                                                                      ├─ DriverProofs (with Drivers)
                                                                      └─ NetProofs (with Net, Tftp, Rfs, Dhcp)
```

**`Semas`** is the semaphore as these components see it: a record of count and queue with
`Down`, `Up`, `UpN`. They are built on three conventions. A process waits exactly while it is in
a queue (or in a receiving state); any process that does not wait may run next, which covers
every assignment of priorities and every clock interrupt, and does not depend on how `resched`
chooses. A stretch of code with interrupts disabled is one action, up to the point where it may
lose the processor; where a call goes on is the `at` of its process. An interrupt handler is an
action of its own. Code that runs with interrupts enabled has a step for each access to shared
state; and where hardware writes what the driver reads, also code with interrupts disabled has a step
for each of its reads.

| module | code | state and actions | its main property |
|---|---|---|---|
| `Memory`, `Heap` | `getmem.c`, `getstk.c`, `freemem.c`, `meminit.c` | the free list; `Getmem`, `GetstkBlock`, `Freemem`, also of what was freed before | `MemPartition`; it implements `Heap`, which has no list (`MemPromise`) |
| `BufPool` | `mkbufpool.c`, `getbuf.c`, `freebuf.c` | pools with list and semaphore; who holds which buffer | `BpAccounted`: one holder each; who is let through finds a buffer |
| `Ports` | `pt*.c` | `porttab`, the shared nodes; sending, receiving, and clearing in three parts with the dispose function between | `PortsKept`: `PtSameLife`, `PtPromisesKept`, `PtNodesKept` |
| `Mark` | `mark.c` | table, index, semaphore; five steps per call | `MkMarksStay` |
| `Futures` | `future*.c`, `ready.c`, `apps/future_prodcons.c` | the cell, who waits, which queue, who has exited | `FtNoneForgotten` |
| `Ring` | `process_ring.c`, `xsh_process_ring.c` | the ring's semaphores and the command that creates and deletes them | `RgCountsDown` |
| `Shell` | `shell.c`, from `create` to `receive` | mailbox, running and ended commands | `ShWaitsForOwn` |
| `CommandLine` | `lexan.c`, `shell.c`, `addargs.c` | a line, its tokens, redirections, arguments | `ClLineKept` |
| `Library` | `strtol.c`, `atoi.c`, `doprnt.c`, `doscan.c`, `qsort.c`, `dot2ip.c`, `ascdate.c` | operators, one call per step | `LiRight`: results against definitions that do not follow the code |
| `Uart` | `device/uart`, `device/uart-pl011` | both rings, holding register, receiver, interrupts | `UaNothingLost`, `UaInputInOrder` |
| `Tty` | `device/tty` | three rings by their pointers, line editing, flow control | `TyRingsAgree` |
| `Loopback` | `device/loopback` | one ring | `LbIsQueue` |
| `Ether` | `device/eth` | descriptor rings, handler, and the engine, which reads a link before it is done and runs between any two of the driver's reads of what it writes | `EoNoneStranded`, `EiNoneLost` |
| `QuarkEther` | `device/x86-galileo/eth` | both rings with an engine that goes around by itself, one handler in two halves, the multicast list | `QeAllSent`, `QeAllTold` |
| `Drivers` | the five above together | | `CharactersKept`, `PacketsKept` |
| `Lfs`, `FileModes` | `device/lfs` | directory, open files with their copies of blocks, the disk | `LfKept` |
| `FlatFiles` | `fs.c`, `bs.c` | mask, directory, descriptors, inodes | `FsBlocksOnce` |
| `Rds` | `device/rds` | request queue, cache, free list, `rdsprocess`, the exchange, a server | `RdKept`, `RdFresh` |
| `Names` | `conf.c`, `open.c` and the other device calls, `device/nam`, `device/ram` | name table, RAM disk, a descriptor | `NmNamesStay` |
| `Rfs`, `FileModes` | `device/rfs` | open files, one exchange at a time, a server that requests reach late | `RfReadsWritten` |
| `Net` over `Ip`, `Arp`, `Udp`, `Icmp`, `NetBase` | `net.c`, `ip.c`, `arp.c`, `udp.c`, `icmp.c` | packet buffers, three tables, the ring of the output queue, `netin` and `ipout` (waiting and fetching are two steps), programs | `NtBuffersKept`, `NtWaitersTold`, `NtPendingOwned` |
| `Dhcp`, `Dns`, `Tftp` | `dhcp.c`, `getutime.c`, `dns.c`, `tftp.c` | callers and their exchanges, servers, what is on the network | `DhPromised`, `DnsOwnName`, `TfInOrder` |

Servers, the hardware's side of a ring and the network are not in the repository. They are
modelled by what the code relies on: a server answers at once, late or never, and what was sent
may arrive again. Such definitions are marked external in `PROJECT.json`. What the DMA engine does
with a descriptor that is not its own is not in the repository either: `Ether` lets it go on as with its
own, or stop there.

**`Services` and `Network`** put modules side by side. Components that share no state are not
interleaved: the variable `part` says which one runs, and the others keep their initial state.
The modules of the protocol stack do share state (packet buffers, the callers, ARP inside
`IpOut` inside `udp_send`) and are composed by `Net`.

Definitions named `Bug...` are not part of the model. Each is the definition behind it with one
plausible error; putting it in the other's place must make TLC report the property it is paired
with (`PROJECT.json`, "mutants").

---

## 3. What is abstracted, and why

- **User programs** are arbitrary: a process in user mode makes any of the run's calls with any
  argument at any time, or is interrupted. The set `Calls` limits which calls, so that each
  question is asked of the part of the kernel it concerns.
- **Init** is the state when the main process has just preempted `nulluser` (`initialize.c`):
  process 0 ready, process 1 current. The null process's loop makes no calls.
- **Stacks** are equal blocks, numbered by address and handed out from the top as `getstk`
  does. All that is kept is who owns which block. Stack contents, names and device descriptors
  are left out.
- **Integers**: keys are `int32`. `Int32` wraps at `2*SIGN`; run LongSleep makes `SIGN` small
  to let a delay reach the negative half. In the other runs no value comes near it. Priorities
  and counts stay far from their limits and do not wrap.
- **Bounds**: `MaxCount` bounds semaphore counts in the guards of `Signal` and `Signaln` (a
  count only grows by those two, `kill`, `semcreate` and `semreset`). `NSTACK` bounds memory.
  All other sets are finite constants. Nothing else is cut off.
- **Clock**: one action is one tick. The counters of seconds and milliseconds are left out;
  nothing in the kernel reads them for a decision.
- **Interrupts** other than the clock belong to devices and are actions of their modules.
- **Semaphores above the kernel** are `Semas`: `signal` hands over to the first waiter and goes
  on. That a released process may run at once is covered, since any process that does not wait
  may take the next step.
- **Data** above the kernel: a message, byte, packet or block is a number, or the process or
  place it comes from. Names are sequences of tokens where they are taken apart (`Names`, `Dns`,
  `CommandLine`) and single values elsewhere. Formatting is modelled where it is the subject
  (`Library`).
- **Where the code goes wrong.** Several drivers fail in known ways (section 5). Their modules
  have the failing behaviour, and a ghost variable that records it has happened: `ftbroken`,
  `lbwaited`, `eoended`, `eiended`, `qelapped`, `tystray`, `icstray`, `ipoqueue.stray`, `rdbroken`,
  `fsstray`, `ptpanic`, `lfpanic`. The property is claimed up to that point. Where the effect of the
  failure is a number, it is counted and the property goes on: packets overwritten (`ipoqueue.lost`,
  `eilost`), packets the engine was restarted with (`eoagain`, `eiagain`), places of a remote file that
  a late request has changed again (`rfredone`). Where what follows is undefined - memory
  outside an array is used, a list is corrupt - the component's behaviour ends there.
- `signaln`'s and `semreset`'s loops are steps of their own although nothing can interleave
  while rescheduling is deferred; that nothing does is a property (`NoSwitchWhileDeferred`),
  not an assumption.

---

## 4. The runs

The first nine are of `MCKernel`; the others are of the module of their name, `RdsReads` of
`Rds`. States are distinct states found by TLC.

| run | size | what it asks |
|---|---|---|
| `Scheduling` | 4 table entries, 2 priorities, 2 semaphores, counts 0 and 2; 1.4 M states | suspend, resume, yield and all semaphore calls in every order. `CurrIsHighest`: in user mode no ready process has a higher priority. `SemCountAgrees`: a negative count is the length of the queue, and nobody waits on a deleted semaphore. `DeferralsPaired`: deferral is in force exactly inside the four loops. `DispatchesHighest`, `NoSwitchWhileDeferred`, `FifoRelease`: what a single step may never do |
| `Exiting` | 4 entries, 4 stacks, priority 0 (refused) and 1; 1.6 M states | processes that end themselves and parents woken half way through. `PrcountExact`, `StacksOwned`, `HaltsWithLast`. Stops when the system halts, hence no deadlock check |
| `Everything` | 3 entries, 1 semaphore, arm-bbb, `QUANTUM` 2; 2.7 M states | parent and child that kill each other, change priorities, wait for messages, time and a semaphore; entries are reused. `QueuesAgree`, `NullReady`, `ReadySorted`, `TypeOK`, and `MessageKept` for messages and death notices. The system may halt, hence no deadlock check |
| `Clock` | 4 entries, delays 0, 1, 3, wait 2, arm-qemu, with fairness | messages against timeouts. `MessagesAgree`: who waits has no message, who was woken from `receive` has one. `NoneOverdue`, the refinement `TimersImplemented`, and `EqualsTakeTurns` |
| `ChprioStale`, `DoubleKill`, `ZeroWaitQemu`, `ZeroWaitBbb`, `LongSleep` | 3 or 4 entries | one property each, which the code violates: section 5 |
| `Services` | two or three callers each; 1.1 M states | 19 components side by side. `MemPromise`, `BpAccounted`, `PortsKept`, `FtNoneForgotten`, `RgCountsDown`, `MkMarksStay`, `ShWaitsForOwn`, `NmNamesStay`, `RdKept`, `CharactersKept` and `PacketsKept` are the components' own; `TextKept` and `FilesKept` put those of several together (`TextKept` is `ClLineKept` and `LiRight`, and so on) |
| `Network` | `netin`, `ipout`, two programs, two hosts, 3 packet buffers; clients with up to 3 exchanges; 1.8 M states up to symmetry | `NtBuffersKept`, `NtWaitersTold`, `NtPendingOwned` for the protocol stack; `RfReadsWritten`, `TfInOrder`, `DhPromised`, `DnsOwnName` for the clients over a network that loses, delays and repeats |
| `RdsReads` | 2 callers, 2 buffers, 2 blocks, 3 exchanges | the one property of the remote disk that the code violates: section 5 |

`Services` and `Network` check no deadlock: their components stop by design - a bounded number
of inputs is used up, a panic is reached, or every process waits for something that need not come.

*Why these sizes.* A conflict over a call that loses the processor half way needs the caller,
its victim or waker, and a third process that runs in between: three user processes (4 entries
with the null process) have all of it, and two priorities all orders between them. Two
semaphores let a call hit the wrong one. Delays of 1 and 3 and a wait of 2 give a node in front
of, between and behind others in the delta list, and equal ones. `Everything` has one user
process fewer because it has nearly all calls; with three entries `newpid` wraps and reuses the
one entry at once, which is the hardest case for stale IDs.

In `Services` every ring has one to three places, so that it wraps and fills within the bounded
input (`UaInputs`, `TyTyped`, `LbWritten`, `EoPackets`, `EiPackets`, `QePackets`); memory and
semaphores run out before the pools do, and message nodes before the ports' own limits; the free
list has seven units and requests of one and three. A file spans two index blocks, the flat disk has
two data blocks among six, some of which a single write of twelve bytes fills: the search goes round
its end and finds the device full. The remote disk has as many buffers as callers and blocks, so
that both may be cached with readers that have not run when a third call is let through. `PtMaxSeq`,
`RgRounds`, `LfMaxPos`, `FsTransfers`, `RdWrites`, `RdExchanges` bound what would otherwise count up
for ever. The library's operators are evaluated over all strings up to the given length, a `long` of
six bits, widths up to three, and the days of several years with and without a leap day and with
both changes of the clock. In `Network` tables and queues have one entry, so that a second
registration, packet or unresolved address meets a full one; three packet buffers are fewer than the
two processes of the stack and the programs can hold. One place in the output queue is enough for
`ip_enqueue` to overwrite it: two echo requests while `ipout` has waited and not fetched. `NtFrames`
and `RfExchanges`, `TfSessions`, `DnsQueries`, `DhTicks` bound what arrives and how often the
clients ask. Three exchanges and one write are what a late copy of a write needs: it is given up or
answered, the file is deleted, and the copy brings the byte back. `RfFunctions` has `delete` of the
control functions: `truncate` clears a file just so, and the others change no file. The names looked
up are `a.c`, `b.c` and `a.cd`, whose last label begins with that of the first; two lookups let the
answer to one be read by the other.

*What is kept out of a run, and why.* `Clock` leaves out waits of zero, `Exiting` leaves out
`kill` of another process and `Scheduling` leaves out `chprio`, because the code violates the
property in question then; the violation runs show exactly that. `Everything` has `kill` and
`chprio` and checks what does hold with them.

`Services` has no cbreak mode: there readers are never signalled and `TyRingsAgree`, which is
about the promises of the semaphore, says nothing. `Network` has packets from hosts on the local
network only.

*Fairness* (`FairSpec`, used by `Clock` and `ZeroWaitQemu`). `WF_vars(InKernel)`: a call under
way runs with interrupts disabled on the processor and finishes. `SF_vars(ClockTick)`: a clock
interrupt that arrives while interrupts are disabled stays pending, so it is taken once
interrupts are enabled again and again; the tick is disabled as an action whenever a process is
inside the kernel, so weak fairness would promise less than the hardware does. Nothing is
assumed of the programs: no process ever has to make a call, yield or exit.

---

## 5. What the runs found

1. **ChprioStale** - `chprio` (`chprio.c:25`) stores the new priority but neither moves a ready
   process nor calls `resched`, and `insert` compares old keys with new priorities. `resched`
   then dispatches a process although a ready one has a higher priority, contrary to its header
   ("highest priority eligible process", `resched.c:8`). `ReadySorted` still holds: the list is
   sorted by stored keys.
2. **DoubleKill** - `kill` sends the death notice (`kill.c:28`) before the victim leaves its
   state. The parent may run at that point, and the victim with it; it can be killed or exit
   once more, `prcount` goes down twice, and `xdone` halts the machine while a user process is
   left (`xdone.c:6`, "as last process exits").
3. **ZeroWaitQemu** - `recvtime(0)` is accepted, and `insertd` puts the process in front of the
   sleepers with key 0. The tick then counts down that key only. A process that polls with
   `recvtime(0)` once per tick keeps everybody else asleep for ever.
4. **ZeroWaitBbb** - the arm-bbb handler wakes only when the decremented first key is exactly 0
   (`clkhandler.c:44`). A key that starts at 0 goes to -1, and nobody wakes until it has
   wrapped.
5. **LongSleep** - a `uint32` delay of 2^31 ms or more becomes a negative key although
   `sleep.c:5` allows it; the process wakes with the next tick.

6. **RdsReads** - for a read, `rdsprocess` never sets the block number of its message
   (`rdsprocess.c:45`; for a write it does, `:136`). The server is asked for whatever block was
   named last, and its answer is handed out, and cached, as the block that was asked for,
   contrary to `rdsread.c:6` and `:12`.

Further observations. They are modelled, and what the properties claim leaves room for them; no run
has one as its subject. For most no document of the repository says otherwise; where a comment does,
it is named. `create` does not give back the stack when `newpid` fails or the priority is refused
(`create.c:32-37`); `semdelete` leaves the waiters of a deleted semaphore with the return value
`OK`. Above the kernel:

- *futures*: the first waiter's ID is never reset (`future_wait.c:19`). In a second use of an exclusive
  future `future_set` calls `ready` for that process: if it runs elsewhere it is linked twice; if it has
  exited, as those of `apps/future_prodcons.c` do, `ready` returns `SYSERR` (`ready.c:17`), nobody is
  made ready, and the process that waits now waits for ever with the cell set. In the queue mode a
  process that is preempted in the middle of `future_get` is put on the ready list with its entry in the
  cell's queue. Several paths leave interrupts disabled.
- *tty*: in raw mode the wrong pointer is wrapped (`ttyhandle_in.c:43`), killing a line moves the
  head instead of the tail (`:99`), end of file does not wrap (`:156`), a newline is stored in a
  full buffer, cbreak mode never signals (`:80`); the output handler sends places that released
  writers have not filled yet (`ttyhandle_out.c:57`).
- *loopback*: the place to write is computed from a count that is negative while a reader waits
  (`loopbackPutc.c:42`).
- *ethernet*: once around the ring the handler takes descriptors for finished that are merely promised.
  The handler reads the owner of a descriptor and then where the engine is (`ethhandler.c:36-37`,
  `:87-88`); in between the engine may finish that descriptor and stop, and is restarted with it: a
  packet is sent a second time, or one just received is overwritten. `ethwrite` asks twice where the
  engine is (`ethwrite.c:62`, `:70`): when it has stopped in between, the search for the end of its
  list begins at address 0. `ethread` has interrupts enabled between finding the engine and linking its
  descriptor (`ethread.c:50-53`), so the handler may restart the engine with that one, and the list
  becomes a circle, or the head pointer is written while the engine works.
- *galileo ethernet*: the handler takes a full transmit ring for an empty one, as head and tail are
  equal in both (`ethhandler.c:51`); `ethwrite` fills the ring to the last descriptor, so the first
  writer that has to wait, and every one after it, waits for ever. Two comments say otherwise: the
  handler's ("Repeat until we process all the descriptor slots", `ethhandler.c:49`) and `ethwrite`'s
  (`ethwrite.c:24`, "Wait for an empty slot in the transmit descriptor ring"). `QuarkEther` has
  therefore no action in which a writer is released, and `QeAllSent` says nothing of who waits. The
  loop over received packets goes on around a full ring and one further (`:95`), counting packets
  twice. `ethmcast_remove` reads and clears the entry behind the list (`ethmcast.c:60`).
- *remote disk*: a reply with an earlier sequence number is accepted (`rdscomm.c:88`); a request for
  a block already read is unlinked with the wrong node's links (`rdsprocess.c:116`); a cached write
  recounts the semaphore wrongly (`rdswrite.c`); a sync resumes where it should signal; closing
  frees entries that have readers; a refused open leaves the device pending. After a read the
  semaphore is signalled with the entry still in use (`rdsprocess.c:94-98`), so `rdsbufalloc` may
  find the free list empty and every cached buffer in use, and panics, although its comment says
  that "at least one such entry must exist because the semaphore had a nonzero count"
  (`rdsbufalloc.c:30-32`).
- *remote files*: three late replies in a row make every later exchange fail; a copy of a write or a
  deletion that reaches the server after its exchange is carried out once more, over what was written
  since; the size is asked through the first descriptor whichever is used.
- *protocol stack*: `ipout` waits for a packet and fetches it with interrupts enabled in between
  (`ip.c:370-371`), and `ip_enqueue` goes by the count of the semaphore (`ip.c:453`), so one more
  packet than the ring has room for is accepted in between and overwrites the one waited for, whose
  buffer is lost; later `ipout` fetches the pointer that overwrote it twice, and frees that buffer
  twice. The comment "Ensure only one process accesses output queue at a time" (`ip.c:446`) is true
  of `ip_enqueue` alone. `NtBuffersKept` counts the lost buffers. An ICMP queue is stored into
  without a test (`icmp.c:86`); any message counts as resolution of an address (`arp.c:127`), so the
  model lets programs be told only by the stack; `udp_recv` marks its slot used without a look
  (`udp.c:190`), so a slot is used and released by the process that registered it, as everywhere in
  the tree.
- *clients*: `getlocalip` keeps its UDP slot when it fails and `getutime` when `getlocalip` does; a
  second caller of `getlocalip` asks again and changes the address; `dns_geta` compares beginnings
  of names only and ignores the number of the query; reading a name damages the packet: every
  pointer it follows reads as the end of a name afterwards, so an answer that points to a name read
  before is not recognised.
- *TFTP*: in the model all sessions carry the same file. A block of an earlier transfer of another file,
  from the same server to the same local port and with the number expected next, would be stored:
  nothing in a data message says which file it is of (`tftp.c:81`).
- *names*: `nammap` never goes on from the name it has mapped, though its comment says
  "Repeatedly substitute" (`nammap.c:28`), so a name mapped to the name space leads nowhere;
  mounts after initialisation come after the empty prefix and are never reached by new names.
- *flat files*: `fs_write` puts the first bytes of a fresh block where the inode happens to point;
  the search for data blocks starts at 0 and gives out the blocks of inodes; inodes are read
  before they were ever written; a failed `fs_create` leaves its entry with inode -1; the
  directory's size is not tested.
- *shell*: a failing `addargs` leaves the new process suspended for good; the input file stays
  open when the output file cannot be opened.
- *library*: `%d` of the smallest number is garbled (`doprnt.c:137`), `%d` of `scanf` accepts no
  decimal digit (`doscan.c:204`), `dot2ip` accepts one to four numbers. `LiRight` says what is
  right apart from these.
- *process ring*: `value` is not initialised (`process_ring.c:6`), so the first number printed is
  any; the command deletes semaphores that elements may still use.

---

## 6. The proofs

TLC checks small instances. The theorems about the kernel hold for every `NPROC >= 2`, every `NSEM`,
every set of calls, priorities, delays and counts, both handlers and every `SIGN`; those about the
components for every set of processes, every number of ports, nodes, pools, buffers, marks and ring
elements, and a heap of any size; those about the network for every number of hosts, table entries,
queue places, packet buffers, frames, files, retries and servers. The assumptions are the named
`ASSUME`s of the modules (tables not empty, natural and integer ranges, a positive quantum and main
priority, two stacks, finitely many processes, `netin` and `ipout` being two of them); TLC evaluates
them on every run. Some theorems need more and say so in their statement: where a run leaves out a
call because the code then breaks the property, the theorem has the same hypothesis.

| theorem | statement |
|---|---|
| `Invariance` | `Spec => []IInv`, the inductive invariant |
| `TypeCorrect` | `[]TypeOK` |
| `OneListEach` | `[]QueuesAgree`: every process is linked once, into the list its state names |
| `AlwaysSomebodyToRun` | `[]NullReady`: `resched` never finds an empty ready list |
| `EveryDeferralEnds` | `[]DeferralsPaired` |
| `DeferralsHold` | `NoSwitchWhileDeferred` |
| `FirstComeFirstServed` | `FifoRelease`: whoever has waited longer for a semaphore stays ahead until it leaves |
| `NoMessageLost` | `MessageKept` |
| `CountsMatchQueues` | `[]SemCountAgrees` (module `ProcessProofs`, like the next seven) |
| `ReadyListInOrder` | `[]ReadySorted` |
| `HighestRuns` | `[]CurrIsHighest`, if `chprio` is not among the calls |
| `SwitchesToHighest` | `DispatchesHighest`, if `chprio` is not among the calls |
| `WaitersHaveNoMail` | `[]MessagesAgree` |
| `NoSharedStacks` | `[]StacksOwned`, if `kill` of another process is not among the calls |
| `CountIsExact` | `[]PrcountExact`, under the same hypothesis |
| `StopsWithLast` | `[]HaltsWithLast`, under the same hypothesis |
| `NobodyOverdue` | `[]NoneOverdue`, for delays that fit a signed key and waits that are not 0 (module `ClockProofs`, like the next) |
| `DelaysKeepTime` | the delta list implements `Timers`: `AsTimers!Init /\ [][AsTimers!Next]_TimeLeft`, under the same hypothesis |
| `WhatIsMarkedStays` | `MkSpec => []MkMarksStay` (module `ServiceProofs`, like the next six) |
| `BuffersAccounted` | `BpSpec => []BpAccounted` |
| `NoConsumerForgotten` | `FtSpec => []FtNoneForgotten` |
| `SharedFuturesSound` | `FtSpec => []FtSharedSound`: in the shared mode the lists stay sound, the condition of `FtNoneForgotten` |
| `NoStaleNotice` | `ShSpec => []ShWaitsForOwn` |
| `FreeListKeepsPromise` | `MemSpec => MemPromise /\ Promise!Spec`: the free list implements `Heap` |
| `NamesKeepDevices` | `NmSpec => NmNamesStay` |
| `PortsKeepPromises` | `PtSpec => []PortsKept` (module `DeviceProofs`, like the next two) |
| `RingCountsDown` | `RgSpec => []RgCountsDown` |
| `RdBuffersAndRequests` | `RdSpec => []RdKept` |
| `CharactersAreKept` | `UaSpec /\ TySpec /\ LbSpec => []CharactersKept`, if cbreak is not among the modes of the terminal (module `DriverProofs`) |
| `PacketsAreKept` | `EoSpec /\ QeSpec => []((eoagain = {} => EoNoneStranded) /\ QeAllSent /\ QeAllTold)`: sending on the ARM boards until the handler restarts the engine with a packet it has sent, and both directions on the Galileo board (module `DriverProofs`) |
| `NtTypeCorrect` | `NtSpec => []NtTypeOK`: types, the ring of the output queue, and no queue of a slot longer than its array, but for echo replies (module `NetProofs`, like the next six) |
| `NtBuffersAreKept` | `NtSpec => []NtBuffersKept` |
| `NtTold` | `NtSpec => []NtWaitersTold` |
| `NtPending` | `NtSpec => []NtPendingOwned` |
| `TfTransferInOrder` | `TfSpec => []TfInOrder` |
| `RfRemoteReadsWritten` | `RfSpec => []RfReadsWritten` |
| `DhAnswersAreOwn` | `DhSpec => []DhPromised` |

**The inductive invariant** is `IInv == TypeOK /\ QueuesAgree /\ NullReady /\ DeferralsPaired
/\ CallArgs`. `QueuesAgree` alone is not inductive:

- without `NullReady`, `resched` may have nobody to dispatch and the ready list's head does not
  exist;
- without `DeferralsPaired`, a process that blocks might only record an attempt and go on
  running in a waiting state;
- without `CallArgs`, `KillFinish` could free an entry outside the table or the null process,
  and a semaphore loop work outside the semaphore table. `CallArgs` says what a call that lost
  the processor half way still holds.

Interestingly no conjunct says that a victim of `kill` is still in the state it was found in:
the second half of `kill` looks at the state anew, and that is enough for the lists (though not
for `prcount`, finding 2).

**The argument.** (1) `QueueProofs` establishes what each list operation returns: who is on it
afterwards, without duplicates. The scans of `insert` and `insertd` are CHOOSEs, so each lemma
first shows that there is a least place to stop, from the well-foundedness of the naturals; the
running sums of the delta list are a recursive function whose existence is shown by taking a
least counterexample. (2) `DispatchSwitches` and the lemmas after it show what `resched`,
`ready` and `DEFER_STOP` make of given states: only who is current changes (`Switched`). (3)
`Placed` says that given states agree with given sleep and semaphore queues; a lemma per kind
of change preserves it, and `SwitchedSettles` turns `Switched` and `Placed` into `QueuesAgree'`
(`Settled`). (4) One lemma per action (`...Step`) puts these together, and `NextIInv` collects
them. The action properties follow from `IInv` before and after a step.

`CountsMatchQueues` needs one more strengthening: every semaphore is in order (`InOrder`) but
for the one `semreset` or `semdelete` is working on, whose other half still is, and the count
`semreset` holds on to is not negative (`ResetArgs`). Deferral being confined to the loops
(`IInv`) is what makes "the one being worked on" unique.

**Turns** (the second half of `ProcessProofs`) adds the keys. The ready list is sorted by its keys
(`ReadySorted`); this is inductive on top of `IInv`, which guarantees that the keys `insertd`,
`unsleep` and the clock write belong to sleeping processes and that a process is not on the list yet
when it is inserted. When nobody calls `chprio`, a ready process's key is its priority (`Keyed`),
and what is left to find is how long the current process stays the highest. Not always: in a
deferred loop a released process may be above it. `Ranked` says that it is the highest *unless*
rescheduling is deferred and an attempt has been recorded, which is precisely when `DEFER_STOP` will
reschedule. With `DeferralsPaired`, `CurrIsHighest` follows. The hypothesis on `chprio` is needed:
run ChprioStale is a counterexample without it.

**Processes and messages** (`ProcessProofs`). `receive` may take the message without looking
again. `MessagesAgree` alone is not inductive: `kill` may free the entry of a process in the
middle of `receive`, and `create` gives a free entry with an empty buffer to a new process, which
would then be where `receive` goes on, without a message. `MailInv` adds that no free entry is in
the middle of `receive`. Most calls only move processes between states that have nothing to do
with messages (`Undisturbed`), and one lemma (`CalmStep`) serves them all.

For the stacks and the count, the hypothesis is that nobody calls `kill` for somebody else (run
DoubleKill refutes `HaltsWithLast` without it). `ExitInv` then says that a process in the middle
of `kill` is there on its own account and still has its entry (`SelfKill`), that stacks have one
owner, and that `prcount` is the number of processes *not* in the middle of `kill` (`Staying`).
The last is what `kill` makes true when it decrements `prcount` first and may then lose the
processor in `send`: the victim is in the table, but no longer counted.

**Clock** (`ClockProofs`). Everything about the delta list is about sums of its keys: what
`insertd`, `unsleep` and the clock make of the sum up to each place is proved first, for any
list. `DueInv` says that every sum is positive, or not negative while `wakeup` is at work; it needs
that what a delay stores is a positive key, which is `FitDelays`. Nothing is assumed
of priorities or of `kill`. With it each call maps to a step of `Timers` or changes no
timer: a process killed while asleep, or woken by a message, hands its key to the next one, so
nobody else's timer moves (`UnsleepKeys`), and a tick brings all of them one closer although it
changes one key.

**The components** (`ServiceProofs`, `DeviceProofs`, `DriverProofs`). `Semas` comes first:
`SemaSound` says that a semaphore's queue has no process twice and that a negative count is its
length, and lemmas say what `Down`, `Up` and `UpN` do to the count, to who waits and to who is let
through. Then

- *marks*: `MkInv` has mutual exclusion with at most one process inside, that this one may be
  between the two assignments of its entry, and that entries used plus callers that have passed the
  test outside the semaphore stay within bounds (`MkRoom`);
- *buffers*: `BpInv` counts, per pool, the list against the semaphore's count and those it has
  let through, and every buffer is either in the list or held, once;
- *futures*: `FtInv` says where a waiting process is linked in each mode, as long as the lists are
  sound; in the shared mode that is unconditional. In the exclusive mode whoever waits when the cell
  is set is one that came after the process the cell remembers, which has exited (`FtExclusive`); in
  the queue mode consumers and producers that wait are exactly those in the two queues (`FtQueue`);
- *shell*: the IDs of processes are used again. The shell compares what it receives with the ID of
  its command, and a notice of an earlier process with that ID may lie in its mailbox. What makes
  the comparison safe is the order `create`, `recvclr`, `resume`: between the first two the new
  process exists, so nobody else can end under its ID, and it does not run before the third.
  `ShInv` says this of each point the shell may be at;
- *memory*: a list is good when its blocks are in order with a gap between any two, and covers
  exactly what nobody holds (`MbGood`). `OverlapsIs` shows that the three comparisons of `freemem`
  find an overlap exactly when there is one, although they look at the two neighbours only;
  `JoinIs` gives the list that results from joining on either side, both or none; `MbFits` that
  first fit fails only if no gap is long enough, because blocks of a good list cannot be
  adjacent. Each step is then one of `Heap`, whose state is the set of held blocks and the last
  answer, `"full"` from `getmem` and `getstk` and `"free"` from `freemem`: both are `SYSERR` in
  the code, and told apart here so that a refused request cannot pass for a refused free;
- *ports*: `PtInv` adds to the types that each semaphore's queue holds exactly the processes that
  wait for it in the port's present life (`PtQueuesAgree`), that while a port is being cleared its
  semaphores and list are as the clearing has left them (`PtLimbo`), and, for a
  port in use, how messages, free places, counts and those already let through add up
  (`PtCounted`). `PtNodesKept` sums message nodes over all ports and calls;
- *process ring*: `RgInv` says that there is one turn, which either an element has or a semaphore
  keeps (`RgTurns`), and that what goes around with it is the next number (`RgCarried`);
- *remote disk*: `RdSound` says that the free list, the cache and the request queue have together as
  many places as the table has buffers and that every buffer has one of them; then none is on two,
  which is what each move from one list to another would otherwise have to show (`RdApartIs`). The
  semaphore is short of the free and the cached buffers by those it has let through. The request
  that is being served stays the head of the queue while the driver waits for the server. `RdHeld`
  adds who waits for which request (`RdAwaited`) and that an entry of the cache is in use only while the
  reader it was sent to has not run (`RdInUse`): from this it follows what a panic means
  (`RdPanics`). Once a list is corrupt or the communication process has left for good (`rdbroken`)
  nothing is claimed; the panic itself does not end the claim;
- *drivers of characters*: `ModDef` to `RingStep` say what `%` does to positions in a ring of any
  length, and `SemaBalance` that a step which lets a caller through moves one claim from the
  semaphore to the caller. The rings themselves are never ahead of or behind the semaphores by
  anything but such claims. *uart*: the bytes of the output ring from its first place on are exactly
  those that were handed over and are neither on the line nor in the holding register, each once
  (`UaPlaced`); a writer's remaining bytes are new to the ring (`UaFresh`); the bytes of the input
  ring are in ascending order behind the last that was read (`UaReceived`). *tty*: the tail of each
  ring is as far ahead of its head as the counts say (`RingHolds`), `icursor` included, whatever
  erase, kill and the end of a line take back, until a pointer has left its buffer. In cbreak mode
  the handler stores without signalling and this is false, hence the hypothesis. *loopback device*:
  the position to write to is computed from the semaphore's count, so the buffer is a queue only
  until a reader has had to wait (`LbFilled`);
- *drivers of packets*: on the Galileo board both sides go around the ring by themselves, and
  everything follows from numbers: the packet in a descriptor tells its place (`InRing`), what was
  sent is the first so many (`QeTxInv`), what netin was told of are the next ones behind those it
  gave back (`QeRxInv`). On the other board the engine follows links, and may have read one before
  it was set. `EngineOwns` says that links lead from descriptors handed over earlier to later ones,
  to nobody from two, and that what the engine owns are only the last `u` of the `w` handed over,
  each in its place; `EngineAt`, that nobody links to where it is. So the driver's search for
  the end of the list stops (`EndOfIs`), at a descriptor that is still the engine's; a
  descriptor it is about to hand over is free (`EngineFree`); and when the handler finds its next
  descriptor owned and the engine idle, that is the earliest one owned, and nothing links to it
  (`EngineTakenBack`): restarting there leaves nothing behind. All of this allows for
  the engine's steps between the handler's look at the owner and its look at the engine, and between
  the two looks of `ethwrite`, until the handler restarts an engine that has finished meanwhile
  (`eoagain`). `u` is what the semaphore and the
  released processes have not got (`SignalsGive`); the handler counts with the semaphore alone,
  and `eoended` is where that differs from what is there. Reception on that board is only
  model-checked;
- *name space*: `namrepl` takes the first entry that fits and `mount` appends, so the table being a
  sequence is all the invariant there is; the lemmas are about least elements.

**The network** (`NetProofs`). A packet buffer passes from the pool to `netin`, to a slot's queue or
the output queue, to a program, and back; a call that waits for the pool's semaphore, for ARP or for
a packet may be anywhere in between. Counting who *has* a buffer would need to know who the
semaphore has let through. `NtCounted` counts who has a *claim* instead (`NtClaim`: by the point of
the call alone): the count of the semaphore, which goes below zero, is the number of buffers less
what is stored in queues less the claims. Each step then moves a claim or a packet, and the sums
over the tables change in one place (`NtSumChange`). That a buffer is there for whoever is let
through follows at the end. Of the output queue, `NtOutput` says that its semaphore is short of the
packets stored by the one `ipout` has waited for and not fetched, and that while nothing has been
overwritten the unfetched packets lie from `iqhead` to `iqtail` (`NtRun`), so that `ipout` cannot
come to a stale pointer before a packet is lost. For who waits, `NtUdpTold` and `NtIcmpTold` tie a
waiting program to the slot it waits at: it owns it, and its mailbox has a message exactly when the
slot is no longer `receiving`; a release or a time-out in between keeps this because the owner alone
does them. `NtArpTold` says that one who waits for an address has one pending entry, or the entry
was resolved or taken from it and it has been told.

The clients are alone with the network, which may deliver anything that was ever sent. *TFTP*:
what has been stored ends where the block that is expected begins (`TfInv`), so a repeated or late
block is never the expected one. *Remote files*: `rf_mutex` admits one process, every reply that
may still come and bears the number of the current request tells the truth about it (`RfTrue`),
because numbers are not used twice; a copy of a request that is still under way is of the request in
hand or of an earlier one (`RfAway`); and what the server has is what was last learned, or what the
present request, or one that was given up, has put there (`RfKnown`), but for the places that a late
copy has changed (`rfredone`). *DHCP and time*: who owns the slot has the
conversation (`DhHolds`), offers and acknowledgements on the network come from a server that made them
(`DhSent`), and a time that is under way is never ahead (`DhTimes`).

**Only model-checked**: `EiNoneLost`, the reception of `Ether`; of the kernel's runs,
`EqualsTakeTurns` and the fairness part of `TimersImplemented`. Of `Services`, `TextKept`,
`FilesKept` and the type invariant, which is that of all components together; of `Network`, the same
and `DnsOwnName`. The theorems about components are about each component's own specification
(`PtSpec`, `MemSpec`, ...); that `Services`, which lets one of them run at a time, has no other
steps is seen from its definition and is not a theorem, since it reaches `Lfs`; the same holds of
`Network`, which reaches `Dns`.

**Out of reach** of the prover and left to TLC for good: liveness under fairness, hence the
fairness part of `TimersImplemented` and `EqualsTakeTurns`; anything about `ENABLED`; induction
over data, so what a recursive definition computes for every input (the prover cannot instantiate
the library's induction theorems; a least counterexample does in its place where one fact about
`DeltaSum`, `PtSums` or `NtSums` is needed, but not for what `LiRight` says of the library); and
operators declared `RECURSIVE`, which `Lfs`, `Dns`, `CommandLine` and `Library` use, so that nothing
can be proved in a module that reaches one of them, `Services` and `Network` included.

---

## 7. The plan

Proofs next: `FsBlocksOnce`; the rest of what `Services` checks needs recursive operators.

Then the model: **QueueTab**, `queuetab` with its links and `newqueue`, refining the sequences of
`Queues`; `future_free`; the remote disk's write-back on close; liveness of the drivers (a byte
in a buffer is sent in the end) under fairness of their interrupts.

---

## 8. Not modelled

- The library's copying, comparing and searching functions, commands that print or make a single
  call, and the dumps: nothing in them depends on order or state.
- The assembly of the platforms, interrupt controller, timer and memory management unit:
  programming of hardware whose behaviour is not in the repository.
- Configuration and build programs, in part generated by lex and yacc.
- The drivers for the Galileo board other than its Ethernet driver: most are copies of those
  modelled, and the one for SD cards is unfinished (reading throws its result away, writing does
  nothing). Of the Ethernet driver, the set-up of the PHY and the MAC: register programming.
- The polling variant of `process_ring`: its command returns while the elements use its frame, so
  what they do is undefined. `fs_seek`: no file ever gets a size, so it refuses everything.
- In the modules that exist: checksums and byte order, statistics, `TC_NEXTC` of the tty, upper
  case `%X`, concurrent callers of the flat file system (its working pointers are global).
