# GLM OS: specifications, model checking and proofs

GLM OS is a 64-bit SMP operating system in Rust: a kernel (`src/src/`), a user
library and user programs (`src/user/`). This directory holds TLA+ modules that
model the kernel's core (scheduling, channels, pipes, TCP, files, the file system,
memory, the window system and the interactive shell), TLC configurations that
check them on small instances, and TLAPS proofs for all values of the constants.

All paths below are relative to the repository's parent (`src/src/sched.rs` is
the file `src/sched.rs` of the repository). `PROJECT.json` lists, for every
definition, the lines it models; every run; every mutant; every hazard.

## 1. Inventory

### Components, their state and operations

| component | code | state | operations |
|---|---|---|---|
| scheduler, task table | `src/src/sched.rs`, `cpu/smp.rs`, `cpu/idt.rs` | `TASKS`, `NEXT_PID`, `REAP_LOG`, per CPU `CURRENT` and `SWITCH_REQUESTED` | spawn, fork, clone, exec, wait, join, exit, texit, kill, send_signal, sleep, read_char, block/wake, `post_dispatch` (timer duties, reap, pick, deliver signals) |
| channels | `ipc.rs`, `user/src/lib.rs` | `CHANS`: ring, key, one waiter per side | open, send, recv, the library's retry loop |
| pipes | `fs/pipe.rs`, task masks in `sched.rs` | `PIPES`: ring, reader and writer counts; `pipes_mask`, `in_src`, `out_dst` of each task | open, close_end, acquire_end, release_task, read, write |
| shell pipelines | `shell.rs` `cmd_pipeline` | the pipes of the line, the pids of its stages | open pipes, spawn stages, drop own ends, wait; cleanup on failure |
| signals | `user/signal.rs`, `sched.rs` | pending set, handlers, saved frame | send, deliver, sigaction, sigreturn |
| TCP | `net/tcp.rs` | `SOCKS` table: state, sequence numbers, two rings, retransmission timer, pending accept | connect, listen, accept, send, recv, poll, close, `ingress`, `tick` |
| UDP sockets | `net/sock.rs` | sockets with a datagram queue and one waiter | bind, sendto, recvfrom, deliver, nudge, close |
| netd, ARP, wire formats | `net/netd.rs`, `net/proto.rs` | ARP cache, statistics | resolve, dispatch of frames, checksums |
| open files | `fs/sysfile.rs` | descriptor table with buffered contents and dirty flags | open, read, write, seek, close, unlink, release at exit |
| FAT32 | `fs/fat32.rs` | FAT, directory slots, clusters on disk | lookup, cat, write_file, mkdir, rmdir, delete |
| memory | `mem/frames.rs`, `mem/vmm.rs`, `mem/tlb.rs`, `mem/heap.rs`, `user/heap.rs` | frame bitmap and share counts, page tables, shootdown counter, heap free list, per-task break | alloc, alloc_contig, free, add_ref, release, fork_cow, cow_resolve, shootdown, sbrk |
| jobs | `jobs.rs` | foreground table, two interrupt flags, deferred signal reports | fg_begin, fg_end, tick (interrupt delivery, reports) |
| keyboard, line editor, prompt | `cpu/keyboard.rs`, `lineedit.rs`, `shell.rs`, `term.rs` | key ring; edit buffer, history, what is drawn; the command waited for | push, pop; every key of `feed`; run a command and wait |
| window system | `gui.rs`, `term.rs` | window table, stacking, damage list, event queues, gesture, menu | open, close, draw, flush, poll, the compositor's frame, terminals, owner exit |
| clock, console, drivers, boot | `cpu/rtc.rs`, `console/`, `disk/ahci.rs`, `net/e1000.rs`, `main.rs` | device registers, pixels | output and device programming |

### How they interact

* Everything runs in a task. A task enters the kernel by a system call or an
  interrupt; the handler runs first, then `post_dispatch` decides whether the
  CPU goes on with another task. A call that has to wait changes its own state
  in the task table, asks for a switch and returns; the park takes effect only
  in `post_dispatch`, after the table's lock has been free for a while.
* Channels and sockets record the slot of one waiter per side and wake it with
  `wake_chan_waiter` / `wake_sock_waiter` after their own lock is dropped.
* Pipes have no waiters: a reader or writer sleeps and looks again. The counts
  of ends live in the pipe table, who owns which end in the task table; fork,
  exec, exit and the shell have to keep the two in step.
* The shell is a kernel task pinned to CPU 0. It spawns the stages of a
  pipeline with redirects and waits for them by pid.
* Sockets and TCP are fed by the network daemon, a kernel task, whose `tick`
  retransmits and times out; segments are sent after the lock is dropped.
* An open file is a private buffer that close writes back whole through FAT32.
  The shell opens the file of a redirect and lends the slot number to its child.
* fork shares frames; the first store afterwards faults and copies. The other
  CPUs learn of the downgraded entries by an interrupt they acknowledge.
* Ctrl+C is a byte in a ring and a flag; the daemon `jobd` turns the flag into a
  signal for whatever the shell has registered as its foreground. Keys are in one
  ring, and whoever pops one first has it: the shell, the compositor, which hands it
  to the focused window, or a child that reads its input.
* Programs draw into buffers of their windows, the compositor shows them; both
  change one scene under one lock.

### What is hard

Two CPUs on one task table with a gap between "marked as parked" and "off its
stack"; lazy reaping against wait and join; wakeups recorded in a single slot;
signals that end a task on a path of its own; reference counts kept in two
places; rings at full and empty; tables at their limit; sequence numbers, lost
segments, retransmission and time-outs in TCP; shootdowns and copy-on-write
faults on several CPUs; running out of frames half way; the order of disk writes
with a power loss between any two; whole-file write-back by several holders; a
redirect through a slot number; damage that must cover every change; an
interrupt key against the life of the command it is meant for. The list
with lines is `hazards` in `PROJECT.json`.

### What makes each component correct

* scheduler: a task is on one CPU at a time, its slot and kernel stack outlive
  its stay there, nobody runs who has not been woken, nobody waits for an event
  that has already happened, a process dies as a whole, everyone Ready runs once no
  more tasks are created;
* channels: bounded FIFO byte streams, no lost wakeup, one channel per key;
* pipes: byte streams, end of file exactly when no writer is left, counts equal
  owners, pipelines end;
* TCP: the bytes delivered are a prefix of the bytes sent, the ring holds what is
  not acknowledged, the two ends agree, no socket is left open that nobody can close,
  every retransmission ends;
* files, FAT32: chains are disjoint and owned, a directory shows the completed
  operations, a close leaves what was written, redirects stay in their file;
* memory: processes see their own stores only, share counts equal mappings, no
  frame is lost, a CPU with a translation that was taken back is about to lose it;
* window system: what is shown is the scene, no request to close is lost, no
  pixels of a former owner are shown;
* prompt: the line shown is the line edited, history is the past, a Ctrl+C reaches
  the command, and as one signal.

## 2. Modules

| module | models | remarks |
|---|---|---|
| `Sched` | task table, scheduler, per-CPU state, interrupt epilogue | one action per section under `SCHED_LOCK` |
| `MCSched` | workloads for TLC | a workload is the set of calls programs make |
| `SchedProof` | theorems about `Sched` | |
| `RingBuffer` | the circular buffer both channels and pipes use | `Store`, `Load`, `TailOf` |
| `ByteStream` | abstract specification: bounded FIFO byte queues | refined by `Ipc` |
| `Ipc`, `MCIpc`, `IpcProof` | channels with the library's retry loop; programs; theorems | |
| `Pipe`, `MCPipe`, `PipeProof` | pipes, the ends of tasks, the shell's pipelines; theorems | |
| `Tcp`, `MCTcp`, `TcpProof` | TCP on several machines and the network between them; theorems | one action per section under `TCP_LOCK` |
| `Fat32`, `MCFat32` | FAT, directories and chains on a disk that may fail | one action per device write |
| `Sysfile`, `MCSysfile`, `SysfileProof` | open files, working directories, redirects; theorems | the disk is what `Fat32` promises |
| `Memory`, `MCMemory`, `MemoryProof` | frames, address spaces, copy-on-write, TLB shootdown, sbrk, loading; theorems | a thread has a CPU of its own |
| `Desktop`, `MCDesktop`, `DesktopProof` | compositor, windows of programs, terminals; theorems | one frame and one call are actions |
| `Prompt`, `MCPrompt`, `PromptProof` | keyboard ring, line editor, foreground command, `jobd`; theorems | console or window |

### Sched

`tasks` is `TASKS`, `cur` is `smp::CURRENT`, `req` is `SWITCH_REQUESTED`, `log`
is `REAP_LOG`. Two variables have no counterpart in the code: `mode` is where a
CPU's program counter is (`"task"` own code of the current task; `"hooks"` the
part of exit after the lock is dropped; `"tail"` between the end of a handler
and `post_dispatch`; `"reap"` and `"pick"` the two loops of `post_dispatch`),
and `ctx` is the pid whose kernel stack the CPU really executes on. `lock` is
the CPU that holds `SCHED_LOCK` across the loops. The fields `kids` and
`threads` of a task are what the program knows and the kernel does not: which
children it may still wait for and which threads it may still join.

`Enter` is the first half of `post_dispatch` with the order of the code: timer
duties, death of a marked task, decision, parking. `Reap` and `Pick` are one
iteration of each loop. `Pick` contains `deliver_pending_locked`: a candidate
with a pending signal is resumed with its handler or becomes a zombie and the
loop goes on.

Abstracted: time is the flag `wake_due` (deadline passed or not); exit codes,
names, TLS, cwd, heap break and frame contents; the Arc of an address space is
the set of slots that name it. Left out: running out of frames for a kernel
stack after the pid was taken.

### Ipc

`chans` is `CHANS`. `call` is the library call the program is in, kept while
the kernel answers `WOULD_BLOCK`. `waking` is the gap between the unlock and
`wake_chan_waiter`. `got` is the user buffer. A fault in the receiver's copy is
a disjunct of `Recv` allowed by `Faults`. Left out: calls of length 0 and the
statistics counters.

### Pipe

`pipes` is `PIPES`; of a task only its mask, redirects and the call in progress
are kept; `sh` is the shell in `cmd_pipeline`. Blocking calls are actions that
are not enabled, since the sleeping loop changes nothing. A redirected write goes
into the pipe in chunks of at most `Chunk` bytes (128 in `sys_write`, fewer where a
user page ends, which is left out), each a `write_kernel` of its own, which pushes what
fits, sleeps and pushes the rest; a `write` to a handle of pipe() has chunks of a whole
ring. `ReadLens` are the lengths readers ask for. The buffer is
modelled as the code has it, `head` arithmetic included, so what readers get is
compared with the history variables `sent` and `rcvd`. `mixed` is history too: a pass
put bytes on others still in the ring, or a read left some behind, after which the
positions are wrong; and `held`,
the ends a program has, whether or not the kernel recorded them. `Abilities`
switches on what else may happen: fork, clone, pipe(), signals, failed spawns,
background pipelines. Left out: failing copies to user memory. Redirects to files
are in `Sysfile`.

### Tcp

`socks`, `ctr` are `SOCKS` and the two counters of each machine; `app` is where
each program is in its calls. What the code does under `TCP_LOCK` is one action.
A segment is sent after the unlock, so it waits in `out` until `Transmit`; the
tick decides under the lock (`TickDecide`), drops it and acts (`TickAct`) on
whatever the slot holds then. `net` loses, duplicates and swaps segments
(`Misbehave`); a full queue drops. Rings are sequences of the bytes in them, a
byte is its writer and position. Sequence numbers are modulo `SeqMod`. Time is
left out: an armed timer may fire at any moment. A panic by overflow stops the
machine. A program is in one connect at a time; with two programs on one machine the
loop of connect looks at a slot number that another may have been given meanwhile, and
the time-out frees whatever is there, as in the code. Left out: ARP, checksums, the
capacity of the RX window in headers.

### Fat32

`cache` is the FAT in memory, `fats` its two copies, `data` the clusters. An
operation runs under the lock of the disk, and what it will write is decided by
what it finds at its start: `Begin` computes the device writes as `plan`, in the
order of the code, and each `DevWrite` makes the next. Between any two the power
may fail and the disk is mounted again, or a write may fail and the operation
takes its error path. `want` is history: what a path may name, the old or the new
state while an operation is under way. `harm` names the three accidents after
which some promises end: an entry left dangling (chains are given back before
their entry is changed), clusters leaked by a cut or by a directory without room,
a directory overwritten by a file of its name.

### Sysfile

`files` is `FILES`, `disk` the map from paths to contents that `Fat32` promises,
`cwd`, `dest`, `st` the parts of a task it uses. open loads the buffer, write
changes it, close writes it back; unlink looks and deletes in two steps; exit
makes a zombie first and releases its files then; the shell opens the file of a
redirect, lends its slot and closes it after the child. `last` and `unsure` are
history: what should be on the disk, and for which paths that cannot be said: those
whose sessions overlapped, one of a killed task, one whose write-back failed. As in the
code nobody asks whose slot a read, write or seek names.

### Memory

`used` and `refs` are the bitmap and the share counts, `pt` and `tab` the leaf
entries and the frames of the tables, `tlb` what each CPU has cached, `brk` and
`kst` the break and kernel stack of each thread, `ipi` and `acks` the shootdown.
`Load` caches the entry of a page, a store uses the cached entry if there is one and
caches it otherwise. `CowFault` and `CowResolve` are the two halves of `cow_resolve`,
which flushes the page on its own CPU only, `Killed` is its refusals: a sibling has
resolved the page already, or no frame is left. `ScanRun` and `MarkRun` are the halves of
`alloc_contig`. sbrk goes page by page under `HEAP_LOCK` (`SbrkPage`, `SbrkUnmap`), and
takes back what it mapped when a frame or a table is missing (`SbrkFails`); the siblings
run meanwhile, and `HEAP_LOCK` does not keep fork out, whatever its comment says
(`user/heap.rs:55`). fork copies the table and flushes the pages it downgraded; it shoots
down and waits for acknowledgements, which another shootdown may reset, or gives up
(`"timeout"`). exec and spawn build an image frame by frame and may run out.

`harm` names the accidents after which something is not promised. Three spoil what
pages hold (`Contained`): a kernel write into a shared page, a wait for acknowledgements
that was cut short by another or given up (`"acks"`), and an old frame that a sibling's
CPU still reads through its cache after another thread has copied the page
(`"stale read"`). After the others, the structural ones, frames may have two uses, and a
behaviour makes no more calls: two threads of a process on one copy-on-write page, a shrink
a sibling has cached, the race in `alloc_contig`, a fork without frames, an image that could
not be built. That there are no others is a theorem, and the table below shows each but
the shrink. The accident of two threads has three forms: both threads fault, one forks while
the other's fault is under way, and one still stores through the entry its CPU has cached
after the other has begun to copy the page. The last was found by an attempt to prove
isolation.

### Desktop

`sc` is the scene, `shown` the framebuffer, `task` the programs and terminal
sessions. One axis of the screen is modelled, the taskbar is one more cell, a
pixel is the pid that painted it. `Frame` is one pass of the compositor loop:
motion, drag or resize, button, key, tick, then `Render` of the damaged cells only.
`Freeze` is the halt, which covers the screen with its farewell and composes no more.
Programs may open several windows; each call names the one opened last.
Left out: hovering over the menu, more than one key per frame, glyphs and colours.

### Prompt

One terminal, the console or a window, with the keyboard interrupt, the compositor, the
shell, the child and `jobd` as separate actors. `ed` is the `LineEdit`, `scr` the live line
as the terminal shows it: a grid with a caret, or a row that only grows and shrinks at
its end. `ring` is the one keyboard ring. On the console the interrupt sets the flag
(`Press`) and the shell pops the ring; in a window the compositor moves a key to the
window's queue `inp` and sets the flag if there was room (`Route`). A child that reads its
input pops the ring itself, before either of them (`KidReads`). `intr` is the
pending flag; `jobd`'s tick swaps it, collects the registered pids and signals them in
three actions (`TickSwap`, `TickTable`, `TickSend`), after the draining of signal
reports in two. `odd` names why a line is known not to match. The modelled window has the
focus. Left out: pipelines with several pids; a second window, whose Ctrl+C would overwrite
the one flag; the console's flag that a key typed in a window sets too.

## 3. Runs

### What is checked

Every listed run passes. Each property has a mutant, a plausible slip in one
mapped definition under which TLC refutes it (`mutants` in `PROJECT.json`).

| run | states | instance | shows |
|---|---|---|---|
| `SchedLifecycle` | 2.2 M | 1 CPU, 5 slots, 6 pids | the current context keeps its slot, no wait or join is stranded, a process takes its threads along |
| `SchedPreempt` | 1 M | 2 CPUs, 5 slots, signals 9 and 15, exec | ring-3 tasks that are preempted, created, signalled and exec'd are on one CPU at a time |
| `SchedLive` | 58 k | 1 CPU, 5 slots, a daemon, 1 key | every zombie is reaped, every Ready task runs once creation stops, every sleeper wakes, nobody runs without a wakeup; types |
| `IpcStream` | 218 k | 2 channels of 2 bytes, 3 tasks, private and named keys, a faulting receiver, a death | refinement of `ByteStream`, no lost wakeup, one channel per key, a send returns if the receiver keeps receiving |
| `PipeStream` | 284 k | 3 tasks that fork, ring of 3, a message of 4 in chunks of 2, reads of 1 and 3 | bytes come in order while passes and reads meet and leave an empty ring, counts are owners, end of file is final, the pipeline ends |
| `PipeChaos` | 1.6 M | 2 pipelines, threads, pipe(), signals, failed spawns, background | a recorded end is counted |
| `TcpStream` | 288 k | 2 machines, 2 sockets, rings of 2, 1 retry, one lost or duplicated segment | the reader gets a prefix, the ring is what is unacknowledged, the ends agree, no opened socket is abandoned, retransmission ends |
| `FatDisk` | 148 k | 5 clusters, 3 slots a sector, a directory, two names with one 8.3 form, 4 operations, 1 failure | chains are disjoint, nothing leaks, paths name what completed operations wrote |
| `Files` | 1.2 M | 3 tasks, 2 slots, 5 calls, the disk full once | accepted bytes reach the disk, a redirect stays in its file |
| `MemoryCow` | 628 k | 3 CPUs, 12 frames, 3 pages, 4 calls, 2 forks or images, time-outs | isolation, exact share counts, every frame accounted for, stale writable entries about to be flushed |
| `Desk` | 1.3 M | 5 columns, 4 windows, queues of 2, 4 frames, 5 calls, 2 sessions | outside the damage the windows of programs and terminals are shown as they are, close is heard, no foreign pixels |
| `PromptLine` | 3.3 M | lines of 3, history of 2, row of 4, ring of 2, a window queue of 1, 4 keys, a command | the line shown is the line edited, history is the past, a Ctrl+C taken reaches the command, one signal per Ctrl+C |

The modules state a few simpler properties too that hold on the same instances and
have no run of their own: the `TypeOK` of the other modules, `PinnedStay` and
`IdleHome` of `Sched`, `PollHonest` and `NoPanic` of `Tcp`, `SlotsReleased` and
`NoPanic` of `Sysfile`, `CanPresent` of `Desktop`. Adding their names to the
configuration checks them. `PinnedStay`, `IdleHome`, `PollHonest` and the `TypeOK` of
`Ipc`, `Pipe`, `Tcp`, `Sysfile`, `Memory`, `Desktop` and `Prompt` are proved.

### Where code and comments, or code and expectation, disagree

The same modules show where a comment promises more than the code keeps; where
the repository says nothing (—) the property is what a user would expect. Each row
takes TLC seconds to a minute. The first column is a configuration kept here, or a
listed one with the change that is named and the property in place of its own
(under `Spec`).

| configuration | property | what the repository says | what happens |
|---|---|---|---|
| `SchedDoubleRun` | `NoDoubleRun` | "two CPUs can never grab the same task" (`sched.rs:17-18`) | a task marks itself Sleeping (`sched.rs:985`); another CPU's timer wakes and picks it while its own CPU has not left its stack |
| `SchedPulledSlot` | `NoPulledSlot` | "must not be running anywhere" (`sched.rs:260`) | two CPUs: a zombie still in its exit hooks (`sched.rs:1301`) is reaped by the other CPU |
| `SchedMarked` | `MarkedDie` | "at the first interrupt after the flag was set" (`sched.rs:1928`) | a marked thread that is preempted is Ready when the death test wants Running (`sched.rs:1930`), at every interrupt again |
| `SchedOrphan` | `GroupDiesTogether` | "takes its whole thread group with it" (`sched.rs:1262`) | a marked thread clones after the sweep; the new thread survives |
| `SchedLogFull` | `NoStrandedWait` | "oldest entries are overwritten" (`sched.rs:241`) | a full reap log overwrites entry 0 (`sched.rs:247`), whose pid is still to be waited for |
| `SchedJoinAny` | `NoStrandedJoin` | "an exit cannot be missed" (`sched.rs:1536`) | join(0) and join(tid) both wait for one exit, only the first is woken (`sched.rs:1231`) |
| `SchedExec` | `GroupSharesSpace` | "refuse inside a thread group" (`sched.rs:670`) | a thread that is not the main one execs (`sched.rs:709`), its siblings keep the old image |
| `SchedKill` | `NeverRunsBlocked` | "its CPU's kidle is always Ready" (`sched.rs:1984`) | `kill` frees the Ready idle task (`sched.rs:1403`), after which a blocked task keeps the CPU |
| `IpcFault` | `NoLostSender` | "can never miss the wakeup" (`ipc.rs:8`) | a recv whose copy fails (`ipc.rs:161`) frees room and wakes nobody |
| `IpcTwoSenders` | `NoLostWakeup` | "callers see blocking semantics" (`user/src/lib.rs:235`) | the second sender overwrites the first one's registration (`ipc.rs:123`) |
| `PipeCorrupt` | `ByteStream` | "the classic Unix byte stream between processes" (`fs/pipe.rs:1`) | two chunks before a read, or a read that leaves bytes, put `head` and `len` out of step (`fs/pipe.rs:329`) |
| `PipeWedge` | `PipelineEnds` | "a killed process can never wedge a pipeline" (`fs/pipe.rs:22-23`) | a stage ended by a signal keeps its ends counted (`sched.rs:1783`), the next stage waits for ever |
| `PipeEof` | `EofIsFinal` | "exactly when every upstream stage is gone" (`fs/pipe.rs:12`) | a thread writes through its process's redirect after the reader saw end of file |
| `PipeLeak` | `RefsMatch` | "must not leak" (`shell.rs:1175`) | the shell's cleanup ends stages with a signal, which releases none of their ends |
| `PipeForked` | `RefsCover` | "must cover every task that holds the handle" (`fs/pipe.rs:195`) | ends from pipe() are in no mask (`user/syscall.rs:353`), so fork does not count them |
| `TcpTail` | `TailArrives` | "a full RX ring accepts what fits and ACKs only that, so the peer resends the tail" (`net/tcp.rs:14-15`) | an acknowledgement of a part is not taken (`net/tcp.rs:678` compares without sign), what is resent looks old to the receiver, and the connection is given up |
| `TcpWedge` | `ListenerReturns` | "the listener keeps listening" (`net/tcp.rs:8-9`) | when the last segment of the handshake is lost the listener stays in SynRcvd |
| `TcpStream`, `MaxBytes = 4`, `MaxNet = 3`, `MaxFaults = 0`, `Patient = TRUE` | `StreamPrefix` | "in-order byte stream" (`net/tcp.rs:12`) | with less room in the ring than asked (`net/tcp.rs:361`) send transmits bytes it does not keep |
| `TcpStream` with the definitions `...Two` and `TwoClients` of `MCTcp`, `NSock = 3`, `MaxFaults = 0` | `EstablishedReachable` | "becomes a fresh socket that accept() hands out" (`net/tcp.rs:8`) | a second connection overwrites the one that is pending (`net/tcp.rs:659`) |
| `TcpStream`, `Mss = 1`, `MaxNet = 3`, `Faults = {"swap"}` | `StreamPrefix` | "out-of-order segments are dropped" (`net/tcp.rs:12-13`) | a FIN is taken out of order (`net/tcp.rs:706`) |
| `TcpStream`, `IssStart = 62` | `NoPanic` | — | the subtraction of sequence numbers overflows where they wrap (`net/tcp.rs:679`) |
| `TcpStream`, `Leavers = {"server"}` | `WindowsAgree` | — | a listener closed during a handshake leaves its peer with a connection nobody has |
| `FatDisk` | `CrashSafe` | — | write_file, delete and rmdir free the chain (`fs/fat32.rs:656`) before they change the entry; a cut leaves it on free clusters |
| `FatDisk` | `FullDiskKeepsNothing` | — | a file that finds no directory slot keeps its chain |
| `FatDisk` | `DirsKept` | "Create or replace a file" (`fs/fat32.rs:608`) | a file written to the name of a directory replaces it, and what it held is lost |
| `Files` | `KilledReleases` | "A crashing program cannot leak slots or lose buffered bytes" (`fs/sysfile.rs:44-45`) | a task that a signal or kill ends never reaches `on_task_exit` |
| `Files` | `UnlinkRefused` | "refuse to unlink a file that is currently open" (`fs/sysfile.rs:416`) | the check is made, the lock dropped (`fs/sysfile.rs:425`), the file opened, then deleted |
| `Files` | `InheritedIntact` | "the writing child only borrows it" (`fs/sysfile.rs:631`) | a grandchild that inherits the redirect outlives the shell's close and writes to whatever reuses the slot |
| `Files` | `ExitIsAfterFlush` | — | the parent's wait returns before the child's files are written back |
| `Files` | `CwdExists` | — | a directory that is somebody's working directory is removed |
| `Files`, `Seeks <- PastEnd` | `NoPanic` | "cursor read (0 = EOF)" (`user/syscall.rs:498`) | a read at a cursor beyond the end slices past the buffer (`fs/sysfile.rs:294`) |
| `MemoryCow` | `SyscallsIsolated` | "the first write takes a page fault the kernel resolves by giving the writer a private copy" (`mem/vmm.rs:11-12`) | a system call that writes to a shared page writes to the frame of both processes |
| `MemoryCow`, `Abilities = {"clone"}`, `NPages = 1`, `NFrames = 17`, `MaxOps = 5` | `ThreadsIsolated` | "the kernel resolves by giving the writer a private copy" (`mem/vmm.rs:11-12`) | two threads fault on one page (`mem/vmm.rs:568`); the second copy replaces the first |
| `MemoryCow` | `StoresResolve` | "the faulting store should simply be retried" (`mem/vmm.rs:566-567`) | a thread whose sibling has just resolved the page is refused (`mem/vmm.rs:574`) and is killed |
| `MemoryCow` | `ReadsFresh` | "in principle no CPU can hold stale user translations" (`mem/tlb.rs:4-5`) | a thread reads on in the old frame after a sibling has copied the page; `cow_resolve` flushes its own CPU only (`mem/vmm.rs:598-601`) |
| `MemoryCow` | `ForksFlushed` | "so no other CPU keeps stale writable entries" (`mem/vmm.rs:241`) | a shootdown resets the counter of another or gives up (`mem/tlb.rs:67-86`): fork returns while a sibling may still store into the shared frame |
| `MemoryCow` | `StacksDistinct` | "SMP-safe: the whole scan-and-mark runs under CONTIG_LOCK" (`mem/frames.rs:96`) | `alloc_contig` looks and marks in two steps (`mem/frames.rs:104`), an `alloc` in between takes a frame of the run |
| `MemoryCow` | `FailedForkKeepsFrames` | — | a fork that runs out of frames half way does not give all of them back |
| `MemoryCow` | `FailedBuildKeepsFrames` | "released, not leaked" (`user/task.rs:164`) | a frame taken and not yet mapped when the next allocation fails is lost |
| `Desk` | `BarsFresh` | "mark every affected region (all title bars + taskbar) dirty" (`gui.rs:790-791`) | the titles show who is active and are not damaged by every change of it |
| `Desk` | `GestureSameWindow` | — | a drag or resize holds a slot number; the window closes and another one opens in it |
| `Desk` | `NoPanic` | — | such a resize reaches a window without the buffers it copies (`gui.rs:2223-2245`) |
| `Desk`, `Requests <- Auto` | `AutoOnScreen` | "x/y < 0 (GUI_AUTO) means 'place me automatically'" (`gui.rs:1515`) | the automatic position is passed modulo 2^16 and is not recognised |
| `DeskTerm` | `TermOwnText` | — | a terminal's slot is reused with the text of the former one |
| `PromptLine`, one of `Consoles` | `LineAlwaysHonest` | "addressed by cell counts, never by bytes" (`lineedit.rs:108-112`) | a console redraw away from the end (`lineedit.rs:113-127`) or a completion (`lineedit.rs:288-333`) leaves the line shown and the line edited apart |
| `PromptLine` | `EchoOnce` | "the two paths never double-print" (`jobs.rs:22-24`) | a press during a command is echoed by `jobd` and again by the editor |
| `PromptLine` | `CtrlCTaken` | "Ctrl+C interrupts the child" (`shell.rs:571-572`) | in a window a child that reads its input pops the key before the compositor does (`user/syscall.rs:530`, `gui.rs:2282`), or the window's queue is full: no flag is set |
| `PromptLine`, `MaxCmds = 2` | `NoStrayIntr` | — | a flag set as one command ends is delivered to the next |
| `PromptLine` | `SigFirst` | "so the [ sig ] line lands first" (`jobs.rs:218-221`) | `jobd` holds the report while the shell prints the exit |
| `PromptLine` | `CaretInLine` | — | completion at the full length moves the caret past the line; the next key slices out of range |

Two comments promise what the code decides otherwise without a run being needed:
O_APPEND is "open-or-create", but a missing file fails, and O_CREATE without a
write flag neither creates nor truncates. `Sysfile` follows the code.

`SchedPulledSlot` needs two CPUs; that it cannot happen on one is a theorem.

One expectation fails outside every instance here. `pick_next` serves the lowest Ready pid
above the current one before it turns back to the lowest (`sched.rs:1887-1899`), and pids
only grow. A chain of tasks that each create the next one and leave never turns back, and a
Ready task with a lower pid gets no CPU as long as the chain goes on. `ReadyRuns` therefore
has the premise that at some time no more tasks are created
(`<>[][nextPid' = nextPid]_vars`). In `SchedLive` the bound `MaxPid` makes it true: the run shows that a Ready task outlasts
whatever is created first, and nothing about creation without end.

### Bounds, and why they are enough

* Table sizes. Slots are symmetric except for the boot tasks and the search
  order ("first free", "first matching"), so a boot task or two, a process, a
  thread or child, and one more slot to be reused exercise each search with no,
  one and several matches. `MaxPid` exceeds the number of slots in
  `SchedLifecycle` and `SchedPreempt`, so slots are reused.
* `LogSize` is as large as `MaxPid` in `SchedLifecycle`: no entry is ever
  overwritten there, which is the case `NoStrandedWait` is about; the full log
  is `SchedLogFull`.
* Rings of 1 to 2 bytes with messages of 1 to 3 wrap, fill and run empty. In
  `Ipc` nothing depends on the size (proved).
* `MaxBytes` lets one message enter each pipe in `PipeStream`: no write begins
  once that many bytes have entered. Its four bytes are two chunks of two, the ring has
  three cells and readers ask for one byte or for three, so chunks meet an empty ring and
  one with bytes in it, fit and do not fit, and reads take all or leave some; what comes
  after bytes were mixed is `PipeCorrupt`. Three stages with two pipes pass as
  well, on a smaller ring (`NPipes = 2`, a message of two, `Cap = 2`, `Chunk = 1`,
  `ReadLens = {2}`, 951 k states). In `PipeChaos`, where a second
  pipeline reuses the pipes of the first, nothing is written (`MaxBytes = 0`): it is about
  the counts only.
* `TcpStream`: a message of two bytes fills the ring and one segment, so that
  both rings are full at times, and every segment of a connection can be the one
  that is lost or duplicated. The two sockets of the server are its listener and
  the connection. Short sends, reordering, the wrap of sequence numbers, a second
  client and a listener that leaves are the cases of the table above. With one retry,
  giving up is a few steps away.
* `FatDisk`: the five clusters are the root directory and four for a directory and
  two files of up to two clusters, so allocation reuses freed clusters and runs out; a directory
  sector of three slots fills up and grows by a cluster; the two names collide in
  their short form. Four operations suffice for create, replace, delete, create
  again. One failure, at every device write in turn.
* `Files`: two slots for three tasks, files of up to two bytes, so the table fills
  and a write reaches the largest size. Five calls let a file be opened twice,
  changed through both descriptors and closed in either order.
* `MemoryCow`: twelve frames are fewer than four calls with two forks or images need,
  so every allocation fails in some behaviour, sbrk's second page among them. Three threads
  are two processes with a thread more, or three processes that share a page, each with a
  CPU: two shootdowns overlap, and a thread reads, stores or faults while its sibling forks.
* `Desk`: four windows of at least two columns on five overlap in every order; the
  two programs are interchangeable (`SYMMETRY`). Queues of two fill with two
  events. Four frames and five calls between them, two sessions in one terminal
  slot: a gesture can begin, its window go, another take the slot, the gesture go
  on.
* `PromptLine`: a line of three in a row of four fills up and leaves the caret
  before, inside and behind it; Enter is not counted among the four keys, so
  three lines wrap the two history entries; the key ring of two and the window's
  queue of one overflow.
* Deadlock is not checked where the bounded work ends and the modelled system
  stops (`Pipe`, `Tcp`, `Fat32`, `Sysfile`, `Memory`, `Desktop`, `Prompt`); a
  wedged pipeline, connection or interrupt is what `PipelineEnds`, `TxSettles` and
  `IntrReaches` are for. The scheduler and channel runs check it.

### Fairness

* `Sched`: an interrupt return reaches `post_dispatch` and its loops end, since
  they are plain code with interrupts off (weak; strong for `Tail`, which
  competes for the lock); the LAPIC timer interrupt stays latched until the CPU
  takes it (strong); an idle task's loop yields again and again; the kernel's
  own threads sleep in their loops; time passes. Nothing is assumed of ring-3
  programs, other interrupts or keys.
* `Ipc`: a Ready task gets a CPU and so finishes its system call (`ReadyRuns` of
  `Sched`); the program that receives does so in a loop, as ping and pong do.
* `Pipe`: calls that can progress do (`ReadyRuns` and `SleepEnds`), the shell
  goes on, filters read to the end of their input and exit then. No writer is
  obliged to write.
* `Tcp` (`TimerSpec`): the network daemon's loop sends what it has to send and
  ticks. No delivery is assumed: `TxSettles` holds if every segment is lost.
* `Prompt`: `jobd` ticks every 40 ms. No key is assumed, no step of the shell or the
  compositor, and no command to end by itself.

## 4. Proofs

Thirty-nine theorems. Twenty-eight state a property some run checks, and take it from
the run's instance to every value of the constants; the others state the types and
simpler properties a run would only repeat. All of them hold under the assumptions
on sizes that each module declares (`SizesAssumption`, `RingAssumption`,
`IpcAssumption`, ...): table sizes are positive, sets of calls are made of calls.
Further hypotheses are named with the theorem, and for most of them a row of the
table above shows the property failing without it.

`IpcProof` and `PipeProof` begin with the same lemmas about the circular buffer: what
storing at `head` and loading at the tail do to its bytes, with or without
wrap-around, for every size.

`SchedProof`, for every number of CPUs, slots, daemons, log entries and every
workload:

* `TypeCorrect`: `Spec => []TypeOK`.
* `UniprocessorSlots`: with one CPU, `[]NoPulledSlot`. Not inductive alone: a
  slot that is Dead could be handed to a new task. `OwnSlot` adds that the
  current slot is never Dead. Every action but `Pick` is shown to be `Quiet`: it
  leaves `cur` and `ctx` alone, and each slot keeps its task, is freed although
  some CPU is not in it, or was Dead and holds a new task. With one CPU "some CPU
  is not in it" is all that is needed. `Pick` takes a Ready slot. With two CPUs
  the step that fails is `Reap`: the zombie it frees may be current elsewhere
  (`SchedPulledSlot`).
* `IdleHomeHolds` and `WakesFirst`: unless the workload has the shell kill
  kernel tasks (`SchedKill`), each CPU's idle task stays in place and Ready or
  running, and no step makes a blocked or exited task Running. `IdleInv` adds that
  only the slots `Kidle(c)` hold idle tasks, that these are kernel tasks never
  marked for death, that `cur[c] = Kidle(d)` only for `c = d`, and that inside the
  loops of `post_dispatch` the idle task is already parked. From it `Best` is empty
  only when the CPU is already in its idle task, which is Ready: so the `None`
  branch of `post_dispatch` resumes nobody else.
* `PinnedHolds`: a pinned task is current on its own CPU only.

`SchedProof`, for one CPU, every number of slots, daemons and pids, if no signals are
sent and the shell kills no kernel task (`Uni`):

* Every step has one of seven shapes (`Shaped`): nobody ends, a thread ends by itself
  and wakes one waiter, a process ends with its threads, a zombie is freed into the
  log, a task is created, a child is taken by wait, a thread by join. The three
  theorems go through the shapes and not through the actions. `Sole` is what they
  share: the task on the CPU is the only one Running (`Alone`), no signal or mark is
  pending (`Calm`), a pid is in one slot and was handed out (`Pids`). A signal breaks
  `Calm`, a second CPU `Alone`: then a marked thread may clone (`SchedOrphan`).
* `GroupsDieTogether`: `[]GroupDiesTogether`. Inductive once it says that the main
  thread is a live user task with its own pid as group (`Group`).
* `JoinersWoken`: `[]NoStrandedJoin`, if programs name the thread they join
  (`SchedJoinAny`). `Owned` says that a child or thread is on one list of one task,
  `Joins` that no two tasks wait for one thread, that its pid is on nobody's list any
  more, and that it is a live sibling: so its exit wakes exactly the joiner.
* `WaitersWoken`: whoever is parked in wait(p) has p alive (`WokenBy(p)`), for each p, as
  long as the log entry of this p is not overwritten. Other entries may be, and the
  log may be full of children nobody will ever wait for. `Accounted` says that a child
  somebody may still wait for is in a slot or in the log, which is the reason for the log;
  `Waits` adds to the parked parent that the child is its own and the main thread of its
  group.
* `NoWaiterStranded`: so `[]NoStrandedWait` if no entry is overwritten whose pid is on
  somebody's list (`OwedEntriesKept`). `reap_log_push` does not see to that: it overwrites
  entry 0 when the log is full (`SchedLogFull`).

`SchedProof`, for every number of CPUs:

* `NoTaskTwice`: `[](NoDoubleRun /\ NoPulledSlot)` for every workload, with parking, exits,
  signals and kills, as long as no step is disturbed (`Undisturbed`): a task that has
  parked or ended itself is neither made Ready nor freed before its CPU holds the lock in
  `post_dispatch`. `Seats` says that a CPU's current slot holds the task whose stack the
  CPU is on and is not Dead, that it is Ready only while that CPU holds the lock inside
  the loops of `post_dispatch`, and that no two CPUs have one slot current. Picking takes
  a Ready slot, and the only Ready slot that is current belongs to the CPU that picks.
  The code relies on the condition and does not establish it: the wakeup of
  `SchedDoubleRun` and the reaper of `SchedPulledSlot` are two steps that break it, and
  the theorem says that nothing goes wrong without a step of one of these two kinds.

`IpcProof`, for every ring size, message size, number of tasks and channels:

* `IpcTypeCorrect`; `KeysUnique`: `[]OneChannelPerKey`, inductive as it stands.
* `StreamsImplemented`: `Spec => ImplementsStreams`, from the lemmas about the
  ring. `UnusedFresh` says that a channel not yet open is fresh, so opening
  one leaves its stream empty.
* `WakeupsKept`: if each side of a channel has one user (`OneEach`), then
  `[]NoLostWakeup`, which excepts a sender whose receiver's buffer faults. The
  invariant `WakeInv` says that a parked task is being woken or is registered in
  the channel of its call while that call cannot progress. Hypothesis and
  exception are both needed (`IpcTwoSenders`, `IpcFault`).

`PipeProof`, for every number of pipes, tasks and stages and every ring size:

* `PipeTypeCorrect`: `[]TypeOK`, under everything programs and the shell may do.
* `EndsCovered`: `[]RefsCover` if programs do not both fork and call pipe()
  (`PipeForked`). The count of an end is related to the set of its owners. Each
  step is shown to do one of four things to an end (`Shape`): nobody gets it, one
  owner closes it and is no longer counted, one gets it and is counted, or the pipe
  is new and the shell or one task has both its ends. `EndsInv` says who can have
  ends at all: a free slot has none, a zombie only those it still closes, a mask is
  a part of the ends the task was given, and all of them without pipe().
* `EndsMatched`: `[]RefsMatch`, so that no end leaks, if programs fork, make threads
  and run in the background but nobody is killed, no spawn fails and nobody calls
  pipe(). The same four steps; `Orderly` adds that then nobody loses an end it did
  not close. Each exclusion is a leak: a kill releases nothing (`PipeWedge`), a
  failed spawn ends in kills (`PipeLeak`), an end of pipe() is in no mask.
* `EndOfFileFinal`: `EofIsFinal`, an action property, without threads (`PipeEof`) and
  pipe(). `EofInv`: a task writes to an end it owns, so by `RefsCover` that pipe has
  a writer; a pipe whose reader has seen end of file has none, and counts do not
  rise from zero.
* `StreamKept`: `[]StreamIntact`, whatever the sizes of ring, chunks, messages and reads. `head`
  moves on writes and on reads, so the cells are found again only if every pass pushes to an
  empty ring and every read takes all there is; `mixed` records the first step that does
  neither, and up to it `Behind` says that what was written is what was read and then
  the ring. The exception is needed: `PipeCorrupt`.

`SysfileProof`, for every number of tasks and descriptors, every tree of paths and
size of files:

* `SysfileTypeCorrect`: `[]TypeOK`.
* `RedirectStaysIntact`: `[]RedirectIntact`, inductive with the fact that the
  program waited for has been started and its output is a descriptor (`Lent`).
* `BytesKept`: `[]NoLostBytes`. The property is about files nobody has open; `Kept`
  says what holds meanwhile for a path without an accident: one session has it open,
  its buffer is what was written or the disk is, and every path on the disk has its
  directory. The last is needed because a write-back creates the file again.

`MemoryProof`, for every number of frames, threads, pages, forks and calls:

* `MemoryTypeCorrect`: `[]TypeOK`, whatever accidents happen.
* `SharesExact` and `NoFrameLeaks`: `[]RefsExact` and `[]FramesKept`. The invariant
  `Sound` holds until a structural accident: each frame has exactly
  one kind of use, as a page (share count: number of pages that map it, less one), a
  table, a kernel stack, a copy in the making or a lost root (`FrameOK`); a page
  that may be written is not shared; a thread in the middle of a fault holds the
  frame it found, and no sibling is at the same page; a thread in sbrk's loop is the only
  one there. Every step is described by what it does to these sets, frame by frame.
* `NoStaleTranslation`: `[]NoStaleWrite`, with shootdowns that overlap, are cut short or
  time out. `CachesOK` says that a cached entry agrees with the table, is a stale read, or
  allows a write the table does not and is to be flushed: the interrupt is on its
  way to that CPU, or a fork of its process has still to send it. While no wait was given
  up or cut short, the acknowledgements and the CPUs still to answer make up all the
  others, so that fork waits for it.
* `ProcessesIsolated`: `[]Isolated`. `ContentsOK` says that every mapped frame holds what
  its process wrote last, copies in the making included, until any of the eight accidents.
  The list of accidents in `harm` is complete in this sense.

`TcpProof`, for every number of machines, sockets and programs, every size and
initial sequence number, and a network that loses, doubles and swaps:

* `TcpTypeCorrect`, `PollIsHonest`: `[]TypeOK`, `[]PollHonest`.
* `RingHoldsUnacked`: `[]TxIsUnacked`. The invariant `Held` says that a connected
  socket holds as many bytes as lie between `snd_una` and `snd_nxt`, and that a
  socket has no bytes and no end of file before it is established. Sequence numbers
  wrap: that the distance is kept by sending and acknowledging needs `TxCap < SeqMod`
  (`TcpAssumption`; in the code 8192 bytes and 2^32). `RetriesOK` bounds the retries:
  they pass the limit only while the daemon is about to give the connection up.
* `OpenedAreHeld`: `[]OpenedHeld`. `Owned` says that a serving socket has the listening
  port and that every other used one is held by a program (`Attached`). What a step leaves
  in a slot is what was there or nothing (`Follows`), a socket of the listening port, or an
  active one that its program has just opened; `connect` and its time-out are the only ways
  a program turns away without `close`, and the first does so only when the slot is free
  or established.

`DesktopProof`, for every width, every number of programs, sessions and windows and
every size of queue:

* `DesktopTypeCorrect`: `[]TypeOK`, with the z order a list of every slot once.
* `DamageIsComplete`: `[]DamageComplete`. Not by looking at the screen: each helper
  (focus, drag, resize, close, ...) is shown to do to the scene only what `Does`
  allows, namely that each column outside the new damage has the same window on top
  with the same pixel, or now one of the kernel's (`SameLook`). `Does` composes
  (`DoesBoth`), so a frame is a chain of such helpers, and `Render` draws the rest.
  One lemma serves all that change one window (`PutLook`), two the z order
  (`RaisedLast`, `TopLifted`).
* `CloseIsHeard`: `[]CloseHeard`. Not inductive alone: a full queue drops its oldest
  event, which could be the close. `Heard` adds that a window shut under its program
  is not being resized, so no event is added after the close; `GripHeld` that a
  click, which alone shuts a window, finds no resize in progress.
* `PixelsAreOwn`: `[]OwnPixels`. `PaintOwn` holds for every slot, open or not: a
  window shut by its close box keeps its buffers until the slot is given out, when
  they are new.

`PromptProof`, for every length of line and history, every width of the row, every
size of the keyboard ring and every alphabet:

* `PromptTypeCorrect`: `[]TypeOK`.
* `LineIsHonest`: `[]LineHonest`, on the console and in a window. Each helper of the
  editor (insert, erase, recall, the completer's line, the two redraws, moving the
  caret) is shown to take a `Fine` screen to a `Fine` screen (`Keeps`): the cells the
  editor believes drawn (`shown`) are as many as the line has, an empty line has its
  caret at 0, and unless `odd` names a cause the row is `Sharp`: prompt, line and
  caret exactly. `LineFine` adds that the line is empty while a command runs, so
  what is printed then is over no line.
* `HistoryTrue`: `[]HistoryIsPast`. `InPast` relates slot `head - 1 - back` of the ring
  to the line submitted `back` lines ago; remembering a line shifts them all by one,
  before and after the ring is full, and no other key writes to the ring.
* `SignalsAreOwed`: `[]OneSignalPerKey`. The invariant is `Owed`: a flag that is up and a tick that has taken it down
  and not yet delivered are each owed one Ctrl+C that has sent nothing yet.

`PromptAssumption` asks for `LINE_MAX > 1` (128 in the code), without which a completion
cut to `LINE_MAX - 1` bytes would leave an empty line with its caret at 1, and that a
keystroke is either a character or one of `Controls`, as the decoder's codes are.

Only model-checked:

* liveness, which is outside the proof system's reach (fairness and ENABLED):
  `ReadyRuns`, `PipelineEnds`, `TxSettles`, `IntrReaches` and the like;
* `StreamPrefix` and `WindowsAgree` of `Tcp`: both are false for a network that
  reorders or loses enough (the table above), and what `TcpStream` excludes is a
  matter of bounds and not of a condition the code could rely on;
* everything in `Fat32`, which follows chains with recursion on data that the provers
  cannot unfold.

## 5. Plan

Theorems: `NoCrossLink` of `Fat32` from the order of the writes, if its chains can be
stated by the successor function alone.

Modules:

1. `Sock`: UDP sockets with the queue at its limit, one waiter, close while a
   receiver is parked.
2. `Signal`: handler frames, nesting, sigreturn, signals that wake a parked call.
3. The network daemon's ARP cache, the kernel heap's free list.
4. `Sched` with `Pipe`: the exit path of a thread that reads its mask from a slot
   that was reaped early (`sched.rs:1359`); wait(0), which does not look at the
   reap log (`sched.rs:1140`).

## 6. Not modelled

* Register and descriptor programming: GDT, LAPIC, PIC, PIT, AHCI, PCI, e1000. The
  models see a device write that fails or is the last, a segment that is lost, an
  interrupt that stays latched.
* Text and pixels: console scrolling, font, serial port, glyphs and colours of
  windows, scancode tables, splitting of command lines, the commands that print.
* Checks without state: ELF headers, checksums and header layout, the real-time
  clock's calendar, FAT dates, FSInfo.
* Boot up to the state `Init` of `Sched` describes, and the start of the other
  CPUs: a straight line of initialisations.
* UDP sockets other than parking and waking, ARP, the kernel heap, handler frames
  of signals: these have state worth a module and are in the plan.
* Programs in `src/user/`: what they may call is a constant of each module, so
  their own logic is not needed; the editor, the window programs and the protocol
  clients are not modelled.

`components` in `PROJECT.json` gives the status of each part.
