# Verification of Pisces

Pisces is a Linux kernel module (`src/*.c`) that partitions a machine: it takes
CPUs, memory and PCI devices away from Linux and boots a second kernel (an
*enclave*, usually Kitten) on them.  Host and enclave then talk over shared pages
and inter-processor interrupts.  Nothing arbitrates between the two kernels but the
protocols in this code, which makes it hard to test and worth modelling.

Paths below are relative to the repository root.

## Inventory

| Part | Source | State | Operations | What makes it correct |
|---|---|---|---|---|
| xbuf, the cross-kernel call channel | `src/pisces_xbuf.c` | flag word, length and data of a shared page; wait queue | `sync_send`, `recv`, `complete`, `irq_handler`, server init/enable/disable | one call at a time, requests and responses intact, no lost wake-up |
| long calls | `src/pisces_lcall.c` | `active_lcall`, kernel thread | handler, thread loop, init, deinit | every accepted call is served; the thread can be stopped |
| trampoline and boot | `src/boot.c`, `src/trampoline_*/` | the machine's one trampoline page, its saved copy, `trampoline_lock` | setup, restore, `boot_enclave`, `stop_enclave` | a CPU enters the kernel it was started for; Linux gets its trampoline back |
| PCI assignment | `src/enclave_pci.c` | device list and counter, per-device flags, IOMMU domain, interrupt handler | add, remove, attach, detach, map, unmap, ack, cmd, reset, deinit | no use after free, DMA only through a held domain, no interrupt masked for ever |
| enclave life and resources | `src/enclave.c`, `src/main.c` | enclave map, reference count, state, memory list, CPU mask | create, open, launch, reset, free, add CPU/memory, proc files | references counted on every path, nothing used after it is freed, taken down once; resources known to the host are those the enclave has |
| control channel | `src/enclave_ctrl.c` | `ctrl->lock`, client xbuf | connect, release, the `PISCES_CMD_*` ioctls | a command uses a live descriptor; a failed command leaves no trace |
| boot parameters, loading | `src/pisces_boot_params.c` | the boot memory, the image files | layout, loading of kernel and initrd | areas whole, apart and where the enclave's kernel looks for them |
| console | `src/enclave_cons.c`, `src/pisces_lock.c` | ring buffer shared with the enclave, its spin lock, `connected` | read, connect, release, init | characters once and in order, one file, no lock without an owner |
| VM console | `src/v3_console.c`, `src/pisces_irq.c` | ring of messages, vector, wait queue | connect, kick, read, poll, write, release | messages once and in order, no lost wake-up, no handler of a freed console |
| files for the enclave | `src/enclave_fs.c`, `src/file_io.c` | table and list of open files | open, read, write, close, size, deinit | a handle is an open file, none is forgotten, bytes without a hole |
| XPMEM forwarding | `src/pisces_xpmem.c` | link, client xbuf | init, deinit, command both ways | as the xbuf |
| interrupts | `src/pisces_irq.c` | vectors | allocate, free, send IPI | |
| hash table, queue, ring buffer | `src/util-*.c`, `src/pisces_ringbuf.c` | | insert, change, increment, search, remove; enqueue, dequeue; read, write | a bag of pairs; a bounded queue; a byte stream |
| page tables, symbols | `src/pgtables.*`, `src/linux_syms.c` | | | |
| resource tools | `linux_usr/pisces.c`, `pisces_ctrl.c`, `teardown.c` | what a tool has taken offline | launch, add, remove, teardown | a CPU or block is Linux's or the enclave's, never both, never nobody's |
| other user-space tools | `linux_usr/` | none | wrappers of the ioctls | |

Interaction.  The host's ioctl threads call into the control channel, which is the
*client* of one xbuf; the enclave's threads are the clients of a second one, whose
server is the long-call thread; that thread runs the PCI and file operations.  LAUNCH,
RESET and FREE set all of it up and tear it down.  Two mutexes (`op_lock`,
`ctrl->lock`) serialise ioctls of different kinds *separately*, so a RESET runs beside
a control command; FREE takes neither.

What is hard here: spinning protocols between kernels, an interrupt that may come late,
CPUs stopped by INIT wherever they are, a timeout with the CPU still on its way,
pointers used after the lock that found them was released, and teardown beside use.
`PROJECT.json` lists each such place with its line under "hazards".

## Modules

`Xbuf` models one xbuf with any number of senders and one server.  `pc[t]` is the
place of thread `t` in `sync_send` (senders) or in `recv`/`complete` (server); `flags`,
`data_len` and `data` are the page.  Every access to the page is a step of its own, so
the two ends interleave at the grain of the flag operations and of each `memcpy`.  A
byte is a record naming its message and position, so that a mixed-up, repeated or torn
message is visible.  `StopSenders` is the INIT of `stop_enclave`: the senders stop
anywhere, the page stays as it is.

`RpcChannel` is the abstract channel: a call is waiting, begun, served, and returns
success only after it was served.  `Xbuf!Rpc` maps the detailed module to it
(`CallState`).

`Lcall` extends `Xbuf` with the kernel thread that serves it and with the ioctls that
start and stop the thread; `LSpec` is shown to implement `Xbuf!Spec` (`XbufSpec`), so
what `Xbuf` assumes of a server is checked against the real one.  A handler answers, or
returns without an answer as `enclave_pci_attach` may (`ServeAbandon`; `left` remembers it).
A launch may fail to boot with its thread running; the next LAUNCH then sets the channel up
again and starts a second thread, and the first stays asleep for good on a wait queue that
was initialised under it.  A CPU that timed out may come up late (`LateBoot`).

`Trampoline` models the machine-wide trampoline: the page-table page and the target
address, each named by the kernel it leads to, their saved copies, the two locks, the
threads in LAUNCH, RESET and ADD_CPU of every enclave, the CPUs and Linux's own hotplug.
The page-table entries that `pisces_setup_trampoline` writes are abstracted to "maps the
enclave".  `Relaunch` says whether user space may LAUNCH a running enclave, which the
code does not refuse.

`EnclavePci` models one enclave's devices: the list, each `struct pisces_pci_dev` as an
object that is live or freed, the hardware (regions, domain, handler, mask), and the
three threads that use it (`ctl`, `lc`, `top`).  A step ends where `pci_state->lock` is
released.  `Faults` names what may go wrong around the module: an attach that the IOMMU
refuses (`"attach"`, which leaves `assigned` up and the call unanswered), a device that the
enclave refuses (`"refused"`) or that cannot be initialised (`"reinit"`) after RESET, a driver
that forgets INTx (`"untidy"`), a RESET or FREE with devices attached or calls under way
(`"disorderly"`, which the code does not look at).

`Resources` models the loan of CPUs and memory blocks: what Linux uses (`online_*`), what
the enclave's kernel uses (`kernel_*`), the driver's notes (`assigned_cpus`, `num_cpus`,
`memdesc_list`, `memdesc_num`) and the tools that move resources between them.  A tool's
offline step, its ioctl, the enclave's answer and the online step after a failure are
steps of their own; `ctrl_lock` holds an ioctl from the note to the answer.  LAUNCH,
RESET and teardown are the administrator's: they may fail at each place where the code
returns early, and run while no adding or removing tool does (`Alone`).  A request for
several CPUs or blocks is as many tools, one for each, and `OfflineShort` is what happens to
those that went offline when another of the same request does not.  Left out: the failure of
`pet_offline_mem_node`, which `pisces_add_mem_node` ignores (it then sends ranges of no
pages), and a PCI name in `/proc` that teardown cannot parse.  RESET is modelled of an enclave
that runs, as that is what it is for; the code does not look.  What the enclave
answers, and that its kernel stops on SHUTDOWN, is external.  A launch is taken to fail
before the CPU runs; the CPU that arrives after the timeout is `Trampoline`'s `Quiesced`.
An enclave that runs is not launched again; that is `Trampoline`'s `Relaunch`.
`Careless` says whether somebody resets an enclave although a resource in its notes is
back in use by Linux, which the code does not refuse.

`Enclave` models the object `struct pisces_enclave` from LOAD to the last `put`: the map
and its slots, the reference count, the open files of each kind, the control descriptor,
the long-call thread, the file service and the kernel image.  LOAD, FREE and RESET are
chains of steps (`th[t]`), because FREE takes no lock and RESET not that of the control
channel; a step is what runs up to the next point where another thread can meet it.  A
command reads the descriptor (`CtrlBegin`), waits for `ctrl->lock` and checks the state
(`CtrlLock`), and uses what it read (`CtrlSend`).  LAUNCH, RESET and FREE come at any time:
beside commands and long calls, of an enclave that runs, that was never launched or whose
launch failed, and again.  `kthread_stop` of a thread that is not there is an oops, after
which that caller goes no further.  What a second LAUNCH replaces (`desc`, `lcall`) is no
longer named by the object and leaves the model: the code leaks it.

`Faults` names what user space or the machine may do besides, and the code does not refuse.
With each of them alone TLC finds the property in the table violated; the run `enclave` has
none.

| `Faults` | Violates | Because |
|---|---|---|
| `"load"` | `Reachable` | `alloc_enclave_index` searches and claims without a lock: two enclaves, one slot |
| `"free"` | `NoDangling` | FREE beside a FREE, an open, a LAUNCH or a RESET of the same enclave, or one of these after it |
| `"console"` | `RefsInv` | a console file holds no reference |
| `"image"` | `FreedClean` | a failed load puts the image, and FREE puts it again |
| `"cdev"` | `NoDangling` | a failed LOAD leaves its address in the map |

`Console` models the enclave's console: the ring and the byte `raw_lock` in shared memory,
the readers' two copies with their faults, connect and release, INIT in the middle of the
enclave's critical section and the next LAUNCH over the same memory.  A character is its
number in the stream.  A console may be connected and the enclave stopped at any time; `Rude`
says whether somebody then sets the ring up again, in LAUNCH or RESET, under an open console.

`V3Console` models a VM's console with the vector it is kicked with: the steps of connect
(vector, `kick_ipi_vec`, file) and release, the VMM's lock-put-kick, pending interrupts,
`wait_event_interruptible` and `poll_wait`.  The VMM writes and kicks whenever it likes, in
the middle of a connect too, and a new vector may have a kick of its last user pending.
`Shared` lets a VM have two consoles at a time.

`HashMap` is the abstract table, a bag of pairs; `Hashtable` the chains, primes, load
limits and expansion of `util-hashtable.c`, one call a step, each `kmalloc` allowed to
fail.  When the new table cannot be allocated, `PlanB` says whether the fallback finds memory
(`tmp_realloc`, `Realloced`); the program then goes on with what it made of the table.
`EnclaveFs` uses the abstract table, and so rests on `IsMap`.  It has the open, close,
read and write calls, a read or write descriptor by descriptor and round by round
with any short count or error, and FREE's walk over the files left open, which may find a
read or write in progress.  The size call changes no state and has no action.

`Fifo` is the abstract stream.  `GenQueue` (`util-queue.c`) and `EarlyRingbuf`
(`pisces_ringbuf.c`) implement it.  Neither has a caller in the repository; they are library
code of the module and modelled as such.  The queue is the one structure here that can be
called by several threads: the check and the insertion are steps of their own.

`BootParams` sets up area after area in the boot memory, with each image read in as many
rounds as `file_read` likes, failures everywhere and RESET over the same memory; memory is
a function from addresses to the byte that was put there.  `Stubborn` lets somebody launch
again after an unreadable image; without it `ImageOpen` holds by itself.  `pisces_cons_init`
and `pisces_ctrl_init` return 0 always, so only the later areas fail.  `IommuRegion` has the
page loops of `iommu_map` and `iommu_unmap`, which are one step each in `EnclavePci`, round by
round, with lengths of any kind; an unmap is of a region that is mapped as a whole or not at
all, which the code leaves to the VMM.

`MCParts` (the consoles and the structures) and `MCWaits` (`Lcall` and the trampoline of one
enclave, with their fairness) are sums: a behaviour is a behaviour of one part, the others stay
in their initial state.  They compose nothing that interacts.  `MCEnclavePci` adds a history
variable, whether an attach failed or a device was refused; the other MC modules add symmetry.
`*Proofs` modules hold the theorems.

## Runs

| Run | Shows | Bounds |
|---|---|---|
| `xbuf` | exclusive use, intact messages, a waker for every sleeper, no chunk overwritten, `ChannelInv`, refinement of `RpcChannel` | 2 senders, a page of 2 bytes with messages of 1 and 3 (one and two chunks), responses of 0 and 3, 3 requests, 2 lives of the channel |
| `waits` | `LcallInv`: the thread sleeps over a request only when its handler left it unanswered; `LSpec` implements `Spec`; a call of `sync_send` returns unless a handler abandoned it or one before it (`SendReturns`); the trampoline and Linux's CPU lock are always freed, if every ADD_CPU is answered (`TrampolineFree`) | 2 senders, 3 requests, 2 lives; 1 enclave and Linux |
| `lcall_reset` | **violated**: RESET hangs on an idle thread | 2 senders, 3 requests, 2 lives |
| `trampoline` | Linux restored, CPUs land home, `TrampolineInv` (exclusive swap included) | 2 enclaves, each with a boot CPU and one more, unbounded operations |
| `pci` | handlers and domains of live devices only, masked lines owed an ack; no freed object used until an attach fails or a device is refused (`DevicesUsedLive`) | 2 devices, 3 objects, attaches that fail and devices refused after RESET |
| `pci_answer` | **violated**: a failed attach is not answered | 2 devices, 2 objects |
| `resources` | one user per resource, the notes cover what the kernel has, nothing lost, list and counters in order, `LoanInv` | 2 CPUs, 3 blocks, 2 tools, boot memory of 1 or 2 blocks, 4 descriptors |
| `resources_reset` | **violated**: RESET sends INIT to a CPU Linux runs on | 2 CPUs, 3 blocks, 1 tool, careless administrator |
| `enclave` | references counted (`RefsInv`), nothing left with a freed object (`NoDangling`), every enclave reachable, nothing that a freed one names left of it (`FreedClean`) | 2 objects, 2 slots, 2 threads, 1 open file of each kind, no `Faults` |
| `console_read` | **violated**: a read that wraps loses its first part | a ring of 3, 5 characters, reads of 0 to 4, 2 readers, 2 files |
| `parts` | `ConsoleInv`, `StreamIntact`; `VmRingInv`, `KickSafe`, and a sleeper wakes (`SleeperWakes`); `IsMap`, `QueueBound`, `QueueIsFifo`, `RingbufIsFifo`, `FilesInv`, `TransferInv`, `BootInv`, `MappedExact` | a ring of 3, 5 characters, reads of 0 to 4, 2 readers, 2 files; 2 consoles, 2 vectors, 2 threads, a ring of 2, 3 messages; tables of 2 and 3 chains, 3 keys, 3 entries; a queue of 2, 2 producers; a ring of 3; 2 files, 3 lists of descriptors; pages of 2 and 20 bytes; 2 regions in pages of 1 and 3 |
| `hashtable_planb` | **violated**: Plan B loses entries | the same, pointers of 2 bytes, `PlanB` |

The bounds let the cases that matter happen: a second chunk, a waiting sender beside an
owner, a second life of the channel after a stop in mid-transfer, two enclaves and
Linux contending, a launch that failed and a second one with other memory, a descriptor
inserted at each end and in the middle, a device removed and added again while a long call
is under way; an object freed and its address used by the next LOAD, a read that goes round
the ring's end and is cut short, a ring that is full and drained by a second reader, an
expansion that fails in mid-insert, a file address used again after a failed open, an
initrd after a kernel of any length, an IOMMU region with and without large pages.
The type invariants of `Xbuf`, `Trampoline`, `Resources` and `Enclave` are theorems of their
own; the others are conjuncts of `LcallInv`, `DeviceInv` (in
`DevicesUsedLive`), `RefsInv`, `ConsoleInv`, `VmRingInv` and `FilesInv`.
Deadlock is not checked where the system may stop (bounds on requests, an enclave that
is gone).  In `trampoline` it is checked.

### Fairness

Both kernels schedule their threads and take interrupts: weak fairness of every step of
`sync_send`, of the server and of `irq_handler`.  Nobody has to begin a request, and
nobody sends a signal.  In `Trampoline` mutexes are handed on in turn (strong fairness
of taking them, as Linux's mutexes queue their waiters), `boot_enclave`'s poll ends by
its own timeout.  Nothing makes the enclave answer `ctrl_add_cpu`: the step after it has no
fairness, and `TrampolineFree` says what follows if every such call is answered.  In `V3Console` a connect that began goes on, an interrupt that
was sent is taken, and the VMM finishes a write it began; no reader has to read.

### Findings

Shown by a run:

* `pisces_lcall_deinit` calls `kthread_stop` before it sets `active_lcall`
  (`src/pisces_lcall.c:185-187`): with the thread idle, RESET and FREE never return
  (`lcall_reset`).
* A failed attach is never answered, and the enclave's channel is stuck from then on
  (`pci_answer`).
* A CPU the enclave refused, or gave back, stays in `assigned_cpus`
  (`src/enclave_ctrl.c:170` and `:295`, where the removal is a comment) while the tool
  brings it online; RESET then stops it (`resources_reset`).  Without such a reset the
  loan is safe, which is `LoanSafe` below.
* A console read that wraps copies its second part over the first
  (`src/enclave_cons.c:74`; `console_read`).
* The fallback of `hashtable_expand` (`src/util-hashtable.c:270`) reallocates and copies
  `table_length` bytes, not entries (`hashtable_planb`).

Stated in a module, and violated when TLC checks it as an invariant with the constants of the
component's run, but for those named:

* RESET and FREE free the IOMMU domain of devices that are attached, against the comment at
  `src/enclave_pci.c:134` (`DetachedAtDeinit` with `Faults = {"disorderly"}`).
* RESET and FREE free the control descriptor that a command has read before it took
  `ctrl->lock` (`src/enclave_ctrl.c:230`; `Enclave`'s `CommandsSafe`).
* RESET under an open console says that nobody is connected (`src/enclave_cons.c:106`), and a
  second console connects (`SingleConsole` with `Rude` TRUE).
* A failed open puts NULL on the list of open files, and FREE closes it
  (`src/enclave_fs.c:45`; `DeinitCloses`).
* A CPU that does not report within 1.5 s is not quiesced (comment at `src/boot.c:502`) and
  runs into whatever the trampoline holds by then (`Trampoline`'s `Quiesced`).
* A second LAUNCH of a running enclave breaks the exclusion of the trampoline
  (`TrampolineInv` with `Relaunch` TRUE).
* The rows of the `Faults` table above.
* A second console of a VM takes the kicks of the first, which `VmRingInv` and
  `SleeperWakes` therefore leave out (`Kicked`).
* An unreadable image is closed while the enclave still refers to it (`BootInv` with
  `Stubborn` TRUE).
* An IOMMU region that is not whole pages, or empty, makes the remaining size wrap
  (`MappedExact` without `WholePages`).

Seen while modelling, and a step of a module where it changes state:

* `ctrl_add_cpu` ignores a failed `pisces_setup_trampoline` (`src/enclave_ctrl.c:152`).
* A failed `anon_inode_getfd` gives back neither `connected` nor a VM console's memory and
  vector.
* The VM console's vector is registered and published before its wait queue is initialised;
  `KickSafe` says that an interrupt finds the queue uninitialised in that window only.
* FREE or RESET of an enclave whose long-call thread is not there, never launched or stopped
  by a RESET that failed, stops a NULL or dead thread; a RESET that fails early leaves a freed
  descriptor that FREE frees again; a second LAUNCH leaves the first thread and descriptor.
* `is_full` of the early ring buffer answers whether it is not empty; it has no caller.
* The kernel and the initrd are not compared with the size of the boot memory.

## Proofs

The theorems hold for every value of the constants that satisfies the modules' ASSUMEs.
Where the code relies on somebody to behave, the theorem says on whom
(`ASSUME ~Careless PROVE ...`); with a hypothesis dropped TLC finds a counterexample
to what it guards, and the findings above say what goes wrong then.

| Module | Theorems | Hypothesis |
|---|---|---|
| `XbufProofs` | `TypeCorrect`, `ChannelSafe`, `MutualExclusion`, `ServerNeverDies`, `Implements` (`Spec => RpcSpec`); `WakeSafe`, `NobodyForgotten`; `DataSafe`, `RequestCorrect`, `ResponseCorrect`, `ChunkSafe`; for `Lcall`, `LcallImplements` (`LSpec => XbufSpec`), `LcallAlways`, `LcallCorrect` | none |
| `TrampolineProofs` | `TypeCorrect`; `TrampolineSafe`, `LinuxUndisturbed`, `CpusLandHome` | for the last three, a running enclave is not launched again (`~Relaunch`) |
| `ResourcesProofs` | `TypeCorrect`; `LoanSafe`, `LinuxAndKernelDisjoint`, `NotesInOrder`, `NothingLost` | for the last four, no enclave is reset that Linux has something of (`~Careless`) |
| `EnclaveProofs` | `TypeCorrect`; `RefsCorrect`, `DanglingCorrect`, `ReachableCorrect`, `FreedCorrect` | each names the `Faults` it excludes and allows all others: `"free"` and `"cdev"`, and besides `"console"` for the first, `"load"` for the third, `"image"` for the last |
| `EnclavePciProofs` | `DomainAlways`, `DomainCorrect` | `Calm`: not `"disorderly"` |
| | `IntxAlways`, `HandlerCorrect`, `MaskedCorrect` | `Tidy`: `Calm`, and not `"untidy"` |
| | `UseAlways`, `DeviceCorrect` | `Tame`: `Tidy`, and neither `"reinit"` nor `"refused"` nor `"attach"`.  A behaviour of the run `pci` is one of these up to its first fault, which is what `DevicesUsedLive` says |
| `ConsolesProofs` | `ConsoleAlways`, `ConsoleCorrect`, `StreamCorrect`; `VmRingCorrect`; `KickCorrect` | `~Rude`; `~Shared`; none |
| `HashtableProofs` | `HashAlways`, `HashImplements` (`HSpec => IsMap`) | Plan B of the expansion is not taken (`~PlanB`) |
| `StructuresProofs` | `QueueAlways`, `QueueCorrect`, `QueueImplements`; `FsAlways`, `FilesCorrect`, `TransferCorrect`; `RingAlways`, `RingImplements`, `RingStores`; `BootAlways`, `BootCorrect`; `IommuAlways`, `MappedCorrect` | for the boot memory, no launch after an unreadable image (`~Stubborn`); for the IOMMU, regions are whole pages, not empty (`WholePages`), and apart |

The theorems on the consoles and the structures are about each part's own specification
(`CSpec`, `VSpec`, `HSpec`, `QSpec`, `FsSpec`, `ESpec`, `BSpec`, `ISpec`); the run `parts`
checks the same properties of the sum of these.

### The arguments

`Xbuf`.  `OneOwner` is not inductive: that no sender finds PENDING down while another owns
the channel needs to know when `reset_flags` and `complete` run.  `ChannelInv` adds the life
of the channel (`LifeInv`: enabled exactly while a server is set up, and set up while no
sender runs), the phase of the call (`PhaseInv`: an accepted request is announced or
served, never both, until COMPLETE), the server's place in its response (`ReplyInv`) and
the announced length (`LenInv`).  The refinement uses the invariant at the steps that
matter: COMPLETE is raised for the one owner, and success is returned only after it.
For a waker of every sleeper, `WakeInv` adds that a PENDING flag has an owner as long as
the senders' kernel runs.  For the bytes, `DataInv` says what has arrived and what is in the
page at each place of the two ends: before COMPLETE the request moves from the owner to the
server (`RequestInv`), after it the response moves back (`ResponseInv`), a chunk at a time
(`Moving`), and whoever copies into the page finds it free (`FreeInv`).  `NoOverwrite` is
a step's consequence of `FreeInv`.

`Lcall`.  `LcallImplements` goes action by action: the kernel thread and the ioctls drive
the channel only when `Xbuf` lets them, so all of the above carries over.  `LcallIInv` adds
where the thread may be with a request accepted and not answered, and when one may have been
abandoned.

`Trampoline`.  `TrampolineInv` adds to the properties the contents of the page and of its
saved copy at each place (`Swapped`), that a CPU is only added to an enclave whose boot
memory setup has accepted before (`JobInv`, without which setup could fail unnoticed), and
that a CPU in the trampoline has somebody who keeps the page for it (`CpuInv`).

`Resources`.  `Disjoint` alone is not inductive: that a tool's online step cannot hit a CPU
the kernel runs on needs what each tool has in hand (`HandInv`: in hand means in nobody
else's), that the kernel's resources are in the notes RESET and teardown work from (`Noted`),
what the administrator's lists were drawn up from (`AdminInv`) and what a booted kernel has
(`KernelInv`).  `Ordered` comes from lemmas on the insertion (`InsertPlace`,
`InsertDescribes`, `InsertKeepsOrder`).

`Enclave`.  The count is compared with the open files and the enclave's own reference
(`CountInv`), which needs that at most one thread takes an enclave
down (`AloneInv`) and where a thread on an object of each state may be (`LifeInv`,
`PartsInv`, `MapInv`).  The four properties rest on different parts of it, and so on
different faults.

`EnclavePci`.  No lock is held between the search of the list and the use of what it found.
What keeps the object instead comes in three layers, and each asks for more.  `DomainInv`
asks only that RESET and FREE come when nothing is attached: a ready object is on the list
and has its device's regions, only a ready one is assigned, and only an assigned one has a
device in its domain (`ObjInv`, `HwInv`); a command has its object between the list's lock
and `ctrl->lock` (`CtlInv`), a call the one it found assigned or assigned itself
(`AssignInv`).  So DMA isolation rests on the enclave for nothing.  `IntxInv` adds that a
handler belongs to an assigned device with INTx on (`HandlerInv`), which needs a driver that
turns INTx off before it detaches (`CallInv`).  `UseInv` adds that the object of a call is
assigned or of a device the enclave knows (`HeldInv`), and that what the enclave knows is on
the list and ready (`KnownInv`).  A device that fails or is refused after RESET is not, and one
whose attach failed stays assigned: FREE then frees it without taking it off the list, and
meets it again.  None of the hypotheses can be dropped: with two devices and two objects TLC
violates each property by each fault its theorem excludes.

`Console`.  `ConsoleIInv` adds how the unread characters lie in the ring (`UnreadIntact`) and
how far each reader inside the lock has come (`ReadInv`): the second copy never wraps.
`V3Console` is the same for messages (`MsgInv`), with handler and vector tied together
(`HandlerInv`).

`GenQueue` needs only that what is in the queue and who is past the check stay below the
bound together.  `EnclaveFs` keeps table, list, counter and open files in step
(`TableInv`, `ListInv`), with how far a transfer has come (`CallInv`), and what has been
reported against the sum over the descriptors done with (`SumInv`).  `EarlyRingbuf` is
shown to be a `Fifo` of what lies between its indices (`Stored`).  `BootParams` has what
has been placed (`PlacedInv`), the image being read (`LoadInv`) and that no other byte was
written (`CoverInv`).  For `IommuRegion`, that an unmap finds the pages a map has made needs
that both loops cut a region at the same places, wherever they stand: a page of a region
has the size `Cut` gives for the distance to the region's end (`PageInv`), and the size the
loop carries along is that one (`JobInv`, `RoundPage`).

`Hashtable`.  That looking in one chain is looking in the whole table (`PlaceIs`) needs every
entry in the chain its key selects at the present length (`Sorted`); that the counter says
when to grow needs it to count the entries of all chains (`Filled`).  Both are `HashInv`.
Insert and remove change one chain, and the bag of pairs by one.  The rehash is shown to keep
the bag and to sort the entries anew by induction over the chains, and within each over its
entries, from the equations of the folds that move them (`Rehashed`, `MoveChain`).

The sums over descriptors and the bags over chains are facts about every list.  The prover
has no induction on these, so each is proved by contradiction from the least length at which
it fails (`LeastNat`), with the folds' equations (`UpTo`) for the step from one length to the
next.

### Only model-checked

* Liveness under fairness (`SendReturns`, `TrampolineFree`, `SleeperWakes`) and the
  violations: out of the prover's reach, or runs of a particular instance.

## Not modelled

* XPMEM forwarding (`src/pisces_xpmem.c`): built only with `USING_XPMEM`, and the life of its
  link is in an external module.  Its xbuf is an `Xbuf`, its buffer an area of `BootParams`.
* `console_write` of a VM console: keycodes sent with `pisces_xbuf_send` through the
  enclave's control descriptor, with no lock and no reference (see the hazard at
  `src/enclave_ctrl.c:230`).
* `trampoline_0..2` (variants of `trampoline_3` for older kernels) and assembly; page tables
  and kernel symbols: functions of Linux's data structures that change nothing of the
  module's own.
* Module load and unload (`pisces_init`, `pisces_exit`): registrations with Linux.
* The user-space tools that only wrap one ioctl or parse a file.
* Memory allocation failure except where a module says so, logging, the layout of messages;
  the enclave's kernel and Linux, except as far as this code uses them (definitions marked
  external).

## Plan

The models are complete but for what is listed above, and every invariant and every safety
property of a passing run is a theorem (`DevicesUsedLive` as `DeviceCorrect`).  What is left: action
properties beside `ChunkSafe` and `RingStores`, in `Enclave` that a freed object is only
touched by the LOAD that allocates it again, in `Resources` that a step moves a resource
between neighbouring places only.
