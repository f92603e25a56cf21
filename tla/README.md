# A TLA+ model of the Cumulonimbus kernel

Cumulonimbus is a small x86 operating system in C: one CPU, a table of processes,
four levels of ready queue, a clock interrupt, a serial line, a console with 16
screens, a heap, a FAT-like file system, an Ethernet driver and a PCI bus. These
modules model the core everything stands on (processes, their queues, the scheduler,
the clock and the blocking system calls) as one system, and around it every
other part that keeps state of its own, each by itself. Paths below are relative to
`src/src/kernel/` unless they begin with `drivers/`, which is `src/src/drivers/`, or
`docs/`, which is `src/docs/`.

## 1. Inventory

| Component | State | Operations | What makes it correct |
|---|---|---|---|
| Processes (`process.c`, `stack.c`) | `_pcbs[]`, free lists of PCBs and stacks, `_next_pid`, `_current` | allocate, free, find by PID | a PCB and a stack have one owner; PIDs are unique |
| Scheduler (`scheduler.c`) | `_ready[N_PRIORITIES]` | `_schedule`, `_dispatch` | what it takes off a queue can run; the highest level is served |
| Process calls (`syscall.c`, `_zombify` in `system.c`) | `_sleep`, `_reading`, `_waiting`, `_zombie` | fork, exec, exit, wait, kill, sleep, readc, setprio, settime, yield | no lost wakeup between exit and wait; nothing leaked; nobody orphaned |
| Clock (`clock.c`) | `_system_time` | `_isr_clock` | sleepers wake and run; the running process is preempted |
| Queues (`queue.c`) | a pool of qnodes, `queue_t` lists | append, insert, remove, remove by key | order, stability, no node lost |
| Init and idle (`user.c`) | where `init()` is | fork idle, fork users, wait for ever | there is always something to dispatch and someone to wait |
| Serial line (`sio.c`) | input and output buffers, `_sending` | `_isr_sio`, readc, reads, writec, writes | every byte once and in order; transmission does not stall |
| Screens (`screen.c`, screen calls) | owners, two queues of screen nodes, the active screen | open, close, set, switch | one owner per open screen, no handle twice, frames not mixed up |
| Keyboard and mouse (`c_io.c`, `drivers/mouse`) | a ring per screen | interrupt stores, process takes | what was read is not replaced; packets stay aligned |
| Console (`c_io.c`) | cursor, window, display memory | putchar, scroll, printf | the display shows the text; the cursor finds back |
| Heap (`kheap.c`, `kalloc.c`) | the free list in memory; a moving base | allocate, free | blocks disjoint, neighbours merged, all memory accounted for |
| Interrupt dispatch (`irqs.c`) | a chain of handlers per vector | add, delete, dispatch, wait | waits end, the right handler is left installed |
| Ethernet (`drivers/net`, `knet.c`) | rings shared with the interface, 20 message buffers | receive interrupt, sendmsg | a frame is delivered once and in order; the search for a buffer ends |
| PCI and ports (`drivers/pci`, `ioports.c`) | the list of devices, base addresses, the next free port | scan, size, allocate | every function is listed as it is; drivers leave registers as they were |
| Disk (`drivers/ide`) | controllers, channels, drives | init, read and write a sector | a drive is reachable at the ports noted for it |
| File system (`drivers/fat64`) | the tag table, the root directory, an open handle | touch, open, getc, putc, flush, close, rm | a cluster is in one chain or free, whenever the power fails |
| Graphics, boot, libraries, prototypes | — | drawing, assembly | not modelled (section 9), but for which frame is drawn into |

How they interact: a system call (`int` instruction) and every interrupt enter the kernel
through `isr_stubs.S`, which saves the context of `_current`, and leave through it,
restoring the context of whatever `_current` is then. Handlers call each other directly
and share global variables; while one runs, interrupts are off. So the concurrency is
that of *handlers in any order*, not of instructions, with one exception: code outside
handlers (`c_getchar`, `c_putchar`, the drawing routines, the file system) runs with
interrupts on and is preempted anywhere; and the Ethernet interface works on memory it
shares with its handler at any time. The hard behaviour of the core is in long
sequences of calls by several processes: wait and exit in either order, kill of a
process in any queue, processes that end before or after their parent, keys and times
that wrap, pools that run out. Around it, it is in code preempted between two accesses
to a ring or a cursor, and in a disk that loses power between two sectors. `PROJECT.json` lists these as hazards, each at its line.

## 2. Modules

* `Kernel` — processes, scheduler, clock, the process calls, and of the serial line what
  `readc` needs, under *arbitrary* user programs.
* `UserSpace` — `Kernel` with `init()` and `idle()` of `user.c` as its first two
  processes, and the fairness of the machine.
* `Queue` — the linked lists of `queue.c`, to the last pointer; `AbsQueue` — the ordered
  sequences they implement.
* `SerialLine` — `sio.c` with both its buffers, and `AbsLine`, the two FIFO queues it
  implements.
* `Heap` — the free list of `kheap.c`, the search for memory, and `kalloc.c`.
* `Probe` — `irqs.c`, with the start-up of the Ethernet driver that finds its interrupt.
* `Ethernet` — the receive ring and its handler, transmission, and the message buffers.
* `Pci` — the scan of the bus, the first steps of the network driver, and `_ide_init`.
* `Screens` — screens, their owners and frames, the rings of keyboard and mouse.
* `Fat64` — the file system sector by sector, with power failures; `AbsFiles` — files that
  come, go and grow as a whole.
* `Console` — `c_putchar`, instruction by instruction where it matters; `Format` — `c_printf`.
* `MCKernel`, `MCUserSpace`, `MCDevices` — instances for TLC. `MCDevices` extends all the
  modules of this list from `Queue` on.
* `KernelProofs`, `UserProofs` — theorems about `Kernel` and `UserSpace` and their proofs;
  `QueueProofs` about `Queue`, `Heap` and `SerialLine`; `ScreensProofs` about `Screens` and
  `Console`; `CardProofs` about `Probe`, `Ethernet` and `Pci`; `FilesProofs` about `Fat64`;
  `FormatProofs` about `Format`; `Lists` — what these need to know of linked lists of any length.

`Kernel` does not compose `Queue` by `INSTANCE`. It uses queues through what `AbsQueue`
promises: a queue whose order matters (the ready queues, the free lists) is a sequence
that is appended to and taken from at the head; a queue the kernel only searches by key
(`_sleep`, `_reading`, `_waiting`, `_zombie`) is a set, from which the action takes an
element with the least key or with the key given.

### How `Kernel` corresponds to the code

| Code | Model |
|---|---|
| `_pcbs[i]` | `pcb[i+1]`, a record of the fields the kernel decides on |
| `ARG(context,1)` on the saved stack, read again by `_zombify` | field `arg` |
| the key of a process's qnode on `_sleep` | field `wake`, modulo `TIME_MOD` |
| `_current`, `_pcb_avail`, `_stack_avail`, `_ready[]`, `_sleep`, ... | variables of those names |
| a panic (`_kpanic` never returns) | `mode` becomes the panic's text; only `Panicked` is possible then |
| a system call | one action (two or three where it has two outcomes: `WaitReap`/`WaitBlock`) |
| `_isr_clock` | `ClockTick`, one `ClockWake` per sleeper, `ClockPreempt` |
| the loop of `_dispatch` | `DispatchRun`, `DispatchKilled`, `DispatchEmpty` |
| `_isr_sio` for a received character | `SioWake`, `SioStore` |

The loops take a step per iteration, and `mode` keeps anything else from happening in
between, since interrupts are off. Calls that fail without changing anything, and calls
that only read, are stuttering steps. Several details are kept on purpose because the
behaviour hangs on them: the state of the first process is `FREE` until its first
reschedule (`_init` never sets it, and `_pcb_find` skips such PCBs); `readc` writes
`status`, not `state`, when it blocks; `setprio` stores any number and only `_schedule`
clamps it; `wait` for any child that finds no zombie looks at the *last slot of the
table* (section 6); `_zombify` puts a woken parent in `_ready[0]`.

Abstracted: contexts and stacks (except `arg`), exit codes and characters, what is
printed, the address of the `info_t` in `wait` (a null one fails without effect), status
values returned to the caller, priorities above 255 (`_schedule` takes a `uint8_t`).

### How the other modules correspond to the code

A step of a module is what nothing can come in between of: a whole system call or handler
where interrupts are off, single accesses to shared memory where they are on or where a
device works on the same memory.

* `SerialLine`. Each call of `sio.c` and each event of `_isr_sio` is an action; `rx` and `tx`
  hold the buffers and their pointers, the enabled interrupts and the UART's character. A
  store outside a buffer (`_inlast` and `_sio_writec` both get there) is the value `overrun`,
  at which the model stops, because what it destroys depends on the layout of memory. The
  refinement of `AbsLine` holds up to there.
* `Heap`. Addresses are those of words, and `header` has what is noted in front of each block. `ScanStep` is one
  iteration of the search for memory, which skips the video memory. `Kalloc` is the
  allocator the kernel is linked with (`kheap.c` is not in the Makefile).
* `Probe`. `probe.pc` is where `i8255x_driver_setup_irq` is, `actions[v]` the chain of
  handlers of a vector, `isrTable` whether `_interrupt_wait` has replaced the dispatcher,
  `raised` the interrupts pending. Other vectors may interrupt whenever interrupts are on.
* `Ethernet`. `ring` holds the receive buffers, `rxp` the driver's position in it and `ru` the
  interface's, `isr` where the handler is. Frames are numbered, so that order can be stated.
* `Pci`. `bus` is the configuration space, `firmware` what it was at the start, `config` the
  local variable of `_pci_scan` that keeps what an earlier function left in it. A base
  address is a kind and a base.
* `Screens`. The two linked queues with their lengths and last nodes, `owner`, the active
  screen; per screen a keyboard and a mouse ring with their indices, and which processes
  drew what its frame shows. `c_getchar` is two steps, a
  drawing routine two. `E_EMPTY` is 2, as in `status.h`, which is a handle.
* `Fat64`. `entries` and `tags` are the disk; `writes` are the sectors that the current call
  still has to write, each with its effect, so that before any of them `PowerOff` may come
  instead of `WriteSector`; `file` is the handle of the open file. Contents of files are left out.
* `Console`. `c_putchar` has a step for the scrolling, for the output, and one each for the
  load and the store of `curr_x` and `curr_y`, since the kernel is compiled without
  optimisation. `c_scroll` is one step.
* `Format`. A text of characters and fields, the format string a caller would write for it, and
  `__c_do_printf` going through that; numbers have `WORD_BITS` bits.

## 3. Runs

| Run | Module, configuration | What it shows |
|---|---|---|
| `kernel` | `MCKernel`, `MCKernel.cfg` | programs that call fork, exit, wait, kill, sleep, yield in any way, a tick at any moment: `TypeOK`, `InOneQueue`, `StateMatchesQueue`, `StackOwnership`, `PidsUnique`, `OnlyDesignPanics`, `NoLostWakeup`, `ZombiesOnlyFreed` |
| `readers` | `MCKernel`, `MCReaders.cfg` | fork, exec, exit, kill, readc, setprio with characters coming in: `NoCharacterKept` |
| `user_safety` | `MCUserSpace`, `MCUserSpace.cfg` | the system as booted, without kill and yield: `NeverPanics`, `ParentExists`, `NothingLost` |
| `user_progress` | `MCUserSpace`, `MCProgress.cfg` | liveness: `MaximumRuns`, `SleeperRuns` |
| `devices` | `MCDevices`, `MCDevices.cfg` | the other components, below |
| `exit_status_lost`, `killed_runs_on`, `childless_wait`, `init_adopts_zombie`, `yield_loses_caller`, `full_table_spins`, `screen_taken_over` | small instances | what section 6 describes; each is expected to be violated |

`InOneQueue` and `StateMatchesQueue` are the properties of the design: `queue.c` hands out
plain pointers, so a PCB in two queues, or freed while queued, corrupts the kernel long
after the mistake. `NoLostWakeup` is the wait/exit handshake for every parent other than
init (for init see section 6). `OnlyDesignPanics` says that of the kernel's panics only
two can happen at all: no process to run, and a process whose parent is gone. `NeverPanics`
then shows that under `init()` and `idle()` neither happens as long as nobody calls kill
(a killed parent leaves orphans) or yield (the caller is lost).

`devices` has a variable `focus` that says which component moves; the others keep their first
state. They share no state, so interleaving them would multiply the states and show
nothing. The components, and the properties besides the types (`DevicesTypeOK`):

| Focus | Properties |
|---|---|
| queue | `NodesConserved`, `Linked`; `ImplementsAbsQueue`: every call does and returns what the ordered sequences of `AbsQueue` do |
| serial input, serial output | `ImplementsAbsLine`: nothing is lost, doubled or overtaken, up to an overrun; `TransmissionGoesOn`: with bytes waiting, something will start the next one |
| heap, kalloc | `HeapTiled`, `HeapMerged`: blocks tile the memory found, neighbours are merged; `KallocDisjoint` |
| probe | `HandlerInPlace`: a search that succeeds leaves its handler on the vector it learnt, and no search asks for a vector it did not learn, whatever interrupts come |
| ethernet | `NoneTwice`, `FirstLapInOrder` |
| bus | `ListedAsFound`: the list has every function once, with its own base addresses, which are still in place; `DrivesReachable`: a drive that answered has its channel's ports to itself, aligned, and its controller decodes them |
| screens, keyboard, mouse, drawing | `ScreensKept`, `ReadIsFirst`, `PacketsAligned`, `FramesApart` |
| files | `ChainsSound`, `SizeCovered`, `NothingLeaked`, `BootSectorsKept`; `ImplementsAbsFiles`: each call has its whole effect at one sector |
| text, texts | `ShowsText`: what one process prints is what an endless sheet would show; `CursorReturns`: after any overlap of two, the cursor is in the window when they are done |
| format | `FieldsRight`: each number is in its field as the caller wrote it, from a buffer that is long enough |

Every property of a passing run is accompanied in `PROJECT.json` by a mutant, an operator
of the same module with a plausible bug (a missing reset, a wrong order, a dropped
condition), under which TLC finds the property violated.

### Bounds

* `kernel`: 4 PCBs, 3 stacks (so that a stack can be missing while a PCB is not), 2
  priorities, PIDs up to 5, so that each slot is reused after a process has been freed.
  Four processes are a parent, a child, a grandchild and a stranger, which is what the
  relations in the properties speak of.
* `readers`: 3 PCBs, PIDs up to 4, two characters of buffer, a priority inside and one outside
  the range.
* `user_safety`: 4 PCBs, of which init and idle take two; a one-character buffer, a clock of
  period 2, priorities inside and outside the range, a `settime` to 0.
* `user_progress`: PIDs up to 4, a clock of period 3 and sleeps of 0 and 2 ticks, so that a
  wake-up key wraps round.
* `PID_MAX` bounds the forks, nothing else. PIDs are 32 bits in the code and do not wrap
  here; the properties about PIDs are claimed up to the wrap.
* queue: three nodes, one queue of each discipline (none, equal, less-or-equal), three
  entries of which two share a key: every position of an insertion and a removal (first,
  middle, last, only) and the exhausted pool occur.
* serial line: buffers of 3 and texts of 2 and 3, so that both wrap, fill and overrun; one
  reader blocks at a time (`READERS_MAX`).
* heap: maps of one chunk, and of two with the video memory between them, up to `HEAP_TOP`;
  requests of one and three words, and of one and five bytes, which are rounded up.
  `KALLOC_LIMIT` ends the model of `kalloc.c`, whose base has no bound.
* probe: two vectors of other devices, two the interface may be wired to (one the default), 3
  tries: a try that fails, one that succeeds, one that would be too many.
* ethernet: a ring of 3, 6 frames (`FRAMES_MAX`, so two laps), 2 messages sent, 2 message buffers.
* bus: two slots of two functions, each with nothing, a bridge, a network interface or a disk
  controller, with and without the flag of several functions; at most two controllers, one of
  them at the ports of old, since two of those cannot be told apart by software.
* screens: 3 (with 2, `E_EMPTY` would not be a handle), two processes, rings of 4 with packets
  of 2, so that a ring holds whole packets as in the code (64 and 4).
* files: 6 clusters, of which the table and the directory take theirs and two hold data, of
  two bytes each, and two directory entries: files grow across a cluster, run into the end of
  the disk and compete for clusters. `LOSSES_MAX` stops the model after the first leaked
  cluster. An instance with three data clusters and unbounded leaks passes too, in more time.
* text: a display of 3 by 3 with a window of 2 by 2 and one of 3 by 1, texts of up to 5
  characters, so that the window scrolls; `BEYOND_MAX` bounds how far overlapping calls may
  drive the cursor out of it, which nothing in the code does.
* format: ints of 8 bits instead of 32, since the digits left over by octal are the same, and a
  buffer of 5 instead of 12, the longest number and its end. All 256 numbers in each base,
  and some in fields with every option.

No run turns deadlock checking off: components that stop do so by a stuttering step that
says where.

## 4. Fairness

`USpec` assumes: the loops of `_isr_clock` and `_dispatch` are carried on (weak fairness:
interrupts are off, nothing else can happen); the clock ticks if it can tick again and
again (strong fairness of `Tick`: the timer interrupt stays pending in the PIC and is
taken as soon as interrupts are on, so processes that make one system call after another
do not keep it out); `init()` makes its next step if it is on the CPU again and again
(strong fairness of `InitStep`). Nothing is assumed of the user processes, which may
compute for ever, nor of the serial line. Weak fairness of the tick would not be enough
for the model, since system calls disable it for an instant each; the hardware does not
forget it.

Under this, a process in the queue of `PRIO_MAXIMUM` runs (`MaximumRuns`) and so does every
sleeper (`SleeperRuns`), because woken processes are put in that queue. Processes of lower
priority are not promised anything: priorities are strict.

`MCDevices` assumes no fairness and states no liveness. What must go on there is said as an
invariant: `TransmissionGoesOn` that whenever bytes wait there is an event that will fetch
one. Of the loops in question the readers spin for input nobody promises, and the probe ends
after a number of tries.

## 5. Proofs

Eight modules hold theorems; TLAPS checks them to the last leaf. Each is for every value of
the constants, under the assumptions on constants that the modelled module declares
(`KernelAssumption`, `QueueAssumption`, ...), which TLC evaluates in the runs. What a run shows
for three screens or six clusters, these show for any number. `PROJECT.json` lists which
theorem states which property.

### Processes: `KernelProofs`

For every number of PCBs, stacks and priorities, every set of calls and every width of the clock:

* `TypeCorrect` : `Spec => []TypeOK`
* `OneQueue`, `StatesAgree`, `StacksOwned`, `PidsNameOne`, `NoQueuePanics` : the invariants
  `InOneQueue`, `StateMatchesQueue`, `StackOwnership`, `PidsUnique`, `OnlyDesignPanics`
* `ZombiesFreed` : `Spec => ZombiesOnlyFreed`
* `ReadersGoFirst` : `Spec => []NoCharacterKept`
* `NoWakeupLost` : `Spec => []NoLostWakeup`

all but `ReadersGoFirst`, which is inductive by itself, from `Invariance : Spec => []IInv`.

None of these is inductive alone. `TypeOK` needs the ownership of stacks: `_stack_free` puts
back whatever the PCB's `stack` field holds, and only ownership says it is not null.
`OnlyDesignPanics` needs `StateMatchesQueue`: `_dispatch` panics on the *state* of what it
finds in a *queue*. `StateMatchesQueue` needs `InOneQueue`: a handler changes the state of the
PCB it moves, and if that were in a second queue, this one would be wrong. So `IInv` is
their conjunction, with types, and with the fact that the process on the CPU is in no
queue (`Outside`) while a process or `_isr_clock` runs.

The argument is laid out so that each handler is a composition of a few moves, because the
handlers are: a process is taken off where it is (`Detach`), which leaves it nowhere, and
put into a ready queue (`AttachReady`), a set (`AttachSet`) or the free lists (`AttachFree`).
These lemmas speak of `Safe(t, rq, ...)`, the invariant of tables and queues given as
arguments, since `_zombify` and `_schedule` work on a table that a handler is in the middle
of changing. `ZombifySafe` is the longest of them: it also shows that a parent whose state is
WAITING *is* on `_waiting`. One lemma per action follows, and `StepIInv` puts them together.

`NoLostWakeup` is inductive relative to `IInv`, which supplies two facts: PIDs name one process
(`wait` for a PID looks at *the* zombie of that PID, and a zombie has *one* parent to ask), and
the caller of `wait` or `exit` is itself neither waiting nor a zombie. Most handlers are
`Quiet`: they leave no new waiter and no new zombie, and give zombies to nobody but init.
`WaitBlockKeeps` and `ZombifyKeeps` deal with the two that are not. The exception for init in
the property is exactly where `Quiet` allows a zombie a new parent.

### The system as booted: `UserProofs`

`PanicFree`, `ParentsExist` and `NobodyLost` prove `NeverPanics`, `ParentExists` and
`NothingLost` of `USpec`, the first two as long as nobody calls kill, the third also without
yield. The restrictions are those of section 6: `user_safety` has them too, and without them TLC
finds the properties violated.

The invariant is `UInv`: `IInv`, `Family` (every living process has a living parent that is no
zombie, which is what an exit must leave behind when it gives the orphans to init; init is its own)
and `Boot` (where init is in `user.c`, and that it can run until it has forked idle, and idle from then
on). The proof that the CPU is never without a process goes by the idle process: it makes
no call that blocks, so it is on the CPU or in the ready queues, and a `_dispatch` that
found them empty would have found it gone. `NobodyLost` adds `Placed`.

### Queues, heap, serial line: `Lists`, `QueueProofs`

`NoNodeLost` and `LinksAgree` (`NodesConserved`, `Linked`), for any number of nodes and queues. The
properties speak of what a walk along the links meets, which a proof cannot follow step by step;
the invariant `QInv` says instead that there *are* sets of nodes, one for each queue and one for
the free list, disjoint and together all, each a list of its length (`IsList`): a set, a
numbering of it from 0, and links from each number to the next. `Lists` shows that such sets stay
lists when a node is taken out or put in anywhere (`TakenOut`, `PutBefore`, `PutFirst`, `PutLast`)
and that a traversal meets exactly the set (`Visits`). Induction over positions is by
`SetInduction`: a set of numbers with 0 and with every successor is `Nat`. It is a lemma of its own
because the induction theorems of the library take an operator, which the provers
cannot instantiate.

`QueueRefines : QueueSpec => ImplementsAbsQueue`. The sequence a queue stands for is what its
traversal meets; `Ordered` says that keys ascend along it, where the discipline asks for that. A
call of `queue.c` that stops at some node of the walk is an insertion at or a removal from
that position of the sequence, with the status the abstract call returns.

`MemoryTiled` and `NeighboursMerged` (`HeapTiled`, `HeapMerged`): `_kalloc_init` makes a sound
free list of all the memory there is, and any calls of `_kalloc` and `_kfree` in any order leave a
sound one. `HeapInv` is again about a set: the
free blocks, each linked to the next *by address* (`Linking`), all blocks one behind
the other, free ones with a gap between them (`Layout`), and their words exactly the memory
(`Covers`). `Layout` has an argument for the block that may touch what follows, since
`_kfree` passes through such lists: it puts a block in its place or into the one below, and
then `MergeNext` joins that one with the one above. That the list is sound to begin
with (`HeapBegins`) follows the search by strides: up to the address it stands at, the chunks it noted are
exactly the stretches of memory (`Scanned`), because a stride that sees no change passed
over none (`SameStep`), and one that does goes back and creeps up on it (`BackStep`,
`ChangeStep`); every boundary costs at most one step back, so that the search ends. This needs what the code
relies on, `MapsAssumption`: no stretch of memory, or of addresses without, is shorter than
`FAST_SEARCH_INCREMENT` (4096 words in the code); memory ends a stride before the last address looked at; and no real memory ends
where that of the display begins, as the comment at `kheap.c:289` says. TLC evaluates it for the
maps of the run.

`KallocApart` (`KallocDisjoint`): the base is right behind what was handed out last, and rounding
never goes down. `OutputGoesOn` and `LineRefines` (`TransmissionGoesOn`, `ImplementsAbsLine`), for buffers and
texts of any length: the invariant `TxInv` says where the bytes that wait are in the output
buffer, that one of them is on its way while `sending` is set, and that transmitter interrupts are
enabled then; `RxInv` says the same of the input buffer, up to an overrun, and that nobody is blocked while a character waits.

### Screens and console: `ScreensProofs`

`NoScreenLost` (`ScreensKept`) for any number of screens: the two queues are lists, in the sense of
`Lists`, of the screens without and with an owner, and their lengths and last nodes agree.
`GetcharSafe`, `MouseAligned`, `FramesKeptApart` (`ReadIsFirst`, `PacketsAligned`, `FramesApart`) for
rings of any length, from one invariant: nobody
else is inside `c_getchar` on the same screen (`OneReader`); screens are opened in their order, and
the rings of those not opened yet are untouched (`Fresh`); the byte the mouse sends next
is the one whose cell comes next (`MouseInStep`); and a routine that has begun to draw, and missed no
switch, draws where its screen is shown (`TargetsRight`). These three are about `OwnSpec`, in which
programs open screens of their own and work on those, as in the run, but all programs at once and
for as many screens as there are; `ScreensKept` is about programs that open and close any screen.

`CursorComesBack` (`CursorReturns`) for any number of calls of `c_putchar` that interrupt each other
anywhere. The cursor may be right of the window only while some call has yet to look at
it (`CursorInv`); of a call that is alone more is known, line by line (`AloneInv`).

`TextIsShown` (`ShowsText`) for any text, window and number of printers. The property speaks of an endless sheet:
a pen goes over it (`Pen`), and each of its places holds what was written there last
(`Sheet`). What one more character does to the sheet is `SheetAppend`; where the pen is then, and which lines
are in sight, is `PageFacts`: the pen is at most one line below what is in sight, in the first
column of a line nothing was written to. The screen is related to that place by place of `c_putchar` (`Stage`): before a
scroll the text without the new character, in the old window; a newline that erases is a line that is erased up to a
column (`Erased`), and shows the sheet when the cursor has passed the edge (`EraseEnds`); a letter is on the screen before
the cursor has moved. `PageInv` adds that nobody but that call is
under way, unless calls have overlapped (`mixed`).

### Cards: `CardProofs`

`InterruptFound` (`HandlerInPlace`): `Progress` says what each place in `setup_irq` relies on, above
all that while it waits the cause is set, so that the handler learns a vector from the interrupt
that ends the wait. `FrameOnce` and `InOrder` (`NoneTwice`, `FirstLapInOrder`), for a ring and a
stream of any length: every frame is in one buffer of the ring at most or delivered
(`FramesOnce`), and on the first lap driver and interface are apart by just the frames not delivered
yet (`FirstLap`).

`BusListed` (`ListedAsFound`), for any bus: the list has, in order, exactly the functions the scan has
passed (`Listed`), and registers are as they were but for those that belong to a disk controller or
that printing spoils (`AsRead`). The scan leaves out functions behind a first one that is absent
or does not have the flag; `NextIs` shows that there is nothing there, from `BusAssumption`, which
says what buses are like. `DrivesKept` (`DrivesReachable`): `IdeInv` says of each channel that its
ports are the old ones or lie between 0x1000 and the next port given out, below those of every
later channel (`InTurn`), and that the controller has them in its registers. It also bounds the
ports given out (`Spent`), so that they do not run out before the bus does: `PciAssumption` asks for 80
ports for each place of the bus, of which the source has 256, and 0xE000 ports.
`allocate_ports_align` rounds up where the ports *end*; that they begin on a multiple of the
alignment too (`PortsEnough`) holds because each amount asked for is a multiple of it.

### Files: `FilesProofs`

`ChainsAreSound`, `NothingIsLeaked`, `SizesAreCovered`, `BootSectorsAreKept` (`ChainsSound`,
`NothingLeaked`, `SizeCovered`, `BootSectorsKept`) and the refinement `FilesRefine :
FilesSpec => ImplementsAbsFiles`, for disks and directories of any size, with the power failing
between any two sectors.

The invariant `FilesInv` says that there are chains, a length and a sequence of clusters for each
file, that no two share a cluster (`Chains`), and what the sectors still to be written will do to
them (`Pending`). A call leaves a short list of writes, and there is one case for each such list
the code makes: the cluster a new file begins with and then its entry; a cluster at the
end of a chain, then the link to it; the size in an entry; an entry removed, and its clusters freed one after the
other. Each has the property that whatever prefix of it reaches the disk, the chains are sound; so a
power failure needs no case. The handle is in its file's chain, where the position says (`Placed`), or
nowhere, the file being empty (`Placeless`).
For the refinement each list has one write at which the abstract file changes, and all others are
stutters.

### Printing: `FormatProofs`

`NumbersAreShown : FormatSpec => FieldsRight` and `FormatTypes`, for every text of characters and
numeric fields (`TextsAssumption`) and every width of an int that is 2 modulo 3 and 0 modulo 4, as 32 is:
these decide of how many bits the first digit is made. A property that holds of *every* number cannot go through them, so the
proof is about digits. `Numbers` says what a sequence of digits writes without recursion, by the
numbers its beginnings write; `WritesAppend` adds a digit, from which follow that `cvtdec0` writes its number
(`DecimalWrites`, by induction over the quotients) and that `cvthex` and `cvtoct` do (`DigitsWrite`: the
digits are quotients and remainders of the bits, and those left out in front are zeros). That the conversions fit
`buf` is `DecimalShort` and the count of the digits. `OctalDigits` shows what the
sign does to the first octal digit. Such recursive functions exist by `RecursionExists`, since TLA+ defines them by
`CHOOSE`.

A directive is read back as it was written (`DirectiveReads`): a width does not begin with 0,
and the letter behind it is no digit. The format string is the pieces of the text joined, and
`FormatInv` says that what is left of it, and of the arguments, are the pieces from some place on
(`At`); `Met` is the step from one piece to the next, with the piece's own argument the first of those left, and `Finished` the
end, where none are.

### Only model-checked

* Liveness under fairness (`MaximumRuns`, `SleeperRuns`), which is out of the prover's reach.
* `DevicesTypeOK`. The types the proofs need are conjuncts of their invariants.

## 6. Where the code does not do what it says

Each of these is a run that must be violated, and a finding in `PROJECT.json`.

* `yield_loses_caller`. `_sys_yield` dispatches another process without scheduling the
  caller. `docs/syscalls/baseline/yield` promises the caller is rescheduled.
* `exit_status_lost`. `wait` for a process that is already a zombie returns `pcb->status`,
  which nothing sets to the exit code.
* `killed_runs_on`. `kill` of a process that sleeps, reads or is the caller is undone by
  the next `_schedule`.
* `childless_wait`. `if( i > N_PCBS )` after a loop that ends with `i == N_PCBS` is never
  true. A caller that waits for any child and has no zombie child looks at the last slot of
  the table: usually it blocks, as it should if it has children and should not if it has
  none; if that slot holds somebody's zombie, it is reaped by a stranger.
* `init_adopts_zombie`. `exit` gives zombie children to init by changing `ppid`; an init that
  already waits is not woken, so those zombies keep their PCBs and stacks until another
  child of init ends and init calls wait again.
* `full_table_spins`. `_knet_get_avail_msg` compares `idx` with where it started before `idx` is
  reduced to the table: with all buffers in use (nothing ever frees one) the interrupt handler
  searches for ever, where the code's own message says the packet is dropped.
* `screen_taken_over`. `_screen_dequeue` returns `E_EMPTY` when no screen is left. That is 2, a
  handle: the caller of `openscreen` becomes the owner of a screen in use.

Other behaviour that may surprise is part of the models, has no line of documentation it
contradicts, and is excused by name in the properties:

* `Fat64`: `fat64_touch` compares the handle instead of the entry number with `FAT64_EOF`, so in
  a full directory it writes over the superblock; it does not look whether there was a free
  cluster, so on a full disk it makes a file whose data go to sector 0 by 32-bit wrap
  (`intact`). `fat64_getc` has `==` for `=` at the end of the last cluster and runs out of the
  handle's buffer (`outside`). `fat64_rm` through a handle that has moved on, and a power
  failure within a call, lose clusters for ever (`losses`).
* `Console`: with overlapping calls `curr_x` and `curr_y` have no bound, characters land right of
  the window or are lost.
* `Pci`: a function with the flag of several functions is listed with the base addresses of the
  function before it. `_pci_read_bar_size` puts base address 0 back into whatever it sized, so
  that printing the network interface's configuration moves its second memory window.
  `set_base_control_register` notes its port where the other is noted, which nothing reads.
  Ports are given out from 0x1000 up without a look at those the firmware gave out.
* `Format`: `%o` of a negative number shows a first digit that is 4 too large; a format string
  that ends within a directive is read past its end (`ranOff`).
* `Probe`: `_interrupt_wait_for_irq` is called with interrupts off, so it always times out, which is
  what the driver takes for success there; a timer interrupt at the right moment
  makes the driver adopt the timer's vector; handlers of failed tries stay installed.
* `Ethernet`: beyond the first lap frames may be delivered out of order; acknowledging all causes
  at once can lose one that was not looked at, after which the receive unit stays stopped;
  `transmit` overwrites the one buffer whether or not it was sent.
* `Screens`: `closescreen` does not look who the owner is; exit closes nothing; a switch in the
  middle of a mouse packet misaligns the ones that follow (`torn`); a drawing routine that was
  caught by a switch draws into the other screen's frame (`smeared`).

## 7. How to run

    tlc -workers 2 -config MCKernel.cfg MCKernel.tla
    tlc -workers 2 -config MCReaders.cfg MCKernel.tla
    tlc -workers 2 -config MCUserSpace.cfg MCUserSpace.tla
    tlc -workers 2 -config MCProgress.cfg MCUserSpace.tla
    tlc -workers 2 -config MCDevices.cfg MCDevices.tla
    tlapm Lists.tla
    tlapm KernelProofs.tla
    tlapm UserProofs.tla
    tlapm QueueProofs.tla
    tlapm ScreensProofs.tla
    tlapm CardProofs.tla
    tlapm FilesProofs.tla
    tlapm FormatProofs.tla

`MCExitStatus.cfg`, `MCKill.cfg`, `MCWaitAny.cfg`, `MCAdoption.cfg` (with `MCKernel`),
`MCYield.cfg` (with `MCUserSpace`), `MCDropped.cfg` and `MCOpened.cfg` (with `MCDevices`) each end
with the counterexample of section 6.

`kernel` has 680 700 distinct states, `readers` 110 575, `user_safety` 3.2 million,
`user_progress` 44 000 and `devices` 252 174.

## 8. Plan

Modelling: directories other than the root if something comes to call `fat64_mkdir`; more than
one handle of a file; disk errors, once the driver reports them; `Probe` followed by
`Ethernet` with the vector it found.

## 9. Not modelled, and why

* Screen manager and screen users: user processes whose effect on the kernel is that of
  arbitrary callers of `Screens`. The same goes for the sample users of `user.c`, which are
  arbitrary programs in `UserSpace`.
* Graphics (VESA, fonts, pictures): drawing into a frame; `Screens` models which frame, the rest is
  arithmetic on pixels without state.
* Boot and assembly stubs: straight-line code on registers before there is a process.
* FPU, string and memory routines, system call stubs: no state.
* Access to device registers: PCI configuration cycles, polled transfer of a sector, programming
  of the UART, timer and keyboard controller. `_pci_set_bits` and `_pci_mask_inta` change a
  register nothing reads back.
* Calls nothing makes: `kalloc_set_base`, `_interrupt_terminate`, `fat64_mkdir`; those declared
  without a body: `fat64_mv`, `_seek`, `_tell`, `_rmdir`. `_sio_writes` and `_sio_reads` have no
  callers either, but share buffers with those that have, so they are modelled.
* The spin lock of `mutex.c`: nothing in the kernel proper takes it.
* `scratch/` holds prototypes and older kernels outside the build.
