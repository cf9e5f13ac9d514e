# Formal models of the orange kernel

TLA+ specifications of the single-hart RISC-V kernel and its UART bootloader,
checked with TLC on small instances and, where it says so, proved with TLAPS
for all values of the constants.

## 1. The system and its hard parts

| Part | State | Operations | What is hard |
| --- | --- | --- | --- |
| Scheduler (`sched.c`, `switch_to.S`) | `run_head..run_tail`, `need_resched`, `tp` | `schedule`, `thread_yield`, `thread_enter_idle`, `thread_run_until_idle` | switch atomic against traps; idle check against WFI; fairness |
| Threads (`thread.c`, `user.c`) | TCB state, `all_threads`, `zombie_head`, `next_tid` | create, publish, exit, stop, reap, group queries | a TCB on three lists at once; freeing under a running stack; stop of a sleeping or dead task |
| Waits (`wait.c`) | resource queues, per-task registrations | prepare, wait, finish, cancel, wake | wakeup between registration and sleep; several queues waking one task; nodes on a dead stack |
| Traps (`trap.c`, `trap_entry.S`) | trap context, `sscratch` | dispatch, U-origin return | zombies must not return to U-mode; preemption only here |
| System calls (`syscall.c`, `exec.c`) | trap context, image window | read/write, exec, fork, thread create, exit, stop | buffers that die while the caller sleeps; rollback of a failed launch |
| Bottom halves (`bottom_half.c`) | `pending`, `running` | raise, clear, run | nested traps; a raise during its own handler; starvation |
| Custom work (`custom_work.c`) | pool, batch list | `defer_callback`, run | pool exhaustion; submission from a callback |
| UART driver (`uart.c`, `ringbuf.c`) | RX/TX rings, IER bits, wait queues, refill | send, recv, top half, two bottom halves | masked with work left; polling beside interrupts; lost wakeups |
| Stress demo (`demo_uart.c`) | markers left, timer markers | start, note timer, refill | refill only from an empty ring |
| Timer (`timer.c`) | event list, deadlines, STIE | add, top half, bottom half, stop | callbacks that add or stop; cleanup once |
| Page allocator (`memory.c`) | frame array, free lists, reservations | `p_alloc`, `p_free`, reserve, init | split and merge; overlapping reservations |
| Slab allocator (`slab.c`) | pools, pages, free objects | `kmalloc`, `kfree`, refill | list moves; foreign and repeated frees |
| Readers (`cpio.c`, `fdt.c`) | none | walks over archive and device tree | bounds, alignment, nesting |
| Start (`kernel.c`, `boot.S`, `platform.c`) | tickets, stack slots | start of the other harts, greeting, bounded wait | late harts; failed starts; shared UART |
| Bootloader (`bootloader/src`) | receive state, memory image | header, payload, checksum, copy, jump | lost bytes; overlapping copy |

The kernel runs on one hart. Atomicity comes from `local_irq_save` and
`local_irq_restore`; an interrupt may be taken everywhere else. Kernel threads
are cooperative; user tasks are preempted only on the return path of a trap
from U-mode. A top half masks its source and raises a bottom half; the trap
exit runs the bottom halves with interrupts on. Bottom halves wake sleeping
threads; the boot thread is both shell and idle thread, and frees dead threads.

## 2. Modules

| Module | Models | Main definitions |
| --- | --- | --- |
| `Sched` | scheduler, thread life cycle, waits, U-mode trap path, idle loops | `schedule`, `thread_stop_tid`, `Prepare`, `WakeOne`, `TrapResume`, `ReapPop`, `IdleCheck` |
| `SchedProofs` | proofs about `Sched` | `Invariance` and its consequences |
| `BottomHalf` | the runner of deferred interrupt work | `RaiseAndRun`, `StartHandler`, `EndRound` |
| `BottomHalfProofs` | proofs about `BottomHalf`, and about its operations as other modules use them | `RunnerIsUnique`, `NotificationsKept` |
| `Uart` | UART driver and streaming demo, over an instance of `BottomHalf` | `uart_recv`, `uart_send`, `uart_irq_top`, `RxDrain`, `TxDecide` |
| `UartProofs` | proofs about `Uart` | `UartInvariance` and its consequences |
| `Fifo` | what a bounded character queue promises | `Put`, `Get` |
| `RingBuf` | the ring buffer, an implementation of `Fifo` | `ringbuf_push`, `ringbuf_pop`, `IsFifo` |
| `RingBufProofs` | proofs about `RingBuf` | `RingIsFifo` |
| `CustomWork` | deferred one-shot callbacks, over `BottomHalf` | `defer_callback`, `Take`, `Call`, `Release` |
| `CustomWorkProofs` | proofs about `CustomWork` | `CustomInvariance` and its consequences |
| `Timer` | timer events, scheduling tick, hardware deadline, over `BottomHalf` | `AddInsert`, `timer_irq_top`, `TimerNext`, `TimerEnd`, `timer_stop` |
| `TimerProofs` | proofs about `Timer` | `TimerInvariance` and its consequences |
| `Cpio` | the archive reader, as operators | `FileOk`, `cpio_iterate`, `cpio_find` |
| `Process` | processes, TIDs, groups, program loading, system calls and the memory they own; extends `Cpio` | `Create`, `exec_load_image`, `SpawnOne`, `sys_fork`, `sys_exec`, `thread_stop_process`, `UartByte` |
| `ProcessProofs` | proofs about `Process` | `Invariance` and its consequences |
| `Fdt` | the device tree reader and platform discovery, as operators over tokens | `fdt_check_header`, `fdt_path_offset`, `platform_init_devices` |
| `Buddy` | reservations, startup allocator and page allocator; extends `Fdt` | `memory_reserve`, `p_alloc_locked`, `p_free_locked` |
| `Slab` | `kmalloc` and `kfree`, and the memory system as a whole; extends `Buddy` | `kmalloc`, `kfree`, `Reclaim` |
| `Loader` | the bootloader's load command, its sender and the serial line | `Send`, `ReadHeader`, `BundleOk`, `CopyKernel` |
| `Boot` | from power-on to the kernel's shell on all harts; extends `Loader` | `StartHart`, `TakeTicket`, `EndWait` |
| `BootProofs` | proofs about `Boot` and `Loader` | `CopiesAreExact`, `LoadsExactly`, `HartsStayApart` |
| `MCUart`, `MCTimer`, `MCProcess`, `MCSlab`, `MCBoot` | values and symmetry sets for TLC | |

### Sched

A step is one section with interrupts off, or one point where a trap may be
taken. `pc[t]` is the place where thread `t` is or will resume; the header of
the module lists the points. A member of `Task` is a slot of memory that can
hold a TCB: state `"FREE"` is unallocated, so reuse of a freed TCB is part of
the model. `THREAD_NEW` has no state of its own: a new task is private to its
creator until `thread_publish`, so creation is one step. `runq`, `zombies` and
`waitq[q]` are the linked lists as sequences; `wait_entries[t]` is the set of
queues a task is registered on. Which user tasks make up a stopped group is
left open: `UserStop` may stop any of them in any number.

### BottomHalf

`pending` and `running` are the variables of `bottom_half.c`. `frames` has one
record per active call of `run_bottom_halves` (the round still to serve and
the handler that runs), so that nesting can be stated. `owed` is a history
variable: raised, not cleared, handler not started since.

### Uart

Bytes are numbered in order of arrival or acceptance, and the rings hold the
numbers. The device is external: a receive FIFO of bounded depth that drops
bytes when full, and a transmit holding register. The PLIC may deliver an
interrupt whose cause is gone. The handlers are split where interrupts are on
between two sections. The scheduler is abstracted to "any thread that is not
asleep may go on", which is more than `Sched` allows. `lost` is a history
variable: threads stopped between wakeup and next run. A marker of the
streaming demo is `MarkerLen` bytes; its text is not modelled. Ring access in
`demo_uart_refill` is one step although the code restores interrupts in
between, because a top half, the only code that can run there, touches neither
the ring nor the stream.

### RingBuf and Fifo

`RingBuf` keeps the representation of `ringbuf.c`: the array, `head`, `tail` and
`count`. `ret` is what the last call returned. `Contents` reads the ring as a
sequence, and with it the ring implements `Fifo`; this is what lets `Uart` use
sequences for its rings. `data` starts with any content, because
`ringbuf_init` does not clear it.

### CustomWork

The pool and its `next` pointers are kept, since reuse of a slot while its
pointer is still needed is what could go wrong. Submissions are numbered and
`arg` holds the number. They come from threads, from callbacks of any bottom
half and from interrupt handlers (as in `tests/kernel_regression.c`), the last
at any point of `run_custom_callbacks`. `lastRun` is history.

### Timer

`now` is the time counter, `hw` the deadline last given to the SBI, `stie` the
enable bit; the interrupt is pending while `hw <= now`. An event is a heap
block, so its reuse is modelled; `due` and `released` are history variables for
the requested time and the calls of its cleanup. `add_timer` is two steps, since
interrupts are on between the computation of the deadline and the section that
links the event. A context (thread, or callback on top of it) has its own
locals. An allocation that fails and a sum that overflows leave no trace and
are no step. `next_deadline`, `uptime_seconds` and `timer_irq_count` are only
printed and left out, as is a platform without a timebase, where the timer is
never enabled.

### Process and Cpio

`Sched` asks who runs; `Process` asks who owns what. Any live user task may make
its next call. A system call is one step, because it runs with interrupts off;
only `uart_read` and `uart_write` may sleep, at every byte, and `UartByte` is
the check and the access that follow a sleep. A member of `Task` is the block of
a TCB, a member of `Stack` the block of a user stack; `heap` is the set of
allocated ones, and `kstacks` has the TCBs for which a kernel stack is allocated.
`kmalloc` may fail at any call: `NewTask` takes a user stack, an id, a TCB and a
kernel stack in the code's order, and frees in the code's order what it has when
one of them is missing. Spawn, fork and thread creation, which write this
sequence out three times, share it. `SpawnFails` goes on from there with the tasks
made so far. The one image window at `USER_CODE_BASE` is `window`, the
archive entry copied there. Names are looked up once, at the start, since the
archive never changes. `image`, `access` and `gone` are history: what a task
runs, what the last byte touched, which groups were stopped. An archive is what
lies at the offsets the reader visits; offsets, padding and bounds are those of
`cpio.c`, hex digits are not modelled.

### Fdt, Buddy and Slab

A device tree is a sequence of tokens. `LookupsExact` says what each lookup has
to return in terms of the nesting of the tokens (`Owner`, `Props`, `Regs`), a
definition that shares nothing with the walks. `Buddy` keeps the frame array and
the links of its free lists; addresses wrap at `UINT_MAX`. `slab_init` boots the
board: platform discovery, the reservations in the code's order, the array
placed by the startup allocator, the runs between reservations carved into
blocks. `asked` is the history of the ranges as they were asked for, before any
rounding. The lists of slab pages are sequences: unlike those of the page
allocator, their links are not kept, so a wrong pointer in `cache_remove_slab`
would not show. After that a call of `kmalloc`, `kfree`, `p_alloc` or `p_free` is one
step, since each runs with interrupts off. Pointers given to `kfree` and `p_free`
include ones inside a block, to free pages and to other pages, which the code
refuses. `live` is the history of what clients hold.

### Loader and Boot

A unit is a byte or a 32-bit field; the checksum is additive modulo `SUM`. The
sender is `uart_load.py` in its default mode (`--stage` and `--load-cmd`, which
leave parts of the stream out, are not modelled): it may be started again whenever
its last stream has been taken. Up to `FAULTS` deliveries have one unit changed or a run of units
lost, and what is left over is read by the prompt as a command line, as in the
code: either line end, blanks around the command, backspace and a full line
buffer. Memory holds anything from `Fill` at power-up. The copies are stepwise,
since both overlap or border on the bundle they read. `Boot` goes on with the
kernel: harts that start or do not, tickets for the greeting, the bounded wait
whose length is left open. `Enter` assumes a device tree that `platform_init`
accepts; its refusal is in `Buddy`. Only the hart that ran the loader enters
`kernel_main`; its branch for any other hart is not modelled.

Definitions named `X_Defect` are variants of `X` with one plausible fault. They
are used by no specification; each shows that a property notices that fault.

## 3. Checked with TLC

| Run | Instance | Properties | States |
| --- | --- | --- | --- |
| `sched` | 3 task slots, 1 queue | `SchedInv`, `ReturnsClean`, `NeverOvertaken`, `RunnableRuns`, `ZombieFreed` | 37 647 |
| `uart_rx` | 2 readers, 1 writer, rings of 2, 3 bytes in | `RxArmed`, `RxInOrder`, `ByteHasReader` | 725 802 |
| `uart_tx` | 2 writers, ring of 2, 6 bytes out, markers of 2 | `TxArmed`, `TxInOrder`, `SlotHasWriter` | 146 596 |
| `uart_rx_live` | 2 readers, 3 bytes in | `InputComesThrough` | 12 441 |
| `uart_tx_live` | 2 writers, ring of 2, 5 bytes out | `OutputGoesOut`, `WriterIsWoken` | 15 983 |
| `ring_buffer` | 4 cells, 2 characters | `IsFifo` | 656 |
| `custom_work` | 3 slots, 5 submissions, 2 other sources | `PoolExact`, `NoLostRaise`, `RunsInOrder`, `CallbackRuns`, `RaiseServed` | 28 995 |
| `timer` | 3 events, 3 ticks of the clock | `DeadlineKept`, `StoppedIsQuiet`, `EventOwnedOnce`, `NotEarly`, `CleanupOnce` | 430 586 |
| `timer_live` | 2 events, 2 ticks of the clock | `TimeIsServed` | 79 875 |
| `memory` | 3 boards with 8 pages each, 9 faulty ones, some 5 000 small trees | `DeviceTreeRead`, `BuddyExact`, `RefusedOnlyWhenNone`, `ReservedKept`, `ObjectsDisjoint`, `NothingLost` | 28 755 |
| `process` | 3 tasks, 4 TIDs, 3 archives of 8 entries | `BlocksOwned`, `ImageIntact`, `GroupStaysDown`, `AccessOwned` | 217 699 |
| `boot` | 3 pairs of images, 1 faulty delivery, 3 harts | `LoadedExactly`, `CopyExact`, `HartsApart`, `ShellReached` | 916 113 |

`SchedInv` joins the invariants of the scheduler (section 4 names them);
`DeadlineKept`, `TimeIsServed`, `OutputGoesOut`, `InputComesThrough`,
`ImageIntact` and `HartsApart` join two facts each, stated and commented beside
them. `NoLostRaise` and `RaiseServed` of `BottomHalf` are checked with
`CustomWork`, whose callbacks raise their own and other work.

**Documentation that the code has left behind.** README.md of the repository says
"UART RX copies up to 16 bytes into its ring in the top half."; `uart_irq_top`
reads no byte, masks and defers. It also says "There is no blocked I/O state or
wait queue yet."; `wait.c` has both. It describes deferred work with priorities
in `deferred_work.c`; there is no such file, and `bottom_half.c` and
`custom_work.c`, which took its place, know only fixed types and one list in
order of submission. A comment in the bootloader's `shell_readline` says "skip LF
if we saw CR"; the flag is a local that is set just before the function returns,
so the LF ends a line of its own. The models follow the code.

**Bounds.** Three slots let one task run while another waits or is queued and
a third is dead or being reused. One queue can notify a task again before it
runs; that several queues may do so is covered by the proof of `SchedInv`.
Nothing in `Sched` counts, so no further bound is needed. In `Uart`, `MaxRx`
and `MaxTx` bound the bytes of a behaviour; they exceed ring and FIFO capacity,
so that full, empty and wrapped cases all occur, and `MayAccept` reserves room
for what has begun so that the bound never blocks a step halfway. `Budget = 1`
makes every handler meet an exhausted budget with work left. `FillBudget = 1`
does the same for `demo_fill_tx`. In `CustomWork`, `MaxSubmit` exceeds the pool,
so that it fills up and slots are reused. In `Timer`, `MaxNow` bounds the clock,
`EventBudget = 1` leaves due events over in most rounds, and `Durations` has a
value that is due at once, one that is due soon, and one that fits the word
only at time 0. In `Process`, `TID_MAX` is reached, three tasks are enough for a
process of two threads beside another process, and the archives hold a directory,
an empty file, one too large, a name twice and a file behind the trailer, and
are cut short or damaged in two of three cases. In `Slab`, pages have 8 bytes
and cells 4 bits, so that every rounding, RAM up to the end of the address space,
a range to keep that wraps inside this RAM, and exhausted memory occur. That the
reservation table is never too small follows from its size (`TableLargeEnough`:
64 entries, at most 38 requests). In `Loader`,
one kernel is longer than the metadata before it, so that its copy overlaps its
source, and two images end in zeros, which an additive checksum does not see.
Permutations of threads, tasks and stacks are symmetric and used for safety only.

**Fairness.** In `Sched`: the boot thread and the trap path go on to their next
scheduling point; the 20 Hz tick interrupts U-mode and ends WFI; a kernel
worker that keeps running reaches a scheduling point again and again, which is
what a cooperative kernel asks of it and what the workers of `demo.c` do. A
worker that loops for ever is outside of the claim. In `BottomHalf`: the runner
and its handlers return, and traps go on coming, so that work raised by thread
code is seen. In `Uart`: the device sends, a pending interrupt is taken, and a
thread that is not asleep runs (strong fairness, since handlers interrupt it;
`RunnableRuns` is the property of `Sched` behind it). The device is not assumed
to receive anything. Liveness of `Uart` is checked without other bottom halves:
the runner returns to threads only when nothing is pending, so a source that
raised work for ever would keep every thread from running. In `CustomWork` the assumptions are those of `BottomHalf`.
In `Timer`: the clock goes on, a pending timer interrupt is taken, and callbacks
return; strong fairness stands for that, since a callback may make any finite
number of calls first. `bottom_half.h` forbids callbacks to sleep, schedule or wait.
In `Boot`: the user starts the sender again, the loader reads what arrives, and
each hart that was started goes on; a hart whose start failed owes nothing.

**A wakeup that can be lost.** `wait_queue_wake_one` hands its wakeup to one
thread. If that thread is stopped before it runs, nobody else is woken.
`ByteHasReader` and `SlotHasWriter` say how much that costs, one byte or slot
per stopped thread, and `SleeperIsServed` (in `InputComesThrough`) and
`WriterIsWoken` are claimed for behaviours in which it does not happen.

**What the loader does not promise.** An additive checksum cannot tell a stream
that lost zero units, or that lost and gained the same sum, from the one sent.
`LoadedExactly` is claimed for deliveries in which no unit was lost and at most
one was changed. `ShellReached` is claimed for all: after any fault, a sound
delivery, or several, boots the kernel.

**What the greeting does not promise.** The boot hart waits a bounded time. When
it runs out, a late hart may greet while the shell prints; `HartsApart` claims
separation of the boot hart only until then, and of the others always.

## 4. Proved with TLAPS

The theorems hold for every value of the constants. Assumptions are

* `SchedAssumption`: the boot thread and the null pointer are not tasks;
* `RingAssumption`: a capacity of at least one, a failure value that is no
  character;
* `ProcessAssumption`: task and stack blocks are distinct, neither is the null
  pointer, and no stack is the image window;
* `ArchiveAssumption`: archives are finite sequences of entries with sizes;
* `LoaderAssumption`: the archive's address lies behind the largest bundle
  (80 MiB and 16 bytes from 0x20000000 and 0x46100000 on the board, 0x82000000
  and 0x88000000 on QEMU);
* `StreamAssumption`: what is sent are units, and the size of a payload fits its
  field;
* `BootAssumption`: the boot hart is one of the harts;
* `TimerAssumption`: a word of time in which the clock and one more tick fit;
* `CustomAssumption`: a pool of at least one slot, and the bottom halves of the
  kernel as the only other ones;
* `UartAssumption`: finitely many threads, each a reader or a writer; ring, FIFO
  and budgets of at least one; a marker that fits the ring.

The bounds of the runs (`MaxSubmit`, `MaxNow`, `MaxRx`, `MaxTx`, `MaxMarkers`)
are constants like the others: a theorem holds however large they are.

* `SchedProofs`: `Spec => []SchedInv`, and from it each of its conjuncts
  (`RunQueueExact`, `WaitLinksAgree`, `ZombieOnce`, `OneRunning`,
  `ReapedBeforeIdle`, `TypeOK`), `NoResurrection`, `ReturnsClean` and
  `NeverOvertaken`. None of the invariants is inductive alone. That `schedule` drops nothing from the run queue needs
  `RunQueueExact`; that a step of the reaper frees no thread that can run needs
  `ZombieOnce` with `OneRunning`; that a wakeup does not enqueue a task twice
  needs `WaitLinksAgree` and the exactness of the run queue; `ProgramPoints`
  ties states to program points, such as a WAITING task to its wait section.
  Lemmas say what appending, popping and unlinking do to a list without
  duplicates; one lemma per action shows that it preserves the invariant.
  `NeverOvertaken` compares two states: for each list operation a lemma says that
  whoever stays on the list is no further from its head, and closer if the head
  was taken (`Behind`). An action appends, unlinks or pops, or pops what `schedule`
  has just appended to, and needs `SchedInv` to know that what it appends was not
  queued already.
* `BottomHalfProofs`: `OneRunner` and `NoLostRaise` from their conjunction with
  `TypeOK`, `BHInv`. A notification can only be lost when a second runner starts
  over a round in progress, or when a round ends with a type still selected. The
  proof has one lemma for each operation of the runner, so that the three modules
  below can cite it: each of their actions is one of these operations.
* `CustomWorkProofs`: `RunsInOrder`, `PoolExact` and `NoLostRaise`, from
  `CustomInv`. It speaks of submission numbers instead of paths through the
  pointers, which no step of induction is then needed for: the allocated slots
  hold the numbers after the last one called, each once; a link leads to the next
  number; the batch ends where the submitted list starts. That a batch pointer
  does not run into the submitted list, and that the slot called is free again
  only after its link was read, are clauses of it. `PoolExact`, which follows
  links, comes out because every number after the first has one slot.
* `TimerProofs`: `DeadlineKept`, `StoppedIsQuiet`, `EventOwnedOnce`, `NotEarly`
  and `CleanupOnce`, from `TimerInv`. That the programmed deadline covers every
  event needs the queue to be sorted; that putting one in keeps it sorted needs
  where the walk of `add_timer` stops; that nothing is freed twice needs all
  owners apart (the queue, the bottom half, and both contexts with an event
  being added or a list being dropped); that a callback is not early needs that
  an event on the queue keeps the deadline that was asked for.
* `UartProofs`: `RxArmed`, `TxArmed`, `RxInOrder`, `TxInOrder`, `ByteHasReader`
  and `SlotHasWriter`, from `UartInv`. Its parts are independent, and each action
  is shown to preserve each part through a lemma that names only the state the
  part is about. Order: what was read, what is in the ring and what is in the
  device are one increasing sequence. Wakeups (`Side`, used for both sides):
  every sleeper is registered, and while there is one, bytes in the ring are at
  most the readers awake and those stopped with their wakeup unused; a byte
  added wakes one registered reader, a reader taken away took its byte with it,
  and a reader falls asleep only on an empty ring. Interrupt bits: the last byte
  cannot be left behind with its interrupt masked, because the bottom half
  decides and sets the bit in one section; for the stream this needs that it only
  runs with the refill installed, and that `TxDecide` with an empty ring has
  found the stream over. Counting the awake threads takes the library's facts on
  finite sets.
* `RingBufProofs`: `Spec => IsFifo`, the refinement. The inductive invariant is
  `TypeOK` with `IndicesAgree`: a push writes the cell behind the last character,
  and no cell in use, only because `head` lies `count` cells after `tail`. One
  lemma takes the modulo out of the index step; two show that a push is `Put`
  and a pop is `Get` on `Contents`.
* `ProcessProofs`: `BlocksOwned`, `ImageIntact`, `GroupStaysDown` and
  `AccessOwned`, from `ProcInv` and, for what lies in the window, `WindowInv`. Alone they are not
  inductive: that a new task's group is not a stopped one needs that TIDs below
  `next_tid` are the only ones ever given; that a failed spawn frees exactly what
  it made needs that nothing else lives while the boot thread spawns; that a
  stack freed by the reaper is in no call needs that only live tasks are in one.
  `Creation`, `Killing` and `Freeing` are shared by the actions that do these;
  `FailureUndone` shows that a creation that fails, at whichever allocation, leaves
  the heap as it found it.
  That a loaded file lies whole in the archive is a fact about `cpio_find` for
  every archive: offsets are defined by recursion over the entries, so the proof
  first shows that the recursive function exists and is a number everywhere,
  taking the least entry where it would not be.
* `BootProofs`: `CopyExact` for every size of kernel and archive, from an
  invariant that says of each address what it holds after `got` units: the copy
  down reads ahead of what it writes, and the copy up lands behind the bundle.
  `LoadedExactly` for every image, from `SyncInv`, which says where in the
  delivery the reader is: at the prompt, in a header whose magic word is that of
  the stream, or in the payload with what was read in memory. `ChecksumChange`
  shows that the sum differs when one unit of a sequence does, by induction over
  the units (`LeastNumber`), and `AcceptedIsSent` goes through the places where
  the changed unit may be: a size, a sum, kernel or archive. The theorem has a
  hypothesis, `MagicOnce`: the magic word occurs once in a stream and no fault
  makes another. Without it a reader that lost its place may start inside an
  image, and an image that holds a load stream would be taken for one. The run's
  faults do make the magic word, and its images are none of that kind.
  `HartsApart` for every number of harts: tickets held by waiting harts are
  distinct and not yet served, and the greetings counted are those that ended,
  so that the boot hart's count reaches `started_cores` only after the last.

Two proofs count members of a set (`UartProofs`, `BootProofs`). What they need of
counting is the formula `Counting`, which the lemmas on steps take as a
hypothesis and one lemma proves at the end, from the library.

Only model-checked: everything about `Fdt`, `Buddy` and `Slab`, which walk with
recursive operators that keep the prover out of modules that use them, and all
liveness properties, which the prover cannot handle.

## 5. Not modelled

* Register save and restore (`trap_entry.S`, `switch_to.S`, `context_layout.c`):
  data layout, no decisions beyond those in `Sched`.
* The relocation of addresses in a forked stack (`syscall.c`): every word of the
  stack that looks like an address of the parent's stack is moved. Whether a
  word is an address is a matter of the program, not of the kernel's state.
* Text: what shell and drivers print, line editing and argument parsing of the
  kernel's shell, number formatting. Line editing of the bootloader is modelled,
  since it decides what a damaged stream does.
* Statistics counters, the trace buffer (`trace.c`) and the allocators' status
  printers and self tests (`memory_test.c`): nothing depends on them.
* Single device and firmware accesses (`plic.c`, `sbi.c`) and byte loops
  (`string.c`): their effects are steps of the modules that use them.
* The timebase lookup of `fdt.c`, which scales time and decides nothing else.
* User programs: `Process` and `Sched` let a task make any call at any time.
* The parking of the other harts in the bootloader's `boot.S`.
