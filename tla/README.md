# SwiftCore (mochiOS): TLA+ models and proofs

SwiftCore is a hybrid kernel for x86-64 written in Rust. The kernel
(`src/src/core`) has threads, processes, address spaces, IPC, signals, pipes and
input buffers. Disk, file system, drivers and shell are user-space services and
drivers that talk over IPC; the file-system reader of the kernel is a module that
it loads at boot. This directory holds TLA+ models of these parts, TLC
configurations that check them on small instances, and TLAPS proofs of the main
safety properties of the concurrent core for every instance.

## 1. The system

### Execution model

There is one CPU in effect. Code runs in a thread, in user mode or in a system
call, or in an interrupt handler. Handlers run with interrupts off.

* A `SpinLock` turns interrupts off while it is held, so its critical sections
  are atomic. So are `without_interrupts` blocks.
* A `spin::Mutex` does not (`util/fifo.rs`, `mem/frame.rs`).
* `SYSCALL` turns interrupts on at entry (`syscall_entry.rs:219`): an interrupt
  can fall between any two steps of the system call. `int 0x80` goes through an
  interrupt gate and keeps them off. `Scheduler`, `Ipc` and `Keyboard` describe
  `SYSCALL`; `int 0x80` only takes interleavings away, so what holds for the first
  holds for both. `Mouse` has both, `Signals` both ways of returning.
* The timer does not preempt a thread inside a system call: `scheduler_tick`
  tests `in_syscall`. A system call gives the CPU up only through `yield_now`.
  This is why most system calls are one action here, and the ones that yield are
  one action per stretch between two yields. The timer interrupt does wake due
  sleepers and futex waiters inside a system call, before that test.
* A user process (a service, a driver, the shell) can be preempted anywhere.
* A thread leaves by its own exit or fault. Terminating or signalling another
  process takes Core privilege (`caller_can_signal_target`), which only the
  kernel's own process has; the models have no such action. SIGCHLD is the one
  signal that crosses processes.
* The switch to another thread takes the lock on the process table. A call that
  yields while it holds that lock stops the machine; `Files` marks that state.

### Parts, state and operations

| part | state | operations | what is hard |
|---|---|---|---|
| thread queue, scheduler | slots, generations, thread states, `pending_wakeup`, current thread, time slice | push, remove, schedule, yield, sleep, wake, tick, exit | wake racing sleep, tick inside exit, slot reuse, fairness |
| mailboxes, IPC calls | ring, slots, free list, waiter, one per queue slot | send, recv, recv_blocking, receive from a sender, exit notice | full ring, rotation, lookup before lock, wake after unlock, stale messages |
| keyboard, mouse | Fifos, waiters, packet assembler | IRQ1/IRQ12, read, tap, inject, blocking read | IRQ inside a system call |
| sleep, futex | deadline and waiter tables | sleep_until, FUTEX_WAIT/WAKE, due-wakes on the tick | timeout against wake against signal |
| pipes | pipe table, ring buffers, reference counts | pipe2, readv, writev, close, fork | end of file, one waiter, partial failure |
| signals | actions, masks, pending sets, user stack | sigaction, sigprocmask, kill, delivery, sigreturn | nesting, frames, signals that arrive together |
| memory, processes | frame allocator, page tables, heap and stack limits, process table, kernel stacks | exec, execve, fork, exit, wait, brk, mmap, munmap, mprotect, page fault, shared pages, MMIO | ownership of frames, failure half way |
| console | input queue, cursor, escape parser | write, read, poll, ppoll, pselect6 | readiness that changes while it is reported |
| descriptors, fs client, fs.service | fd tables, reference counts, requests and answers | open, dup, dup2, close, fork, exec, seek, read, stream | late answers, IPC under a lock, handles counted in three places |
| ext2 readers, disk | caches, ATA registers | mount, lookup, read, stat; sector read and write | stale caches, I/O errors, two users of one controller |
| terminal, shell | cells, frame buffer, line, command cache, child | keys, escape sequences, run, drain, reap | screen drifting from cells, last output against exit |
| kernel modules, services | images, registered tables; process names | load a file; start a list | placement, relocation, duplicates |
| USB, network | xHCI rings, slots, reports; virtqueues | enumerate, poll, transfer; send, receive | wrap-around, ownership of buffers, order of completions |

`PROJECT.json` lists every component, with the status of each.

## 2. Modules

| module | models | extends / uses |
|---|---|---|
| `Scheduler` | `task/thread.rs`, `task/scheduler.rs`, entry and return of system calls, tick, timed sleep, exit | |
| `MessageQueue` | abstract: a bounded FIFO queue with scans and a waiter | |
| `Mailbox` | ring, pool and free list of one mailbox (`syscall/ipc.rs`) | refines `MessageQueue` |
| `Ipc` | IPC system calls over the scheduler | `Scheduler` |
| `Keyboard` | IRQ1, Fifos, keyboard system calls over the scheduler | `Scheduler` |
| `Frames` | `mem/frame.rs` | |
| `PageTables` | `mem/paging.rs` | `Frames` |
| `Memory` | brk, mmap, munmap, mprotect, stack growth, shared pages, MMIO | `PageTables` |
| `Spawn` | exec, execve, fork, exit, wait, kernel stacks | `Memory` |
| `Signals` | `syscall/signal.rs`, `task/signal.rs` | |
| `Waiting` | sleep_until, futex, their queues, timer, signal wake-up | |
| `Pipes` | `syscall/pipe.rs`, readv and writev on pipes | |
| `Tty` | `syscall/tty.rs`, poll family of `syscall/pgroup.rs`, stdin and stdout | `Keymap`, `Ansi` |
| `Files` | `syscall/fs.rs`, `task/fd_table.rs`, handle table of `services/fs` | |
| `Ext2` | the three ext2 readers: boot images, `modules/fs`, `services/fs` | |
| `Disk` | `services/disk`, `services/fs/src/disk_device.rs`, ATA reads of `modules/fs` | |
| `Terminal`, `Shell` | `services/shell` | `Keymap`, `Ansi` |
| `Usb`, `Net` | `drivers/usb`, `drivers/net` | |
| `Mouse` | `util/ps2mouse.rs`, `syscall/mouse.rs` | |
| `Kmod`, `Services` | `kmod/mod.rs`; `services/core`, `services/driver`, look-up by name | |
| `Input` | `Keyboard`, `Usb` and `Tty`, side by side | these three |
| `Parts` | the other twelve modules from `Signals` on, side by side | all of them |
| `SchedulerProofs`, `SpawnProofs`, `PipeProofs` | proofs about the module they are named after | that module |
| `IpcSendProofs`, `ReceiveProofs` | proofs about `Ipc`, and about `Keyboard` in the second | `SchedulerProofs` |
| `QueueProofs` | proofs about `Mailbox` and `Waiting` | these two |
| `ServiceProofs` | proofs about `Disk` and `Shell` | these two |
| `DeviceProofs` | proofs about `Mouse` and `Net` | these two |
| `MC*` | the instances for TLC | |

### Scheduler

`threads` and `slot_generations` are the arrays of `ThreadQueue`; `state`,
`pending_wakeup` and `in_syscall` the fields of a `Thread`; `current` the per-CPU
thread id; `current_slice` the counter of `Scheduler::tick`. Two variables are not
in the code: `cpu`, the thread whose instructions execute, and `pc`, where each
thread stands. `cpu` and `current` differ only inside `exit_current_task`.

A system call is `syscall_enter`, some of `sys_yield`, `sys_sleep`, `futex_wait`,
`sleep_until`, `sys_add_thread`, `exit_mark`, and `syscall_return`. They differ in
what an interrupt can split: `sys_sleep` may be interrupted between sleep and
yield, `futex_wait` is one step, `sleep_until` registers and sleeps in one step and
then loops. `sleep_queue` is SLEEP_QUEUE; an entry is "waiting" for its deadline,
or "past" when the deadline passed before it was made. `timer_interrupt` wakes the
entries that are due and then lets the time slice run on or schedules.
`exit_current_task` is three actions because an interrupt can fall between them.
`wake(t)` stands for all callers of `wake_thread`. `Switch` is `schedule`
followed by `switch_to_thread`.

Left out: register contexts, page-table switching, and ids of threads being unique
over time (`Scheduler` lets a thread id come back; `Ipc` does not). Kernel stacks
are in `Spawn`.

### Mailbox and MessageQueue

`Mailbox` has every field of the Rust struct. The two scanning loops take one step
per message, `scan` standing for the held lock. The payload of a message is left
out, its sender and its addressee (thread and generation) stay. `ImplementsQueue`
maps the ring to the sequence of messages it queues.

### Ipc and Keyboard

`Ipc` extends `Scheduler` with one mailbox and one waiter per slot of the thread
queue. `send` is three steps: lookup, push under the lock, wake after it. A receive
is one step because the code holds the lock throughout. `op` says in which call a
thread is. Thread ids are not reused (`used`), slots and generations are. One
thread per process. A failing copy to the user's buffer is a nondeterministic
outcome of a receive.

In `Keyboard`, `buf_lock` and `tap_lock` are the Mutexes of the two Fifos. IRQ1 may
arrive between any two steps of a thread; when the interrupted thread holds a Mutex
the handler `spin`s. Scancodes are numbered in order of arrival.

### Memory: Frames, PageTables, Memory, Spawn

Each layer is a set of operators that take the state of the memory and return the
next one; only `Memory` and `Spawn` have actions, one per system call or page
fault, because none of these calls yields in the middle. An allocator is a record
of `mem/frame.rs`'s fields. A page table is a trie from index paths to entries with
frame and flags, so that tables, shared sub-tables, 2 MiB entries and the frames
that the tables themselves need are all there; the contents of pages are not. A
call that runs out of frames, entries or stacks stops where the code stops
(`m.ok`), and what it does then (roll back, or leave) is translated too. `mmap` and the
shared-page calls place their pages at a hint, which moves no limit, or above
`heap_end`. A shared-page call with a hint replaces what is mapped there, and leaves
it unmapped when it fails: the pages it named are then no longer promised.

A program is a list of segments and the verdict of the header checks. `proc` is
the process table with heap, break, stack and table of each process; `kst` the pool
of kernel stacks with its free list, whose entries have the size they were made
with. Addresses count half pages, so a break can lie on a page boundary or inside a
page.

### Signals, Waiting, Pipes

`Signals` has the user stack of each process as an array of words: what a frame
overwrites, and what `rt_sigreturn` finds, is part of the state. `interrupted` is a
history variable, the stack of contexts that handlers interrupted.

`Waiting` looks at the same calls as `Scheduler` from the other side: threads are
Ready or Sleeping, and the deadlines, FUTEX_WAIT_QUEUE and the loops of the calls are
exact. `sleep_until` looks at the clock in one step and registers and sleeps in
another (`sleep_registered`): when ticks in between reach the deadline it returns to
user mode marked Sleeping, with an entry that the next tick finds due. `granted` is a history variable: the threads that a FUTEX_WAKE has counted
and that have not returned.

`Pipes` has the table of pipes, each with ring, positions and reference counts, and
the descriptors that name them. `queue` is a history variable with the bytes that
should be in the ring. `pipe2` has every failure after its first allocation. No
close reaches a pipe's reference counts: dropping a `FileHandle` does not. A call of
`readv` or `writev` has one buffer or two (`PipeWants`, `PipeData`): enough for a call
to stop at, or to sleep before, a later buffer.

### Tty, Terminal, Shell

`Tty` is the kernel's console, `Terminal` the shell's. Both parse the same escape
sequences (`Ansi`) and decode the same scancodes (`Keymap`), as the code does with
two copies. In `Terminal`, `shown` is the frame buffer: for each position the cell
last drawn there and whether inverted. In `Shell`, the child writes chunks into a
mailbox with a limit, retries when it is full, exits at any time, and its exit
notice may be lost; `written` and `displayed` are histories.

### Files

A descriptor names a local or a remote handle; remote ones share a counter (`arc`)
over dup and fork. A request is a message, and the caller polls its mailbox between
yields. Answers carry no number, so an answer to a request that was given up is
taken for the answer to the next (`late`). `hung` is the state after a yield
under the lock on the process table. The service is absent, the one in
`services/fs`, or one with the kernel's message format; it may die, and its mailbox
may be full, so that a request fails when it is sent. The answers of `services/fs`
have 128 data bytes where the kernel asks for 4096: `fs_service_request` refuses
every one of them, after the service has acted on the request. Each `open` is tried
three times and leaves as many handles open. `lost` is the history of the handles that
are open with nobody left to close them, by a refused answer or a close that could
not be sent.

### Ext2 and Disk

`Ext2` has three readers of images with inodes, direct and indirect blocks and
directories, and the three caches of the kernel module, with a block that cannot be
read (`Faults`) and goes away again. A reference definition (`Contents`, `Walk`)
says what is in an image. `Disk` has the ATA registers, shared by `disk.service`,
which may be descheduled between two register accesses, and by the kernel module,
which may not; and the device of `fs.service`, which takes the next message for its
answer. `mixed` records that this went wrong.

### Usb, Net, Mouse, Kmod, Services

`Usb` has rings as sequences of slots with cycle bits, a controller that executes
what the driver has made visible to it, and devices with descriptors; enumeration
follows the driver's state machine from port to interrupt endpoint. `Net` has two
virtqueues with wrapping indices, one transmit buffer, and a card that takes and
returns buffers at any moment. In both, the hardware is external and
nondeterministic. `Mouse` has IRQ12, the assembler of packets, the buffer and the
waiter, with readers entered by `SYSCALL` and by `int 0x80`. `Kmod` loads one
package per step, with the words of the images, so that relocations and placement
are visible; `by` is the history of which image was last copied to a page. `Services` has the process table by name, the lists of
`core.service` and `driver.service`, and deaths.

### Input, Parts

The modules from `Signals` on share no variable in these models, so their product
has no behaviour that one of them alone does not have. `Parts` therefore chooses one
of them in its initial state (`part`) and lets it run, with the others at rest. Its
properties are those of the modules, each about its own part. `Input` does the same
for where keys come from and who decodes them: the PS/2 keyboard, the USB driver and
the terminal (`source`). A module with proofs is extended and rests in its initial
state, one without is instantiated and absent.

## 3. Runs

| run | instance | states | shows |
|---|---|---|---|
| `scheduler` | idle + 3 threads, 3 slots, slice 2, generations mod 2 | 43,468 | `OneRunning`, `QueueHoldsThreads`, `OffCpuResumable`, `SleeperHasEntry`, `RoundRobin`, `ReadyRunsOnceStable` |
| `mailbox` | 3 slots, 2 senders, 2 owners | 1,074,691 | `SlotsPartitioned`, `NeverQuarantined`, refinement `ImplementsQueue` |
| `ipc` | idle + 3 threads, 3 slots, mailboxes of 2, 2 sends | 269,978 | `SleeperIsRegistered`, `WaiterIsReceiving`, `NoLiveMessageDropped`, `BlockedReceiverReturns` |
| `input` | below | 376,417 | the properties of the keyboard, the USB driver and the terminal |
| `memory` | 3 processes, 25 or 81 frames, 8 pages of kernel stacks | 164,692 | `FramesHaveOneOwner`, `ProcessHasOwnTable`, `PromisedPagesMapped`, `KernelStackHasOneUser`, `ForkCopies`, `ReapedMemoryReturnsWithOffset` |
| `parts` | below | 336,638 | the properties of the twelve parts |
| `scheduler_starvation` | idle + 3 threads, 4 slots, slice 1 | | `ReadyRuns` violated |
| `scheduler_leak` | idle + 3 threads, 4 slots, slice 2 | | `TerminatedIsRemoved` violated |
| `keyboard_lost_wakeup` | `Keyboard` as in `input` | | `SleepingReaderRegistered` violated |
| `keyboard_irq_deadlock` | `Keyboard` as in `input` | | `HandlerReturns` violated |
| `memory_reclaim` | as `memory`, three process calls | | `ReapedMemoryReturns` violated |
| `pipe_eof` | `Pipes` alone, two processes | | `SleeperHasWriter` violated |

The parts, one after the other, in `input` (the first three) and in `parts`:

| part | instance | properties |
|---|---|---|
| `Keyboard` | idle + 2 threads, Fifos of 2, 3 scancodes | `ScancodesInOrder`, `FifoLockHolderRuns` |
| `Usb` | 2 ports, 3 kinds of HID device and a hub, 1 failed transfer, 3 reports | `OneSlotPerPort`, `HeldKeysMatchReport` |
| `Tty` | 1 process, 6 output bytes, 4 scancodes, queue of 4 | `PollAnswersTrue` |
| `Signals` | 2 processes, 3 signals, 14 stack words, 5 calls | `HandlersReturn` |
| `Waiting` | 2 threads, 1 futex word, timeouts to 2 ticks | `SleepersQueued`, `WakesAccounted`, `TimedWaitsEnd` |
| `Pipes` | 2 processes, 2 pipes of 2 bytes, 3 free descriptors | `RingIsQueue`, `LoneReaderWoken` |
| `Terminal` | 2 by 3 cells, 14 outputs, 4 steps | `ScreenShowsCells` |
| `Shell` | 8 keys, mailbox of 2, 4 chunks | `ChildOutputComplete`, `PromptReturns` |
| `Files` | 2 processes, 2 descriptors, 2 service handles, a mailbox of 1, 3 calls | `RemoteFilesCounted` |
| `Ext2` | an image of 12 blocks with a directory, an indirect block and a hole, 2 boot images | `ReadsMatchImage` |
| `Disk` | 2 clients, 2 drives, 2 sectors | `SectorIsTheOneAsked` |
| `Net` | queues of 2, indices mod 4, 3 frames | `VirtioFramesIntact` |
| `Mouse` | 2 readers, one entered by `int 0x80`, 3 byte values | `SleepingMouseReaderRegistered` |
| `Kmod` | 2 of 16 packages: two ET_DYN, three ET_EXEC that overlap them or each other, others refused at each of the loader's checks | `ModulesIntact` |
| `Services` | lists of up to 3 of 5 lines, 4 processes | `OneProcessPerService` |

Bounds. Three user threads are the fewest with a victim, an actor and a bystander.
`scheduler` and `ipc` have one slot fewer than threads, so the queue fills up and a
slot, with its mailbox, changes owner. (`scheduler` with 4 slots passes too, with
1,067,912 states.) Mailboxes, Fifos, rings and caches are small enough to fill and
to wrap. `GEN_WIDTH` makes generations wrap in a few reuses; in `ipc` it is 3
(generations 1 and 2), and because thread ids are never reused a message is
identified even across a wrap. `MaxSends` and `MaxCodes` bound the messages and
scancodes of a behaviour, `...Steps` the calls of a part, `Budgets` the memory calls
and process calls of `memory`. In `memory`, 25 frames run out in the middle of the
second process, 81 never do; the pool of stacks and the free list of stacks run out
as well. The memory map has a reserved and a frame-buffer region between the usable
ones. `Hints` are a page of the heap and one above it, `Devices` the frames that
MMIO calls ask for: on both sides of the filter's limits. `Offsets` are 0, what the boot loader passes, and 1 for any other.

Fairness. In `Scheduler` and `Ipc`: weak fairness of the executing thread's steps,
because the CPU executes instructions and every system call path is a finite
sequence of these steps; strong fairness of the tick outside system calls, because
the timer is periodic, and `scheduler_tick` ignores it only while a thread is
inside a system call, which threads leave again and again. Nothing is assumed about
deadlines there: a timed sleep may end at any tick, or never.
`Waiting` has weak fairness of the tick and of each thread's turn: there deadlines
are exact, and the turn of a Ready thread is `ReadyRunsOnceStable`. `Shell` has weak
fairness of the shell's draining and of a child's pending write, for the same
reason. A child need not write or exit, a user need not type.

Deadlock is checked in the runs of the scheduler, the mailbox, IPC and the input. In
`input` only the keyboard can deadlock: the USB driver and the terminal may rest at
any time (`Rest`), as their bounded environments run dry. `memory` and `parts` may
stop when the budget of a behaviour is used up.

### Violations

Each is a disagreement between a comment in the code and what the code does; the
findings in `PROJECT.json` quote the comments.

* `scheduler_starvation`: an exit clears the current thread before `schedule()`,
  so the scan restarts at slot 0. While low slots keep producing exits, a Ready
  thread in a high slot is never chosen. `ReadyRunsOnceStable` is what remains
  true: without creation and removal of threads everybody runs. For the same reason
  `BlockedReceiverReturns` is about behaviours in which the thread queue stops changing.
* `scheduler_leak`: a tick between `set_current_thread(None)` and
  `without_interrupts` leaves a Terminated thread in the queue for ever.
* `keyboard_lost_wakeup`: a wake of a Running thread is not recorded, so IRQ1
  between the last look at the buffer and the sleep is lost. (`recv_blocking` is
  safe from this: messages come from other threads, and threads are not
  preempted inside system calls; `SleeperIsRegistered` shows it.) The mouse has the
  same window; `SleepingMouseReaderRegistered` says that a reader entered with
  `int 0x80` does not.
* `keyboard_irq_deadlock`: the handler waits for a Mutex its interrupted thread
  holds.
* `memory_reclaim`: with physical memory mapped at offset 0 the allocator cannot
  reach a freed frame to link it into its list, and drops it.
  `ReapedMemoryReturnsWithOffset` is what remains true.
* `pipe_eof`: nothing tells the pipe that a descriptor of its writing end was
  closed, so the reader sleeps on.

Some properties name the states they leave out, because the code does go wrong
there. `FramesHaveOneOwner`: when the pool of kernel stacks is exhausted and freed
frames are reused, `exec` frees its page table twice. `KernelStackHasOneUser`: a
stack from the free list may be smaller than its new user expects.
`RemoteFilesCounted`: after a wait for an answer timed out, or the service died, or a
call yielded under the lock; and of the handles it counts as lost it says only that
they are open. `ModulesIntact`: the pages on which one of two overlapping images is
ET_EXEC, because such an image goes to its link address whatever is there.
`PromisedPagesMapped`: the pages that a failed shared-page call named by a hint. `SectorIsTheOneAsked`: after a stray message was taken for
an answer, or the kernel's reads fell into a transfer of `disk.service`.
`ReadsMatchImage`: sparse files read by `fs.service`. `OneProcessPerService`: after
a service died. `LoneReaderWoken`: pipes with several readers.

## 4. Proofs

The proofs hold for every number of threads, slots, messages and for every
capacity, under the named assumptions on the constants listed at the end of this
section.

`SchedulerProofs` proves `SchedTypeOK`, `OneRunning`, `QueueHoldsThreads`,
`IdleRunnable`, `OffCpuResumable`, `SleeperHasEntry` and the action property
`RoundRobin`. None of the invariants is inductive alone: that a switch leaves one
Running thread needs the control points. The inductive invariant `IInv` adds
`ControlState`, which ties `pc`, `state`, `in_syscall` and `current` of the
executing thread together: a thread inside a system call has `in_syscall` set (so no
tick takes it off the CPU half way), an exiting thread is Terminated, and `current`
is the executing thread except between the last two steps of an exit. A thread can
execute, even in user mode, while it is marked Sleeping (its deadline passed before
`sleep_until` registered it); the invariant says that it then has an entry, so that
the tick that takes it off the CPU makes it Ready first. One step per action shows
that each preserves it. `RoundRobin` follows from `IInv` and the arithmetic of
`ScanDistance`. `IdleRunnable` is why a switch always finds a thread: an exit never
halts the machine.

`QueueProofs` proves two queues. Of a mailbox it proves `MailboxTypeOK`,
`SlotsPartitioned`, `NeverQuarantined` and
`FreeSlotsWiped` (a slot on the free list holds no message). `IInv` adds that `tail`
is the position after the last queued slot and that a scan has no more rounds left
than there are messages: without these a push could overwrite a queued slot number
and a scan could run past the end of the ring.

The refinement `MailboxRefinesQueue` maps the ring to the sequence of the messages
in its queued slots, head first. Every step of the two scanning loops is then a step
of `MessageQueue` or leaves it alone: a dequeue drops the head, an enqueue appends,
and moving a slot between ring and free list changes nothing but the slot itself.
`SlotsPartitioned` is what makes the mapping a function of the messages: writing to a
slot taken from the free list cannot touch a queued one.

Of sleeps and futexes it proves that a thread waits only with an entry, and the right
deadline, in the queue of whoever is to wake it (`SleepersQueued`), and FUTEX_WAIT returns SUCCESS exactly when a FUTEX_WAKE
counted it (`WakesAccounted`). `WaitIInv` adds that a thread about to
look at the clock has a deadline (`DeadlineKnown`), that a thread has at most one entry
in FUTEX_WAIT_QUEUE, and that a thread in FUTEX_WAIT is queued, timed out or
granted, and never two of these: without it a signal that wakes the thread early,
or a timeout on the tick of a wake-up, could make the loop mistake one for the
other.

`IpcSendProofs` (the invariant, senders, wake-ups, exits) and `ReceiveProofs` (receivers
and the theorems) prove `SleeperIsRegistered`, `WaiterIsReceiving` and
`NoLiveMessageDropped`. `IpcIInv` is the scheduler's `IInv` with the types and:
`OpControl`, a thread between two steps of a send, a receive or its exit executes, so
that nobody else runs in between; `GenerationsMatch`, a message whose addressee owns
the slot it lies in carries that slot's generation, and so does a send that has done
its lookup (this is where thread ids that are never reused are needed);
`WaitingRegistered`, a receiver about to sleep is registered with nothing in its
mailbox. `SleeperIsRegistered` is not inductive without the scheduler's invariant: a
wake-up that comes before the sleep must turn the sleep into a yield.

`ReceiveProofs` also proves `ScancodesInOrder` and `FifoLockHolderRuns` over the
scheduler's `IInv`. `KbdIInv` adds that a thread that holds the Mutex of a Fifo
executes, inside a system call and at a stage that neither sleeps nor yields, and that
no scancode read or buffered is newer than the newest one. That no thread is switched
out with the Mutex follows from the `in_syscall` test of the tick.

`SpawnProofs` proves `KernelStackHasOneUser` for every memory map, image and size of
the pool. `StackIInv` says that a stack has one place, one slot of the free list or
one running thread, and that stacks were cut from the pool one after the other, so
that two overlap only when one was recycled with a larger size than it was cut with.
What the page-table code does stays folded up: no operator of `Memory` touches the
pool, and the proof goes through the calls that do.

`ServiceProofs` proves two services.

* Sector I/O: `SectorIsTheOneAsked`. While nothing has been mixed up, `DiskIInv`
  follows one request through the service: the registers are those of the request
  from `write_lba28` to the last word, at most one request or answer of a client is
  on its way, and it is the one that client waits for. Once the kernel module cut
  into a transfer, or a client took a late answer for its own, the property claims
  nothing.
* The shell: all a child wrote is shown, in order, before the prompt returns
  (`ChildOutputComplete`). `ShellIInv` splits what was written into what is displayed,
  what waits in the mailbox and the chunk in the hands of a writer that waits for
  room; the notice of the exit is behind all of it.

`DeviceProofs` proves two devices.

* The mouse: a reader entered by `int 0x80` that sleeps is the registered one
  (`SleepingMouseReaderRegistered`). `MouseIInv` adds that only the reader on the CPU
  is inside the loop, that a registered reader that has looked finds the buffer empty
  until the registration is taken, and that nothing comes between registering and
  sleeping when interrupts are off.
* The network card: `VirtioFramesIntact`. `NetIInv` counts the descriptors that
  passed each queue since the start; every index is such a count, wrapped. Of the
  receive queue it says that the descriptors in circulation, from the oldest used one
  to the newest available one, are all different, so that neither a recycled buffer
  nor a wrapped ring entry can be another frame's, and that a used one still holds
  the frame received at its place. Of the transmit queue it says that all frames but
  at most one are on the wire, and that `tx_inflight` is set until the driver has
  seen the last one used. The proof rests on lemmas about remainders, and on one
  thing the driver does not check: that the queue size divides the range of the
  indices.

`PipeProofs` proves `RingIsQueue` and `LoneReaderWoken`, for every size of the ring, any table
and processes, and whatever the buffers hold. `PipeIInv` says of each pipe that the
places from `read_pos` on carry the queue, byte by byte around the end of the ring,
with `write_pos` behind the last (`Carries`); lemmas about `write_bytes` and
`read_bytes` take it through a call with several buffers, whose bytes are cut to the
room left. Both reference counts of a pipe in the table stay 1, as no close reaches
them, and a thread inside a read waits for a pipe that exists. This is what makes
the wake-up safe when another reader clears a lone reader's registration: it finds
the ring empty, too, registers itself, and the first reader is no longer alone.

The assumptions on the constants are those of the code: a thread number is not 0, the
mark of an empty entry (`WaiterConstants`, `ReaderConstants`, `PipeConstants`); tables and pools have
natural sizes, and there are finitely many threads (`SchedulerConstants`,
`MailboxConstants`, `KernelStackSizes`, `MaxPidAssumption`); a message is not the mark
for none (`MailboxConstants`, `IpcConstants`); a pipe's ring has at least one byte and
no buffer of a call is empty, as `readv` and `writev` skip those (`PipeConstants`); a
virtqueue is not empty, which
`setup_virtio_legacy_queue` checks, and its size divides 2^16, which legacy virtio asks
of the card (`VirtioConstants`). `Parts`
and `Input` extend the modules with proofs, so the properties their runs check are the
definitions the theorems name.

Only model-checked:
* liveness (`ReadyRunsOnceStable`, `BlockedReceiverReturns`, `TimedWaitsEnd`,
  `PromptReturns`), which is out of the prover's reach;
* what a fold over pages, segments, buffers or an image computes for every input,
  which takes induction over data: `FramesHaveOneOwner`, `ProcessHasOwnTable`,
  `PromisedPagesMapped`, `ForkCopies`, `ReapedMemoryReturnsWithOffset`,
  `ReadsMatchImage`, `ModulesIntact`, `ScreenShowsCells`, `RemoteFilesCounted`;
* the other properties of the parts without a proof: signals, USB, services,
  the terminal.

## 5. Not modelled

* The boot loader, the set-up of descriptor tables and of the kernel heap: they run
  once, before anything else does.
* Register contexts, CR3, FS/GS and the KPTI shadow of a process's table: machine
  code whose state these models do not have. TLBs: one CPU and one thread per
  process, and a switch reloads the table.
* Console output, logging, symbol look-up for panics, build tools: no state that
  anything depends on.
* Bytes of ELF, ext2, USB and network formats: fields of records here, with a
  verdict where the code checks them. Numbers keep what the properties tell apart:
  ring positions and indices wrap, addresses and sizes are small.
* Priorities, process groups and sessions: stored and returned, and nothing acts on
  them. Canonical mode of the console: no call that the kernel accepts sets it.
* Code that nothing calls: `block_current_thread`, `syscall/task.rs::exit`,
  `elf.rs::spawn_service`, `send_pages_from_kernel`, the shell's pending queue,
  `virtio.rs`, `pci.rs` and `util.rs` of the network driver.
* Controller reset of xHCI, PCI discovery, InitFS, and the built-in commands of the
  shell other than `export`.
* User programs and their libraries.
* The parts together: `Parts` and `Input` put modules side by side that share no state in the
  model. In the system they share the thread queue and the mailboxes, whose own
  behaviour is in `Scheduler` and `Ipc`; each part assumes of them what these show.
