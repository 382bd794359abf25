----------------------------- MODULE Scheduler -----------------------------
(* The thread queue (task/thread.rs) and the round-robin scheduler         *)
(* (task/scheduler.rs) of the kernel on its one CPU.                       *)
(*                                                                         *)
(* A step is what one thread, or one interrupt handler, does between two   *)
(* points where an interrupt may be taken: critical sections of SpinLock   *)
(* and without_interrupts blocks are atomic.  System calls are those made  *)
(* with SYSCALL, whose entry turns interrupts on; int 0x80 leaves them     *)
(* off, which only takes interleavings away.                               *)
(*                                                                         *)
(* `cpu' is the thread whose code the CPU executes; `current' is the       *)
(* per-CPU variable the kernel reads.  They differ only inside             *)
(* exit_current_task.                                                      *)
(*                                                                         *)
(* A thread is removed only by its own exit or fault: terminating another  *)
(* process takes Core privilege (caller_can_signal_target), which only the *)
(* kernel's own process has.                                               *)
EXTENDS Integers

CONSTANTS
    MAX_THREADS,   \* ThreadQueue::MAX_THREADS
    Tids,          \* thread ids
    NoThread,      \* an empty slot of the queue; `None' as a current thread
    Idle,          \* thread "core", which ends in the hlt loop of kernel_main
    CoreService,   \* the thread of core.service, which kernel_main starts
    TIME_SLICE,    \* ticks of a time slice
    GEN_WIDTH      \* slot generations are counted modulo this (2^64)

ASSUME SchedulerConstants ==
    /\ MAX_THREADS \in Nat
    /\ TIME_SLICE \in Nat \ {0}
    /\ GEN_WIDTH \in Nat /\ GEN_WIDTH > 1
    /\ MAX_THREADS > 1
    /\ Idle \in Tids
    /\ CoreService \in Tids \ {Idle}
    /\ NoThread \notin Tids

VARIABLES
    threads,           \* slot -> thread stored in it
    slot_generations,  \* slot -> number of times it was filled
    state,             \* thread -> its ThreadState, "Absent" when not stored
    pending_wakeup,    \* thread -> a wake came while it was Ready
    in_syscall,        \* thread -> dispatch is running for it
    sleep_queue,       \* thread -> its entry in SLEEP_QUEUE
    pc,                \* thread -> where its execution stands
    current,           \* percpu::current_thread_raw_id
    cpu,               \* the thread that executes
    current_slice      \* ticks used of the running time slice

schedVars == <<threads, slot_generations, state, pending_wakeup, in_syscall,
               sleep_queue, pc, current, cpu, current_slice>>

Slots == 0 .. MAX_THREADS - 1

ThreadState == {"Ready", "Running", "Blocked", "Sleeping", "Terminated"}

(* "user": outside the kernel (the idle thread: in its hlt loop);          *)
(* "syscall": executing a system call; "sleep": in the loop of             *)
(* sleep_until; "yield": about to call yield_now; "exit": Terminated,      *)
(* current not yet cleared; "exited": current cleared, the final switch    *)
(* not yet made; "none": no such thread.                                   *)
ControlPoint == {"user", "syscall", "sleep", "yield", "exit", "exited", "none"}

(* An entry of SLEEP_QUEUE whose deadline is to come, or had passed when   *)
(* it was made and is found by the next tick.                              *)
SleepEntry == {"none", "waiting", "past"}

SchedTypeOK ==
    /\ threads \in [Slots -> Tids \cup {NoThread}]
    /\ slot_generations \in [Slots -> 0 .. GEN_WIDTH - 1]
    /\ state \in [Tids -> ThreadState \cup {"Absent"}]
    /\ pending_wakeup \in [Tids -> BOOLEAN]
    /\ in_syscall \in [Tids -> BOOLEAN]
    /\ sleep_queue \in [Tids -> SleepEntry]
    /\ pc \in [Tids -> ControlPoint]
    /\ current \in Tids \cup {NoThread}
    /\ cpu \in Tids
    /\ current_slice \in 0 .. TIME_SLICE

(* kernel_main has started core.service and enters its idle loop.          *)
SchedInit ==
    /\ threads = [s \in Slots |-> CASE s = 0 -> Idle
                                    [] s = 1 -> CoreService
                                    [] OTHER -> NoThread]
    /\ slot_generations = [s \in Slots |-> IF s < 2 THEN 1 ELSE 0]
    /\ state = [t \in Tids |-> CASE t = Idle -> "Running"
                                 [] t = CoreService -> "Ready"
                                 [] OTHER -> "Absent"]
    /\ pending_wakeup = [t \in Tids |-> FALSE]
    /\ in_syscall = [t \in Tids |-> FALSE]
    /\ sleep_queue = [t \in Tids |-> "none"]
    /\ pc = [t \in Tids |-> IF t \in {Idle, CoreService} THEN "user" ELSE "none"]
    /\ current = Idle
    /\ cpu = Idle
    /\ current_slice = 0

-----------------------------------------------------------------------------
(* ThreadQueue *)

NextGeneration(g) ==
    LET n == (g + 1) % GEN_WIDTH IN IF n = 0 THEN 1 ELSE n

FirstEmpty(s) ==
    /\ threads[s] = NoThread
    /\ \A r \in 0 .. s - 1 : threads[r] # NoThread

(* push: the first empty slot takes the thread under a new generation.     *)
push(t) ==
    \E s \in Slots :
        /\ FirstEmpty(s)
        /\ threads' = [threads EXCEPT ![s] = t]
        /\ slot_generations' =
               [slot_generations EXCEPT ![s] = NextGeneration(@)]

SlotOf(t) == CHOOSE s \in Slots : threads[s] = t

(* Mutant: the slot keeps the removed thread.                              *)
removeNothing(q, t) == q

remove(q, t) == [s \in Slots |-> IF q[s] = t THEN NoThread ELSE q[s]]

(* How far the scan of peek_next_after is from slot s when it starts after *)
(* slot c: 0 for the next slot, MAX_THREADS - 1 for c itself.              *)
ScanDistance(s, c) ==
    IF s > c THEN s - c - 1 ELSE s - c - 1 + MAX_THREADS

ReadySlots(st) == {s \in Slots : threads[s] # NoThread /\ st[threads[s]] = "Ready"}

(* Mutant: every scan starts at slot 0, passing over the current thread.   *)
peek_from_zero(s, cur, st) ==
    LET others == {r \in ReadySlots(st) : threads[r] # cur}
    IN  s \in ReadySlots(st)
            /\ (others # {} => s \in others /\ \A r \in others : s <= r)

(* The slot peek_next_after picks; with no current thread, peek_next_mut's *)
(* scan from slot 0.                                                       *)
peek_next_after(s, cur, st) ==
    /\ s \in ReadySlots(st)
    /\ IF \E c \in Slots : threads[c] = cur /\ cur # NoThread
       THEN \E c \in Slots :
                /\ threads[c] = cur
                /\ \A r \in ReadySlots(st) :
                       ScanDistance(s, c) <= ScanDistance(r, c)
       ELSE \A r \in ReadySlots(st) : s <= r

-----------------------------------------------------------------------------
(* Scheduler *)

(* Mutant: the current thread stays Running.                               *)
RequeuedNobody(cur, st) == st

(* schedule(): the current thread goes back from Running to Ready.         *)
Requeued(cur, st) ==
    [t \in Tids |-> IF t = cur /\ st[t] = "Running" THEN "Ready" ELSE st[t]]

(* schedule() over the states st, and switch_to_thread to the thread it    *)
(* picks.  When no thread is Ready the caller keeps the CPU.               *)
Switch(cur, st) ==
    IF ReadySlots(st) = {}
    THEN /\ state' = st
         /\ UNCHANGED <<current, cpu, current_slice>>
    ELSE \E s \in Slots :
            /\ peek_next_after(s, cur, st)
            /\ state' = [st EXCEPT ![threads[s]] = "Running"]
            /\ current' = threads[s]
            /\ cpu' = threads[s]
            /\ current_slice' = 0

(* yield_now, called by the thread that executes.                          *)
yield_now ==
    /\ pc[cpu] = "yield"
    /\ Switch(current, Requeued(current, state))
    /\ pc' = [pc EXCEPT ![cpu] =
                 IF sleep_queue[cpu] = "waiting" THEN "sleep" ELSE "syscall"]
    /\ UNCHANGED <<threads, slot_generations, pending_wakeup, in_syscall,
                   sleep_queue>>

WakeState(st, t) ==
    IF st[t] \in {"Sleeping", "Blocked"} THEN [st EXCEPT ![t] = "Ready"] ELSE st

WakePending(st, p, t) ==
    IF st[t] = "Ready" THEN [p EXCEPT ![t] = TRUE] ELSE p

(* wake_thread, from a system call or from an interrupt handler.           *)
wake_thread(t) ==
    /\ state' = WakeState(state, t)
    /\ pending_wakeup' = WakePending(state, pending_wakeup, t)

(* sleep_thread_unless_woken for the executing thread: a recorded wake is  *)
(* consumed instead of sleeping.                                           *)
sleep_thread_unless_woken ==
    /\ pending_wakeup' = [pending_wakeup EXCEPT ![cpu] = FALSE]
    /\ state' = IF pending_wakeup[cpu] THEN state
                                       ELSE [state EXCEPT ![cpu] = "Sleeping"]

(* Mutant: a thread is preempted inside a system call.                     *)
TickGuardAlways == TRUE

(* scheduler_tick lets a time slice run on while its thread is in a system *)
(* call.                                                                   *)
TickGuard == current # NoThread => ~ in_syscall[current]

(* Mutant: the executing thread is not woken.                              *)
WokenStatesOfOthers(woken) ==
    [t \in Tids |-> IF t \in woken \ {cpu} /\ state[t] \in {"Sleeping", "Blocked"}
                    THEN "Ready" ELSE state[t]]

(* wake_due_sleepers: the threads whose deadline has come.                 *)
WokenStates(woken) ==
    [t \in Tids |-> IF t \in woken /\ state[t] \in {"Sleeping", "Blocked"}
                    THEN "Ready" ELSE state[t]]

WokenPending(woken) ==
    [t \in Tids |-> (t \in woken /\ state[t] = "Ready") \/ pending_wakeup[t]]

(* The timer interrupt: deadlines come due, then scheduler_tick,           *)
(* Scheduler::tick and schedule_and_switch.  `due' are the entries whose   *)
(* deadline this tick reaches.                                             *)
timer_interrupt(due) ==
    LET woken == due \cup {t \in Tids : sleep_queue[t] = "past"}
        st == WokenStates(woken)
    IN  /\ sleep_queue' = [t \in Tids |-> IF t \in woken THEN "none"
                                                         ELSE sleep_queue[t]]
        /\ pending_wakeup' = WokenPending(woken)
        /\ IF TickGuard /\ current_slice + 1 >= TIME_SLICE
           THEN Switch(current, Requeued(current, st))
           ELSE /\ state' = st
                /\ current_slice' = IF TickGuard THEN current_slice + 1
                                                 ELSE current_slice
                /\ UNCHANGED <<current, cpu>>
        /\ UNCHANGED <<threads, slot_generations, in_syscall, pc>>

-----------------------------------------------------------------------------
(* System calls and exceptions of the executing thread *)

(* syscall_handler_rust up to dispatch.                                    *)
syscall_enter ==
    /\ cpu # Idle
    /\ pc[cpu] = "user"
    /\ in_syscall' = [in_syscall EXCEPT ![cpu] = TRUE]
    /\ pc' = [pc EXCEPT ![cpu] = "syscall"]
    /\ UNCHANGED <<threads, slot_generations, state, pending_wakeup, current,
                   cpu, current_slice, sleep_queue>>

(* syscall_handler_rust after dispatch.                                    *)
syscall_return ==
    /\ pc[cpu] = "syscall"
    /\ in_syscall' = [in_syscall EXCEPT ![cpu] = FALSE]
    /\ pc' = [pc EXCEPT ![cpu] = "user"]
    /\ UNCHANGED <<threads, slot_generations, state, pending_wakeup, current,
                   cpu, current_slice, sleep_queue>>

(* A system call that gives the CPU away: sched_yield, sleep(0), and the   *)
(* polling loops of wait and of the file-system client.                    *)
sys_yield ==
    /\ pc[cpu] = "syscall"
    /\ pc' = [pc EXCEPT ![cpu] = "yield"]
    /\ UNCHANGED <<threads, slot_generations, state, pending_wakeup,
                   in_syscall, current, cpu, current_slice, sleep_queue>>

(* A system call that blocks, as recv_blocking does: the thread sleeps and *)
(* then yields, or the call returns when a wake was pending.  (The input   *)
(* calls look for data again first.)                                       *)
sys_sleep ==
    /\ pc[cpu] = "syscall"
    /\ sleep_thread_unless_woken
    /\ pc' = [pc EXCEPT ![cpu] = IF pending_wakeup[cpu] THEN "user" ELSE "yield"]
    /\ in_syscall' = [in_syscall EXCEPT ![cpu] = ~ pending_wakeup[cpu]]
    /\ UNCHANGED <<threads, slot_generations, current, cpu, current_slice,
                   sleep_queue>>

(* FUTEX_WAIT: registration, sleep and yield with interrupts off.          *)
futex_wait ==
    /\ pc[cpu] = "syscall"
    /\ Switch(current, [state EXCEPT ![cpu] = "Sleeping"])
    /\ UNCHANGED <<threads, slot_generations, pending_wakeup, in_syscall,
                   sleep_queue, pc>>

(* sleep_until: the entry is made and the thread put to sleep with         *)
(* interrupts off; the deadline may have passed since it was looked at.    *)
(* (A full SLEEP_QUEUE is EAGAIN, and changes nothing.)                    *)
sleep_until ==
    /\ pc[cpu] = "syscall"
    /\ \E e \in {"waiting", "past"} :
          sleep_queue' = [sleep_queue EXCEPT ![cpu] = e]
    /\ state' = [state EXCEPT ![cpu] = "Sleeping"]
    /\ pc' = [pc EXCEPT ![cpu] = "sleep"]
    /\ UNCHANGED <<threads, slot_generations, pending_wakeup, in_syscall,
                   current, cpu, current_slice>>

(* Its loop yields until the deadline, and then the system call returns,   *)
(* whatever state the thread is marked with.                               *)
sleep_until_loop ==
    /\ pc[cpu] = "sleep"
    /\ IF sleep_queue[cpu] = "waiting"
       THEN /\ pc' = [pc EXCEPT ![cpu] = "yield"]
            /\ UNCHANGED in_syscall
       ELSE /\ pc' = [pc EXCEPT ![cpu] = "user"]
            /\ in_syscall' = [in_syscall EXCEPT ![cpu] = FALSE]
    /\ UNCHANGED <<threads, slot_generations, state, pending_wakeup, current,
                   cpu, current_slice, sleep_queue>>

(* add_thread, from fork and from exec: the new thread is Ready and starts *)
(* in user mode.                                                           *)
add_thread(t) ==
    /\ state[t] = "Absent"
    /\ push(t)
    /\ state' = [state EXCEPT ![t] = "Ready"]
    /\ pc' = [pc EXCEPT ![t] = "user"]
    /\ UNCHANGED <<pending_wakeup, in_syscall, current, cpu, current_slice,
                   sleep_queue>>

sys_add_thread(t) ==
    /\ pc[cpu] = "syscall"
    /\ add_thread(t)

(* The thread's entry and everything kept in it disappear from the queue.  *)
(* (An entry of SLEEP_QUEUE stays behind, and wakes nobody.)               *)
Forget(t) ==
    /\ threads' = remove(threads, t)
    /\ pending_wakeup' = [pending_wakeup EXCEPT ![t] = FALSE]
    /\ in_syscall' = [in_syscall EXCEPT ![t] = FALSE]
    /\ sleep_queue' = [sleep_queue EXCEPT ![t] = "none"]
    /\ pc' = [pc EXCEPT ![t] = "none"]

(* exit_current_task, in the three pieces between which an interrupt can   *)
(* be taken: mark the thread, clear the current thread, and, with          *)
(* interrupts off, pick the next thread, drop this one and switch.         *)
exit_mark ==
    /\ pc[cpu] = "syscall"
    /\ state' = [state EXCEPT ![cpu] = "Terminated"]
    /\ pc' = [pc EXCEPT ![cpu] = "exit"]
    /\ UNCHANGED <<threads, slot_generations, pending_wakeup, in_syscall,
                   current, cpu, current_slice, sleep_queue>>

exit_clear_current ==
    /\ pc[cpu] = "exit"
    /\ current' = NoThread
    /\ pc' = [pc EXCEPT ![cpu] = "exited"]
    /\ UNCHANGED <<threads, slot_generations, state, pending_wakeup,
                   in_syscall, cpu, current_slice, sleep_queue>>

exit_switch ==
    /\ pc[cpu] = "exited"
    /\ Switch(NoThread, [state EXCEPT ![cpu] = "Absent"])
    /\ Forget(cpu)
    /\ UNCHANGED slot_generations

(* exit_current_process from an exception handler: the gate keeps          *)
(* interrupts off from the fault to the switch.                            *)
fault_exit ==
    /\ cpu # Idle
    /\ pc[cpu] = "user"
    /\ Switch(NoThread, [state EXCEPT ![cpu] = "Absent"])
    /\ Forget(cpu)
    /\ UNCHANGED slot_generations

(* A wake-up from whatever the thread may be waiting for, or from a signal *)
(* or a timer that finds it elsewhere.                                     *)
wake(t) ==
    /\ state[t] # "Absent"
    /\ wake_thread(t)
    /\ UNCHANGED <<threads, slot_generations, in_syscall, pc, current, cpu,
                   current_slice, sleep_queue>>

ThreadStep ==
    \/ yield_now
    \/ syscall_enter
    \/ syscall_return
    \/ sys_yield
    \/ sys_sleep
    \/ futex_wait
    \/ sleep_until
    \/ sleep_until_loop
    \/ exit_mark
    \/ exit_clear_current
    \/ exit_switch

tick == \E due \in SUBSET {t \in Tids : sleep_queue[t] = "waiting"} :
            timer_interrupt(due)

SchedNext ==
    \/ ThreadStep
    \/ tick
    \/ fault_exit
    \/ \E t \in Tids : sys_add_thread(t) \/ wake(t)

(* The running thread keeps executing its code: system calls are finite    *)
(* sequences of these steps.  A thread cannot spend every tick inside      *)
(* system calls, where scheduler_tick ignores it, so the tick is strongly  *)
(* fair.                                                                   *)
SchedFairness == WF_schedVars(ThreadStep) /\ SF_schedVars(TickGuard /\ tick)

SchedSpec == SchedInit /\ [][SchedNext]_schedVars /\ SchedFairness

-----------------------------------------------------------------------------
(* Properties *)

(* schedule() never leaves two threads Running, and a Running thread is    *)
(* both the per-CPU current thread and the one that executes, whatever     *)
(* wakes, ticks and exits come between its state changes.                  *)
OneRunning ==
    \A t \in Tids : state[t] = "Running" => current = t /\ cpu = t

(* The queue never holds a thread twice, and holds exactly the threads     *)
(* that exist: exit, fault and fork reuse slots without losing a thread.   *)
QueueHoldsThreads ==
    \A t \in Tids :
        /\ state[t] # "Absent" <=> \E s \in Slots : threads[s] = t
        /\ \A s, r \in Slots : threads[s] = t /\ threads[r] = t => s = r

(* schedule() always finds a thread: the idle thread of kernel_main stays  *)
(* runnable, so the halting branch at the end of exit_current_task and     *)
(* the return of yield_now to a sleeping caller are never taken.           *)
IdleRunnable ==
    /\ state[Idle] \in {"Ready", "Running"}
    /\ current # Idle => state[Idle] = "Ready"

(* A thread off the CPU that may be chosen, or woken, later stands at a    *)
(* point it can resume from, and it sleeps only inside a system call: no   *)
(* wake or tick catches it half way through a sleep or an exit.            *)
OffCpuResumable ==
    \A t \in Tids \ {cpu} :
        /\ state[t] = "Ready" => pc[t] \in {"user", "syscall", "sleep"}
        /\ state[t] = "Sleeping" => pc[t] \in {"syscall", "sleep"} /\ in_syscall[t]

(* No timed sleep is lost: a thread asleep in sleep_until still has its    *)
(* entry in SLEEP_QUEUE, wherever a tick fell between the registration,    *)
(* the sleep and the yield.                                                *)
SleeperHasEntry ==
    \A t \in Tids :
        state[t] = "Sleeping" /\ pc[t] = "sleep" => sleep_queue[t] # "none"

(* Each switch away from a live thread brings every other Ready thread     *)
(* closer to its turn: the scan of peek_next_after skips nobody.           *)
RoundRobinStep ==
    \A u \in Tids :
        (/\ current # NoThread
         /\ cpu' # cpu
         /\ state[cpu] # "Absent" /\ state'[cpu] # "Absent"
         /\ state[u] = "Ready"
         /\ state'[u] = "Ready"
         /\ u # cpu)
        => ScanDistance(SlotOf(u), SlotOf(cpu'))
               < ScanDistance(SlotOf(u), SlotOf(cpu))

RoundRobin == [][RoundRobinStep]_schedVars

(* Once no thread is created or removed any more, every Ready thread gets  *)
(* the CPU again and again: one that yields, sleeps, or runs for ever in   *)
(* user mode cannot keep it.                                               *)
ReadyRunsOnceStable ==
    <>[][FALSE]_threads => \A t \in Tids : []<>(state[t] # "Ready")

(* schedule() picks the Ready threads in turn (the comment on schedule):   *)
(* a Ready thread eventually leaves that state.                            *)
ReadyRuns == \A t \in Tids : []<>(state[t] # "Ready")

(* exit_current_task terminates the thread and removes it (its comment):   *)
(* a Terminated thread still in the queue is the one that executes, on its *)
(* way to the removal.                                                     *)
TerminatedIsRemoved ==
    \A t \in Tids : state[t] = "Terminated" => cpu = t

=============================================================================
