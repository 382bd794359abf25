------------------------------ MODULE Keyboard ------------------------------
(* The path of a scancode from IRQ1 to a reader: util/ps2kbd.rs,           *)
(* util/fifo.rs and syscall/keyboard.rs, on top of the scheduler.  The     *)
(* Fifo is guarded by a spin::Mutex, which leaves interrupts on, and       *)
(* system calls entered with SYSCALL run with interrupts on: IRQ1 can      *)
(* arrive between any two steps of a thread.                               *)
EXTENDS Scheduler, Sequences

CONSTANTS
    FIFO_CAP,   \* capacity of SCANCODE_BUF and of SCANCODE_TAP_BUF
    MaxCodes    \* bound: scancodes that arrive, numbered in their order

VARIABLES
    buf,        \* SCANCODE_BUF
    tap,        \* number of scancodes in SCANCODE_TAP_BUF
    buf_lock,   \* thread inside the Mutex of SCANCODE_BUF, or NoThread
    tap_lock,   \* thread inside the Mutex of SCANCODE_TAP_BUF, or NoThread
    kbd_waiter, \* KEYBOARD_WAITER
    kop,        \* thread -> the keyboard call it executes, and its stage
    codes,      \* scancodes that have arrived
    last_read,  \* the last scancode taken out of buf
    spinning    \* the IRQ1 handler waits for a Mutex

kbdOnly == <<buf, tap, buf_lock, tap_lock, kbd_waiter, kop, codes, last_read, spinning>>
kbdVars == <<schedVars, kbdOnly>>

NoCall == [call |-> "none", at |-> "none"]

KbdInit ==
    /\ SchedInit
    /\ buf = <<>> /\ tap = 0
    /\ buf_lock = NoThread /\ tap_lock = NoThread /\ kbd_waiter = NoThread
    /\ kop = [t \in Tids |-> NoCall]
    /\ codes = 0 /\ last_read = 0
    /\ spinning = FALSE

(* Mutant: the newest scancode comes out first.                            *)
push_fifo_front(q, x) == IF Len(q) >= FIFO_CAP THEN q ELSE <<x>> \o q

(* Fifo::push drops the value when the buffer is full.                     *)
push_fifo(q, x) == IF Len(q) >= FIFO_CAP THEN q ELSE Append(q, x)
push_tap(n) == IF n >= FIFO_CAP THEN n ELSE n + 1

(* The bound on scancodes, one reserved for an injection under way.        *)
MoreCodes ==
    codes + (IF \E t \in Tids : kop[t].at \in {"lock", "push"}
                                 /\ kop[t].call = "inject_scancode"
             THEN 1 ELSE 0) < MaxCodes

(* The thread on the CPU is at stage `at' of keyboard call `call'.         *)
At(call, at) ==
    ~ spinning /\ pc[cpu] = "syscall" /\ kop[cpu] = [call |-> call, at |-> at]

GoTo(at) == kop' = [kop EXCEPT ![cpu].at = at]
Return == kop' = [kop EXCEPT ![cpu] = NoCall]

-----------------------------------------------------------------------------
(* Interrupts *)

(* keyboard_interrupt_handler: push_scancode with interrupts off.  A Mutex *)
(* held by the interrupted thread is never released: the handler spins.    *)
keyboard_interrupt ==
    /\ ~ spinning
    /\ MoreCodes
    /\ codes' = codes + 1
    /\ buf' = IF buf_lock = NoThread THEN push_fifo(buf, codes + 1) ELSE buf
    /\ IF buf_lock = NoThread /\ tap_lock = NoThread
       THEN /\ tap' = push_tap(tap)
            /\ kbd_waiter' = NoThread
            /\ IF kbd_waiter = NoThread THEN UNCHANGED <<state, pending_wakeup>>
                                    ELSE wake_thread(kbd_waiter)
            /\ UNCHANGED spinning
       ELSE /\ spinning' = TRUE
            /\ UNCHANGED <<tap, kbd_waiter, state, pending_wakeup>>
    /\ UNCHANGED <<threads, slot_generations, in_syscall, sleep_queue, pc,
                   current, cpu, current_slice, buf_lock, tap_lock, kop, last_read>>

spin ==
    /\ spinning
    /\ UNCHANGED kbdVars

-----------------------------------------------------------------------------
(* System calls *)

start_call(c, first) ==
    /\ ~ spinning /\ pc[cpu] = "syscall" /\ kop[cpu] = NoCall
    /\ kop' = [kop EXCEPT ![cpu] = [call |-> c, at |-> first]]
    /\ UNCHANGED <<schedVars, buf, tap, buf_lock, tap_lock, kbd_waiter, codes,
                   last_read, spinning>>

sys_keyboard ==
    \/ start_call("read_char", "lock")
    \/ start_call("read_char_tap", "lock")
    \/ start_call("read_char_blocking", "register")
    \/ MoreCodes /\ start_call("inject_scancode", "lock")

register_waiter ==
    /\ At("read_char_blocking", "register")
    /\ kbd_waiter' = cpu
    /\ GoTo("lock")
    /\ UNCHANGED <<schedVars, buf, tap, buf_lock, tap_lock, codes, last_read,
                   spinning>>

lock_fifo ==
    /\ \/ /\ At("read_char", "lock") \/ At("read_char_blocking", "lock")
          /\ buf_lock = NoThread /\ buf_lock' = cpu
          /\ GoTo("pop") /\ UNCHANGED tap_lock
       \/ /\ At("inject_scancode", "lock")
          /\ buf_lock = NoThread /\ buf_lock' = cpu
          /\ GoTo("push") /\ UNCHANGED tap_lock
       \/ /\ At("read_char_tap", "lock")
          /\ tap_lock = NoThread /\ tap_lock' = cpu
          /\ GoTo("pop") /\ UNCHANGED buf_lock
       \/ /\ At("inject_scancode", "tap")
          /\ tap_lock = NoThread /\ tap_lock' = cpu
          /\ GoTo("push_tap") /\ UNCHANGED buf_lock
    /\ UNCHANGED <<schedVars, buf, tap, kbd_waiter, codes, last_read, spinning>>

(* pop_scancode; read_char_blocking also withdraws its registration when   *)
(* it found a scancode.                                                    *)
pop_scancode ==
    /\ At("read_char", "pop") \/ At("read_char_blocking", "pop")
    /\ buf_lock' = NoThread
    /\ IF buf = <<>>
       THEN /\ UNCHANGED <<buf, last_read, kbd_waiter>>
            /\ IF kop[cpu].call = "read_char" THEN Return ELSE GoTo("sleep")
       ELSE /\ buf' = Tail(buf)
            /\ last_read' = Head(buf)
            /\ kbd_waiter' = IF kop[cpu].call = "read_char_blocking" /\ kbd_waiter = cpu
                         THEN NoThread ELSE kbd_waiter
            /\ Return
    /\ UNCHANGED <<schedVars, tap, tap_lock, codes, spinning>>

pop_tap_scancode ==
    /\ At("read_char_tap", "pop")
    /\ tap_lock' = NoThread
    /\ tap' = IF tap = 0 THEN 0 ELSE tap - 1
    /\ Return
    /\ UNCHANGED <<schedVars, buf, buf_lock, kbd_waiter, codes, last_read, spinning>>

(* read_char_blocking: sleep and yield unless a wake is pending, then      *)
(* register again.                                                         *)
read_sleep ==
    /\ At("read_char_blocking", "sleep")
    /\ sleep_thread_unless_woken
    /\ pc' = [pc EXCEPT ![cpu] = IF pending_wakeup[cpu] THEN "syscall" ELSE "yield"]
    /\ GoTo("register")
    /\ UNCHANGED <<threads, slot_generations, in_syscall, sleep_queue,
                   current, cpu, current_slice, buf, tap, buf_lock, tap_lock, kbd_waiter, codes,
                   last_read, spinning>>

(* push_scancode called by inject_scancode: buf, tap, then the kbd_waiter.     *)
inject_push ==
    /\ At("inject_scancode", "push")
    /\ codes' = codes + 1
    /\ buf' = push_fifo(buf, codes + 1)
    /\ buf_lock' = NoThread
    /\ GoTo("tap")
    /\ UNCHANGED <<schedVars, tap, tap_lock, kbd_waiter, last_read, spinning>>

inject_push_tap ==
    /\ At("inject_scancode", "push_tap")
    /\ tap' = push_tap(tap)
    /\ tap_lock' = NoThread
    /\ GoTo("wake")
    /\ UNCHANGED <<schedVars, buf, buf_lock, kbd_waiter, codes, last_read, spinning>>

inject_wake ==
    /\ At("inject_scancode", "wake")
    /\ kbd_waiter' = NoThread
    /\ IF kbd_waiter = NoThread THEN UNCHANGED <<state, pending_wakeup>>
                            ELSE wake_thread(kbd_waiter)
    /\ Return
    /\ UNCHANGED <<threads, slot_generations, in_syscall, sleep_queue, pc,
                   current, cpu, current_slice, buf, tap, buf_lock, tap_lock, codes,
                   last_read, spinning>>

-----------------------------------------------------------------------------
(* The rest of the kernel, while the handler does not spin.  Threads are   *)
(* created and exit, outside the keyboard calls.                           *)
kbd_sched ==
    /\ ~ spinning
    /\ \/ yield_now
       \/ syscall_enter
       \/ tick
       \/ kop[cpu] = NoCall /\ (syscall_return \/ exit_mark)
       \/ exit_clear_current
       \/ exit_switch
       \/ fault_exit
       \/ \E t \in Tids : kop[cpu] = NoCall /\ sys_add_thread(t)
    /\ UNCHANGED kbdOnly

KbdNext ==
    \/ keyboard_interrupt
    \/ spin
    \/ sys_keyboard
    \/ register_waiter
    \/ lock_fifo
    \/ pop_scancode
    \/ pop_tap_scancode
    \/ read_sleep
    \/ inject_push
    \/ inject_push_tap
    \/ inject_wake
    \/ kbd_sched

KbdSpec == KbdInit /\ [][KbdNext]_kbdVars

-----------------------------------------------------------------------------
(* Properties *)

(* Scancodes come out in the order in which they went in: whatever mix of  *)
(* handler, injection and readers, none is duplicated or overtaken.        *)
ScancodesInOrder ==
    /\ \A i, j \in 1 .. Len(buf) : i < j => buf[i] < buf[j]
    /\ \A i \in 1 .. Len(buf) : buf[i] > last_read

(* A Mutex of the Fifos is only ever held by the thread on the CPU: no     *)
(* other thread can find it taken, and a thread that is switched out does  *)
(* not take it along.                                                      *)
FifoLockHolderRuns ==
    /\ buf_lock # NoThread => buf_lock = cpu
    /\ tap_lock # NoThread => tap_lock = cpu

(* "Register, check again, sleep" misses no scancode that arrives after    *)
(* the registration: a reader asleep while scancodes are buffered is       *)
(* still registered.                                                       *)
SleepingReaderRegistered ==
    \A t \in Tids :
        (/\ state[t] = "Sleeping" /\ kop[t].call = "read_char_blocking"
         /\ buf # <<>>)
        => kbd_waiter # NoThread

(* SCANCODE_BUF joins the interrupt handler and the system calls (its      *)
(* comment): the handler can always take the buffers' Mutexes and return.  *)
HandlerReturns == ~ spinning

=============================================================================
