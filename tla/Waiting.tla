------------------------------ MODULE Waiting ------------------------------
(* Threads that wait inside a system call for the clock or for each other: *)
(* sleep_until and its SLEEP_QUEUE (syscall/time.rs), futex and its        *)
(* FUTEX_WAIT_QUEUE (syscall/process.rs), with the timer interrupt and     *)
(* with the wake-up of a signal (wake_first_thread_of in                   *)
(* syscall/signal.rs), which may come at any time.                         *)
(*                                                                         *)
(* A step is what a thread does up to its next yield_now, or one timer     *)
(* interrupt.  A deadline is kept as the number of ticks still to come, so *)
(* get_ticks() >= wake_tick is `0 ticks to come'.  A thread is "Ready"     *)
(* here whether or not it has the CPU; pending_wakeup is left out, since   *)
(* these calls sleep with sleep_thread, which does not look at it.         *)
EXTENDS Integers, FiniteSets

CONSTANTS
    Waiters,       \* thread ids; each queue has one slot per thread
    Words,         \* addresses of futex words
    MaxTimeout     \* the longest timeout used, in ticks

(* A thread id is not 0, which marks an empty slot.                        *)
ASSUME WaiterConstants ==
    0 \notin Waiters /\ Cardinality(Waiters) \in Nat /\ MaxTimeout \in Nat

VARIABLES
    ws,            \* thread -> Ready or Sleeping
    wpc,           \* thread -> "user", "check", "sleep" or "futex"
    due,           \* thread -> ticks to the end of its wait, or NO_TIMEOUT
    timed_out,     \* thread -> futex_timed_out
    sleepers,      \* SLEEP_QUEUE: thread -> ticks to come, or NONE
    futexq,        \* FUTEX_WAIT_QUEUE: slot -> entry or NONE
    word,          \* address -> the value stored there
    granted,       \* ghost: threads whose entry a FUTEX_WAKE removed
    result         \* thread -> what its last futex call returned

waitVars == <<ws, wpc, due, timed_out, sleepers, futexq, word, granted, result>>

NO_TIMEOUT == -1
NONE == [tid |-> 0]
Slot == 1 .. Cardinality(Waiters)

WaitInit ==
    /\ ws = [t \in Waiters |-> "Ready"]
    /\ wpc = [t \in Waiters |-> "user"]
    /\ due = [t \in Waiters |-> NO_TIMEOUT]
    /\ timed_out = [t \in Waiters |-> FALSE]
    /\ sleepers = [t \in Waiters |-> NO_TIMEOUT]
    /\ futexq = [i \in Slot |-> NONE]
    /\ word \in [Words -> {0}]
    /\ granted = {}
    /\ result = [t \in Waiters |-> "none"]

(* A thread runs when it is Ready.  One that goes on without a yield after *)
(* it was marked Sleeping still has the CPU, and runs too.                 *)
Runs(t, where) ==
    /\ wpc[t] = where
    /\ where \in {"sleep", "futex"} => ws[t] = "Ready"

futex_waiter_exists(q, t) == \E i \in Slot : q[i].tid = t

-----------------------------------------------------------------------------
(* register_sleep_entry takes the thread's own slot or an empty one; there *)
(* is one per thread.                                                      *)
register_sleep_entry(t, ticks) == [sleepers EXCEPT ![t] = ticks]

(* sleep_until, up to its look at the clock.  It returns at once when the  *)
(* tick has come.                                                          *)
sleep_until(t, ticks) ==
    /\ Runs(t, "user")
    /\ ticks > 0
    /\ due' = [due EXCEPT ![t] = ticks]
    /\ wpc' = [wpc EXCEPT ![t] = "check"]
    /\ UNCHANGED <<ws, timed_out, sleepers, futexq, word, granted, result>>

(* The rest of it, with interrupts off from the registration to the sleep. *)
(* Ticks may have come since the look at the clock: if the deadline has    *)
(* passed, the loop is over before its first yield, and the thread goes    *)
(* back to user mode marked Sleeping.                                      *)
sleep_registered(t) ==
    /\ Runs(t, "check")
    /\ sleepers' = register_sleep_entry(t, due[t])
    /\ ws' = [ws EXCEPT ![t] = "Sleeping"]
    /\ wpc' = [wpc EXCEPT ![t] = IF due[t] = 0 THEN "user" ELSE "sleep"]
    /\ due' = [due EXCEPT ![t] = IF @ = 0 THEN NO_TIMEOUT ELSE @]
    /\ UNCHANGED <<timed_out, futexq, word, granted, result>>

(* A turn of its loop: while the tick has not come the thread yields.      *)
SleepLoop(t) ==
    /\ Runs(t, "sleep")
    /\ due[t] = 0
    /\ wpc' = [wpc EXCEPT ![t] = "user"]
    /\ due' = [due EXCEPT ![t] = NO_TIMEOUT]
    /\ UNCHANGED <<ws, timed_out, sleepers, futexq, word, granted, result>>

(* Mutant: the entry always goes to the first slot.                        *)
RegisterInFirstSlot(t, a, d) ==
    [futexq EXCEPT ![1] = [tid |-> t, uaddr |-> a, wake_tick |-> d]]

(* register_futex_waiter: the first empty slot, one entry per thread.      *)
register_futex_waiter(t, a, d) ==
    IF futex_waiter_exists(futexq, t) \/ \A i \in Slot : futexq[i] # NONE THEN futexq
    ELSE LET i == CHOOSE i \in Slot : /\ futexq[i] = NONE
                                      /\ \A j \in 1 .. i - 1 : futexq[j] # NONE
         IN  [futexq EXCEPT ![i] = [tid |-> t, uaddr |-> a, wake_tick |-> d]]

(* FUTEX_WAIT up to its first yield, with interrupts off from the test of  *)
(* the word on.  A timeout of 0 is none; a tick may have come since        *)
(* wake_tick was computed.                                                 *)
futex_wait(t, a, val, timeout) ==
    /\ Runs(t, "user")
    /\ word[a] = val
    /\ \E d \in IF timeout = 0 THEN {NO_TIMEOUT} ELSE {timeout, timeout - 1} :
           LET q == register_futex_waiter(t, a, d)
           IN  /\ q # futexq
               /\ futexq' = q
               /\ due' = [due EXCEPT ![t] = d]
    /\ timed_out' = [timed_out EXCEPT ![t] = FALSE]
    /\ ws' = [ws EXCEPT ![t] = "Sleeping"]
    /\ wpc' = [wpc EXCEPT ![t] = "futex"]
    /\ result' = [result EXCEPT ![t] = "none"]
    /\ UNCHANGED <<sleepers, word, granted>>

(* FUTEX_WAIT that returns EAGAIN: the word has another value.             *)
futex_wait_again(t, a, val) ==
    /\ Runs(t, "user")
    /\ word[a] # val
    /\ timed_out' = [timed_out EXCEPT ![t] = FALSE]
    /\ result' = [result EXCEPT ![t] = "EAGAIN"]
    /\ UNCHANGED <<ws, wpc, due, sleepers, futexq, word, granted>>

RemoveEntry(t) == [i \in Slot |-> IF futexq[i].tid = t THEN NONE ELSE futexq[i]]

(* Mutant: the clock is looked at before the queue.                        *)
ClockBeforeQueue(t) ==
    CASE timed_out[t] \/ due[t] = 0 -> "ETIMEDOUT"
      [] ~futex_waiter_exists(futexq, t) -> "SUCCESS"
      [] OTHER -> "Continue"

(* What a turn of the loop after a wake-up finds: the timer took the entry *)
(* off, a FUTEX_WAKE did, the deadline has passed with the entry still     *)
(* there, or none of these.                                                *)
WaitResult(t) ==
    CASE timed_out[t] -> "ETIMEDOUT"
      [] ~timed_out[t] /\ ~futex_waiter_exists(futexq, t) -> "SUCCESS"
      [] ~timed_out[t] /\ futex_waiter_exists(futexq, t) /\ due[t] = 0 -> "ETIMEDOUT"
      [] OTHER -> "Continue"

(* That turn; the thread yields again, and nothing changes, on Continue.   *)
FutexLoop(t) ==
    /\ Runs(t, "futex")
    /\ WaitResult(t) # "Continue"
    /\ futexq' = IF ~timed_out[t] THEN RemoveEntry(t) ELSE futexq
    /\ timed_out' = [timed_out EXCEPT ![t] = FALSE]
    /\ wpc' = [wpc EXCEPT ![t] = "user"]
    /\ due' = [due EXCEPT ![t] = NO_TIMEOUT]
    /\ result' = [result EXCEPT ![t] = WaitResult(t)]
    /\ granted' = granted \ {t}
    /\ UNCHANGED <<ws, sleepers, word>>

(* FUTEX_WAKE: the first val entries of the address, in slot order, lose   *)
(* their slots and are woken.                                              *)
futex_wake(t, a, val) ==
    /\ Runs(t, "user")
    /\ LET hits == {i \in Slot : futexq[i] # NONE /\ futexq[i].uaddr = a}
           taken == {i \in hits : Cardinality({j \in hits : j < i}) < val}
           woken == {futexq[i].tid : i \in taken}
       IN  /\ woken # {}
           /\ futexq' = [i \in Slot |-> IF i \in taken THEN NONE ELSE futexq[i]]
           /\ timed_out' = [u \in Waiters |-> timed_out[u] /\ u \notin woken]
           /\ ws' = [u \in Waiters |-> IF u \in woken THEN "Ready" ELSE ws[u]]
           /\ granted' = granted \cup woken
    /\ UNCHANGED <<wpc, due, sleepers, word, result>>

(* User code writes the word before it wakes the waiters.                  *)
store(t, a, v) ==
    /\ Runs(t, "user")
    /\ word[a] # v
    /\ word' = [word EXCEPT ![a] = v]
    /\ UNCHANGED <<ws, wpc, due, timed_out, sleepers, futexq, granted, result>>

(* A signal wakes the thread whatever it waits for.                        *)
signal_wake(t) ==
    /\ ws[t] = "Sleeping"
    /\ ws' = [ws EXCEPT ![t] = "Ready"]
    /\ UNCHANGED <<wpc, due, timed_out, sleepers, futexq, word, granted, result>>

-----------------------------------------------------------------------------
Sooner(d) == IF d > 0 THEN d - 1 ELSE d

(* Mutant: an entry is due on the tick that equals its wake_tick only.     *)
DueExactly(before, q) == {i \in Slot : q[i] # NONE /\ before[i].wake_tick = 1}

(* The slots wake_due_futex_waiters empties.                               *)
DueFutexes(before, q) == {i \in Slot : q[i] # NONE /\ q[i].wake_tick = 0}

(* What wake_due_sleepers leaves of SLEEP_QUEUE.                           *)
wake_due_sleepers(sq) == [t \in Waiters |-> IF sq[t] = 0 THEN NO_TIMEOUT ELSE sq[t]]

(* The timer interrupt: wake_due_sleepers, then wake_due_futex_waiters.    *)
(* Ticks on which no deadline runs are left out.                           *)
tick ==
    LET sq == [t \in Waiters |-> Sooner(sleepers[t])]
        fq == [i \in Slot |-> IF futexq[i] = NONE THEN NONE
                              ELSE [futexq[i] EXCEPT !.wake_tick = Sooner(@)]]
        late == DueFutexes(futexq, fq)
        ended == {fq[i].tid : i \in late}
    IN  /\ \E t \in Waiters : due[t] > 0 \/ sleepers[t] = 0
                              \/ \E i \in Slot : futexq[i].tid = t /\ due[t] = 0
        /\ due' = [t \in Waiters |-> Sooner(due[t])]
        /\ sleepers' = wake_due_sleepers(sq)
        /\ futexq' = [i \in Slot |-> IF i \in late THEN NONE ELSE fq[i]]
        /\ timed_out' = [t \in Waiters |-> timed_out[t] \/ t \in ended]
        /\ ws' = [t \in Waiters |-> IF sq[t] = 0 \/ t \in ended THEN "Ready" ELSE ws[t]]
        /\ UNCHANGED <<wpc, word, granted, result>>

(* A thread goes on inside its call.                                       *)
Resume(t) == sleep_registered(t) \/ SleepLoop(t) \/ FutexLoop(t)

WaitNext ==
    \/ tick
    \/ \E t \in Waiters :
          \/ \E d \in 1 .. MaxTimeout : sleep_until(t, d)
          \/ \E a \in Words, v \in {0, 1} :
                \/ \E d \in 0 .. MaxTimeout : futex_wait(t, a, v, d)
                \/ futex_wait_again(t, a, v)
                \/ store(t, a, v)
                \/ futex_wake(t, a, v + 1)
          \/ signal_wake(t)
          \/ Resume(t)

WaitSpec == WaitInit /\ [][WaitNext]_waitVars

(* The timer ticks on, and a Ready thread gets its turn: every loop here   *)
(* yields, and schedule() goes round the Ready threads.                    *)
WaitFairness == WF_waitVars(tick) /\ \A t \in Waiters : WF_waitVars(Resume(t))

-----------------------------------------------------------------------------
(* Properties *)

(* A thread marked Sleeping is in the queue of whoever is to wake it, with *)
(* its own deadline: an entry taken off by the timer, by FUTEX_WAKE or by  *)
(* the thread itself never leaves its thread asleep.  A sleep_until that   *)
(* came back marked Sleeping, its tick having come before it registered,   *)
(* has left an entry that the very next tick takes, whatever the thread    *)
(* does until then.                                                        *)
SleepersQueued ==
    \A t \in Waiters : ws[t] = "Sleeping" =>
        CASE wpc[t] = "sleep" -> sleepers[t] > 0 /\ sleepers[t] = due[t]
          [] wpc[t] = "futex" -> futex_waiter_exists(futexq, t)
          [] OTHER -> sleepers[t] = 0

(* A FUTEX_WAIT returns SUCCESS exactly when a FUTEX_WAKE counted it, even *)
(* if the deadline passes, or a signal comes, between the wake-up and the  *)
(* moment the thread runs.                                                 *)
WakeStep ==
    \A t \in Waiters :
        wpc[t] = "futex" /\ wpc'[t] = "user" =>
            (result'[t] = "SUCCESS" <=> t \in granted)
WakesAccounted == [][WakeStep]_waitVars

(* A wait with a deadline ends: sleep_until and a FUTEX_WAIT with a        *)
(* timeout come back, whoever else waits, wakes or is signalled.           *)
TimedWait(t) == wpc[t] # "user" /\ due[t] # NO_TIMEOUT
TimedWaitsEnd == \A t \in Waiters : TimedWait(t) ~> wpc[t] = "user"
=============================================================================
