-------------------------- MODULE SchedulerProofs --------------------------
(* The scheduler never runs two threads, never loses one and never runs    *)
(* out of threads to run, for every queue size, every set of threads,      *)
(* every time slice and every generation width.                            *)
EXTENDS Scheduler, TLAPS

(* How the control point of a thread goes with its state.  The executing   *)
(* thread is the current one until exit_current_task has cleared it; only  *)
(* the executing thread stands before a yield or half way through an exit; *)
(* and one that executes marked Sleeping, as sleep_until may leave it, has *)
(* an entry by which the next tick finds it before it is switched out.     *)
ControlState ==
    /\ current = cpu \/ (current = NoThread /\ pc[cpu] = "exited")
    /\ pc[Idle] = "user"
    /\ \A t \in Tids :
        /\ pc[t] = "none" <=> state[t] = "Absent"
        /\ pc[t] \in {"exit", "exited"} <=> state[t] = "Terminated"
        /\ in_syscall[t] <=> pc[t] \in {"syscall", "sleep", "yield", "exit", "exited"}
        /\ pc[t] \in {"yield", "exit"} => cpu = t
        /\ state[t] # "Blocked"
        /\ t = cpu => state[t] # "Absent"
        /\ sleep_queue[t] = "waiting" => pc[t] \in {"sleep", "yield"}
        /\ pc[t] = "user" /\ state[t] = "Sleeping" => cpu = t
        /\ (/\ pc[t] = "sleep" \/ (t = cpu /\ pc[t] \in {"user", "syscall"})
            /\ state[t] = "Sleeping")
           => sleep_queue[t] # "none"

IInv ==
    /\ SchedTypeOK
    /\ OneRunning
    /\ QueueHoldsThreads
    /\ IdleRunnable
    /\ ControlState

LEMMA NextGenerationTyped ==
    ASSUME NEW g \in 0 .. GEN_WIDTH - 1
    PROVE  NextGeneration(g) \in 0 .. GEN_WIDTH - 1
<1> USE SchedulerConstants
<1>1. CASE g + 1 = GEN_WIDTH
  BY <1>1 DEF NextGeneration
<1>2. CASE g + 1 < GEN_WIDTH
  BY <1>2 DEF NextGeneration
<1> QED BY <1>1, <1>2

LEMMA InitIInv == SchedInit => IInv
<1> SUFFICES ASSUME SchedInit PROVE IInv
  OBVIOUS
<1> USE SchedulerConstants DEF SchedInit, Slots
<1>1. SchedTypeOK
  BY DEF SchedTypeOK, ThreadState, ControlPoint, SleepEntry
<1>2. OneRunning
  BY DEF OneRunning
<1>3. QueueHoldsThreads
  <2>1. 0 \in Slots /\ 1 \in Slots
    OBVIOUS
  <2> SUFFICES ASSUME NEW t \in Tids
               PROVE  /\ state[t] # "Absent" <=> \E s \in Slots : threads[s] = t
                      /\ \A s, r \in Slots : threads[s] = t /\ threads[r] = t => s = r
    BY DEF QueueHoldsThreads
  <2>2. threads[0] = Idle /\ threads[1] = CoreService
    BY <2>1
  <2>3. \A s \in Slots : s # 0 /\ s # 1 => threads[s] = NoThread
    OBVIOUS
  <2>4. state[t] # "Absent" <=> t \in {Idle, CoreService}
    OBVIOUS
  <2> QED BY <2>1, <2>2, <2>3, <2>4
<1>4. IdleRunnable
  BY DEF IdleRunnable
<1>5. ControlState
  BY DEF ControlState
<1> QED BY <1>1, <1>2, <1>3, <1>4, <1>5 DEF IInv

(* A thread off the CPU stands where it can resume, by its control point.  *)
LEMMA ControlImpliesResumable == IInv => OffCpuResumable
BY DEF IInv, SchedTypeOK, ControlPoint, ThreadState, ControlState, OffCpuResumable

(* What a switch does when the idle thread is among the Ready ones.        *)
LEMMA SwitchPicks ==
    ASSUME SchedTypeOK, QueueHoldsThreads,
           NEW cur, NEW st \in [Tids -> ThreadState \cup {"Absent"}],
           st[Idle] = "Ready", state[Idle] # "Absent",
           Switch(cur, st)
    PROVE  \E n \in Tids : /\ st[n] = "Ready"
                           /\ state' = [st EXCEPT ![n] = "Running"]
                           /\ current' = n /\ cpu' = n
                           /\ current_slice' = 0
<1> USE SchedulerConstants
<1>1. PICK i \in Slots : threads[i] = Idle
  BY DEF QueueHoldsThreads
<1>2. i \in ReadySlots(st)
  BY <1>1 DEF ReadySlots
<1>3. PICK s \in Slots : /\ peek_next_after(s, cur, st)
                         /\ state' = [st EXCEPT ![threads[s]] = "Running"]
                         /\ current' = threads[s]
                         /\ cpu' = threads[s]
                         /\ current_slice' = 0
  BY <1>2 DEF Switch
<1>4. threads[s] \in Tids /\ st[threads[s]] = "Ready"
  BY <1>3 DEF peek_next_after, ReadySlots, SchedTypeOK
<1> QED BY Zenon, <1>3, <1>4

(* schedule() over states st: nobody is Running any more and the idle      *)
(* thread is Ready.                                                        *)
LEMMA RequeuedStates ==
    ASSUME NEW st \in [Tids -> ThreadState \cup {"Absent"}],
           st[Idle] \in {"Ready", "Running"},
           \A t \in Tids : st[t] = "Running" => t = current
    PROVE  /\ Requeued(current, st) \in [Tids -> ThreadState \cup {"Absent"}]
           /\ Requeued(current, st)[Idle] = "Ready"
           /\ \A t \in Tids :
                 /\ Requeued(current, st)[t] # "Running"
                 /\ Requeued(current, st)[t] = (IF st[t] = "Running" THEN "Ready"
                                                                    ELSE st[t])
<1> USE SchedulerConstants
<1>1. \A t \in Tids :
          Requeued(current, st)[t] = IF st[t] = "Running" THEN "Ready" ELSE st[t]
  BY DEF Requeued
<1>2. Requeued(current, st) \in [Tids -> ThreadState \cup {"Absent"}]
  BY DEF Requeued, ThreadState
<1> QED BY <1>1, <1>2

(* The queue invariant only depends on the queue and on who exists.        *)
LEMMA QueueUnchanged ==
    ASSUME QueueHoldsThreads, threads' = threads,
           \A t \in Tids : state'[t] = "Absent" <=> state[t] = "Absent"
    PROVE  QueueHoldsThreads'
BY DEF QueueHoldsThreads

LEMMA YieldPreserves == ASSUME IInv, yield_now PROVE IInv'
<1> USE SchedulerConstants
<1> DEFINE st == Requeued(current, state)
<1>1. /\ Switch(current, st)
      /\ pc[cpu] = "yield"
      /\ pc' = [pc EXCEPT ![cpu] =
                   IF sleep_queue[cpu] = "waiting" THEN "sleep" ELSE "syscall"]
      /\ UNCHANGED <<threads, slot_generations, pending_wakeup, in_syscall,
                     sleep_queue>>
  BY DEF yield_now
<1>2. /\ st \in [Tids -> ThreadState \cup {"Absent"}] /\ st[Idle] = "Ready"
      /\ \A t \in Tids :
            /\ st[t] # "Running"
            /\ st[t] = IF state[t] = "Running" THEN "Ready" ELSE state[t]
  BY RequeuedStates DEF IInv, SchedTypeOK, IdleRunnable, OneRunning
<1>3. state[Idle] # "Absent"
  BY DEF IInv, IdleRunnable
<1> HIDE DEF st
<1>4. PICK n \in Tids : /\ st[n] = "Ready"
                        /\ state' = [st EXCEPT ![n] = "Running"]
                        /\ current' = n /\ cpu' = n /\ current_slice' = 0
  BY <1>1, <1>2, <1>3, SwitchPicks DEF IInv
<1>5. SchedTypeOK'
  BY <1>1, <1>2, <1>4 DEF IInv, SchedTypeOK, ThreadState, ControlPoint
<1>6. OneRunning'
  BY <1>2, <1>4 DEF OneRunning
<1>7. QueueHoldsThreads'
  <2>1. \A t \in Tids : state'[t] = "Absent" <=> state[t] = "Absent"
    BY <1>2, <1>4
  <2> QED BY <1>1, <2>1, QueueUnchanged DEF IInv
<1>8. IdleRunnable'
  BY <1>2, <1>4 DEF IdleRunnable
<1>9. ControlState'
  BY <1>1, <1>2, <1>4 DEF IInv, SchedTypeOK, ControlState
<1> QED BY <1>5, <1>6, <1>7, <1>8, <1>9 DEF IInv

(* FUTEX_WAIT gives the CPU away with its caller asleep.                   *)
LEMMA FutexPreserves == ASSUME IInv, futex_wait PROVE IInv'
<1> USE SchedulerConstants
<1> DEFINE st == [state EXCEPT ![cpu] = "Sleeping"]
<1>1. /\ Switch(current, st)
      /\ pc[cpu] = "syscall"
      /\ UNCHANGED <<threads, slot_generations, pending_wakeup, in_syscall,
                     sleep_queue, pc>>
  BY DEF futex_wait
<1>2. cpu \in Tids /\ cpu # Idle /\ state[cpu] # "Absent" /\ current = cpu
  BY <1>1 DEF IInv, SchedTypeOK, ControlState
<1>3. state[Idle] = "Ready"
  BY <1>2 DEF IInv, IdleRunnable
<1>4. /\ st \in [Tids -> ThreadState \cup {"Absent"}] /\ st[Idle] = "Ready"
      /\ \A t \in Tids :
            /\ st[t] # "Running"
            /\ st[t] = IF t = cpu THEN "Sleeping" ELSE state[t]
  BY <1>2, <1>3 DEF IInv, SchedTypeOK, OneRunning, ThreadState
<1> HIDE DEF st
<1>5. PICK n \in Tids : /\ st[n] = "Ready"
                        /\ state' = [st EXCEPT ![n] = "Running"]
                        /\ current' = n /\ cpu' = n /\ current_slice' = 0
  BY <1>1, <1>3, <1>4, SwitchPicks DEF IInv
<1>6. SchedTypeOK'
  BY <1>1, <1>4, <1>5 DEF IInv, SchedTypeOK, ThreadState
<1>7. OneRunning'
  BY <1>4, <1>5 DEF OneRunning
<1>8. QueueHoldsThreads'
  <2>1. \A t \in Tids : state'[t] = "Absent" <=> state[t] = "Absent"
    BY <1>2, <1>4, <1>5
  <2> QED BY <1>1, <2>1, QueueUnchanged DEF IInv
<1>9. IdleRunnable'
  BY <1>4, <1>5 DEF IdleRunnable
<1>10. ControlState'
  BY <1>1, <1>2, <1>4, <1>5 DEF IInv, SchedTypeOK, ControlState
<1> QED BY <1>6, <1>7, <1>8, <1>9, <1>10 DEF IInv

(* What the timer interrupt makes of the states before it schedules: the   *)
(* threads found in SLEEP_QUEUE wake, the others stay as they are.         *)
LEMMA WokenFacts ==
    ASSUME IInv, NEW woken \in SUBSET Tids
    PROVE  /\ WokenStates(woken) \in [Tids -> ThreadState \cup {"Absent"}]
           /\ WokenPending(woken) \in [Tids -> BOOLEAN]
           /\ \A t \in Tids :
                 WokenStates(woken)[t] =
                     IF t \in woken /\ state[t] = "Sleeping" THEN "Ready" ELSE state[t]
<1>1. \A t \in Tids : state[t] # "Blocked" /\ state[t] \in ThreadState \cup {"Absent"}
  BY DEF IInv, SchedTypeOK, ControlState
<1>2. \A t \in Tids :
          WokenStates(woken)[t] =
              IF t \in woken /\ state[t] = "Sleeping" THEN "Ready" ELSE state[t]
  BY <1>1 DEF WokenStates
<1>3. WokenStates(woken) \in [Tids -> ThreadState \cup {"Absent"}]
  BY <1>1 DEF WokenStates, ThreadState
<1>4. WokenPending(woken) \in [Tids -> BOOLEAN]
  <2>1. \A t \in Tids : pending_wakeup[t] \in BOOLEAN
    BY DEF IInv, SchedTypeOK
  <2>2. \A t \in Tids :
            ((t \in woken /\ state[t] = "Ready") \/ pending_wakeup[t]) \in BOOLEAN
    BY <2>1
  <2> QED BY <2>2 DEF WokenPending
<1> QED BY <1>2, <1>3, <1>4

LEMMA TickPreserves ==
    ASSUME IInv, NEW due \in SUBSET Tids, timer_interrupt(due) PROVE IInv'
<1> USE SchedulerConstants
<1> DEFINE woken == due \cup {t \in Tids : sleep_queue[t] = "past"}
           ws == WokenStates(woken)
           st == Requeued(current, ws)
<1>0. woken \in SUBSET Tids
  OBVIOUS
<1>1. /\ sleep_queue' = [t \in Tids |-> IF t \in woken THEN "none" ELSE sleep_queue[t]]
      /\ pending_wakeup' = WokenPending(woken)
      /\ UNCHANGED <<threads, slot_generations, in_syscall, pc>>
      /\ IF TickGuard /\ current_slice + 1 >= TIME_SLICE
         THEN Switch(current, st)
         ELSE /\ state' = ws
              /\ current_slice' = IF TickGuard THEN current_slice + 1
                                               ELSE current_slice
              /\ UNCHANGED <<current, cpu>>
  BY DEF timer_interrupt
<1>2. /\ ws \in [Tids -> ThreadState \cup {"Absent"}]
      /\ pending_wakeup' \in [Tids -> BOOLEAN]
      /\ \A t \in Tids :
            ws[t] = IF t \in woken /\ state[t] = "Sleeping" THEN "Ready" ELSE state[t]
  BY <1>0, <1>1, WokenFacts
<1>3. \A t \in Tids :
          /\ sleep_queue'[t] = IF t \in woken THEN "none" ELSE sleep_queue[t]
          /\ sleep_queue[t] = "past" => t \in woken
  BY <1>1
<1>4. sleep_queue' \in [Tids -> SleepEntry]
  BY <1>1 DEF IInv, SchedTypeOK, SleepEntry
<1>5. /\ ws[Idle] \in {"Ready", "Running"}
      /\ \A t \in Tids : ws[t] = "Running" => t = current
  BY <1>2 DEF IInv, IdleRunnable, OneRunning
<1> HIDE DEF woken, ws
<1>6. CASE ~ (TickGuard /\ current_slice + 1 >= TIME_SLICE)
  <2>1. /\ state' = ws
        /\ current_slice' \in {current_slice, current_slice + 1}
        /\ current_slice' = current_slice + 1 => TickGuard
        /\ UNCHANGED <<current, cpu>>
    BY <1>1, <1>6 DEF IInv, SchedTypeOK
  <2>2. current_slice' \in 0 .. TIME_SLICE
    BY <1>6, <2>1 DEF IInv, SchedTypeOK
  <2>3. SchedTypeOK'
    BY <1>1, <1>2, <1>4, <2>1, <2>2 DEF IInv, SchedTypeOK
  <2>4. QueueHoldsThreads'
    BY <1>1, <1>2, <2>1, QueueUnchanged DEF IInv
  <2>5. OneRunning' /\ IdleRunnable'
    BY <1>2, <2>1 DEF IInv, OneRunning, IdleRunnable
  <2>6. ControlState'
    BY <1>1, <1>2, <1>3, <2>1 DEF IInv, SchedTypeOK, ControlState
  <2> QED BY <2>3, <2>4, <2>5, <2>6 DEF IInv
<1>7. CASE TickGuard /\ current_slice + 1 >= TIME_SLICE
  <2>1. Switch(current, st)
    BY <1>1, <1>7
  <2>2. /\ st \in [Tids -> ThreadState \cup {"Absent"}] /\ st[Idle] = "Ready"
        /\ \A t \in Tids : /\ st[t] # "Running"
                            /\ st[t] = IF ws[t] = "Running" THEN "Ready" ELSE ws[t]
    BY <1>2, <1>5, RequeuedStates
  <2>3. state[Idle] # "Absent"
    BY DEF IInv, IdleRunnable
  <2> HIDE DEF st
  <2>4. PICK n \in Tids : /\ st[n] = "Ready"
                          /\ state' = [st EXCEPT ![n] = "Running"]
                          /\ current' = n /\ cpu' = n /\ current_slice' = 0
    BY <2>1, <2>2, <2>3, SwitchPicks DEF IInv
  <2>5. SchedTypeOK'
    BY <1>1, <1>2, <1>4, <2>2, <2>4 DEF IInv, SchedTypeOK, ThreadState
  <2>6. OneRunning'
    BY <2>2, <2>4 DEF OneRunning
  <2>7. QueueHoldsThreads'
    <3>1. \A t \in Tids : state'[t] = "Absent" <=> state[t] = "Absent"
      BY <1>2, <2>2, <2>4
    <3> QED BY <1>1, <3>1, QueueUnchanged DEF IInv
  <2>8. IdleRunnable'
    BY <2>2, <2>4 DEF IdleRunnable
  <2>9. cpu \in Tids /\ pc[cpu] \in {"user", "exited"}
    BY <1>7 DEF IInv, SchedTypeOK, ControlState, ControlPoint, TickGuard
  (* The thread switched out was found in SLEEP_QUEUE if it was Sleeping.  *)
  <2>10. ws[cpu] # "Sleeping"
    BY <1>2, <1>3, <2>9 DEF IInv, SchedTypeOK, SleepEntry, ControlState
  <2>11. ControlState'
    BY <1>1, <1>2, <1>3, <2>2, <2>4, <2>9, <2>10 DEF IInv, SchedTypeOK, ControlState
  <2> QED BY <2>5, <2>6, <2>7, <2>8, <2>11 DEF IInv
<1> QED BY <1>6, <1>7

(* ThreadQueue::remove takes the thread out of its slot and leaves the     *)
(* others where they are.                                                  *)
LEMMA RemoveFromQueue ==
    ASSUME SchedTypeOK, QueueHoldsThreads, NEW d \in Tids,
           threads' = remove(threads, d),
           state'[d] = "Absent",
           \A t \in Tids \ {d} : state'[t] = "Absent" <=> state[t] = "Absent"
    PROVE  QueueHoldsThreads' /\ threads' \in [Slots -> Tids \cup {NoThread}]
<1>1. threads' \in [Slots -> Tids \cup {NoThread}]
  BY DEF SchedTypeOK, remove
<1>2. \A s \in Slots : threads'[s] = IF threads[s] = d THEN NoThread ELSE threads[s]
  BY DEF remove
<1>3. QueueHoldsThreads'
  BY <1>2, SchedulerConstants DEF QueueHoldsThreads
<1> QED BY <1>1, <1>3

(* The executing thread leaves the queue and the CPU for good, at the end  *)
(* of exit_current_task or from an exception handler.                      *)
LEMMA DropExecuting ==
    ASSUME IInv, cpu # Idle,
           Switch(NoThread, [state EXCEPT ![cpu] = "Absent"]),
           Forget(cpu),
           slot_generations' = slot_generations,
           pc[cpu] \in {"user", "exited"}
    PROVE  IInv'
<1> USE SchedulerConstants
<1> DEFINE st == [state EXCEPT ![cpu] = "Absent"]
<1>1. cpu \in Tids
  BY DEF IInv, SchedTypeOK
<1>2. /\ st \in [Tids -> ThreadState \cup {"Absent"}]
      /\ \A t \in Tids : st[t] = IF t = cpu THEN "Absent" ELSE state[t]
      /\ \A t \in Tids : st[t] # "Running"
  BY <1>1 DEF IInv, SchedTypeOK, OneRunning
<1>3. state[Idle] = "Ready" /\ st[Idle] = "Ready"
  BY <1>1, <1>2 DEF IInv, IdleRunnable, ControlState
<1> HIDE DEF st
<1>4. PICK n \in Tids : /\ st[n] = "Ready"
                        /\ state' = [st EXCEPT ![n] = "Running"]
                        /\ current' = n /\ cpu' = n /\ current_slice' = 0
  BY Zenon, <1>2, <1>3, SwitchPicks DEF IInv, st
<1>5. /\ threads' = remove(threads, cpu)
      /\ pending_wakeup' = [pending_wakeup EXCEPT ![cpu] = FALSE]
      /\ in_syscall' = [in_syscall EXCEPT ![cpu] = FALSE]
      /\ sleep_queue' = [sleep_queue EXCEPT ![cpu] = "none"]
      /\ pc' = [pc EXCEPT ![cpu] = "none"]
  BY DEF Forget
<1>6. n # cpu
  BY <1>2, <1>4
<1>7. QueueHoldsThreads' /\ threads' \in [Slots -> Tids \cup {NoThread}]
  <2>1. state'[cpu] = "Absent"
    BY <1>1, <1>2, <1>4, <1>6
  <2>2. \A t \in Tids \ {cpu} : state'[t] = "Absent" <=> state[t] = "Absent"
    BY <1>2, <1>4
  <2> QED BY <1>1, <1>5, <2>1, <2>2, RemoveFromQueue DEF IInv
<1>8. SchedTypeOK'
  BY <1>1, <1>2, <1>4, <1>5, <1>7
     DEF IInv, SchedTypeOK, ThreadState, ControlPoint, SleepEntry
<1>9. OneRunning'
  BY <1>2, <1>4 DEF OneRunning
<1>10. IdleRunnable'
  BY <1>3, <1>2, <1>4 DEF IdleRunnable
<1>11. ControlState'
  BY <1>1, <1>2, <1>4, <1>5, <1>6 DEF IInv, SchedTypeOK, ControlState
<1> QED BY <1>7, <1>8, <1>9, <1>10, <1>11 DEF IInv

LEMMA AddPreserves ==
    ASSUME IInv, NEW a \in Tids, sys_add_thread(a) PROVE IInv'
<1> USE SchedulerConstants
<1>1. /\ state[a] = "Absent" /\ state' = [state EXCEPT ![a] = "Ready"]
      /\ pc' = [pc EXCEPT ![a] = "user"]
      /\ UNCHANGED <<pending_wakeup, in_syscall, sleep_queue, current, cpu,
                     current_slice>>
  BY DEF sys_add_thread, add_thread
<1>2. PICK s \in Slots :
          /\ threads[s] = NoThread
          /\ threads' = [threads EXCEPT ![s] = a]
          /\ slot_generations' =
                 [slot_generations EXCEPT ![s] = NextGeneration(slot_generations[s])]
  BY Zenon DEF sys_add_thread, add_thread, push, FirstEmpty
<1>3. slot_generations' \in [Slots -> 0 .. GEN_WIDTH - 1]
  <2>1. NextGeneration(slot_generations[s]) \in 0 .. GEN_WIDTH - 1
    BY NextGenerationTyped DEF IInv, SchedTypeOK
  <2> QED BY <1>2, <2>1 DEF IInv, SchedTypeOK
<1>4. SchedTypeOK'
  BY <1>1, <1>2, <1>3 DEF IInv, SchedTypeOK, ThreadState, ControlPoint
<1>5. QueueHoldsThreads'
  BY <1>1, <1>2 DEF IInv, SchedTypeOK, QueueHoldsThreads
<1>6. OneRunning'
  BY <1>1 DEF IInv, SchedTypeOK, OneRunning
<1>7. IdleRunnable'
  BY <1>1 DEF IInv, SchedTypeOK, IdleRunnable
<1>8. ControlState'
  BY <1>1 DEF IInv, SchedTypeOK, ControlState
<1> QED BY <1>4, <1>5, <1>6, <1>7, <1>8 DEF IInv

(* Steps of the executing thread that neither switch nor touch the queue.  *)
LEMMA LocalStepPreserves ==
    ASSUME IInv,
           \/ syscall_enter \/ syscall_return \/ sys_yield \/ sys_sleep
           \/ sleep_until \/ sleep_until_loop \/ exit_mark \/ exit_clear_current
    PROVE  IInv'
<1> USE SchedulerConstants DEF sleep_thread_unless_woken
<1>0. cpu \in Tids /\ (pc[cpu] # "user" => cpu # Idle)
  BY DEF IInv, SchedTypeOK, ControlState
<1>1. UNCHANGED <<threads, slot_generations, cpu, current_slice>>
  BY DEF syscall_enter, syscall_return, sys_yield, sys_sleep, sleep_until,
         sleep_until_loop, exit_mark, exit_clear_current
<1>2. cpu # Idle
  BY <1>0 DEF syscall_enter, syscall_return, sys_yield, sys_sleep, sleep_until,
              sleep_until_loop, exit_mark, exit_clear_current
<1>3. SchedTypeOK'
  <2>1. CASE sys_sleep
    <3>1. (~ pending_wakeup[cpu]) \in BOOLEAN
      BY <1>0 DEF IInv, SchedTypeOK
    <3>2. in_syscall' \in [Tids -> BOOLEAN]
      BY <3>1, <2>1, <1>0 DEF sys_sleep, IInv, SchedTypeOK
    <3> QED BY <1>0, <1>1, <2>1, <3>2 DEF IInv, SchedTypeOK, ThreadState, ControlPoint,
                                     sys_sleep
  <2>2. CASE sleep_until
    <3>1. sleep_queue' \in [Tids -> SleepEntry]
      BY <1>0, <2>2 DEF IInv, SchedTypeOK, SleepEntry, sleep_until
    <3>2. state' \in [Tids -> ThreadState \cup {"Absent"}]
      BY <1>0, <2>2 DEF IInv, SchedTypeOK, ThreadState, sleep_until
    <3>3. pc' \in [Tids -> ControlPoint]
      BY <1>0, <2>2 DEF IInv, SchedTypeOK, ControlPoint, sleep_until
    <3> QED BY <1>1, <2>2, <3>1, <3>2, <3>3 DEF IInv, SchedTypeOK, sleep_until
  <2>3. CASE sleep_until_loop
    BY Zenon, <1>0, <2>3 DEF IInv, SchedTypeOK, ControlPoint, sleep_until_loop
  <2>4. CASE syscall_enter \/ syscall_return \/ sys_yield \/ exit_mark
                           \/ exit_clear_current
    BY Zenon, <1>0, <2>4 DEF IInv, SchedTypeOK, ThreadState, ControlPoint, syscall_enter,
                      syscall_return, sys_yield, exit_mark, exit_clear_current
  <2> QED BY <2>1, <2>2, <2>3, <2>4
<1>4. /\ \A t \in Tids \ {cpu} : state'[t] = state[t] /\ pc'[t] = pc[t]
                                 /\ in_syscall'[t] = in_syscall[t]
      /\ state[cpu] # "Absent" /\ state'[cpu] # "Absent"
      /\ state'[cpu] = "Running" => state[cpu] = "Running" /\ current' = current
      /\ current' \in {current, NoThread}
  BY <1>0 DEF IInv, SchedTypeOK, ControlState, syscall_enter, syscall_return,
     sys_yield, sys_sleep, sleep_until, sleep_until_loop, exit_mark,
     exit_clear_current, OneRunning
<1>5. OneRunning'
  BY <1>0, <1>1, <1>4 DEF IInv, OneRunning
<1>6. QueueHoldsThreads'
  <2>1. \A t \in Tids : state'[t] = "Absent" <=> state[t] = "Absent"
    BY <1>4
  <2> QED BY <1>1, <2>1, QueueUnchanged DEF IInv
<1>7. IdleRunnable'
  BY ZenonT(30), <1>0, <1>2, <1>4 DEF IInv, IdleRunnable, ControlState
<1>8. ControlState'
  <2> USE DEF IInv, SchedTypeOK, ControlState
  <2>1. CASE syscall_enter
    BY <1>0, <1>2, <2>1 DEF syscall_enter
  <2>2. CASE syscall_return
    BY <1>0, <1>2, <2>2 DEF syscall_return
  <2>3. CASE sys_yield
    BY <1>0, <1>2, <2>3 DEF sys_yield
  <2>4. CASE sys_sleep
    BY <1>0, <1>2, <2>4 DEF sys_sleep
  <2>5. CASE sleep_until
    BY <1>0, <1>2, <2>5 DEF sleep_until
  <2>6. CASE sleep_until_loop
    BY <1>0, <1>2, <2>6 DEF sleep_until_loop
  <2>7. CASE exit_mark
    BY <1>0, <1>2, <2>7 DEF exit_mark
  <2>8. CASE exit_clear_current
    BY <1>0, <1>2, <2>8 DEF exit_clear_current
  <2> QED BY <2>1, <2>2, <2>3, <2>4, <2>5, <2>6, <2>7, <2>8
<1> QED BY <1>3, <1>5, <1>6, <1>7, <1>8 DEF IInv

(* A wake may come at any moment.                                          *)
LEMMA WakePreserves ==
    ASSUME IInv, NEW w \in Tids, wake(w) PROVE IInv'
<1> USE SchedulerConstants
<1>1. /\ state' = WakeState(state, w)
      /\ pending_wakeup' = WakePending(state, pending_wakeup, w)
      /\ UNCHANGED <<threads, slot_generations, in_syscall, sleep_queue, pc,
                     current, cpu, current_slice>>
  BY DEF wake, wake_thread
<1>2. \A t \in Tids : state'[t] = state[t]
                      \/ (t = w /\ state[t] = "Sleeping" /\ state'[t] = "Ready")
  BY <1>1 DEF IInv, SchedTypeOK, ControlState, WakeState
<1>3. SchedTypeOK'
  BY <1>1 DEF IInv, SchedTypeOK, ThreadState, WakeState, WakePending
<1>4. OneRunning'
  BY <1>1, <1>2 DEF IInv, OneRunning
<1>5. QueueHoldsThreads'
  <2>1. \A t \in Tids : state'[t] = "Absent" <=> state[t] = "Absent"
    BY <1>2
  <2> QED BY <1>1, <2>1, QueueUnchanged DEF IInv
<1>6. IdleRunnable'
  BY SMTT(30), <1>1, <1>2 DEF IInv, IdleRunnable
<1>7. ControlState'
  BY <1>1, <1>2 DEF IInv, SchedTypeOK, ControlState
<1> QED BY <1>3, <1>4, <1>5, <1>6, <1>7 DEF IInv

LEMMA NextIInv == IInv /\ [SchedNext]_schedVars => IInv'
<1> SUFFICES ASSUME IInv, [SchedNext]_schedVars PROVE IInv'
  OBVIOUS
<1>1. CASE ThreadStep
  <2>1. CASE yield_now
    BY <2>1, YieldPreserves
  <2>2. CASE futex_wait
    BY <2>2, FutexPreserves
  <2>3. CASE exit_switch
    <3>1. cpu # Idle
      BY <2>3 DEF exit_switch, IInv, ControlState
    <3> QED BY <2>3, <3>1, DropExecuting DEF exit_switch
  <2> QED BY <1>1, <2>1, <2>2, <2>3, LocalStepPreserves DEF ThreadStep
<1>2. CASE tick
  BY <1>2, TickPreserves DEF tick
<1>3. CASE fault_exit
  BY <1>3, DropExecuting DEF fault_exit
<1>4. ASSUME NEW t \in Tids, sys_add_thread(t) PROVE IInv'
  BY <1>4, AddPreserves
<1>5. ASSUME NEW t \in Tids, wake(t) PROVE IInv'
  BY <1>5, WakePreserves
<1>6. CASE UNCHANGED schedVars
  BY <1>6 DEF schedVars, IInv, SchedTypeOK, OneRunning, QueueHoldsThreads,
              IdleRunnable, ControlState
<1> QED BY <1>1, <1>2, <1>3, <1>4, <1>5, <1>6 DEF SchedNext

LEMMA SchedulerInvariant == SchedSpec => []IInv
BY InitIInv, NextIInv, PTL DEF SchedSpec

(* The variables of the scheduler keep their types; in particular slot     *)
(* generations wrap inside their width.                                    *)
THEOREM SchedulerTypes == SchedSpec => []SchedTypeOK
BY SchedulerInvariant, PTL DEF IInv

(* At most one thread is Running, and it is the one the CPU executes.      *)
THEOREM SchedulerOneRunning == SchedSpec => []OneRunning
BY SchedulerInvariant, PTL DEF IInv

(* The thread queue holds every existing thread in exactly one slot.       *)
THEOREM SchedulerQueue == SchedSpec => []QueueHoldsThreads
BY SchedulerInvariant, PTL DEF IInv

(* schedule() always finds a thread to run.                                *)
THEOREM SchedulerIdleRunnable == SchedSpec => []IdleRunnable
BY SchedulerInvariant, PTL DEF IInv

(* A thread that may be given the CPU stands at a point it can resume at.  *)
THEOREM SchedulerResumable == SchedSpec => []OffCpuResumable
BY SchedulerInvariant, ControlImpliesResumable, PTL

(* A thread asleep in sleep_until is found by a later tick.                *)
THEOREM SchedulerSleepers == SchedSpec => []SleeperHasEntry
<1>1. IInv => SleeperHasEntry
  BY DEF IInv, ControlState, SleeperHasEntry
<1> QED BY <1>1, SchedulerInvariant, PTL

-----------------------------------------------------------------------------
(* What the components on top of the scheduler do to it *)

(* Taking a registered waiter and waking it, if there is one; a wake for a *)
(* thread that has exited changes nothing.                                 *)
LEMMA WakeWaiterPreserves ==
    ASSUME IInv, NEW w \in Tids \cup {NoThread},
           IF w = NoThread THEN UNCHANGED <<state, pending_wakeup>> ELSE wake_thread(w),
           UNCHANGED <<threads, slot_generations, in_syscall, sleep_queue, pc,
                       current, cpu, current_slice>>
    PROVE  IInv'
<1>1. CASE w = NoThread \/ state[w] = "Absent"
  <2>1. UNCHANGED schedVars
    BY <1>1 DEF wake_thread, WakeState, WakePending, schedVars
  <2> QED BY <2>1, NextIInv
<1>2. CASE w # NoThread /\ state[w] # "Absent"
  <2>1. wake(w)
    BY <1>2 DEF wake
  <2> QED BY <1>2, <2>1, WakePreserves
<1> QED BY <1>1, <1>2

(* sleep_thread_unless_woken, then the yield unless a wake was pending.    *)
LEMMA SleepUnlessWokenPreserves ==
    ASSUME IInv, pc[cpu] = "syscall", sleep_thread_unless_woken,
           pc' = [pc EXCEPT ![cpu] = IF pending_wakeup[cpu] THEN "syscall" ELSE "yield"],
           UNCHANGED <<threads, slot_generations, in_syscall, sleep_queue,
                       current, cpu, current_slice>>
    PROVE  IInv'
<1>1. CASE pending_wakeup[cpu]
  <2>1. /\ UNCHANGED <<threads, slot_generations, state, in_syscall, sleep_queue, pc,
                       current, cpu, current_slice>>
        /\ pending_wakeup' = [pending_wakeup EXCEPT ![cpu] = FALSE]
    BY <1>1 DEF sleep_thread_unless_woken, IInv, SchedTypeOK
  <2> QED BY <2>1 DEF IInv, SchedTypeOK, OneRunning, QueueHoldsThreads, IdleRunnable,
                      ControlState
<1>2. CASE ~ pending_wakeup[cpu]
  <2>1. in_syscall' = [in_syscall EXCEPT ![cpu] = ~ pending_wakeup[cpu]]
    <3>1. cpu \in Tids /\ in_syscall \in [Tids -> BOOLEAN] /\ in_syscall[cpu]
      BY DEF IInv, SchedTypeOK, ControlState
    <3>2. in_syscall[cpu] = TRUE /\ (~ pending_wakeup[cpu]) = TRUE
      BY <1>2, <3>1
    <3>3. in_syscall = [in_syscall EXCEPT ![cpu] = in_syscall[cpu]]
      BY <3>1
    <3> QED BY Zenon, <3>2, <3>3
  <2>2. sys_sleep
    BY Zenon, <1>2, <2>1 DEF sys_sleep, sleep_thread_unless_woken
  <2> QED BY <2>2, LocalStepPreserves
<1> QED BY <1>1, <1>2

-----------------------------------------------------------------------------
(* Fairness of the scan *)

LEMMA SlotOfUnique ==
    ASSUME QueueHoldsThreads, NEW t \in Tids, NEW s \in Slots, threads[s] = t
    PROVE  SlotOf(t) = s
BY DEF QueueHoldsThreads, SlotOf

(* Going round from slot c, the first Ready slot n lies between c and any  *)
(* other Ready slot u, so u is nearer to n than to c.                      *)
LEMMA ScanComesNearer ==
    ASSUME NEW c \in Slots, NEW n \in Slots, NEW u \in Slots,
           n # c, u # c, u # n,
           ScanDistance(n, c) <= ScanDistance(u, c)
    PROVE  ScanDistance(u, n) < ScanDistance(u, c)
BY SchedulerConstants DEF Slots, ScanDistance

LEMMA SwitchIsRoundRobin ==
    ASSUME IInv, current # NoThread, cpu' # cpu,
           NEW st \in [Tids -> ThreadState \cup {"Absent"}], Switch(current, st),
           NEW u \in Tids, st[u] = "Ready", state'[u] = "Ready",
           state[u] = "Ready", u # cpu
    PROVE  ScanDistance(SlotOf(u), SlotOf(cpu')) < ScanDistance(SlotOf(u), SlotOf(cpu))
<1> USE SchedulerConstants
<1>1. /\ cpu \in Tids /\ current = cpu /\ state[cpu] # "Absent" /\ QueueHoldsThreads
      /\ threads \in [Slots -> Tids \cup {NoThread}]
  BY DEF IInv, SchedTypeOK, ControlState
<1>3. PICK us \in Slots : threads[us] = u
  BY DEF QueueHoldsThreads, IInv
<1>4. us \in ReadySlots(st)
  BY <1>3 DEF ReadySlots
<1>5. PICK n \in Slots : /\ peek_next_after(n, current, st)
                         /\ state' = [st EXCEPT ![threads[n]] = "Running"]
                         /\ cpu' = threads[n]
  BY <1>4 DEF Switch
<1>6. threads[n] \in Tids
  BY <1>1, <1>5 DEF peek_next_after, ReadySlots
<1>7. PICK c \in Slots :
          /\ threads[c] = current
          /\ \A r \in ReadySlots(st) : ScanDistance(n, c) <= ScanDistance(r, c)
  <2>1. \E c \in Slots : threads[c] = current /\ current # NoThread
    BY <1>1 DEF QueueHoldsThreads
  <2> QED BY <1>5, <2>1 DEF peek_next_after
<1>8. u # threads[n]
  BY <1>5, <1>6
<1>9. SlotOf(u) = us /\ SlotOf(cpu) = c /\ SlotOf(cpu') = n
  BY <1>1, <1>3, <1>5, <1>6, <1>7, SlotOfUnique
<1>10. n # c /\ us # c /\ us # n
  BY <1>1, <1>3, <1>5, <1>7, <1>8
<1> QED BY <1>4, <1>7, <1>9, <1>10, ScanComesNearer

(* Every switch away from a live thread brings every other Ready thread    *)
(* nearer to the CPU: peek_next_after passes nobody over.                  *)
THEOREM SchedulerRoundRobin == SchedSpec => RoundRobin
<1>1. IInv /\ [SchedNext]_schedVars => [RoundRobinStep]_schedVars
  <2> SUFFICES ASSUME IInv, SchedNext PROVE RoundRobinStep
    BY SMTT(30)
  <2> SUFFICES ASSUME NEW u \in Tids, current # NoThread, cpu' # cpu,
                      state[cpu] # "Absent", state'[cpu] # "Absent",
                      state[u] = "Ready", state'[u] = "Ready", u # cpu
               PROVE  ScanDistance(SlotOf(u), SlotOf(cpu'))
                          < ScanDistance(SlotOf(u), SlotOf(cpu))
    BY Zenon DEF RoundRobinStep
  <2>0. ASSUME NEW st \in [Tids -> ThreadState \cup {"Absent"}],
               Switch(current, Requeued(current, st)), st[u] = "Ready"
        PROVE  ScanDistance(SlotOf(u), SlotOf(cpu'))
                   < ScanDistance(SlotOf(u), SlotOf(cpu))
    <3>1. /\ Requeued(current, st) \in [Tids -> ThreadState \cup {"Absent"}]
          /\ Requeued(current, st)[u] = "Ready"
      BY <2>0 DEF Requeued, ThreadState
    <3> QED BY ZenonT(30), <2>0, <3>1, SwitchIsRoundRobin
  <2>1. CASE yield_now
    BY <2>0, <2>1 DEF yield_now, IInv, SchedTypeOK
  <2>2. CASE tick
    <3>1. PICK due \in SUBSET Tids : timer_interrupt(due)
      BY <2>2 DEF tick
    <3> DEFINE woken == due \cup {t \in Tids : sleep_queue[t] = "past"}
    <3>2. Switch(current, Requeued(current, WokenStates(woken)))
      BY <3>1 DEF timer_interrupt
    <3>3. /\ WokenStates(woken) \in [Tids -> ThreadState \cup {"Absent"}]
          /\ WokenStates(woken)[u] = "Ready"
      BY WokenFacts
    <3> QED BY <2>0, <3>2, <3>3
  <2>3. CASE futex_wait
    <3>1. /\ [state EXCEPT ![cpu] = "Sleeping"] \in [Tids -> ThreadState \cup {"Absent"}]
          /\ [state EXCEPT ![cpu] = "Sleeping"][u] = "Ready"
      BY DEF IInv, SchedTypeOK, ThreadState
    <3> QED BY Zenon, <2>3, <3>1, SwitchIsRoundRobin DEF futex_wait
  <2>4. ~ fault_exit /\ ~ exit_switch
    <3>1. ASSUME Switch(NoThread, [state EXCEPT ![cpu] = "Absent"]) PROVE FALSE
      <4>1. PICK n \in Slots :
              /\ threads[n] \in Tids
              /\ [state EXCEPT ![cpu] = "Absent"][threads[n]] = "Ready"
              /\ state' = [[state EXCEPT ![cpu] = "Absent"] EXCEPT ![threads[n]] = "Running"]
        BY ZenonT(30), <3>1 DEF Switch, peek_next_after, ReadySlots, IInv, SchedTypeOK
      <4> QED BY <4>1 DEF IInv, SchedTypeOK
    <3> QED BY <3>1 DEF fault_exit, exit_switch
  <2>5. CASE UNCHANGED cpu
    BY <2>5
  <2> QED BY <2>1, <2>2, <2>3, <2>4, <2>5
          DEF SchedNext, ThreadStep, syscall_enter, syscall_return, sys_yield,
              sys_sleep, sleep_until, sleep_until_loop, exit_mark, exit_clear_current, sys_add_thread, add_thread,
              wake
<1> QED BY <1>1, SchedulerInvariant, PTL DEF SchedSpec, RoundRobin

=============================================================================
