--------------------------- MODULE IpcSendProofs ---------------------------
(* The inductive invariant of the IPC system calls, and that sending,      *)
(* exiting and the scheduler keep it.  Receiving, and the results, are in  *)
(* ReceiveProofs.                                                          *)
EXTENDS Ipc, SchedulerProofs


(* A message, however many have been sent.                                 *)
AnyMessage == [from : Tids, to : Tids, to_generation : 0 .. GEN_WIDTH - 1, n : Nat]

Operation == [call : {"none", "wait", "recv", "notify", "sigchld"}]
             \cup [call : {"send"}, to : Tids, slot : Slots,
                   generation : 0 .. GEN_WIDTH - 1]
             \cup [call : {"wake"}, to : Tids]

IpcTypeOK ==
    /\ mailbox \in [Slots -> Seq(AnyMessage)]
    /\ waiter \in [Slots -> Tids \cup {NoThread}]
    /\ op \in [Tids -> Operation]
    /\ got \in [Tids -> AnyMessage \cup [lost : AnyMessage] \cup {NoThread}]
    /\ parent \in [Tids -> Tids]
    /\ used \in SUBSET Tids
    /\ sends \in Nat

(* A thread between the two steps of a send, between the registration and  *)
(* the sleep of a receive, or announcing its exit, executes: nobody else   *)
(* gets the CPU before it is done.                                         *)
OpControl ==
    \A t \in Tids :
        /\ op[t].call \in {"send", "wake", "wait"} => t = cpu /\ pc[t] = "syscall"
        /\ op[t].call \in {"notify", "sigchld"} => t = cpu /\ pc[t] = "exit"
        /\ op[t].call = "recv" => pc[t] \in {"syscall", "yield"}
        /\ sleep_queue[t] = "none"

Registered(t) == waiter[SlotOf(t)] = t /\ mailbox[SlotOf(t)] = <<>>

(* A receiver about to sleep is registered, with nothing in its mailbox.   *)
WaitingRegistered == \A t \in Tids : op[t].call = "wait" => Registered(t)

(* Thread ids are not reused, so a message whose addressee owns the slot   *)
(* it lies in carries the generation of that slot.                         *)
GenerationsMatch ==
    /\ \A t \in Tids : state[t] # "Absent" => t \in used
    /\ \A s \in Slots : \A i \in 1 .. Len(mailbox[s]) :
          /\ mailbox[s][i].to \in used
          /\ threads[s] = mailbox[s][i].to
             => mailbox[s][i].to_generation = slot_generations[s]
    /\ \A t \in Tids : op[t].call = "send" =>
          /\ threads[op[t].slot] = op[t].to
          /\ op[t].generation = slot_generations[op[t].slot]

IpcIInv ==
    /\ IInv
    /\ IpcTypeOK
    /\ OpControl
    /\ WaitingRegistered
    /\ GenerationsMatch
    /\ SleeperIsRegistered
    /\ WaiterIsReceiving

-----------------------------------------------------------------------------
(* Slots *)

LEMMA SlotOfFacts ==
    ASSUME IInv, NEW t \in Tids, state[t] # "Absent"
    PROVE  /\ SlotOf(t) \in Slots /\ threads[SlotOf(t)] = t
           /\ \A s \in Slots : threads[s] = t => s = SlotOf(t)
BY DEF IInv, QueueHoldsThreads, SlotOf

LEMMA SlotChosen ==
    ASSUME NEW q, NEW t, NEW s \in Slots, q[s] = t,
           \A r \in Slots : q[r] = t => r = s
    PROVE  (CHOOSE r \in Slots : q[r] = t) = s
OBVIOUS

LEMMA SlotStays ==
    ASSUME IInv, IInv', NEW t \in Tids, state[t] # "Absent", threads'[SlotOf(t)] = t
    PROVE  SlotOf(t)' = SlotOf(t)
<1>1. \A r \in Slots : threads'[r] = t => r = SlotOf(t)
  BY SlotOfFacts DEF IInv, QueueHoldsThreads
<1>2. SlotOf(t) \in Slots
  BY SlotOfFacts
<1> HIDE DEF SlotOf
<1>3. (CHOOSE r \in Slots : threads'[r] = t) = SlotOf(t)
  BY <1>1, <1>2, SlotChosen
<1> QED BY <1>3 DEF SlotOf

-----------------------------------------------------------------------------
(* Steps of the scheduler, which leave the mailboxes alone *)

LEMMA SwitchSleepers ==
    ASSUME SchedTypeOK, NEW cur, NEW st \in [Tids -> ThreadState \cup {"Absent"}],
           Switch(cur, st), NEW t \in Tids
    PROVE  state'[t] = "Sleeping" => st[t] = "Sleeping"
<1>1. CASE ReadySlots(st) = {}
  BY <1>1 DEF Switch
<1>2. CASE ReadySlots(st) # {}
  <2>1. PICK s \in Slots : state' = [st EXCEPT ![threads[s]] = "Running"]
    BY <1>2 DEF Switch
  <2> QED BY <2>1
<1> QED BY <1>1, <1>2

(* A step of the scheduler puts nobody to sleep, moves no thread that      *)
(* stays to another slot, and takes the CPU from no thread inside a system *)
(* call or on its way out.                                                 *)
QuietStep ==
    /\ \A t \in Tids : /\ state'[t] = "Sleeping" => state[t] = "Sleeping"
                       /\ sleep_queue'[t] = "none"
    /\ \A s \in Slots : threads[s] = NoThread \/ threads'[s] = threads[s]
                        \/ (threads'[s] = NoThread /\ threads[s] = cpu /\ pc[cpu] = "exited")
    /\ \A s \in Slots : slot_generations'[s] = slot_generations[s]
                        \/ (threads[s] = NoThread /\ threads'[s] \notin used)
    /\ \A s \in Slots : threads[s] = NoThread /\ threads'[s] # NoThread
                        => threads'[s] \notin used /\ threads'[s] \in used'
    /\ \A t \in Tids : state'[t] # "Absent" => state[t] # "Absent" \/ t \in used'
    /\ used \subseteq used'

LEMMA TickIsQuiet ==
    ASSUME IpcIInv, tick, UNCHANGED used
    PROVE  QuietStep /\ (pc[cpu] \in {"syscall", "exit", "yield"} => cpu' = cpu) /\ pc' = pc
<1> USE DEF IpcIInv, IInv, SchedTypeOK
<1>1. PICK due \in SUBSET Tids : timer_interrupt(due)
  BY DEF tick
<1> DEFINE woken == due \cup {t \in Tids : sleep_queue[t] = "past"}
           ws == WokenStates(woken)
<1>2. /\ UNCHANGED <<threads, slot_generations, pc>>
      /\ sleep_queue' = [t \in Tids |-> IF t \in woken THEN "none" ELSE sleep_queue[t]]
      /\ IF TickGuard /\ current_slice + 1 >= TIME_SLICE
         THEN Switch(current, Requeued(current, ws))
         ELSE state' = ws /\ UNCHANGED cpu
  BY <1>1 DEF timer_interrupt
<1>3. /\ ws \in [Tids -> ThreadState \cup {"Absent"}]
      /\ \A t \in Tids :
            ws[t] = IF t \in woken /\ state[t] = "Sleeping" THEN "Ready" ELSE state[t]
  BY WokenFacts
<1>4. /\ Requeued(current, ws) \in [Tids -> ThreadState \cup {"Absent"}]
      /\ \A t \in Tids : Requeued(current, ws)[t] = "Sleeping" => ws[t] = "Sleeping"
  BY <1>3 DEF Requeued, ThreadState
<1>5. \A t \in Tids : sleep_queue'[t] = "none"
  BY <1>2 DEF OpControl
<1> HIDE DEF ws
<1>6. \A t \in Tids : state'[t] = "Sleeping" => ws[t] = "Sleeping"
  BY <1>2, <1>4, SwitchSleepers
<1>7. \A t \in Tids : state'[t] = "Sleeping" => state[t] = "Sleeping"
  BY <1>3, <1>6
<1>8. \A t \in Tids : state'[t] # "Absent" => state[t] # "Absent"
  BY TickPreserves, <1>1, <1>2 DEF QueueHoldsThreads
<1>9. QuietStep
  BY <1>2, <1>5, <1>7, <1>8 DEF QuietStep
<1>10. ASSUME pc[cpu] \in {"syscall", "exit", "yield"} PROVE cpu' = cpu
  <2>1. cpu \in Tids /\ current = cpu /\ in_syscall[cpu]
    BY <1>10 DEF ControlState
  <2> QED BY <1>2, <2>1, SchedulerConstants DEF TickGuard
<1> QED BY <1>2, <1>9, <1>10

LEMMA YieldIsQuiet ==
    ASSUME IpcIInv, yield_now, UNCHANGED used
    PROVE  /\ QuietStep /\ pc[cpu] = "yield"
           /\ pc' = [pc EXCEPT ![cpu] = "syscall"]
<1> USE DEF IpcIInv, IInv, SchedTypeOK
<1>1. /\ Switch(current, Requeued(current, state))
      /\ UNCHANGED <<threads, slot_generations, sleep_queue>>
      /\ pc[cpu] = "yield" /\ cpu \in Tids
      /\ pc' = [pc EXCEPT ![cpu] =
                   IF sleep_queue[cpu] = "waiting" THEN "sleep" ELSE "syscall"]
  BY DEF yield_now
<1>2. /\ Requeued(current, state) \in [Tids -> ThreadState \cup {"Absent"}]
      /\ \A t \in Tids : Requeued(current, state)[t] = "Sleeping" => state[t] = "Sleeping"
  BY DEF Requeued, ThreadState
<1>3. \A t \in Tids : state'[t] = "Sleeping" => state[t] = "Sleeping"
  BY Zenon, <1>1, <1>2, SwitchSleepers
<1>4. \A t \in Tids : state'[t] # "Absent" => state[t] # "Absent"
  BY YieldPreserves, <1>1 DEF QueueHoldsThreads
<1>5. QuietStep
  BY <1>1, <1>3, <1>4 DEF QuietStep, OpControl
<1> QED BY Zenon, <1>1, <1>5 DEF OpControl

LEMMA ExitIsQuiet ==
    ASSUME IpcIInv, exit_switch, UNCHANGED used
    PROVE  /\ QuietStep /\ pc[cpu] = "exited"
           /\ pc' = [pc EXCEPT ![cpu] = "none"]
<1> USE DEF IpcIInv, IInv, SchedTypeOK
<1>1. /\ Switch(NoThread, [state EXCEPT ![cpu] = "Absent"])
      /\ threads' = remove(threads, cpu)
      /\ sleep_queue' = [sleep_queue EXCEPT ![cpu] = "none"]
      /\ pc' = [pc EXCEPT ![cpu] = "none"]
      /\ UNCHANGED slot_generations
      /\ pc[cpu] = "exited" /\ cpu \in Tids /\ cpu # Idle
  BY SchedulerConstants DEF exit_switch, Forget, ControlState
<1>2. [state EXCEPT ![cpu] = "Absent"] \in [Tids -> ThreadState \cup {"Absent"}]
  OBVIOUS
<1>3. \A t \in Tids : state'[t] = "Sleeping" => state[t] = "Sleeping"
  BY ZenonT(30), <1>1, <1>2, SwitchSleepers
<1>4. \A s \in Slots : threads'[s] = IF threads[s] = cpu THEN NoThread ELSE threads[s]
  BY <1>1 DEF remove
<1>5. QueueHoldsThreads'
  BY <1>1, DropExecuting DEF exit_switch
<1>6. \A t \in Tids : state'[t] # "Absent" => state[t] # "Absent"
  BY <1>4, <1>5, SchedulerConstants DEF QueueHoldsThreads
<1>7. QuietStep
  BY <1>1, <1>3, <1>4, <1>6 DEF QuietStep, OpControl
<1> QED BY <1>1, <1>7

LEMMA AddIsQuiet ==
    ASSUME IpcIInv, NEW a \in Tids \ used, sys_add_thread(a), used' = used \cup {a}
    PROVE  QuietStep /\ cpu' = cpu /\ pc' = [pc EXCEPT ![a] = "user"]
<1> USE DEF IpcIInv, IInv, SchedTypeOK
<1>1. /\ state[a] = "Absent" /\ state' = [state EXCEPT ![a] = "Ready"]
      /\ pc' = [pc EXCEPT ![a] = "user"]
      /\ UNCHANGED <<sleep_queue, cpu>>
  BY DEF sys_add_thread, add_thread
<1>2. PICK s \in Slots :
          /\ threads[s] = NoThread
          /\ threads' = [threads EXCEPT ![s] = a]
          /\ slot_generations' =
                 [slot_generations EXCEPT ![s] = NextGeneration(slot_generations[s])]
  BY Zenon DEF sys_add_thread, add_thread, push, FirstEmpty
<1> QED BY <1>1, <1>2 DEF QuietStep, OpControl

LEMMA LocalIsQuiet ==
    ASSUME IpcIInv, UNCHANGED used,
           \/ syscall_enter \/ syscall_return \/ exit_mark \/ exit_clear_current
           \/ \E t \in Tids : wake(t)
    PROVE  QuietStep /\ cpu' = cpu
<1> USE DEF IpcIInv, IInv, SchedTypeOK
<1>1. UNCHANGED <<threads, slot_generations, sleep_queue, cpu>>
  BY DEF syscall_enter, syscall_return, exit_mark, exit_clear_current, wake
<1>2. \A t \in Tids : /\ state'[t] = "Sleeping" => state[t] = "Sleeping"
                      /\ state'[t] # "Absent" => state[t] # "Absent"
  BY DEF syscall_enter, syscall_return, exit_mark, exit_clear_current, wake, wake_thread,
         WakeState, ControlState
<1> QED BY <1>1, <1>2 DEF QuietStep, OpControl

(* Such a step keeps what is said of the mailboxes, of the messages in     *)
(* them and of the registrations.                                          *)
LEMMA QuietPreserves ==
    ASSUME IpcIInv, IInv', QuietStep, UNCHANGED <<mailbox, waiter, op>>,
           used' \in SUBSET Tids,
           \A t \in Tids : op[t].call = "send" => threads' = threads
    PROVE  GenerationsMatch' /\ SleeperIsRegistered'
<1> USE DEF IpcIInv, IpcTypeOK
<1>1. \A t \in Tids : state'[t] # "Absent" => t \in used'
  BY DEF QuietStep, GenerationsMatch
<1>2. ASSUME NEW s \in Slots, NEW i \in 1 .. Len(mailbox[s])
      PROVE  /\ mailbox[s][i].to \in used'
             /\ threads'[s] = mailbox[s][i].to
                => mailbox[s][i].to_generation = slot_generations'[s]
  <2>1. mailbox[s][i].to \in used /\ mailbox[s][i].to \in Tids
    BY DEF GenerationsMatch
  <2>2. CASE threads'[s] = mailbox[s][i].to
    <3>1. threads[s] = threads'[s]
      BY ZenonT(30), <2>1, <2>2, SchedulerConstants DEF QuietStep
    <3>2. slot_generations'[s] = slot_generations[s]
      BY <2>1, <2>2 DEF QuietStep
    <3>3. mailbox[s][i].to_generation = slot_generations[s]
      BY <2>2, <3>1 DEF GenerationsMatch
    <3> QED BY <2>1, <3>2, <3>3 DEF QuietStep
  <2> QED BY <2>1, <2>2 DEF QuietStep
<1>3. ASSUME NEW t \in Tids, op[t].call = "send"
      PROVE  /\ threads'[op[t].slot] = op[t].to
             /\ op[t].generation = slot_generations'[op[t].slot]
  <2>1. op[t].slot \in Slots /\ op[t].to \in Tids
    BY <1>3 DEF Operation
  <2>2. threads[op[t].slot] = op[t].to /\ op[t].generation = slot_generations[op[t].slot]
    BY <1>3 DEF GenerationsMatch
  <2> QED BY <1>3, <2>1, <2>2, SchedulerConstants DEF QuietStep
<1>4. GenerationsMatch'
  BY <1>1, <1>2, <1>3 DEF GenerationsMatch
<1>5. ASSUME NEW t \in Tids, state'[t] = "Sleeping", op[t].call = "recv", Registered(t)
      PROVE  Registered(t)'
  <2>1. state[t] = "Sleeping"
    BY <1>5 DEF QuietStep
  <2>2. SlotOf(t) \in Slots /\ threads[SlotOf(t)] = t
    BY <2>1, SlotOfFacts
  <2>3. PICK r \in Slots : threads'[r] = t
    BY <1>5 DEF IInv, QueueHoldsThreads
  <2>4. threads'[SlotOf(t)] = t
    <3>1. threads[r] = t
      BY ZenonT(60), <2>1, <2>3, SchedulerConstants DEF QuietStep, GenerationsMatch
    <3> QED BY <2>1, <2>3, <3>1, SlotOfFacts
  <2>5. SlotOf(t)' = SlotOf(t)
    BY <2>1, <2>4, SlotStays
  <2> QED BY <1>5, <2>5 DEF Registered
<1>6. SleeperIsRegistered'
  <2> SUFFICES ASSUME NEW t \in Tids, state'[t] = "Sleeping", op[t].call = "recv"
               PROVE  Registered(t)' \/ WakeInFlight(t)'
    BY DEF SleeperIsRegistered, Registered
  <2>1. state[t] = "Sleeping"
    BY DEF QuietStep
  <2>2. Registered(t) \/ WakeInFlight(t)
    BY <2>1 DEF SleeperIsRegistered, Registered
  <2> QED BY <1>5, <2>2 DEF WakeInFlight
<1> QED BY <1>4, <1>6

LEMMA QuietKeepsWaiting ==
    ASSUME IpcIInv, IInv', UNCHANGED <<mailbox, waiter, op>>,
           \A t \in Tids : op[t].call = "wait" => threads' = threads
    PROVE  WaitingRegistered'
<1> SUFFICES ASSUME NEW t \in Tids, op[t].call = "wait" PROVE Registered(t)'
  BY DEF WaitingRegistered
<1>1. Registered(t)
  BY DEF IpcIInv, WaitingRegistered
<1>2. SlotOf(t)' = SlotOf(t)
  BY DEF SlotOf
<1> QED BY <1>1, <1>2 DEF Registered

LEMMA SchedPartPreserves ==
    ASSUME IpcIInv,
           ipc_sched \/ ipc_return \/ ipc_exit_switch \/ ipc_tick
               \/ \E t \in Tids : ipc_add_thread(t) \/ ipc_wake(t)
    PROVE  IpcIInv'
<1> USE DEF ipc_sched, ipc_return, ipc_exit_switch, ipc_tick, ipc_add_thread, ipc_wake, ipcOnly
<1>0. cpu \in Tids
  BY DEF IpcIInv, IInv, SchedTypeOK
<1>1. IInv'
  <2>1. SchedNext
    BY DEF SchedNext, ThreadStep
  <2> QED BY <2>1, NextIInv DEF IpcIInv
<1>2. QuietStep
  BY TickIsQuiet, YieldIsQuiet, ExitIsQuiet, AddIsQuiet, LocalIsQuiet
<1>3. UNCHANGED <<mailbox, waiter, op, sends>>
  OBVIOUS
<1>4. got' = got \/ got' = [got EXCEPT ![cpu] = NoThread]
  OBVIOUS
<1>5. IpcTypeOK'
  <2>1. /\ parent' = parent \/ \E t \in Tids : parent' = [parent EXCEPT ![t] = cpu]
        /\ used' = used \/ \E t \in Tids : used' = used \cup {t}
    OBVIOUS
  <2>2. got' \in [Tids -> AnyMessage \cup [lost : AnyMessage] \cup {NoThread}]
    BY <1>4 DEF IpcIInv, IpcTypeOK
  <2>3. parent' \in [Tids -> Tids] /\ used' \in SUBSET Tids
    BY <1>0, <2>1 DEF IpcIInv, IpcTypeOK
  <2> QED BY <1>3, <2>2, <2>3 DEF IpcIInv, IpcTypeOK
<1>6. WaiterIsReceiving'
  <2>1. ASSUME NEW s \in Slots, waiter[s] # NoThread PROVE threads'[s] = threads[s]
    <3>1. waiter[s] \in Tids /\ threads[s] = waiter[s] /\ op[waiter[s]].call \in {"wait", "recv"}
      BY <2>1 DEF IpcIInv, IpcTypeOK, WaiterIsReceiving
    <3>2. pc[threads[s]] # "exited"
      BY SMTT(30), <3>1 DEF IpcIInv, OpControl
    <3> QED BY <1>2, <2>1, <3>1, <3>2 DEF QuietStep
  <2> QED BY <1>3, <2>1 DEF IpcIInv, WaiterIsReceiving
<1>7. ASSUME NEW t \in Tids, op[t].call \in {"send", "wait", "wake", "notify", "sigchld"}
      PROVE  cpu' = cpu /\ threads' = threads /\ pc'[t] = pc[t]
  <2>1. t = cpu /\ op[t] # NoOp /\ pc[t] = (IF op[t].call \in {"send", "wait", "wake"}
                                          THEN "syscall" ELSE "exit")
    BY SMTT(30), <1>7 DEF IpcIInv, OpControl, NoOp
  <2>2. ipc_tick \/ \E u \in Tids : ipc_wake(u)
    BY <2>1 DEF Idles, yield_now, syscall_enter, exit_clear_current, exit_switch
  <2>3. UNCHANGED <<threads, pc>>
    BY ZenonT(30), <2>2 DEF tick, timer_interrupt, wake
  <2> QED BY <2>1, <2>2, <2>3, TickIsQuiet DEF wake
<1>8. ASSUME NEW t \in Tids, op[t].call = "recv" PROVE pc'[t] \in {"syscall", "yield"}
  <2>1. pc[t] \in {"syscall", "yield"} /\ op[t] # NoOp /\ state[t] # "Absent"
    BY <1>8 DEF IpcIInv, IInv, ControlState, OpControl, NoOp
  <2>2. CASE yield_now
    BY ZenonT(30), <1>0, <2>1, <2>2 DEF yield_now, IpcIInv, IInv, SchedTypeOK, OpControl
  <2>3. CASE exit_switch
    BY <1>0, <2>1, <2>3 DEF exit_switch, Forget, IpcIInv, IInv, SchedTypeOK
  <2>4. CASE tick \/ \E u \in Tids : wake(u)
    BY ZenonT(30), <2>1, <2>4 DEF tick, timer_interrupt, wake
  <2>5. CASE \E u \in Tids : sys_add_thread(u)
    BY ZenonT(30), <2>1, <2>5 DEF sys_add_thread, add_thread, IpcIInv, IInv, SchedTypeOK
  <2>6. CASE syscall_enter \/ (Idles(cpu) /\ (exit_clear_current \/ syscall_return))
    BY <1>0, <2>1, <2>6 DEF Idles, syscall_enter, exit_clear_current, syscall_return,
                            IpcIInv, IInv, SchedTypeOK
  <2> QED BY <2>2, <2>3, <2>4, <2>5, <2>6
<1>9. OpControl'
  BY ZenonT(60), <1>2, <1>3, <1>7, <1>8 DEF IpcIInv, OpControl, QuietStep
<1>10. WaitingRegistered'
  BY Zenon, <1>1, <1>3, <1>7, QuietKeepsWaiting
<1>11. GenerationsMatch' /\ SleeperIsRegistered'
  BY <1>1, <1>2, <1>3, <1>5, <1>7, QuietPreserves DEF IpcTypeOK
<1> QED BY <1>1, <1>5, <1>6, <1>9, <1>10, <1>11 DEF IpcIInv

-----------------------------------------------------------------------------
(* Sending *)

LEMMA SlotFixed ==
    ASSUME threads' = threads, NEW t PROVE SlotOf(t)' = SlotOf(t)
BY DEF SlotOf

(* A thread that executes a system call of this module is not asleep.      *)
LEMMA CallerAwake ==
    ASSUME IpcIInv, pc[cpu] = "syscall"
    PROVE  /\ cpu \in Tids /\ cpu # NoThread /\ state[cpu] \notin {"Sleeping", "Absent"}
           /\ SlotOf(cpu) \in Slots /\ threads[SlotOf(cpu)] = cpu
           /\ \A t \in Tids : state[t] # "Absent" /\ SlotOf(t) = SlotOf(cpu) => t = cpu
<1>1. cpu \in Tids /\ cpu # NoThread /\ state[cpu] \notin {"Sleeping", "Absent"}
  BY SchedulerConstants DEF IpcIInv, IInv, SchedTypeOK, ControlState, OpControl
<1>2. SlotOf(cpu) \in Slots /\ threads[SlotOf(cpu)] = cpu
  BY <1>1, SlotOfFacts DEF IpcIInv
<1>3. \A t \in Tids : state[t] # "Absent" => threads[SlotOf(t)] = t
  BY SlotOfFacts DEF IpcIInv
<1> QED BY <1>1, <1>2, <1>3

(* While the running thread is inside no system call nobody is about to    *)
(* wake, and whoever is registered is another thread.                      *)
LEMMA NobodyElseActs ==
    ASSUME IpcIInv, op[cpu] = NoOp
    PROVE  /\ \A u \in Tids : op[u].call \notin {"send", "wake", "wait"}
           /\ \A r \in Slots : waiter[r] # NoThread => waiter[r] \in Tids \ {cpu}
<1>1. op[cpu].call = "none"
  BY DEF NoOp
<1>2. \A u \in Tids : op[u].call \in {"send", "wake", "wait"} => u = cpu
  BY Zenon DEF IpcIInv, OpControl
<1>3. \A r \in Slots : waiter[r] # NoThread => op[waiter[r]].call \in {"wait", "recv"}
  BY Zenon DEF IpcIInv, WaiterIsReceiving
<1>4. \A r \in Slots : waiter[r] \in Tids \cup {NoThread}
  BY DEF IpcIInv, IpcTypeOK
<1> QED BY <1>1, <1>2, <1>3, <1>4

LEMMA LookupPreserves ==
    ASSUME IpcIInv, NEW d \in Tids, send_lookup(d) PROVE IpcIInv'
<1> DEFINE o == [call |-> "send", to |-> d, slot |-> SlotOf(d),
                 generation |-> slot_generations[SlotOf(d)]]
<1>1. /\ UNCHANGED <<schedVars, mailbox, waiter, got, parent, used, sends>>
      /\ op' = [op EXCEPT ![cpu] = o]
      /\ pc[cpu] = "syscall" /\ op[cpu] = NoOp /\ state[d] # "Absent"
  BY DEF send_lookup, Exists, Idles
<1>2. UNCHANGED <<threads, slot_generations, state, pc, cpu, sleep_queue>>
  BY <1>1 DEF schedVars
<1>3. /\ cpu \in Tids /\ SlotOf(d) \in Slots /\ threads[SlotOf(d)] = d
      /\ slot_generations[SlotOf(d)] \in 0 .. GEN_WIDTH - 1
  BY <1>1, SlotOfFacts DEF IpcIInv, IInv, SchedTypeOK
<1>4. IInv'
  BY <1>1, NextIInv DEF IpcIInv
<1>5. \A t \in Tids : op'[t] = IF t = cpu THEN o ELSE op[t]
  BY <1>1, <1>3 DEF IpcIInv, IpcTypeOK
<1>6. IpcTypeOK'
  <2>1. o \in Operation
    BY <1>3 DEF Operation
  <2>2. op' \in [Tids -> Operation]
    BY Zenon, <1>1, <2>1 DEF IpcIInv, IpcTypeOK
  <2> QED BY <1>1, <2>2 DEF IpcIInv, IpcTypeOK
<1>7. OpControl'
  BY <1>1, <1>2, <1>5 DEF IpcIInv, OpControl
<1>8. WaitingRegistered'
  BY SMTT(30), <1>1, <1>2, <1>5, SlotFixed DEF IpcIInv, WaitingRegistered, Registered
<1>9. GenerationsMatch'
  BY SMTT(30), <1>1, <1>2, <1>3, <1>5 DEF IpcIInv, GenerationsMatch
<1>10. SleeperIsRegistered'
  <2> SUFFICES ASSUME NEW t \in Tids, state[t] = "Sleeping", op'[t].call = "recv"
               PROVE  Registered(t)' \/ WakeInFlight(t)'
    BY <1>2 DEF SleeperIsRegistered, Registered
  <2>1. op[t].call = "recv" /\ op[cpu].call = "none"
    BY <1>1, <1>5 DEF NoOp
  <2>2. Registered(t) => Registered(t)'
    BY <1>1, <1>2, SlotFixed DEF Registered
  <2>3. WakeInFlight(t) => WakeInFlight(t)'
    BY <1>5, <2>1 DEF WakeInFlight
  <2> QED BY <2>1, <2>2, <2>3 DEF IpcIInv, SleeperIsRegistered, Registered
<1>11. WaiterIsReceiving'
  <2>3. \A u \in Tids : op'[u].call # "wake"
    BY <1>1, <1>5, NobodyElseActs
  <2>4. \A r \in Slots : waiter[r] # NoThread => op'[waiter[r]] = op[waiter[r]]
    BY <1>1, <1>5, NobodyElseActs
  <2> QED BY Zenon, <1>1, <1>2, <2>3, <2>4 DEF IpcIInv, WaiterIsReceiving
<1> QED BY <1>4, <1>6, <1>7, <1>8, <1>9, <1>10, <1>11 DEF IpcIInv

(* What a send, of either kind, does to the mailbox of slot s.             *)
LEMMA PushFacts ==
    ASSUME IpcIInv, NEW s \in Slots, NEW m \in AnyMessage,
           threads[s] = m.to, m.to_generation = slot_generations[s],
           mailbox' = [mailbox EXCEPT ![s] = Append(@, m)],
           UNCHANGED <<threads, slot_generations, used>>
    PROVE  /\ mailbox' \in [Slots -> Seq(AnyMessage)]
           /\ \A r \in Slots : \A i \in 1 .. Len(mailbox'[r]) :
                 /\ mailbox'[r][i].to \in used'
                 /\ threads'[r] = mailbox'[r][i].to
                    => mailbox'[r][i].to_generation = slot_generations'[r]
           /\ \A r \in Slots : Messages(mailbox[r]) \subseteq Messages(mailbox'[r])
<1> USE DEF IpcIInv, IpcTypeOK
<1>1. /\ mailbox'[s] = Append(mailbox[s], m)
      /\ \A r \in Slots \ {s} : mailbox'[r] = mailbox[r]
      /\ mailbox[s] \in Seq(AnyMessage)
  OBVIOUS
<1>2. /\ Append(mailbox[s], m) \in Seq(AnyMessage)
      /\ Len(Append(mailbox[s], m)) = Len(mailbox[s]) + 1
      /\ \A i \in 1 .. Len(mailbox[s]) + 1 :
            Append(mailbox[s], m)[i] = IF i \in 1 .. Len(mailbox[s]) THEN mailbox[s][i] ELSE m
      /\ DOMAIN mailbox[s] = 1 .. Len(mailbox[s])
      /\ DOMAIN Append(mailbox[s], m) = 1 .. Len(mailbox[s]) + 1
      /\ Len(mailbox[s]) \in Nat
  BY SMTT(30), <1>1
<1>3. m.to \in used
  BY DEF GenerationsMatch, IInv, SchedTypeOK, QueueHoldsThreads, AnyMessage
<1>4. ASSUME NEW r \in Slots, NEW i \in 1 .. Len(mailbox'[r])
      PROVE  /\ mailbox'[r][i].to \in used'
             /\ threads'[r] = mailbox'[r][i].to
                => mailbox'[r][i].to_generation = slot_generations'[r]
  <2>1. CASE r # s
    <3>1. mailbox'[r] = mailbox[r]
      BY <1>1, <2>1
    <3> QED BY ZenonT(60), <3>1 DEF GenerationsMatch
  <2>2. CASE r = s
    <3>1. mailbox'[r][i] = m \/ (i \in 1 .. Len(mailbox[r]) /\ mailbox'[r][i] = mailbox[r][i])
      BY <1>1, <1>2, <2>2
    <3> QED BY ZenonT(30), <1>3, <2>2, <3>1 DEF GenerationsMatch
  <2> QED BY <2>1, <2>2
<1>5. \A r \in Slots : Messages(mailbox[r]) \subseteq Messages(mailbox'[r])
  <2>1. Messages(mailbox[s]) \subseteq Messages(mailbox'[s])
    <3>1. \A i \in DOMAIN mailbox[s] : i \in DOMAIN mailbox'[s] /\ mailbox'[s][i] = mailbox[s][i]
      BY <1>1, <1>2
    <3> QED BY <3>1 DEF Messages
  <2> QED BY <1>1, <2>1
<1> QED BY Zenon, <1>1, <1>2, <1>4, <1>5

LEMMA SendPushPreserves == ASSUME IpcIInv, send_push PROVE IpcIInv'
<1> DEFINE o == op[cpu]
           w == waiter[o.slot]
           m == [from |-> cpu, to |-> o.to, to_generation |-> o.generation, n |-> sends + 1]
<1>1. /\ UNCHANGED <<schedVars, got, parent, used>>
      /\ pc[cpu] = "syscall" /\ op[cpu].call = "send"
      /\ IF Len(mailbox[o.slot]) >= MAILBOX_CAP
         THEN /\ op' = [op EXCEPT ![cpu] = NoOp]
              /\ UNCHANGED <<mailbox, waiter, sends>>
         ELSE /\ mailbox' = [mailbox EXCEPT ![o.slot] = Append(@, m)]
              /\ waiter' = [waiter EXCEPT ![o.slot] = NoThread]
              /\ op' = [op EXCEPT ![cpu] = IF w = NoThread THEN NoOp
                                                           ELSE [call |-> "wake", to |-> w]]
              /\ sends' = sends + 1
  BY Zenon DEF send_push
<1>2. UNCHANGED <<threads, slot_generations, state, pc, cpu, sleep_queue>>
  BY <1>1 DEF schedVars
<1>3. /\ cpu \in Tids /\ o \in Operation
      /\ o.slot \in Slots /\ o.to \in Tids /\ o.generation \in 0 .. GEN_WIDTH - 1
  BY Zenon, <1>1 DEF IpcIInv, IInv, SchedTypeOK, IpcTypeOK, Operation
<1>4. threads[o.slot] = o.to /\ o.generation = slot_generations[o.slot]
  BY Zenon, <1>1, <1>3 DEF IpcIInv, GenerationsMatch
<1>5. IInv'
  BY ZenonT(30), <1>1, NextIInv DEF IpcIInv
<1>6. m \in AnyMessage /\ m.to = o.to /\ m.to_generation = o.generation
  BY <1>3 DEF AnyMessage, IpcIInv, IpcTypeOK
<1>7. w \in Tids \cup {NoThread}
  BY <1>3 DEF IpcIInv, IpcTypeOK
<1>8. \A t \in Tids : /\ t # cpu => op'[t] = op[t]
                      /\ op'[cpu] \in {NoOp} \cup [call : {"wake"}, to : Tids]
  BY <1>1, <1>3, <1>7 DEF IpcIInv, IpcTypeOK
<1> HIDE DEF m
<1>9. /\ mailbox' \in [Slots -> Seq(AnyMessage)]
      /\ \A r \in Slots : \A i \in 1 .. Len(mailbox'[r]) :
            /\ mailbox'[r][i].to \in used'
            /\ threads'[r] = mailbox'[r][i].to
               => mailbox'[r][i].to_generation = slot_generations'[r]
  <2>1. CASE Len(mailbox[o.slot]) >= MAILBOX_CAP
    BY SMTT(30), <1>1, <1>2, <2>1 DEF IpcIInv, IpcTypeOK, GenerationsMatch
  <2>2. CASE ~ (Len(mailbox[o.slot]) >= MAILBOX_CAP)
    BY ZenonT(30), <1>1, <1>2, <1>3, <1>4, <1>6, <2>2, PushFacts
  <2> QED BY Zenon, <2>1, <2>2
<1>10. IpcTypeOK'
  <2>1. op' \in [Tids -> Operation]
    BY SMTT(30), <1>1, <1>3, <1>7 DEF IpcIInv, IpcTypeOK, Operation, NoOp
  <2>2. waiter' \in [Slots -> Tids \cup {NoThread}] /\ sends' \in Nat
    BY SMTT(30), <1>1, <1>3 DEF IpcIInv, IpcTypeOK
  <2> QED BY <1>1, <1>9, <2>1, <2>2 DEF IpcIInv, IpcTypeOK
<1>11. OpControl'
  BY SMTT(30), <1>1, <1>2, <1>8 DEF IpcIInv, OpControl, NoOp
<1>12. \A t \in Tids : op'[t].call \notin {"wait", "send"}
  BY <1>1, <1>8 DEF IpcIInv, OpControl, NoOp
<1>13. WaitingRegistered'
  BY Zenon, <1>12 DEF WaitingRegistered
<1>14. GenerationsMatch'
  BY <1>1, <1>2, <1>9, <1>12 DEF IpcIInv, GenerationsMatch
<1>15. SleeperIsRegistered'
  <2> SUFFICES ASSUME NEW t \in Tids, state[t] = "Sleeping", op'[t].call = "recv"
               PROVE  Registered(t)' \/ WakeInFlight(t)'
    BY <1>2 DEF SleeperIsRegistered, Registered
  <2>1. t # cpu /\ op[t].call = "recv"
    BY <1>3, <1>8 DEF NoOp
  <2>2. SlotOf(t) \in Slots /\ SlotOf(t)' = SlotOf(t)
    BY <1>2, SlotOfFacts, SlotFixed DEF IpcIInv
  <2>3. CASE WakeInFlight(t)
    <3>1. PICK u \in Tids : op[u].call = "wake" /\ op[u].to = t
      BY Zenon, <2>3 DEF WakeInFlight
    <3>2. op'[u] = op[u]
      BY ZenonT(30), <1>1, <1>8, <3>1
    <3> QED BY <3>1, <3>2 DEF WakeInFlight
  <2>4. CASE Registered(t)
    <3>1. CASE mailbox' = mailbox /\ waiter' = waiter
      BY <2>2, <2>4, <3>1 DEF Registered
    <3>2. CASE /\ mailbox' = [mailbox EXCEPT ![o.slot] = Append(@, m)]
               /\ waiter' = [waiter EXCEPT ![o.slot] = NoThread]
               /\ op' = [op EXCEPT ![cpu] = IF w = NoThread THEN NoOp
                                                            ELSE [call |-> "wake", to |-> w]]
      <4>1. CASE SlotOf(t) # o.slot
        BY <1>3, <2>2, <2>4, <3>2, <4>1 DEF Registered, IpcIInv, IpcTypeOK
      <4>2. CASE SlotOf(t) = o.slot
        <5>1. w = t /\ t # NoThread
          BY <2>4, <4>2, SchedulerConstants DEF Registered
        <5>2. op'[cpu].call = "wake" /\ op'[cpu].to = t
          BY <1>3, <3>2, <5>1 DEF IpcIInv, IpcTypeOK
        <5> QED BY <1>3, <5>2 DEF WakeInFlight
      <4> QED BY <4>1, <4>2
    <3> QED BY <1>1, <3>1, <3>2
  <2> QED BY <2>1, <2>3, <2>4 DEF IpcIInv, SleeperIsRegistered, Registered
<1>16. WaiterIsReceiving'
  <2>1. \A r \in Slots : waiter[r] # NoThread =>
            waiter[r] \in Tids \ {cpu} /\ op[waiter[r]].call = "recv"
    BY <1>1 DEF IpcIInv, IpcTypeOK, WaiterIsReceiving, OpControl
  <2>2. \A u \in Tids \ {cpu} : op'[u].call # "wake"
    BY <1>1, <1>8 DEF IpcIInv, OpControl
  <2>3. CASE Len(mailbox[o.slot]) >= MAILBOX_CAP
    <3>1. op'[cpu] = NoOp /\ UNCHANGED <<mailbox, waiter>>
      BY <1>1, <1>3, <2>3 DEF IpcIInv, IpcTypeOK
    <3>2. \A u \in Tids : op'[u].call # "wake"
      BY <2>2, <3>1 DEF NoOp
    <3> QED BY <1>2, <1>8, <2>1, <3>1, <3>2 DEF IpcIInv, WaiterIsReceiving
  <2>4. CASE ~ (Len(mailbox[o.slot]) >= MAILBOX_CAP)
    <3>1. /\ \A r \in Slots : waiter'[r] = IF r = o.slot THEN NoThread ELSE waiter[r]
          /\ \A r \in Slots \ {o.slot} : mailbox'[r] = mailbox[r]
          /\ op'[cpu] = IF w = NoThread THEN NoOp ELSE [call |-> "wake", to |-> w]
      BY <1>1, <1>3, <2>4 DEF IpcIInv, IpcTypeOK
    <3>2. \A u \in Tids : op'[u].call = "wake" => u = cpu /\ w # NoThread /\ op'[u].to = w
      BY <2>2, <3>1 DEF NoOp
    <3>3. \A u \in Tids : op'[u].call = "wake" => op'[op'[u].to].call = "recv"
      BY <1>3, <1>8, <2>1, <3>2
    <3> QED BY <1>2, <1>8, <2>1, <3>1, <3>3 DEF IpcIInv, WaiterIsReceiving
  <2> QED BY <2>3, <2>4
<1> QED BY <1>5, <1>10, <1>11, <1>13, <1>14, <1>15, <1>16 DEF IpcIInv

(* wake_thread changes the state of one thread, and only from Sleeping.    *)
LEMMA WakeFacts ==
    ASSUME IpcIInv, NEW w \in Tids, wake_thread(w)
    PROVE  \A t \in Tids : /\ state'[t] = "Sleeping" => state[t] = "Sleeping" /\ t # w
                           /\ state'[t] = "Absent" <=> state[t] = "Absent"
BY DEF IpcIInv, IInv, SchedTypeOK, ControlState, wake_thread, WakeState

LEMMA SendWakePreserves == ASSUME IpcIInv, send_wake PROVE IpcIInv'
<1> DEFINE w == op[cpu].to
<1>1. /\ wake_thread(w) /\ pc[cpu] = "syscall" /\ op[cpu].call = "wake"
      /\ op' = [op EXCEPT ![cpu] = NoOp]
      /\ UNCHANGED <<threads, slot_generations, in_syscall, sleep_queue, pc, current, cpu,
                     current_slice, mailbox, waiter, got, parent, used, sends>>
  BY DEF send_wake
<1>2. cpu \in Tids /\ w \in Tids /\ w # NoThread
  BY Zenon, <1>1, SchedulerConstants DEF IpcIInv, IInv, SchedTypeOK, IpcTypeOK, Operation
<1>3. IInv'
  BY <1>1, <1>2, WakeWaiterPreserves DEF IpcIInv
<1>4. \A t \in Tids : op'[t] = IF t = cpu THEN NoOp ELSE op[t]
  BY <1>1, <1>2 DEF IpcIInv, IpcTypeOK
<1>5. \A t \in Tids : /\ state'[t] = "Sleeping" => state[t] = "Sleeping" /\ t # w
                      /\ state'[t] = "Absent" <=> state[t] = "Absent"
  BY <1>1, <1>2, WakeFacts
<1>6. IpcTypeOK'
  BY ZenonT(30), <1>1 DEF IpcIInv, IpcTypeOK, Operation, NoOp
<1>7. OpControl'
  BY <1>1, <1>4 DEF IpcIInv, OpControl, NoOp
<1>8. WaitingRegistered'
  BY <1>1, <1>4, SlotFixed DEF IpcIInv, WaitingRegistered, Registered, NoOp
<1>9. GenerationsMatch'
  BY SMTT(30), <1>1, <1>4, <1>5 DEF IpcIInv, GenerationsMatch, NoOp
<1>10. SleeperIsRegistered'
  <2> SUFFICES ASSUME NEW t \in Tids, state'[t] = "Sleeping", op'[t].call = "recv"
               PROVE  Registered(t)' \/ WakeInFlight(t)'
    BY DEF SleeperIsRegistered, Registered
  <2>1. t # w /\ state[t] = "Sleeping" /\ op[t].call = "recv"
    BY <1>4, <1>5 DEF NoOp
  <2>2. Registered(t) => Registered(t)'
    BY <1>1, SlotFixed DEF Registered
  <2>3. WakeInFlight(t) => WakeInFlight(t)'
    BY <1>4, <2>1 DEF WakeInFlight
  <2> QED BY <2>1, <2>2, <2>3 DEF IpcIInv, SleeperIsRegistered, Registered
<1>11. WaiterIsReceiving'
  <2>1. \A r \in Slots : waiter[r] # NoThread => waiter[r] \in Tids \ {cpu}
    BY <1>1 DEF IpcIInv, IpcTypeOK, WaiterIsReceiving
  <2>2. \A u \in Tids : op'[u].call # "wake"
    BY <1>1, <1>4 DEF IpcIInv, OpControl, NoOp
  <2> QED BY <1>1, <1>4, <2>1, <2>2 DEF IpcIInv, WaiterIsReceiving
<1> QED BY <1>3, <1>6, <1>7, <1>8, <1>9, <1>10, <1>11 DEF IpcIInv

-----------------------------------------------------------------------------
(* Exits *)

LEMMA ExitMarkPreserves == ASSUME IpcIInv, ipc_exit_mark PROVE IpcIInv'
<1>1. /\ exit_mark /\ op[cpu] = NoOp
      /\ op' = [op EXCEPT ![cpu] = [call |-> "notify"]]
      /\ UNCHANGED <<mailbox, waiter, got, parent, used, sends>>
  BY DEF ipc_exit_mark, Idles
<1>2. /\ cpu \in Tids /\ UNCHANGED <<threads, slot_generations, sleep_queue, cpu>>
      /\ state' = [state EXCEPT ![cpu] = "Terminated"] /\ pc' = [pc EXCEPT ![cpu] = "exit"]
      /\ state[cpu] # "Absent"
  BY <1>1 DEF exit_mark, IpcIInv, IInv, SchedTypeOK, ControlState
<1>3. IInv'
  BY <1>1, LocalStepPreserves DEF IpcIInv
<1>4. \A t \in Tids : /\ op'[t] = IF t = cpu THEN [call |-> "notify"] ELSE op[t]
                      /\ pc'[t] = IF t = cpu THEN "exit" ELSE pc[t]
                      /\ state'[t] = IF t = cpu THEN "Terminated" ELSE state[t]
  BY <1>1, <1>2 DEF IpcIInv, IpcTypeOK, IInv, SchedTypeOK
<1>5. IpcTypeOK'
  BY ZenonT(30), <1>1 DEF IpcIInv, IpcTypeOK, Operation
<1>6. OpControl'
  BY <1>1, <1>2, <1>4 DEF IpcIInv, OpControl
<1>7. WaitingRegistered'
  BY SMTT(30), <1>1, <1>2, <1>4, SlotFixed DEF IpcIInv, WaitingRegistered, Registered
<1>8. GenerationsMatch'
  BY <1>1, <1>2, <1>4 DEF IpcIInv, GenerationsMatch
<1>9. SleeperIsRegistered'
  BY <1>1, <1>2, <1>4, SlotFixed DEF IpcIInv, SleeperIsRegistered, WakeInFlight, NoOp
<1>10. WaiterIsReceiving'
  <2>1. \A u \in Tids : op'[u].call # "wake"
    BY <1>1, <1>4, NobodyElseActs
  <2>2. \A r \in Slots : waiter[r] # NoThread => op'[waiter[r]] = op[waiter[r]]
    BY <1>1, <1>4, NobodyElseActs
  <2> QED BY Zenon, <1>1, <1>2, <2>1, <2>2 DEF IpcIInv, WaiterIsReceiving
<1> QED BY <1>3, <1>5, <1>6, <1>7, <1>8, <1>9, <1>10 DEF IpcIInv

(* The two announcements of an exit: each may wake one thread, and the     *)
(* first may put an empty message into the parent's mailbox, waking whom   *)
(* it finds registered there.                                              *)
LEMMA AnnouncePreserves ==
    ASSUME IpcIInv, wake_parent_ipc_waiter \/ deliver_sigchld PROVE IpcIInv'
<1> DEFINE d == parent[cpu]
           s == SlotOf(d)
           m == [from |-> cpu, to |-> d, to_generation |-> slot_generations[s], n |-> 0]
           Sends == /\ state[d] # "Absent"
                    /\ mailbox' = [mailbox EXCEPT ![s] = Append(@, m)]
                    /\ waiter' = [waiter EXCEPT ![s] = NoThread]
                    /\ IF waiter[s] = NoThread THEN UNCHANGED <<state, pending_wakeup>>
                                               ELSE wake_thread(waiter[s])
           Wakes == /\ UNCHANGED <<mailbox, waiter>>
                    /\ \/ UNCHANGED <<state, pending_wakeup>>
                       \/ wake_thread(d)
<1>1. /\ pc[cpu] = "exit" /\ op[cpu].call \in {"notify", "sigchld"}
      /\ op' = [op EXCEPT ![cpu] = [call |-> "sigchld"]] \/ op' = [op EXCEPT ![cpu] = NoOp]
      /\ UNCHANGED <<threads, slot_generations, in_syscall, sleep_queue, pc, current, cpu,
                     current_slice, got, parent, used, sends>>
      /\ Sends \/ Wakes
  BY Zenon DEF wake_parent_ipc_waiter, deliver_sigchld, send_from_kernel, Exists
<1>2. cpu \in Tids /\ d \in Tids /\ d # NoThread
  BY ZenonT(30), SchedulerConstants DEF IpcIInv, IInv, SchedTypeOK, IpcTypeOK
<1>3. /\ op'[cpu].call \in {"none", "sigchld"}
      /\ op'[cpu].call = "sigchld" => pc[cpu] = "exit"
      /\ \A t \in Tids \ {cpu} : op'[t] = op[t]
      /\ op' \in [Tids -> Operation]
  <2>1. CASE op' = [op EXCEPT ![cpu] = [call |-> "sigchld"]]
    BY <1>1, <1>2, <2>1 DEF IpcIInv, IpcTypeOK, Operation
  <2>2. CASE op' = [op EXCEPT ![cpu] = NoOp]
    BY <1>1, <1>2, <2>2 DEF IpcIInv, IpcTypeOK, Operation, NoOp
  <2> QED BY Zenon, <1>1, <2>1, <2>2
<1>4. ASSUME Sends
      PROVE  /\ s \in Slots /\ threads[s] = d /\ m \in AnyMessage
             /\ waiter[s] \in Tids \cup {NoThread}
  <2>1. s \in Slots /\ threads[s] = d
    BY <1>2, <1>4, SlotOfFacts DEF IpcIInv
  <2>2. slot_generations[s] \in 0 .. GEN_WIDTH - 1
    BY <2>1 DEF IpcIInv, IInv, SchedTypeOK
  <2> HIDE DEF s
  <2> QED BY ZenonT(30), <1>2, <2>1, <2>2 DEF IpcIInv, IpcTypeOK, AnyMessage
<1> HIDE DEF s, m
<1>5. IInv'
  <2>1. CASE Sends
    BY Zenon, <1>1, <1>4, <2>1, WakeWaiterPreserves DEF IpcIInv
  <2>2. CASE Wakes
    <3>1. CASE UNCHANGED <<state, pending_wakeup>>
      <4>1. UNCHANGED schedVars
        BY <1>1, <3>1 DEF schedVars
      <4> QED BY <4>1, NextIInv DEF IpcIInv
    <3>2. CASE wake_thread(d)
      BY ZenonT(30), <1>1, <1>2, <3>2, WakeWaiterPreserves DEF IpcIInv
    <3> QED BY <2>2, <3>1, <3>2
  <2> QED BY Zenon, <1>1, <2>1, <2>2
<1>6. \A t \in Tids : /\ state'[t] = "Sleeping" => state[t] = "Sleeping"
                      /\ state'[t] = "Absent" <=> state[t] = "Absent"
  BY <1>1, <1>2, <1>4, WakeFacts
<1>7. ASSUME Sends, NEW t \in Tids, state'[t] = "Sleeping" PROVE waiter[s] # t
  BY ZenonT(30), <1>4, <1>7, WakeFacts, SchedulerConstants
<1>8. /\ mailbox' \in [Slots -> Seq(AnyMessage)]
      /\ waiter' \in [Slots -> Tids \cup {NoThread}]
      /\ \A r \in Slots : \A i \in 1 .. Len(mailbox'[r]) :
            /\ mailbox'[r][i].to \in used'
            /\ threads'[r] = mailbox'[r][i].to
               => mailbox'[r][i].to_generation = slot_generations'[r]
  <2>1. CASE Sends
    <3>1. m.to = d /\ m.to_generation = slot_generations[s]
      BY DEF m
    <3>2. waiter' \in [Slots -> Tids \cup {NoThread}]
      BY Zenon, <2>1 DEF IpcIInv, IpcTypeOK
    <3>3. /\ mailbox' = [mailbox EXCEPT ![s] = Append(@, m)]
          /\ UNCHANGED <<threads, slot_generations, used>>
      BY <1>1, <2>1
    <3>4. s \in Slots /\ m \in AnyMessage /\ threads[s] = m.to
      BY <1>4, <2>1, <3>1
    <3> HIDE DEF Sends
    <3> QED BY Zenon, <3>1, <3>2, <3>3, <3>4, PushFacts
  <2>2. CASE Wakes
    BY ZenonT(60), <1>1, <2>2 DEF IpcIInv, IpcTypeOK, GenerationsMatch
  <2> QED BY Zenon, <1>1, <2>1, <2>2
<1>9. IpcTypeOK'
  BY <1>1, <1>3, <1>8 DEF IpcIInv, IpcTypeOK
<1>10. OpControl'
  BY <1>1, <1>3 DEF IpcIInv, OpControl
<1>11. \A t \in Tids : op'[t].call \notin {"send", "wait"}
  BY <1>1, <1>3 DEF IpcIInv, OpControl
<1>12. WaitingRegistered'
  BY Zenon, <1>11 DEF WaitingRegistered
<1>13. GenerationsMatch'
  BY Zenon, <1>1, <1>6, <1>8, <1>11 DEF IpcIInv, GenerationsMatch
<1>14. SleeperIsRegistered'
  <2> SUFFICES ASSUME NEW t \in Tids, state'[t] = "Sleeping", op'[t].call = "recv"
               PROVE  Registered(t)' \/ WakeInFlight(t)'
    BY DEF SleeperIsRegistered, Registered
  <2>1. t # cpu /\ state[t] = "Sleeping" /\ op[t].call = "recv"
    BY Zenon, <1>3, <1>6
  <2>2. SlotOf(t) \in Slots /\ SlotOf(t)' = SlotOf(t)
    BY Zenon, <1>1, <2>1, SlotOfFacts, SlotFixed DEF IpcIInv
  <2>3. WakeInFlight(t) => WakeInFlight(t)'
    BY ZenonT(30), <1>1, <1>3 DEF WakeInFlight
  <2>4. ASSUME Registered(t) PROVE Registered(t)'
    <3>1. CASE Wakes
      BY <2>2, <2>4, <3>1 DEF Registered
    <3>2. CASE Sends
      <4>1. SlotOf(t) # s
        BY ZenonT(30), <1>7, <2>4, <3>2 DEF Registered
      <4> QED BY <2>2, <2>4, <3>2, <4>1 DEF Registered, IpcIInv, IpcTypeOK
    <3> QED BY <1>1, <3>1, <3>2
  <2> QED BY Zenon, <2>1, <2>3, <2>4 DEF IpcIInv, SleeperIsRegistered, Registered
<1>15. WaiterIsReceiving'
  <2>1. \A r \in Slots : waiter[r] # NoThread => waiter[r] \in Tids \ {cpu}
    BY SMTT(30), <1>1 DEF IpcIInv, IpcTypeOK, WaiterIsReceiving
  <2>2. \A u \in Tids : op'[u].call # "wake"
    BY ZenonT(30), <1>1, <1>3 DEF IpcIInv, OpControl
  <2>3. \A r \in Slots : waiter'[r] # NoThread =>
            waiter'[r] = waiter[r] /\ mailbox'[r] = mailbox[r]
    <3>1. CASE Sends
      BY <1>4, <3>1 DEF IpcIInv, IpcTypeOK
    <3>2. CASE Wakes
      BY <3>2
    <3> QED BY <1>1, <3>1, <3>2
  <2> QED BY <1>1, <1>3, <2>1, <2>2, <2>3 DEF IpcIInv, WaiterIsReceiving
<1> QED BY ZenonT(30), <1>5, <1>9, <1>10, <1>12, <1>13, <1>14, <1>15 DEF IpcIInv
=============================================================================
