-------------------------------- MODULE Ipc --------------------------------
(* Message passing between threads (syscall/ipc.rs) on top of the          *)
(* scheduler: mailboxes belong to slots of the thread queue, outlive the   *)
(* threads that own them and are inherited by the next owner of the slot.  *)
(* A mailbox is the queue that Mailbox.tla implements; its scans, which    *)
(* run under one lock, are single steps here.  One thread per process.     *)
EXTENDS Scheduler, Sequences

CONSTANTS
    MAILBOX_CAP,   \* messages a mailbox holds
    MaxSends       \* bound: messages sent by the send system call

VARIABLES
    mailbox,   \* slot -> queued messages, oldest first
    waiter,    \* slot -> thread registered to be woken, or NoThread
    op,        \* thread -> the IPC operation it is in the middle of
    got,       \* thread -> what the receive it is in the middle of returned
    parent,    \* thread -> thread of the parent process
    used,      \* thread ids handed out so far: they are never reused
    sends      \* messages sent so far

ipcOnly == <<mailbox, waiter, op, got>>
ipcVars == <<schedVars, mailbox, waiter, op, got, parent, used, sends>>

(* n numbers the messages of send; 0 is the empty message that announces   *)
(* the exit of the sender.                                                 *)
Message == [from : Tids, to : Tids, to_generation : 0 .. GEN_WIDTH - 1,
            n : 0 .. MaxSends]

(* `Nothing received' is told apart from every message.                    *)
ASSUME IpcConstants == NoThread \notin Message

NoOp == [call |-> "none"]

Idles(t) == op[t] = NoOp

IpcInit ==
    /\ SchedInit
    /\ mailbox = [s \in Slots |-> <<>>]
    /\ waiter = [s \in Slots |-> NoThread]
    /\ op = [t \in Tids |-> NoOp]
    /\ got = [t \in Tids |-> NoThread]
    /\ parent = [t \in Tids |-> Idle]
    /\ used = {Idle, CoreService}
    /\ sends = 0

Exists(t) == state[t] # "Absent"

-----------------------------------------------------------------------------
(* Sending *)

(* send: the destination's slot and generation are looked up first.  An    *)
(* unknown destination is EINVAL and changes nothing.  (The idle thread    *)
(* never receives; messages to it only fill its own mailbox.)              *)
send_lookup(d) ==
    /\ pc[cpu] = "syscall" /\ Idles(cpu)
    /\ Exists(d) /\ d # Idle
    /\ sends < MaxSends
    /\ op' = [op EXCEPT ![cpu] =
                 [call |-> "send", to |-> d, slot |-> SlotOf(d),
                  generation |-> slot_generations[SlotOf(d)]]]
    /\ UNCHANGED <<schedVars, mailbox, waiter, got, parent, used, sends>>

(* Then the message is pushed and the waiter taken under the lock; a full  *)
(* mailbox is EAGAIN.                                                      *)
send_push ==
    /\ pc[cpu] = "syscall" /\ op[cpu].call = "send"
    /\ LET o == op[cpu]
           m == [from |-> cpu, to |-> o.to, to_generation |-> o.generation,
                 n |-> sends + 1]
           w == waiter[o.slot]
       IN  IF Len(mailbox[o.slot]) >= MAILBOX_CAP
           THEN /\ op' = [op EXCEPT ![cpu] = NoOp]
                /\ UNCHANGED <<mailbox, waiter, sends>>
           ELSE /\ mailbox' = [mailbox EXCEPT ![o.slot] = Append(@, m)]
                /\ waiter' = [waiter EXCEPT ![o.slot] = NoThread]
                /\ op' = [op EXCEPT ![cpu] =
                             IF w = NoThread THEN NoOp
                                             ELSE [call |-> "wake", to |-> w]]
                /\ sends' = sends + 1
    /\ UNCHANGED <<schedVars, got, parent, used>>

(* The waiter is woken after the lock is released.                         *)
send_wake ==
    /\ pc[cpu] = "syscall" /\ op[cpu].call = "wake"
    /\ wake_thread(op[cpu].to)
    /\ op' = [op EXCEPT ![cpu] = NoOp]
    /\ UNCHANGED <<threads, slot_generations, in_syscall, sleep_queue, pc,
                   current, cpu, current_slice, mailbox, waiter, got, parent, used, sends>>

(* send_from_kernel of an empty message, which wakes under the lock; its   *)
(* result is ignored.                                                      *)
send_from_kernel(d) ==
    LET s == SlotOf(d)
        m == [from |-> cpu, to |-> d, to_generation |-> slot_generations[s], n |-> 0]
    IN  IF Len(mailbox[s]) >= MAILBOX_CAP
        THEN UNCHANGED <<mailbox, waiter, state, pending_wakeup>>
        ELSE /\ mailbox' = [mailbox EXCEPT ![s] = Append(@, m)]
             /\ waiter' = [waiter EXCEPT ![s] = NoThread]
             /\ IF waiter[s] = NoThread THEN UNCHANGED <<state, pending_wakeup>>
                                        ELSE wake_thread(waiter[s])

-----------------------------------------------------------------------------
(* Receiving *)

IsFor(m, t) ==
    /\ m.to = t
    /\ m.to_generation = slot_generations[SlotOf(t)]

(* A scan of the mailbox stops at the first of the positions I; 0 when     *)
(* there is none.                                                          *)
First(I) == IF I = {} THEN 0 ELSE CHOOSE i \in I : \A j \in I : i =< j

(* pop_valid_for_receiver_copy: the first message for t is taken, the      *)
(* stale ones before it are dropped; when there is none, all are.          *)
FirstFor(q, t) == First({i \in 1 .. Len(q) : IsFor(q[i], t)})

(* Mutant: one message too many is dropped.                                *)
DropPast(q, i) == SubSeq(q, i + 2, Len(q))

DropThrough(q, i) == SubSeq(q, i + 1, Len(q))

(* The copy to the user's buffer comes after the message has left the      *)
(* mailbox: when it fails (EFAULT) the message is lost.                    *)
Received(m) == {m} \cup (IF m.n = 0 THEN {} ELSE {[lost |-> m]})

PopValid(t) ==
    LET s == SlotOf(t)
        i == FirstFor(mailbox[s], t)
    IN  IF i = 0
        THEN /\ mailbox' = [mailbox EXCEPT ![s] = <<>>]
             /\ got' = [got EXCEPT ![t] = NoThread]
        ELSE /\ mailbox' = [mailbox EXCEPT ![s] = DropThrough(@, i)]
             /\ \E r \in Received(mailbox[s][i]) : got' = [got EXCEPT ![t] = r]

HasMessage(t) == FirstFor(mailbox[SlotOf(t)], t) # 0

(* recv: EAGAIN when there is no message.                                  *)
recv ==
    /\ pc[cpu] = "syscall" /\ Idles(cpu)
    /\ PopValid(cpu)
    /\ UNCHANGED <<schedVars, waiter, op, parent, used, sends>>

(* Mutant: the receiver sleeps without registering.                        *)
recv_blocking_unregistered ==
    /\ pc[cpu] = "syscall" /\ (Idles(cpu) \/ op[cpu].call = "recv")
    /\ PopValid(cpu)
    /\ op' = [op EXCEPT ![cpu] = IF HasMessage(cpu) THEN NoOp ELSE [call |-> "wait"]]
    /\ UNCHANGED <<schedVars, waiter, parent, used, sends>>

(* recv_blocking: take a message, or register as the waiter under the same *)
(* lock.  The loop comes back here after every sleep.                      *)
recv_blocking ==
    /\ pc[cpu] = "syscall" /\ (Idles(cpu) \/ op[cpu].call = "recv")
    /\ PopValid(cpu)
    /\ IF HasMessage(cpu)
       THEN /\ op' = [op EXCEPT ![cpu] = NoOp]
            /\ UNCHANGED waiter
       ELSE /\ op' = [op EXCEPT ![cpu] = [call |-> "wait"]]
            /\ waiter' = [waiter EXCEPT ![SlotOf(cpu)] = cpu]
    /\ UNCHANGED <<schedVars, parent, used, sends>>

(* Mutant: the registration is left behind when a wake is pending.         *)
recv_sleep_registered ==
    /\ pc[cpu] = "syscall" /\ op[cpu].call = "wait"
    /\ sleep_thread_unless_woken
    /\ op' = [op EXCEPT ![cpu] = IF pending_wakeup[cpu] THEN NoOp ELSE [call |-> "recv"]]
    /\ pc' = [pc EXCEPT ![cpu] = IF pending_wakeup[cpu] THEN @ ELSE "yield"]
    /\ UNCHANGED <<threads, slot_generations, in_syscall, sleep_queue, current, cpu,
                   current_slice, mailbox, waiter, got, parent, used, sends>>

(* Sleep and yield, then look again; with a wake pending, withdraw the     *)
(* registration and return 0.                                              *)
recv_sleep ==
    /\ pc[cpu] = "syscall" /\ op[cpu].call = "wait"
    /\ sleep_thread_unless_woken
    /\ IF pending_wakeup[cpu]
       THEN /\ op' = [op EXCEPT ![cpu] = NoOp]
            /\ waiter' = [waiter EXCEPT ![SlotOf(cpu)] =
                             IF @ = cpu THEN NoThread ELSE @]
            /\ UNCHANGED pc
       ELSE /\ op' = [op EXCEPT ![cpu] = [call |-> "recv"]]
            /\ pc' = [pc EXCEPT ![cpu] = "yield"]
            /\ UNCHANGED waiter
    /\ UNCHANGED <<threads, slot_generations, in_syscall, sleep_queue,
                   current, cpu, current_slice, mailbox, got, parent, used, sends>>

(* recv_from_sender_for_kernel_nonblocking, the receive of the file-system *)
(* client: the first message of one sender is taken, those before it go to *)
(* the end of the queue.                                                   *)
recv_from_sender(f) ==
    /\ pc[cpu] = "syscall" /\ Idles(cpu)
    /\ LET s == SlotOf(cpu)
           q == mailbox[s]
           i == First({j \in 1 .. Len(q) : q[j].from = f /\ IsFor(q[j], cpu)})
       IN  IF i = 0
           THEN /\ got' = [got EXCEPT ![cpu] = NoThread]
                /\ UNCHANGED mailbox
           ELSE /\ got' = [got EXCEPT ![cpu] = q[i]]
                /\ mailbox' = [mailbox EXCEPT ![s] =
                                  DropThrough(q, i) \o SubSeq(q, 1, i - 1)]
    /\ UNCHANGED <<schedVars, waiter, op, parent, used, sends>>

-----------------------------------------------------------------------------
(* Threads come and go *)

(* fork: the child's process has the caller's as its parent.               *)
ipc_add_thread(t) ==
    /\ Idles(cpu)
    /\ t \notin used
    /\ sys_add_thread(t)
    /\ parent' = [parent EXCEPT ![t] = cpu]
    /\ used' = used \cup {t}
    /\ UNCHANGED <<ipcOnly, sends>>

(* exit_current_task marks the thread, then announces the exit             *)
(* (wake_parent_ipc_waiter) and sends SIGCHLD.  The exit after a fault is  *)
(* the same sequence with no step of anyone else in it.                    *)
ipc_exit_mark ==
    /\ Idles(cpu)
    /\ exit_mark
    /\ op' = [op EXCEPT ![cpu] = [call |-> "notify"]]
    /\ UNCHANGED <<mailbox, waiter, got, parent, used, sends>>

wake_parent_ipc_waiter ==
    /\ pc[cpu] = "exit" /\ op[cpu].call = "notify"
    /\ IF Exists(parent[cpu]) /\ parent[cpu] # Idle
       THEN send_from_kernel(parent[cpu])
       ELSE UNCHANGED <<mailbox, waiter, state, pending_wakeup>>
    /\ op' = [op EXCEPT ![cpu] = [call |-> "sigchld"]]
    /\ UNCHANGED <<threads, slot_generations, in_syscall, sleep_queue, pc,
                   current, cpu, current_slice, got, parent, used, sends>>

(* deliver_sigchld_to_parent, as far as threads are concerned: the parent  *)
(* is woken whatever it does.                                              *)
deliver_sigchld ==
    /\ pc[cpu] = "exit" /\ op[cpu].call = "sigchld"
    /\ IF Exists(parent[cpu]) THEN wake_thread(parent[cpu])
                               ELSE UNCHANGED <<state, pending_wakeup>>
    /\ op' = [op EXCEPT ![cpu] = NoOp]
    /\ UNCHANGED <<threads, slot_generations, in_syscall, sleep_queue, pc,
                   current, cpu, current_slice, mailbox, waiter, got, parent, used, sends>>

(* Steps of the scheduler that leave the mailboxes alone.                  *)
ipc_sched ==
    /\ \/ yield_now
       \/ syscall_enter
       \/ Idles(cpu) /\ exit_clear_current
    /\ UNCHANGED <<ipcOnly, parent, used, sends>>

(* The result of the receive is handed to the user program.                *)
ipc_return ==
    /\ Idles(cpu)
    /\ syscall_return
    /\ got' = [got EXCEPT ![cpu] = NoThread]
    /\ UNCHANGED <<mailbox, waiter, op, parent, used, sends>>

ipc_exit_switch ==
    /\ exit_switch
    /\ got' = [got EXCEPT ![cpu] = NoThread]
    /\ UNCHANGED <<mailbox, waiter, op, parent, used, sends>>

ipc_tick ==
    /\ tick
    /\ UNCHANGED <<ipcOnly, parent, used, sends>>

(* A wake for another reason, such as a timer that fires late, may reach   *)
(* any thread.                                                             *)
ipc_wake(t) ==
    /\ wake(t)
    /\ UNCHANGED <<ipcOnly, parent, used, sends>>

IpcThreadStep ==
    \/ send_push
    \/ send_wake
    \/ recv_blocking
    \/ recv_sleep
    \/ ipc_exit_mark
    \/ wake_parent_ipc_waiter
    \/ deliver_sigchld
    \/ ipc_exit_switch
    \/ ipc_return
    \/ ipc_sched

IpcNext ==
    \/ IpcThreadStep
    \/ recv
    \/ ipc_tick
    \/ \E t \in Tids :
          \/ send_lookup(t)
          \/ recv_from_sender(t)
          \/ ipc_add_thread(t)
          \/ ipc_wake(t)

IpcSpec == IpcInit /\ [][IpcNext]_ipcVars
              /\ WF_ipcVars(IpcThreadStep) /\ SF_ipcVars(TickGuard /\ ipc_tick)

-----------------------------------------------------------------------------
(* Properties *)

WakeInFlight(t) == \E u \in Tids : op[u].call = "wake" /\ op[u].to = t

(* No lost wake-up: a thread asleep in recv_blocking has an empty mailbox  *)
(* and is registered in it, or the sender that took its registration is    *)
(* about to wake it.                                                       *)
SleeperIsRegistered ==
    \A t \in Tids :
        state[t] = "Sleeping" /\ op[t].call = "recv" =>
            \/ waiter[SlotOf(t)] = t /\ mailbox[SlotOf(t)] = <<>>
            \/ WakeInFlight(t)

(* A registration ends with the call that made it, whichever of its ways   *)
(* out it takes: the waiter of a mailbox owns the slot, is inside          *)
(* recv_blocking and has no message, and so is the thread a sender is      *)
(* about to wake.  One left behind would be woken out of a later sleep, or *)
(* be inherited with the slot and take the wake-up of the next owner.      *)
WaiterIsReceiving ==
    /\ \A s \in Slots : waiter[s] # NoThread =>
          /\ threads[s] = waiter[s] /\ mailbox[s] = <<>>
          /\ op[waiter[s]].call \in {"wait", "recv"}
    /\ \A u \in Tids : op[u].call = "wake" => op[op[u].to].call = "recv"

Messages(q) == {q[i] : i \in 1 .. Len(q)}

(* A message leaves a mailbox only into the hands of its addressee (or     *)
(* into the bad buffer the addressee gave), or because the addressee no    *)
(* longer owns the slot.                                                   *)
NoLiveMessageDropped ==
    [][\A s \in Slots : \A m \in Messages(mailbox[s]) \ Messages(mailbox'[s]) :
          got'[m.to] \in Received(m) \/ threads[s] # m.to]_ipcVars

(* Once no thread is created or removed any more, a thread waiting in      *)
(* recv_blocking with a message in its mailbox gets out of the call.       *)
(* (Without the premise a woken receiver may stay Ready for ever:          *)
(* ReadyRuns in Scheduler.)                                                *)
BlockedReceiverReturns ==
    <>[][FALSE]_threads =>
        \A t \in Tids \ {Idle} :
            (op[t].call = "recv" /\ Exists(t) /\ HasMessage(t)) ~> (op[t].call = "none")

=============================================================================
