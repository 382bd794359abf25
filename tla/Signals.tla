------------------------------ MODULE Signals ------------------------------
(* Signals (syscall/signal.rs, task/signal.rs): actions, masks, pending    *)
(* sets, the frame a handler runs on and the way back from it.             *)
(*                                                                         *)
(* A system call is one step: it is not preempted and none of these        *)
(* yields.  Signals are delivered on the way out of int 0x80; a call made  *)
(* with SYSCALL (`fast') returns without looking at them.  A process       *)
(* signals only itself: signalling another one takes Core privilege, which *)
(* only the kernel's own process has (caller_can_signal_target).  The only *)
(* signal that crosses processes is the SIGCHLD of an exit.  The wake-up   *)
(* of the receiver's thread is signal_wake of Waiting.                     *)
(*                                                                         *)
(* The user stack is an array of 8-byte words, word 0 its lowest mapped    *)
(* one; rsp is a word index.                                               *)
EXTENDS Integers, Sequences

CONSTANTS
    SigPids,       \* process ids, a range 1 .. n; process 1 exists at boot
    Sigs,          \* the signal numbers used
    SigMasks,      \* the masks user code passes
    StackWords,    \* words of user stack below the initial stack pointer
    MaxPush,       \* words user code pushes between two calls
    SigSteps       \* bound: steps of a behaviour

VARIABLES
    sp,            \* process id -> its signal state, context and life
    sigleft        \* steps left

sigVars == <<sp, sigleft>>

SIGKILL == 9
SIGCHLD == 17
UNCATCHABLE_MASK == {9, 19}

(* Words of the user stack other than a saved stack pointer.               *)
MAIN == -1        \* a RIP in the program
HANDLER == -2     \* a RIP in a handler
RESTORER == -3
RFLAGS == -4
USED == -5        \* anything user code pushed
FREE == -6

NoProcess == [st |-> "none"]

DefaultAction == [handler |-> "dfl", mask |-> {}]

(* Process::new and SignalState::new; fork copies only the user's memory   *)
(* and registers.                                                          *)
NewProcess(parent, rip, rsp, stack, interrupted) ==
    [st |-> "running", parent |-> parent, mask |-> {}, pending |-> {},
     act |-> [s \in Sigs |-> DefaultAction],
     rip |-> rip, rsp |-> rsp, stack |-> stack,
     interrupted |-> interrupted]  \* ghost: the contexts handlers came in over

SigInit ==
    /\ sigleft = SigSteps
    /\ sp = [p \in SigPids |->
                IF p = 1 THEN NewProcess(0, MAIN, StackWords,
                                         [w \in 0 .. StackWords - 1 |-> FREE], <<>>)
                         ELSE NoProcess]

Alive(S, p) == S[p].st = "running"

default_action(s) == IF s \in {17, 18, 28, 19, 20, 21, 22} THEN "ignore"
                                                            ELSE "terminate"

-----------------------------------------------------------------------------
(* deliver_signal_to_pid for a process that is not the current one.        *)
PendIn(S, p, s) ==
    IF p \in SigPids /\ S[p].st # "none"
    THEN [S EXCEPT ![p].pending = @ \cup {s}] ELSE S

(* exit_current_task: the zombie is marked first, then its parent is told. *)
exit_current_task(S, p, code) ==
    PendIn([S EXCEPT ![p] = [st |-> "zombie", parent |-> S[p].parent,
                             pending |-> S[p].pending, code |-> code]],
           S[p].parent, SIGCHLD)

(* deliver_signal_to_pid, the caller signalling itself: SIGKILL, a         *)
(* terminating default, an ignored signal take effect at once; anything    *)
(* else is left pending.                                                   *)
deliver_signal_to_pid(S, p, s) ==
    LET a == S[p].act[s].handler
        open == s \notin S[p].mask
    IN  CASE s = SIGKILL -> exit_current_task(S, p, s)
          [] s # SIGKILL /\ open /\ a = "dfl" /\ default_action(s) = "terminate" ->
                 exit_current_task(S, p, s)
          [] s # SIGKILL /\ open
                 /\ (a = "ign" \/ (a = "dfl" /\ default_action(s) = "ignore")) -> S
          [] OTHER -> PendIn(S, p, s)

-----------------------------------------------------------------------------
(* Return from int 0x80 *)

Deliverable(S, p) == S[p].pending \ S[p].mask

(* take_next_deliverable, which returns s, the lowest deliverable number.  *)
take_next_deliverable(S, p, s) == [S EXCEPT ![p].pending = @ \ {s}]

(* Mutant: room for one word of the frame instead of four.                 *)
FrameTooHigh(rsp) == ((rsp - 1) \div 2) * 2 - 1

(* Where setup_signal_frame puts the frame: 32 bytes down, aligned to 16,  *)
(* and 8 more as if the handler had been called.                           *)
FrameBase(rsp) == ((rsp - 4) \div 2) * 2 - 1

(* setup_signal_frame for signal s: the frame is the restorer's address    *)
(* and the interrupted RIP, RSP and RFLAGS.  A stack it does not fit on    *)
(* ends the process with 11.                                               *)
setup_signal_frame(S, p, s) ==
    LET q == S[p]
        b == FrameBase(q.rsp)
        frame == <<RESTORER, q.rip, q.rsp, RFLAGS>>
    IN  IF b < 0 THEN exit_current_task(S, p, 11)
        ELSE [S EXCEPT ![p] =
                 [q EXCEPT !.stack = [w \in DOMAIN @ |->
                                         IF w \in b .. b + 3 THEN frame[w - b + 1]
                                                             ELSE @[w]],
                           !.mask = @ \cup q.act[s].mask,
                           !.rip = HANDLER,
                           !.rsp = b,
                           !.interrupted = Append(@, [rip |-> q.rip, rsp |-> q.rsp,
                                                      base |-> b])]]

(* signal_and_return, for a call that left the process running.            *)
signal_and_return(S, p) ==
    IF ~Alive(S, p) \/ Deliverable(S, p) = {} THEN S
    ELSE LET s == CHOOSE x \in Deliverable(S, p) :
                      \A y \in Deliverable(S, p) : x <= y
             T == take_next_deliverable(S, p, s)
             a == S[p].act[s].handler
         IN  CASE a = "ign" -> T
               [] a = "dfl" -> IF default_action(s) = "terminate"
                               THEN exit_current_task(T, p, s) ELSE T
               [] a = "user" -> setup_signal_frame(T, p, s)

(* The end of a system call that leaves the state S.                       *)
Return(S, p, fast) == sp' = IF fast THEN S ELSE signal_and_return(S, p)

-----------------------------------------------------------------------------
(* System calls of a running process p *)

(* rt_sigaction refuses the uncatchable signals and strips them from the   *)
(* mask.                                                                   *)
rt_sigaction(p, s, handler, mask, fast) ==
    /\ Alive(sp, p)
    /\ Return(IF s \in UNCATCHABLE_MASK THEN sp
              ELSE [sp EXCEPT ![p].act[s] =
                       [handler |-> handler, mask |-> mask \ UNCATCHABLE_MASK]],
              p, fast)

rt_sigprocmask(p, how, set, fast) ==
    /\ Alive(sp, p)
    /\ LET new == set \ UNCATCHABLE_MASK
           old == sp[p].mask
       IN  Return([sp EXCEPT ![p].mask = CASE how = "SIG_BLOCK" -> old \cup new
                                           [] how = "SIG_UNBLOCK" -> old \ new
                                           [] how = "SIG_SETMASK" -> new],
                  p, fast)

(* kill, tkill and tgkill: only the caller itself may be signalled.        *)
kill(p, q, s, fast) ==
    /\ Alive(sp, p)
    /\ Return(IF q = p THEN deliver_signal_to_pid(sp, p, s) ELSE sp, p, fast)

(* rt_sigreturn, made by the restorer a handler returned to (its `ret' has *)
(* popped the restorer's address).  The mask is cleared.                   *)
rt_sigreturn(p) ==
    /\ Alive(sp, p)
    /\ sp[p].interrupted # <<>>
    /\ LET q == sp[p]
           top == q.interrupted[Len(q.interrupted)]
           r == q.rsp + 1
       IN  /\ q.rsp = top.base
           /\ sp' = [sp EXCEPT ![p] =
                        [q EXCEPT !.rip = q.stack[r],
                                  !.rsp = q.stack[r + 1],
                                  !.mask = {},
                                  !.interrupted =
                                      SubSeq(@, 1, Len(@) - 1)]]

(* fork: the child has its own signal state.                               *)
fork(p, c, fast) ==
    /\ Alive(sp, p)
    /\ \A q \in SigPids : q < c => sp[q].st # "none"
    /\ sp[c].st = "none"
    /\ Return([sp EXCEPT ![c] = NewProcess(p, sp[p].rip, sp[p].rsp, sp[p].stack,
                                           sp[p].interrupted)], p, fast)

exit(p) ==
    /\ Alive(sp, p)
    /\ sp' = exit_current_task(sp, p, 0)

(* wait reaps a zombie child; process ids are not used again.              *)
wait(p, c, fast) ==
    /\ Alive(sp, p)
    /\ sp[c].st = "zombie" /\ sp[c].parent = p
    /\ Return([sp EXCEPT ![c] = [st |-> "reaped"]], p, fast)

(* User code calls deeper, or returns, within its own part of the stack.   *)
Floor(q) == IF q.interrupted = <<>> THEN StackWords
            ELSE q.interrupted[Len(q.interrupted)].base

UserPush(p) ==
    /\ Alive(sp, p)
    /\ Floor(sp[p]) - sp[p].rsp < MaxPush /\ sp[p].rsp > 0
    /\ sp' = [sp EXCEPT ![p].rsp = @ - 1, ![p].stack[sp[p].rsp - 1] = USED]

UserPop(p) ==
    /\ Alive(sp, p)
    /\ sp[p].rsp < Floor(sp[p])
    /\ sp' = [sp EXCEPT ![p].rsp = @ + 1, ![p].stack[sp[p].rsp] = FREE]

SigNext ==
    /\ sigleft > 0 /\ sigleft' = sigleft - 1
    /\ \E p \in SigPids :
        \/ \E s \in Sigs, h \in {"dfl", "ign", "user"}, m \in SigMasks, f \in BOOLEAN :
               rt_sigaction(p, s, h, m, f)
        \/ \E how \in {"SIG_BLOCK", "SIG_UNBLOCK", "SIG_SETMASK"},
              m \in SigMasks, f \in BOOLEAN : rt_sigprocmask(p, how, m, f)
        \/ \E q \in SigPids, s \in Sigs, f \in BOOLEAN : kill(p, q, s, f)
        \/ rt_sigreturn(p)
        \/ \E c \in SigPids, f \in BOOLEAN : fork(p, c, f) \/ wait(p, c, f)
        \/ exit(p) \/ UserPush(p) \/ UserPop(p)

-----------------------------------------------------------------------------
(* Properties *)

(* A handler comes back to the point it interrupted: when rt_sigreturn     *)
(* leaves the innermost handler, RIP and RSP are the ones that             *)
(* setup_signal_frame found, whatever handlers ran on top of it and        *)
(* whatever user code pushed meanwhile.                                    *)
ReturnsToInterrupted(p) ==
    Len(sp'[p].interrupted) < Len(sp[p].interrupted) =>
        LET top == sp[p].interrupted[Len(sp[p].interrupted)]
        IN  sp'[p].rip = top.rip /\ sp'[p].rsp = top.rsp

(* A signal with a handler leaves the pending set only by starting that    *)
(* handler, one signal at a time: signals that arrive together, or while   *)
(* they are blocked, are not lost.                                         *)
StartsOneHandler(p) ==
    LET gone == {s \in sp[p].pending \ sp'[p].pending :
                     sp'[p].act[s].handler = "user"}
    IN  gone # {} => /\ \A s, t \in gone : s = t
                     /\ Len(sp'[p].interrupted) = Len(sp[p].interrupted) + 1

(* Both hold of every step that a process survives.                        *)
HandlerStep ==
    \A p \in SigPids : sp[p].st = "running" /\ sp'[p].st = "running" =>
        ReturnsToInterrupted(p) /\ StartsOneHandler(p)
HandlersReturn == [][HandlerStep]_sigVars
=============================================================================
