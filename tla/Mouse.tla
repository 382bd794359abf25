------------------------------- MODULE Mouse -------------------------------
(* The path of a mouse packet from IRQ12, or from an injecting driver, to a *)
(* reader: util/ps2mouse.rs and syscall/mouse.rs.  Unlike the keyboard's,   *)
(* the waiter's slot is claimed with compare_exchange.  IRQ12 arrives       *)
(* between any two steps of a call entered with SYSCALL; a call entered     *)
(* with int 0x80 keeps interrupts off.  Threads change only at a yield.     *)
EXTENDS Integers, Sequences

CONSTANTS Readers,       \* threads, positive numbers
          Int80,         \* those that enter the kernel with int 0x80
          MouseBytes,    \* bytes that the mouse sends
          MOUSE_FIFO,    \* capacity of MOUSE_PACKET_BUF (256)
          MouseSteps     \* bound on bytes, calls, signals and exits

(* A thread id is not 0, which stands for no thread.                        *)
ASSUME ReaderConstants == 0 \notin Readers /\ Int80 \subseteq Readers

VARIABLES assembler,     \* bytes of the packet being assembled
          mfifo,         \* MOUSE_PACKET_BUF
          mwaiter,       \* MOUSE_WAITER, 0 when nobody waits
          mpc,           \* thread -> where it is
          mstate,        \* thread -> its state and pending wake
          mcpu,          \* reader on the CPU, 0 when another thread or none is
          mouseleft
mouseVars == <<assembler, mfifo, mwaiter, mpc, mstate, mcpu, mouseleft>>

MouseInit ==
    /\ assembler = <<>> /\ mfifo = <<>> /\ mwaiter = 0
    /\ mpc = [t \in Readers |-> "user"]
    /\ mstate = [t \in Readers |-> [run |-> "Ready", pending |-> FALSE]]
    /\ mcpu = 0
    /\ mouseleft = MouseSteps

Use == mouseleft > 0 /\ mouseleft' = mouseleft - 1

\* A wake of the running thread is not recorded (scheduler.rs).
wake_thread(t) ==
    IF t = 0 THEN mstate
    ELSE CASE mstate[t].run = "Sleeping" -> [mstate EXCEPT ![t].run = "Ready"]
           [] mstate[t].run = "Ready" -> [mstate EXCEPT ![t].pending = TRUE]
           [] OTHER -> mstate

\* A packet that finds the queue full is counted and lost; the waiter is
\* woken all the same.
push_packet(packet) ==
    /\ mfifo' = IF Len(mfifo) >= MOUSE_FIFO THEN mfifo ELSE Append(mfifo, packet)
    /\ mwaiter' = 0
    /\ mstate' = wake_thread(mwaiter)

Bit3(b) == (b \div 8) % 2 = 1
Overflow(b) == b >= 64

\* A first byte without bit 3 is skipped; a packet that overflowed is
\* dropped.
push_byte(b) ==
    LET bytes == Append(assembler, b)
        quiet == UNCHANGED <<mfifo, mwaiter, mstate>>
    IN  IF assembler = <<>> /\ ~Bit3(b) THEN assembler' = assembler /\ quiet
        ELSE IF Len(bytes) < 3 THEN assembler' = bytes /\ quiet
        ELSE /\ assembler' = <<>>
             /\ IF Overflow(bytes[1]) THEN quiet ELSE push_packet(bytes)

mouse_interrupt(b) ==
    /\ Use
    /\ mcpu \in Int80 => mpc[mcpu] = "user"
    /\ push_byte(b)
    /\ UNCHANGED <<mpc, mcpu>>

(***************************************************************************)
(* System calls of the thread on the CPU.                                  *)
(***************************************************************************)
At(at) == mcpu # 0 /\ mpc[mcpu] = at
GoTo(at) == mpc' = [mpc EXCEPT ![mcpu] = at]

\* Buttons alone are completed into a packet that starts with bit 3.
Completed(b0) == IF Bit3(b0) THEN b0 ELSE b0 + 8

inject_packet(b0) ==
    /\ Use
    /\ At("user")
    /\ push_packet(<<Completed(b0), 0, 0>>)
    /\ UNCHANGED <<assembler, mpc, mcpu>>

read_packet ==
    /\ Use
    /\ At("user")
    /\ mfifo' = IF mfifo = <<>> THEN mfifo ELSE Tail(mfifo)
    /\ UNCHANGED <<assembler, mwaiter, mpc, mstate, mcpu>>

\* pop_packet, with where the call goes when it finds nothing.
pop_packet(empty) ==
    IF mfifo = <<>> THEN GoTo(empty) /\ mfifo' = mfifo
    ELSE GoTo("user") /\ mfifo' = Tail(mfifo)

read_packet_blocking ==
    /\ Use
    /\ At("user")
    /\ pop_packet("register")
    /\ UNCHANGED <<assembler, mwaiter, mstate, mcpu>>

\* Mutant: the slot is stored into, as the keyboard's is.
register_store ==
    /\ At("register")
    /\ mwaiter' = mcpu /\ GoTo("registered")
    /\ UNCHANGED <<assembler, mfifo, mstate, mcpu, mouseleft>>

register_waiter ==
    /\ At("register")
    /\ IF mwaiter = 0 THEN mwaiter' = mcpu /\ GoTo("registered")
       ELSE mwaiter' = mwaiter /\ GoTo("busy")
    /\ UNCHANGED <<assembler, mfifo, mstate, mcpu, mouseleft>>

\* Registered: look again; a packet found withdraws the registration.
unregister_waiter == IF mwaiter = mcpu THEN 0 ELSE mwaiter

pop_registered ==
    /\ At("registered")
    /\ pop_packet("sleep")
    /\ mwaiter' = IF mfifo = <<>> THEN mwaiter ELSE unregister_waiter
    /\ UNCHANGED <<assembler, mstate, mcpu, mouseleft>>

\* Somebody else is registered: look again, and yield.
pop_busy ==
    /\ At("busy")
    /\ pop_packet("yield")
    /\ UNCHANGED <<assembler, mwaiter, mstate, mcpu, mouseleft>>

sleep_thread_unless_woken ==
    /\ At("sleep")
    /\ IF mstate[mcpu].pending
       THEN GoTo("register") /\ mstate' = [mstate EXCEPT ![mcpu].pending = FALSE]
       ELSE GoTo("yield") /\ mstate' = [mstate EXCEPT ![mcpu].run = "Sleeping"]
    /\ UNCHANGED <<assembler, mfifo, mwaiter, mcpu, mouseleft>>

\* yield_now, or the timer in user mode: another ready thread, a reader or not.
Off(t) == IF mcpu = t /\ mstate[t].run = "Running" THEN "Ready" ELSE mstate[t].run
Runnable == {t \in Readers : Off(t) = "Ready"}
switch ==
    /\ mcpu # 0 => mpc[mcpu] \in {"yield", "user"}
    /\ \E t \in Runnable \cup {0} :
        /\ mcpu' = t
        /\ mstate' = [u \in Readers |-> [mstate[u] EXCEPT !.run = IF u = t THEN "Running" ELSE Off(u)]]
        /\ mpc' = [u \in Readers |-> IF u = t /\ mpc[u] = "yield" THEN "register" ELSE mpc[u]]
    /\ UNCHANGED <<assembler, mfifo, mwaiter, mouseleft>>

\* A child of reader t exits: SIGCHLD wakes t, which is still registered.
wake_first_thread_of(t) ==
    /\ Use
    /\ mcpu = 0
    /\ mstate' = wake_thread(t)
    /\ UNCHANGED <<assembler, mfifo, mwaiter, mpc, mcpu>>

exit ==
    /\ Use
    /\ At("user")
    /\ mstate' = [mstate EXCEPT ![mcpu].run = "Dead"]
    /\ mcpu' = 0
    /\ UNCHANGED <<assembler, mfifo, mwaiter, mpc>>

MouseNext ==
    \/ \E b \in MouseBytes : mouse_interrupt(b) \/ inject_packet(b)
    \/ read_packet \/ read_packet_blocking
    \/ register_waiter \/ pop_registered \/ pop_busy
    \/ sleep_thread_unless_woken \/ switch \/ exit
    \/ \E t \in Readers : wake_first_thread_of(t)

MouseSpec == MouseInit /\ [][MouseNext]_mouseVars

-----------------------------------------------------------------------------
\* A thread registered for the next packet is inside read_packet_blocking,
\* and a thread that sleeps there, having kept interrupts off, is the one
\* that is registered: push_packet wakes it, and neither a second reader nor
\* a wake-up by a signal takes its slot (register_waiter, unregister_waiter).
SleepingMouseReaderRegistered ==
    /\ mwaiter # 0 => mpc[mwaiter] # "user"
    /\ \A t \in Int80 : mstate[t].run = "Sleeping" => mwaiter = t
=============================================================================
