---------------------------- MODULE DeviceProofs ----------------------------
(***************************************************************************)
(* Proofs about two devices.                                               *)
(*                                                                         *)
(* The mouse's waiter protocol (Mouse), for any number of readers, any mix *)
(* of entry paths, any bytes from the mouse and any queue capacity.        *)
(*                                                                         *)
(* The network card (Net), for every size of the queues, any number of     *)
(* receive buffers and any traffic: the frames cross the queues intact.    *)
(***************************************************************************)
EXTENDS Mouse, Net, TLAPS

-----------------------------------------------------------------------------
(* The mouse *)

Labels == {"user", "register", "registered", "busy", "sleep", "yield"}
RunStates == {"Ready", "Running", "Sleeping", "Dead"}

MouseTypeOK ==
    /\ mwaiter \in Readers \cup {0}
    /\ mcpu \in Readers \cup {0}
    /\ mpc \in [Readers -> Labels]
    /\ mstate \in [Readers -> [run : RunStates, pending : BOOLEAN]]

(* Only the reader on the CPU stands inside the loop of                     *)
(* read_packet_blocking other than at its yield.                           *)
InLoopOnCpu == \A t \in Readers : mpc[t] \in {"register", "registered", "busy", "sleep"} => mcpu = t

(* The registered reader is in the call, and once it has looked into the   *)
(* queue after registering, the queue stays empty: a packet takes the      *)
(* registration away.                                                      *)
WaiterInCall ==
    mwaiter # 0 => /\ mpc[mwaiter] # "user"
                   /\ mpc[mwaiter] # "registered" => mfifo = <<>>

(* With interrupts off nothing comes between registering and sleeping.     *)
Int80Registered ==
    \A t \in Int80 : mpc[t] \in {"registered", "sleep"} \/ mstate[t].run = "Sleeping" => mwaiter = t

(* Only the yield of the loop is reached asleep.                           *)
SleepsAtYield == \A t \in Readers : mstate[t].run = "Sleeping" => mpc[t] = "yield"

MouseIInv == MouseTypeOK /\ InLoopOnCpu /\ WaiterInCall /\ Int80Registered /\ SleepsAtYield

LEMMA MouseInitIInv ==
    MouseInit => MouseIInv
  BY ReaderConstants DEF MouseInit, MouseIInv, MouseTypeOK, InLoopOnCpu,
     WaiterInCall, Int80Registered, SleepsAtYield, Labels, RunStates

(* What a wake-up does: it moves threads from Sleeping to Ready only.      *)
LEMMA WakeThread ==
    ASSUME MouseTypeOK, 0 \notin Readers, NEW t \in Readers \cup {0}
    PROVE  /\ wake_thread(t) \in [Readers -> [run : RunStates, pending : BOOLEAN]]
           /\ \A u \in Readers : wake_thread(t)[u].run = "Sleeping" =>
                  mstate[u].run = "Sleeping" /\ u # t
  BY Zenon DEF wake_thread, MouseTypeOK, RunStates

(* push_packet keeps the invariant whatever it is called by, as long as no *)
(* reader with interrupts off is inside the call on the CPU.               *)
LEMMA PushPacket ==
    ASSUME MouseIInv, NEW packet, push_packet(packet),
           mcpu \in Int80 => mpc[mcpu] = "user",
           UNCHANGED <<mpc, mcpu>>
    PROVE  MouseIInv'
<1> USE ReaderConstants DEF MouseIInv
<1>1. /\ mwaiter' = 0 /\ mstate' = wake_thread(mwaiter) /\ mwaiter \in Readers \cup {0}
      /\ mpc' = mpc /\ mcpu' = mcpu
  BY DEF push_packet, MouseTypeOK
<1>2. /\ mstate' \in [Readers -> [run : RunStates, pending : BOOLEAN]]
      /\ \A u \in Readers : mstate'[u].run = "Sleeping" =>
             mstate[u].run = "Sleeping" /\ u # mwaiter
  BY <1>1, WakeThread
<1>3. MouseTypeOK'
  BY <1>1, <1>2 DEF MouseTypeOK
<1>4. InLoopOnCpu' /\ WaiterInCall'
  BY <1>1 DEF InLoopOnCpu, WaiterInCall
<1>5. Int80Registered'
  BY <1>1, <1>2 DEF Int80Registered, InLoopOnCpu, MouseTypeOK
<1>6. SleepsAtYield'
  BY <1>1, <1>2 DEF SleepsAtYield
<1> QED BY <1>3, <1>4, <1>5, <1>6

LEMMA MouseStepIInv ==
    ASSUME MouseIInv, [MouseNext]_mouseVars
    PROVE  MouseIInv'
<1> USE ReaderConstants DEF MouseIInv
<1>1. ASSUME NEW b \in MouseBytes, mouse_interrupt(b) PROVE MouseIInv'
  <2>1. CASE UNCHANGED <<mfifo, mwaiter, mstate>>
    BY <1>1, <2>1 DEF mouse_interrupt, MouseTypeOK, InLoopOnCpu, WaiterInCall,
                      Int80Registered, SleepsAtYield
  <2>2. CASE push_packet(Append(assembler, b))
    BY <1>1, <2>2, PushPacket DEF mouse_interrupt
  <2> QED BY <1>1, <2>1, <2>2 DEF mouse_interrupt, push_byte
<1>2. ASSUME NEW b \in MouseBytes, inject_packet(b) PROVE MouseIInv'
  BY <1>2, PushPacket DEF inject_packet, At
<1>3. CASE read_packet
  BY <1>3 DEF read_packet, At, MouseTypeOK, InLoopOnCpu, WaiterInCall, Int80Registered,
              SleepsAtYield
<1>4. CASE read_packet_blocking
  BY <1>4 DEF read_packet_blocking, pop_packet, GoTo, At, MouseTypeOK, InLoopOnCpu, WaiterInCall,
              Int80Registered, SleepsAtYield, Labels
<1>5. CASE register_waiter
  BY <1>5 DEF register_waiter, GoTo, At, MouseTypeOK, InLoopOnCpu, WaiterInCall,
              Int80Registered, SleepsAtYield, Labels
<1>6. CASE pop_registered
  BY <1>6 DEF pop_registered, pop_packet, unregister_waiter, GoTo, At, MouseTypeOK, InLoopOnCpu,
              WaiterInCall, Int80Registered, SleepsAtYield, Labels
<1>7. CASE pop_busy
  BY <1>7 DEF pop_busy, pop_packet, GoTo, At, MouseTypeOK, InLoopOnCpu, WaiterInCall,
              Int80Registered, SleepsAtYield, Labels
<1>8. CASE sleep_thread_unless_woken
  <2>1. /\ mcpu \in Readers /\ mpc[mcpu] = "sleep" /\ mwaiter' = mwaiter /\ mcpu' = mcpu
        /\ mfifo' = mfifo
        /\ \A t \in Readers \ {mcpu} : mpc'[t] = mpc[t] /\ mstate'[t] = mstate[t]
    BY <1>8 DEF sleep_thread_unless_woken, GoTo, At, MouseTypeOK
  <2>2. \/ mpc'[mcpu] = "register" /\ mstate'[mcpu].run = mstate[mcpu].run
        \/ mpc'[mcpu] = "yield"
    BY <1>8, <2>1 DEF sleep_thread_unless_woken, GoTo, At, MouseTypeOK
  <2>3. MouseTypeOK'
    <3>1. mpc' \in [Readers -> Labels]
      BY <1>8, <2>1 DEF sleep_thread_unless_woken, GoTo, MouseTypeOK, Labels
    <3>2. \/ mstate' = [mstate EXCEPT ![mcpu].pending = FALSE]
          \/ mstate' = [mstate EXCEPT ![mcpu].run = "Sleeping"]
      BY <1>8 DEF sleep_thread_unless_woken
    <3>3. [mstate[mcpu] EXCEPT !.pending = FALSE] \in [run : RunStates, pending : BOOLEAN]
      BY Zenon, <2>1 DEF MouseTypeOK
    <3>4. [mstate[mcpu] EXCEPT !.run = "Sleeping"] \in [run : RunStates, pending : BOOLEAN]
      BY <2>1 DEF MouseTypeOK, RunStates
    <3>5. mstate' \in [Readers -> [run : RunStates, pending : BOOLEAN]]
      BY Zenon, <2>1, <3>2, <3>3, <3>4 DEF MouseTypeOK
    <3> QED BY <2>1, <3>1, <3>5 DEF MouseTypeOK
  <2>4. InLoopOnCpu' /\ WaiterInCall' /\ SleepsAtYield'
    BY <2>1, <2>2 DEF MouseTypeOK, InLoopOnCpu, WaiterInCall, SleepsAtYield
  <2>5. Int80Registered'
    BY <2>1, <2>2 DEF Int80Registered
  <2> QED BY <2>3, <2>4, <2>5
<1>9. CASE switch
  BY <1>9 DEF switch, Runnable, Off, MouseTypeOK, InLoopOnCpu, WaiterInCall,
              Int80Registered, SleepsAtYield, Labels, RunStates
<1>10. CASE exit
  BY <1>10 DEF exit, At, MouseTypeOK, InLoopOnCpu, WaiterInCall, Int80Registered,
               SleepsAtYield, RunStates
<1>11. ASSUME NEW t \in Readers, wake_first_thread_of(t) PROVE MouseIInv'
  BY <1>11, WakeThread DEF wake_first_thread_of, MouseTypeOK, InLoopOnCpu, WaiterInCall,
                           Int80Registered, SleepsAtYield
<1>12. CASE UNCHANGED mouseVars
  BY <1>12 DEF mouseVars, MouseTypeOK, InLoopOnCpu, WaiterInCall, Int80Registered, SleepsAtYield
<1> QED
  BY <1>1, <1>2, <1>3, <1>4, <1>5, <1>6, <1>7, <1>8, <1>9, <1>10, <1>11, <1>12 DEF MouseNext

(* A reader asleep in read_packet_blocking, having entered with interrupts *)
(* off, is the one registered in MOUSE_WAITER, whatever other readers,     *)
(* packets, injections, signals and exits there are.                       *)
THEOREM MouseReaderRegistered ==
    MouseSpec => []SleepingMouseReaderRegistered
<1>1. MouseInit => MouseIInv
  BY MouseInitIInv
<1>2. MouseIInv /\ [MouseNext]_mouseVars => MouseIInv'
  BY MouseStepIInv
<1>3. MouseIInv => SleepingMouseReaderRegistered
  BY DEF MouseIInv, WaiterInCall, Int80Registered, SleepingMouseReaderRegistered
<1> QED BY <1>1, <1>2, <1>3, PTL DEF MouseSpec

-----------------------------------------------------------------------------
(* Sequences *)

LEMMA AppendProperties ==
    ASSUME NEW S, NEW q \in Seq(S), NEW e \in S
    PROVE  /\ Append(q, e) \in Seq(S) /\ Append(q, e) # <<>> /\ Len(Append(q, e)) = Len(q) + 1
           /\ \A i \in 1 .. Len(q) : Append(q, e)[i] = q[i]
           /\ Append(q, e)[Len(q) + 1] = e
  OBVIOUS

(* Division with remainder, as the solver knows it.                        *)
LEMMA DivMod == ASSUME NEW m \in Nat \ {0}, NEW x \in Nat PROVE x = m * (x \div m) + (x % m) /\ x \div m \in Nat /\ x % m \in 0 .. m - 1
  BY Z3

(* A larger quotient is larger by a whole divisor.                         *)
LEMMA Mult == ASSUME NEW m \in Nat \ {0}, NEW a \in Nat, NEW b \in Nat, a < b PROVE m * b >= m * a + m
<1>1. b = a + 1 + (b - a - 1) /\ b - a - 1 \in Nat
  OBVIOUS
<1>2. \A k \in Nat : m * (a + 1 + k) = m * a + m + m * k /\ m * k >= 0
  BY Z3
<1> QED BY <1>1, <1>2

(* The remainder is the only one in its range.                             *)
LEMMA ModUnique == ASSUME NEW m \in Nat \ {0}, NEW q \in Nat, NEW r \in 0 .. m - 1 PROVE (m * q + r) % m = r
<1> DEFINE x == m * q + r
<1>1. x \in Nat BY Z3
<1>2. x = m * (x \div m) + (x % m) /\ x \div m \in Nat /\ x % m \in 0 .. m - 1
  BY <1>1, DivMod
<1> DEFINE d == x \div m
<1> DEFINE e == x % m
<1>3. m * q \in Nat /\ m * d \in Nat BY <1>2, Z3
<1>4. CASE d < q
  <2>1. m * q >= m * d + m BY <1>2, <1>4, Mult
  <2> HIDE DEF d, e
  <2> QED BY <1>2, <1>3, <2>1 DEF d, e
<1>5. CASE q < d
  <2>1. m * d >= m * q + m BY <1>2, <1>5, Mult
  <2> QED BY <1>2, <1>3, <2>1
<1>6. CASE q = d
  BY <1>2, <1>3, <1>6
<1> QED BY <1>2, <1>4, <1>5, <1>6

(* An index that wraps after each step counts modulo its range.            *)
LEMMA ModStep ==
    ASSUME NEW m \in Nat \ {0}, NEW x \in Nat
    PROVE  ((x % m) + 1) % m = (x + 1) % m
<1> DEFINE q == x \div m
<1> DEFINE r == x % m
<1>1. x = m * q + r /\ q \in Nat /\ r \in 0 .. m - 1
  BY DivMod
<1> HIDE DEF q, r
<1>2. CASE r + 1 < m
  <2>1. (m * q + (r + 1)) % m = r + 1 /\ (m * 0 + (r + 1)) % m = r + 1
    BY <1>1, <1>2, ModUnique
  <2>2. m * q + (r + 1) = x + 1 /\ m * 0 + (r + 1) = r + 1
    BY <1>1, Z3
  <2> QED BY <2>1, <2>2 DEF r
<1>3. CASE r + 1 = m
  <2>1. (m * (q + 1) + 0) % m = 0 /\ (m * 1 + 0) % m = 0
    BY <1>1, <1>3, ModUnique
  <2>2. m * (q + 1) + 0 = x + 1 /\ m * 1 + 0 = r + 1
    BY <1>1, <1>3, Z3
  <2> QED BY <2>1, <2>2 DEF r
<1> QED BY <1>1, <1>2, <1>3

(* Counts less than a divisor apart have different remainders.             *)
LEMMA ModDistinct ==
    ASSUME NEW m \in Nat \ {0}, NEW x \in Nat, NEW y \in Nat, x < y, y - x < m
    PROVE  x % m # y % m
<1> DEFINE a == x \div m
<1> DEFINE b == y \div m
<1>1. /\ x = m * a + (x % m) /\ a \in Nat /\ x % m \in 0 .. m - 1
      /\ y = m * b + (y % m) /\ b \in Nat /\ y % m \in 0 .. m - 1
  BY DivMod
<1> HIDE DEF a, b
<1>2. m * a \in Nat /\ m * b \in Nat
  BY <1>1, Z3
<1>3. a < b => m * b >= m * a + m
  BY <1>1, Mult
<1>4. b < a => m * a >= m * b + m
  BY <1>1, Mult
<1> QED BY <1>1, <1>2, <1>3, <1>4

-----------------------------------------------------------------------------
(* The network card *)

(* A remainder by a multiple of n has the remainder of the number by n.    *)
LEMMA ModMod ==
    ASSUME NEW m \in Nat \ {0}, NEW n \in Nat \ {0}, m % n = 0, NEW x \in Nat
    PROVE  (x % m) % n = x % n
<1> DEFINE k == m \div n
<1> DEFINE q == x \div m
<1> DEFINE r == x % m
<1>1. x = m * q + r /\ q \in Nat /\ r \in Nat
  BY DivMod
<1>2. m = n * k /\ k \in Nat
  <2>1. m = n * k + (m % n) /\ k \in Nat
    BY DivMod
  <2>2. n * k \in Nat
    BY <2>1, Z3
  <2> QED BY <2>1, <2>2
<1> DEFINE b == r \div n
<1> DEFINE s == r % n
<1>3. r = n * b + s /\ b \in Nat /\ s \in 0 .. n - 1
  BY <1>1, DivMod
<1> HIDE DEF k, q, b
<1>4. (n * (k * q + b) + s) % n = s
  <2>1. k * q + b \in Nat
    BY <1>1, <1>2, <1>3, Z3
  <2> QED BY <2>1, <1>3, ModUnique
<1> HIDE DEF r, s
<1>5. n * (k * q + b) + s = x
  BY <1>1, <1>2, <1>3, Z3
<1> QED BY <1>4, <1>5 DEF r, s

(* A sequence that agrees with the beginning of another is that beginning. *)
LEMMA PrefixOf ==
    ASSUME NEW S, NEW s \in Seq(S), NEW t \in Seq(S), Len(s) <= Len(t),
           \A k \in 1 .. Len(s) : s[k] = t[k]
    PROVE  s = SubSeq(t, 1, Len(s))
OBVIOUS

(* The entries of a ring, the indices, and where a count of descriptors    *)
(* passed since the start stands: its entry, and the wrapped index.        *)
Slot == 0 .. QUEUE_SIZE - 1
Idx == 0 .. INDEX_MOD - 1
Entry(x) == x % QUEUE_SIZE
Index(x) == x % INDEX_MOD

(* Types.                                                                  *)
Queue == [avail : [Slot -> Nat], used : [Slot -> Nat], next_avail_idx : Idx,
          last_used_idx : Idx, seen_idx : Idx, used_idx : Idx]
TxFrames == {"arp", "ping"} \X Nat
Flags == [tx_inflight : BOOLEAN, arp_sent : BOOLEAN, gateway : BOOLEAN,
          ping_sent : BOOLEAN, ping_reply_seen : BOOLEAN, ping_pending : BOOLEAN]
Loop == [at : {"poll_tx", "poll_rx", "drive_network"}, used : Idx, done : Nat]

(* Count the descriptors passed through the receive queue since the start. *)
(* Descriptor k is in the used ring when the card has filled it, and in    *)
(* the available ring before.  The BufferCount descriptors that follow the *)
(* frames handled are the ones in circulation.                             *)
Holder(k) ==
    IF k < Len(rcvd) THEN rxq.used[Entry(k)] ELSE rxq.avail[Entry(k)]

Window == Len(handled) .. Len(handled) + BufferCount - 1

(* Receiving: the four indices are the counts of frames received and       *)
(* handled, wrapped.  The descriptors in circulation are buffers, each     *)
(* there once, and a buffer that was filled and not yet handled holds the  *)
(* frame received at its place.                                            *)
RxInv ==
    /\ rxq \in Queue /\ rcvd \in Seq(RxFrames) /\ handled \in Seq(RxFrames)
    /\ rx_bufs \in [0 .. BufferCount - 1 -> RxFrames \cup {"none"}]
    /\ Len(handled) <= Len(rcvd) /\ Len(rcvd) <= Len(handled) + BufferCount
    /\ rxq.next_avail_idx = Index(Len(handled) + BufferCount)
    /\ rxq.last_used_idx = Index(Len(handled))
    /\ rxq.seen_idx = Index(Len(rcvd)) /\ rxq.used_idx = Index(Len(rcvd))
    /\ \A k \in Window : Holder(k) \in 0 .. BufferCount - 1
    /\ \A j, k \in Window : Holder(j) = Holder(k) => j = k
    /\ \A k \in Len(handled) .. Len(rcvd) - 1 : rx_bufs[Holder(k)] = rcvd[k + 1]
    /\ \A k \in 1 .. Len(handled) : handled[k] = rcvd[k]

(* poll_rx stops at an index the card had reached when the poll began.     *)
PollInv ==
    /\ npc \in Loop
    /\ npc.at = "poll_rx" =>
          \E u \in Len(handled) .. Len(rcvd) : npc.used = Index(u)

(* Sending: every frame queued was sent, and tx_inflight says whether the  *)
(* driver has yet to notice; or all but the last, which is in the transmit *)
(* buffer while tx_inflight keeps the driver from it.                      *)
TxInv ==
    /\ txq \in Queue /\ queued \in Seq(TxFrames) /\ sent \in Seq(TxFrames)
    /\ tx_buf \in TxFrames \cup {<<>>} /\ rt \in Flags
    /\ txq.next_avail_idx = Index(Len(queued))
    /\ txq.seen_idx = Index(Len(sent)) /\ txq.used_idx = Index(Len(sent))
    /\ Len(sent) <= Len(queued)
    /\ \A k \in 1 .. Len(sent) : sent[k] = queued[k]
    /\ \/ /\ Len(queued) = Len(sent)
          /\ rt.tx_inflight <=> txq.last_used_idx # txq.used_idx
       \/ /\ Len(queued) = Len(sent) + 1
          /\ rt.tx_inflight /\ txq.last_used_idx = txq.used_idx
          /\ tx_buf = queued[Len(queued)]

NetIInv == RxInv /\ PollInv /\ TxInv

(* What the proofs use of the rings' arithmetic.                           *)
LEMMA Rings ==
    /\ BufferCount \in Nat /\ BufferCount <= QUEUE_SIZE
    /\ QUEUE_SIZE \in Nat \ {0} /\ INDEX_MOD \in Nat \ {0}
    /\ \A x \in Nat : /\ Entry(x) \in Slot /\ Index(x) \in Idx
                      /\ Entry(Index(x)) = Entry(x)
                      /\ Index(Index(x) + 1) = Index(x + 1)
                      /\ Index(x) # Index(x + 1)
    /\ \A x, y \in Nat : x < y /\ y - x < QUEUE_SIZE => Entry(x) # Entry(y)
    /\ \A x \in Slot : Entry(x) = x
    /\ Index(0) = 0 /\ 0 \in Idx
<1>1. /\ BufferCount \in Nat /\ BufferCount <= QUEUE_SIZE
      /\ QUEUE_SIZE \in Nat \ {0} /\ INDEX_MOD \in Nat \ {0} /\ INDEX_MOD > 1
      /\ 0 \in Idx
  BY VirtioConstants DEF BufferCount, Smallest, Idx
<1>2. ASSUME NEW x \in Nat
      PROVE  /\ Entry(x) \in Slot /\ Index(x) \in Idx
             /\ Entry(Index(x)) = Entry(x)
             /\ Index(Index(x) + 1) = Index(x + 1)
             /\ Index(x) # Index(x + 1)
  <2>1. Entry(x) \in Slot /\ Index(x) \in Idx
    BY <1>1, DivMod DEF Slot, Idx, Entry, Index
  <2>2. Entry(Index(x)) = Entry(x)
    BY <1>1, ModMod, VirtioConstants DEF Entry, Index
  <2>3. Index(Index(x) + 1) = Index(x + 1)
    BY <1>1, ModStep DEF Index
  <2>4. Index(x) # Index(x + 1)
    <3>1. x < x + 1 /\ (x + 1) - x < INDEX_MOD /\ x + 1 \in Nat
      BY <1>1
    <3> QED BY <1>1, <3>1, ModDistinct, Zenon DEF Index
  <2> QED BY <2>1, <2>2, <2>3, <2>4
<1>3. \A x, y \in Nat : x < y /\ y - x < QUEUE_SIZE => Entry(x) # Entry(y)
  BY <1>1, ModDistinct DEF Entry
<1>4. ASSUME NEW x \in Slot PROVE Entry(x) = x
  <2>1. (QUEUE_SIZE * 0 + x) % QUEUE_SIZE = x
    BY <1>1, ModUnique DEF Slot
  <2>2. QUEUE_SIZE * 0 + x = x
    BY <1>1, Z3 DEF Slot
  <2> QED BY <2>1, <2>2 DEF Entry
<1>5. Index(0) = 0
  <2>1. (INDEX_MOD * 0 + 0) % INDEX_MOD = 0
    BY <1>1, ModUnique
  <2>2. INDEX_MOD * 0 + 0 = 0
    BY <1>1, Z3
  <2> QED BY <2>1, <2>2 DEF Index
<1> QED BY <1>1, <1>2, <1>3, <1>4, <1>5

(* The driver makes descriptor d available, as the a-th since the start.   *)
LEMMA Enqueued ==
    ASSUME NEW q \in Queue, NEW d \in Nat, NEW a \in Nat, q.next_avail_idx = Index(a)
    PROVE  LET e == enqueue_desc_to_avail(q, d)
           IN  /\ e \in Queue
               /\ e.avail = [q.avail EXCEPT ![Entry(a)] = d]
               /\ e.next_avail_idx = Index(a + 1)
               /\ e.used = q.used /\ e.last_used_idx = q.last_used_idx
               /\ e.seen_idx = q.seen_idx /\ e.used_idx = q.used_idx
<1>1. enqueue_desc_to_avail(q, d) =
          [q EXCEPT !.avail[Entry(q.next_avail_idx)] = d,
                    !.next_avail_idx = Index(q.next_avail_idx + 1)]
  BY Zenon DEF enqueue_desc_to_avail, Entry, Index
<1>2. /\ Entry(a) \in Slot /\ Index(a + 1) \in Idx
      /\ Entry(q.next_avail_idx) = Entry(a)
      /\ Index(q.next_avail_idx + 1) = Index(a + 1)
  BY Rings
<1> QED BY <1>1, <1>2, ZenonT(30) DEF Queue

(* The card returns a descriptor, as the s-th since the start.             *)
LEMMA CardReturned ==
    ASSUME NEW q \in Queue, NEW s \in Nat, q.seen_idx = Index(s), q.used_idx = Index(s)
    PROVE  LET e == Returned(q)
           IN  /\ e \in Queue
               /\ e.used = [q.used EXCEPT ![Entry(s)] = q.avail[Entry(s)]]
               /\ e.seen_idx = Index(s + 1) /\ e.used_idx = Index(s + 1)
               /\ e.avail = q.avail /\ e.last_used_idx = q.last_used_idx
               /\ e.next_avail_idx = q.next_avail_idx
<1>1. Returned(q) =
          [q EXCEPT !.seen_idx = Index(q.seen_idx + 1),
                    !.used[Entry(q.used_idx)] = q.avail[Entry(q.seen_idx)],
                    !.used_idx = Index(q.used_idx + 1)]
  BY Zenon DEF Returned, Entry, Index
<1>2. /\ Entry(s) \in Slot /\ Index(s + 1) \in Idx
      /\ Entry(q.seen_idx) = Entry(s) /\ Entry(q.used_idx) = Entry(s)
      /\ Index(q.seen_idx + 1) = Index(s + 1) /\ Index(q.used_idx + 1) = Index(s + 1)
  BY Rings
<1> DEFINE i == Entry(s)
<1> DEFINE n == Index(s + 1)
<1> DEFINE e == [q EXCEPT !.seen_idx = n, !.used[i] = q.avail[i], !.used_idx = n]
<1>3. Returned(q) = e
  BY <1>1, <1>2, Zenon
<1> HIDE DEF i, n
<1>4. i \in Slot /\ n \in Idx
  BY <1>2 DEF i, n
<1>5. q.avail[i] \in Nat
  BY <1>4 DEF Queue
<1>6. e \in Queue /\ e.used = [q.used EXCEPT ![i] = q.avail[i]]
  BY <1>4, <1>5 DEF Queue
<1>7. /\ e.seen_idx = n /\ e.used_idx = n /\ e.avail = q.avail
      /\ e.last_used_idx = q.last_used_idx /\ e.next_avail_idx = q.next_avail_idx
  BY DEF Queue
<1> HIDE DEF e
<1> QED BY <1>3, <1>6, <1>7 DEF i, n

(* virtio_legacy_init_pio leaves every buffer with the card.               *)
LEMMA NetInitIInv == virtio_legacy_init_pio => NetIInv
<1> SUFFICES ASSUME virtio_legacy_init_pio PROVE NetIInv
  OBVIOUS
<1>0. Index(0) = 0 /\ 0 \in Idx
  BY Rings
<1>1. /\ txq \in Queue /\ txq.next_avail_idx = 0 /\ txq.seen_idx = 0
      /\ txq.used_idx = 0 /\ txq.last_used_idx = 0
  BY <1>0 DEF virtio_legacy_init_pio, setup_virtio_legacy_queue, Queue, Slot
<1> DEFINE av == [i \in Slot |-> IF i < BufferCount THEN i ELSE 0]
<1>a. Index(0 + BufferCount) \in Idx /\ av \in [Slot -> Nat]
  BY Rings DEF Slot
<1>b. rxq = [avail |-> av, used |-> [i \in Slot |-> 0],
             next_avail_idx |-> Index(0 + BufferCount),
             last_used_idx |-> 0, seen_idx |-> 0, used_idx |-> 0]
  <2>1. rxq = populate_rx_ring(setup_virtio_legacy_queue)
    BY DEF virtio_legacy_init_pio
  <2> DEFINE zero == [i \in Slot |-> 0]
  <2>2. setup_virtio_legacy_queue =
            [avail |-> zero, used |-> zero, next_avail_idx |-> 0,
             last_used_idx |-> 0, seen_idx |-> 0, used_idx |-> 0]
    BY Zenon DEF setup_virtio_legacy_queue, Slot
  <2>3. av = [i \in DOMAIN zero |-> IF i < BufferCount THEN i ELSE zero[i]]
    OBVIOUS
  <2> HIDE DEF zero, av
  <2>4. rxq = [avail |-> av, used |-> zero, next_avail_idx |-> Index(0 + BufferCount),
               last_used_idx |-> 0, seen_idx |-> 0, used_idx |-> 0]
    BY <2>1, <2>2, <2>3 DEF populate_rx_ring, Index
  <2> QED BY <2>4 DEF zero
<1>2. /\ rxq \in Queue /\ rxq.next_avail_idx = Index(0 + BufferCount)
      /\ rxq.seen_idx = 0 /\ rxq.used_idx = 0 /\ rxq.last_used_idx = 0
      /\ \A i \in 0 .. BufferCount - 1 : i \in Slot /\ rxq.avail[i] = i
  <2>1. rxq \in Queue /\ rxq.avail = av
    BY <1>0, <1>a, <1>b DEF Queue
  <2>2. /\ rxq.next_avail_idx = Index(0 + BufferCount)
        /\ rxq.seen_idx = 0 /\ rxq.used_idx = 0 /\ rxq.last_used_idx = 0
    BY <1>b
  <2>3. \A i \in 0 .. BufferCount - 1 : i \in Slot /\ av[i] = i
    BY Rings DEF Slot
  <2> QED BY <2>1, <2>2, <2>3
<1>c. Len(rcvd) = 0 /\ Len(handled) = 0 /\ BufferCount \in Nat
  BY Rings DEF virtio_legacy_init_pio
<1>3. \A k \in Window : k \in 0 .. BufferCount - 1 /\ Holder(k) = k
  <2>2. \A k \in Window : k \in 0 .. BufferCount - 1 /\ ~(k < Len(rcvd))
    BY <1>c DEF Window
  <2> QED BY <1>2, <2>2, Rings DEF Holder
<1>4. RxInv
  <2>1. /\ rcvd \in Seq(RxFrames) /\ handled \in Seq(RxFrames)
        /\ rx_bufs \in [0 .. BufferCount - 1 -> RxFrames \cup {"none"}]
    BY DEF virtio_legacy_init_pio
  <2> QED BY <1>0, <1>2, <1>3, <1>c, <2>1 DEF RxInv
<1>5. PollInv
  BY <1>0 DEF PollInv, Loop, virtio_legacy_init_pio
<1>6. TxInv
  BY <1>0, <1>1 DEF TxInv, Flags, virtio_legacy_init_pio
<1> QED BY <1>4, <1>5, <1>6 DEF NetIInv

(* The transmit side, as one record.                                       *)
DriverState == [q : Queue, buf : TxFrames \cup {<<>>}, rt : Flags, queued : Seq(TxFrames)]

(* A call leaves the transmit side alone ...                               *)
SameTx(d, e) ==
    /\ e \in DriverState /\ e.q = d.q /\ e.buf = d.buf /\ e.queued = d.queued
    /\ e.rt.tx_inflight = d.rt.tx_inflight

(* ... or queues one frame, which it only does when none is in flight.     *)
QueuedOne(d, e) ==
    /\ e \in DriverState /\ ~d.rt.tx_inflight /\ e.rt.tx_inflight
    /\ \E f \in TxFrames : /\ e.buf = f /\ e.queued = Append(d.queued, f)
                           /\ e.q = enqueue_desc_to_avail(d.q, 0)

Indexed(d) == \E a \in Nat : d.q.next_avail_idx = Index(a)

(* queue_tx_frame refuses while a frame is in flight.                      *)
LEMMA FrameQueued ==
    ASSUME NEW d \in DriverState, Indexed(d), NEW f \in TxFrames
    PROVE  LET e == queue_tx_frame(d, f)
           IN  /\ d.rt.tx_inflight => e = d
               /\ ~d.rt.tx_inflight =>
                     /\ QueuedOne(d, e) /\ Took(d, e)
<1>1. CASE d.rt.tx_inflight
  BY <1>1 DEF queue_tx_frame
<1>2. CASE ~d.rt.tx_inflight
  <2> DEFINE q == enqueue_desc_to_avail(d.q, 0)
  <2> DEFINE s == Append(d.queued, f)
  <2>0. d.queued \in Seq(TxFrames) /\ d.q \in Queue /\ d.rt \in Flags
    BY DEF DriverState
  <2>1. q \in Queue
    BY <2>0, Enqueued DEF Indexed
  <2>2. s \in Seq(TxFrames) /\ Len(s) > Len(d.queued)
    BY <2>0, AppendProperties
  <2>3. queue_tx_frame(d, f) = [d EXCEPT !.q = q, !.buf = f, !.rt.tx_inflight = TRUE, !.queued = s]
    BY <1>2 DEF queue_tx_frame, DriverState
  <2> HIDE DEF q, s
  <2>4. LET e == [d EXCEPT !.q = q, !.buf = f, !.rt.tx_inflight = TRUE, !.queued = s]
        IN  /\ e \in DriverState /\ e.rt.tx_inflight
            /\ e.buf = f /\ e.queued = s /\ e.q = q
    BY <2>1, <2>2 DEF DriverState, Flags
  <2> QED BY <1>2, <2>2, <2>3, <2>4 DEF QueuedOne, Took, q, s
<1> QED BY <1>1, <1>2

(* The other flags do not matter to the transmit side.                     *)
LEMMA FlagSet ==
    ASSUME NEW d \in DriverState, NEW e, NEW b \in BOOLEAN
    PROVE  LET e1 == [e EXCEPT !.rt.arp_sent = b]
               e2 == [e EXCEPT !.rt.ping_sent = b]
               e3 == [e EXCEPT !.rt.ping_pending = b]
               e4 == [e EXCEPT !.rt.ping_reply_seen = b]
           IN  /\ SameTx(d, e) => /\ SameTx(d, e1) /\ SameTx(d, e2)
                                  /\ SameTx(d, e3) /\ SameTx(d, e4)
               /\ QueuedOne(d, e) => /\ QueuedOne(d, e1) /\ QueuedOne(d, e2)
                                     /\ QueuedOne(d, e3) /\ QueuedOne(d, e4)
<1>1. ASSUME e \in DriverState,
             NEW x \in {[e EXCEPT !.rt.arp_sent = b], [e EXCEPT !.rt.ping_sent = b],
                        [e EXCEPT !.rt.ping_pending = b], [e EXCEPT !.rt.ping_reply_seen = b]}
      PROVE  /\ x \in DriverState /\ x.q = e.q /\ x.buf = e.buf /\ x.queued = e.queued
             /\ x.rt.tx_inflight = e.rt.tx_inflight
  BY <1>1 DEF DriverState, Flags
<1>2. ASSUME SameTx(d, e),
             NEW x \in {[e EXCEPT !.rt.arp_sent = b], [e EXCEPT !.rt.ping_sent = b],
                        [e EXCEPT !.rt.ping_pending = b], [e EXCEPT !.rt.ping_reply_seen = b]}
      PROVE  SameTx(d, x)
  BY <1>1, <1>2 DEF SameTx
<1>3. ASSUME QueuedOne(d, e),
             NEW x \in {[e EXCEPT !.rt.arp_sent = b], [e EXCEPT !.rt.ping_sent = b],
                        [e EXCEPT !.rt.ping_pending = b], [e EXCEPT !.rt.ping_reply_seen = b]}
      PROVE  QueuedOne(d, x)
  BY <1>1, <1>3 DEF QueuedOne
<1> QED BY <1>2, <1>3

(* What drive_network calls queues at most one frame.                      *)
LEMMA RequestsSent ==
    ASSUME NEW d \in DriverState, Indexed(d), NEW h \in BOOLEAN
    PROVE  /\ SameTx(d, d)
           /\ LET e == send_arp_request(d) IN SameTx(d, e) \/ QueuedOne(d, e)
           /\ LET e == send_icmp_echo(d) IN SameTx(d, e) \/ QueuedOne(d, e)
           /\ LET e == try_send_pending_icmp(d) IN SameTx(d, e) \/ QueuedOne(d, e)
           /\ LET e == drive_network(d, h) IN SameTx(d, e) \/ QueuedOne(d, e)
<1>0. SameTx(d, d)
  BY DEF SameTx
<1>1. LET e == send_arp_request(d) IN SameTx(d, e) \/ QueuedOne(d, e)
  <2>1. <<"arp", Len(d.queued)>> \in TxFrames
    BY DEF TxFrames, DriverState
  <2> DEFINE e == queue_tx_frame(d, <<"arp", Len(d.queued)>>)
  <2>2. SameTx(d, e) \/ QueuedOne(d, e)
    BY <1>0, <2>1, FrameQueued
  <2> HIDE DEF e
  <2>3. LET x == [e EXCEPT !.rt.arp_sent = TRUE] IN SameTx(d, x) \/ QueuedOne(d, x)
    BY <2>2, FlagSet
  <2> QED BY <2>2, <2>3 DEF send_arp_request, e
<1>2. LET e == send_icmp_echo(d) IN SameTx(d, e) \/ QueuedOne(d, e)
  <2>1. <<"ping", Len(d.queued)>> \in TxFrames
    BY DEF TxFrames, DriverState
  <2> DEFINE e == queue_tx_frame(d, <<"ping", Len(d.queued)>>)
  <2>2. SameTx(d, e) \/ QueuedOne(d, e)
    BY <1>0, <2>1, FrameQueued
  <2> HIDE DEF e
  <2>3. LET x == [e EXCEPT !.rt.ping_sent = TRUE] IN SameTx(d, x) \/ QueuedOne(d, x)
    BY <2>2, FlagSet
  <2> QED BY <2>2, <2>3 DEF send_icmp_echo, e
<1>3. LET e == try_send_pending_icmp(d) IN SameTx(d, e) \/ QueuedOne(d, e)
  <2> DEFINE e == send_icmp_echo(d)
  <2>1. SameTx(d, e) \/ QueuedOne(d, e)
    BY <1>2
  <2> HIDE DEF e
  <2>2. (~e.rt.tx_inflight) \in BOOLEAN
    BY Zenon
  <2>3. LET x == [e EXCEPT !.rt.ping_pending = ~e.rt.tx_inflight]
        IN  SameTx(d, x) \/ QueuedOne(d, x)
    BY <2>1, <2>2, FlagSet
  <2>4. SameTx(d, [d EXCEPT !.rt.ping_pending = TRUE])
    BY <1>0, FlagSet
  <2> QED BY <2>3, <2>4 DEF try_send_pending_icmp, e
<1>4. LET e == drive_network(d, h) IN SameTx(d, e) \/ QueuedOne(d, e)
  <2>1. drive_network(d, h) \in {d, send_arp_request(d), try_send_pending_icmp(d)}
    BY Zenon DEF drive_network
  <2> QED BY <1>0, <1>1, <1>3, <2>1
<1> QED BY <1>0, <1>1, <1>2, <1>3, <1>4

(* So does handling a frame received.                                      *)
LEMMA FrameHandled ==
    ASSUME NEW d \in DriverState, Indexed(d), NEW f
    PROVE  LET e == handle_rx_frame(d, f) IN SameTx(d, e) \/ QueuedOne(d, e)
<1>0. SameTx(d, d)
  BY DEF SameTx
<1>1. LET e == handle_ipv4(d, f) IN SameTx(d, e)
  BY <1>0, FlagSet DEF handle_ipv4
<1>2. LET e == handle_arp(d, f) IN SameTx(d, e) \/ QueuedOne(d, e)
  <2> DEFINE known == [d EXCEPT !.rt.gateway = TRUE, !.rt.ping_pending = TRUE]
  <2> DEFINE e == send_icmp_echo(known)
  <2>1. SameTx(d, known) /\ known \in DriverState
    BY DEF SameTx, DriverState, Flags
  <2> HIDE DEF known
  <2>2. Indexed(known)
    BY <2>1 DEF Indexed, SameTx
  <2>3. SameTx(known, e) \/ QueuedOne(known, e)
    BY <2>1, <2>2, RequestsSent
  <2> HIDE DEF e
  <2>4. SameTx(d, e) \/ QueuedOne(d, e)
    BY <2>1, <2>3 DEF SameTx, QueuedOne
  <2>5. LET x == [e EXCEPT !.rt.ping_pending = FALSE] IN SameTx(d, x) \/ QueuedOne(d, x)
    BY <2>4, FlagSet
  <2>6. handle_arp(d, f) \in {d, known, e, [e EXCEPT !.rt.ping_pending = FALSE]}
    BY Zenon DEF handle_arp, known, e
  <2> QED BY <1>0, <2>1, <2>4, <2>5, <2>6
<1>3. handle_rx_frame(d, f) \in {d, handle_arp(d, f), handle_ipv4(d, f)}
  BY Zenon DEF handle_rx_frame
<1> QED BY <1>0, <1>1, <1>2, <1>3

(* Either way the transmit side keeps its invariant.                       *)
LEMMA TxKept ==
    ASSUME NetIInv, NEW e, Becomes(e), SameTx(Driver, e) \/ QueuedOne(Driver, e),
           sent' = sent
    PROVE  TxInv'
<1>0. /\ Driver.q = txq /\ Driver.buf = tx_buf /\ Driver.rt = rt
      /\ Driver.queued = queued
  BY DEF Driver
<1>1. CASE SameTx(Driver, e)
  BY <1>0, <1>1 DEF NetIInv, TxInv, SameTx, DriverState, Becomes
<1>2. CASE QueuedOne(Driver, e)
  <2>1. PICK f \in TxFrames : /\ e.buf = f /\ e.queued = Append(queued, f)
                              /\ e.q = enqueue_desc_to_avail(txq, 0)
    BY <1>0, <1>2, Zenon DEF QueuedOne
  <2>2. /\ queued' = Append(queued, f) /\ tx_buf' = f /\ rt' \in Flags
        /\ rt'.tx_inflight /\ txq' = enqueue_desc_to_avail(txq, 0) /\ ~rt.tx_inflight
    BY <1>0, <1>2, <2>1 DEF QueuedOne, DriverState, Becomes
  <2>3. /\ txq \in Queue /\ queued \in Seq(TxFrames) /\ Len(queued) \in Nat
        /\ txq.next_avail_idx = Index(Len(queued))
        /\ Len(queued) = Len(sent) /\ txq.last_used_idx = txq.used_idx
        /\ \A k \in 1 .. Len(sent) : sent[k] = queued[k]
    <3>1. txq \in Queue /\ queued \in Seq(TxFrames) /\ Len(queued) \in Nat
      BY DEF NetIInv, TxInv
    <3>2. Len(queued) = Len(sent) /\ txq.last_used_idx = txq.used_idx
      BY <2>2, Zenon DEF NetIInv, TxInv
    <3> QED BY <3>1, <3>2 DEF NetIInv, TxInv
  <2>4. /\ txq' \in Queue /\ txq'.next_avail_idx = Index(Len(queued) + 1)
        /\ txq'.last_used_idx = txq.last_used_idx
        /\ txq'.seen_idx = txq.seen_idx /\ txq'.used_idx = txq.used_idx
    <3>1. 0 \in Nat
      OBVIOUS
    <3> QED BY <2>2, <2>3, <3>1, Enqueued, Zenon
  <2>5. /\ queued' \in Seq(TxFrames) /\ Len(queued') = Len(queued) + 1
        /\ queued'[Len(queued) + 1] = f
        /\ \A k \in 1 .. Len(queued) : queued'[k] = queued[k]
    BY <2>2, <2>3, AppendProperties
  <2> QED BY <2>2, <2>3, <2>4, <2>5 DEF NetIInv, TxInv
<1> QED BY <1>1, <1>2

(* The driver's state, as the calls take it.                               *)
LEMMA DriverTyped == ASSUME NetIInv PROVE Driver \in DriverState /\ Indexed(Driver)
<1>1. /\ txq \in Queue /\ tx_buf \in TxFrames \cup {<<>>} /\ rt \in Flags
      /\ queued \in Seq(TxFrames) /\ txq.next_avail_idx = Index(Len(queued))
      /\ Len(queued) \in Nat
  BY DEF NetIInv, TxInv
<1> QED BY <1>1 DEF Driver, DriverState, Indexed

(* The card fills a buffer: it is in circulation, and no other frame's.    *)
LEMMA CardReceivesKeeps == ASSUME NetIInv, card_receives PROVE NetIInv'
<1>1. PICK f \in RxFrames :
          /\ rx_bufs' = [rx_bufs EXCEPT ![rxq.avail[rxq.seen_idx % QUEUE_SIZE]] = f]
          /\ rcvd' = Append(rcvd, f)
  BY DEF card_receives
<1>2. /\ rxq.seen_idx # rxq.next_avail_idx /\ rxq' = Returned(rxq)
      /\ UNCHANGED <<txq, tx_buf, rt, npc, handled, queued, sent>>
  BY DEF card_receives
<1> DEFINE R == Len(rcvd)
<1> DEFINE H == Len(handled)
<1>3. /\ rxq \in Queue /\ rcvd \in Seq(RxFrames) /\ handled \in Seq(RxFrames)
      /\ R \in Nat /\ H \in Nat /\ H <= R /\ R < H + BufferCount
      /\ rxq.seen_idx = Index(R) /\ rxq.used_idx = Index(R)
  <2>1. BufferCount \in Nat
    BY Rings
  <2>2. R # H + BufferCount
    BY <1>2 DEF NetIInv, RxInv
  <2> QED BY <2>1, <2>2 DEF NetIInv, RxInv
<1>4. /\ rxq' \in Queue /\ rxq'.used = [rxq.used EXCEPT ![Entry(R)] = rxq.avail[Entry(R)]]
      /\ rxq'.seen_idx = Index(R + 1) /\ rxq'.used_idx = Index(R + 1)
      /\ rxq'.avail = rxq.avail /\ rxq'.last_used_idx = rxq.last_used_idx
      /\ rxq'.next_avail_idx = rxq.next_avail_idx
  BY <1>2, <1>3, CardReturned
<1>5. /\ rcvd' \in Seq(RxFrames) /\ Len(rcvd') = R + 1 /\ rcvd'[R + 1] = f
      /\ \A k \in 1 .. R : rcvd'[k] = rcvd[k]
  BY <1>1, <1>3, AppendProperties
<1>0. BufferCount \in Nat /\ BufferCount <= QUEUE_SIZE /\ QUEUE_SIZE \in Nat
  BY Rings
<1>6. /\ R \in Window /\ Window' = Window
      /\ \A k \in Window : k \in Nat /\ k - H < QUEUE_SIZE /\ H <= k
  <2>1. Window' = Window
    BY <1>2, Zenon DEF Window, BufferCount
  <2> QED BY <1>0, <1>3, <2>1 DEF Window
<1>7. Holder(R) = rxq.avail[Entry(R)]
  BY <1>3 DEF Holder
<1>8. rx_bufs' = [rx_bufs EXCEPT ![Holder(R)] = f]
  <2>1. rxq.seen_idx % QUEUE_SIZE = Entry(R)
    <3>1. Entry(Index(R)) = Entry(R)
      BY <1>3, Rings
    <3> QED BY <1>3, <3>1 DEF Entry
  <2> QED BY <1>1, <1>7, <2>1
<1>9. ASSUME NEW k \in Window PROVE Holder(k)' = Holder(k)
  <2>0. Entry(k) \in Slot /\ Entry(R) \in Slot /\ rxq.used \in [Slot -> Nat]
    BY <1>3, <1>6, Rings DEF Queue
  <2>1. CASE k < R
    <3>1. Entry(k) # Entry(R)
      <4>1. k \in Nat /\ R - k < QUEUE_SIZE
        BY <1>0, <1>3, <1>6, <2>1
      <4> QED BY <1>3, <2>1, <4>1, Rings
    <3> QED BY <1>3, <1>4, <1>5, <1>6, <2>0, <2>1, <3>1 DEF Holder
  <2>2. CASE k = R
    BY <1>3, <1>4, <1>5, <2>0, <2>2, <1>7 DEF Holder
  <2>3. CASE k > R
    BY <1>3, <1>4, <1>5, <1>6, <2>3 DEF Holder
  <2> QED BY <1>3, <1>6, <2>1, <2>2, <2>3
<1>10. RxInv'
  <2>1. /\ \A k \in Window : Holder(k) \in 0 .. BufferCount - 1
        /\ \A j, k \in Window : Holder(j) = Holder(k) => j = k
        /\ \A k \in H .. R - 1 : rx_bufs[Holder(k)] = rcvd[k + 1]
        /\ \A k \in 1 .. H : handled[k] = rcvd[k]
        /\ rx_bufs \in [0 .. BufferCount - 1 -> RxFrames \cup {"none"}]
        /\ rxq.next_avail_idx = Index(H + BufferCount) /\ rxq.last_used_idx = Index(H)
    BY DEF NetIInv, RxInv
  <2>2. ASSUME NEW k \in H .. R PROVE rx_bufs'[Holder(k)'] = rcvd'[k + 1]
    <3>1. k \in Window
      BY <1>3, Rings DEF Window
    <3>2. CASE k = R
      BY <1>5, <1>6, <1>8, <1>9, <2>1, <3>2
    <3>3. CASE k \in H .. R - 1
      <4>1. Holder(k) # Holder(R)
        BY <1>3, <1>6, <2>1, <3>1, <3>3
      <4>2. rx_bufs'[Holder(k)] = rcvd[k + 1]
        BY <1>6, <1>8, <2>1, <3>1, <3>3, <4>1
      <4> QED BY <1>3, <1>5, <1>9, <3>1, <3>3, <4>2
    <3> QED BY <1>3, <3>2, <3>3
  <2>3. rx_bufs' \in [0 .. BufferCount - 1 -> RxFrames \cup {"none"}]
    BY <1>6, <1>8, <2>1
  <2>4. \A k \in 1 .. H : handled'[k] = rcvd'[k]
    BY <1>2, <1>3, <1>5, <2>1
  <2>5. \A j, k \in Window : Holder(j)' = Holder(k)' => j = k
    BY <1>9, <2>1
  <2>6. \A k \in Window : Holder(k)' \in 0 .. BufferCount - 1
    BY <1>9, <2>1
  <2>7. /\ handled' = handled /\ Len(rcvd') = R + 1 /\ H <= R + 1 /\ R + 1 <= H + BufferCount
        /\ (R + 1) - 1 = R
    BY <1>2, <1>3, <1>5, Rings
  <2> QED BY <1>3, <1>4, <1>5, <1>6, <2>1, <2>2, <2>3, <2>4, <2>5, <2>6, <2>7 DEF RxInv
<1>11. PollInv'
  BY <1>2, <1>3, <1>5 DEF NetIInv, PollInv
<1>12. TxInv'
  BY <1>2 DEF NetIInv, TxInv
<1> QED BY <1>10, <1>11, <1>12 DEF NetIInv

(* The card sends: the one frame not sent yet is in the buffer.            *)
LEMMA CardSendsKeeps == ASSUME NetIInv, card_sends PROVE NetIInv'
<1>1. /\ txq.seen_idx # txq.next_avail_idx /\ txq' = Returned(txq)
      /\ sent' = Append(sent, tx_buf)
      /\ UNCHANGED <<rxq, rx_bufs, tx_buf, rt, npc, rcvd, handled, queued>>
  BY DEF card_sends
<1>2. /\ txq \in Queue /\ queued \in Seq(TxFrames) /\ sent \in Seq(TxFrames)
      /\ Len(sent) \in Nat /\ rt \in Flags
      /\ txq.next_avail_idx = Index(Len(queued))
      /\ txq.seen_idx = Index(Len(sent)) /\ txq.used_idx = Index(Len(sent))
      /\ \A k \in 1 .. Len(sent) : sent[k] = queued[k]
  BY DEF NetIInv, TxInv
<1>3. /\ Len(queued) = Len(sent) + 1 /\ rt.tx_inflight
      /\ txq.last_used_idx = txq.used_idx /\ tx_buf = queued[Len(queued)]
  BY <1>1, <1>2, Zenon DEF NetIInv, TxInv
<1>4. tx_buf \in TxFrames
  BY <1>2, <1>3
<1>5. /\ sent' \in Seq(TxFrames) /\ Len(sent') = Len(sent) + 1
      /\ sent'[Len(sent) + 1] = tx_buf
      /\ \A k \in 1 .. Len(sent) : sent'[k] = sent[k]
  BY <1>1, <1>2, <1>4, AppendProperties
<1>6. /\ txq' \in Queue /\ txq'.seen_idx = Index(Len(sent) + 1)
      /\ txq'.used_idx = Index(Len(sent) + 1)
      /\ txq'.last_used_idx = txq.last_used_idx
      /\ txq'.next_avail_idx = txq.next_avail_idx
  BY <1>1, <1>2, CardReturned
<1>7. txq'.last_used_idx # txq'.used_idx
  BY <1>2, <1>3, <1>6, Rings
<1>8. \A k \in 1 .. Len(sent') : sent'[k] = queued[k]
  BY <1>2, <1>3, <1>5
<1>9. TxInv'
  <2>1. /\ queued' = queued /\ rt' = rt /\ tx_buf' = tx_buf
        /\ Len(queued) = Len(sent') /\ Len(sent') \in Nat
    BY <1>1, <1>2, <1>3, <1>5
  <2>2. rt'.tx_inflight <=> txq'.last_used_idx # txq'.used_idx
    BY <1>3, <1>7, <2>1
  <2>3. Len(sent') <= Len(queued')
    BY <2>1
  <2> QED BY <1>2, <1>4, <1>5, <1>6, <1>8, <2>1, <2>2, <2>3 DEF TxInv
<1>10. RxInv' /\ PollInv'
  <2>1. Window' = Window /\ \A k : Holder(k)' = Holder(k)
    BY <1>1, Zenon DEF Window, Holder, BufferCount, Entry
  <2> QED BY <1>1, <2>1 DEF NetIInv, RxInv, PollInv
<1> QED BY <1>9, <1>10 DEF NetIInv

(* poll_tx: tx_inflight falls only when the frame has been sent.           *)
LEMMA PollTxKeeps == ASSUME NetIInv, poll_tx PROVE NetIInv'
<1>1. /\ txq' = Consumed(txq, txq.used_idx)
      /\ rt' = [rt EXCEPT !.tx_inflight = @ /\ txq.last_used_idx = txq.used_idx]
      /\ npc' = [at |-> "poll_rx", used |-> rxq.used_idx, done |-> 0]
      /\ UNCHANGED <<rxq, rx_bufs, tx_buf, rcvd, handled, queued, sent>>
  BY DEF poll_tx
<1>2. txq \in Queue /\ rt \in Flags
  BY DEF NetIInv, TxInv
<1>3. /\ txq' \in Queue /\ txq'.last_used_idx = txq.used_idx
      /\ txq'.used_idx = txq.used_idx /\ txq'.seen_idx = txq.seen_idx
      /\ txq'.next_avail_idx = txq.next_avail_idx
  BY <1>1, <1>2 DEF Consumed, Queue
<1>4. /\ rt' \in Flags
      /\ rt'.tx_inflight <=> rt.tx_inflight /\ txq.last_used_idx = txq.used_idx
  BY <1>1, <1>2 DEF Flags
<1>5. TxInv'
  <2>1. CASE Len(queued) = Len(sent)
    <3>1. rt.tx_inflight <=> txq.last_used_idx # txq.used_idx
      BY <2>1 DEF NetIInv, TxInv
    <3>2. rt'.tx_inflight <=> txq'.last_used_idx # txq'.used_idx
      BY <1>3, <1>4, <3>1
    <3> QED BY <1>1, <1>3, <1>4, <2>1, <3>2 DEF NetIInv, TxInv
  <2>2. CASE Len(queued) # Len(sent)
    <3>1. /\ Len(queued) = Len(sent) + 1 /\ rt.tx_inflight
          /\ txq.last_used_idx = txq.used_idx /\ tx_buf = queued[Len(queued)]
      BY <2>2, Zenon DEF NetIInv, TxInv
    <3>2. rt'.tx_inflight /\ txq'.last_used_idx = txq'.used_idx
      BY <1>3, <1>4, <3>1
    <3> QED BY <1>1, <1>3, <1>4, <3>1, <3>2 DEF NetIInv, TxInv
  <2> QED BY <2>1, <2>2
<1>6. RxInv'
  <2>1. Window' = Window /\ \A k : Holder(k)' = Holder(k)
    BY <1>1, Zenon DEF Window, Holder, BufferCount, Entry
  <2> QED BY <1>1, <2>1 DEF NetIInv, RxInv
<1>7. PollInv'
  <2>1. /\ Len(handled) <= Len(rcvd) /\ Len(rcvd) \in Nat /\ Len(handled) \in Nat
        /\ rxq.used_idx = Index(Len(rcvd)) /\ rxq \in Queue
    BY DEF NetIInv, RxInv
  <2>2. rxq.used_idx \in Idx
    BY <2>1 DEF Queue
  <2> QED BY <1>1, <2>1, <2>2 DEF PollInv, Loop
<1> QED BY <1>5, <1>6, <1>7 DEF NetIInv

(* drive_network: at most one frame is queued.                             *)
LEMMA DriveKeeps == ASSUME NetIInv, run_virtio_loop PROVE NetIInv'
<1>1. PICK h \in BOOLEAN : Becomes(drive_network(Driver, h))
  BY DEF run_virtio_loop
<1>2. /\ npc' = [at |-> "poll_tx", used |-> 0, done |-> 0]
      /\ UNCHANGED <<rxq, rx_bufs, rcvd, handled, sent>>
  BY DEF run_virtio_loop
<1>3. TxInv'
  BY <1>1, <1>2, DriverTyped, RequestsSent, TxKept
<1>4. RxInv'
  <2>1. Window' = Window /\ \A k : Holder(k)' = Holder(k)
    BY <1>2, Zenon DEF Window, Holder, BufferCount, Entry
  <2> QED BY <1>2, <2>1 DEF NetIInv, RxInv
<1>5. PollInv'
  BY <1>2, Rings DEF PollInv, Loop
<1> QED BY <1>3, <1>4, <1>5 DEF NetIInv

(* What poll_rx does with the next frame, apart from handling it.          *)
TakesFrame(desc) ==
    /\ npc.at = "poll_rx" /\ rxq.last_used_idx # npc.used
    /\ desc = rxq.used[rxq.last_used_idx % QUEUE_SIZE]
    /\ rxq' = [enqueue_desc_to_avail(rxq, desc) EXCEPT
                 !.last_used_idx = (@ + 1) % INDEX_MOD]
    /\ handled' = Append(handled, rx_bufs[desc]) /\ npc' = [npc EXCEPT !.done = @ + 1]
    /\ rx_bufs' = rx_bufs /\ rcvd' = rcvd

(* The oldest buffer in circulation is handled and becomes the newest: its *)
(* entry of the available ring is free, for fewer than QUEUE_SIZE others   *)
(* are in circulation.                                                     *)
LEMMA PollRxTakes ==
    ASSUME NetIInv, NEW desc, TakesFrame(desc)
    PROVE  RxInv' /\ PollInv'
<1>b. PICK R \in Nat, H \in Nat : R = Len(rcvd) /\ H = Len(handled)
  BY DEF NetIInv, RxInv
<1> DEFINE B == BufferCount
<1>0. B \in Nat /\ B <= QUEUE_SIZE /\ QUEUE_SIZE \in Nat
  BY Rings
<1>1. /\ rxq \in Queue /\ rcvd \in Seq(RxFrames) /\ handled \in Seq(RxFrames)
      /\ rx_bufs \in [0 .. B - 1 -> RxFrames \cup {"none"}]
      /\ R \in Nat /\ H \in Nat /\ H <= R /\ R <= H + B
      /\ rxq.next_avail_idx = Index(H + B) /\ rxq.last_used_idx = Index(H)
      /\ rxq.seen_idx = Index(R) /\ rxq.used_idx = Index(R)
      /\ \A k \in Window : Holder(k) \in 0 .. B - 1
      /\ \A j, k \in Window : Holder(j) = Holder(k) => j = k
      /\ \A k \in H .. R - 1 : rx_bufs[Holder(k)] = rcvd[k + 1]
      /\ \A k \in 1 .. H : handled[k] = rcvd[k]
  BY <1>b DEF NetIInv, RxInv
<1>a. rx_bufs' = rx_bufs /\ rcvd' = rcvd
  BY DEF TakesFrame
<1>2. PICK u \in H .. R : npc.used = Index(u)
  BY <1>b DEF NetIInv, PollInv, TakesFrame
<1>3. u # H /\ H < R
  <2>1. u # H
    BY <1>1, <1>2 DEF TakesFrame
  <2> QED BY <1>1, <1>2, <2>1
<1>4. H \in Window /\ desc = Holder(H) /\ desc \in 0 .. B - 1 /\ desc \in Nat
  <2>1. H \in Window
    BY <1>b, <1>0, <1>1, <1>3 DEF Window
  <2>2. rxq.last_used_idx % QUEUE_SIZE = Entry(H)
    <3>1. Entry(Index(H)) = Entry(H)
      BY <1>1, Rings
    <3> QED BY <1>1, <3>1 DEF Entry
  <2>3. desc = Holder(H)
    BY <1>b, <1>3, <2>2 DEF Holder, TakesFrame
  <2> QED BY <1>0, <1>1, <2>1, <2>3
<1>5. rx_bufs[desc] = rcvd[H + 1] /\ rx_bufs[desc] \in RxFrames
  <2>1. H \in H .. R - 1 /\ H + 1 \in 1 .. R
    BY <1>1, <1>3
  <2>2. rcvd[H + 1] \in RxFrames
    BY <1>b, <1>1, <2>1
  <2> QED BY <1>1, <1>4, <2>1, <2>2
<1>6. /\ handled' \in Seq(RxFrames) /\ Len(handled') = H + 1
      /\ handled'[H + 1] = rcvd[H + 1] /\ \A k \in 1 .. H : handled'[k] = handled[k]
  <2>1. handled' = Append(handled, rx_bufs[desc])
    BY DEF TakesFrame
  <2> QED BY <1>b, <1>1, <1>5, <2>1, AppendProperties
<1>7. /\ rxq' \in Queue /\ rxq'.avail = [rxq.avail EXCEPT ![Entry(H + B)] = desc]
      /\ rxq'.next_avail_idx = Index((H + B) + 1) /\ rxq'.last_used_idx = Index(H + 1)
      /\ rxq'.used = rxq.used /\ rxq'.seen_idx = rxq.seen_idx
      /\ rxq'.used_idx = rxq.used_idx
  <2> DEFINE e == enqueue_desc_to_avail(rxq, desc)
  <2>1. H + B \in Nat
    BY <1>0, <1>1
  <2>2. /\ e \in Queue /\ e.avail = [rxq.avail EXCEPT ![Entry(H + B)] = desc]
        /\ e.next_avail_idx = Index((H + B) + 1)
        /\ e.used = rxq.used /\ e.last_used_idx = rxq.last_used_idx
        /\ e.seen_idx = rxq.seen_idx /\ e.used_idx = rxq.used_idx
    BY <1>1, <1>4, <2>1, Enqueued
  <2>3. (e.last_used_idx + 1) % INDEX_MOD = Index(H + 1)
    <3>1. Index(Index(H) + 1) = Index(H + 1)
      BY <1>1, Rings
    <3> QED BY <1>1, <2>2, <3>1 DEF Index
  <2> HIDE DEF e
  <2>4. rxq' = [e EXCEPT !.last_used_idx = Index(H + 1)]
    <3>1. rxq' = [e EXCEPT !.last_used_idx = (@ + 1) % INDEX_MOD]
      BY DEF e, TakesFrame
    <3> QED BY <2>2, <2>3, <3>1 DEF Queue
  <2>5. Index(H + 1) \in Idx
    BY <1>1, Rings
  <2>6. rxq' \in Queue /\ rxq'.last_used_idx = Index(H + 1)
    BY <2>2, <2>4, <2>5 DEF Queue
  <2>7. /\ rxq'.avail = e.avail /\ rxq'.next_avail_idx = e.next_avail_idx
        /\ rxq'.used = e.used /\ rxq'.seen_idx = e.seen_idx /\ rxq'.used_idx = e.used_idx
    BY <2>2, <2>4 DEF Queue
  <2> QED BY <2>2, <2>6, <2>7
<1>8. ASSUME NEW k \in H + 1 .. H + B - 1
      PROVE  k \in Window /\ Holder(k)' = Holder(k)
  <2>1. k \in Window /\ k \in Nat
    BY <1>b, <1>0, <1>1 DEF Window
  <2>2. Entry(k) # Entry(H + B)
    <3>1. k < H + B /\ (H + B) - k < QUEUE_SIZE /\ H + B \in Nat
      BY <1>0, <1>1
    <3> QED BY <2>1, <3>1, Rings
  <2>3. Entry(k) \in Slot /\ rxq.avail \in [Slot -> Nat]
    BY <1>1, <2>1, Rings DEF Queue
  <2>4. rxq'.avail[Entry(k)] = rxq.avail[Entry(k)]
    BY <1>7, <2>2, <2>3
  <2> QED BY <1>a, <1>b, <1>7, <2>1, <2>4 DEF Holder
<1>9. Holder(H + B)' = desc
  <2>1. ~(H + B < R) /\ H + B \in Nat
    BY <1>0, <1>1
  <2>2. Entry(H + B) \in Slot /\ rxq.avail \in [Slot -> Nat]
    BY <1>1, <2>1, Rings DEF Queue
  <2> QED BY <1>a, <1>b, <1>7, <2>1, <2>2 DEF Holder
<1>10. /\ Window' = H + 1 .. (H + B)
       /\ \A k \in Window' : k = H + B \/ k \in H + 1 .. H + B - 1
  <2>1. Window' = H + 1 .. (H + 1) + B - 1
    BY <1>6 DEF Window
  <2> QED BY <1>0, <1>1, <2>1
<1>11. \A k \in Window' : Holder(k)' \in 0 .. B - 1
  BY <1>1, <1>4, <1>8, <1>9, <1>10
<1>12. ASSUME NEW j \in Window', NEW k \in Window', Holder(j)' = Holder(k)' PROVE j = k
  <2>1. \A i \in H + 1 .. H + B - 1 : Holder(i)' # desc
    <3>1. ASSUME NEW i \in H + 1 .. H + B - 1 PROVE Holder(i)' # desc
      <4>1. i # H
        BY <1>0, <1>1
      <4> QED BY <1>1, <1>4, <1>8, <4>1
    <3> QED BY <3>1
  <2> QED BY <1>1, <1>8, <1>9, <1>10, <1>12, <2>1
<1>13. \A k \in H + 1 .. R - 1 : rx_bufs[Holder(k)'] = rcvd[k + 1]
  <2>1. ASSUME NEW k \in H + 1 .. R - 1 PROVE rx_bufs[Holder(k)'] = rcvd[k + 1]
    <3>1. k \in H + 1 .. H + B - 1 /\ k \in H .. R - 1
      BY <1>0, <1>1
    <3> QED BY <1>1, <1>8, <3>1
  <2> QED BY <2>1
<1>14. \A k \in 1 .. H + 1 : handled'[k] = rcvd[k]
  BY <1>1, <1>6
<1>15. RxInv'
  <2>1. (H + B) + 1 = (H + 1) + B /\ H + 1 <= R /\ R <= (H + 1) + B
    BY <1>0, <1>1, <1>3
  <2> QED BY <1>a, <1>b, <1>1, <1>6, <1>7, <1>11, <1>12, <1>13, <1>14, <2>1 DEF RxInv
<1>16. PollInv'
  <2>1. npc \in Loop
    BY DEF NetIInv, PollInv
  <2>2. npc' \in Loop /\ npc'.used = Index(u)
    BY <1>2, <2>1 DEF Loop, TakesFrame
  <2>3. u \in H + 1 .. R
    BY <1>1, <1>2, <1>3
  <2> QED BY <1>a, <1>b, <1>6, <2>2, <2>3 DEF PollInv
<1> QED BY <1>15, <1>16

(* poll_rx: a frame of the poll, or the end of the poll.                   *)
LEMMA PollRxKeeps == ASSUME NetIInv, poll_rx PROVE NetIInv'
<1> DEFINE desc == rxq.used[rxq.last_used_idx % QUEUE_SIZE]
<1> DEFINE more == rxq.last_used_idx # npc.used /\ npc.done < RX_POLL_BUDGET
<1>0. npc.at = "poll_rx" /\ UNCHANGED <<rx_bufs, rcvd, sent>>
  BY DEF poll_rx
<1>1. CASE more
  <2>1. /\ Becomes(handle_rx_frame(Driver, rx_bufs[desc]))
        /\ rxq' = [enqueue_desc_to_avail(rxq, desc) EXCEPT
                     !.last_used_idx = (@ + 1) % INDEX_MOD]
        /\ handled' = Append(handled, rx_bufs[desc])
        /\ npc' = [npc EXCEPT !.done = @ + 1]
    BY <1>1, Zenon DEF poll_rx
  <2>2. TxInv'
    BY <1>0, <2>1, DriverTyped, FrameHandled, TxKept
  <2>3. RxInv' /\ PollInv'
    <3>1. TakesFrame(desc)
      BY <1>0, <1>1, <2>1, Zenon DEF TakesFrame
    <3> QED BY <3>1, PollRxTakes
  <2> QED BY <2>2, <2>3 DEF NetIInv
<1>2. CASE ~more
  <2>1. /\ npc' = [npc EXCEPT !.at = "drive_network"]
        /\ UNCHANGED <<rxq, txq, tx_buf, rt, queued, handled>>
    BY <1>2, Zenon DEF poll_rx
  <2>2. Window' = Window /\ \A k : Holder(k)' = Holder(k)
    BY <1>0, <2>1, Zenon DEF Window, Holder, BufferCount, Entry
  <2>3. RxInv'
    BY <1>0, <2>1, <2>2 DEF NetIInv, RxInv
  <2>4. PollInv'
    BY <2>1 DEF NetIInv, PollInv, Loop
  <2>5. TxInv'
    BY <1>0, <2>1 DEF NetIInv, TxInv
  <2> QED BY <2>3, <2>4, <2>5 DEF NetIInv
<1> QED BY <1>1, <1>2

(* Every step keeps the invariant.                                         *)
LEMMA NetStepIInv == NetIInv /\ [NetNext]_netVars => NetIInv'
<1> SUFFICES ASSUME NetIInv, [NetNext]_netVars PROVE NetIInv'
  OBVIOUS
<1>1. CASE UNCHANGED netVars
  <2>1. UNCHANGED <<rxq, txq, rx_bufs, tx_buf, rt, npc, rcvd, handled, queued, sent>>
    BY <1>1 DEF netVars
  <2>2. Window' = Window /\ \A k : Holder(k)' = Holder(k)
    BY <2>1, Zenon DEF Window, Holder, BufferCount, Entry
  <2> QED BY <2>1, <2>2 DEF NetIInv, RxInv, PollInv, TxInv
<1> QED BY <1>1, PollTxKeeps, PollRxKeeps, DriveKeeps, CardSendsKeeps, CardReceivesKeeps
        DEF NetNext

(* For every queue size a legacy card may report, every number of receive  *)
(* buffers and any traffic: what is on the wire is what queue_tx_frame was *)
(* given, whole, once and in order, though there is one transmit buffer;   *)
(* and what handle_rx_frame gets is what the card received, though buffers *)
(* go round and the 16-bit indices wrap.                                   *)
THEOREM NetFramesIntact == NetSpec => []VirtioFramesIntact
<1>1. NetIInv => VirtioFramesIntact
  <2> SUFFICES ASSUME NetIInv PROVE VirtioFramesIntact
    OBVIOUS
  <2>1. /\ sent \in Seq(TxFrames) /\ queued \in Seq(TxFrames)
        /\ Len(sent) <= Len(queued) /\ \A k \in 1 .. Len(sent) : sent[k] = queued[k]
    BY DEF NetIInv, TxInv
  <2>2. /\ handled \in Seq(RxFrames) /\ rcvd \in Seq(RxFrames)
        /\ Len(handled) <= Len(rcvd)
        /\ \A k \in 1 .. Len(handled) : handled[k] = rcvd[k]
    BY DEF NetIInv, RxInv
  <2>3. sent = SubSeq(queued, 1, Len(sent))
    BY <2>1, PrefixOf
  <2>4. handled = SubSeq(rcvd, 1, Len(handled))
    BY <2>2, PrefixOf
  <2> QED BY <2>1, <2>2, <2>3, <2>4 DEF VirtioFramesIntact
<1> QED BY <1>1, NetInitIInv, NetStepIInv, PTL DEF NetSpec
=============================================================================
