---------------------------- MODULE QueueProofs -----------------------------
(***************************************************************************)
(* Proofs about two queues of waiting things.                              *)
(*                                                                         *)
(* The slot pool of a mailbox (Mailbox) is never corrupted, and the mailbox *)
(* implements the abstract queue, for every capacity and every set of      *)
(* senders and owners.                                                     *)
(*                                                                         *)
(* Timed sleeps and futexes (Waiting), for any finite set of threads, any  *)
(* words and any timeouts: nobody sleeps unqueued, and FUTEX_WAIT reports  *)
(* success exactly when a FUTEX_WAKE counted the thread.  The theorems are *)
(* at the end, after the one lemma on numbers that they need.              *)
(***************************************************************************)
EXTENDS Mailbox, Waiting, SequenceTheorems, TLAPS

-----------------------------------------------------------------------------
(* Mailboxes *)

(* The ring is closed: its end is count places after its head, and a scan  *)
(* never looks at more messages than are queued.                           *)
RingClosed ==
    /\ tail = Position(count)
    /\ scan # None => scan.left <= count

IInv ==
    /\ MailboxTypeOK
    /\ SlotsPartitioned
    /\ FreeSlotsWiped
    /\ NeverQuarantined
    /\ RingClosed

(* The successor on the ring, without the modulus of the code.             *)
LEMMA SuccIndex ==
    ASSUME NEW i \in Index
    PROVE  Succ(i) = (IF i + 1 = MAILBOX_CAP THEN 0 ELSE i + 1) /\ Succ(i) \in Index
<1> USE MailboxConstants DEF Index, Succ
<1>1. CASE i + 1 = MAILBOX_CAP
  BY <1>1
<1>2. CASE i + 1 < MAILBOX_CAP
  BY <1>2
<1> QED BY <1>1, <1>2

LEMMA InitIInv == MailboxInit => IInv
<1> SUFFICES ASSUME MailboxInit PROVE IInv
  OBVIOUS
<1> USE MailboxConstants DEF MailboxInit, new, Index
<1>1. MailboxTypeOK
  <2>1. 0 \in Index /\ 0 \in 0 .. MAILBOX_CAP /\ MAILBOX_CAP \in 0 .. MAILBOX_CAP
    OBVIOUS
  <2> QED BY Zenon, <2>1 DEF MailboxTypeOK
<1>2. SlotsPartitioned
  BY DEF SlotsPartitioned
<1>3. FreeSlotsWiped
  BY DEF FreeSlotsWiped
<1>4. RingClosed
  BY DEF RingClosed, Position
<1> QED BY <1>1, <1>2, <1>3, <1>4 DEF IInv, NeverQuarantined

(* A queued slot can always be freed: it is not on the free list, which    *)
(* has room for it.  So quarantine() is never called.                      *)
LEMMA HeadCanBeFreed ==
    ASSUME IInv, count > 0
    PROVE  /\ CanFree(queue[head])
           /\ Queued(0) = queue[head]
           /\ slots[queue[head]] \in Message
<1>0. 0 \in 0 .. count - 1 /\ queue[head] \in Index
  BY MailboxConstants DEF IInv, MailboxTypeOK, Index
<1>1. Queued(0) = queue[head]
  BY MailboxConstants DEF IInv, MailboxTypeOK, Index, Queued, Position
<1>2. free_count < MAILBOX_CAP
  BY MailboxConstants DEF IInv, MailboxTypeOK, SlotsPartitioned
<1>3. \A j \in 0 .. free_count - 1 : free[j] # queue[head]
  BY <1>0, <1>1 DEF IInv, SlotsPartitioned
<1>4. slots[queue[head]] # None
  BY <1>0, <1>1 DEF IInv, FreeSlotsWiped
<1>5. slots[queue[head]] \in Message
  BY <1>0, <1>4 DEF IInv, MailboxTypeOK
<1> QED BY <1>1, <1>2, <1>3, <1>5 DEF CanFree

(* Every place of the ring moves up by one when the head moves on.         *)
LEMMA PositionAfterDequeue ==
    ASSUME IInv, head' = Succ(head)
    PROVE  /\ head' \in Index
           /\ \A i \in 0 .. count : Position(i) \in Index
           /\ \A i \in 0 .. count - 1 : Position(i)' = Position(i + 1)
<1> USE MailboxConstants DEF Index
<1>1. head \in Index /\ count \in 0 .. MAILBOX_CAP
  BY DEF IInv, MailboxTypeOK
<1>2. head' = (IF head + 1 = MAILBOX_CAP THEN 0 ELSE head + 1) /\ head' \in Index
  BY <1>1, SuccIndex
<1>3. ASSUME NEW i \in 0 .. count PROVE Position(i) \in Index
  BY <1>1 DEF Position
<1>4. ASSUME NEW i \in 0 .. count - 1 PROVE Position(i)' = Position(i + 1)
  BY <1>1, <1>2 DEF Position
<1> QED BY <1>2, <1>3, <1>4

(* Distinct queued slots stand at distinct places, none of them the end of *)
(* the ring unless it is full.                                             *)
LEMMA PositionsDistinct ==
    ASSUME IInv
    PROVE  /\ \A i, j \in 0 .. count - 1 : Position(i) = Position(j) => i = j
           /\ count < MAILBOX_CAP =>
                 \A i \in 0 .. count - 1 : Position(i) # tail
<1> USE MailboxConstants DEF Index
<1>1. head \in Index /\ count \in 0 .. MAILBOX_CAP /\ tail = Position(count)
  BY DEF IInv, MailboxTypeOK, RingClosed
<1>2. ASSUME NEW i \in 0 .. count - 1, NEW j \in 0 .. count - 1,
             Position(i) = Position(j)
      PROVE  i = j
  BY <1>1, <1>2 DEF Position
<1>3. ASSUME count < MAILBOX_CAP, NEW i \in 0 .. count - 1
      PROVE  Position(i) # tail
  BY <1>1, <1>3 DEF Position
<1> QED BY <1>2, <1>3

(* What push_message does to the ring: the slot on top of the free list is *)
(* queued last, the queued slots keep their places.                        *)
LEMMA PushQueues ==
    ASSUME IInv, NEW m \in Message, push_message(m)
    PROVE  /\ count' = count + 1 /\ count < MAILBOX_CAP
           /\ free_count - 1 \in Index /\ free[free_count - 1] \in Index
           /\ slots' = [slots EXCEPT ![free[free_count - 1]] = m]
           /\ \A i \in 0 .. count - 1 : /\ Queued(i)' = Queued(i) /\ Queued(i) \in Index
                                        /\ Queued(i) # free[free_count - 1]
           /\ \A i : i = count => Queued(i)' = free[free_count - 1]
<1> USE MailboxConstants DEF Index
<1> DEFINE idx == free[free_count - 1]
<1>0. /\ head \in Index /\ count \in 0 .. MAILBOX_CAP /\ tail \in Index
      /\ free_count \in 0 .. MAILBOX_CAP
      /\ queue \in [Index -> Index] /\ free \in [Index -> Index]
      /\ slots \in [Index -> Message \cup {None}]
      /\ count + free_count = MAILBOX_CAP
      /\ tail = Position(count)
  BY DEF IInv, MailboxTypeOK, SlotsPartitioned, RingClosed
<1>1. /\ free_count \in 1 .. MAILBOX_CAP /\ count \in 0 .. MAILBOX_CAP - 1
      /\ free_count - 1 \in Index /\ idx \in Index
  <2>1. free_count > 0
    BY DEF push_message
  <2> QED BY <1>0, <2>1
<1>2. /\ slots' = [slots EXCEPT ![idx] = m]
      /\ free_count' = free_count - 1
      /\ queue' = [queue EXCEPT ![tail] = idx]
      /\ tail' = Succ(tail)
      /\ count' = count + 1
      /\ waiter' = None
      /\ UNCHANGED <<head, free, scan, found, quarantined>>
  BY <1>1 DEF push_message, enqueue_slot
<1>6. ASSUME NEW i \in 0 .. count
      PROVE  Position(i) \in Index /\ Position(i)' = Position(i)
  <2>1. head \in Index /\ count \in 0 .. MAILBOX_CAP - 1 /\ head' = head
    BY <1>0, <1>1, <1>2
  <2> QED BY <2>1 DEF Position
<1>7. \A i \in 0 .. count - 1 : Queued(i)' = Queued(i) /\ Queued(i) \in Index
  <2> SUFFICES ASSUME NEW i \in 0 .. count - 1
               PROVE  Queued(i)' = Queued(i) /\ Queued(i) \in Index
    OBVIOUS
  <2>1. i \in 0 .. count /\ Position(i) # tail
    BY <1>0, <1>1, PositionsDistinct
  <2> QED BY <1>0, <1>2, <1>6, <2>1 DEF Queued
<1>8. \A i : i = count => Queued(i)' = idx
  <2>1. count \in 0 .. count
    BY <1>0
  <2> QED BY <1>0, <1>1, <1>2, <1>6, <2>1 DEF Queued
<1>10. \A i \in 0 .. count - 1 : Queued(i) # idx
  <2>1. free_count - 1 \in 0 .. free_count - 1
    BY <1>1
  <2> QED BY <2>1 DEF IInv, SlotsPartitioned
<1> QED BY <1>0, <1>1, <1>2, <1>7, <1>8, <1>10

LEMMA PushPreserves ==
    ASSUME IInv, NEW m \in Message, push_message(m) PROVE IInv'
<1> USE MailboxConstants DEF Index
<1> DEFINE idx == free[free_count - 1]
<1>0. /\ head \in Index /\ count \in 0 .. MAILBOX_CAP /\ tail \in Index
      /\ free_count \in 0 .. MAILBOX_CAP
      /\ queue \in [Index -> Index] /\ free \in [Index -> Index]
      /\ slots \in [Index -> Message \cup {None}]
      /\ count + free_count = MAILBOX_CAP
      /\ tail = Position(count)
  BY DEF IInv, MailboxTypeOK, SlotsPartitioned, RingClosed
<1>1. /\ free_count \in 1 .. MAILBOX_CAP /\ count \in 0 .. MAILBOX_CAP - 1
      /\ free_count - 1 \in Index /\ idx \in Index
  <2>1. free_count > 0
    BY DEF push_message
  <2> QED BY <1>0, <2>1
<1>2. /\ slots' = [slots EXCEPT ![idx] = m]
      /\ free_count' = free_count - 1
      /\ queue' = [queue EXCEPT ![tail] = idx]
      /\ tail' = Succ(tail)
      /\ count' = count + 1
      /\ waiter' = None
      /\ UNCHANGED <<head, free, scan, found, quarantined>>
  BY <1>1 DEF push_message, enqueue_slot
<1>3. tail' = (IF tail + 1 = MAILBOX_CAP THEN 0 ELSE tail + 1) /\ tail' \in Index
  BY <1>0, <1>2, SuccIndex
<1>4. MailboxTypeOK'
  BY SMTT(30), <1>0, <1>1, <1>2, <1>3 DEF IInv, MailboxTypeOK
<1>5. RingClosed'
  <2>0. /\ head \in Index /\ count \in 0 .. MAILBOX_CAP - 1
        /\ head' = head /\ count' = count + 1
        /\ tail = Position(count)
        /\ tail' = (IF tail + 1 = MAILBOX_CAP THEN 0 ELSE tail + 1)
    BY <1>0, <1>1, <1>2, <1>3
  <2>1. tail' = Position(count)'
    BY <2>0 DEF Position
  <2>2. scan # None => scan.left \in Nat /\ scan.left <= count
    BY DEF IInv, RingClosed, MailboxTypeOK, Scan
  <2> QED BY <1>0, <1>2, <2>1, <2>2 DEF RingClosed
<1>7. \A i \in 0 .. count - 1 : Queued(i)' = Queued(i) /\ Queued(i) \in Index
  BY PushQueues
<1>8. \A i : i = count => Queued(i)' = idx
  BY PushQueues
<1>9. \A j \in 0 .. free_count - 2 :
          j \in 0 .. free_count - 1 /\ free[j] \in Index /\ free[j] # idx
  <2> SUFFICES ASSUME NEW j \in 0 .. free_count - 2
               PROVE  j \in 0 .. free_count - 1 /\ free[j] \in Index /\ free[j] # idx
    OBVIOUS
  <2>1. /\ j \in 0 .. free_count - 1 /\ j \in Index
        /\ free_count - 1 \in 0 .. free_count - 1 /\ j # free_count - 1
    BY <1>1
  <2> QED BY <1>0, <2>1 DEF IInv, SlotsPartitioned
<1>10. \A i \in 0 .. count - 1 : Queued(i) # idx
  BY PushQueues
<1>11. \A i \in 0 .. count' - 1 : i \in 0 .. count - 1 \/ i = count
  BY <1>0, <1>2
<1>12. \A j \in 0 .. free_count' - 1 : j \in 0 .. free_count - 2
  BY <1>1, <1>2
<1>13. SlotsPartitioned'
  <2>1. (count + free_count = MAILBOX_CAP)'
    BY <1>0, <1>2
  <2>2. ASSUME NEW i \in 0 .. count' - 1, NEW j \in 0 .. count' - 1,
               Queued(i)' = Queued(j)'
        PROVE  i = j
    BY <1>7, <1>8, <1>10, <1>11, <2>2 DEF IInv, SlotsPartitioned
  <2>3. ASSUME NEW i \in 0 .. free_count' - 1, NEW j \in 0 .. free_count' - 1,
               free'[i] = free'[j]
        PROVE  i = j
    BY <1>2, <1>9, <1>12, <2>3 DEF IInv, SlotsPartitioned
  <2>4. ASSUME NEW i \in 0 .. count' - 1, NEW j \in 0 .. free_count' - 1
        PROVE  Queued(i)' # free'[j]
    BY <1>2, <1>7, <1>8, <1>9, <1>11, <1>12 DEF IInv, SlotsPartitioned
  <2> QED BY <2>1, <2>2, <2>3, <2>4 DEF SlotsPartitioned
<1>14. FreeSlotsWiped'
  <2>1. ASSUME NEW i \in 0 .. count' - 1 PROVE slots'[Queued(i)'] # None
    BY Zenon, <1>0, <1>1, <1>2, <1>7, <1>8, <1>10, <1>11 DEF IInv, FreeSlotsWiped, Message
  <2>2. ASSUME NEW j \in 0 .. free_count' - 1 PROVE slots'[free'[j]] = None
    BY SMTT(30), <1>0, <1>1, <1>2, <1>9, <1>12 DEF IInv, FreeSlotsWiped
  <2> QED BY <2>1, <2>2 DEF FreeSlotsWiped
<1>15. NeverQuarantined'
  BY <1>2 DEF IInv, NeverQuarantined
<1> QED BY <1>4, <1>5, <1>13, <1>14, <1>15 DEF IInv

(* dequeue_slot: every queued slot but the oldest moves up one place.      *)
LEMMA DequeueQueues ==
    ASSUME IInv, count > 0, dequeue_slot
    PROVE  \A i \in 0 .. count - 2 :
              /\ i + 1 \in 0 .. count - 1 /\ Queued(i)' = Queued(i + 1)
              /\ Queued(i + 1) \in Index /\ Queued(i + 1) # queue[head]
<1> USE MailboxConstants DEF Index
<1>0. /\ head \in Index /\ count \in 1 .. MAILBOX_CAP
      /\ queue \in [Index -> Index]
  BY DEF IInv, MailboxTypeOK
<1>1. head' = Succ(head) /\ queue' = queue
  BY DEF dequeue_slot
<1>2. 0 \in 0 .. count - 1
  BY <1>0
<1>3. Queued(0) = queue[head]
  BY HeadCanBeFreed
<1>4. /\ head' \in Index
      /\ \A i \in 0 .. count - 1 : Position(i)' = Position(i + 1)
      /\ \A i \in 0 .. count : Position(i) \in Index
  BY <1>1, PositionAfterDequeue
<1> SUFFICES ASSUME NEW i \in 0 .. count - 2
             PROVE  /\ i + 1 \in 0 .. count - 1 /\ Queued(i)' = Queued(i + 1)
                    /\ Queued(i + 1) \in Index /\ Queued(i + 1) # queue[head]
  OBVIOUS
<1>5. i \in 0 .. count - 1 /\ i + 1 \in 0 .. count - 1 /\ i + 1 \in 0 .. count /\ i + 1 # 0
  BY <1>0
<1>6. Queued(i)' = Queued(i + 1) /\ Queued(i + 1) \in Index
  BY <1>0, <1>1, <1>4, <1>5 DEF Queued
<1>7. Queued(i + 1) # Queued(0)
  BY <1>2, <1>5 DEF IInv, SlotsPartitioned
<1> QED BY <1>3, <1>5, <1>6, <1>7

(* What dequeue_slot and free_slot do together, in both receives.          *)
LEMMA DequeuePreserves ==
    ASSUME IInv, count > 0, dequeue_slot, free_slot(queue[head])
    PROVE  /\ head' \in Index /\ tail' \in Index /\ count' \in 0 .. MAILBOX_CAP
           /\ queue' \in [Index -> Index] /\ free' \in [Index -> Index]
           /\ slots' \in [Index -> Message \cup {None}]
           /\ free_count' \in 0 .. MAILBOX_CAP
           /\ count' = count - 1
           /\ tail' = Position(count)'
           /\ SlotsPartitioned' /\ FreeSlotsWiped' /\ NeverQuarantined'
<1> USE MailboxConstants DEF Index
<1> DEFINE idx == queue[head]
<1>0. /\ head \in Index /\ count \in 1 .. MAILBOX_CAP /\ tail \in Index
      /\ free_count \in 0 .. MAILBOX_CAP
      /\ queue \in [Index -> Index] /\ free \in [Index -> Index]
      /\ slots \in [Index -> Message \cup {None}]
      /\ count + free_count = MAILBOX_CAP
      /\ tail = Position(count)
  BY DEF IInv, MailboxTypeOK, SlotsPartitioned, RingClosed
<1>1. /\ head' = Succ(head) /\ count' = count - 1 /\ tail' = tail /\ queue' = queue
      /\ slots' = [slots EXCEPT ![idx] = None]
      /\ free' = [free EXCEPT ![free_count] = idx]
      /\ free_count' = free_count + 1
      /\ quarantined' = quarantined
  BY DEF dequeue_slot, free_slot
<1>2. free_count \in Index /\ idx \in Index /\ 0 \in 0 .. count - 1
  BY <1>0
<1>3. Queued(0) = idx
  BY HeadCanBeFreed
<1>4. /\ head' \in Index
      /\ \A i \in 0 .. count - 1 : Position(i)' = Position(i + 1)
      /\ \A i \in 0 .. count : Position(i) \in Index
  BY <1>1, PositionAfterDequeue
<1>5. ASSUME NEW i \in 0 .. count' - 1
      PROVE  /\ i + 1 \in 0 .. count - 1 /\ Queued(i)' = Queued(i + 1)
             /\ Queued(i + 1) \in Index /\ Queued(i + 1) # idx
  BY <1>0, <1>1, DequeueQueues
<1>6. ASSUME NEW j \in 0 .. free_count' - 1
      PROVE  \/ /\ j \in 0 .. free_count - 1 /\ j \in Index
                /\ free'[j] = free[j] /\ free[j] \in Index /\ free[j] # idx
             \/ j = free_count /\ free'[j] = idx
  <2>1. CASE j = free_count
    BY <1>0, <1>1, <1>2, <2>1
  <2>2. CASE j # free_count
    <3>1. j \in 0 .. free_count - 1 /\ j \in Index
      BY <1>0, <1>1, <1>2, <2>2
    <3>2. free'[j] = free[j] /\ free[j] \in Index
      BY <1>0, <1>1, <2>2, <3>1
    <3>3. free[j] # idx
      BY <1>2, <1>3, <3>1 DEF IInv, SlotsPartitioned
    <3> QED BY <3>1, <3>2, <3>3
  <2> QED BY <2>1, <2>2
<1>7. SlotsPartitioned'
  <2>1. (count + free_count = MAILBOX_CAP)'
    BY <1>0, <1>1
  <2>2. ASSUME NEW i \in 0 .. count' - 1, NEW j \in 0 .. count' - 1,
               Queued(i)' = Queued(j)'
        PROVE  i = j
    <3>1. i + 1 = j + 1
      BY <1>5, <2>2 DEF IInv, SlotsPartitioned
    <3> QED BY <3>1
  <2>3. ASSUME NEW i \in 0 .. free_count' - 1, NEW j \in 0 .. free_count' - 1,
               free'[i] = free'[j]
        PROVE  i = j
    BY <1>6, <2>3 DEF IInv, SlotsPartitioned
  <2>4. ASSUME NEW i \in 0 .. count' - 1, NEW j \in 0 .. free_count' - 1
        PROVE  Queued(i)' # free'[j]
    BY <1>5, <1>6 DEF IInv, SlotsPartitioned
  <2> QED BY <2>1, <2>2, <2>3, <2>4 DEF SlotsPartitioned
<1>8. FreeSlotsWiped'
  <2>1. ASSUME NEW i \in 0 .. count' - 1 PROVE slots'[Queued(i)'] # None
    BY <1>0, <1>1, <1>5 DEF IInv, FreeSlotsWiped
  <2>2. ASSUME NEW j \in 0 .. free_count' - 1 PROVE slots'[free'[j]] = None
    BY <1>0, <1>1, <1>2, <1>6 DEF IInv, FreeSlotsWiped
  <2> QED BY <2>1, <2>2 DEF FreeSlotsWiped
<1>9. tail' = Position(count)'
  <2>1. /\ count - 1 \in 0 .. count - 1 /\ count - 1 + 1 = count
    BY <1>0
  <2>2. \A i : i = count - 1 => Position(i)' = Position(count)
    BY <1>4, <2>1
  <2> QED BY <1>0, <1>1, <2>2 DEF Position
<1>10. NeverQuarantined'
  BY <1>1 DEF IInv, NeverQuarantined
<1> QED BY <1>0, <1>1, <1>2, <1>4, <1>7, <1>8, <1>9, <1>10

(* A scan in progress looks only at queued messages.                       *)
LEMMA ScanSeesQueued ==
    ASSUME IInv, scan # None
    PROVE  /\ scan \in Scan
           /\ scan.left \in Nat /\ scan.left <= count
           /\ scan.left > 0 => count > 0
           /\ scan.to \in Receivers
           /\ \A k \in 0 .. MAILBOX_CAP : [scan EXCEPT !.left = k] \in Scan
           /\ \A k \in 0 .. MAILBOX_CAP : [scan EXCEPT !.left = k].left = k
<1>1. scan \in Scan /\ scan.left <= count /\ count \in 0 .. MAILBOX_CAP
  BY DEF IInv, MailboxTypeOK, RingClosed
<1> QED BY <1>1, MailboxConstants DEF Scan

LEMMA PopFoundPreserves == ASSUME IInv, pop_found PROVE IInv'
<1>1. scan # None /\ scan.left > 0
  BY DEF pop_found
<1>2. count > 0
  BY <1>1, ScanSeesQueued
<1>3. CanFree(queue[head]) /\ slots[queue[head]] \in Message
  BY <1>2, HeadCanBeFreed
<1>4. /\ dequeue_slot /\ free_slot(queue[head])
      /\ found' = slots[queue[head]] /\ scan' = None
  BY <1>3 DEF pop_found
<1>5. waiter' = waiter /\ quarantined' = quarantined
  BY <1>4 DEF free_slot
<1>6. MailboxTypeOK'
  BY <1>2, <1>3, <1>4, <1>5, DequeuePreserves DEF IInv, MailboxTypeOK
<1>7. RingClosed'
  BY <1>2, <1>4, DequeuePreserves DEF RingClosed
<1> QED BY <1>2, <1>4, <1>6, <1>7, DequeuePreserves DEF IInv

LEMMA PopStalePreserves == ASSUME IInv, pop_stale PROVE IInv'
<1>1. scan # None /\ scan.left > 0
  BY DEF pop_stale
<1>2. count > 0 /\ count \in 0 .. MAILBOX_CAP
  BY <1>1, ScanSeesQueued DEF IInv, MailboxTypeOK
<1>3. CanFree(queue[head])
  BY <1>2, HeadCanBeFreed
<1>4. /\ dequeue_slot /\ free_slot(queue[head])
      /\ scan' = [scan EXCEPT !.left = scan.left - 1] /\ found' = found
  BY <1>3 DEF pop_stale
<1>5. waiter' = waiter /\ quarantined' = quarantined
  BY <1>4 DEF free_slot
<1>6. scan.left - 1 \in 0 .. MAILBOX_CAP /\ scan.left - 1 <= count - 1
  BY <1>1, <1>2, ScanSeesQueued, MailboxConstants
<1>7. scan' \in Scan /\ scan'.left = scan.left - 1
  BY <1>1, <1>4, <1>6, ScanSeesQueued
<1>8. MailboxTypeOK'
  BY <1>2, <1>4, <1>5, <1>7, DequeuePreserves DEF IInv, MailboxTypeOK
<1>9. RingClosed'
  BY <1>2, <1>4, <1>6, <1>7, DequeuePreserves DEF RingClosed
<1> QED BY <1>2, <1>4, <1>8, <1>9, DequeuePreserves DEF IInv

(* Moving the oldest queued slot to the end renumbers the ring.            *)
LEMMA RotateQueues ==
    ASSUME IInv, pop_rotate
    PROVE  \A i \in 0 .. count - 1 :
              \/ /\ i + 1 \in 0 .. count - 1 /\ i + 1 # 0
                 /\ Queued(i)' = Queued(i + 1) /\ Queued(i + 1) \in Index
              \/ i = count - 1 /\ Queued(i)' = Queued(0)
<1> USE MailboxConstants DEF Index
<1> DEFINE idx == queue[head]
<1>1. scan # None /\ scan.left > 0
  BY DEF pop_rotate
<1>2. count > 0 /\ scan \in Scan /\ scan.left \in Nat /\ scan.left <= count
  BY <1>1, ScanSeesQueued
<1>3. /\ head \in Index /\ count \in 1 .. MAILBOX_CAP /\ tail \in Index
      /\ queue \in [Index -> Index] /\ tail = Position(count)
      /\ count + free_count = MAILBOX_CAP
  BY <1>2 DEF IInv, MailboxTypeOK, RingClosed, SlotsPartitioned
<1>4. /\ head' = Succ(head) /\ tail' = Succ(tail)
      /\ queue' = [queue EXCEPT ![tail] = idx]
      /\ scan' = [scan EXCEPT !.left = scan.left - 1]
      /\ UNCHANGED <<count, slots, free, free_count, waiter, found, quarantined>>
  BY DEF pop_rotate, enqueue_slot, poolVars
<1>5. /\ head' = (IF head + 1 = MAILBOX_CAP THEN 0 ELSE head + 1) /\ head' \in Index
      /\ tail' = (IF tail + 1 = MAILBOX_CAP THEN 0 ELSE tail + 1) /\ tail' \in Index
  BY <1>3, <1>4, SuccIndex
<1>10. Queued(0) = idx /\ idx \in Index
  BY <1>2, <1>3, HeadCanBeFreed
<1>11. /\ \A i \in 0 .. count - 1 : Position(i)' = Position(i + 1)
       /\ \A i \in 0 .. count : Position(i) \in Index
  BY <1>4, PositionAfterDequeue
<1>12. ASSUME NEW i \in 0 .. count - 1
       PROVE  \/ /\ i + 1 \in 0 .. count - 1 /\ i + 1 # 0
                 /\ Queued(i)' = Queued(i + 1) /\ Queued(i + 1) \in Index
              \/ i = count - 1 /\ Queued(i)' = Queued(0)
  <2>1. CASE i = count - 1
    <3>1. i + 1 = count
      BY <1>3, <2>1
    <3>2. Position(i)' = tail
      BY <1>3, <1>11, <3>1
    <3> QED BY <1>3, <1>4, <1>10, <2>1, <3>2 DEF Queued
  <2>2. CASE i # count - 1
    <3>1. i + 1 \in 0 .. count - 1 /\ i + 1 # 0 /\ i + 1 \in 0 .. count
      BY <1>3, <2>2
    <3>2. Position(i + 1) # tail
      BY SMTT(30), <1>3, <3>1 DEF Position
    <3>3. Queued(i)' = Queued(i + 1) /\ Queued(i + 1) \in Index
      BY <1>3, <1>4, <1>11, <3>1, <3>2 DEF Queued
    <3> QED BY <3>1, <3>3
  <2> QED BY <2>1, <2>2
<1> QED BY <1>12

LEMMA PopRotatePreserves == ASSUME IInv, pop_rotate PROVE IInv'
<1> USE MailboxConstants DEF Index
<1> DEFINE idx == queue[head]
<1>1. scan # None /\ scan.left > 0
  BY DEF pop_rotate
<1>2. count > 0 /\ scan \in Scan /\ scan.left \in Nat /\ scan.left <= count
  BY <1>1, ScanSeesQueued
<1>3. /\ head \in Index /\ count \in 1 .. MAILBOX_CAP /\ tail \in Index
      /\ queue \in [Index -> Index] /\ tail = Position(count)
      /\ count + free_count = MAILBOX_CAP
  BY <1>2 DEF IInv, MailboxTypeOK, RingClosed, SlotsPartitioned
<1>4. /\ head' = Succ(head) /\ tail' = Succ(tail)
      /\ queue' = [queue EXCEPT ![tail] = idx]
      /\ scan' = [scan EXCEPT !.left = scan.left - 1]
      /\ UNCHANGED <<count, slots, free, free_count, waiter, found, quarantined>>
  BY DEF pop_rotate, enqueue_slot, poolVars
<1>5. /\ head' = (IF head + 1 = MAILBOX_CAP THEN 0 ELSE head + 1) /\ head' \in Index
      /\ tail' = (IF tail + 1 = MAILBOX_CAP THEN 0 ELSE tail + 1) /\ tail' \in Index
  BY <1>3, <1>4, SuccIndex
<1>6. scan.left - 1 \in 0 .. MAILBOX_CAP /\ scan.left - 1 <= count
  BY <1>1, <1>2, <1>3
<1>7. scan' \in Scan /\ scan'.left = scan.left - 1
  BY <1>1, <1>4, <1>6, ScanSeesQueued
<1>8. MailboxTypeOK'
  BY <1>3, <1>4, <1>5, <1>7 DEF IInv, MailboxTypeOK
<1>9. RingClosed'
  <2>1. /\ head \in Index /\ count \in 1 .. MAILBOX_CAP /\ tail = Position(count)
        /\ head' = (IF head + 1 = MAILBOX_CAP THEN 0 ELSE head + 1)
        /\ tail' = (IF tail + 1 = MAILBOX_CAP THEN 0 ELSE tail + 1)
        /\ count' = count
    BY <1>3, <1>4, <1>5
  <2>2. tail' = Position(count)'
    BY <2>1 DEF Position
  <2> QED BY <1>4, <1>6, <1>7, <2>2 DEF RingClosed
<1>10. Queued(0) = idx /\ idx \in Index
  BY <1>2, <1>3, HeadCanBeFreed
<1>11. /\ \A i \in 0 .. count - 1 : Position(i)' = Position(i + 1)
       /\ \A i \in 0 .. count : Position(i) \in Index
  BY <1>4, PositionAfterDequeue
<1>12. ASSUME NEW i \in 0 .. count - 1
       PROVE  \/ /\ i + 1 \in 0 .. count - 1 /\ i + 1 # 0
                 /\ Queued(i)' = Queued(i + 1) /\ Queued(i + 1) \in Index
              \/ i = count - 1 /\ Queued(i)' = Queued(0)
  BY RotateQueues
<1>13. 0 \in 0 .. count - 1
  BY <1>3
<1>14. SlotsPartitioned'
  <2>1. ASSUME NEW i \in 0 .. count - 1, NEW j \in 0 .. count - 1,
               Queued(i)' = Queued(j)'
        PROVE  i = j
    <3>1. (i = count - 1 /\ j = count - 1) \/ i + 1 = j + 1
      BY <1>12, <1>13, <2>1 DEF IInv, SlotsPartitioned
    <3> QED BY <3>1
  <2>2. ASSUME NEW i \in 0 .. count - 1, NEW j \in 0 .. free_count - 1
        PROVE  Queued(i)' # free[j]
    BY <1>12, <1>13 DEF IInv, SlotsPartitioned
  <2>3. \A i, j \in 0 .. free_count - 1 : free[i] = free[j] => i = j
    BY DEF IInv, SlotsPartitioned
  <2> QED BY <1>3, <1>4, <2>1, <2>2, <2>3 DEF SlotsPartitioned
<1>15. FreeSlotsWiped'
  <2>1. ASSUME NEW i \in 0 .. count - 1 PROVE slots[Queued(i)'] # None
    BY <1>12, <1>13 DEF IInv, FreeSlotsWiped
  <2>2. \A j \in 0 .. free_count - 1 : slots[free[j]] = None
    BY DEF IInv, FreeSlotsWiped
  <2> QED BY <1>4, <2>1, <2>2 DEF FreeSlotsWiped
<1>16. NeverQuarantined'
  BY <1>4 DEF IInv, NeverQuarantined
<1> QED BY <1>8, <1>9, <1>14, <1>15, <1>16 DEF IInv

(* Steps that leave the ring and the pool alone.                           *)
LEMMA RestPreserves ==
    ASSUME IInv,
           UNCHANGED <<ringVars, poolVars, quarantined>>,
           waiter' \in Receivers \cup {None},
           scan' \in Scan \cup {None},
           found' \in Message \cup {None},
           scan' # None => scan'.left <= count
    PROVE  IInv'
<1> USE DEF ringVars, poolVars
<1>1. MailboxTypeOK'
  BY DEF IInv, MailboxTypeOK
<1>2. SlotsPartitioned'
  BY DEF IInv, SlotsPartitioned, Queued, Position
<1>3. FreeSlotsWiped'
  BY DEF IInv, FreeSlotsWiped, Queued, Position
<1>4. RingClosed'
  BY DEF IInv, RingClosed, Position
<1> QED BY <1>1, <1>2, <1>3, <1>4 DEF IInv, NeverQuarantined

LEMMA NextIInv == IInv /\ [MailboxNext]_mailboxVars => IInv'
<1> SUFFICES ASSUME IInv, [MailboxNext]_mailboxVars PROVE IInv'
  OBVIOUS
<1>0. /\ waiter \in Receivers \cup {None} /\ scan \in Scan \cup {None}
      /\ found \in Message \cup {None} /\ (scan # None => scan.left <= count)
      /\ count \in Nat
  BY MailboxConstants DEF IInv, MailboxTypeOK, RingClosed
<1>1. ASSUME NEW m \in Message, push_message(m) PROVE IInv'
  BY <1>1, PushPreserves
<1>2. ASSUME NEW r \in Scan, start_receive(r) PROVE IInv'
  BY <1>0, <1>2, RestPreserves DEF start_receive
<1>3. CASE pop_found
  BY <1>3, PopFoundPreserves
<1>4. CASE pop_stale
  BY <1>4, PopStalePreserves
<1>5. CASE pop_rotate
  BY <1>5, PopRotatePreserves
<1>6. CASE pop_none
  <2>1. waiter' \in Receivers \cup {None}
    BY <1>0, <1>6, ScanSeesQueued DEF pop_none
  <2> QED BY <1>0, <1>6, <2>1, RestPreserves DEF pop_none
<1>7. ASSUME NEW r \in Receivers, cancel_wait(r) PROVE IInv'
  BY <1>0, <1>7, RestPreserves DEF cancel_wait
<1>8. CASE UNCHANGED mailboxVars
  BY <1>0, <1>8, RestPreserves DEF mailboxVars, ringVars, poolVars
<1> QED BY <1>1, <1>2, <1>3, <1>4, <1>5, <1>6, <1>7, <1>8 DEF MailboxNext

LEMMA MailboxInvariant == MailboxSpec => []IInv
<1> QED BY InitIInv, NextIInv, PTL DEF MailboxSpec

(* The variables of a mailbox keep their types; in particular the ring     *)
(* indices and the two counters of Mailbox stay in range.                  *)
THEOREM MailboxTypes == MailboxSpec => []MailboxTypeOK
BY MailboxInvariant, PTL DEF IInv

(* push_message, free_slot and the loops of both receives keep every slot  *)
(* either queued or free, exactly once.                                    *)
THEOREM MailboxPartition == MailboxSpec => []SlotsPartitioned
BY MailboxInvariant, PTL DEF IInv

(* quarantine() is unreachable: no mailbox loses its messages to it.       *)
THEOREM MailboxNeverQuarantined == MailboxSpec => []NeverQuarantined
BY MailboxInvariant, PTL DEF IInv

(* alloc_slot hands out wiped slots only, and the ring points at messages  *)
(* only.                                                                   *)
THEOREM MailboxSlotsWiped == MailboxSpec => []FreeSlotsWiped
BY MailboxInvariant, PTL DEF IInv

-----------------------------------------------------------------------------
(* Sequences that are known element by element.                            *)
LEMMA ListOf ==
    ASSUME NEW S, NEW n \in Nat, NEW s \in [1 .. n -> S]
    PROVE  s \in Seq(S) /\ Len(s) = n
<1>1. s \in Seq(S)
  BY SeqDef
<1>2. DOMAIN s = 1 .. Len(s) /\ Len(s) \in Nat
  BY <1>1, LenProperties
<1> QED BY <1>1, <1>2

LEMMA ThisIsAppend ==
    ASSUME NEW S, NEW s \in Seq(S), NEW e \in S, NEW t \in Seq(S),
           Len(t) = Len(s) + 1, \A i \in 1 .. Len(s) : t[i] = s[i], t[Len(s) + 1] = e
    PROVE  t = Append(s, e)
<1> DEFINE a == Append(s, e)
<1>1. /\ a \in Seq(S) /\ Len(a) = Len(s) + 1 /\ Len(s) \in Nat
      /\ \A i \in 1 .. Len(s) : a[i] = s[i]
      /\ a[Len(s) + 1] = e
  BY AppendProperties, LenProperties
<1> HIDE DEF a
<1>2. \A i \in 1 .. Len(t) : i \in 1 .. Len(s) \/ i = Len(s) + 1
  BY <1>1
<1>3. \A i \in 1 .. Len(t) : t[i] = a[i]
  BY <1>1, <1>2
<1>4. t = a
  BY <1>1, <1>3, SeqEqual
<1> QED BY <1>4 DEF a

LEMMA ThisIsTail ==
    ASSUME NEW S, NEW s \in Seq(S), NEW t \in Seq(S), Len(s) > 0,
           Len(t) = Len(s) - 1, \A i \in 1 .. Len(t) : t[i] = s[i + 1]
    PROVE  t = Tail(s)
<1> DEFINE a == Tail(s)
<1>1. s # <<>>
  BY EmptySeq
<1>2. a \in Seq(S) /\ Len(a) = Len(s) - 1 /\ \A i \in 1 .. Len(a) : a[i] = s[i + 1]
  BY <1>1, HeadTailProperties
<1> HIDE DEF a
<1>3. t = a
  BY <1>2, SeqEqual
<1> QED BY <1>3 DEF a

LEMMA ThisIsRotated ==
    ASSUME NEW S, NEW s \in Seq(S), NEW t \in Seq(S), Len(s) > 0,
           Len(t) = Len(s), \A i \in 1 .. Len(s) - 1 : t[i] = s[i + 1], t[Len(s)] = s[1]
    PROVE  t = Append(Tail(s), Head(s))
<1> DEFINE a == Tail(s)
           h == Head(s)
<1>1. s # <<>>
  BY EmptySeq
<1>2. /\ a \in Seq(S) /\ Len(a) = Len(s) - 1 /\ h \in S
      /\ \A i \in 1 .. Len(a) : a[i] = s[i + 1]
  BY <1>1, HeadTailProperties
<1>3. h = s[1] /\ Len(s) \in Nat
  BY <1>1, LenProperties
<1> HIDE DEF a, h
<1>4. Len(t) = Len(a) + 1 /\ t[Len(a) + 1] = h /\ \A i \in 1 .. Len(a) : t[i] = a[i]
  BY <1>2, <1>3
<1>5. t = Append(a, h)
  BY <1>2, <1>4, ThisIsAppend
<1> QED BY <1>5 DEF a, h

(* The queue that the mailbox implements: the messages of the queued slots.*)
Contents == [i \in 1 .. count |-> slots[Queued(i - 1)]]

LEMMA ContentsAreMessages ==
    ASSUME IInv
    PROVE  /\ Contents \in Seq(Message) /\ Len(Contents) = count /\ count \in 0 .. MAILBOX_CAP
           /\ \A i \in 1 .. count : Contents[i] = slots[Queued(i - 1)]
<1> USE MailboxConstants
<1>1. count \in 0 .. MAILBOX_CAP /\ slots \in [Index -> Message \cup {None}]
  BY DEF IInv, MailboxTypeOK
<1>2. ASSUME NEW i \in 1 .. count PROVE slots[Queued(i - 1)] \in Message
  <2>1. i - 1 \in 0 .. count - 1 /\ i - 1 \in 0 .. count
    BY <1>1
  <2>2. Position(i - 1) \in Index
    <3>1. head \in Index
      BY DEF IInv, MailboxTypeOK
    <3> QED BY <1>1, <2>1, <3>1, SMTT(30) DEF Index, Position
  <2>3. Queued(i - 1) \in Index
    BY <2>2 DEF IInv, MailboxTypeOK, Queued
  <2>4. slots[Queued(i - 1)] # None
    BY <2>1 DEF IInv, FreeSlotsWiped
  <2> QED BY <1>1, <2>3, <2>4
<1>3. Contents \in [1 .. count -> Message]
  BY <1>2 DEF Contents
<1>4. \A i \in 1 .. count : Contents[i] = slots[Queued(i - 1)]
  BY DEF Contents
<1> QED BY <1>1, <1>3, <1>4, ListOf

LEMMA NextContentsAreMessages ==
    ASSUME IInv'
    PROVE  /\ Contents' \in Seq(Message) /\ Len(Contents') = count'
           /\ \A i \in 1 .. count' : Contents'[i] = slots'[Queued(i - 1)']
<1> USE MailboxConstants
<1>1. count' \in 0 .. MAILBOX_CAP /\ slots' \in [Index -> Message \cup {None}]
  BY DEF IInv, MailboxTypeOK
<1>2. ASSUME NEW i \in 1 .. count' PROVE slots'[Queued(i - 1)'] \in Message
  <2>1. i - 1 \in 0 .. count' - 1 /\ i - 1 \in 0 .. count'
    BY <1>1
  <2>2. Position(i - 1)' \in Index
    <3>1. head' \in Index
      BY DEF IInv, MailboxTypeOK
    <3> QED BY <1>1, <2>1, <3>1, SMTT(30) DEF Index, Position
  <2>3. Queued(i - 1)' \in Index
    BY <2>2 DEF IInv, MailboxTypeOK, Queued
  <2>4. slots'[Queued(i - 1)'] # None
    BY <2>1 DEF IInv, FreeSlotsWiped
  <2> QED BY <1>1, <2>3, <2>4
<1>3. Contents' \in [1 .. count' -> Message]
  BY <1>2 DEF Contents
<1>4. \A i \in 1 .. count' : Contents'[i] = slots'[Queued(i - 1)']
  BY DEF Contents
<1> QED BY <1>1, <1>3, <1>4, ListOf

(* Each step of the code is the step of the queue that it stands for.      *)
LEMMA RefinesInit == MailboxInit => MQ!Init
<1> SUFFICES ASSUME MailboxInit PROVE MQ!Init
  OBVIOUS
<1>1. count = 0
  BY DEF MailboxInit, new
<1>2. [i \in 1 .. count |-> slots[Queued(i - 1)]] = <<>>
  BY <1>1
<1> QED BY <1>2 DEF MailboxInit, new, MQ!Init

LEMMA PushIsSend ==
    ASSUME IInv, IInv', NEW m \in Message, push_message(m) PROVE MQ!Send(m)
<1>1. /\ count' = count + 1 /\ count < MAILBOX_CAP
      /\ free[free_count - 1] \in Index
      /\ slots' = [slots EXCEPT ![free[free_count - 1]] = m]
      /\ \A i \in 0 .. count - 1 : /\ Queued(i)' = Queued(i) /\ Queued(i) \in Index
                                   /\ Queued(i) # free[free_count - 1]
      /\ \A i : i = count => Queued(i)' = free[free_count - 1]
  BY PushQueues
<1>2. /\ Contents \in Seq(Message) /\ Len(Contents) = count /\ count \in 0 .. MAILBOX_CAP
      /\ \A i \in 1 .. count : Contents[i] = slots[Queued(i - 1)]
  BY ContentsAreMessages
<1>3. /\ Contents' \in Seq(Message) /\ Len(Contents') = count'
      /\ \A i \in 1 .. count' : Contents'[i] = slots'[Queued(i - 1)']
  BY NextContentsAreMessages
<1>4. slots \in [Index -> Message \cup {None}]
  BY DEF IInv, MailboxTypeOK
<1>5. ASSUME NEW i \in 1 .. count PROVE Contents'[i] = Contents[i]
  <2>1. i - 1 \in 0 .. count - 1 /\ i \in 1 .. count'
    BY <1>1, <1>2
  <2> QED BY <1>1, <1>2, <1>3, <1>4, <2>1
<1>6. Contents'[count + 1] = m
  <2> SUFFICES ASSUME NEW k, k = count + 1 PROVE Contents'[k] = m
    OBVIOUS
  <2>1. k \in 1 .. count' /\ k - 1 = count
    BY <1>1, <1>2
  <2>2. Contents'[k] = slots'[Queued(k - 1)']
    BY <1>3, <2>1
  <2>3. Queued(k - 1)' = free[free_count - 1]
    BY <1>1, <2>1
  <2> QED BY <1>1, <1>4, <2>2, <2>3
<1>7. Contents' = Append(Contents, m)
  BY <1>1, <1>2, <1>3, <1>5, <1>6, ThisIsAppend
<1>8. scan = None /\ waiter' = None /\ UNCHANGED <<scan, found>>
  BY <1>1 DEF push_message
<1> QED BY <1>1, <1>2, <1>7, <1>8 DEF MQ!Send, Contents

LEMMA DequeueIsTail ==
    ASSUME IInv, IInv', count > 0, dequeue_slot, free_slot(queue[head])
    PROVE  Contents' = Tail(Contents) /\ Head(Contents) = slots[queue[head]]
<1>1. /\ Contents \in Seq(Message) /\ Len(Contents) = count /\ count \in 1 .. MAILBOX_CAP
      /\ \A i \in 1 .. count : Contents[i] = slots[Queued(i - 1)]
  BY ContentsAreMessages
<1>2. /\ Contents' \in Seq(Message) /\ Len(Contents') = count'
      /\ \A i \in 1 .. count' : Contents'[i] = slots'[Queued(i - 1)']
  BY NextContentsAreMessages
<1>3. count' = count - 1 /\ slots' = [slots EXCEPT ![queue[head]] = None]
  BY DEF dequeue_slot, free_slot
<1>4. slots \in [Index -> Message \cup {None}]
  BY DEF IInv, MailboxTypeOK
<1>5. ASSUME NEW i \in 1 .. count' PROVE Contents'[i] = Contents[i + 1]
  <2>1. i - 1 \in 0 .. count - 2 /\ i + 1 \in 1 .. count /\ i - 1 + 1 = i + 1 - 1
    BY <1>1, <1>3
  <2>2. /\ Queued(i - 1)' = Queued(i + 1 - 1)
        /\ Queued(i + 1 - 1) \in Index /\ Queued(i + 1 - 1) # queue[head]
    BY <2>1, DequeueQueues
  <2> QED BY <1>1, <1>2, <1>3, <1>4, <2>1, <2>2
<1>6. Contents' = Tail(Contents)
  BY <1>1, <1>2, <1>3, <1>5, ThisIsTail
<1>7. Contents[1] = slots[queue[head]]
  <2>1. 1 \in 1 .. count /\ 1 - 1 = 0
    BY <1>1
  <2> QED BY <1>1, <2>1, HeadCanBeFreed
<1> QED BY <1>1, <1>6, <1>7

LEMMA FoundIsTake == ASSUME IInv, IInv', pop_found PROVE MQ!Take
<1>1. scan # None /\ scan.left > 0
  BY DEF pop_found
<1>2. count > 0
  BY <1>1, ScanSeesQueued
<1>3. CanFree(queue[head])
  BY <1>2, HeadCanBeFreed
<1>4. /\ dequeue_slot /\ free_slot(queue[head]) /\ Wanted(slots[queue[head]], scan)
      /\ found' = slots[queue[head]] /\ scan' = None
  BY <1>3 DEF pop_found
<1>5. Contents' = Tail(Contents) /\ Head(Contents) = slots[queue[head]]
  BY <1>2, <1>4, DequeueIsTail
<1>6. waiter' = waiter
  BY <1>4 DEF free_slot
<1> QED BY Zenon, <1>1, <1>4, <1>5, <1>6 DEF MQ!Take, MQ!Wanted, Wanted, Contents

LEMMA StaleIsSkip == ASSUME IInv, IInv', pop_stale PROVE MQ!Skip
<1>1. scan # None /\ scan.left > 0 /\ scan.from = None
  BY DEF pop_stale
<1>2. count > 0
  BY <1>1, ScanSeesQueued
<1>3. CanFree(queue[head])
  BY <1>2, HeadCanBeFreed
<1>4. /\ dequeue_slot /\ free_slot(queue[head]) /\ ~ Wanted(slots[queue[head]], scan)
      /\ scan' = [scan EXCEPT !.left = @ - 1] /\ found' = found
  BY <1>3 DEF pop_stale
<1>5. Contents' = Tail(Contents) /\ Head(Contents) = slots[queue[head]]
  BY <1>2, <1>4, DequeueIsTail
<1>6. waiter' = waiter
  BY <1>4 DEF free_slot
<1> QED BY Zenon, <1>1, <1>4, <1>5, <1>6 DEF MQ!Skip, MQ!Wanted, Wanted, Contents

LEMMA RotateIsSkip == ASSUME IInv, IInv', pop_rotate PROVE MQ!Skip
<1>1. scan # None /\ scan.left > 0 /\ scan.from # None
  BY DEF pop_rotate
<1>2. count > 0
  BY <1>1, ScanSeesQueued
<1>3. /\ Contents \in Seq(Message) /\ Len(Contents) = count /\ count \in 1 .. MAILBOX_CAP
      /\ \A i \in 1 .. count : Contents[i] = slots[Queued(i - 1)]
  BY <1>2, ContentsAreMessages
<1>4. /\ Contents' \in Seq(Message) /\ Len(Contents') = count'
      /\ \A i \in 1 .. count' : Contents'[i] = slots'[Queued(i - 1)']
  BY NextContentsAreMessages
<1>5. /\ count' = count /\ slots' = slots /\ ~ Wanted(slots[queue[head]], scan)
      /\ scan' = [scan EXCEPT !.left = @ - 1] /\ waiter' = waiter /\ found' = found
  BY DEF pop_rotate, poolVars
<1>6. ASSUME NEW i \in 1 .. count - 1 PROVE Contents'[i] = Contents[i + 1]
  <2>1. /\ i - 1 \in 0 .. count - 1 /\ i - 1 # count - 1 /\ i \in 1 .. count
        /\ i + 1 \in 1 .. count /\ i - 1 + 1 = i + 1 - 1
    BY <1>3
  <2>2. Queued(i - 1)' = Queued(i + 1 - 1)
    BY <2>1, RotateQueues
  <2> QED BY <1>3, <1>4, <1>5, <2>1, <2>2
<1>7. Contents'[count] = Contents[1]
  <2>1. /\ count - 1 \in 0 .. count - 1 /\ count \in 1 .. count /\ 1 \in 1 .. count
        /\ count - 1 + 1 \notin 0 .. count - 1 /\ 1 - 1 = 0
    BY <1>3
  <2>2. Queued(count - 1)' = Queued(1 - 1)
    <3>1. \A i : i = count - 1 => Queued(i)' = Queued(0)
      BY <2>1, RotateQueues
    <3> QED BY <1>5, <2>1, <3>1 DEF Queued, Position
  <2> QED BY <1>3, <1>4, <1>5, <2>1, <2>2
<1>8. Contents' = Append(Tail(Contents), Head(Contents))
  BY <1>3, <1>4, <1>5, <1>6, <1>7, ThisIsRotated
<1>9. Head(Contents) = slots[queue[head]]
  <2>1. 1 \in 1 .. count /\ 1 - 1 = 0
    BY <1>3
  <2>2. Contents[1] = slots[queue[head]]
    BY <1>2, <1>3, <2>1, HeadCanBeFreed
  <2> QED BY <1>3, <2>2
<1> QED BY Zenon, <1>1, <1>5, <1>8, <1>9 DEF MQ!Skip, MQ!Wanted, Wanted, Contents

LEMMA RefinesNext ==
    IInv /\ IInv' /\ [MailboxNext]_mailboxVars => [MQ!Next]_(MQ!vars)
<1> SUFFICES ASSUME IInv, IInv', [MailboxNext]_mailboxVars
             PROVE  MQ!Next \/ UNCHANGED MQ!vars
  OBVIOUS
<1>0. ASSUME UNCHANGED <<ringVars, poolVars>> PROVE Contents' = Contents
  BY <1>0 DEF ringVars, poolVars, Contents, Queued, Position
<1>1. ASSUME NEW m \in Message, push_message(m) PROVE MQ!Next
  BY <1>1, PushIsSend DEF MQ!Next, MQ!Message, Message
<1>2. ASSUME NEW r \in Scan, start_receive(r) PROVE MQ!Next
  <2>1. Contents' = Contents /\ Len(Contents) = count
    BY <1>0, <1>2, ContentsAreMessages DEF start_receive
  <2>2. MQ!StartScan(r)
    BY Zenon, <1>2, <2>1 DEF start_receive, MQ!StartScan, Contents
  <2> QED BY <2>2 DEF MQ!Next, MQ!Scan, Scan
<1>3. CASE pop_found
  BY <1>3, FoundIsTake DEF MQ!Next
<1>4. CASE pop_stale
  BY <1>4, StaleIsSkip DEF MQ!Next
<1>5. CASE pop_rotate
  BY <1>5, RotateIsSkip DEF MQ!Next
<1>6. CASE pop_none
  <2>1. Contents' = Contents
    BY <1>0, <1>6 DEF pop_none
  <2> QED BY <1>6, <2>1 DEF pop_none, MQ!GiveUp, MQ!Next, Contents
<1>7. ASSUME NEW r \in Receivers, cancel_wait(r) PROVE MQ!Next
  <2>1. Contents' = Contents
    BY <1>0, <1>7 DEF cancel_wait
  <2> QED BY <1>7, <2>1 DEF cancel_wait, MQ!CancelWait, MQ!Next, Contents
<1>8. CASE UNCHANGED mailboxVars
  <2>1. Contents' = Contents
    BY <1>0, <1>8 DEF mailboxVars, ringVars, poolVars
  <2> QED BY <1>8, <2>1 DEF mailboxVars, MQ!vars, Contents
<1> QED BY <1>1, <1>2, <1>3, <1>4, <1>5, <1>6, <1>7, <1>8 DEF MailboxNext

(* The mailbox implements the bounded queue: whatever the capacity and     *)
(* whoever sends and receives, push_message appends a message, the two     *)
(* receives take, drop or rotate the oldest one, and no step does anything *)
(* else to the messages in the ring.                                       *)
THEOREM MailboxRefinesQueue == MailboxSpec => ImplementsQueue
<1>1. MailboxSpec => []IInv
  BY MailboxInvariant
<1> QED BY <1>1, RefinesInit, RefinesNext, PTL DEF MailboxSpec, ImplementsQueue, MQ!Spec

-----------------------------------------------------------------------------
(* Sleeps and futexes *)

Entries == [tid : Waiters, uaddr : Words, wake_tick : Int]

WaitTypeOK ==
    /\ ws \in [Waiters -> {"Ready", "Sleeping"}]
    /\ wpc \in [Waiters -> {"user", "check", "sleep", "futex"}]
    /\ due \in [Waiters -> Int]
    /\ timed_out \in [Waiters -> BOOLEAN]
    /\ sleepers \in [Waiters -> Int]
    /\ futexq \in [Slot -> Entries \cup {NONE}]
    /\ granted \subseteq Waiters
    /\ DOMAIN result = Waiters

(* FUTEX_WAIT_QUEUE has at most one entry of a thread.                     *)
OneEntry == \A i, j \in Slot : futexq[i].tid = futexq[j].tid /\ futexq[i] # NONE => i = j

(* A thread in FUTEX_WAIT is in one of three conditions: queued, timed out *)
(* or granted a wake-up.  No other thread is queued or granted.            *)
FutexState ==
    \A t \in Waiters :
        IF wpc[t] = "futex"
        THEN /\ futex_waiter_exists(futexq, t) => ~timed_out[t]
             /\ t \in granted <=> ~futex_waiter_exists(futexq, t) /\ ~timed_out[t]
        ELSE ~futex_waiter_exists(futexq, t) /\ t \notin granted

(* SleepersQueued in a form without CASE.                                  *)
Sleepers ==
    \A t \in Waiters : ws[t] = "Sleeping" =>
        \/ wpc[t] = "sleep" /\ sleepers[t] > 0 /\ sleepers[t] = due[t]
        \/ wpc[t] = "futex" /\ futex_waiter_exists(futexq, t)
        \/ wpc[t] \notin {"sleep", "futex"} /\ sleepers[t] = 0

(* sleep_until registers a deadline, which may have passed.                *)
DeadlineKnown == \A t \in Waiters : wpc[t] = "check" => due[t] >= 0

WaitIInv == WaitTypeOK /\ Sleepers /\ DeadlineKnown /\ OneEntry /\ FutexState

(* A set of numbers has a least one: what the scan for a free entry needs, *)
(* and LEMMA NatWellOrdered provides.                                      *)
WellOrdered == \A T \in SUBSET Nat : T # {} => \E x \in T : \A y \in T : x =< y

LEMMA LeastSlot ==
    ASSUME WellOrdered, NEW T, T \subseteq Slot, T # {}
    PROVE  \E i \in T : \A j \in T : i <= j
<1>1. T \in SUBSET Nat
  BY WaiterConstants DEF Slot
<1> QED BY <1>1 DEF WellOrdered

(* register_futex_waiter that finds a slot puts one entry into an empty one. *)
LEMMA Registers ==
    ASSUME WellOrdered, NEW t, NEW a, NEW d,
           register_futex_waiter(t, a, d) # futexq
    PROVE  /\ ~futex_waiter_exists(futexq, t)
           /\ \E i \in Slot :
                 /\ futexq[i] = NONE
                 /\ register_futex_waiter(t, a, d)
                      = [futexq EXCEPT ![i] = [tid |-> t, uaddr |-> a, wake_tick |-> d]]
<1> DEFINE Empty == {i \in Slot : futexq[i] = NONE}
           First(i) == futexq[i] = NONE /\ \A j \in 1 .. i - 1 : futexq[j] # NONE
<1>1. ~futex_waiter_exists(futexq, t) /\ Empty # {}
  BY DEF register_futex_waiter
<1>2. PICK i \in Empty : \A j \in Empty : i <= j
  <2> HIDE DEF Empty
  <2>1. Empty \subseteq Slot
    BY DEF Empty
  <2> QED BY <1>1, <2>1, LeastSlot
<1>3. i \in Slot /\ First(i)
  <2>1. i \in Slot /\ i \in Int /\ futexq[i] = NONE
    BY <1>2 DEF Slot
  <2>2. ASSUME NEW j \in 1 .. i - 1 PROVE futexq[j] # NONE
    <3>1. j \in Slot /\ ~(i <= j)
      BY <2>1, WaiterConstants DEF Slot
    <3> QED BY <3>1, <1>2
  <2> QED BY <2>1, <2>2
<1> DEFINE k == CHOOSE k \in Slot : First(k)
<1>4. k \in Slot /\ First(k)
  BY <1>3
<1>5. register_futex_waiter(t, a, d)
        = [futexq EXCEPT ![k] = [tid |-> t, uaddr |-> a, wake_tick |-> d]]
  BY <1>1 DEF register_futex_waiter
<1> QED BY Zenon, <1>1, <1>4, <1>5

LEMMA SleepersForm == Sleepers <=> SleepersQueued
  BY Zenon DEF Sleepers, SleepersQueued

LEMMA WaitInitIInv ==
    WaitInit => WaitIInv
  BY WaiterConstants DEF WaitInit, WaitIInv, WaitTypeOK, Sleepers, DeadlineKnown, OneEntry,
     FutexState, futex_waiter_exists, NONE, NO_TIMEOUT

LEMMA WaitStepIInv ==
    ASSUME WellOrdered, WaitIInv, [WaitNext]_waitVars
    PROVE  WaitIInv'
<1> USE DEF WaitIInv
<1>0. /\ \A i \in Slot : futexq[i] # NONE => futexq[i].tid \in Waiters /\ futexq[i].tid # 0
      /\ NONE.tid = 0
  BY WaiterConstants DEF WaitTypeOK, Entries, NONE
<1>1. ASSUME NEW t \in Waiters, NEW d \in 1 .. MaxTimeout, sleep_until(t, d)
      PROVE  WaitIInv'
  <2>1. WaitTypeOK'
    BY <1>1 DEF WaitTypeOK, sleep_until
  <2>2. Sleepers' /\ DeadlineKnown'
    BY <1>1 DEF WaitTypeOK, Sleepers, DeadlineKnown, sleep_until, Runs, futex_waiter_exists
  <2>3. OneEntry'
    BY <1>1 DEF OneEntry, sleep_until
  <2>4. FutexState'
    BY <1>1 DEF WaitTypeOK, FutexState, sleep_until, Runs, futex_waiter_exists
  <2> QED BY <2>1, <2>2, <2>3, <2>4
<1>2. ASSUME NEW t \in Waiters, sleep_registered(t)
       PROVE  WaitIInv'
  <2>1. WaitTypeOK'
    BY <1>2 DEF WaitTypeOK, sleep_registered, register_sleep_entry, NO_TIMEOUT
  <2>2. due[t] >= 0 /\ wpc[t] = "check"
    BY <1>2 DEF DeadlineKnown, sleep_registered, Runs
  <2>3. Sleepers' /\ DeadlineKnown'
    BY <1>2, <2>2 DEF WaitTypeOK, Sleepers, DeadlineKnown, sleep_registered,
                       register_sleep_entry, futex_waiter_exists
  <2>4. OneEntry'
    BY <1>2 DEF OneEntry, sleep_registered
  <2>5. FutexState'
    BY <1>2, <2>2 DEF WaitTypeOK, FutexState, sleep_registered, futex_waiter_exists
  <2> QED BY <2>1, <2>3, <2>4, <2>5
<1>3. ASSUME NEW t \in Waiters, SleepLoop(t)
      PROVE  WaitIInv'
  <2>1. WaitTypeOK'
    BY <1>3 DEF WaitTypeOK, SleepLoop, NO_TIMEOUT
  <2>2. Sleepers' /\ DeadlineKnown'
    BY <1>3 DEF WaitTypeOK, Sleepers, DeadlineKnown, SleepLoop, Runs, futex_waiter_exists
  <2>3. OneEntry'
    BY <1>3 DEF OneEntry, SleepLoop
  <2>4. FutexState'
    BY <1>3 DEF WaitTypeOK, FutexState, SleepLoop, Runs, futex_waiter_exists
  <2> QED BY <2>1, <2>2, <2>3, <2>4
<1>4. ASSUME NEW t \in Waiters, NEW a \in Words, NEW v, NEW timeout \in 0 .. MaxTimeout,
             futex_wait(t, a, v, timeout)
      PROVE  WaitIInv'
  <2>1. PICK d \in Int : /\ register_futex_waiter(t, a, d) # futexq
                         /\ futexq' = register_futex_waiter(t, a, d)
                         /\ due' = [due EXCEPT ![t] = d]
    <3>1. PICK d \in IF timeout = 0 THEN {NO_TIMEOUT} ELSE {timeout, timeout - 1} :
              /\ register_futex_waiter(t, a, d) # futexq
              /\ futexq' = register_futex_waiter(t, a, d)
              /\ due' = [due EXCEPT ![t] = d]
      BY <1>4, Zenon DEF futex_wait
    <3>2. d \in Int
      BY WaiterConstants DEF NO_TIMEOUT
    <3> QED BY Zenon, <3>1, <3>2
  <2> DEFINE e == [tid |-> t, uaddr |-> a, wake_tick |-> d]
  <2>2. PICK i \in Slot : futexq[i] = NONE /\ futexq' = [futexq EXCEPT ![i] = e]
    BY <2>1, Registers
  <2>3. ~futex_waiter_exists(futexq, t)
    BY <2>1, Registers
  <2>4. e \in Entries /\ e # NONE /\ e.tid = t /\ t # 0
    BY WaiterConstants DEF Entries, NONE
  <2> HIDE DEF e
  <2>5. WaitTypeOK'
    BY <1>4, <2>1, <2>2, <2>4 DEF WaitTypeOK, futex_wait
  <2>6. \A j \in Slot : futexq'[j] = IF j = i THEN e ELSE futexq[j]
    BY <2>2 DEF WaitTypeOK
  <2>7. \A u \in Waiters : futex_waiter_exists(futexq, u)' <=> u = t \/ futex_waiter_exists(futexq, u)
    BY <2>2, <2>4, <2>6, WaiterConstants DEF futex_waiter_exists, NONE
  <2>8. Sleepers' /\ DeadlineKnown'
    BY <1>4, <2>1, <2>7 DEF WaitTypeOK, Sleepers, DeadlineKnown, futex_wait, Runs
  <2>9. OneEntry'
    BY <2>2, <2>3, <2>4, <2>6 DEF OneEntry, futex_waiter_exists, NONE
  <2>10. FutexState'
    BY <1>4, <2>3, <2>7 DEF WaitTypeOK, FutexState, futex_wait, Runs
  <2> QED BY <2>5, <2>8, <2>9, <2>10
<1>5. ASSUME NEW t \in Waiters, NEW a, NEW v, futex_wait_again(t, a, v)
      PROVE  WaitIInv'
  <2>1. WaitTypeOK'
    BY <1>5 DEF WaitTypeOK, futex_wait_again
  <2>2. Sleepers' /\ DeadlineKnown'
    BY <1>5 DEF Sleepers, DeadlineKnown, futex_wait_again, futex_waiter_exists
  <2>3. OneEntry'
    BY <1>5 DEF OneEntry, futex_wait_again
  <2>4. FutexState'
    BY <1>5 DEF WaitTypeOK, FutexState, futex_wait_again, Runs, futex_waiter_exists
  <2> QED BY <2>1, <2>2, <2>3, <2>4
<1>6. ASSUME NEW t \in Waiters, FutexLoop(t)
      PROVE  WaitIInv'
  <2>1. t # 0 /\ t \in Waiters
    BY WaiterConstants
  <2>2. \A j \in Slot : futexq'[j] = IF futexq[j].tid = t THEN NONE ELSE futexq[j]
    BY <1>6 DEF FutexLoop, RemoveEntry, FutexState, futex_waiter_exists, WaitTypeOK, Runs
  <2>3. WaitTypeOK'
    BY <1>6 DEF WaitTypeOK, FutexLoop, RemoveEntry, NO_TIMEOUT
  <2>4. \A u \in Waiters : futex_waiter_exists(futexq, u)' <=> u # t /\ futex_waiter_exists(futexq, u)
    BY <2>1, <2>2, WaiterConstants DEF futex_waiter_exists, NONE
  <2>5. Sleepers' /\ DeadlineKnown'
    BY <1>6, <2>4 DEF WaitTypeOK, Sleepers, DeadlineKnown, FutexLoop, Runs
  <2>6. OneEntry'
    BY <1>0, <2>1, <2>2 DEF OneEntry
  <2>7. FutexState'
    BY <1>6, <2>4, SMTT(30) DEF WaitTypeOK, FutexState, FutexLoop, Runs
  <2> QED BY <2>3, <2>5, <2>6, <2>7
<1>7. ASSUME NEW t \in Waiters, NEW a, NEW v, futex_wake(t, a, v)
      PROVE  WaitIInv'
  <2> DEFINE hits == {i \in Slot : futexq[i] # NONE /\ futexq[i].uaddr = a}
             taken == {i \in hits : Cardinality({j \in hits : j < i}) < v}
             woken == {futexq[i].tid : i \in taken}
  <2>1. /\ futexq' = [i \in Slot |-> IF i \in taken THEN NONE ELSE futexq[i]]
        /\ timed_out' = [u \in Waiters |-> timed_out[u] /\ u \notin woken]
        /\ ws' = [u \in Waiters |-> IF u \in woken THEN "Ready" ELSE ws[u]]
        /\ granted' = granted \cup woken
        /\ UNCHANGED <<wpc, due, sleepers, word, result>>
    BY <1>7 DEF futex_wake
  <2>2. taken \subseteq Slot /\ \A i \in taken : futexq[i] # NONE
    OBVIOUS
  <2> HIDE DEF hits, taken
  <2>3. woken \subseteq Waiters
    BY <1>0, <2>2
  <2>4. \A u \in woken : futex_waiter_exists(futexq, u)
    BY <2>2 DEF futex_waiter_exists
  <2>5. \A u \in Waiters : futex_waiter_exists(futexq, u)' <=> futex_waiter_exists(futexq, u) /\ u \notin woken
    <3> SUFFICES ASSUME NEW u \in Waiters
                 PROVE  futex_waiter_exists(futexq, u)' <=> futex_waiter_exists(futexq, u) /\ u \notin woken
      OBVIOUS
    <3>1. u # 0
      BY WaiterConstants
    <3>2. ASSUME futex_waiter_exists(futexq, u)' PROVE futex_waiter_exists(futexq, u) /\ u \notin woken
      <4>1. PICK i \in Slot : i \notin taken /\ futexq[i].tid = u
        BY <1>0, <2>1, <3>1, <3>2 DEF futex_waiter_exists
      <4> QED BY <1>0, <2>2, <3>1, <4>1 DEF OneEntry, futex_waiter_exists
    <3>3. ASSUME futex_waiter_exists(futexq, u), u \notin woken PROVE futex_waiter_exists(futexq, u)'
      BY <2>1, <3>3 DEF futex_waiter_exists
    <3> QED BY <3>2, <3>3
  <2>6. WaitTypeOK'
    <3>1. futexq' \in [Slot -> Entries \cup {NONE}]
      BY <2>1 DEF WaitTypeOK
    <3>2. timed_out' \in [Waiters -> BOOLEAN]
      BY <2>1 DEF WaitTypeOK
    <3> HIDE DEF woken
    <3>3. ws' \in [Waiters -> {"Ready", "Sleeping"}]
      BY <2>1 DEF WaitTypeOK
    <3> QED BY <2>1, <2>3, <3>1, <3>2, <3>3 DEF WaitTypeOK
  <2> HIDE DEF woken
  <2>7. Sleepers' /\ DeadlineKnown'
    BY SMTT(30), <2>1, <2>5 DEF WaitTypeOK, Sleepers, DeadlineKnown
  <2>8. OneEntry'
    BY <1>0, <2>1 DEF OneEntry
  <2>9. FutexState'
    BY <2>1, <2>3, <2>4, <2>5, SMTT(30) DEF WaitTypeOK, FutexState
  <2> QED BY <2>6, <2>7, <2>8, <2>9
<1>8. ASSUME NEW t \in Waiters, NEW a, NEW v, store(t, a, v)
      PROVE  WaitIInv'
  BY <1>8, SMTT(30) DEF WaitTypeOK, Sleepers, DeadlineKnown, OneEntry, FutexState, futex_waiter_exists, store
<1>9. ASSUME NEW t \in Waiters, signal_wake(t)
      PROVE  WaitIInv'
  BY <1>9 DEF WaitTypeOK, Sleepers, DeadlineKnown, OneEntry, FutexState, futex_waiter_exists,
              signal_wake
<1>10. ASSUME tick
      PROVE  WaitIInv'
  <2> DEFINE sq == [t \in Waiters |-> Sooner(sleepers[t])]
             fq == [i \in Slot |-> IF futexq[i] = NONE THEN NONE
                                   ELSE [futexq[i] EXCEPT !.wake_tick = Sooner(@)]]
             late == DueFutexes(futexq, fq)
             ended == {fq[i].tid : i \in late}
  <2>1. /\ due' = [t \in Waiters |-> Sooner(due[t])]
        /\ sleepers' = [t \in Waiters |-> IF sq[t] = 0 THEN NO_TIMEOUT ELSE sq[t]]
        /\ futexq' = [i \in Slot |-> IF i \in late THEN NONE ELSE fq[i]]
        /\ timed_out' = [t \in Waiters |-> timed_out[t] \/ t \in ended]
        /\ ws' = [t \in Waiters |-> IF sq[t] = 0 \/ t \in ended THEN "Ready" ELSE ws[t]]
        /\ UNCHANGED <<wpc, word, granted, result>>
    BY <1>10 DEF tick, wake_due_sleepers
  <2>2. \A d \in Int : Sooner(d) \in Int /\ (d >= 0 => Sooner(d) >= 0) /\ (d = 0 => Sooner(d) = 0)
    BY DEF Sooner, NO_TIMEOUT
  <2>3. ASSUME NEW i \in Slot
        PROVE  /\ fq[i] \in Entries \cup {NONE}
               /\ fq[i].tid = futexq[i].tid
               /\ fq[i] = NONE <=> futexq[i] = NONE
    <3>1. CASE futexq[i] = NONE
      BY <3>1
    <3>2. CASE futexq[i] # NONE
      <4>1. futexq[i] \in Entries
        BY <3>2 DEF WaitTypeOK
      <4>2. fq[i] = [futexq[i] EXCEPT !.wake_tick = Sooner(futexq[i].wake_tick)]
        BY <3>2
      <4> HIDE DEF fq
      <4>3. fq[i] \in Entries /\ fq[i].tid = futexq[i].tid
        BY <2>2, <4>1, <4>2 DEF Entries
      <4> QED BY <1>0, <3>2, <4>3
    <3> QED BY <3>1, <3>2
  <2>4. late \subseteq Slot /\ \A i \in late : fq[i] # NONE
    BY DEF DueFutexes
  <2> HIDE DEF late, fq
  <2>5. ended \subseteq Waiters /\ \A u \in ended : futex_waiter_exists(futexq, u)
    BY <1>0, <2>3, <2>4 DEF futex_waiter_exists
  <2>6. \A u \in Waiters : futex_waiter_exists(futexq, u)' <=> futex_waiter_exists(futexq, u) /\ u \notin ended
    <3> SUFFICES ASSUME NEW u \in Waiters
                 PROVE  futex_waiter_exists(futexq, u)' <=> futex_waiter_exists(futexq, u) /\ u \notin ended
      OBVIOUS
    <3>1. u # 0
      BY WaiterConstants
    <3>2. ASSUME futex_waiter_exists(futexq, u)' PROVE futex_waiter_exists(futexq, u) /\ u \notin ended
      <4>1. PICK i \in Slot : i \notin late /\ futexq[i].tid = u
        BY <1>0, <2>1, <2>3, <3>1, <3>2 DEF futex_waiter_exists
      <4>2. \A j \in late : futexq[j].tid # u
        BY <1>0, <2>3, <2>4, <3>1, <4>1 DEF OneEntry
      <4> QED BY <2>3, <2>4, <4>1, <4>2, SMTT(30) DEF futex_waiter_exists
    <3>3. ASSUME futex_waiter_exists(futexq, u), u \notin ended PROVE futex_waiter_exists(futexq, u)'
      BY <2>1, <2>3, <3>3 DEF futex_waiter_exists
    <3> QED BY <3>2, <3>3
  <2>7. WaitTypeOK'
    <3>1. futexq' \in [Slot -> Entries \cup {NONE}]
      BY <2>1, <2>3
    <3>2. timed_out' \in [Waiters -> BOOLEAN]
      BY <2>1 DEF WaitTypeOK
    <3>3. due' \in [Waiters -> Int]
      BY <2>1, <2>2 DEF WaitTypeOK
    <3>4. sleepers' \in [Waiters -> Int]
      BY <2>1, <2>2 DEF WaitTypeOK, NO_TIMEOUT
    <3> HIDE DEF ended
    <3>5. ws' \in [Waiters -> {"Ready", "Sleeping"}]
      BY <2>1, SMTT(30) DEF WaitTypeOK
    <3> QED BY <2>1, <3>1, <3>2, <3>3, <3>4, <3>5, SMTT(30) DEF WaitTypeOK
  <2> HIDE DEF ended
  <2>8. Sleepers' /\ DeadlineKnown'
    BY <2>1, <2>2, <2>6, SMTT(30) DEF WaitTypeOK, Sleepers, DeadlineKnown
  <2>9. OneEntry'
    BY <1>0, <2>1, <2>3 DEF OneEntry
  <2>10. FutexState'
    BY Zenon, <2>1, <2>5, <2>6 DEF WaitTypeOK, FutexState
  <2> QED BY <2>7, <2>8, <2>9, <2>10
<1>11. CASE UNCHANGED waitVars
  BY <1>11, SMTT(30) DEF waitVars, WaitTypeOK, Sleepers, DeadlineKnown, OneEntry, FutexState,
                         futex_waiter_exists
<1> QED BY <1>1, <1>2, <1>3, <1>4, <1>5, <1>6, <1>7, <1>8, <1>9, <1>10, <1>11 DEF WaitNext, Resume

(* A step that ends a FUTEX_WAIT is a turn of its loop, and what it        *)
(* returns follows from the three conditions of FutexState.                *)
LEMMA WakeAccounted ==
    ASSUME WaitIInv, WaitNext
    PROVE  WakeStep
<1> SUFFICES ASSUME NEW u \in Waiters, wpc[u] = "futex", wpc'[u] = "user"
             PROVE  result'[u] = "SUCCESS" <=> u \in granted
  BY DEF WakeStep
<1>1. FutexLoop(u)
  <2>1. ASSUME NEW t \in Waiters, NEW d, sleep_until(t, d) PROVE wpc'[u] # "user"
    BY <2>1 DEF sleep_until, WaitIInv, WaitTypeOK
  <2>2. ASSUME NEW t \in Waiters, sleep_registered(t) \/ SleepLoop(t) PROVE wpc'[u] # "user"
    BY <2>2 DEF sleep_registered, SleepLoop, Runs, WaitIInv, WaitTypeOK
  <2>3. ASSUME NEW t \in Waiters, NEW a, NEW v, NEW d, futex_wait(t, a, v, d)
        PROVE  wpc'[u] # "user"
    <3>1. wpc' = [wpc EXCEPT ![t] = "futex"]
      BY <2>3 DEF futex_wait
    <3> QED BY <3>1 DEF WaitIInv, WaitTypeOK
  <2>4. ASSUME NEW t \in Waiters, NEW a, NEW v,
               futex_wait_again(t, a, v) \/ store(t, a, v) \/ futex_wake(t, a, v + 1)
        PROVE  wpc' = wpc
    BY <2>4 DEF futex_wait_again, store, futex_wake
  <2>5. ASSUME NEW t \in Waiters, signal_wake(t) PROVE wpc' = wpc
    BY <2>5 DEF signal_wake
  <2>6. ASSUME tick PROVE wpc' = wpc
    BY <2>6 DEF tick
  <2>7. ASSUME NEW t \in Waiters, FutexLoop(t) PROVE t = u
    BY <2>7 DEF FutexLoop, WaitIInv, WaitTypeOK
  <2> QED BY Zenon, <2>1, <2>2, <2>3, <2>4, <2>5, <2>6, <2>7 DEF WaitNext, Resume
<1>2. result'[u] = WaitResult(u) /\ WaitResult(u) # "Continue"
  BY <1>1 DEF FutexLoop, WaitIInv, WaitTypeOK
<1>3. u \in granted <=> ~futex_waiter_exists(futexq, u) /\ ~timed_out[u]
  BY DEF WaitIInv, FutexState
<1>4. WaitResult(u) = "SUCCESS" <=> ~futex_waiter_exists(futexq, u) /\ ~timed_out[u]
  BY DEF WaitResult
<1> QED BY <1>2, <1>3, <1>4, SMTT(30)

-----------------------------------------------------------------------------
(* Sleeps and futexes: the theorems *)

WF == INSTANCE WellFoundedInduction

LEMMA NatWellOrdered == WellOrdered
<1> SUFFICES ASSUME NEW T \in SUBSET Nat, T # {}
             PROVE  \E x \in T : \A y \in T : x =< y
  BY DEF WellOrdered
<1>1. PICK x \in T : \A y \in T : ~ (<<y, x>> \in WF!OpToRel(<, Nat))
  BY Zenon, WF!WFMin, WF!NatLessThanWellFounded
<1>2. \A y \in T : ~ (y < x)
  <2>1. WF!OpToRel(<, Nat) = {ss \in Nat \X Nat : ss[1] < ss[2]}
    BY Zenon DEF WF!OpToRel
  <2> QED BY <1>1, <2>1
<1> QED BY <1>2

(* Whatever the threads, the words and the timeouts, a thread marked       *)
(* Sleeping is in the queue of whoever is to wake it: in SLEEP_QUEUE with  *)
(* its own deadline inside sleep_until, in FUTEX_WAIT_QUEUE inside         *)
(* FUTEX_WAIT, and due at the next tick when sleep_until came back before  *)
(* its first yield.                                                        *)
THEOREM WaitSleepersQueued ==
    WaitSpec => []SleepersQueued
<1>1. WaitInit => WaitIInv
  BY WaitInitIInv
<1>2. WaitIInv /\ [WaitNext]_waitVars => WaitIInv'
  BY WaitStepIInv, NatWellOrdered
<1>3. WaitIInv => SleepersQueued
  BY SleepersForm DEF WaitIInv
<1> QED BY <1>1, <1>2, <1>3, PTL DEF WaitSpec

(* FUTEX_WAIT returns SUCCESS exactly when a FUTEX_WAKE removed its entry, *)
(* whatever the deadline and the signals do in between.                    *)
THEOREM WaitWakesAccounted ==
    WaitSpec => WakesAccounted
<1>1. WaitInit => WaitIInv
  BY WaitInitIInv
<1>2. WaitIInv /\ [WaitNext]_waitVars => WaitIInv'
  BY WaitStepIInv, NatWellOrdered
<1>3. WaitIInv /\ [WaitNext]_waitVars => [WakeStep]_waitVars
  BY WakeAccounted
<1> QED BY <1>1, <1>2, <1>3, PTL DEF WaitSpec, WakesAccounted
=============================================================================
