------------------------------ MODULE Mailbox ------------------------------
(* One mailbox of syscall/ipc.rs: a ring of slot numbers over a pool of    *)
(* message slots with a free list.  Every operation runs under the lock    *)
(* MAILBOXES; the scanning loops of the two receives take one step for     *)
(* each message they look at, with `scan' standing for the held lock.      *)
EXTENDS Integers

CONSTANTS
    MAILBOX_CAP,   \* MAILBOX_CAP
    Senders,       \* thread ids that send
    Receivers,     \* <<thread id, generation>> of the owners of the slot
    None           \* empty message, no scan, waiter 0

ASSUME MailboxConstants ==
    /\ MAILBOX_CAP \in Nat \ {0}
    /\ None \notin Senders /\ None \notin Receivers
    /\ None \notin [from : Senders, to : Receivers]

VARIABLES
    head, tail, count, queue,   \* the ring of queued slot numbers
    slots,                      \* the messages
    free, free_count,           \* the stack of free slot numbers
    waiter,                     \* the sleeping receiver
    scan,                       \* the receive that holds the lock
    found,                      \* what the last receive returned
    quarantined                 \* quarantine() was called

ringVars == <<head, tail, count, queue>>
poolVars == <<slots, free, free_count>>
mailboxVars == <<head, tail, count, queue, slots, free, free_count, waiter,
                 scan, found, quarantined>>

Index == 0 .. MAILBOX_CAP - 1

Message == [from : Senders, to : Receivers]

(* The receive in progress; from = None is pop_valid_for_receiver_copy,    *)
(* otherwise pop_from_sender_copy with `left' rounds of its loop to go.    *)
Scan == [from : Senders \cup {None}, to : Receivers, block : BOOLEAN,
         left : 0 .. MAILBOX_CAP]

MailboxTypeOK ==
    /\ head \in Index /\ tail \in Index
    /\ count \in 0 .. MAILBOX_CAP
    /\ queue \in [Index -> Index]
    /\ slots \in [Index -> Message \cup {None}]
    /\ free \in [Index -> Index]
    /\ free_count \in 0 .. MAILBOX_CAP
    /\ waiter \in Receivers \cup {None}
    /\ scan \in Scan \cup {None}
    /\ found \in Message \cup {None}
    /\ quarantined \in BOOLEAN

(* Mailbox::new *)
new ==
    /\ head = 0 /\ tail = 0 /\ count = 0
    /\ queue = [i \in Index |-> 0]
    /\ slots = [i \in Index |-> None]
    /\ free = [i \in Index |-> i]
    /\ free_count = MAILBOX_CAP
    /\ waiter = None

MailboxInit ==
    /\ new
    /\ scan = None
    /\ found = None
    /\ quarantined = FALSE

-----------------------------------------------------------------------------
Succ(i) == (i + 1) % MAILBOX_CAP

enqueue_slot(idx) ==
    /\ queue' = [queue EXCEPT ![tail] = idx]
    /\ tail' = Succ(tail)

(* quarantine(): the whole mailbox is reset, the waiter included.          *)
quarantine ==
    /\ head' = 0 /\ tail' = 0 /\ count' = 0
    /\ queue' = [i \in Index |-> 0]
    /\ slots' = [i \in Index |-> None]
    /\ free' = [i \in Index |-> i]
    /\ free_count' = MAILBOX_CAP
    /\ waiter' = None
    /\ quarantined' = TRUE

(* Mutant: the duplicate test reads one entry past the free list.          *)
CanFreePastEnd(idx) ==
    /\ free_count < MAILBOX_CAP
    /\ \A i \in 0 .. free_count : free[i] # idx

(* free_slot refuses a slot when the free list is full or has it already.  *)
CanFree(idx) ==
    /\ free_count < MAILBOX_CAP
    /\ \A i \in 0 .. free_count - 1 : free[i] # idx

(* Mutant: the slot is not put on the free list.                           *)
free_slot_leak(idx) ==
    /\ slots' = [slots EXCEPT ![idx] = None]
    /\ UNCHANGED <<free, free_count, waiter, quarantined>>

free_slot(idx) ==
    /\ slots' = [slots EXCEPT ![idx] = None]
    /\ free' = [free EXCEPT ![free_count] = idx]
    /\ free_count' = free_count + 1
    /\ UNCHANGED <<waiter, quarantined>>

dequeue_slot ==
    /\ head' = Succ(head)
    /\ count' = count - 1
    /\ UNCHANGED <<tail, queue>>

(* push_message and take_waiter, as send and the *_from_kernel sends use   *)
(* them: alloc_slot takes the top of the free list.  When the ring is      *)
(* full the slot goes back and the send fails.                             *)
push_message(m) ==
    /\ scan = None
    /\ free_count > 0
    /\ LET idx == free[free_count - 1] IN
       IF count < MAILBOX_CAP
       THEN /\ slots' = [slots EXCEPT ![idx] = m]
            /\ free_count' = free_count - 1
            /\ enqueue_slot(idx)
            /\ count' = count + 1
            /\ waiter' = None
       ELSE /\ slots' = [slots EXCEPT ![idx] = None]
            /\ UNCHANGED <<free_count, tail, queue, count, waiter>>
    /\ UNCHANGED <<head, free, scan, found, quarantined>>

(* A receive takes the lock.                                               *)
start_receive(r) ==
    /\ scan = None
    /\ r.left = count
    /\ scan' = r
    /\ found' = None
    /\ UNCHANGED <<ringVars, poolVars, waiter, quarantined>>

(* Mutant: the receiver's generation is not compared.                      *)
WantedFromSender(m, r) == r.from \in {None, m.from}

Wanted(m, r) == m.to = r.to /\ r.from \in {None, m.from}

(* The message at the head is for the receiver: it is copied out and its   *)
(* slot freed.  A corrupt free list quarantines the mailbox instead and    *)
(* the receive finds nothing, so a blocking one registers itself.          *)
pop_found ==
    /\ scan # None /\ scan.left > 0
    /\ LET idx == queue[head] IN
       /\ Wanted(slots[idx], scan)
       /\ IF CanFree(idx)
          THEN dequeue_slot /\ free_slot(idx) /\ found' = slots[idx]
               /\ scan' = None
          ELSE quarantine /\ UNCHANGED found /\ scan' = [scan EXCEPT !.left = 0]

(* pop_valid_for_receiver_copy drops a message left for an earlier owner   *)
(* of the slot.                                                            *)
pop_stale ==
    /\ scan # None /\ scan.left > 0 /\ scan.from = None
    /\ LET idx == queue[head] IN
       /\ ~ Wanted(slots[idx], scan)
       /\ IF CanFree(idx)
          THEN dequeue_slot /\ free_slot(idx)
               /\ scan' = [scan EXCEPT !.left = @ - 1]
          ELSE quarantine /\ scan' = [scan EXCEPT !.left = 0]
    /\ UNCHANGED found

(* pop_from_sender_copy moves any other message to the end of the ring.    *)
pop_rotate ==
    /\ scan # None /\ scan.left > 0 /\ scan.from # None
    /\ LET idx == queue[head] IN
       /\ ~ Wanted(slots[idx], scan)
       /\ enqueue_slot(idx)
    /\ head' = Succ(head)
    /\ scan' = [scan EXCEPT !.left = @ - 1]
    /\ UNCHANGED <<count, poolVars, waiter, found, quarantined>>

(* Nothing found: a blocking receive registers as the waiter before the    *)
(* lock is released.                                                       *)
pop_none ==
    /\ scan # None /\ scan.left = 0
    /\ scan' = None
    /\ waiter' = IF scan.block THEN scan.to ELSE waiter
    /\ UNCHANGED <<ringVars, poolVars, found, quarantined>>

(* A blocking receive that finds a pending wake-up withdraws its entry.    *)
cancel_wait(r) ==
    /\ scan = None
    /\ waiter = r
    /\ waiter' = None
    /\ UNCHANGED <<ringVars, poolVars, scan, found, quarantined>>

MailboxNext ==
    \/ \E m \in Message : push_message(m)
    \/ \E r \in Scan : start_receive(r)
    \/ pop_found
    \/ pop_stale
    \/ pop_rotate
    \/ pop_none
    \/ \E r \in Receivers : cancel_wait(r)

MailboxSpec == MailboxInit /\ [][MailboxNext]_mailboxVars

-----------------------------------------------------------------------------
(* Properties *)

(* The i-th queued slot number, oldest first.                              *)
Position(i) == IF head + i < MAILBOX_CAP THEN head + i ELSE head + i - MAILBOX_CAP
Queued(i) == queue[Position(i)]

(* Every message slot is in the ring or on the free list, once: no slot    *)
(* leaks and none is handed out twice, through every mix of sends,         *)
(* receives, discards and rotations.                                       *)
SlotsPartitioned ==
    /\ count + free_count = MAILBOX_CAP
    /\ \A i, j \in 0 .. count - 1 : Queued(i) = Queued(j) => i = j
    /\ \A i, j \in 0 .. free_count - 1 : free[i] = free[j] => i = j
    /\ \A i \in 0 .. count - 1, j \in 0 .. free_count - 1 : Queued(i) # free[j]

(* The checks of free_slot never fire: the mailbox, and the messages in    *)
(* it, are never thrown away by quarantine().                              *)
NeverQuarantined == ~ quarantined

(* A queued slot holds a message, a free one has been wiped: the next      *)
(* owner of a slot cannot be handed a copy of an old message.              *)
FreeSlotsWiped ==
    /\ \A i \in 0 .. count - 1 : slots[Queued(i)] # None
    /\ \A j \in 0 .. free_count - 1 : slots[free[j]] = None

(* The mailbox implements the bounded queue: each operation does to the    *)
(* ring what the queue operation does to the sequence, and nothing else.   *)
MQ == INSTANCE MessageQueue
        WITH q <- [i \in 1 .. count |-> slots[Queued(i - 1)]]

ImplementsQueue == MQ!Spec

=============================================================================
