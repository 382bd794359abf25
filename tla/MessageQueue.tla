--------------------------- MODULE MessageQueue ---------------------------
(* What a mailbox of syscall/ipc.rs promises: a bounded first-in-first-out *)
(* queue.  A receive scans it under the lock that guards all mailboxes, so *)
(* no other operation starts before the scan ends.                         *)
EXTENDS Naturals, Sequences

CONSTANTS
    MAILBOX_CAP,   \* messages a mailbox holds
    Senders,       \* thread ids that send
    Receivers,     \* <<thread id, generation>> of the owners of the slot
    None           \* no message, no scan, no waiter

Message == [from : Senders, to : Receivers]

(* A receive in progress.  from = None: recv and recv_blocking, which take *)
(* the first message for the receiver and drop the stale ones before it.   *)
(* Otherwise a receive from one sender, which looks at `left' more         *)
(* messages and keeps those it skips.  block: register as the waiter when  *)
(* nothing is found.                                                       *)
Scan == [from : Senders \cup {None}, to : Receivers, block : BOOLEAN,
         left : 0 .. MAILBOX_CAP]

VARIABLES
    q,        \* the queued messages, oldest first
    waiter,   \* the receiver to wake when a message comes
    scan,     \* the receive in progress
    found     \* the message the last receive returned

vars == <<q, waiter, scan, found>>

TypeOK ==
    /\ q \in Seq(Message) /\ Len(q) <= MAILBOX_CAP
    /\ waiter \in Receivers \cup {None}
    /\ scan \in Scan \cup {None}
    /\ found \in Message \cup {None}

Init ==
    /\ q = <<>>
    /\ waiter = None
    /\ scan = None
    /\ found = None

(* A send fails exactly when the mailbox is full.                          *)
Send(m) ==
    /\ scan = None
    /\ Len(q) < MAILBOX_CAP
    /\ q' = Append(q, m)
    /\ waiter' = None
    /\ UNCHANGED <<scan, found>>

StartScan(r) ==
    /\ scan = None
    /\ scan' = r
    /\ r.left = Len(q)
    /\ found' = None
    /\ UNCHANGED <<q, waiter>>

Wanted(m, r) == m.to = r.to /\ r.from \in {None, m.from}

Take ==
    /\ scan # None /\ scan.left > 0
    /\ Wanted(Head(q), scan)
    /\ q' = Tail(q)
    /\ found' = Head(q)
    /\ scan' = None
    /\ UNCHANGED waiter

(* An unwanted message is dropped, or goes to the end of the queue.        *)
Skip ==
    /\ scan # None /\ scan.left > 0
    /\ ~ Wanted(Head(q), scan)
    /\ q' = IF scan.from = None THEN Tail(q) ELSE Append(Tail(q), Head(q))
    /\ scan' = [scan EXCEPT !.left = @ - 1]
    /\ UNCHANGED <<waiter, found>>

GiveUp ==
    /\ scan # None /\ scan.left = 0
    /\ scan' = None
    /\ waiter' = IF scan.block THEN scan.to ELSE waiter
    /\ UNCHANGED <<q, found>>

CancelWait(r) ==
    /\ scan = None
    /\ waiter = r
    /\ waiter' = None
    /\ UNCHANGED <<q, scan, found>>

Next ==
    \/ \E m \in Message : Send(m)
    \/ \E r \in Scan : StartScan(r)
    \/ Take
    \/ Skip
    \/ GiveUp
    \/ \E r \in Receivers : CancelWait(r)

Spec == Init /\ [][Next]_vars

=============================================================================
