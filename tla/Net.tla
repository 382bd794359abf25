-------------------------------- MODULE Net --------------------------------
(* The network driver of drivers/net: its two legacy virtqueues, the single *)
(* transmit buffer, and the loop that asks for the gateway's address and    *)
(* pings it.  The network card and the gateway are external: they take      *)
(* descriptors, send frames and fill receive buffers at any moment between  *)
(* the driver's accesses to the rings.                                      *)
EXTENDS Integers, Sequences

CONSTANTS QUEUE_SIZE,        \* entries of a queue, chosen by the card
          RX_BUFFER_COUNT,   \* receive buffers (32)
          INDEX_MOD,         \* the ring indices wrap here (2^16)
          RX_POLL_BUDGET,    \* frames handled in one poll (64)
          MaxFrames          \* frames that the card receives, and sends

\* The driver refuses a queue of size 0.  That the size is a power of two, and
\* so divides the range of the indices, is the card's side of legacy virtio.
ASSUME VirtioConstants ==
    /\ QUEUE_SIZE \in Nat \ {0} /\ INDEX_MOD \in Nat
    /\ QUEUE_SIZE < INDEX_MOD /\ INDEX_MOD % QUEUE_SIZE = 0
    /\ RX_BUFFER_COUNT \in Nat /\ RX_POLL_BUDGET \in Nat /\ MaxFrames \in Nat

VARIABLES rxq, txq,      \* the queues: rings, the driver's and the card's indices
          rx_bufs,       \* what each receive buffer holds
          tx_buf,        \* what the transmit buffer holds
          rt,            \* the driver's flags
          npc,           \* where the loop is: [at, used, done]
          rcvd, handled, \* frames received by the card, and handled
          queued, sent   \* frames queued by the driver, and put on the wire

RxFrames == {"arp_reply", "arp_other", "echo_reply", "ip_other", "other"}

netVars == <<rxq, txq, rx_bufs, tx_buf, rt, npc, rcvd, handled, queued, sent>>

Smallest(a, b) == IF a < b THEN a ELSE b

\* "avail" and "used" are the rings; the driver owns next_avail_idx and
\* last_used_idx, the card seen_idx and used_idx.
setup_virtio_legacy_queue ==
    [avail |-> [i \in 0..QUEUE_SIZE - 1 |-> 0], used |-> [i \in 0..QUEUE_SIZE - 1 |-> 0],
     next_avail_idx |-> 0, last_used_idx |-> 0, seen_idx |-> 0, used_idx |-> 0]

enqueue_desc_to_avail(q, desc) ==
    [q EXCEPT !.avail[q.next_avail_idx % QUEUE_SIZE] = desc,
              !.next_avail_idx = (@ + 1) % INDEX_MOD]

BufferCount == Smallest(RX_BUFFER_COUNT, QUEUE_SIZE)

\* The loop over the buffers, on a queue just set up: descriptor i is written to
\* entry i.
populate_rx_ring(q) ==
    [q EXCEPT !.avail = [i \in DOMAIN @ |-> IF i < BufferCount THEN i ELSE @[i]],
              !.next_avail_idx = (@ + BufferCount) % INDEX_MOD]

virtio_legacy_init_pio ==
    /\ rxq = populate_rx_ring(setup_virtio_legacy_queue)
    /\ txq = setup_virtio_legacy_queue
    /\ rx_bufs = [d \in 0..BufferCount - 1 |-> "none"] /\ tx_buf = <<>>
    /\ rt = [tx_inflight |-> FALSE, arp_sent |-> FALSE, gateway |-> FALSE,
             ping_sent |-> FALSE, ping_reply_seen |-> FALSE, ping_pending |-> FALSE]
    /\ npc = [at |-> "poll_tx", used |-> 0, done |-> 0]
    /\ rcvd = <<>> /\ handled = <<>> /\ queued = <<>> /\ sent = <<>>

(***************************************************************************)
(* What the driver sends.  Its queue, buffer and flags are threaded through *)
(* the calls as one record.                                                 *)
(***************************************************************************)
Driver == [q |-> txq, buf |-> tx_buf, rt |-> rt, queued |-> queued]

\* The test of tx_inflight left out.
queue_over(d, frame) ==
    [d EXCEPT !.q = enqueue_desc_to_avail(@, 0), !.buf = frame,
              !.rt.tx_inflight = TRUE, !.queued = Append(@, frame)]

queue_tx_frame(d, frame) ==
    IF d.rt.tx_inflight THEN d
    ELSE [d EXCEPT !.q = enqueue_desc_to_avail(@, 0), !.buf = frame,
                   !.rt.tx_inflight = TRUE, !.queued = Append(@, frame)]

\* Whether the call queued its frame.
Took(d, e) == Len(e.queued) > Len(d.queued)

send_arp_request(d) ==
    LET e == queue_tx_frame(d, <<"arp", Len(d.queued)>>)
    IN  IF Took(d, e) THEN [e EXCEPT !.rt.arp_sent = TRUE] ELSE e

send_icmp_echo(d) ==
    LET e == queue_tx_frame(d, <<"ping", Len(d.queued)>>)
    IN  IF Took(d, e) THEN [e EXCEPT !.rt.ping_sent = TRUE] ELSE e

try_send_pending_icmp(d) ==
    LET e == send_icmp_echo(d)
    IN  IF d.rt.tx_inflight THEN [d EXCEPT !.rt.ping_pending = TRUE]
        ELSE [e EXCEPT !.rt.ping_pending = ~e.rt.tx_inflight]

handle_arp(d, frame) ==
    LET known == [d EXCEPT !.rt.gateway = TRUE, !.rt.ping_pending = TRUE]
        e == send_icmp_echo(known)
    IN  CASE frame # "arp_reply" -> d
          [] d.rt.tx_inflight -> known
          [] OTHER -> IF e.rt.tx_inflight THEN [e EXCEPT !.rt.ping_pending = FALSE] ELSE e

handle_ipv4(d, frame) ==
    IF frame = "echo_reply" THEN [d EXCEPT !.rt.ping_reply_seen = TRUE] ELSE d

handle_rx_frame(d, frame) ==
    CASE frame \in {"arp_reply", "arp_other"} -> handle_arp(d, frame)
      [] frame \in {"echo_reply", "ip_other"} -> handle_ipv4(d, frame)
      [] OTHER -> d

\* "hundredth" says that the tick counter is a multiple of 100.
drive_network(d, hundredth) ==
    CASE d.rt.ping_reply_seen -> d
      [] ~d.rt.ping_reply_seen /\ ~d.rt.arp_sent -> send_arp_request(d)
      [] ~d.rt.ping_reply_seen /\ d.rt.arp_sent /\ d.rt.gateway ->
            CASE d.rt.tx_inflight -> d
              [] ~d.rt.tx_inflight
                    /\ (d.rt.ping_pending \/ ~d.rt.ping_sent \/ hundredth) ->
                    try_send_pending_icmp(d)
              [] OTHER -> d
      [] OTHER -> IF hundredth THEN send_arp_request(d) ELSE d

Becomes(d) ==
    /\ txq' = d.q /\ tx_buf' = d.buf /\ rt' = d.rt /\ queued' = d.queued

(***************************************************************************)
(* The loop: poll_tx, poll_rx and drive_network, then 10 ms of sleep.       *)
(***************************************************************************)
Consumed(q, used) ==
    [q EXCEPT !.last_used_idx = used]

\* (At most one frame is in flight, so the budget of 64 is never reached.)
poll_tx ==
    /\ npc.at = "poll_tx"
    /\ txq' = Consumed(txq, txq.used_idx)
    /\ rt' = [rt EXCEPT !.tx_inflight = @ /\ txq.last_used_idx = txq.used_idx]
    /\ npc' = [at |-> "poll_rx", used |-> rxq.used_idx, done |-> 0]
    /\ UNCHANGED <<rxq, rx_bufs, tx_buf, rcvd, handled, queued, sent>>

\* The next frame of those that were there when the poll began: it is handled
\* in its buffer, and the buffer goes back to the card.
poll_rx ==
    LET desc == rxq.used[rxq.last_used_idx % QUEUE_SIZE]
        more == rxq.last_used_idx # npc.used /\ npc.done < RX_POLL_BUDGET
    IN  /\ npc.at = "poll_rx"
        /\ IF more
           THEN /\ Becomes(handle_rx_frame(Driver, rx_bufs[desc]))
                /\ rxq' = [enqueue_desc_to_avail(rxq, desc) EXCEPT
                             !.last_used_idx = (@ + 1) % INDEX_MOD]
                /\ handled' = Append(handled, rx_bufs[desc])
                /\ npc' = [npc EXCEPT !.done = @ + 1]
           ELSE /\ npc' = [npc EXCEPT !.at = "drive_network"]
                /\ UNCHANGED <<rxq, txq, tx_buf, rt, queued, handled>>
        /\ UNCHANGED <<rx_bufs, rcvd, sent>>

run_virtio_loop ==
    /\ npc.at = "drive_network"
    /\ \E hundredth \in BOOLEAN : Becomes(drive_network(Driver, hundredth))
    /\ Len(queued') <= MaxFrames
    /\ npc' = [at |-> "poll_tx", used |-> 0, done |-> 0]
    /\ UNCHANGED <<rxq, rx_bufs, rcvd, handled, sent>>

(***************************************************************************)
(* The card: it takes the next available descriptor and returns it used.    *)
(***************************************************************************)
Returned(q) ==
    [q EXCEPT !.seen_idx = (@ + 1) % INDEX_MOD,
              !.used[q.used_idx % QUEUE_SIZE] = q.avail[q.seen_idx % QUEUE_SIZE],
              !.used_idx = (@ + 1) % INDEX_MOD]

card_sends ==
    /\ txq.seen_idx # txq.next_avail_idx
    /\ txq' = Returned(txq)
    /\ sent' = Append(sent, tx_buf)
    /\ UNCHANGED <<rxq, rx_bufs, tx_buf, rt, npc, rcvd, handled, queued>>

card_receives ==
    /\ rxq.seen_idx # rxq.next_avail_idx /\ Len(rcvd) < MaxFrames
    /\ \E frame \in RxFrames :
        /\ rx_bufs' = [rx_bufs EXCEPT ![rxq.avail[rxq.seen_idx % QUEUE_SIZE]] = frame]
        /\ rcvd' = Append(rcvd, frame)
    /\ rxq' = Returned(rxq)
    /\ UNCHANGED <<txq, tx_buf, rt, npc, handled, queued, sent>>

NetNext == poll_tx \/ poll_rx \/ run_virtio_loop \/ card_sends \/ card_receives

NetSpec == virtio_legacy_init_pio /\ [][NetNext]_netVars

-----------------------------------------------------------------------------
\* Every frame crosses the queues whole, once and in order: what the card puts
\* on the wire is what the driver queued, though there is one transmit buffer,
\* and what the driver handles is what the card received, though a buffer goes
\* back to the card while later frames wait and the indices wrap.
VirtioFramesIntact ==
    /\ Len(sent) <= Len(queued) /\ sent = SubSeq(queued, 1, Len(sent))
    /\ Len(handled) <= Len(rcvd) /\ handled = SubSeq(rcvd, 1, Len(handled))

====
