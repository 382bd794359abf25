-------------------------------- MODULE Usb --------------------------------
(* The xHCI driver of drivers/usb: its command, transfer and event rings,   *)
(* the enumeration of the ports, the choice of a HID endpoint from the      *)
(* descriptors, the interrupt transfers and the translation of HID reports  *)
(* into scancodes and mouse packets.  The controller and the devices are    *)
(* external: they run between any two events that the driver handles.       *)
EXTENDS Integers, Sequences, FiniteSets, SequencesExt

CONSTANTS Ports,          \* the root hub's ports, 1..n
          Devices,        \* what may be plugged into each port, as records
                          \* [config, report, reports]
          MaxSlots,       \* device slots of the controller
          CMD_RING, EP0_RING, HID_RING,  \* TRBs before the link (255)
          EVENTS,         \* TRBs of the event ring (256)
          NKEYS,          \* key slots of a boot keyboard report (6)
          MOUSE_ENTRIES,  \* mice whose buttons are remembered (8)
          UsbFaults, UsbReports   \* failures and reports of one behaviour

VARIABLE usb

usbVars == usb

(***************************************************************************)
(* Rings.  A TRB belongs to the controller when its cycle bit is the one    *)
(* the controller expects; the link TRB sends the controller back to 0.     *)
(***************************************************************************)
NewRing(n) ==
    [size |-> n, trb |-> [i \in 0..n - 1 |-> [cyc |-> 0, what |-> <<>>]],
     link |-> 1, enq |-> 0, cyc |-> 1]

push_trb(r, what) ==
    LET put == [r EXCEPT !.trb[r.enq] = [cyc |-> r.cyc, what |-> what]]
    IN  IF r.enq + 1 >= r.size
        THEN [put EXCEPT !.enq = 0, !.cyc = 1 - r.cyc, !.link = 1 - r.cyc]
        ELSE [put EXCEPT !.enq = r.enq + 1]

\* The command ring has its own copy of the same code.
push_command(r, what) == push_trb(r, what)

Start == [at |-> 0, ccs |-> 1]

\* Where the controller stands once it has followed a link that it owns.
Follow(r, pos) ==
    IF pos.at = r.size /\ r.link = pos.ccs
    THEN [at |-> 0, ccs |-> 1 - pos.ccs] ELSE pos

Owns(r, pos) ==
    LET p == Follow(r, pos)
    IN  p.at < r.size /\ r.trb[p.at].cyc = p.ccs

\* After its last TRB the controller may have read the link already.
Advance(r, pos) ==
    LET p == Follow(r, pos)
        q == [p EXCEPT !.at = @ + 1]
    IN  IF q.at = r.size THEN {q, [at |-> 0, ccs |-> 1 - q.ccs]} ELSE {q}

\* The positions after n TRBs that the controller owns.
Run(r, pos, n) ==
    FoldLeft(LAMBDA S, i : UNION {IF Owns(r, q) THEN Advance(r, q) ELSE {} : q \in S},
             {pos}, [i \in 1..n |-> i])

NoEvent == [cyc |-> 0, type |-> "none", ptr |-> <<>>, code |-> 0, id |-> 0,
            sent |-> <<>>]

Room(u) == (u.evenq + 1) % EVENTS # u.erdp

Post(u, type, ptr, code, id, sent) ==
    [u EXCEPT !.ev[u.evenq] = [cyc |-> u.pcs, type |-> type, ptr |-> ptr,
                               code |-> code, id |-> id, sent |-> sent],
              !.evenq = (@ + 1) % EVENTS,
              !.pcs = IF u.evenq + 1 = EVENTS THEN 1 - @ ELSE @]

(***************************************************************************)
(* Commands and enumeration.  A command's address is <<"cmd", index>>, a    *)
(* transfer's <<slot, endpoint, index>>.                                    *)
(***************************************************************************)
submit_command(u, kind, id) ==
    [u EXCEPT !.cmd = push_command(@, <<kind, id>>),
              !.pcmds = Append(@, [ptr |-> <<"cmd", u.cmd.enq>>,
                                   kind |-> kind, id |-> id])]

HasDevice(u, p) == \E i \in DOMAIN u.devs : u.devs[i].port = p

\* The check of the port's device left out: a port event asks for a second
\* slot.
enable_slot_again(u, p, reset) ==
    IF u.enumerating # 0 \/ ~u.conn[p] THEN u
    ELSE submit_command([u EXCEPT !.enumerating = p], "EnableSlot", p)

\* "reset" is what the port reset comes to, when the port is not enabled.
submit_enable_slot_for_port(u, p, reset) ==
    LET on == [u EXCEPT !.en[p] = TRUE, !.chg[p] = TRUE, !.pend[p] = TRUE]
    IN  CASE u.enumerating # 0 \/ HasDevice(u, p) \/ ~u.conn[p] -> u
          [] ~u.en[p] /\ reset[p] = "timeout" -> [u EXCEPT !.chg[p] = FALSE]
          [] ~u.en[p] /\ reset[p] = "gone" ->
                [u EXCEPT !.conn[p] = FALSE, !.chg[p] = TRUE, !.pend[p] = TRUE]
          [] OTHER -> submit_command([IF u.en[p] THEN u ELSE on
                                        EXCEPT !.enumerating = p],
                                     "EnableSlot", p)

submit_next_connected_port(u, reset) ==
    FoldLeft(LAMBDA v, p : submit_enable_slot_for_port(v, p, reset), u,
             [i \in 1..Cardinality(Ports) |-> i])

NoHid == [kind |-> "none", id |-> 0, ring |-> NewRing(1), buf |-> <<>>]

\* "memory" is FALSE when one of the DMA pages cannot be allocated.
create_device_for_slot(u, p, slot, memory) ==
    IF ~memory THEN u
    ELSE submit_command(
           [u EXCEPT !.devs = Append(@, [port |-> p, slot |-> slot,
                                         ep0 |-> NewRing(EP0_RING), buf |-> <<>>,
                                         hid |-> NoHid])],
           "AddressDevice", slot)

find_device_index(u, slot) ==
    CHOOSE i \in DOMAIN u.devs : u.devs[i].slot = slot

HasSlot(u, slot) == \E i \in DOMAIN u.devs : u.devs[i].slot = slot

Pending(ptr, kind, slot, cfg) ==
    [ptr |-> ptr, kind |-> kind, slot |-> slot, cfg |-> cfg]

\* Setup, data and status stages; the pending entry names the status TRB.
submit_control_in_transfer(u, slot, kind, cfg) ==
    LET i  == find_device_index(u, slot)
        r1 == push_trb(u.devs[i].ep0, <<"setup", kind>>)
        r2 == push_trb(r1, <<"data", kind>>)
        r3 == push_trb(r2, <<"status", kind>>)
    IN  IF ~HasSlot(u, slot) THEN u
        ELSE [u EXCEPT !.devs[i].ep0 = r3, !.devs[i].buf = <<>>,
                       !.pxfers = Append(@, Pending(<<slot, 0, r2.enq>>, kind,
                                                    slot, cfg))]

submit_get_device_descriptor8(u, slot) ==
    submit_control_in_transfer(u, slot, "DeviceDescriptor8", <<>>)

submit_get_config_header(u, slot) ==
    submit_control_in_transfer(u, slot, "ConfigHeader", <<>>)

submit_get_config_full(u, slot) ==
    submit_control_in_transfer(u, slot, "ConfigFull", <<>>)

submit_set_configuration(u, slot) ==
    LET i  == find_device_index(u, slot)
        r1 == push_trb(u.devs[i].ep0, <<"setup", "SetConfiguration">>)
        r2 == push_trb(r1, <<"status", "SetConfiguration">>)
    IN  [u EXCEPT !.devs[i].ep0 = r2,
                  !.pxfers = Append(@, Pending(<<slot, 0, r1.enq>>,
                                               "SetConfiguration", slot, <<>>))]

(***************************************************************************)
(* Descriptors.  A configuration is a sequence of <<4, class, protocol>>,   *)
(* <<4>> (an interface descriptor too short to use), <<33, length>> (the    *)
(* HID descriptor) and <<5, in, transfer type>>.  A report descriptor is a  *)
(* sequence of items <<type, tag, value>>.                                  *)
(***************************************************************************)
HidKind(protocol) ==
    CASE protocol = 1 -> "Keyboard" [] protocol = 2 -> "Mouse"
      [] OTHER -> "Unknown"

parse_hid_endpoint_from_config(config) ==
    FoldLeft(LAMBDA s, d :
        CASE s.found -> s
          [] d[1] = 4 /\ Len(d) = 1 ->
                [s EXCEPT !.in = FALSE, !.kind = "Unknown", !.len = 0]
          [] d[1] = 4 /\ Len(d) > 1 ->
                [s EXCEPT !.in = d[2] = 3, !.len = 0,
                          !.kind = IF d[2] = 3 THEN HidKind(d[3]) ELSE "Unknown"]
          [] d[1] = 33 /\ s.in -> [s EXCEPT !.len = d[2]]
          [] d[1] = 5 /\ s.in /\ d[2] = 1 /\ d[3] = 3 -> [s EXCEPT !.found = TRUE]
          [] OTHER -> s,
        [found |-> FALSE, in |-> FALSE, kind |-> "Unknown", len |-> 0, id |-> 0],
        config)

classify_hid_from_report_descriptor(items) ==
    LET end == FoldLeft(LAMBDA s, i :
            CASE s.kind # "Unknown" -> s
              [] i[1] = 1 /\ i[2] = 0 -> [s EXCEPT !.page = i[3]]
              [] i[1] = 1 /\ i[2] = 8 -> [s EXCEPT !.id = i[3]]
              [] i[1] = 2 /\ i[2] = 0 -> [s EXCEPT !.usage = i[3]]
              [] i[1] = 0 /\ i[2] = 10 /\ i[3] = 1 /\ s.page = 1 ->
                    [s EXCEPT !.kind = CASE s.usage = 2 -> "Mouse"
                                         [] s.usage = 6 -> "Keyboard"
                                         [] OTHER -> "Unknown"]
              [] i[1] = 0 /\ i[2] # 10 -> [s EXCEPT !.usage = 0]
              [] OTHER -> s,
            [kind |-> "Unknown", page |-> 0, usage |-> 0, id |-> 0], items)
    IN  [kind |-> end.kind, id |-> IF end.kind = "Unknown" THEN 0 ELSE end.id]

submit_get_hid_report_descriptor(u, slot, cfg) ==
    submit_control_in_transfer(u, slot, "HidReportDescriptor", cfg)

setup_hid_endpoint(u, slot, cfg, memory) ==
    IF cfg.kind = "Unknown" \/ ~HasSlot(u, slot) \/ ~memory THEN u
    ELSE submit_set_configuration(
           [u EXCEPT !.devs[find_device_index(u, slot)].hid =
                [kind |-> cfg.kind, id |-> cfg.id, ring |-> NewRing(HID_RING),
                 buf |-> <<>>]],
           slot)

submit_configure_endpoint_command(u, slot) ==
    IF ~HasSlot(u, slot) \/ u.devs[find_device_index(u, slot)].hid = NoHid THEN u
    ELSE submit_command(u, "ConfigureEndpoint", slot)

\* The report buffer is cleared and handed to the controller again.
submit_interrupt_in_transfer(u, slot) ==
    LET i == find_device_index(u, slot)
        r == u.devs[i].hid.ring
    IN  IF ~HasSlot(u, slot) \/ u.devs[i].hid = NoHid THEN u
        ELSE [u EXCEPT !.devs[i].hid.ring = push_trb(@, <<"normal", "InterruptIn">>),
                       !.devs[i].hid.buf = <<>>,
                       !.pxfers = Append(@, Pending(<<slot, 1, r.enq>>,
                                                    "InterruptIn", slot, <<>>))]

(***************************************************************************)
(* HID reports, as bytes.  u.down is the set of scancodes that the kernel   *)
(* has been told are held; 256 marks the E0 prefix.                         *)
(***************************************************************************)
Set1 == <<0, 0, 0, 30, 48, 46, 32, 18, 33, 34, 35, 23, 36, 37, 38, 50, 49, 24,
          25, 16, 19, 31, 20, 22, 47, 17, 45, 21, 44, 2, 3, 4, 5, 6, 7, 8, 9, 10,
          11, 28, 1, 14, 15, 57, 12, 13, 26, 27, 43, 0, 39, 40, 41, 51, 52, 53>>

map_hid_usage_to_set1_scancode(k) ==
    IF k \in DOMAIN Set1 THEN Set1[k] ELSE 0

Modifiers == <<29, 42, 56, 256 + 91, 256 + 29, 54, 256 + 56, 256 + 92>>

Codes(keys) == {map_hid_usage_to_set1_scancode(k) : k \in keys} \ {0}

ModifierCodes(m) == {Modifiers[b] : b \in {b \in 1..8 : (m \div 2^(b - 1)) % 2 = 1}}

InjectKeys(u, old, new) ==
    [u EXCEPT !.down = (@ \ Codes(old \ new)) \cup Codes(new \ old)]

inject_modifier_transitions(u, m) ==
    LET was == ModifierCodes(u.mods)
        now == ModifierCodes(m)
    IN  [u EXCEPT !.down = (@ \ (was \ now)) \cup (now \ was), !.mods = m]

\* The boot report [modifiers, reserved, keys], perhaps one byte in.
parse_hid_keyboard_report(u, report) ==
    LET fits(o) == Len(report) >= o + 2 + NKEYS /\ report[o + 2] = 0
        o == IF fits(0) THEN 0 ELSE 1
        keys == Range(SubSeq(report, o + 3, o + 2 + NKEYS))
    IN  IF ~fits(0) /\ ~fits(1) THEN u
        ELSE [InjectKeys(inject_modifier_transitions(u, report[o + 1]),
                         u.keys, keys) EXCEPT !.keys = keys]

\* The entry of a slot, a free one, or the first.
mouse_entry(u, slot) ==
    CASE \E i \in DOMAIN u.mice : u.mice[i].slot = slot ->
            CHOOSE i \in DOMAIN u.mice : u.mice[i].slot = slot
      [] Len(u.mice) < MOUSE_ENTRIES -> Len(u.mice) + 1
      [] OTHER -> 1

parse_hid_mouse_report(u, slot, report) ==
    LET e == mouse_entry(u, slot)
        buttons == report[1] % 8
        prev == IF e \in DOMAIN u.mice /\ u.mice[e].slot = slot
                THEN u.mice[e].buttons ELSE 0
        entry == [slot |-> slot, buttons |-> buttons]
        moved == \E i \in 2..Len(report) : i < 5 /\ report[i] # 0
    IN  IF Len(report) < 3 \/ report[1] >= 32 THEN u
        ELSE [u EXCEPT !.mice = IF e \in DOMAIN @ THEN [@ EXCEPT ![e] = entry]
                                ELSE Append(@, entry),
                       !.packets = IF moved \/ buttons # prev THEN @ + 1 ELSE @]

parse_hid_report(u, slot, kind, report) ==
    IF kind = "Keyboard" THEN parse_hid_keyboard_report(u, report)
    ELSE parse_hid_mouse_report(u, slot, report)

\* The bytes after the report's number, when the device numbers its reports.
Payload(id, report) ==
    CASE id = 0 -> report
      [] report # <<>> /\ id = Head(report) -> Tail(report)
      [] OTHER -> <<>>

(***************************************************************************)
(* Events.                                                                  *)
(***************************************************************************)
Without(s, x) == SelectSeq(s, LAMBDA y : y # x)

handle_command_completion_event(u, e, reset, memory) ==
    LET c == SelectSeq(u.pcmds, LAMBDA x : x.ptr = e.ptr)[1]
        v == [u EXCEPT !.pcmds = Without(@, c)]
        w == [v EXCEPT !.enumerating = 0]
        ok == e.code = 1
    IN  IF ~\E i \in DOMAIN u.pcmds : u.pcmds[i].ptr = e.ptr THEN u
        ELSE CASE c.kind = "EnableSlot" ->
                    submit_next_connected_port(
                        IF ok /\ e.id # 0
                        THEN create_device_for_slot(w, c.id, e.id, memory) ELSE w,
                        reset)
               [] c.kind = "AddressDevice" /\ ok ->
                    submit_get_device_descriptor8(v, c.id)
               [] c.kind = "ConfigureEndpoint" /\ ok ->
                    submit_interrupt_in_transfer(v, c.id)
               [] OTHER -> v

\* The next transfer is queued before the report of this one is read.
submit_then_read(u, slot) ==
    LET v == submit_interrupt_in_transfer(u, slot)
        hid == v.devs[find_device_index(v, slot)].hid
    IN  parse_hid_report(v, slot, hid.kind, Payload(hid.id, hid.buf))

InterruptIn(u, slot) ==
    LET hid == u.devs[find_device_index(u, slot)].hid
        payload == Payload(hid.id, hid.buf)
    IN  submit_interrupt_in_transfer(
            IF payload = <<>> THEN u ELSE parse_hid_report(u, slot, hid.kind, payload),
            slot)

handle_transfer_event(u, e, memory) ==
    LET t == SelectSeq(u.pxfers, LAMBDA x : x.ptr = e.ptr)[1]
        v == [u EXCEPT !.pxfers = Without(@, t)]
        buf == u.devs[find_device_index(u, t.slot)].buf
        cfg == parse_hid_endpoint_from_config(buf)
        found == classify_hid_from_report_descriptor(buf)
    IN  CASE ~\E i \in DOMAIN u.pxfers : u.pxfers[i].ptr = e.ptr -> u
          [] e.code \notin {1, 13} -> v
          [] t.kind = "DeviceDescriptor8" ->
                submit_get_config_header(v, t.slot)
          [] t.kind = "ConfigHeader" ->
                submit_get_config_full(v, t.slot)
          [] t.kind = "ConfigFull" /\ ~cfg.found -> v
          [] t.kind = "ConfigFull" /\ cfg.found /\ cfg.kind = "Unknown" /\ cfg.len > 0 ->
                submit_get_hid_report_descriptor(v, t.slot, cfg)
          [] t.kind = "ConfigFull" /\ cfg.found
                /\ ~(cfg.kind = "Unknown" /\ cfg.len > 0) ->
                setup_hid_endpoint(v, t.slot, cfg, memory)
          [] t.kind = "HidReportDescriptor" ->
                setup_hid_endpoint(v, t.slot,
                    [t.cfg EXCEPT !.kind = found.kind, !.id = found.id], memory)
          [] t.kind = "SetConfiguration" ->
                submit_configure_endpoint_command(v, t.slot)
          [] t.kind = "InterruptIn" ->
                [InterruptIn(v, t.slot)
                    EXCEPT !.seen = IF e.sent = {-1} THEN @ ELSE e.sent]

handle_port_status_change_event(u, p, reset) ==
    LET v == IF u.conn[p] THEN submit_enable_slot_for_port(u, p, reset) ELSE u
    IN  [v EXCEPT !.chg[p] = IF u.chg[p] THEN FALSE ELSE @]

Resets == [Ports -> {"ok", "timeout", "gone"}]

\* Each port reset that fails, and each page that cannot be had, is a fault.
Costs(reset, memory) ==
    Cardinality({p \in Ports : reset[p] # "ok"}) + (IF memory THEN 0 ELSE 1)

UnusedSlot == [used |-> FALSE, port |-> 0, ep0 |-> Start, hid |-> Start,
               on |-> FALSE, halted |-> FALSE]

\* The controller is reset and running, the no-op command is queued and the
\* first connected port is being enumerated.
UsbInit ==
    \E conn \in [Ports -> BOOLEAN],
       dev \in {f \in [Ports -> UNION {Devices[p] : p \in Ports}] :
                    \A p \in Ports : f[p] \in Devices[p]} :
        usb = submit_next_connected_port(
            submit_command(
                [conn |-> conn, dev |-> dev, en |-> [p \in Ports |-> FALSE],
                 chg |-> conn, pend |-> conn, cmdpos |-> Start,
                 slots |-> [s \in 1..MaxSlots |-> UnusedSlot],
                 ev |-> [i \in 0..EVENTS - 1 |-> NoEvent], evenq |-> 0, pcs |-> 1,
                 erdp |-> 0, ccs |-> 1, cmd |-> NewRing(CMD_RING), devs |-> <<>>,
                 pcmds |-> <<>>, pxfers |-> <<>>, enumerating |-> 0,
                 keys |-> {0}, mods |-> 0, mice |-> <<>>, packets |-> 0,
                 down |-> {}, seen |-> {}, faults |-> UsbFaults,
                 reports |-> UsbReports],
                "Noop", 0),
            [p \in Ports |-> "ok"])

\* (Only the cycle bit of an event that was taken matters any more.)
pop_event(u) ==
    [u EXCEPT !.erdp = (@ + 1) % EVENTS, !.ev[u.erdp] = [NoEvent EXCEPT !.cyc = u.ccs],
              !.ccs = IF u.erdp + 1 = EVENTS THEN 1 - @ ELSE @]

\* One turn of the loop: the event is taken, handled and given back.
poll_xhci_events ==
    LET e == usb.ev[usb.erdp]
        u == pop_event(usb)
    IN  /\ e.cyc = usb.ccs
        /\ \E reset \in Resets, memory \in BOOLEAN :
            /\ Costs(reset, memory) <= usb.faults
            /\ usb' = [CASE e.type = "command" ->
                              handle_command_completion_event(u, e, reset, memory)
                         [] e.type = "port" ->
                              handle_port_status_change_event(u, e.id, reset)
                         [] e.type = "transfer" -> handle_transfer_event(u, e, memory)
                        EXCEPT !.faults = @ - Costs(reset, memory)]

(***************************************************************************)
(* The controller, the ports and the devices.                               *)
(***************************************************************************)
plug(p) ==
    /\ usb.faults > 0
    /\ usb' = [usb EXCEPT !.conn[p] = ~@, !.en[p] = FALSE, !.faults = @ - 1,
                          !.chg[p] = TRUE, !.pend[p] = @ \/ ~usb.chg[p]]

port_event(p) ==
    /\ usb.pend[p] /\ Room(usb)
    /\ usb' = Post([usb EXCEPT !.pend[p] = FALSE], "port", <<>>, 1, p, {-1})

Dead(u, slot) == ~u.conn[u.slots[slot].port]

FreeSlots(u) == {s \in 1..MaxSlots : ~u.slots[s].used}

Lowest(S) == CHOOSE s \in S : \A t \in S : s <= t

\* What a command that succeeds does, and the slot that its event names.
Obeyed(u, kind, id) ==
    CASE kind = "EnableSlot" ->
            [u EXCEPT !.slots[Lowest(FreeSlots(u))].used = TRUE]
      [] kind = "AddressDevice" ->
            [u EXCEPT !.slots[id].port = u.devs[find_device_index(u, id)].port]
      [] kind = "ConfigureEndpoint" -> [u EXCEPT !.slots[id].on = TRUE]
      [] OTHER -> u

\* (A command that was executed is never read again.)
run_command(ok) ==
    LET r == usb.cmd
        p == Follow(r, usb.cmdpos)
        what == r.trb[p.at].what
        can == CASE what[1] = "EnableSlot" -> FreeSlots(usb) # {}
                 [] what[1] = "AddressDevice" ->
                        usb.conn[usb.devs[find_device_index(usb, what[2])].port]
                 [] what[1] = "ConfigureEndpoint" -> ~Dead(usb, what[2])
                 [] OTHER -> TRUE
        slot == IF what[1] = "EnableSlot" THEN Lowest(FreeSlots(usb)) ELSE what[2]
    IN  /\ Owns(r, usb.cmdpos) /\ Room(usb)
        /\ ok => can
        /\ ~ok => ~can \/ usb.faults > 0
        /\ \E next \in Advance(r, usb.cmdpos) :
            usb' = Post([IF ok THEN Obeyed(usb, what[1], what[2]) ELSE usb EXCEPT
                            !.cmdpos = next, !.cmd.trb[p.at].what = <<>>,
                            !.faults = IF ok \/ ~can THEN @ ELSE @ - 1],
                        "command", <<"cmd", p.at>>, IF ok THEN 1 ELSE 9,
                        IF ok THEN slot ELSE 0, {-1})

\* What the device answers to a request on its control endpoint.
Answer(u, slot, req) ==
    LET d == u.dev[u.slots[slot].port]
    IN  CASE req = "ConfigFull" -> d.config
          [] req = "HidReportDescriptor" -> d.report
          [] OTHER -> <<>>

\* A whole request of the control endpoint: the status stage is reported, or
\* the stage that fails.
run_control(slot, ok) ==
    LET i == find_device_index(usb, slot)
        r == usb.devs[i].ep0
        at == Follow(r, usb.slots[slot].ep0).at
        req == r.trb[at].what[2]
        n == IF req = "SetConfiguration" THEN 2 ELSE 3
        free == Dead(usb, slot)
    IN  /\ usb.slots[slot].port # 0 /\ HasSlot(usb, slot)
        /\ ~usb.slots[slot].halted
        /\ Owns(r, usb.slots[slot].ep0) /\ Room(usb)
        /\ ok => ~free
        /\ ~ok => free \/ usb.faults > 0
        /\ \E next \in Run(r, usb.slots[slot].ep0, n) :
            IF ok
            THEN usb' = Post([usb EXCEPT !.slots[slot].ep0 = next,
                                         !.devs[i].buf = Answer(usb, slot, req)],
                             "transfer", <<slot, 0, (at + n - 1) % r.size>>, 1, slot, {-1})
            ELSE \E stage \in 0..n - 1 :
                 usb' = Post([usb EXCEPT !.slots[slot].halted = TRUE,
                                         !.faults = IF free THEN @ ELSE @ - 1],
                             "transfer", <<slot, 0, (at + stage) % r.size>>, 6, slot, {-1})

\* The device has a report: its bytes go to the buffer.
run_interrupt(slot, ok) ==
    LET i == find_device_index(usb, slot)
        r == usb.devs[i].hid.ring
        p == Follow(r, usb.slots[slot].hid)
        free == Dead(usb, slot)
    IN  /\ usb.slots[slot].on /\ ~usb.slots[slot].halted
        /\ Owns(r, usb.slots[slot].hid) /\ Room(usb)
        /\ ok => ~free /\ usb.reports > 0
        /\ ~ok => free \/ usb.faults > 0
        /\ \E next \in Advance(r, usb.slots[slot].hid) :
            LET u == [usb EXCEPT !.slots[slot].hid = next]
            IN  IF ok
                THEN \E rep \in usb.dev[usb.slots[slot].port].reports :
                        usb' = Post([u EXCEPT !.devs[i].hid.buf = rep.bytes,
                                              !.reports = @ - 1],
                                    "transfer", <<slot, 1, p.at>>, 13, slot, rep.held)
                ELSE usb' = Post([u EXCEPT !.slots[slot].halted = TRUE,
                                           !.faults = IF free THEN @ ELSE @ - 1],
                                 "transfer", <<slot, 1, p.at>>, 6, slot, {-1})

UsbNext ==
    \/ poll_xhci_events
    \/ \E p \in Ports : plug(p) \/ port_event(p)
    \/ \E ok \in BOOLEAN : run_command(ok)
    \/ \E slot \in 1..MaxSlots, ok \in BOOLEAN :
          run_control(slot, ok) \/ run_interrupt(slot, ok)

-----------------------------------------------------------------------------
\* A port never has two slots, nor a slot asked for while it has one, however
\* its status events, the rescans after each Enable Slot and the resets mix;
\* and the port being enumerated is the one whose Enable Slot is outstanding.
OneSlotPerPort ==
    LET asked == SelectSeq(usb.pcmds, LAMBDA c : c.kind = "EnableSlot")
    IN  /\ \A i, j \in DOMAIN usb.devs :
              usb.devs[i].port = usb.devs[j].port \/ usb.devs[i].slot = usb.devs[j].slot
                => i = j
        /\ Len(asked) <= 1
        /\ \A i \in DOMAIN asked : /\ asked[i].id = usb.enumerating
                                   /\ ~HasDevice(usb, asked[i].id)

\* The keys that the kernel believes held are those of the last keyboard
\* report that the driver handled: a press is always followed by its release,
\* and no report is overwritten before it is read.
HeldKeysMatchReport == usb.down = usb.seen

====
