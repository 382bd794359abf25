------------------------------- MODULE Input -------------------------------
(* The sources of keyboard input and the line discipline, side by side: the *)
(* PS/2 path from IRQ1 to a reader, the USB driver that turns HID reports   *)
(* into the same scancodes, and the terminal that decodes them.  A          *)
(* behaviour is a behaviour of one of them, named by "source".  Keyboard,   *)
(* which has proofs, is extended: it rests in its initial state in the      *)
(* behaviours of the others.                                                *)
EXTENDS Keyboard

\* Usb
CONSTANTS Ports, Devices, MaxSlots, CMD_RING, EP0_RING, HID_RING, EVENTS,
          NKEYS, MOUSE_ENTRIES, UsbFaults, UsbReports
VARIABLE usb

\* Tty
CONSTANTS TtyProcs, OutBytes, Scancodes, WsRow, WsCol, OUT_CSI_MAX_SEQ,
          QUEUE_LEN, MaxPoll, TtySteps
VARIABLES tty, inq, scq, tpc, ttyleft

VARIABLE source

UsbPart == INSTANCE Usb
TtyPart == INSTANCE Tty

usbVars == <<usb>>
ttyVars == <<tty, inq, scq, tpc, ttyleft>>
inputVars == <<kbdVars, usbVars, ttyVars, source>>

\* What the behaviour is not about keeps this value.
Absent == "absent"

UsbStarts ==
    IF source = "usb" THEN UsbPart!UsbInit
    ELSE usb = Absent

TtyStarts ==
    IF source = "tty" THEN TtyPart!TtyInit
    ELSE /\ tty = Absent /\ inq = Absent /\ scq = Absent /\ tpc = Absent
         /\ ttyleft = Absent

InputInit ==
    /\ source \in {"ps2", "usb", "tty"}
    /\ KbdInit
    /\ UsbStarts
    /\ TtyStarts

KbdStep ==
    /\ source = "ps2"
    /\ KbdNext
    /\ UNCHANGED <<usbVars, ttyVars, source>>

UsbStep ==
    /\ source = "usb"
    /\ UsbPart!UsbNext
    /\ UNCHANGED <<kbdVars, ttyVars, source>>

TtyStep ==
    /\ source = "tty"
    /\ TtyPart!TtyNext
    /\ UNCHANGED <<kbdVars, usbVars, source>>

\* The bounded environments of the USB driver and of the terminal run dry;
\* the PS/2 path always has a step, which the deadlock check relies on.
Rest == source # "ps2" /\ UNCHANGED inputVars

InputNext == KbdStep \/ UsbStep \/ TtyStep \/ Rest

InputSpec == InputInit /\ [][InputNext]_inputVars

-----------------------------------------------------------------------------
\* Usb: a port never has two slots.
OneSlotPerPort == source = "usb" => UsbPart!OneSlotPerPort

\* Usb: the keys the kernel believes held are those of the last report.
HeldKeysMatchReport == source = "usb" => UsbPart!HeldKeysMatchReport

\* Tty: what poll and select answer is true when they answer.
PollAnswersTrue == [][source = "tty" => TtyPart!PollStep]_inputVars
=============================================================================
