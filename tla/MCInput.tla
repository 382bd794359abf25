------------------------------ MODULE MCInput ------------------------------
(* Two user threads that read, tap and inject, and a buffer of two that     *)
(* three scancodes overflow; two USB ports; a terminal with one process.    *)
EXTENDS Input

\* Usb: a boot keyboard behind another interface, a keyboard with numbered
\* reports, a mouse and a hub; -1 marks a report that says nothing of keys.
Report(bytes, held) == [bytes |-> bytes, held |-> held]
BootKeyboard ==
    [config |-> <<<<4, 8, 1>>, <<5, 1, 3>>, <<4, 3, 1>>, <<33, 9>>, <<5, 0, 3>>, <<5, 1, 3>>>>,
     report |-> <<>>,
     reports |-> {Report(<<2, 0, 5, 4>>, {42, 48, 30}), Report(<<0, 7, 4, 0>>, {-1}),
                  Report(<<9, 16, 0, 0, 6>>, {256 + 29, 46})}]
Numbered ==
    [config |-> <<<<4, 3, 0>>, <<33, 9>>, <<5, 1, 3>>>>,
     report |-> <<<<1, 0, 1>>, <<2, 0, 6>>, <<1, 8, 7>>, <<0, 10, 1>>>>,
     reports |-> {Report(<<7, 0, 0, 0, 0>>, {}), Report(<<7, 0, 0, 6, 4>>, {46, 30}),
                  Report(<<3, 0, 0, 4, 0>>, {-1})}]
UsbMouse ==
    [config |-> <<<<4>>, <<4, 3, 2>>, <<5, 1, 3>>>>, report |-> <<>>,
     reports |-> {Report(<<1, 0, 0>>, {-1}), Report(<<0, 5, 0, 0>>, {-1})}]
Hub == [config |-> <<<<4, 9, 0>>, <<5, 1, 3>>>>, report |-> <<>>, reports |-> {}]
MCDevices == <<{BootKeyboard, Numbered, UsbMouse}, {Hub}>>
=============================================================================
