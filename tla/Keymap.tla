------------------------------- MODULE Keymap -------------------------------
(***************************************************************************)
(* Scancode set 1 to ASCII, entry sc + 1 for scancode sc; the scancodes    *)
(* from 84 on have no character.  The kernel's console (Tty) and the       *)
(* shell (Shell) have equal copies of the tables.                          *)
(***************************************************************************)
EXTENDS Integers, Sequences

MAP_NORMAL == <<0, 27, 49, 50, 51, 52, 53, 54, 55, 56, 57, 48, 45, 61, 8, 9,
    113, 119, 101, 114, 116, 121, 117, 105, 111, 112, 91, 93, 10, 0, 97,
    115, 100, 102, 103, 104, 106, 107, 108, 59, 58, 96, 0, 92, 122, 120, 99,
    118, 98, 110, 109, 44, 46, 47, 0, 42, 0, 32, 0, 0, 0, 0, 0, 0, 0, 0, 0,
    0, 0, 0, 0, 55, 56, 57, 45, 52, 53, 54, 43, 49, 50, 51, 48, 46>>

MAP_SHIFT == <<0, 27, 33, 64, 35, 36, 37, 94, 38, 42, 40, 41, 95, 43, 8, 9,
    81, 87, 69, 82, 84, 89, 85, 73, 79, 80, 123, 125, 10, 0, 65, 83, 68, 70,
    71, 72, 74, 75, 76, 58, 42, 126, 0, 124, 90, 88, 67, 86, 66, 78, 77, 60,
    62, 63, 0, 42, 0, 32, 0, 0, 0, 0, 0, 0, 0, 0, 0, 0, 0, 0, 0, 55, 56, 57,
    45, 52, 53, 54, 43, 49, 50, 51, 48, 46>>

Char(map, sc) == IF sc < Len(map) THEN map[sc + 1] ELSE 0

IsAlphabetic(b) == b \in 65..90 \cup 97..122

\* Caps lock inverts shift for letters only.
Typed(shift, caps, sc) ==
    IF shift # (caps /\ IsAlphabetic(Char(MAP_NORMAL, sc)))
    THEN Char(MAP_SHIFT, sc) ELSE Char(MAP_NORMAL, sc)
=============================================================================
