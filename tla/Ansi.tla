-------------------------------- MODULE Ansi --------------------------------
(***************************************************************************)
(* Parameters of a control sequence "CSI p ; p ... final".  The kernel's   *)
(* console (Tty) and the shell's terminal (Terminal) parse the same output *)
(* with two copies of this code.  Bytes are ASCII codes.                   *)
(***************************************************************************)
EXTENDS Integers, Sequences, SequencesExt

ESC == 27

(***************************************************************************)
(* One parameter: -1 (skipped) when it has a byte that is no digit, else   *)
(* its value, saturated to 16 bits; 0 when it is empty.                    *)
(***************************************************************************)
parse_ascii_u16(part) ==
  IF \E i \in 1..Len(part) : part[i] \notin 48..57 THEN -1
  ELSE FoldLeft(LAMBDA v, b : IF v * 10 + b - 48 > 65535 THEN 65535
                              ELSE v * 10 + b - 48, 0, part)

(***************************************************************************)
(* The private prefix ?, > or !, else 0; the parameters after it.          *)
(***************************************************************************)
Private(seq) == IF seq # <<>> /\ seq[1] \in {63, 62, 33} THEN seq[1] ELSE 0

AllParams(seq) ==
  LET body == IF Private(seq) = 0 THEN seq ELSE Tail(seq)
      split == FoldLeft(LAMBDA a, b : IF b = 59 THEN Append(a, <<>>)
                          ELSE [a EXCEPT ![Len(a)] = Append(@, b)],
                        << <<>> >>, body)
  IN SelectSeq([i \in 1..Len(split) |-> parse_ascii_u16(split[i])],
               LAMBDA v : v >= 0)

(***************************************************************************)
(* A parameter that is missing or 0 takes its default.                     *)
(***************************************************************************)
csi_param_or(params, i, default) ==
  IF i > Len(params) \/ params[i] = 0 THEN default ELSE params[i]
=============================================================================
