-------------------------------- MODULE Tty --------------------------------
(***************************************************************************)
(* The console line discipline (syscall/tty.rs), the readiness calls of    *)
(* syscall/pgroup.rs and the stdin/stdout paths of syscall/io.rs.          *)
(*                                                                         *)
(* Output written to the console is parsed for control sequences, moves a  *)
(* cursor the kernel keeps for itself, and may push a reply into the same  *)
(* queue the keyboard feeds.  Scancodes are decoded into that queue only   *)
(* when somebody asks for input.  A reader takes one byte or sleeps; poll  *)
(* and pselect6 evaluate readiness, sleep and evaluate again.              *)
(*                                                                         *)
(* Bytes are their ASCII codes.  Canonical mode is not modelled: ioctl     *)
(* refuses every request that would set it, and the initial mode is raw.   *)
(***************************************************************************)
EXTENDS Ansi, Keymap, FiniteSets, TLC

CONSTANTS TtyProcs,     \* processes that use the console
          OutBytes,     \* bytes they write
          Scancodes,    \* scancodes the keyboard delivers
          WsRow, WsCol, \* window size, never changed (TIOCSWINSZ is refused)
          OUT_CSI_MAX_SEQ, QUEUE_LEN, MaxPoll,
          TtySteps      \* bound: output and keyboard events

VARIABLES tty, inq, scq, tpc, ttyleft

ttyVars == <<tty, inq, scq, tpc, ttyleft>>

StdFds == {0, 1, 2}
PlainFd == 5            \* an open descriptor that is not a terminal

InProgram == [at |-> "user"]

TtyInit ==
  /\ tty = [shift |-> FALSE, caps |-> FALSE, e0 |-> FALSE, esc |-> FALSE,
            csi |-> FALSE, seq |-> <<>>, row |-> 1, col |-> 1]
  /\ inq = <<>>
  /\ scq = <<>>
  /\ tpc = [p \in TtyProcs |-> InProgram]
  /\ ttyleft = TtySteps

(***************************************************************************)
(* Fifo::push drops a byte when the queue is full, so a long reply loses   *)
(* its tail.                                                               *)
(***************************************************************************)
push_bytes(q, bytes) ==
  q \o SubSeq(bytes, 1, IF Len(bytes) <= QUEUE_LEN - Len(q)
                        THEN Len(bytes) ELSE QUEUE_LEN - Len(q))

push_ascii_u16[n \in 0..65535] ==
  IF n < 10 THEN <<48 + n>> ELSE push_ascii_u16[n \div 10] \o <<48 + (n % 10)>>

Within(n, hi) == IF n < 1 THEN 1 ELSE IF n > hi THEN hi ELSE n

clamp_cursor(t) ==
  [t EXCEPT !.row = Within(@, WsRow), !.col = Within(@, WsCol)]

(***************************************************************************)
(* The kernel keeps at most eight parameters.                              *)
(***************************************************************************)
csi_params(seq) ==
  SubSeq(AllParams(seq), 1, IF Len(AllParams(seq)) > 8 THEN 8
                            ELSE Len(AllParams(seq)))

parse_decrqm_mode(seq) ==
  IF Len(seq) < 3 \/ seq[1] # 63 \/ seq[Len(seq)] # 36 THEN -1
  ELSE parse_ascii_u16(SubSeq(seq, 2, Len(seq) - 1))

(***************************************************************************)
(* A complete control sequence: what it does to the cursor, and the reply  *)
(* it asks for.                                                            *)
(***************************************************************************)
MoveCursor(t, final) ==
  LET ps == csi_params(t.seq)
      n == csi_param_or(ps, 1, 1)
  IN CASE final = 65 -> [t EXCEPT !.row = Within(@ - n, WsRow)]
       [] final = 66 -> [t EXCEPT !.row = Within(@ + n, WsRow)]
       [] final = 67 -> [t EXCEPT !.col = Within(@ + n, WsCol)]
       [] final = 68 -> [t EXCEPT !.col = Within(@ - n, WsCol)]
       [] final \in {72, 102} ->
            clamp_cursor([t EXCEPT !.row = n, !.col = csi_param_or(ps, 2, 1)])
       [] final = 71 -> clamp_cursor([t EXCEPT !.col = n])
       [] final = 100 -> clamp_cursor([t EXCEPT !.row = n])
       [] final = 74 /\ ps # <<>> /\ ps[1] = 2 ->
            [t EXCEPT !.row = 1, !.col = 1]
       [] OTHER -> t

Reply(t, final) ==
  LET p0 == csi_param_or(csi_params(t.seq), 1, 0)
      mark == IF Private(t.seq) = 63 THEN <<63>> ELSE <<>>
      mode == parse_decrqm_mode(t.seq)
  IN CASE final = 110 /\ p0 = 5 -> <<ESC, 91>> \o mark \o <<48, 110>>
       [] final = 110 /\ p0 = 6 ->
            <<ESC, 91>> \o mark \o push_ascii_u16[t.row] \o <<59>>
              \o push_ascii_u16[t.col] \o <<82>>
       [] final = 99 /\ Private(t.seq) = 62 ->
            <<ESC, 91, 62, 48, 59, 49, 51, 54, 59, 48, 99>>
       [] final = 99 -> <<ESC, 91, 63, 49, 59, 50, 99>>
       [] final = 112 /\ mode >= 0 ->
            <<ESC, 91, 63>> \o push_ascii_u16[mode] \o <<59, 48, 36, 121>>
       [] OTHER -> <<>>

Text(t, b) ==
  CASE b = ESC -> [t EXCEPT !.esc = TRUE]
    [] b = 13 -> [t EXCEPT !.col = 1]
    [] b = 10 -> [t EXCEPT !.row = Within(@ + 1, WsRow)]
    [] b = 8 -> [t EXCEPT !.col = Within(@ - 1, WsCol)]
    [] b = 9 -> [t EXCEPT !.col = Within(((@ - 1) \div 8 + 1) * 8 + 1, WsCol)]
    [] b \in 32..126 /\ t.col >= WsCol ->
         [t EXCEPT !.col = 1, !.row = Within(@ + 1, WsRow)]
    [] b \in 32..126 /\ t.col < WsCol -> [t EXCEPT !.col = @ + 1]
    [] OTHER -> t

OutByte(t, b) ==
  LET idle == [t EXCEPT !.csi = FALSE, !.seq = <<>>]
  IN IF t.csi
     THEN IF b \in 32..63 /\ Len(t.seq) < OUT_CSI_MAX_SEQ
          THEN [t EXCEPT !.seq = Append(@, b)]
          ELSE IF b \in 64..126
               THEN [MoveCursor(t, b) EXCEPT !.csi = FALSE, !.seq = <<>>]
               ELSE idle
     ELSE IF t.esc
          THEN [t EXCEPT !.esc = FALSE, !.csi = (b = 91), !.seq = <<>>]
          ELSE Text(t, b)

(***************************************************************************)
(* A write of one byte to the console.  The reply is pushed after the      *)
(* state lock is released, but a system call is not interrupted by another *)
(* process here.                                                           *)
(***************************************************************************)
process_output(p) ==
  /\ tpc[p] = InProgram
  /\ ttyleft > 0
  /\ ttyleft' = ttyleft - 1
  /\ \E b \in OutBytes :
       /\ tty' = clamp_cursor(OutByte(tty, b))
       /\ inq' = IF tty.csi /\ b \in 64..126
                 THEN push_bytes(inq, Reply(tty, b)) ELSE inq
  /\ UNCHANGED <<scq, tpc>>

(***************************************************************************)
(* Decoding: the state the scancode leaves and the bytes it pushes.        *)
(***************************************************************************)
E0Key == (72 :> <<65>>) @@ (80 :> <<66>>) @@ (77 :> <<67>>) @@ (75 :> <<68>>)
         @@ (71 :> <<72>>) @@ (79 :> <<70>>) @@ (73 :> <<53, 126>>)
         @@ (81 :> <<54, 126>>) @@ (82 :> <<50, 126>>) @@ (83 :> <<51, 126>>)

KeyState(t, sc) ==
  CASE t.e0 -> [t EXCEPT !.e0 = FALSE]
    [] ~t.e0 /\ sc = 224 -> [t EXCEPT !.e0 = TRUE]
    [] ~t.e0 /\ sc \in {42 + 128, 54 + 128} -> [t EXCEPT !.shift = FALSE]
    [] ~t.e0 /\ sc \in {42, 54} -> [t EXCEPT !.shift = TRUE]
    [] ~t.e0 /\ sc = 58 -> [t EXCEPT !.caps = ~@]
    [] OTHER -> t

KeyBytes(t, sc) ==
  LET fixed == (14 :> 127) @@ (28 :> 13) @@ (15 :> 9) @@ (1 :> 27)
  IN IF t.e0 THEN IF sc \in DOMAIN E0Key THEN <<ESC, 91>> \o E0Key[sc] ELSE <<>>
     ELSE IF sc \in DOMAIN fixed THEN <<fixed[sc]>>
     ELSE IF Char(MAP_NORMAL, sc) # 0 /\ Typed(t.shift, t.caps, sc) # 0
     THEN <<Typed(t.shift, t.caps, sc)>>
     ELSE <<>>

decode_scancode_into_queue(s, sc) ==
  [tty |-> KeyState(s.tty, sc), inq |-> push_bytes(s.inq, KeyBytes(s.tty, sc))]

feed_from_scancode_queue_nonblocking ==
  FoldLeft(decode_scancode_into_queue, [tty |-> tty, inq |-> inq], scq)

Fed ==
  /\ tty' = feed_from_scancode_queue_nonblocking.tty
  /\ inq' = feed_from_scancode_queue_nonblocking.inq
  /\ scq' = <<>>

(***************************************************************************)
(* The keyboard interrupt stores a scancode (module Keyboard).             *)
(***************************************************************************)
push_scancode ==
  /\ ttyleft > 0
  /\ ttyleft' = ttyleft - 1
  /\ \E sc \in Scancodes : scq' = Append(scq, sc)
  /\ UNCHANGED <<tty, inq, tpc>>

(***************************************************************************)
(* read_stdin in raw mode: a queued byte at once; else whatever the stored *)
(* scancodes give; else sleep until the keyboard delivers one.             *)
(***************************************************************************)
next_input_byte(p) ==
  LET fed == IF inq # <<>> THEN [tty |-> tty, inq |-> inq]
             ELSE feed_from_scancode_queue_nonblocking
  IN /\ tty' = fed.tty
     /\ scq' = IF inq # <<>> THEN scq ELSE <<>>
     /\ inq' = IF fed.inq = <<>> THEN <<>> ELSE Tail(fed.inq)
     /\ tpc' = [tpc EXCEPT ![p] = IF fed.inq = <<>> THEN [at |-> "read"]
                                  ELSE InProgram]
     /\ UNCHANGED ttyleft

read_stdin(p) == tpc[p] = InProgram /\ next_input_byte(p)

(***************************************************************************)
(* The sleeping reader gets one scancode from read_char_blocking, decodes  *)
(* it and goes round the loop.                                             *)
(***************************************************************************)
next_input_byte_blocking(p) ==
  /\ tpc[p].at = "read"
  /\ scq # <<>>
  /\ LET d == decode_scancode_into_queue([tty |-> tty, inq |-> inq], Head(scq))
         fed == IF d.inq # <<>> THEN d
                ELSE FoldLeft(decode_scancode_into_queue, d, Tail(scq))
     IN /\ tty' = fed.tty
        /\ scq' = IF d.inq # <<>> THEN Tail(scq) ELSE <<>>
        /\ inq' = IF fed.inq = <<>> THEN <<>> ELSE Tail(fed.inq)
        /\ tpc' = IF fed.inq = <<>> THEN tpc ELSE [tpc EXCEPT ![p] = InProgram]
  /\ UNCHANGED ttyleft

is_tty_fd(fd) == fd \in StdFds

(***************************************************************************)
(* Readiness of the descriptors asked about, after every stored scancode   *)
(* has been decoded (only a terminal that is asked about decodes them).    *)
(***************************************************************************)
Asks(in) == \E fd \in in : is_tty_fd(fd)
StdinReady(in) == Asks(in) /\ feed_from_scancode_queue_nonblocking.inq # <<>>

eval_ready(in, out) ==
  [read |-> {fd \in in : is_tty_fd(fd) /\ StdinReady(in)},
   write |-> {fd \in out : is_tty_fd(fd)}]

Nothing == [read |-> {}, write |-> {}]

(***************************************************************************)
(* pselect6 copies its sets out of user memory before the first            *)
(* evaluation, which overwrites them; poll has separate event fields.      *)
(***************************************************************************)
ReadBackSets(asked, sets) == sets

Interest(asked, sets) == asked

Evaluate(p, asked, sets, left) ==
  LET want == Interest(asked, sets)
      r == eval_ready(want.read, want.write)
  IN /\ IF Asks(want.read) THEN Fed ELSE UNCHANGED <<tty, inq, scq>>
     /\ tpc' = [tpc EXCEPT ![p] =
                  IF r # Nothing \/ left = 0
                  THEN [at |-> "answered", asked |-> asked, sets |-> r]
                  ELSE [at |-> "wait", asked |-> asked, sets |-> r,
                        left |-> left]]
     /\ UNCHANGED ttyleft

PollFor(p, timeout) ==
  /\ tpc[p] = InProgram
  /\ \E in \in SUBSET {0, PlainFd}, out \in SUBSET {PlainFd} :
       /\ in \cup out # {}
       /\ Evaluate(p, [read |-> in, write |-> out],
                   [read |-> in, write |-> out], timeout)

poll(p) == \E timeout \in -1..MaxPoll : PollFor(p, timeout)

\* A null timespec waits for ever; the others are rounded down to
\* milliseconds.
ppoll(p) ==
  \/ PollFor(p, -1)
  \/ \E tenths \in 0 .. 10 * MaxPoll : PollFor(p, tenths \div 10)

pselect6(p) ==
  /\ tpc[p] = InProgram
  /\ \E in \in SUBSET {0, PlainFd}, out \in SUBSET {1},
        timeout \in -1..MaxPoll :
       Evaluate(p, [read |-> in, write |-> out],
                [read |-> in, write |-> out], timeout)

(***************************************************************************)
(* One turn of the wait: sleep(1) or, without a timeout, yield_now; then   *)
(* evaluate again.  The last evaluation decides the answer.                *)
(***************************************************************************)
wait_until_ready_or_timeout(p) ==
  /\ tpc[p].at = "wait"
  /\ Evaluate(p, tpc[p].asked, tpc[p].sets,
              IF tpc[p].left < 0 THEN tpc[p].left ELSE tpc[p].left - 1)

TtyReturn(p) ==
  /\ tpc[p].at = "answered"
  /\ tpc' = [tpc EXCEPT ![p] = InProgram]
  /\ UNCHANGED <<tty, inq, scq, ttyleft>>

TtyNext ==
  \/ push_scancode
  \/ \E p \in TtyProcs :
       \/ process_output(p)
       \/ read_stdin(p)
       \/ next_input_byte_blocking(p)
       \/ poll(p)
       \/ ppoll(p)
       \/ pselect6(p)
       \/ wait_until_ready_or_timeout(p)
       \/ TtyReturn(p)

(***************************************************************************)
(* poll, ppoll and pselect6 answer what was asked: the descriptors         *)
(* reported are those the call named and that are ready at that moment,    *)
(* however many times the sets in user memory were overwritten while it    *)
(* waited; a timeout is reported only when none of them is ready.  In      *)
(* particular a key release or a shift key does not make stdin readable.   *)
(***************************************************************************)
PollStep ==
  \A p \in TtyProcs :
    (tpc[p].at # "answered" /\ tpc'[p].at = "answered") =>
      LET a == tpc'[p] IN
      /\ a.sets.read = {fd \in a.asked.read \cap StdFds : inq' # <<>>}
      /\ a.sets.write = a.asked.write \cap StdFds
      /\ a.asked.read \cap StdFds # {} => scq' = <<>>
PollAnswersTrue == [][PollStep]_ttyVars
=============================================================================
