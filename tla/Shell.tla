------------------------------- MODULE Shell -------------------------------
(***************************************************************************)
(* A session of the shell service (services/shell): keys are decoded and   *)
(* edited into a line, the line names a builtin or a program found along   *)
(* PATH (with a cache), the program runs as a child, and its output comes  *)
(* back as messages the shell draws until the child has been reaped.       *)
(*                                                                         *)
(* The child's write (syscall/io.rs) retries with yield_now until the      *)
(* shell's mailbox takes the chunk.  Its exit posts an empty message, lost *)
(* when the mailbox is full, and wakes the shell through SIGCHLD.  Each    *)
(* system call of the shell is a step.                                     *)
(***************************************************************************)
EXTENDS Keymap

CONSTANTS ShellKeys,     \* scancodes
          INPUT_BUF, CMD_CACHE, SHELL_MAILBOX,
          MaxChunks,     \* bound: chunks the children write
          ShellSteps     \* bound: keys read

VARIABLES shift, caps, input, env_path, cmd_cache, spc, child, inbox, wakeup,
          written, displayed, keysleft

shellVars == <<shift, caps, input, env_path, cmd_cache, spc, child, inbox,
               wakeup, written, displayed, keysleft>>

(***************************************************************************)
(* Lines are ASCII.  "p" stands for export PATH=..., which switches        *)
(* between two values, "r" is an installed program, any other word is a    *)
(* builtin or unknown.                                                     *)
(***************************************************************************)
EXPORT == <<112>>
PROGRAM == <<114>>

DefaultPath == <<"bin", "applications">>
OtherPath == <<"applications">>
Installed == {<<"bin", PROGRAM>>, <<"applications", PROGRAM>>}
NotCached == <<>>

Exit == [from |-> "exit", n |-> 0]

ShellInit ==
  /\ shift = FALSE /\ caps = FALSE
  /\ input = <<>>
  /\ env_path = DefaultPath
  /\ cmd_cache = <<>>
  /\ spc = "keys"
  /\ child = "none"
  /\ inbox = <<>>
  /\ wakeup = FALSE
  /\ written = <<>> /\ displayed = <<>>
  /\ keysleft = ShellSteps

SessionUnchanged == UNCHANGED <<shift, caps, input, env_path, cmd_cache, keysleft>>

(***************************************************************************)
(* find_in_path: the cache first, then every directory of PATH; a found    *)
(* path enters the cache, from which the oldest entry makes room.          *)
(***************************************************************************)
Cached(cmd) ==
  IF \E i \in 1..Len(cmd_cache) : cmd_cache[i][1] = cmd
  THEN cmd_cache[CHOOSE i \in 1..Len(cmd_cache) :
                   /\ cmd_cache[i][1] = cmd
                   /\ \A j \in 1..(i - 1) : cmd_cache[j][1] # cmd]
  ELSE NotCached

Candidates(cmd) == SelectSeq(env_path, LAMBDA d : <<d, cmd>> \in Installed)

find_in_path(cmd) ==
  IF Cached(cmd) # NotCached THEN Cached(cmd)
  ELSE IF Candidates(cmd) = <<>> THEN NotCached
  ELSE <<cmd, Head(Candidates(cmd))>>

Remember(cmd) ==
  cmd_cache' = IF Cached(cmd) # NotCached \/ find_in_path(cmd) = NotCached
               THEN cmd_cache
               ELSE Append(IF Len(cmd_cache) >= CMD_CACHE THEN Tail(cmd_cache)
                           ELSE cmd_cache, find_in_path(cmd))

(***************************************************************************)
(* Words are separated by blanks outside quotes, and the quotes go.        *)
(***************************************************************************)
parse_command_line(line) ==
  LET Word(a) == IF a.word = <<>> THEN a
                 ELSE [a EXCEPT !.words = Append(@, a.word), !.word = <<>>]
      Byte(a, b) == CASE a.quote = b -> [a EXCEPT !.quote = 0]
                      [] a.quote = 0 /\ b \in {34, 39} -> [a EXCEPT !.quote = b]
                      [] a.quote = 0 /\ b \in {32, 9} -> Word(a)
                      [] OTHER -> [a EXCEPT !.word = Append(@, b)]
      Scan[i \in 0..Len(line)] == IF i = 0 THEN [words |-> <<>>, word |-> <<>>, quote |-> 0]
                                  ELSE Byte(Scan[i - 1], line[i])
  IN Word(Scan[Len(line)]).words

(***************************************************************************)
(* handle_line: the line is taken, and runs a builtin, reports an unknown  *)
(* command, or starts the program (exec may fail).                         *)
(***************************************************************************)
handle_line ==
  LET tokens == parse_command_line(input)
      cmd == IF tokens = <<>> THEN <<>> ELSE tokens[1]
  IN /\ input' = <<>>
     /\ CASE cmd = EXPORT ->
               /\ env_path' = IF env_path = DefaultPath THEN OtherPath
                              ELSE DefaultPath
               /\ UNCHANGED <<cmd_cache, spc, child>>
          [] cmd = PROGRAM /\ find_in_path(cmd) # NotCached ->
               /\ Remember(cmd)
               /\ \/ spc' = "recv" /\ child' = "running"
                  \/ UNCHANGED <<spc, child>>
               /\ UNCHANGED env_path
          [] OTHER -> UNCHANGED <<env_path, cmd_cache, spc, child>>

(***************************************************************************)
(* Ps2Keyboard::read and the main loop, for one scancode.                  *)
(***************************************************************************)
KeyPressed(sc) ==
  IF sc >= 128 \/ sc \in {42, 54, 58} THEN 0 ELSE Typed(shift, caps, sc)

Edited(ch) ==
  CASE ch \in {8, 127} -> SubSeq(input, 1, Len(input) - 1)
    [] ch \in 32..126 /\ Len(input) < INPUT_BUF - 1 -> Append(input, ch)
    [] OTHER -> input

read_key ==
  /\ spc = "keys"
  /\ keysleft > 0
  /\ keysleft' = keysleft - 1
  /\ \E sc \in ShellKeys :
       /\ shift' = IF sc \in {42, 54} THEN TRUE
                   ELSE IF sc \in {42 + 128, 54 + 128} THEN FALSE ELSE shift
       /\ caps' = IF sc = 58 THEN ~caps ELSE caps
       /\ IF KeyPressed(sc) \in {10, 13} THEN handle_line
          ELSE /\ input' = Edited(KeyPressed(sc))
               /\ UNCHANGED <<env_path, cmd_cache, spc, child>>
  /\ UNCHANGED <<inbox, wakeup, written, displayed>>

(***************************************************************************)
(* drain_child_output.  ipc_recv takes the oldest message; an empty one    *)
(* looks like none, and ends the inner loop.                               *)
(***************************************************************************)
ShowOne ==
  /\ inbox' = IF inbox = <<>> THEN <<>> ELSE Tail(inbox)
  /\ displayed' = IF inbox = <<>> \/ Head(inbox) = Exit THEN displayed
                  ELSE Append(displayed, Head(inbox))

GotText == inbox # <<>> /\ Head(inbox) # Exit

RecvLoop(here, next) ==
  /\ spc = here
  /\ ShowOne
  /\ spc' = IF GotText THEN here ELSE next
  /\ UNCHANGED <<child, wakeup, written>>
  /\ SessionUnchanged

SkipFinalDrain == "keys"

AfterReap == "final"

(***************************************************************************)
(* wait(WNOHANG): a zombie is reaped.                                      *)
(***************************************************************************)
wait_nonblocking(here, next) ==
  /\ spc = here
  /\ IF child = "zombie" THEN child' = "none" /\ spc' = AfterReap
     ELSE child' = child /\ spc' = next
  /\ UNCHANGED <<inbox, wakeup, written, displayed>>
  /\ SessionUnchanged

(***************************************************************************)
(* ipc_recv_wait sleeps while the mailbox is empty; a wake-up that came    *)
(* before makes it return at once with nothing.                            *)
(***************************************************************************)
ipc_recv_wait ==
  /\ spc = "wait"
  /\ inbox # <<>> \/ wakeup
  /\ ShowOne
  /\ spc' = IF GotText THEN "recv2" ELSE "check2"
  /\ wakeup' = IF inbox = <<>> THEN FALSE ELSE wakeup
  /\ UNCHANGED <<child, written>>
  /\ SessionUnchanged

drain_child_output ==
  \/ RecvLoop("recv", "check")
  \/ wait_nonblocking("check", "wait")
  \/ ipc_recv_wait
  \/ RecvLoop("recv2", "check2")
  \/ wait_nonblocking("check2", "recv")
  \/ RecvLoop("final", "keys")

(***************************************************************************)
(* The child: write blocks, yielding, while the mailbox is full.           *)
(***************************************************************************)
write_starts ==
  /\ child = "running"
  /\ Len(written) < MaxChunks
  /\ child' = "writing"
  /\ written' = Append(written, [from |-> "child", n |-> Len(written) + 1])
  /\ UNCHANGED <<spc, inbox, wakeup, displayed>>
  /\ SessionUnchanged

send_chunk ==
  /\ child = "writing"
  /\ Len(inbox) < SHELL_MAILBOX
  /\ inbox' = Append(inbox, written[Len(written)])
  /\ child' = "running"
  /\ UNCHANGED <<spc, wakeup, written, displayed>>
  /\ SessionUnchanged

(***************************************************************************)
(* exit_current_task: mark the process, post the empty message, SIGCHLD.   *)
(* Mutant: nothing wakes the shell.                                        *)
(***************************************************************************)
NoNotice ==
  /\ child = "running"
  /\ child' = "zombie"
  /\ UNCHANGED <<inbox, wakeup, spc, written, displayed>>
  /\ SessionUnchanged

child_exit ==
  /\ child = "running"
  /\ child' = "zombie"
  /\ inbox' = IF Len(inbox) < SHELL_MAILBOX THEN Append(inbox, Exit) ELSE inbox
  /\ wakeup' = TRUE
  /\ UNCHANGED <<spc, written, displayed>>
  /\ SessionUnchanged

ShellNext ==
  \/ read_key
  \/ drain_child_output
  \/ write_starts
  \/ send_chunk
  \/ child_exit

ShellSpec == ShellInit /\ [][ShellNext]_shellVars

(***************************************************************************)
(* The shell and a writing child are scheduled: a ready thread can only be *)
(* starved by an endless run of exits, and a session has boundedly many.   *)
(***************************************************************************)
ShellFairness ==
  /\ WF_shellVars(drain_child_output)
  /\ WF_shellVars(send_chunk)

(***************************************************************************)
(* Nothing a child printed is lost or reordered: when the shell is back at *)
(* its prompt, the screen has every chunk the children wrote, in order,    *)
(* also when the mailbox was full and when the exit notice came first.     *)
(***************************************************************************)
ChildOutputComplete ==
  /\ displayed = SubSeq(written, 1, Len(displayed))
  /\ spc = "keys" => displayed = written

(***************************************************************************)
(* The prompt comes back: a child that has exited is reaped and the shell  *)
(* reads keys again, even if the notice of the exit did not fit in the     *)
(* mailbox.                                                                *)
(***************************************************************************)
PromptReturns == (child = "zombie") ~> (spc = "keys")
=============================================================================
