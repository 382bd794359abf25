------------------------------- MODULE Pipes -------------------------------
(* Pipes (syscall/pipe.rs) and the descriptors that name them: creation,   *)
(* the ring buffer, the reader that sleeps on an empty pipe, inheritance   *)
(* by fork and close.                                                      *)
(*                                                                         *)
(* One thread per process.  A step runs up to the next yield_now: in a     *)
(* system call that is only the sleep of pipe_read_blocking.  Nothing      *)
(* outside pipe2_syscall closes a pipe's end: dropping a FileHandle        *)
(* releases remote files only.                                             *)
EXTENDS Integers, Sequences

CONSTANTS
    PipeProcs,     \* processes; the first one exists, the others are forked
    FirstProc,
    MAX_PIPES,
    PIPE_BUF_SIZE,
    PROCESS_MAX_FDS,   \* descriptors are 3 .. PROCESS_MAX_FDS - 1
    PipeData,      \* what write and writev are called with: one buffer, or two
    PipeWants,     \* the lengths read and readv are called with: one, or two
    PipeSteps      \* bound: pipes, descriptors and forks made by a behaviour

(* A thread number is not 0, the mark of no reader.  writev and readv skip *)
(* the buffers of length 0, so that there are none here.                   *)
ASSUME PipeConstants ==
    /\ 0 \notin PipeProcs /\ FirstProc \in PipeProcs
    /\ MAX_PIPES \in Nat /\ PIPE_BUF_SIZE \in Nat \ {0}
    /\ \A iov \in PipeData :
          /\ iov \in Seq(Seq(Nat)) /\ Len(iov) \in {1, 2}
          /\ \A n \in 1 .. Len(iov) : iov[n] # <<>>
    /\ \A iov \in PipeWants : iov \in Seq(Nat \ {0}) /\ Len(iov) \in {1, 2}

VARIABLES
    pipes,         \* PIPE_TABLE
    pfds,          \* process -> descriptor -> handle
    readers,       \* process -> its thread
    queue,         \* ghost: pipe -> bytes written and not yet read
    made           \* steps left

pipeVars == <<pipes, pfds, readers, queue, made>>

NoPipe == [len |-> -1]
NoFd == [id |-> -1, pipe_write |-> FALSE]
PipeIds == 0 .. MAX_PIPES - 1
Fds == 3 .. PROCESS_MAX_FDS - 1

(* Values for PipeData and PipeWants: all lengths that matter to the ring. *)
Bytes(n, b) == [i \in 1 .. n |-> (i + b) % 2]
Data == {<<Bytes(n, b)>> : n \in 1 .. PIPE_BUF_SIZE + 1, b \in {0, 1}}
          \cup {<<Bytes(n, b), Bytes(1, b)>> : n \in {1, 2}, b \in {0, 1}}
Wants == {<<n>> : n \in 1 .. PIPE_BUF_SIZE} \cup {<<1, n>> : n \in 1 .. PIPE_BUF_SIZE}

(* alone: no other thread has waited on the same pipe since this one did   *)
(* (ghost).                                                                *)
Thread == [st |-> "Ready", pending_wakeup |-> FALSE, reading |-> -1, want |-> <<>>,
           alone |-> FALSE]

PipeInit ==
    /\ pipes = [i \in PipeIds |-> NoPipe]
    /\ pfds = [p \in PipeProcs |-> [f \in Fds |-> NoFd]]
    /\ readers = [p \in PipeProcs |->
                     [Thread EXCEPT !.st = IF p = FirstProc THEN "Ready" ELSE "Absent"]]
    /\ queue = [i \in PipeIds |-> <<>>]
    /\ made = PipeSteps

InUser(p) == readers[p].st = "Ready" /\ readers[p].reading = -1

-----------------------------------------------------------------------------
(* PipeBuffer *)

Smaller(a, b) == IF a < b THEN a ELSE b

(* Mutant: a write is not cut to the room that is left.                    *)
WriteAll(pb, data) == Len(data)

(* The number of bytes write_bytes takes.                                  *)
WriteLen(pb, data) == Smaller(Len(data), PIPE_BUF_SIZE - pb.len)

write_bytes(pb, data) ==
    LET n == WriteLen(pb, data)
        at(i) == (pb.write_pos + i) % PIPE_BUF_SIZE
    IN  [pb EXCEPT !.buf = [j \in DOMAIN @ |->
                               IF \E i \in 0 .. n - 1 : at(i) = j
                               THEN data[1 + CHOOSE i \in 0 .. n - 1 :
                                             at(i) = j /\ \A k \in i + 1 .. n - 1 : at(k) # j]
                               ELSE @[j]],
                   !.write_pos = at(n),
                   !.len = @ + n]

read_bytes(pb, want) ==
    LET n == Smaller(want, pb.len)
    IN  [pb EXCEPT !.read_pos = (@ + n) % PIPE_BUF_SIZE, !.len = @ - n]

(* wake_reader, called by thread p: wake_thread on the registered reader.  *)
wake_reader(R, pb, p) ==
    [q \in PipeProcs |->
        IF q # pb.waiter \/ q = p THEN R[q]
        ELSE IF R[q].st = "Sleeping" THEN [R[q] EXCEPT !.st = "Ready"]
        ELSE [R[q] EXCEPT !.pending_wakeup = TRUE]]

(* alloc_pipe: the first empty entry of the table.                         *)
alloc_pipe(i) ==
    /\ pipes[i] = NoPipe
    /\ \A j \in 0 .. i - 1 : pipes[j] # NoPipe

NewPipe == [buf |-> [j \in 0 .. PIPE_BUF_SIZE - 1 |-> 0], write_pos |-> 0,
            read_pos |-> 0, len |-> 0, read_refs |-> 1, write_refs |-> 1,
            waiter |-> 0]

(* close_read_end and close_write_end, one after the other: of a pipe that *)
(* was just made, so that the table entry is free again.                   *)
close_both_ends(i) == [pipes EXCEPT ![i] = NoPipe]

-----------------------------------------------------------------------------
(* System calls *)

Step == made > 0 /\ made' = made - 1

FreeFds(p) == {f \in Fds : pfds[p][f] = NoFd}
LowestFd(S) == CHOOSE f \in S : \A g \in S : f <= g

(* pipe2_syscall: the pipe, then a descriptor for each end.  When one of   *)
(* them is missing the pipe is given up, and a descriptor that was         *)
(* already made keeps its number in the table.                             *)
pipe2_syscall(p) ==
    /\ InUser(p) /\ Step
    /\ \E i \in PipeIds :
          /\ alloc_pipe(i)
          /\ LET free == FreeFds(p)
                 r == LowestFd(free)
                 w == LowestFd(free \ {r})
                 reading == [id |-> i, pipe_write |-> FALSE]
                 writing == [id |-> i, pipe_write |-> TRUE]
             IN  IF \E f, g \in free : f # g
                 THEN /\ pipes' = [pipes EXCEPT ![i] = NewPipe]
                      /\ pfds' = [pfds EXCEPT ![p][r] = reading, ![p][w] = writing]
                 ELSE /\ pipes' = close_both_ends(i)
                      /\ pfds' = IF free = {} THEN pfds
                                 ELSE [pfds EXCEPT ![p][r] = reading]
          /\ queue' = [queue EXCEPT ![i] = <<>>]
    /\ UNCHANGED readers

(* clone_for_fork: the child's handles name the same pipes; no count goes  *)
(* up.                                                                     *)
clone_for_fork(p, c) ==
    /\ InUser(p) /\ Step
    /\ readers[c].st = "Absent"
    /\ pfds' = [pfds EXCEPT ![c] = pfds[p]]
    /\ readers' = [readers EXCEPT ![c].st = "Ready"]
    /\ UNCHANGED <<pipes, queue>>

(* close: the descriptor is taken out of the table and its handle dropped. *)
close(p, f) ==
    /\ InUser(p) /\ Step
    /\ pfds[p][f] # NoFd
    /\ pfds' = [pfds EXCEPT ![p][f] = NoFd]
    /\ UNCHANGED <<pipes, readers, queue>>

(* Mutant: the reader is woken only when the pipe has filled up.           *)
WakeWhenFull(R, pb, p) == IF pb.len = PIPE_BUF_SIZE THEN wake_reader(R, pb, p) ELSE R

(* The wake-up at the end of pipe_write.                                   *)
WakeAfterWrite(R, pb, p) == wake_reader(R, pb, p)

(* pipe_write: an error when the pipe has no room, else what fits is       *)
(* written and the registered reader woken.                                *)
pipe_write(w, data, p) ==
    LET pb == write_bytes(w.pb, data)
    IN  IF w.pb.read_refs = 0 \/ w.pb.len = PIPE_BUF_SIZE THEN [w EXCEPT !.go = FALSE]
        ELSE [pb |-> pb, readers |-> WakeAfterWrite(w.readers, pb, p),
              sent |-> w.sent \o SubSeq(data, 1, Smaller(Len(data), PIPE_BUF_SIZE - w.pb.len)),
              go |-> WriteLen(w.pb, data) = Len(data)]

(* Where write_fd and read_fd go on to a pipe: the other end is an error,  *)
(* as is writing to a pipe that was given up.                              *)
write_fd(p, f) == pfds[p][f].pipe_write /\ pipes[pfds[p][f].id] # NoPipe
read_fd(p, f) == pfds[p][f] # NoFd /\ ~pfds[p][f].pipe_write

(* write_fd for each buffer of writev, up to the first that fails or does  *)
(* not fit; write is writev of one buffer.                                 *)
WriteNext(w, data, p) == IF w.go THEN pipe_write(w, data, p) ELSE w
WriteAllOf(w, iov, p) ==
    IF Len(iov) = 1 THEN WriteNext(w, iov[1], p)
    ELSE WriteNext(WriteNext(w, iov[1], p), iov[2], p)

writev(p, f, iov) ==
    /\ InUser(p)
    /\ write_fd(p, f)
    /\ LET i == pfds[p][f].id
           w == WriteAllOf([pb |-> pipes[i], readers |-> readers, sent |-> <<>>, go |-> TRUE],
                           iov, p)
       IN  /\ w.sent # <<>>
           /\ pipes' = [pipes EXCEPT ![i] = w.pb]
           /\ readers' = w.readers
           /\ queue' = [queue EXCEPT ![i] = @ \o w.sent]
    /\ UNCHANGED <<pfds, made>>

(* The buffers of readv that pb fills at once: a short read ends the call, *)
(* an empty pipe leaves the rest to wait for.                              *)
ReadNext(acc, n) ==
    IF acc.short THEN acc
    ELSE IF acc.pb.len = 0 THEN [acc EXCEPT !.rest = Append(@, n)]
    ELSE [pb |-> read_bytes(acc.pb, n), got |-> acc.got + Smaller(n, acc.pb.len),
          rest |-> <<>>, short |-> acc.pb.len < n]
ReadAll(pb, iov) ==
    LET first == ReadNext([pb |-> pb, got |-> 0, rest |-> <<>>, short |-> FALSE], iov[1])
    IN  IF Len(iov) = 1 THEN first ELSE ReadNext(first, iov[2])

(* pipe_read_blocking over the table P, by thread p on pipe i, as far as   *)
(* it goes without sleeping: data, the end of a pipe without writers, or   *)
(* registration and sleep, which a recorded wake-up turns into a mere      *)
(* yield.                                                                  *)
ReadTurn(p, P, i, iov) ==
    LET back == [readers EXCEPT ![p] = [@ EXCEPT !.reading = -1, !.want = <<>>,
                                                 !.alone = FALSE]]
        r == ReadAll(P[i], iov)
    IN  IF P[i] = NoPipe
        THEN pipes' = P /\ readers' = back /\ UNCHANGED queue
        ELSE /\ queue' = [queue EXCEPT ![i] = SubSeq(@, r.got + 1, Len(@))]
             /\ IF r.rest = <<>> \/ P[i].write_refs = 0
                THEN pipes' = [P EXCEPT ![i] = r.pb] /\ readers' = back
                ELSE /\ pipes' = [P EXCEPT ![i] = [r.pb EXCEPT !.waiter = p]]
                     /\ readers' =
                           [q \in PipeProcs |->
                               IF q = p
                               THEN [readers[p] EXCEPT
                                        !.st = IF readers[p].pending_wakeup THEN "Ready"
                                               ELSE "Sleeping",
                                        !.pending_wakeup = FALSE, !.reading = i,
                                        !.want = r.rest, !.alone = TRUE]
                               ELSE [readers[q] EXCEPT !.alone = @ /\ readers[q].reading # i]]

(* read_fd on the reading end of a pipe, for each buffer of readv: the     *)
(* call sleeps for a later buffer although it has filled an earlier one.   *)
readv(p, f, iov) ==
    /\ InUser(p)
    /\ read_fd(p, f)
    /\ ReadTurn(p, pipes, pfds[p][f].id, iov)
    /\ UNCHANGED <<pfds, made>>

(* pipe_read_blocking after its sleep: it clears the registration,         *)
(* whosever it is, and takes another turn.                                 *)
pipe_read_blocking(p) ==
    /\ readers[p].st = "Ready" /\ readers[p].reading # -1
    /\ LET i == readers[p].reading
       IN  ReadTurn(p, IF pipes[i] = NoPipe THEN pipes
                       ELSE [pipes EXCEPT ![i].waiter = 0], i, readers[p].want)
    /\ UNCHANGED <<pfds, made>>

(* A signal wakes a sleeping reader.                                       *)
SignalReader(p) ==
    /\ readers[p].st = "Sleeping"
    /\ readers' = [readers EXCEPT ![p].st = "Ready"]
    /\ UNCHANGED <<pipes, pfds, queue, made>>

PipeNext ==
    \E p \in PipeProcs :
        \/ pipe2_syscall(p)
        \/ \E c \in PipeProcs : clone_for_fork(p, c)
        \/ \E f \in Fds : \/ close(p, f)
                          \/ \E iov \in PipeData : writev(p, f, iov)
                          \/ \E iov \in PipeWants : readv(p, f, iov)
        \/ pipe_read_blocking(p)
        \/ SignalReader(p)

PipeSpec == PipeInit /\ [][PipeNext]_pipeVars

-----------------------------------------------------------------------------
(* Properties *)

Contents(pb) == [k \in 1 .. pb.len |-> pb.buf[(pb.read_pos + k - 1) % PIPE_BUF_SIZE]]

(* The ring is the queue of the bytes written and not yet read, in order:  *)
(* partial writes, partial reads and wrapping positions lose, repeat or    *)
(* swap none of them.                                                      *)
RingIsQueue ==
    \A i \in PipeIds : pipes[i] # NoPipe =>
        pipes[i].len <= PIPE_BUF_SIZE /\ Contents(pipes[i]) = queue[i]

(* A reader that nobody else has joined on its pipe sleeps only while the  *)
(* pipe is empty, and is the registered one, whom pipe_write wakes.        *)
LoneReaderWoken ==
    \A p \in PipeProcs : readers[p].st = "Sleeping" /\ readers[p].alone =>
        LET i == readers[p].reading
        IN  pipes[i] # NoPipe => pipes[i].len = 0 /\ pipes[i].waiter = p

(* What the comment on pipe_read_blocking says: the reader waits until the *)
(* writing end is closed, so it sleeps only while some process still holds *)
(* a descriptor for that end.                                              *)
SleeperHasWriter ==
    \A p \in PipeProcs : readers[p].st = "Sleeping" =>
        \E q \in PipeProcs, f \in Fds :
            pfds[q][f] = [id |-> readers[p].reading, pipe_write |-> TRUE]
=============================================================================
