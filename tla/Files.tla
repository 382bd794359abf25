------------------------------- MODULE Files -------------------------------
(***************************************************************************)
(* Open files: core/syscall/fs.rs, core/task/fd_table.rs and the file      *)
(* service (services/fs/src/main.rs).  A descriptor names a handle that is *)
(* either local (a copy of the contents in the kernel) or remote (a handle *)
(* number of the file service, shared by counted references).  A request   *)
(* to the service is a message; the caller yields until a message from the *)
(* service is in its mailbox, or until FS_RECV_TIMEOUT_TICKS have passed.  *)
(* Answers carry no request number.                                        *)
(*                                                                         *)
(* `service` is the file service the system was started with: "absent"     *)
(* (services/index.toml does not build it), "short" (services/fs, whose    *)
(* FsResponse has 128 data bytes where the kernel asks for 4096) or "full" *)
(* (a service with the kernel's FsResponse and all its operations,         *)
(* external).  A service may die, and none takes its place.  Its mailbox   *)
(* may be full, and then a request fails at once.  Sizes are counted in    *)
(* units, paths are three names.                                           *)
(***************************************************************************)
EXTENDS Integers, Sequences, FiniteSets, SequencesExt

CONSTANTS FileProcs,       \* processes; the first one is the parent of all
          FirstFileProc,
          LAST_FD,         \* PROCESS_MAX_FDS - 1
          MAX_HANDLES,     \* handles of the service
          FS_MAILBOX,      \* places of the service's mailbox, MAILBOX_CAP
          MaxLen,          \* bound on the length of a local file
          MaxLate,         \* bound on requests given up by the kernel
          FileSteps        \* bound on system calls

VARIABLE files
fileVars == <<files>>

FD_BASE == 3
FS_SERVICE_RETRY_COUNT == 3
FileFds == FD_BASE .. LAST_FD
Handles == 0 .. MAX_HANDLES - 1
Paths == {"file", "dir", "missing"}
DirEntries == 3
FreeSlot == "free"      \* a handle of the service that is not used
AnswerLen == 2          \* what a read of "file" returns at most
EIO == -5000            \* a request that failed in the kernel
S_IFDIR == 100          \* the status that says directory
ImageHeader == 300      \* status and length before the chunks of a program

NoHandle == [kind |-> "none", rfd |-> 0, arc |-> 0, pos |-> 0, len |-> 0,
             dir |-> FALSE, cloexec |-> FALSE]
LocalFile(pos, len, cx) == [NoHandle EXCEPT !.kind = "local", !.pos = pos, !.len = len,
                                            !.cloexec = cx]
LocalDir(cx) == [NoHandle EXCEPT !.kind = "local", !.dir = TRUE, !.cloexec = cx]
TtyFile(cx) == [NoHandle EXCEPT !.kind = "tty", !.cloexec = cx]
RemoteFile(rfd, arc, dir, cx) ==
    [NoHandle EXCEPT !.kind = "remote", !.rfd = rfd, !.arc = arc, !.dir = dir, !.cloexec = cx]

NoCall == [op |-> "none", then |-> "none", path |-> "none", rfd |-> 0, fd |-> 0,
           try |-> 0, cx |-> FALSE, sent |-> FALSE]

NoFileProc == [st |-> "none", tab |-> [f \in FileFds |-> NoHandle], cwd |-> "dir",
               call |-> NoCall, mail |-> <<>>]

\* The first process has a file open if the service is a full one.
FileInit ==
    \E service \in {"absent", "short", "full"}, n \in {0, 1} :
        /\ n = 1 <=> service = "full"
        /\ files =
                [service |-> service,
                 proc |-> [p \in FileProcs |->
                             IF p # FirstFileProc THEN NoFileProc
                             ELSE [NoFileProc EXCEPT !.st = "alive",
                                     !.tab[FD_BASE] = IF n = 1 THEN RemoteFile(0, 1, FALSE, FALSE)
                                                      ELSE NoHandle]],
                 refs |-> [i \in 1 .. n |-> 1],   \* the counter of each remote_refs Arc
                 handles |-> [h \in Handles |-> IF h < n THEN "file" ELSE FreeSlot],
                 inbox |-> <<>>,        \* requests waiting at the service
                 lost |-> {},           \* open at the service, and nobody will close them
                 late |-> 0, left |-> FileSteps,
                 hung |-> FALSE]        \* a yield with PROCESS_TABLE held

\* Kernel code runs on one CPU: a system call starts when none of its
\* process is waiting, and nothing runs after a yield under the lock.
Calls(p) == /\ ~files.hung
            /\ files.left > 0
            /\ files.proc[p].st = "alive"
            /\ files.proc[p].call = NoCall

Used(u) == [u EXCEPT !.left = @ - 1]

\* A service of that name is running.
fs_service_tid(u) == u.service # "absent"

\* send_from_kernel finds no free slot in the service's mailbox.
SendFails(u) == Len(u.inbox) >= FS_MAILBOX

\* fs_service_request up to the first yield, or to the failed send; ESRCH
\* without a service.
fs_service_request(u, p, c) ==
    IF ~fs_service_tid(u) THEN u
    ELSE IF SendFails(u) THEN [u EXCEPT !.proc[p].call = [c EXCEPT !.sent = FALSE]]
    ELSE [u EXCEPT !.inbox = Append(@, [from |-> p, op |-> c.op, path |-> c.path, rfd |-> c.rfd]),
                   !.proc[p].call = [c EXCEPT !.sent = TRUE]]

open_via_fs_service(u, p, c) == fs_service_request(u, p, [c EXCEPT !.op = "open"])

stat_path_via_fs_service(u, p, c) == fs_service_request(u, p, [c EXCEPT !.op = "stat"])

\* A close that is not sent is not tried again.
Unclosed(u, rfd) == IF fs_service_tid(u) /\ SendFails(u) THEN {rfd} ELSE {}

close_via_fs_service(u, p, rfd) ==
    fs_service_request([u EXCEPT !.lost = @ \cup Unclosed(u, rfd)], p,
                       [NoCall EXCEPT !.op = "close", !.rfd = rfd])

Finish(u, p) == [u EXCEPT !.proc[p].call = NoCall]

(***************************************************************************)
(* Handles and their references.                                           *)
(***************************************************************************)
\* A dropped handle closes the remote file with the last reference.  The
\* close request yields; under the process-table lock that never returns.
LastRef(u, arc) == u.refs[arc] = 1
Yields(u) == fs_service_tid(u) /\ ~SendFails(u)

drop_handle(u, p, hd, locked) ==
    IF hd.kind # "remote" THEN u
    ELSE LET v == [u EXCEPT !.refs[hd.arc] = @ - 1]
         IN  IF ~LastRef(u, hd.arc) THEN v
             ELSE IF locked THEN [v EXCEPT !.hung = @ \/ Yields(u), !.lost = @ \cup Unclosed(u, hd.rfd)]
             ELSE close_via_fs_service(v, p, hd.rfd)

\* Copies of every handle of a sequence share its counter.
clone_remote_refs(u, hds) ==
    FoldLeft(LAMBDA v, hd : IF hd.kind = "remote" THEN [v EXCEPT !.refs[hd.arc] = @ + 1] ELSE v,
             u, hds)

TableSeq(tab) == [i \in 1 .. LAST_FD - FD_BASE + 1 |-> tab[FD_BASE + i - 1]]

FreeIn(tab) == {f \in FileFds : tab[f] = NoHandle}

\* FdTable::alloc, called with the process-table lock held.
alloc(u, p, hd) ==
    LET free == FreeIn(u.proc[p].tab)
    IN  IF free = {} THEN drop_handle(u, p, hd, TRUE)
        ELSE [u EXCEPT !.proc[p].tab[CHOOSE f \in free : \A g \in free : f <= g] = hd]

\* Opening through the kernel's own file systems; "missing" is ENOENT.
fallback_open(u, p, path, cx) ==
    CASE path = "dir" -> alloc(u, p, LocalDir(cx))
      [] path = "file" -> alloc(u, p, LocalFile(0, 1, cx))
      [] OTHER -> u

(***************************************************************************)
(* System calls up to their first request.                                 *)
(***************************************************************************)
\* open, and openat with a directory descriptor, of a resolved path.
open_resolved_for_pid(p, path, mode, cx) ==
    /\ Calls(p)
    /\ files' =
         LET u == Used(files)
             c == [NoCall EXCEPT !.then = mode, !.path = path, !.try = 1, !.cx = cx]
             exists == path # "missing"
         IN  CASE mode = "tty" -> alloc(u, p, TtyFile(cx))
               [] mode \in {"rw", "excl"} ->
                    IF fs_service_tid(files) THEN stat_path_via_fs_service(u, p, c)
                    ELSE IF mode = "excl" /\ exists THEN u
                    ELSE alloc(u, p, LocalFile(0, IF exists THEN 1 ELSE 0, cx))
               [] OTHER ->
                    IF fs_service_tid(files) THEN open_via_fs_service(u, p, c)
                    ELSE fallback_open(u, p, path, cx)

\* The path of a terminal names no directory: nothing is found below it.
Below(p, f, path) == \/ files.proc[p].tab[f].dir
                     \/ files.proc[p].tab[f].kind = "tty" /\ path = "missing"

openat(p, f, path, mode, cx) ==
    /\ Below(p, f, path)
    /\ open_resolved_for_pid(p, path, mode, cx)

close(p, f) ==
    /\ Calls(p)
    /\ files.proc[p].tab[f] # NoHandle
    /\ files' = drop_handle([Used(files) EXCEPT !.proc[p].tab[f] = NoHandle],
                            p, files.proc[p].tab[f], FALSE)

\* The size of a remote file is asked for with the table locked.
seek(p, f, to) ==
    /\ Calls(p)
    /\ LET hd == files.proc[p].tab[f] IN
         /\ hd # NoHandle
         /\ files' = IF hd.kind = "remote" THEN [Used(files) EXCEPT !.hung = Yields(files)]
                     ELSE [Used(files) EXCEPT !.proc[p].tab[f].pos = IF to < hd.len THEN to ELSE hd.len]

\* read, fstat and readdir of a remote file ask the service.
ask_remote(p, f, op) ==
    /\ Calls(p)
    /\ LET hd == files.proc[p].tab[f] IN
         /\ hd.kind = "remote"
         /\ files' = fs_service_request(Used(files), p, [NoCall EXCEPT !.op = op, !.rfd = hd.rfd, !.fd = f])

read_via_fs_service(p, f) == ask_remote(p, f, "read")
fstat(p, f) == ask_remote(p, f, "fstat")
readdir(p, f) == files.proc[p].tab[f].dir /\ ask_remote(p, f, "readdir")

\* getdents64 reads the whole directory, from entry 0, before it skips the
\* entries it has already returned: two requests, the second one finding
\* the end.  The caller's buffer has room for all entries; the first two
\* are "." and "..".
ListedTo(pos) == IF pos < 2 + DirEntries THEN 2 + DirEntries ELSE pos

getdents64(p, f) ==
    /\ Calls(p)
    /\ LET hd == files.proc[p].tab[f] IN
         /\ hd.kind = "remote" \/ hd.dir
         /\ files' = IF hd.kind = "remote"
                     THEN fs_service_request(Used(files), p, [NoCall EXCEPT !.op = "readdir", !.then = "first",
                                                                            !.rfd = hd.rfd, !.fd = f])
                     ELSE [Used(files) EXCEPT !.proc[p].tab[f].pos = ListedTo(@)]

\* stat and chdir ask the service, or look into the kernel's file systems.
ask_path(p, path, then) ==
    /\ Calls(p)
    /\ files' = IF fs_service_tid(files)
                THEN stat_path_via_fs_service(Used(files), p,
                                              [NoCall EXCEPT !.then = then, !.path = path])
                ELSE [Used(files) EXCEPT !.proc[p].cwd =
                        IF then = "chdir" /\ path = "dir" THEN path ELSE @]

stat(p, path) == ask_path(p, path, "stat")
chdir(p, path) == ask_path(p, path, "chdir")

\* The image of a program to execute: a header, then chunks of data.
exec_image_via_fs(p, path) ==
    /\ Calls(p)
    /\ fs_service_tid(files)
    /\ files' = fs_service_request(Used(files), p, [NoCall EXCEPT !.op = "exec", !.path = path])

\* newfstatat needs a directory descriptor; faccessat and statfs ask for
\* the same status.
newfstatat(p, f, path) == Below(p, f, path) /\ ask_path(p, path, "stat")
faccessat(p, path) == ask_path(p, path, "stat")
statfs(p, path) == ask_path(p, path, "stat")

read(p, f, n) ==
    /\ Calls(p)
    /\ LET hd == files.proc[p].tab[f] IN
         /\ hd.kind = "local"
         /\ files' = [Used(files) EXCEPT !.proc[p].tab[f].pos =
                        IF @ + n <= hd.len THEN @ + n ELSE IF @ > hd.len THEN @ ELSE hd.len]

write(p, f, n) ==
    /\ Calls(p)
    /\ LET hd == files.proc[p].tab[f] IN
         /\ hd.kind = "local"
         /\ hd.pos + n <= MaxLen
         /\ files' = [Used(files) EXCEPT !.proc[p].tab[f].pos = @ + n,
                                         !.proc[p].tab[f].len = IF hd.pos + n > @ THEN hd.pos + n ELSE @]

ftruncate(p, f, n) ==
    /\ Calls(p)
    /\ files.proc[p].tab[f].kind = "local"
    /\ files' = [Used(files) EXCEPT !.proc[p].tab[f].len = n,
                                    !.proc[p].tab[f].pos = IF @ > n THEN n ELSE @]

\* F_SETFD; the other commands of fcntl change no state that is modelled.
fcntl(p, f, cx) ==
    /\ Calls(p)
    /\ files.proc[p].tab[f] # NoHandle
    /\ files' = [Used(files) EXCEPT !.proc[p].tab[f].cloexec = cx]

\* The copy is counted before a slot is looked for; alloc drops it again.
dup(p, f) ==
    /\ Calls(p)
    /\ LET hd == files.proc[p].tab[f] IN
         /\ hd # NoHandle
         /\ files' = alloc(clone_remote_refs(Used(files), <<hd>>), p, [hd EXCEPT !.cloexec = FALSE])

dup2(p, f, g) ==
    /\ Calls(p)
    /\ f # g
    /\ LET hd == files.proc[p].tab[f]
           v  == drop_handle(clone_remote_refs(Used(files), <<hd>>), p, files.proc[p].tab[g], TRUE)
       IN  /\ hd # NoHandle
           /\ files' = [v EXCEPT !.proc[p].tab[g] = [hd EXCEPT !.cloexec = FALSE]]

(***************************************************************************)
(* fork copies the table, execve closes the marked descriptors, and the    *)
(* table of a dead process is dropped by the wait that reaps it.           *)
(***************************************************************************)
CloneUncounted(u, hds) == u   \* mutant of ForkRefs

ForkRefs(u, hds) == clone_remote_refs(u, hds)

fork(p, c) ==
    /\ Calls(p)
    /\ files.proc[c].st = "none"
    /\ LET u == ForkRefs(Used(files), TableSeq(files.proc[p].tab))
       IN  files' = [u EXCEPT !.proc[c] = [NoFileProc EXCEPT !.st = "alive", !.tab = files.proc[p].tab,
                                                            !.cwd = files.proc[p].cwd]]

CloseLocked(u, p, fds) ==
    FoldLeft(LAMBDA v, i :
               IF FD_BASE + i - 1 \in fds
               THEN drop_handle([v EXCEPT !.proc[p].tab[FD_BASE + i - 1] = NoHandle], p,
                                v.proc[p].tab[FD_BASE + i - 1], TRUE)
               ELSE v,
             u, [i \in 1 .. LAST_FD - FD_BASE + 1 |-> i])

close_cloexec_fds(p) ==
    /\ Calls(p)
    /\ files' = CloseLocked(Used(files), p, {f \in FileFds : files.proc[p].tab[f].cloexec})

exit(p) ==
    /\ Calls(p)
    /\ p # FirstFileProc
    /\ files' = [Used(files) EXCEPT !.proc[p].st = "zombie", !.proc[p].mail = <<>>]

reap_zombie_child(c) ==
    /\ Calls(FirstFileProc)
    /\ files.proc[c].st = "zombie"
    /\ LET u == CloseLocked(Used(files), c, FileFds)
       IN  files' = [u EXCEPT !.proc[c] = NoFileProc]

(***************************************************************************)
(* The service takes one request at a time.                                *)
(***************************************************************************)
Opened == {h \in Handles : files.handles[h] # FreeSlot}

\* status of the answer and the handle table after it
Serve(r) ==
    LET free == Handles \ Opened
        h == CHOOSE x \in free : \A y \in free : x <= y
        bad == r.rfd \notin Opened
    IN  CASE r.op = "open" ->
               IF r.path = "missing" THEN <<-2, files.handles>>
               ELSE IF free = {} THEN <<-1, files.handles>>
               ELSE <<h, [files.handles EXCEPT ![h] = r.path]>>
          [] r.op = "close" -> IF bad THEN <<-9, files.handles>>
                               ELSE <<0, [files.handles EXCEPT ![r.rfd] = FreeSlot]>>
          [] r.op = "read" -> <<IF bad THEN -9 ELSE AnswerLen, files.handles>>
          [] r.op = "stat" -> <<IF r.path = "missing" THEN -2 ELSE IF r.path = "dir" THEN 100 ELSE 200,
                                files.handles>>
          [] r.op = "fstat" -> <<IF bad THEN -9 ELSE IF files.handles[r.rfd] = "dir" THEN 100 ELSE 200,
                                 files.handles>>
          [] r.op = "exec" -> <<IF r.path = "file" THEN ImageHeader ELSE -2, files.handles>>
          [] OTHER -> <<IF bad THEN -9 ELSE DirEntries, files.handles>>

\* A chunk is shorter than an answer: read as one, it is an error.
Messages(status) == IF status = ImageHeader THEN <<status, EIO>> ELSE <<status>>

service_main ==
    /\ ~files.hung
    /\ files.inbox # <<>>
    /\ LET r == Head(files.inbox)
           s == Serve(r)
           u == [files EXCEPT !.inbox = Tail(@), !.handles = s[2],
                              !.lost = IF r.op = "close" THEN @ \ {r.rfd} ELSE @]
           unknown == files.service = "short" /\ r.op \notin {"open", "read", "close"}
       IN  files' = IF unknown THEN [files EXCEPT !.inbox = Tail(@)]
                    ELSE IF files.proc[r.from].st # "alive" THEN u
                    ELSE [u EXCEPT !.proc[r.from].mail = @ \o Messages(s[1])]

\* The service dies; its handles and the requests it has not taken go.
service_exit ==
    /\ ~files.hung
    /\ fs_service_tid(files)
    /\ files' = [files EXCEPT !.service = "absent", !.inbox = <<>>, !.lost = {},
                              !.handles = [h \in Handles |-> FreeSlot]]

(***************************************************************************)
(* The end of a request: an answer of the service, whichever request it    *)
(* was for, the end of the wait, the end of the service or a send that     *)
(* failed.  EIO stands for no answer and for one that is too short.        *)
(***************************************************************************)
\* After the header of an image its data is waited for, unless the length
\* is 0, which it is in the answers to open and close.
fs_service_request_stream(u, p, c, status) ==
    IF status >= 0 /\ status \notin Handles
    THEN [u EXCEPT !.proc[p].call = [c EXCEPT !.then = "data"]]
    ELSE u

\* The new handle gets a descriptor, or alloc drops it and open closes it
\* once more.
alloc_remote(u, p, hd) ==
    LET v == alloc([u EXCEPT !.refs = Append(@, 1)], p, hd)
    IN  IF FreeIn(u.proc[p].tab) # {} \/ v.hung THEN v
        ELSE close_via_fs_service(v, p, hd.rfd)

\* The errors after which open looks into the kernel's own file systems.
should_fallback_to_initfs(status) == status \in {-2, -9}

Continue(u, p, status) ==
    LET c == u.proc[p].call
        v == Finish(u, p)
    IN  CASE c.op = "open" ->
               IF status >= 0
               THEN stat_path_via_fs_service(v, p, [NoCall EXCEPT !.then = "dirfd", !.path = c.path,
                                                                  !.rfd = status, !.cx = c.cx])
               ELSE IF status = EIO /\ c.try < FS_SERVICE_RETRY_COUNT
               THEN IF fs_service_tid(v) THEN open_via_fs_service(v, p, [c EXCEPT !.try = @ + 1])
                    ELSE fallback_open(v, p, c.path, c.cx)
               ELSE IF should_fallback_to_initfs(status) THEN fallback_open(v, p, c.path, c.cx)
               ELSE v
          [] c.op = "stat" /\ c.then = "dirfd" ->
               alloc_remote(v, p, RemoteFile(c.rfd, Len(v.refs) + 1, status = S_IFDIR, c.cx))
          [] c.op = "stat" /\ c.then \in {"rw", "excl"} ->
               IF c.then = "excl" /\ (status >= 0 \/ c.path # "missing") THEN v
               ELSE alloc(v, p, LocalFile(0, IF c.path # "missing" THEN 1 ELSE 0, c.cx))
          [] c.op = "stat" /\ c.then = "chdir" ->
               IF status = S_IFDIR THEN [v EXCEPT !.proc[p].cwd = c.path] ELSE v
          [] c.op = "readdir" /\ c.then = "first" ->
               IF status < 0 THEN v
               ELSE fs_service_request(v, p, [c EXCEPT !.then = "rest"])
          [] c.op = "readdir" /\ c.then = "rest" ->
               IF status < 0 THEN v ELSE [v EXCEPT !.proc[p].tab[c.fd].pos = ListedTo(@)]
          [] c.op = "readdir" ->
               IF status >= 0 THEN [v EXCEPT !.proc[p].tab[c.fd].pos = status] ELSE v
          [] c.op = "exec" /\ c.then = "none" -> fs_service_request_stream(v, p, c, status)
          [] OTHER -> v

Waits(p) == ~files.hung /\ files.proc[p].call.sent

\* The handle in an answer that is too short to be taken.
Refused(c, status) == IF files.service = "short" /\ c.op = "open" THEN {status} \cap Handles ELSE {}

answer(p) ==
    /\ Waits(p)
    /\ fs_service_tid(files)
    /\ files.proc[p].mail # <<>>
    /\ LET status == Head(files.proc[p].mail)
           u == [files EXCEPT !.proc[p].mail = Tail(@),
                              !.lost = @ \cup Refused(files.proc[p].call, status)]
       IN  files' = Continue(u, p, IF files.service = "short" THEN EIO ELSE status)

send_failed(p) ==
    /\ ~files.hung
    /\ files.proc[p].call.op # "none"
    /\ ~files.proc[p].call.sent
    /\ files' = Continue(files, p, EIO)

timeout(p) ==
    /\ Waits(p)
    /\ fs_service_tid(files)
    /\ files.proc[p].mail = <<>>
    /\ files.late < MaxLate
    /\ files' = Continue([files EXCEPT !.late = @ + 1], p, EIO)

service_gone(p) ==
    /\ Waits(p)
    /\ ~fs_service_tid(files)
    /\ files' = Continue(files, p, EIO)

\* O_CLOEXEC comes with the opening of a file, and fcntl changes it.  Where a
\* directory is treated like a file, "file" stands for both.
FileOrNone == {"file", "missing"}

FileNext ==
    \/ \E p \in FileProcs, path \in Paths : open_resolved_for_pid(p, path, "r", path = "file")
    \/ \E p \in FileProcs, path \in FileOrNone, mode \in {"rw", "excl"} :
         open_resolved_for_pid(p, path, mode, FALSE)
    \/ \E p \in FileProcs : open_resolved_for_pid(p, "file", "tty", FALSE)
    \/ \E p \in FileProcs, f \in FileFds, path \in Paths : openat(p, f, path, "r", FALSE)
    \/ \E p \in FileProcs, f \in FileFds : close(p, f) \/ dup(p, f) \/ getdents64(p, f)
    \/ \E p \in FileProcs, f \in FileFds, path \in FileOrNone : newfstatat(p, f, path)
    \/ \E p \in FileProcs, path \in FileOrNone : faccessat(p, path) \/ statfs(p, path)
    \/ \E p \in FileProcs, f \in FileFds, n \in 0 .. MaxLen : seek(p, f, n) \/ ftruncate(p, f, n)
    \/ \E p \in FileProcs, f \in FileFds : read_via_fs_service(p, f) \/ fstat(p, f) \/ readdir(p, f)
    \/ \E p \in FileProcs, path \in FileOrNone : stat(p, path)
    \/ \E p \in FileProcs, path \in Paths : chdir(p, path)
    \/ \E p \in FileProcs, f \in FileFds : read(p, f, 1) \/ write(p, f, 1)
    \/ \E p \in FileProcs, f \in FileFds, cx \in BOOLEAN : fcntl(p, f, cx)
    \/ \E p \in FileProcs, f, g \in FileFds : dup2(p, f, g)
    \/ \E p, c \in FileProcs : fork(p, c)
    \/ \E p \in FileProcs : close_cloexec_fds(p) \/ exit(p)
    \/ \E p \in FileProcs : answer(p) \/ send_failed(p) \/ timeout(p) \/ service_gone(p)
    \/ \E p \in FileProcs, path \in FileOrNone : exec_image_via_fs(p, path)
    \/ \E c \in FileProcs : reap_zombie_child(c)
    \/ service_main
    \/ service_exit

(***************************************************************************)
(* Properties.                                                             *)
(***************************************************************************)
\* All handles of all tables, zombies included.
HandleAt(pf) == files.proc[pf[1]].tab[pf[2]]
LiveHandles == {pf \in FileProcs \X FileFds : HandleAt(pf).kind = "remote"}
Named == {HandleAt(pf).rfd : pf \in LiveHandles}
Quiet == /\ files.inbox = <<>>
         /\ \A p \in FileProcs : files.proc[p].call = NoCall

\* Reference counting of remote files across dup, dup2, fork, execve, exit
\* and wait (FileHandle::clone_remote_refs and Drop).  As long as the kernel
\* is not stuck, no wait for an answer has timed out and the service lives, a
\* handle named by a descriptor of any process is open, and descriptors share
\* it only by sharing its counter.  When no request is under way, every
\* handle open at the service is named, or it is one of those lost in the two
\* ways the code has: its close could not be sent, or the answer that
\* brought it was refused.  services/fs is only ever refused (its FsResponse
\* is shorter than the kernel's): no descriptor names a handle of it, and
\* each open, tried three times, leaves the handles it was given open.
RemoteFilesCounted ==
    (fs_service_tid(files) /\ ~files.hung /\ files.late = 0) =>
        /\ Named \subseteq Opened \ files.lost
        /\ \A pf, pg \in LiveHandles :
             HandleAt(pf).rfd = HandleAt(pg).rfd => HandleAt(pf).arc = HandleAt(pg).arc
        /\ Quiet => Opened = Named \cup files.lost
        /\ files.service = "short" => Named = {}
=============================================================================
