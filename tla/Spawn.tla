------------------------------- MODULE Spawn --------------------------------
(* Processes come and go: exec (syscall/exec.rs), execve, fork, exit and    *)
(* wait (syscall/process.rs, task/process.rs, task/scheduler.rs), and the   *)
(* pool of kernel stacks (task/thread.rs), on top of their memory.          *)
(* exec_with_data keeps the CPU to the yield_now after its last change, so  *)
(* each call is one step.                                                   *)
EXTENDS Memory

CONSTANTS
    MAX_PROCESSES, MAX_THREADS,
    KSTACK_POOL_SIZE, KSTACK_FREE_LIST_CAP,   \* in pages, and in slots
    EXEC_STACK, FORK_STACK,                   \* KERNEL_THREAD_STACK_SIZE of each
    BrkAddrs, Hints, Spots, Lengths, Faults, Devices   \* arguments that are explored

(* Sizes of the stacks and of the pool they are cut from.                   *)
ASSUME KernelStackSizes ==
    /\ KSTACK_POOL_SIZE \in Nat /\ KSTACK_FREE_LIST_CAP \in Nat
    /\ EXEC_STACK \in Nat /\ FORK_STACK \in Nat

VARIABLES
    kst,       \* the kernel-stack pool
    carved,    \* the size each stack of the pool was first cut out with
    manager    \* SERVICE_MANAGER_PID

vars == <<mem, proc, promised, lent, left, kst, carved, manager>>

KSTACK_GUARD == 1
KSlots == 1 .. KSTACK_FREE_LIST_CAP

(* Mutant: the slot of a stack that is handed out is not cleared.           *)
KeepSlot(k, i) == k

(* allocate_kernel_stack: the first entry of the free list, whatever its    *)
(* size, else the bump offset, which moves even when the pool is exhausted. *)
(* Stacks are named by the page of their guard, counted from 1.             *)
TakeSlot(k, i) == [k EXCEPT !.free[i] = 0]
allocate_kernel_stack(k, size) ==
    LET used == {i \in KSlots : k.free[i] # 0}
        i == CHOOSE i \in used : \A j \in used : i <= j
        whole == size + KSTACK_GUARD
    IN  IF used # {}
        THEN [base |-> k.free[i], k |-> TakeSlot(k, i), fresh |-> FALSE]
        ELSE [base |-> IF k.off + whole <= KSTACK_POOL_SIZE THEN k.off + 1 ELSE 0,
              k |-> [k EXCEPT !.off = IF k.off + whole <= KSTACK_POOL_SIZE
                                      THEN k.off + whole ELSE KSTACK_POOL_SIZE],
              fresh |-> TRUE]

(* free_kernel_stack: into the first empty slot; lost when there is none.   *)
free_kernel_stack(k, base) ==
    LET empty == {i \in KSlots : k.free[i] = 0}
    IN  IF base = 0 \/ empty = {} THEN k
        ELSE [k EXCEPT !.free[CHOOSE i \in empty : \A j \in empty : i <= j] = base]

(* What is executed: a program, what the loader finds wrong with it, or     *)
(* arguments that do not fit the top page of the stack.                     *)
Programs == {"app", "core.service", "overlap", "badheader", "longargs"}
Segments(prog) ==
    IF prog = "overlap"
    THEN <<[page |-> CODE, w |-> FALSE, x |-> TRUE], [page |-> CODE, w |-> TRUE, x |-> FALSE]>>
    ELSE <<[page |-> CODE, w |-> FALSE, x |-> TRUE], [page |-> CODE + 1, w |-> TRUE, x |-> FALSE]>>

LoadSegments(m, prog) ==
    IF prog = "badheader" THEN Fail(m)
    ELSE FoldLeft(LAMBDA y, s : map_and_copy_segment_to(y, m.root, <<s.page>>, s.w, s.x),
                  m, Segments(prog))

(* build_initial_user_stack refuses what does not fit one page; the stack   *)
(* is mapped below its top page, then the top page with the arguments.      *)
build_initial_user_stack(m, prog) == IF prog = "longargs" THEN Fail(m) ELSE m
MapPages(m, pages) == map_and_copy_segment_to(m, m.root, pages, TRUE, FALSE)
MapUserStack(m) == FoldLeft(LAMBDA y, n : MapPages(y, <<n>>), m, <<STACK - 2, STACK - 1>>)

(* What exec and execve do alike.  (All of this runs in one system call.)   *)
LoadProgram(m, prog) ==
    IfOk(create_user_page_table(m), LAMBDA made :
        MapUserStack(build_initial_user_stack(LoadSegments(made, prog), prog)))

map_initial_tls(m) == MapPages(m, <<TLS>>)
MapHeap(m) == MapPages(m, <<HEAP, HEAP + 1>>)

(* Dropping UserPageTableGuard.                                             *)
Guarded(m) == IF m.root = NoFrame THEN m ELSE Fail(destroy_user_page_table(m, m.root))

(* The stub that calls __sinit, which only services have.                   *)
sinit_addr(prog) == prog = "core.service"
MapStub(m, prog) ==
    IF sinit_addr(prog) THEN map_and_copy_segment_to(m, m.root, <<STACK + 1>>, FALSE, TRUE)
    ELSE m

(* exec_with_data up to the new process: the heap and the __sinit stub may  *)
(* fail without failing the call, the TLS block may not.                    *)
Ignored(m) == [m EXCEPT !.ok = TRUE]
AfterHeap(m, prog) ==
    [m |-> OrElse(map_initial_tls(Ignored(MapStub(Ignored(m), prog))), Guarded), heap |-> m.ok]
AfterLoad(m, prog) ==
    IF m.ok THEN AfterHeap(MapHeap(m), prog) ELSE [m |-> Guarded(m), heap |-> FALSE]
ExecImage(m, prog) == AfterLoad(LoadProgram(m, prog), prog)

ImagePages(prog) ==
    {s.page : s \in Range(Segments(prog))} \cup {STACK - 2, STACK - 1, TLS}

NewProc(parent, root, heap, service, base) ==
    [st |-> "run", parent |-> parent, root |-> root,
     heap_start |-> IF heap THEN 2 * HEAP ELSE 0,
     heap_end |-> IF heap THEN 2 * (HEAP + 2) ELSE 0,
     stack_bottom |-> STACK - 2, service |-> service, kstack |-> base,
     ksize |-> EXEC_STACK]

Created == {q \in Pids : proc[q] # NoProc}
TableFull == Cardinality(Created) >= MAX_PROCESSES
ThreadsFull == Cardinality(Running) >= MAX_THREADS

(* Pids are never used again: the next one is above all that ever were.     *)
FreshPid(q) == q \notin Created /\ promised[q] = {} /\ \A r \in Pids : r < q => promised[r] # {}

CarvedOut(ks, size) ==
    carved' = IF ks.fresh /\ ks.base # 0 THEN [carved EXCEPT ![ks.base] = size] ELSE carved

(* The process appears: its pages are promised from here on.                *)
Started(q, m, new, pages, ks, size) ==
    /\ Leave(m)
    /\ proc' = [proc EXCEPT ![q] = new]
    /\ promised' = [promised EXCEPT ![q] = pages]
    /\ kst' = ks.k
    /\ CarvedOut(ks, size)

(* exec_with_data by process p, or by the kernel (p = 0): core.service only *)
(* once.  The claim on SERVICE_MANAGER_PID is released by every failure.    *)
NoProcess(m) == Leave(m) /\ UNCHANGED <<proc, promised, kst, carved>>
NoThread(m, ks, size) ==
    /\ Leave(m)
    /\ kst' = ks.k
    /\ CarvedOut(ks, size)
    /\ UNCHANGED <<proc, promised>>
StartImage(p, q, prog, m, heap, ks) ==
    LET core == prog = "core.service"
        claimed == core /\ manager # 0
    IN  /\ manager' = IF core /\ m.ok /\ ~claimed /\ ~TableFull /\ ks.base # 0 /\ ~ThreadsFull
                      THEN q ELSE manager
        /\ IF ~m.ok THEN NoProcess(m)
           ELSE IF claimed \/ TableFull THEN NoProcess(Guarded(m))
           ELSE IF ks.base = 0
           THEN NoThread(Guarded(destroy_user_page_table(m, m.root)), ks, EXEC_STACK)
           ELSE IF ThreadsFull THEN NoThread(destroy_user_page_table(m, m.root), ks, EXEC_STACK)
           ELSE Started(q, m, NewProc(p, m.root, heap, core, ks.base),
                        ImagePages(prog) \cup (IF heap THEN {HEAP, HEAP + 1} ELSE {}),
                        ks, EXEC_STACK)
        /\ UNCHANGED lent
StartExec(p, q, prog, e) ==
    StartImage(p, q, prog, e.m, e.heap, allocate_kernel_stack(kst, EXEC_STACK))
exec_with_data(p, q, prog) == FreshPid(q) /\ StartExec(p, q, prog, ExecImage(mem, prog))

(* exec_internal, exec_from_buffer and exec_from_fs: services are started   *)
(* by the service manager only, while it lives.                             *)
caller_can_launch_service(p) == manager = p /\ proc[p].service
exec(p, q, prog) ==
    /\ InCall(p, "process")
    /\ prog = "core.service" => caller_can_launch_service(p)
    /\ exec_with_data(p, q, prog)

(* kernel_main starts core.service and registers it as the manager.         *)
kernel_main ==
    /\ mem.a.next_frame = 1
    /\ UNCHANGED left
    /\ exec_with_data(0, 1, "core.service")

(* Mutant: execve destroys the table it has just installed.                 *)
DestroysNewTable(p, new) == new

(* execve_syscall: nothing is replaced before the whole new image is ready. *)
ReplacedTable(p, new) == proc[p].root
ExecveImage(prog) == map_initial_tls(MapHeap(LoadProgram(mem, prog)))
Replace(p, prog, m) ==
    IF m.ok
    THEN /\ Leave(destroy_user_page_table(m, ReplacedTable(p, m.root)))
         /\ proc' = [proc EXCEPT ![p].root = m.root, ![p].heap_start = 2 * HEAP,
                                 ![p].heap_end = 2 * (HEAP + 2),
                                 ![p].stack_bottom = STACK - 2]
         /\ promised' = [promised EXCEPT ![p] = ImagePages(prog) \cup {HEAP, HEAP + 1}]
    ELSE Leave(Guarded(m)) /\ UNCHANGED <<proc, promised>>
execve_syscall(p, prog) ==
    /\ InCall(p, "process")
    /\ prog = "core.service" => caller_can_launch_service(p)
    /\ Replace(p, prog, ExecveImage(prog))
    /\ UNCHANGED <<lent, kst, carved, manager>>

(* fork: the clone first; every later failure destroys it again.            *)
StartClone(p, q, m, ks) ==
    IF ~m.ok THEN NoProcess(m)
    ELSE IF TableFull THEN NoProcess(destroy_user_page_table(m, m.root))
    ELSE IF ks.base = 0 \/ ThreadsFull
    THEN NoThread(destroy_user_page_table(m, m.root), ks, FORK_STACK)
    ELSE Started(q, m, [proc[p] EXCEPT !.parent = p, !.root = m.root, !.kstack = ks.base,
                                       !.ksize = FORK_STACK],
                 promised[p], ks, FORK_STACK)
fork(p, q) ==
    /\ InCall(p, "process")
    /\ FreshPid(q)
    /\ StartClone(p, q, clone_user_page_table(mem, proc[p].root),
                  allocate_kernel_stack(kst, FORK_STACK))
    /\ UNCHANGED <<lent, manager>>

(* exit_current_task and exit_current_process for a process of one thread:  *)
(* a zombie with its table, its kernel stack back in the list.              *)
ExitChanges(p) ==
    /\ proc' = [proc EXCEPT ![p].st = "zombie", ![p].kstack = 0, ![p].ksize = 0]
    /\ kst' = free_kernel_stack(kst, proc[p].kstack)
exit_current_task(p) ==
    /\ InCall(p, "process")
    /\ ExitChanges(p)
    /\ UNCHANGED <<mem, promised, lent, carved, manager>>

(* page_fault_handler on a page that is not mapped: the stack grows or the  *)
(* process ends; a failed growth has changed memory all the same.           *)
GrowOrEnd(p, page, m) ==
    \/ /\ InCall(p, "memory")
       /\ try_grow_user_stack(p, page, m)
       /\ UNCHANGED <<lent, kst, carved, manager>>
    \/ /\ InCall(p, "process")
       /\ ~m.ok
       /\ Leave(m)
       /\ ExitChanges(p)
       /\ UNCHANGED <<promised, lent, carved, manager>>
page_fault_handler(p, page) ==
    /\ ~Has(TableOf(p), Path(page), {"P"})
    /\ GrowOrEnd(p, page, GrowMem(p, page))

(* wait: a zombie child is taken out of the table, then its page table is   *)
(* destroyed (reap_zombie_child_process).                                   *)
wait(p, c) ==
    /\ InCall(p, "process")
    /\ proc[c].st = "zombie" /\ proc[c].parent = p
    /\ Leave(destroy_user_page_table(mem, proc[c].root))
    /\ proc' = [proc EXCEPT ![c] = NoProc]
    /\ UNCHANGED <<promised, lent, kst, carved, manager>>

(* Before the first process: fresh memory of some machine.                  *)
Init ==
    /\ \E offset \in Offsets, limit \in Limits, huge \in HugeLow :
           mem = [a |-> NewAllocator(offset, limit), t |-> <<>>, win |-> NoFrame,
                  kt |-> {}, huge |-> huge, ok |-> TRUE, root |-> NoFrame]
    /\ proc = [p \in Pids |-> NoProc]
    /\ promised = [p \in Pids |-> {}]
    /\ lent = {}
    /\ left \in Budgets
    /\ kst = [off |-> 0, free |-> [i \in KSlots |-> 0]]
    /\ carved = [b \in 1 .. KSTACK_POOL_SIZE |-> 0]
    /\ manager = 0

MemoryCall(p) ==
    \/ \E a \in BrkAddrs : brk(p, a)
    \/ \E n \in Hints \cup {0}, len \in Lengths : mmap(p, n, len)
    \/ \E n \in Spots, len \in Lengths : munmap(p, n, len)
    \/ \E n \in Spots, len \in Lengths, prot \in {"rx", "none"} :
           mprotect(p, n, len, prot)
    \/ \E out \in {0, CODE}, n \in Hints \cup {0}, len \in Lengths :
           alloc_shared_pages(p, len, out, n)
    \/ \E t \in Running, n \in Spots, hint \in Hints \cup {0} :
           /\ virt_to_phys_in_table(TableOf(p), Path(n)) # NoFrame
           /\ map_phys_pages_into_target(p, t, <<virt_to_phys_in_table(TableOf(p), Path(n))>>,
                                         hint)
    \/ \E n \in Spots, dealloc \in BOOLEAN : unmap_pages(p, n, 1, dealloc)
    \/ \E f \in Devices, len \in Lengths : map_physical_range(p, f, len)
    \/ map_framebuffer(p)

Next ==
    \/ kernel_main
    \/ \E p \in Running :
          \/ MemoryCall(p) /\ UNCHANGED <<kst, carved, manager>>
          \/ \E q \in Pids, prog \in Programs : exec(p, q, prog)
          \/ \E prog \in Programs : execve_syscall(p, prog)
          \/ \E q \in Pids : fork(p, q)
          \/ exit_current_task(p)
          \/ \E n \in Faults : page_fault_handler(p, n)
          \/ \E c \in Pids : wait(p, c)

Spec == Init /\ [][Next]_vars

-----------------------------------------------------------------------------
(* The places that hold a frame of RAM that no service shared: the roots    *)
(* and entries of tables, and the tables of the kernel's window.            *)
FrameAt(x) == IF x.path = <<>> THEN x.root ELSE mem.t[x.root][x.path].frame
Places ==
    {x \in UNION {{[root |-> r, path |-> v] : v \in DOMAIN mem.t[r] \cup {<<>>}}
                  : r \in DOMAIN mem.t} : FrameAt(x) \in UsableFrames \ lent}
HeldFrames == {FrameAt(x) : x \in Places}

(* Pool exhaustion makes exec_with_data destroy the new table twice.        *)
StackPoolRanOut == kst.off = KSTACK_POOL_SIZE

(* Frames of RAM have one owner: a frame that no service shared is held by  *)
(* at most one table entry or root, was handed out by the allocator, and is *)
(* not available for another allocation.  Rollbacks of exec, fork, mmap and *)
(* the shared-page calls, munmap, reaping and the MMIO filter all have to   *)
(* respect it.  (With a usable free list it needs the stack pool not to     *)
(* have run out: see exec_with_data.)                                       *)
FramesHaveOneOwner ==
    mem.a.phys_offset = 0 \/ ~StackPoolRanOut =>
        /\ Cardinality(HeldFrames) = Cardinality(Places)
        /\ HeldFrames \cap mem.kt = {}
        /\ \A f \in HeldFrames : f < mem.a.next_frame
        /\ HeldFrames \cap Available(mem.a) = {}

(* A process that has not been reaped has a page table of its own: failed   *)
(* calls, execve and the reaping of others never destroy it, so the CR3     *)
(* loaded on return to user mode is always a live table.                    *)
ProcessHasOwnTable ==
    \A p \in Created :
        /\ proc[p].root \in DOMAIN mem.t
        /\ \A q \in Created : proc[q].root = proc[p].root => q = p

(* Pages a call gave to a process stay accessible until the process gives   *)
(* them back: no other call, failed rollback or other process unmaps them,  *)
(* also where brk, mmap and the shared-page calls place pages over what a   *)
(* hint put above heap_end.  A shared-page call that names the pages by a   *)
(* hint and fails has given them up.                                        *)
PromisedPagesMapped ==
    \A p \in Running : is_user_range_mapped_in_table(TableOf(p), promised[p])

(* Kernel stacks: a running thread's stack is not on the free list, has no  *)
(* second user, and reaches into another stack only when it was recycled    *)
(* from a smaller one (the free list does not record sizes).                *)
StackPages(p) == proc[p].kstack .. proc[p].kstack + proc[p].ksize
KernelStackHasOneUser ==
    \A p \in Running :
        /\ \A i \in KSlots : kst.free[i] # proc[p].kstack
        /\ \A q \in Running \ {p} :
              /\ proc[q].kstack # proc[p].kstack
              /\ StackPages(p) \cap StackPages(q) # {} =>
                    \E x \in {p, q} : carved[proc[x].kstack] < proc[x].ksize

(* fork gives the child every user page of its parent, with the same rights *)
(* and in frames of its own.                                                *)
ForkCopies ==
    [][\A q \in Pids :
          (q \notin Created /\ proc'[q].st = "run" /\ proc'[q].ksize = FORK_STACK) =>
              LET T == TableOf(proc'[q].parent)
                  C == mem'.t[proc'[q].root]
              IN  /\ {v \in DOMAIN C : Len(v) = 4} = UserPages(T)
                  /\ \A v \in UserPages(T) : /\ C[v].flags = T[v].flags
                                             /\ C[v].frame # T[v].frame]_vars

(* When wait reaps a child, the frames of the child's user pages that it    *)
(* did not share can be allocated again (destroy_user_page_table and the    *)
(* free list of the frame allocator).                                       *)
ReapedFrames(c) ==
    {TableOf(c)[v].frame : v \in UserPages(TableOf(c))} \cap UsableFrames
ReapedMemoryReturns ==
    [][\A c \in Pids : (proc[c].st = "zombie" /\ proc'[c] = NoProc) =>
          ReapedFrames(c) \subseteq Available(mem'.a)]_vars

(* The same where the loader maps physical memory at a non-zero offset.     *)
ReapedMemoryReturnsWithOffset ==
    [][\A c \in Pids : (/\ mem.a.phys_offset # 0
                        /\ proc[c].st = "zombie" /\ proc'[c] = NoProc) =>
          ReapedFrames(c) \subseteq Available(mem'.a)]_vars

=============================================================================
