------------------------------- MODULE Memory -------------------------------
(* The memory of processes: brk, mmap, munmap (syscall/process.rs),         *)
(* mprotect (syscall/pgroup.rs), growth of the user stack on a page fault   *)
(* (interrupt/idt.rs), pages shared between processes                       *)
(* (syscall/privileged.rs) and device memory (syscall/mmio.rs, vga.rs).     *)
(* Addresses are counted in half pages, so that a break may lie on a page   *)
(* boundary or inside a page; page n covers the addresses 2n and 2n+1.      *)
EXTENDS PageTables

CONSTANTS
    MaxPid,          \* bound: processes ever created
    Budgets,         \* bounds: how many calls of each kind a behaviour makes
    CODE, TLS, HEAP, \* the first page of the program, TLS block and heap
    STACK,           \* the page above the user stack
    MaxHeapPages,    \* bound: pages a heap may reach
    MAX_STACK_SIZE,  \* how far below the stack a fault may lie, in pages
    FramebufferFrame,
    Offsets,         \* physical_memory_offset: 0 in boot/loader.rs
    Limits,          \* the last frame of the machines that are explored
    HugeLow          \* whether the firmware maps low memory in 2 MiB pages

(* Room for the process that kernel_main starts.                            *)
ASSUME MaxPidAssumption == MaxPid \in Nat \ {0}

VARIABLES
    mem,       \* the memory, as PageTables describes it
    proc,      \* the process table, by pid
    promised,  \* the pages that calls have given each process
    lent,      \* frames that a service has asked to share
    left       \* the calls that may still be made: [memory, process]

memVars == <<mem, proc, promised, lent, left>>

Pids == 1 .. MaxPid
NoProc == [st |-> "none", parent |-> 0, root |-> NoFrame, heap_start |-> 0,
           heap_end |-> 0, stack_bottom |-> 0, service |-> FALSE, kstack |-> 0,
           ksize |-> 0]

PageOf(a) == a \div 2
page_align_up(a) == (a + 1) \div 2
Pages(first, last) == [i \in 1 .. last - first + 1 |-> first + i - 1]

Running == {p \in Pids : proc[p].st = "run"}
TableOf(p) == mem.t[proc[p].root]
InCall(p, kind) ==
    /\ p \in Running
    /\ left[kind] > 0
    /\ left' = [left EXCEPT ![kind] = @ - 1]

(* The pages a heap of the model may use.                                   *)
HeapRoom(last) == last < HEAP + MaxHeapPages

(* What a call leaves behind, whether it succeeded or not.                  *)
Leave(m) == mem' = [m EXCEPT !.ok = TRUE, !.root = NoFrame]
Give(p, pages) == promised' = [promised EXCEPT ![p] = @ \cup pages]

(* brk: shrinking moves heap_end and unmaps nothing; growing maps from the  *)
(* first page not mapped yet to the page that holds addr, inclusive.  A     *)
(* page wholly above heap_end is mapped but not promised: mmap and the      *)
(* shared-page calls hand it out again.  (heap_start is never 0 here: when  *)
(* the heap cannot be mapped, exec fails at the TLS block that follows.)    *)
BrkInHeap(p, addr) == addr >= proc[p].heap_start
FirstNewPage(p) ==
    LET end == proc[p].heap_end
    IN  IF page_is_user_mapped_in_table(TableOf(p), Path(PageOf(end)))
        THEN PageOf(end) + 1 ELSE page_align_up(end)
GrowHeap(p, m, pages, end) ==
    /\ Leave(m)
    /\ IF m.ok THEN Give(p, pages) /\ proc' = [proc EXCEPT ![p].heap_end = end]
       ELSE UNCHANGED <<proc, promised>>
brk(p, addr) ==
    /\ InCall(p, "memory")
    /\ HeapRoom(PageOf(addr))
    /\ BrkInHeap(p, addr)
    /\ \/ /\ addr < proc[p].heap_end
          /\ promised' = [promised EXCEPT
                              ![p] = @ \ (page_align_up(addr) .. PageOf(proc[p].heap_end))]
          /\ proc' = [proc EXCEPT ![p].heap_end = addr]
          /\ UNCHANGED mem
       \/ /\ addr > proc[p].heap_end
          /\ GrowHeap(p, map_and_copy_segment_to(mem, proc[p].root,
                                                 Pages(FirstNewPage(p), PageOf(addr)),
                                                 TRUE, FALSE),
                      FirstNewPage(p) .. page_align_up(addr) - 1, addr)
    /\ UNCHANGED lent

(* len pages at the page hint, or above heap_end which then moves past      *)
(* them.  Nothing records a hinted mapping above heap_end, and a later call *)
(* may place its pages there: only pages below heap_end are promised.       *)
StartAt(p, hint) == IF hint # 0 THEN hint ELSE page_align_up(proc[p].heap_end)
EndAfter(p, hint, len) ==
    IF hint # 0 THEN proc[p].heap_end ELSE 2 * (StartAt(p, hint) + len)
RoomFor(p, hint, len) == hint # 0 \/ HeapRoom(StartAt(p, hint) + len)
PlacedPages(p, hint, len) ==
    Pages(StartAt(p, hint), StartAt(p, hint) + len - 1)
GrowAt(p, m, hint, len) ==
    GrowHeap(p, m, {n \in Range(PlacedPages(p, hint, len)) : 2 * n < EndAfter(p, hint, len)},
             EndAfter(p, hint, len))

mmap(p, hint, len) ==
    /\ InCall(p, "memory")
    /\ RoomFor(p, hint, len)
    /\ GrowAt(p, map_and_copy_segment_to(mem, proc[p].root, PlacedPages(p, hint, len),
                                         TRUE, FALSE), hint, len)
    /\ UNCHANGED lent

(* Mutant: munmap takes one page too many.                                  *)
MunmapOneMore(start, len) == Pages(start, start + len)

(* munmap: from the page of addr to the page that holds the last byte.      *)
MunmapPages(start, len) == Pages(start, start + len - 1)
munmap(p, start, len) ==
    /\ InCall(p, "memory")
    /\ Leave(unmap_range_in_table(mem, proc[p].root, MunmapPages(start, len)))
    /\ promised' = [promised EXCEPT ![p] = @ \ (start .. start + len - 1)]
    /\ UNCHANGED <<proc, lent>>

(* mprotect: PROT_NONE takes the pages away, other rights keep them.        *)
mprotect(p, start, len, prot) ==
    /\ InCall(p, "memory")
    /\ Leave(protect_user_range_in_table(mem, proc[p].root, Pages(start, start + len - 1),
                                         prot = "rw", prot = "rx", prot = "none"))
    /\ promised' = IF prot = "none"
                   THEN [promised EXCEPT ![p] = @ \ (start .. start + len - 1)]
                   ELSE promised
    /\ UNCHANGED <<proc, lent>>

(* try_grow_user_stack: the pages from the fault to the stack's bottom; m   *)
(* is the memory with them mapped, or what is left of a failed attempt.     *)
InStackRange(p, page) ==
    /\ page < proc[p].stack_bottom
    /\ page >= proc[p].stack_bottom - MAX_STACK_SIZE
GrowMem(p, page) ==
    IF InStackRange(p, page)
    THEN map_and_copy_segment_to(mem, proc[p].root, Pages(page, proc[p].stack_bottom - 1),
                                 TRUE, FALSE)
    ELSE Fail(mem)
try_grow_user_stack(p, page, m) ==
    /\ m.ok
    /\ Leave(m)
    /\ Give(p, page .. proc[p].stack_bottom - 1)
    /\ proc' = [proc EXCEPT ![p].stack_bottom = page]

(* Placing frames on pages of a process: the part that alloc_shared_pages   *)
(* and map_phys_pages_into_target have in common.  A page that is mapped    *)
(* already gets the new frame.  The answer's ok is FALSE when a page        *)
(* failed; those before it are unmapped.                                    *)
UnmapPages(m, r, pages) ==
    FoldLeft(LAMBDA y, n : unmap_page_in_table(y, r, Path(n)), m, pages)
PlaceFrame(y, r, page, f) ==
    LET Placed(z) == [m |-> z, pages |-> IF z.ok THEN Append(y.pages, page) ELSE y.pages]
    IN  IF y.m.ok THEN Placed(map_page_in_table(y.m, r, Path(page), f, TRUE, TRUE)) ELSE y
UndoPlaced(y, r) == IF y.m.ok THEN y.m ELSE UnmapPages(y.m, r, y.pages)
PlaceFrames(m, r, pages, frames) ==
    UndoPlaced(FoldLeft(LAMBDA y, i : PlaceFrame(y, r, pages[i], frames[i]),
                        [m |-> m, pages |-> <<>>], [i \in DOMAIN frames |-> i]), r)

(* A hint asks for the pages it names, and a call that then fails leaves    *)
(* them unmapped, whatever was there before.                                *)
Forfeit(p, hint, len) ==
    /\ promised' = [promised EXCEPT
                        ![p] = IF hint = 0 THEN @ ELSE @ \ Range(PlacedPages(p, hint, len))]
    /\ UNCHANGED <<proc, lent>>

(* alloc_shared_pages: count frames, mapped at the hint or above heap_end   *)
(* and then written to the buffer on page out (0: no buffer); every failure *)
(* unmaps the pages and releases the frames.                                *)
deallocate_frames(m, frames) == FoldLeft(Release, m, frames)
Shared(p, frames, hint, out, placed) ==
    IF placed.ok /\ (out = 0 \/ copy_to_user_in_table(placed.t[proc[p].root], {out}))
    THEN /\ GrowAt(p, placed, hint, Len(frames))
         /\ lent' = lent \cup Range(frames)
    ELSE /\ Leave(deallocate_frames(IfOk(placed, LAMBDA m :
                       UnmapPages(m, proc[p].root, PlacedPages(p, hint, Len(frames)))),
                   frames))
         /\ Forfeit(p, hint, Len(frames))
ShareFrames(p, got, hint, out) ==
    IF got.m.ok
    THEN Shared(p, got.taken, hint, out,
                PlaceFrames(got.m, proc[p].root, PlacedPages(p, hint, Len(got.taken)), got.taken))
    ELSE Leave(deallocate_frames(got.m, got.taken)) /\ UNCHANGED <<proc, promised, lent>>
alloc_shared_pages(p, count, out, hint) ==
    /\ InCall(p, "memory")
    /\ proc[p].service
    /\ RoomFor(p, hint, count)
    /\ ShareFrames(p, TakeFrames(mem, count), hint, out)

(* map_physical_pages, and ipc_send_pages, which passes no hint: frames the *)
(* caller has mapped appear in the target too.  ipc_send_pages then posts a *)
(* header; when the mailbox is full it fails and the pages stay mapped.     *)
GrowTarget(target, frames, hint, placed) ==
    IF placed.ok
    THEN GrowAt(target, placed, hint, Len(frames)) /\ lent' = lent \cup Range(frames)
    ELSE Leave(placed) /\ Forfeit(target, hint, Len(frames))
map_phys_pages_into_target(p, target, frames, hint) ==
    /\ InCall(p, "memory")
    /\ proc[p].service
    /\ target \in Running
    /\ RoomFor(target, hint, Len(frames))
    /\ \A i \in DOMAIN frames : is_usable_frame_addr(frames[i])
    /\ GrowTarget(target, frames, hint,
                  PlaceFrames(mem, proc[target].root, PlacedPages(target, hint, Len(frames)),
                              frames))

(* unmap_pages: clears the entries; with deallocate it also releases the    *)
(* frames they held, each once.                                             *)
unmap_pages(p, start, count, deallocate) ==
    LET pages == Pages(start, start + count - 1)
        held == {virt_to_phys_in_table(TableOf(p), Path(n)) : n \in Range(pages)} \ {NoFrame}
    IN  /\ InCall(p, "memory")
        /\ proc[p].service
        /\ Leave(FoldSet(LAMBDA f, y : Release(y, f), UnmapPages(mem, proc[p].root, pages),
                         IF deallocate THEN held ELSE {}))
        /\ promised' = [promised EXCEPT ![p] = @ \ Range(pages)]
        /\ UNCHANGED <<proc, lent>>

(* map_physical_range and map_framebuffer: device frames above heap_end,    *)
(* which moves only on success; pages mapped before a failure stay.         *)
MapDevice(p, first, count) ==
    LET start == page_align_up(proc[p].heap_end)
    IN  /\ InCall(p, "memory")
        /\ HeapRoom(start + count)
        /\ GrowHeap(p, map_physical_range_to_user(mem, proc[p].root,
                                                  Pages(start, start + count - 1),
                                                  Pages(first, first + count - 1)),
                    start .. start + count - 1, 2 * (start + count))
        /\ UNCHANGED lent
map_physical_range(p, first, count) ==
    /\ proc[p].service
    /\ is_allowed_mmio_range(first, count)
    /\ MapDevice(p, first, count)
map_framebuffer(p) == MapDevice(p, FramebufferFrame, 1)

=============================================================================
