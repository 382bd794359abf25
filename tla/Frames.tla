------------------------------- MODULE Frames -------------------------------
(* The physical frame allocator (mem/frame.rs).  Frames are numbered.  The  *)
(* free list is threaded through the free frames; it is a stack here, and a *)
(* frame released twice is on it twice (the real list then has a cycle:     *)
(* either way the frame is handed out again while it is in use).            *)
(* An allocator is a value that the operators below take and return: every  *)
(* operation runs under the FRAME_ALLOCATOR lock of a single CPU.           *)
EXTENDS Integers, FiniteSets, Sequences

CONSTANT
    MemoryMap    \* the loader's map: regions [start, len, type], in frames

MemoryTypes == {"Usable", "Reserved", "AcpiNvs", "Framebuffer",
                "AcpiReclaimable", "BootloaderReclaimable", "BadMemory",
                "KernelStack", "PageTable"}

RegionEnd(r) == r.start + r.len - 1
RegionFrames(r) == r.start .. RegionEnd(r)
MapRegions == {MemoryMap[i] : i \in DOMAIN MemoryMap}

(* Physical frames are 1 .. MaxFrame; 0 stands for "no frame".              *)
MaxFrame == CHOOSE n \in {RegionEnd(r) : r \in MapRegions} :
                \A r \in MapRegions : RegionEnd(r) <= n
AllFrames == 1 .. MaxFrame
NoFrame == 0

UsableFrames == UNION {RegionFrames(r) : r \in {x \in MapRegions : x.type = "Usable"}}
is_usable_frame_addr(f) == f \in UsableFrames

(* BitmapFrameAllocator::new and set_phys_offset.  offset is the address    *)
(* at which physical memory is mapped, limit the last frame of the machine. *)
NewAllocator(offset, limit) ==
    [next_frame |-> 1, free |-> <<>>, phys_offset |-> offset, limit |-> limit]

(* The frames the bump pointer has still to pass.                           *)
BumpFrames(a) == {f \in UsableFrames : a.next_frame <= f /\ f <= a.limit}

(* allocate_frame: the head of the free list, else the bump pointer.  The   *)
(* answer is [frame, a]; frame = NoFrame is None.                           *)
allocate_frame(a) ==
    IF a.free # <<>> /\ a.phys_offset # 0
    THEN [frame |-> Head(a.free), a |-> [a EXCEPT !.free = Tail(@)]]
    ELSE LET left == BumpFrames(a)
             f == CHOOSE f \in left : \A g \in left : f <= g
         IN  IF left = {} THEN [frame |-> NoFrame, a |-> a]
             ELSE [frame |-> f, a |-> [a EXCEPT !.next_frame = f + 1]]

(* deallocate_frame: false, and nothing done, for a frame that is not       *)
(* usable memory and while physical memory is mapped at address 0.  Nothing *)
(* is checked about the frame being free already.                           *)
deallocate_frame(a, f) ==
    IF ~is_usable_frame_addr(f) \/ a.phys_offset = 0 THEN a
    ELSE [a EXCEPT !.free = <<f>> \o @]

(* What allocate_frame can still hand out.                                  *)
Available(a) ==
    BumpFrames(a) \cup (IF a.phys_offset = 0 THEN {} ELSE {a.free[i] : i \in DOMAIN a.free})

mmio_region_type_allowed(t) == t \in {"Reserved", "AcpiNvs", "Framebuffer"}

(* Mutant: only the first page of the range is looked at.                   *)
first_page_allowed(start, size) ==
    \A r \in MapRegions : start \in RegionFrames(r) => mmio_region_type_allowed(r.type)

(* is_allowed_mmio_range on frames: nothing refused is touched, and the     *)
(* range lies in one region or outside every region.                        *)
is_allowed_mmio_range(start, size) ==
    LET last == start + size - 1
        touched == {r \in MapRegions : r.len > 0 /\ start <= RegionEnd(r)
                                                 /\ last >= r.start}
    IN  /\ size > 0
        /\ \A r \in touched : mmio_region_type_allowed(r.type)
        /\ \/ touched = {}
           \/ \E r \in touched : start >= r.start /\ last <= RegionEnd(r)

=============================================================================
