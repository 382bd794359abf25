----------------------------- MODULE PageTables -----------------------------
(* The four-level page tables of processes (mem/paging.rs).                 *)
(* A table is a trie: a function from paths (sequences of one to four       *)
(* indices) to entries [frame, flags]; a path outside its domain is an      *)
(* unused entry.  m is the memory that one call works on:                   *)
(*   m.a    the frame allocator           m.t    the tables, by root frame  *)
(*   m.win  the root mapped at the temporary kernel window, or NoFrame      *)
(*   m.kt   the kernel-table frames the window has needed so far            *)
(*   m.huge the firmware maps low memory with 2 MiB entries                 *)
(*   m.root the table that create_user_page_table has just made             *)
(*   m.ok   FALSE once a step of the call failed: later steps do nothing    *)
(* Every call below is made by one system call with no yield inside.        *)
EXTENDS Frames, FiniteSetsExt, TLC

(* op over the elements of seq from the first to the last, from base on.   *)
FoldLeft(op(_, _), base, seq) ==
    MapThenFoldSet(LAMBDA x, y : op(y, x), base, LAMBDA i : seq[i], Max, DOMAIN seq)

CONSTANT
    Path(_)      \* the four indices of a page number

Flags == {"P", "W", "U", "NX", "H"}
Entry(f, flags) == [frame |-> f, flags |-> flags]
Fail(m) == [m EXCEPT !.ok = FALSE]
TablesOf(v) == [i \in 1 .. 3 |-> SubSeq(v, 1, i)]
OnPath(p) == {SubSeq(p, 1, i) : i \in 1 .. Len(p)}

Has(T, p, flags) == p \in DOMAIN T /\ flags \subseteq T[p].flags
SetEntry(m, r, p, e) == [m EXCEPT !.t[r] = (p :> e) @@ m.t[r]]
DropEntries(m, r, P) ==
    [m EXCEPT !.t[r] = [p \in DOMAIN m.t[r] \ P |-> m.t[r][p]]]

(* A memory with ok = FALSE is an Err: the code returns it with ?, or first *)
(* undoes what it has done.                                                 *)
IfOk(m, rest(_)) == IF m.ok THEN rest(m) ELSE m
OrElse(m, undo(_)) == IF m.ok THEN m ELSE undo(m)

(* FRAME_ALLOCATOR.lock().allocate_frame(), and the error its None leads to.*)
UseFrame(m, got, rest(_, _)) ==
    IF got.frame = NoFrame THEN Fail(m) ELSE rest([m EXCEPT !.a = got.a], got.frame)
WithFrame(m, rest(_, _)) == UseFrame(m, allocate_frame(m.a), rest)

(* Frames taken one after the other; those taken before a failure are kept. *)
AddTaken(y, got) ==
    IF got.frame = NoFrame THEN [y EXCEPT !.m = Fail(@)]
    ELSE [m |-> [y.m EXCEPT !.a = got.a], taken |-> Append(y.taken, got.frame)]
TakeFrames(m, count) ==
    FoldLeft(LAMBDA y, i : IF y.m.ok THEN AddTaken(y, allocate_frame(y.m.a)) ELSE y,
             [m |-> m, taken |-> <<>>], [i \in 1 .. count |-> i])
Release(m, f) == [m EXCEPT !.a = deallocate_frame(m.a, f)]

(* user_page_flags_in_table / page_is_user_mapped_in_table: PRESENT and     *)
(* USER at every level.                                                     *)
page_is_user_mapped_in_table(T, v) ==
    \A p \in OnPath(v) : Has(T, p, {"P", "U"})

(* is_user_range_mapped_in_table and copy_to_user_in_table: the first is    *)
(* what validate_user_ptr asks, the second also needs WRITABLE pages.       *)
is_user_range_mapped_in_table(T, pages) ==
    \A n \in pages : page_is_user_mapped_in_table(T, Path(n))
copy_to_user_in_table(T, pages) ==
    \A n \in pages : page_is_user_mapped_in_table(T, Path(n)) /\ Has(T, Path(n), {"W"})

(* translate_addr_in_table and virt_to_phys_in_table: PRESENT suffices.     *)
virt_to_phys_in_table(T, v) ==
    IF \A p \in OnPath(v) : Has(T, p, {"P"}) THEN T[v].frame ELSE NoFrame

(* create_user_page_table: the L4, an L3 and a copy of the kernel's first   *)
(* L2, then a second L2 that takes its place (the first is dropped), and an *)
(* L1 for the program's 2 MiB at L2[4].  A failure half way keeps what was  *)
(* taken.                                                                   *)
LowTable(f, huge) ==
    (<<0>> :> Entry(f[2], {"P", "W"})) @@ (<<0, 0>> :> Entry(f[4], {"P", "W"}))
    @@ (<<0, 0, 4>> :> Entry(f[5], {"P", "W", "U"}))
    @@ (IF huge THEN <<0, 0, 384>> :> Entry(NoFrame, {"P", "W", "H"}) ELSE <<>>)
TableFrom(got) ==
    IfOk(got.m, LAMBDA m : [m EXCEPT !.t = (got.taken[1] :> LowTable(got.taken, m.huge)) @@ @,
                                     !.root = got.taken[1]])
create_user_page_table(m) == IfOk(m, LAMBDA y : TableFrom(TakeFrames(y, 5)))

(* ensure_user_page_table_hierarchy: missing tables are made, a 2 MiB entry *)
(* is replaced by an empty L1, existing entries become PRESENT, WRITABLE,   *)
(* USER and executable.                                                     *)
EnsureLevel(m, r, p) ==
    IF ~m.ok THEN m
    ELSE IF p \notin DOMAIN m.t[r] \/ (Len(p) = 3 /\ Has(m.t[r], p, {"H"}))
    THEN WithFrame(m, LAMBDA y, f : SetEntry(y, r, p, Entry(f, {"P", "W", "U"})))
    ELSE [m EXCEPT !.t[r][p].flags = (@ \cup {"P", "W", "U"}) \ {"NX"}]
ensure_user_page_table_hierarchy(m, r, v) ==
    FoldLeft(LAMBDA x, p : EnsureLevel(x, r, p), m, TablesOf(v))

(* The page flags of a segment: PRESENT and USER, NX unless executable.     *)
SegmentFlags(w, x) ==
    {"P", "U"} \cup (IF w THEN {"W"} ELSE {}) \cup (IF x THEN {} ELSE {"NX"})

(* One page of map_and_copy_segment_to: a fresh frame for an unused entry   *)
(* or in place of a page without USER; a page the user already has keeps    *)
(* its frame, and its being executable, unless W and X would meet.          *)
SegmentPage(m, r, v, w, x, f, T, wasX) ==
    LET merged == SegmentFlags(w, x) \ (IF wasX THEN {"NX"} ELSE {})
    IN  IF ~Has(T, v, {"U"}) THEN SetEntry(m, r, v, Entry(f, merged))
        ELSE IF (wasX /\ w) \/ ("W" \in T[v].flags /\ x) THEN Fail(Release(m, f))
        ELSE Release(SetEntry(m, r, v, Entry(T[v].frame, merged)), f)
WasExecutable(T, v) == v \in DOMAIN T /\ "NX" \notin T[v].flags
MapSegmentPage(m, r, v, w, x) ==
    IfOk(ensure_user_page_table_hierarchy(m, r, v),
         LAMBDA y : WithFrame(y, LAMBDA z, f : SegmentPage(z, r, v, w, x, f, z.t[r],
                                                           WasExecutable(z.t[r], v))))

(* The temporary window: map_to in the kernel's table, which refuses a page *)
(* that is mapped and takes the intermediate tables the first time.         *)
OpenWindow(m, r) ==
    IF m.win # NoFrame THEN Fail(m)
    ELSE IfOk(FoldLeft(LAMBDA x, i :
                  IfOk(x, LAMBDA y : WithFrame(y, LAMBDA z, f : [z EXCEPT !.kt = @ \cup {f}])),
                  m, [i \in 1 .. 3 - Cardinality(m.kt) |-> i]),
              LAMBDA y : [y EXCEPT !.win = r])

(* map_and_copy_segment_to over the ascending pages of a segment.  The      *)
(* window is unmapped at the end only: an error on the way leaves it.       *)
SegmentTables(m, r, pages) ==
    FoldLeft(LAMBDA y, n : ensure_user_page_table_hierarchy(y, r, Path(n)),
             m, <<pages[1], pages[Len(pages)]>>)
map_and_copy_segment_to(m, r, pages, w, x) ==
    IF ~m.ok THEN m
    ELSE IF w /\ x THEN Fail(m)
    ELSE IF pages = <<>> THEN m
    ELSE IfOk(FoldLeft(LAMBDA y, n : MapSegmentPage(y, r, Path(n), w, x),
                       SegmentTables(OpenWindow(m, r), r, pages), pages),
              LAMBDA y : [y EXCEPT !.win = NoFrame])

(* unmap_range_in_table: the user pages of the range, each released.        *)
unmap_range_in_table(m, r, pages) ==
    FoldLeft(LAMBDA y, n :
                 IF page_is_user_mapped_in_table(y.t[r], Path(n))
                 THEN Release(DropEntries(y, r, {Path(n)}), y.t[r][Path(n)].frame)
                 ELSE y, m, pages)

(* protect_user_range_in_table: page by page; a hole stops it half way.     *)
(* PROT_NONE drops PRESENT and USER, and the frame stays in the entry.      *)
ProtectPage(m, r, v, w, x, none) ==
    LET new == IF none THEN {} ELSE SegmentFlags(w, x)
    IN  IF ~m.ok THEN m
        ELSE IF ~page_is_user_mapped_in_table(m.t[r], v) THEN Fail(m)
        ELSE [m EXCEPT !.t[r][v].flags = new]
protect_user_range_in_table(m, r, pages, w, x, none) ==
    IF w /\ x THEN Fail(m)
    ELSE FoldLeft(LAMBDA y, n : ProtectPage(y, r, Path(n), w, x, none), m, pages)

(* Mutant: the tables are destroyed, the pages are not.                     *)
UserTables(T) ==
    {p \in DOMAIN T : Len(p) < 4 /\ \A q \in OnPath(p) : Has(T, q, {"P", "U"})}

(* destroy_user_page_table: every page and table reached through PRESENT    *)
(* and USER entries, then the L4; entries without USER stay behind.  A root *)
(* that was destroyed before only gives its own frame back.  The order in   *)
(* which frames join the free list is immaterial: they are interchangeable. *)
UserReachable(T) ==
    {p \in DOMAIN T : \A q \in OnPath(p) : Has(T, q, {"P", "U"})}
destroy_user_page_table(m, r) ==
    LET T == m.t[r]
        freed == IF r \in DOMAIN m.t
                 THEN {p \in UserReachable(T) : "H" \notin T[p].flags} ELSE {}
        emptied == FoldSet(LAMBDA p, y : Release(y, T[p].frame), m, freed)
    IN  Release([emptied EXCEPT !.t = [q \in DOMAIN m.t \ {r} |-> m.t[q]]], r)

(* One page of clone_user_page_table: a fresh frame, then map_to in the new *)
(* table, which adds tables as needed and refuses to go through a 2 MiB     *)
(* entry; the frame it was to map is then lost.                             *)
MapToLevel(m, r, p, flags) ==
    IF ~m.ok THEN m
    ELSE IF p \in DOMAIN m.t[r]
    THEN [m EXCEPT !.t[r][p].flags = @ \cup flags, !.ok = "H" \notin m.t[r][p].flags]
    ELSE WithFrame(m, LAMBDA y, f : SetEntry(y, r, p, Entry(f, flags)))
map_to(m, r, v, f, flags) ==
    IfOk(FoldLeft(LAMBDA y, p : MapToLevel(y, r, p, flags \cap {"P", "W", "U"}),
                  m, TablesOf(v)),
         LAMBDA y : IF v \in DOMAIN y.t[r] THEN Fail(y) ELSE SetEntry(y, r, v, Entry(f, flags)))

(* Mutant: the copy of a page becomes executable.                           *)
CloneFlagsWithoutNX(flags) == {"P", "U"} \cup (flags \cap {"W"})

CloneFlags(flags) == {"P", "U"} \cup (flags \cap {"W", "NX"})

(* One page of clone_user_page_table.  The new table has no page at v yet:  *)
(* the branch for one that is there, which unmaps it and then locks the     *)
(* frame allocator while it holds that lock, is not taken.                  *)
ClonePage(m, dst, v, flags) ==
    IfOk(m, LAMBDA y :
        WithFrame(y, LAMBDA z, f : map_to(z, dst, v, f, CloneFlags(flags))))

(* The user pages of a table.                                               *)
UserPages(T) == {p \in DOMAIN T : Len(p) = 4 /\ page_is_user_mapped_in_table(T, p)}

(* clone_user_page_table: a new table with a copy of every user page; on a  *)
(* failure DstTableGuard destroys what was built.                           *)
ClonePages(m, dst, T) ==
    FoldSet(LAMBDA p, y : ClonePage(y, dst, p, T[p].flags), m, UserPages(T))
clone_user_page_table(m, src) ==
    IfOk(create_user_page_table(m), LAMBDA made :
        OrElse(ClonePages(made, made.root, made.t[src]),
               LAMBDA y : Fail(destroy_user_page_table(y, made.root))))

(* map_page_in_table: missing tables are made without regard to NX, an      *)
(* existing last-level entry is overwritten; 2 MiB entries are refused.     *)
PageLevel(m, r, p, uf) ==
    IF ~m.ok THEN m
    ELSE IF ~Has(m.t[r], p, {"P"})
    THEN WithFrame(m, LAMBDA y, f : SetEntry(y, r, p, Entry(f, {"P", "W"} \cup uf)))
    ELSE IF Has(m.t[r], p, {"H"}) THEN Fail(m)
    ELSE [m EXCEPT !.t[r][p].flags = @ \cup uf]
map_page_in_table(m, r, v, f, w, u) ==
    LET uf == IF u THEN {"U"} ELSE {}
    IN  IfOk(FoldLeft(LAMBDA y, p : PageLevel(y, r, p, uf), m, TablesOf(v)),
             LAMBDA y : SetEntry(y, r, v, Entry(f, {"P"} \cup uf \cup (IF w THEN {"W"} ELSE {}))))

(* unmap_page_in_table: clears the entry, releases nothing.                 *)
unmap_page_in_table(m, r, v) == DropEntries(m, r, {v})

(* map_physical_range_to_user: map_to page by page; a page that is mapped   *)
(* is unmapped (its frame dropped) and mapped again.                        *)
DeviceFlags == {"P", "W", "U", "NX"}
MapPhysicalPage(m, r, v, f) ==
    IF ~m.ok THEN m
    ELSE OrElse(map_to(m, r, v, f, DeviceFlags), LAMBDA y :
             IF Has(m.t[r], v, {"P"})
             THEN map_to(DropEntries(m, r, {v}), r, v, f, DeviceFlags) ELSE y)
map_physical_range_to_user(m, r, pages, frames) ==
    FoldLeft(LAMBDA y, i : MapPhysicalPage(y, r, Path(pages[i]), frames[i]),
             m, [i \in 1 .. Len(pages) |-> i])

=============================================================================
