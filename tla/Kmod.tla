------------------------------- MODULE Kmod -------------------------------
(* Loading of the kernel modules of /Modules (kmod/mod.rs): the checks of a *)
(* .cext package, the placing of its ELF image above the images loaded so   *)
(* far, the relocations, and the registration of the operation table.  A    *)
(* step is one file of the sorted directory.  An address counts 64-bit      *)
(* words.  RELATIVE relocations lie in writable segments of ET_DYN images,  *)
(* where the linker puts them.                                              *)
EXTENDS Integers, Sequences, TLC, SequencesExt, FiniteSetsExt

CONSTANTS CextFiles,     \* contents a file of /Modules may have
          NCext,         \* number of files
          PAGE,          \* words of a page (512)
          FIXED,         \* CEXT_FIXED_HEADER_SIZE (32)
          LOAD_START,    \* MODULE_LOAD_BASE_START
          LOAD_GUARD,    \* MODULE_LOAD_GUARD, in words
          Frames0        \* free frames when loading starts

VARIABLES todo,          \* files that are still to be loaded
          kimage,        \* mapped words and page flags, free frames, the
                         \* next load base, whether the call succeeded,
                         \* the image being loaded and, by page, the last
                         \* image that was copied there
          modules        \* registered modules
kmodVars == <<todo, kimage, modules>>

NoCode == -1
NoSymbol == -1
\* Images are told apart by how many files were still to be loaded.
Img(file, dyn) == [file |-> file, dyn |-> dyn]

KmodInit ==
    /\ todo \in UNION {[1..n -> CextFiles] : n \in 0..NCext}
    /\ kimage = [word |-> <<>>, flags |-> <<>>, frames |-> Frames0,
                 next |-> LOAD_START, ok |-> TRUE,
                 img |-> Img(0, TRUE), by |-> <<>>]
    /\ modules = <<>>

parse_header(f) ==
    f.len >= FIXED /\ f.magic /\ f.abi = 1 /\ f.header_size >= FIXED

\* names is what the name and the dependencies take; they are inside the
\* file when they end where the header does.
parse_cext(f) ==
    /\ parse_header(f)
    /\ f.header_size <= f.len
    /\ FIXED + f.names = f.header_size
    /\ f.header_size + f.elf_size <= f.len

missing_dep(f) == "disk" \in f.deps /\ "disk" \notin DOMAIN modules

-----------------------------------------------------------------------------
PageWords(p) == p * PAGE .. p * PAGE + PAGE - 1
FileEnd(g, bias) == g.vaddr + bias + Len(g.data)
MemEnd(g, bias) == g.vaddr + bias + g.memsz

\* What a word of a segment's page holds after the copy and the zeroing.
Filled(k, g, bias, a) ==
    IF a \in g.vaddr + bias .. FileEnd(g, bias) - 1 THEN g.data[a - g.vaddr - bias + 1]
    ELSE IF a \in FileEnd(g, bias) .. MemEnd(g, bias) - 1 THEN 0
    ELSE IF a \in DOMAIN k.word THEN k.word[a] ELSE NoCode

\* A page that an earlier segment mapped keeps its frame and takes the
\* flags of this one.
map_segment_page(k, g, bias, p) ==
    LET fresh == p \notin DOMAIN k.flags
    IN  IF ~k.ok \/ (fresh /\ k.frames = 0) THEN [k EXCEPT !.ok = FALSE]
        ELSE [k EXCEPT !.frames = IF fresh THEN @ - 1 ELSE @,
                       !.flags = (p :> [w |-> g.w, x |-> g.x]) @@ @,
                       !.by = (p :> k.img) @@ @,
                       !.word = [a \in PageWords(p) |-> Filled(k, g, bias, a)] @@ @]

map_and_copy_segment(k, g, bias) ==
    LET first == (g.vaddr + bias) \div PAGE
        last == (MemEnd(g, bias) - 1) \div PAGE
    IN  FoldLeft(LAMBDA y, i : map_segment_page(y, g, bias, first + i - 1),
                 k, [i \in 1 .. last - first + 1 |-> i])

-----------------------------------------------------------------------------
Loads(elf) == SelectSeq(elf.segs, LAMBDA g : g.memsz # 0)
MinVaddr(elf) == Min({g.vaddr : g \in ToSet(Loads(elf))})
MaxVaddr(elf) == Max({g.vaddr + g.memsz : g \in ToSet(Loads(elf))})

align_up_4k(v) == ((v + PAGE - 1) \div PAGE) * PAGE

\* As if the load base moved only past the whole pages of the span.
step_rounded_down(span) == (span \div PAGE) * PAGE

module_step(span) == align_up_4k(span) + LOAD_GUARD

Span(elf) == MaxVaddr(elf) - MinVaddr(elf)
Base(k, elf) == IF elf.dyn THEN k.next ELSE 0
Bias(k, elf) == IF elf.dyn THEN k.next - MinVaddr(elf) ELSE 0

\* A segment that is larger in the file than in memory, or that the file
\* does not hold, ends the load; what was mapped before it stays mapped.
load_segment(k, g, bias) ==
    IF Len(g.data) > g.memsz \/ ~g.inside THEN [k EXCEPT !.ok = FALSE]
    ELSE map_and_copy_segment(k, g, bias)

load_elf_image(k, elf) ==
    IF Loads(elf) = <<>> THEN [k EXCEPT !.ok = FALSE]
    ELSE FoldLeft(LAMBDA y, g : IF y.ok THEN load_segment(y, g, Bias(k, elf)) ELSE y,
                  IF elf.dyn THEN [k EXCEPT !.next = @ + module_step(Span(elf))] ELSE k,
                  Loads(elf))

apply_relocation(k, r, base, min, max) ==
    IF ~k.ok \/ ~r.relative THEN k
    ELSE IF r.offset < min \/ r.offset + 1 > max \/ base + r.addend - min < 0
    THEN [k EXCEPT !.ok = FALSE]
    ELSE [k EXCEPT !.word = (base + r.offset - min :> base + r.addend - min) @@ @]

apply_relocations(k, elf, base) ==
    FoldLeft(LAMBDA y, r : apply_relocation(y, r, base, MinVaddr(elf), MaxVaddr(elf)),
             k, elf.relas)

find_symbol_runtime_addr(elf, base) ==
    IF elf.init = NoSymbol THEN NoSymbol
    ELSE IF base = 0 THEN elf.init
    ELSE base + elf.init - MinVaddr(elf)

\* The state after load_elf_symbol; ok says whether the symbol was found.
load_elf_symbol(k, elf) ==
    LET loaded == load_elf_image(k, elf)
        moved == apply_relocations(loaded, elf, Base(k, elf))
    IN  IF ~elf.header THEN [k EXCEPT !.ok = FALSE]
        ELSE IF ~loaded.ok THEN loaded
        ELSE [moved EXCEPT !.ok = @ /\ elf.init # NoSymbol]

\* init returns the operation table, or null; fs::register also refuses a
\* table with a missing entry.
register(f, k, elf, moved) ==
    IF ~moved.ok \/ elf.table = "null" \/ (f.name = "fs" /\ elf.table = "partial")
    THEN modules
    ELSE (f.name :> [elf |-> elf, bias |-> Bias(k, elf), version |-> f.version, img |-> moved.img,
                     entry |-> find_symbol_runtime_addr(elf, Base(k, elf))]) @@ modules

\* One file of load_modules.
load_module ==
    /\ todo # <<>>
    /\ todo' = Tail(todo)
    /\ LET f == Head(todo)
           moved == load_elf_symbol([kimage EXCEPT !.img = Img(Len(todo), f.elf.dyn)], f.elf)
       IN  IF ~f.readable \/ ~parse_cext(f) \/ missing_dep(f) \/ f.name \notin {"disk", "fs"}
           THEN UNCHANGED <<kimage, modules>>
           ELSE /\ kimage' = [moved EXCEPT !.ok = TRUE]
                /\ modules' = register(f, kimage, f.elf, moved)

KmodNext == load_module

-----------------------------------------------------------------------------
\* What the linker promised for a word of a segment placed at a bias.
Linked(elf, g, va, bias) ==
    LET here == {r \in ToSet(elf.relas) : r.relative /\ r.offset = va}
    IN  IF here # {} THEN bias + (CHOOSE r \in here : TRUE).addend
        ELSE IF va - g.vaddr < Len(g.data) THEN g.data[va - g.vaddr + 1] ELSE 0

(* Whatever files load after it, and however their loading fails, every     *)
(* word of a registered module is the one its package holds, relocated to   *)
(* where the module is, and its pages keep their permissions, on every page *)
(* where no later image was copied.  A later image is copied over it only   *)
(* if one of the two is ET_EXEC: load_elf_image puts such an image at its   *)
(* link address whatever is there, and map_and_copy_segment reuses mapped   *)
(* pages.  Two ET_DYN images, and their relocations, never touch each       *)
(* other.  The address called as init is in an executable segment.          *)
ModulesIntact ==
    \A n \in DOMAIN modules :
        LET m == modules[n]
        IN  \A g \in ToSet(Loads(m.elf)) : \A va \in g.vaddr .. g.vaddr + g.memsz - 1 :
                LET a == va + m.bias
                    by == kimage.by[a \div PAGE]
                IN  /\ a \in DOMAIN kimage.word
                    /\ m.entry = a => g.x
                    /\ IF by.file # m.img.file THEN ~by.dyn \/ ~m.img.dyn
                       ELSE /\ kimage.word[a] = Linked(m.elf, g, va, m.bias)
                            /\ kimage.flags[a \div PAGE] = [w |-> g.w, x |-> g.x]
=============================================================================
