-------------------------------- MODULE Ext2 --------------------------------
(***************************************************************************)
(* The three readers of ext2 images.                                       *)
(*   boot_*  core/init/fs.rs: the images the boot loader left in memory    *)
(*   fs_*    modules/fs/src/main.rs: the kernel module that reads the disk *)
(*           through a block, an inode and a path cache, with              *)
(*           core/kmod/fs.rs as its caller                                 *)
(*   svc_*   services/fs/src/ext2/mod.rs: the file service                 *)
(* An image is a record of inodes and blocks.  A block is read as units    *)
(* (the bytes of a file, the PTRS numbers of a pointer block) or as        *)
(* directory entries.  Block number 0 is a hole.                           *)
(***************************************************************************)
EXTENDS Integers, Sequences, SequencesExt

CONSTANTS BLOCK_SIZE, PTRS, NDIR,   \* NDIR is 12
          CHUNK,                    \* bytes read_all asks for at a time
          BLOCK_CACHE_SLOTS, INODE_CACHE_SLOTS, PATH_CACHE_SLOTS,
          Drives,                   \* drive number -> image
          BootImages,               \* <<rootfs, initfs>>
          FilePaths,                \* paths asked for, sequences of names
          Faults,                   \* blocks that may fail, 0 for none
          Offsets, Lengths,         \* ranges asked for
          Ext2Steps

VARIABLES fsc,      \* mounted drive and caches of the module
          reply,   \* the last call and what it returned
          ext2left
ext2Vars == <<fsc, reply, ext2left>>

NoNum == -1
ROOT_INO == 2
NoAnswer == [by |-> "none", path |-> <<>>, off |-> 0, len |-> 0, ok |-> FALSE, data |-> <<>>,
             list |-> <<>>]
Shorter(a, b) == IF a < b THEN a ELSE b
div_ceil(a, b) == (a + b - 1) \div b

(***************************************************************************)
(* The contents of a file, holes being zero: what every reader is held to. *)
(***************************************************************************)
Ptr(img, b, i) == IF b = 0 THEN 0 ELSE img.blk[b].units[i + 1]
BlockOf(img, n, bi) ==
    LET i == bi - NDIR
        j == i - PTRS
        ino == img.inodes[n]
    IN  IF bi < NDIR THEN ino.blocks[bi + 1]
        ELSE IF i < PTRS THEN Ptr(img, ino.blocks[NDIR + 1], i)
        ELSE Ptr(img, Ptr(img, ino.blocks[NDIR + 2], j \div PTRS), j % PTRS)
Contents(img, n) ==
    [k \in 1 .. img.inodes[n].size |->
        LET b == BlockOf(img, n, (k - 1) \div BLOCK_SIZE)
        IN  IF b = 0 THEN 0 ELSE img.blk[b].units[((k - 1) % BLOCK_SIZE) + 1]]

(***************************************************************************)
(* core/init/fs.rs                                                         *)
(***************************************************************************)
data_block_number(img, n, bi) ==
    LET i == bi - NDIR
        j == i - PTRS
        ino == img.inodes[n]
    IN  IF bi < NDIR THEN ino.blocks[bi + 1]
        ELSE IF i < PTRS THEN (IF ino.blocks[NDIR + 1] = 0 THEN NoNum
                               ELSE img.blk[ino.blocks[NDIR + 1]].units[i + 1])
        ELSE IF j < PTRS * PTRS /\ ino.blocks[NDIR + 2] # 0
             THEN LET l1 == img.blk[ino.blocks[NDIR + 2]].units[(j \div PTRS) + 1]
                  IN  IF l1 = 0 THEN NoNum ELSE img.blk[l1].units[(j % PTRS) + 1]
        ELSE NoNum

Zeros(n) == [i \in 1 .. n |-> 0]

\* <<ok, data>> after the blocks before bi; a hole reads as zeros.
AppendBlock(img, acc, b, want) ==
    IF ~acc[1] \/ b = NoNum THEN <<FALSE, <<>>>>
    ELSE <<TRUE, acc[2] \o (IF b = 0 THEN Zeros(want) ELSE SubSeq(img.blk[b].units, 1, want))>>

BlockIndexes(ino) == [i \in 1 .. div_ceil(ino.size, BLOCK_SIZE) |-> i - 1]

read_inode_data(img, n) ==
    FoldLeft(LAMBDA acc, bi : AppendBlock(img, acc, data_block_number(img, n, bi),
                                          Shorter(BLOCK_SIZE, img.inodes[n].size - Len(acc[2]))),
             <<TRUE, <<>>>>, BlockIndexes(img.inodes[n]))

\* The entries of a directory in order, up to its size, a hole or a block
\* number that cannot be found.
AppendEntries(img, acc, b) ==
    IF acc[1] # "more" THEN acc
    ELSE CASE b = NoNum -> <<"failed", acc[2]>>
           [] b = 0 -> <<"hole", acc[2]>>
           [] OTHER -> <<"more", acc[2] \o img.blk[b].entries>>
DirScan(img, n) ==
    FoldLeft(LAMBDA acc, bi : AppendEntries(img, acc, data_block_number(img, n, bi)),
             <<"more", <<>>>>, BlockIndexes(img.inodes[n]))
DirEntriesOf(img, n) == DirScan(img, n)[2]

\* The inode of a name, or NoNum.
Named(entries, name) ==
    LET found == SelectSeq(entries, LAMBDA e : e.ino # 0 /\ e.name = name)
    IN  IF found = <<>> THEN NoNum ELSE found[1].ino

find_inode_in_dir(img, n, name) ==
    IF img.inodes[n].dir THEN Named(DirEntriesOf(img, n), name) ELSE NoNum

Walk(img, path) ==
    FoldLeft(LAMBDA n, name : IF n = NoNum THEN NoNum ELSE find_inode_in_dir(img, n, name), ROOT_INO, path)

Special == {".", ".."}

DataOf(img, n) ==
    IF n # NoNum /\ ~img.inodes[n].dir THEN read_inode_data(img, n) ELSE <<FALSE, <<>>>>
read_path_in(img, path) ==
    IF path = <<>> \/ (\E i \in DOMAIN path : path[i] \in Special) THEN <<FALSE, <<>>>>
    ELSE DataOf(img, Walk(img, path))

\* The images are searched in order.
boot_read(path) ==
    FoldLeft(LAMBDA r, img : IF r[1] THEN r ELSE read_path_in(img, path), <<FALSE, <<>>>>, BootImages)

Plain(path) == SelectSeq(path, LAMBDA name : name \notin Special)

file_metadata_in(img, path) ==
    IF path # <<>> /\ path # <<".">> /\ Last(path) \in Special THEN NoNum ELSE Walk(img, Plain(path))

Listed(entries) == SelectSeq(entries, LAMBDA e : e.ino # 0 /\ e.name \notin Special)

ListOf(img, n) ==
    IF n = NoNum \/ ~img.inodes[n].dir \/ DirScan(img, n)[1] = "failed" THEN <<FALSE, <<>>>>
    ELSE <<TRUE, Listed(DirEntriesOf(img, n))>>
readdir_path_in(img, path) == ListOf(img, Walk(img, Plain(path)))

(***************************************************************************)
(* modules/fs: caches.  A cache is a sequence of slots filled in turn.     *)
(***************************************************************************)
EmptySlot(key, val) == [valid |-> FALSE, drive |-> 0, key |-> key, val |-> val]
EmptyCache(n, key, val) == [slots |-> [i \in 1 .. n |-> EmptySlot(key, val)], cursor |-> 0]
NoBlock == [units |-> Zeros(BLOCK_SIZE), entries |-> <<>>]
NoInode == [dir |-> FALSE, size |-> 0, blocks |-> <<>>]
NoMounted == [drive |-> NoNum, block |-> EmptyCache(BLOCK_CACHE_SLOTS, 0, NoBlock),
              inode |-> EmptyCache(INODE_CACHE_SLOTS, 0, NoInode),
              path |-> EmptyCache(PATH_CACHE_SLOTS, <<>>, NoNum)]

reset_caches(drive) == [NoMounted EXCEPT !.drive = drive]

\* kinit mounts once, before any call: the first drive whose superblock is
\* read and is ext2's, or none when the sixteen rounds have failed.
probe_ext2_drive == DOMAIN Drives
fs_mount == \E d \in probe_ext2_drive \cup {NoNum} : fsc = reset_caches(d)
Ext2Init == /\ fs_mount
            /\ reply = NoAnswer
            /\ ext2left = Ext2Steps

cache_slots(c, drive, key) ==
    {i \in DOMAIN c.slots : c.slots[i].valid /\ c.slots[i].drive = drive /\ c.slots[i].key = key}
cache_lookup(c, drive, key) == c.slots[CHOOSE i \in cache_slots(c, drive, key) : TRUE].val

cache_insert(c, drive, key, val) ==
    [slots |-> [c.slots EXCEPT ![(c.cursor % Len(c.slots)) + 1] =
                  [valid |-> TRUE, drive |-> drive, key |-> key, val |-> val]],
     cursor |-> (c.cursor + 1) % Len(c.slots)]

block_cached(s, b) == cache_slots(s.block, s.drive, b) # {}
inode_cached(s, n) == cache_slots(s.inode, s.drive, n) # {}
path_cached(s, path) == cache_slots(s.path, s.drive, path) # {}

block_cache_lookup(s, b) == cache_lookup(s.block, s.drive, b)
inode_cache_lookup(s, n) == cache_lookup(s.inode, s.drive, n)
path_cache_lookup(s, path) == cache_lookup(s.path, s.drive, path)

block_cache_insert(s, b, data) == [s EXCEPT !.block = cache_insert(@, s.drive, b, data)]
inode_cache_insert(s, n, inode) == [s EXCEPT !.inode = cache_insert(@, s.drive, n, inode)]
path_cache_insert(s, path, n) == [s EXCEPT !.path = cache_insert(@, s.drive, path, n)]

\* A fault is a block whose sectors cannot be read during a call, by DMA or
\* by port I/O.  A result is the caches after the step, success, a value.
Ok(s, v) == [s |-> s, ok |-> TRUE, v |-> v]
Err(s) == [s |-> s, ok |-> FALSE, v |-> <<>>]

\* The rest of a call, which a failure skips.
Then(r, rest(_, _)) == IF r.ok THEN rest(r.s, r.v) ELSE r

\* One bus-master transfer; where it cannot be set up or fails, port I/O
\* sector by sector.  Neither delivers a bad block.
read_fs_block_dma(s, b, bad) == IF b = bad THEN Err(s) ELSE Ok(s, Drives[s.drive].blk[b])

\* Mutant: the block enters the cache before the sectors have been read.
CacheThenRead(s, b, bad) ==
    IF block_cached(s, b) THEN Ok(s, block_cache_lookup(s, b))
    ELSE LET data == IF b = bad THEN NoBlock ELSE Drives[s.drive].blk[b]
             t == block_cache_insert(s, b, data)
         IN  IF b = bad THEN Err(t) ELSE Ok(t, data)

read_fs_block(s, b, bad) ==
    IF block_cached(s, b) THEN Ok(s, block_cache_lookup(s, b))
    ELSE Then(read_fs_block_dma(s, b, bad), LAMBDA t, data : Ok(block_cache_insert(t, b, data), data))

\* The block of the inode table that holds inode n; the descriptor table is
\* read first, through the cache like any block.
InodeBlock(drive, n) == Drives[drive].table[n]
read_inode(s, n, bad) ==
    IF inode_cached(s, n) THEN Ok(s, inode_cache_lookup(s, n))
    ELSE Then(read_fs_block(s, Drives[s.drive].gdt, bad), LAMBDA g, desc :
         Then(read_fs_block(g, InodeBlock(g.drive, n), bad), LAMBDA t, blk :
         LET ino == Drives[t.drive].inodes[n] IN Ok(inode_cache_insert(t, n, ino), ino)))

\* A hole and a double indirect block are failures here.
BlockNum(s, b) == IF b = 0 THEN Err(s) ELSE Ok(s, b)
read_data_block_num(s, ino, bi, bad) ==
    IF bi < NDIR THEN BlockNum(s, ino.blocks[bi + 1])
    ELSE IF bi - NDIR >= PTRS \/ ino.blocks[NDIR + 1] = 0 THEN Err(s)
    ELSE Then(read_fs_block(s, ino.blocks[NDIR + 1], bad),
              LAMBDA t, blk : BlockNum(t, blk.units[bi - NDIR + 1]))

\* The data block bi of an inode.
fs_data_block(s, ino, bi, bad) ==
    Then(read_data_block_num(s, ino, bi, bad), LAMBDA t, b : read_fs_block(t, b, bad))

\* The search stops at the first block with the name, or that fails.
SearchDir(s, ino, name, bad) ==
    FoldLeft(LAMBDA acc, bi :
               IF ~acc.ok \/ acc.v # NoNum THEN acc
               ELSE Then(fs_data_block(acc.s, ino, bi, bad),
                         LAMBDA t, blk : Ok(t, Named(blk.entries, name))),
             Ok(s, NoNum), BlockIndexes(ino))
lookup_child(s, n, name, bad) ==
    Then(read_inode(s, n, bad), LAMBDA t, ino :
         IF ~ino.dir THEN Err(t)
         ELSE Then(SearchDir(t, ino, name, bad), LAMBDA u, c : IF c = NoNum THEN Err(u) ELSE Ok(u, c)))

resolve_path_inode(s, path, bad) ==
    IF path_cached(s, path) THEN Ok(s, path_cache_lookup(s, path))
    ELSE Then(FoldLeft(LAMBDA acc, name : Then(acc, LAMBDA t, n : lookup_child(t, n, name, bad)),
                       Ok(s, ROOT_INO), Plain(path)),
              LAMBDA t, n : Ok(path_cache_insert(t, path, n), n))

\* The part of a block that a range has, from place boff of it on.
PartOf(blk, boff, left) == SubSeq(blk.units, boff + 1, boff + Shorter(BLOCK_SIZE - boff, left))

\* The blocks a range touches, each contributing its part.
CopyRange(s, ino, off, want, bad) ==
    LET first == off \div BLOCK_SIZE
        last == (off + want - 1) \div BLOCK_SIZE
    IN  FoldLeft(LAMBDA acc, bi :
                   Then(acc, LAMBDA t, out :
                   Then(fs_data_block(t, ino, bi, bad), LAMBDA u, blk :
                   Ok(u, out \o PartOf(blk, (off + Len(out)) % BLOCK_SIZE, want - Len(out))))),
                 Ok(s, <<>>), [x \in 1 .. last - first + 1 |-> first + x - 1])
read_inode_range(s, n, off, len, bad) ==
    Then(read_inode(s, n, bad), LAMBDA t, ino :
         IF off >= ino.size THEN Ok(t, <<>>)
         ELSE CopyRange(t, ino, off, Shorter(len, ino.size - off), bad))

(***************************************************************************)
(* Calls into the module.                                                  *)
(***************************************************************************)
fs_read(s, path, off, len, bad) ==
    Then(resolve_path_inode(s, path, bad), LAMBDA t, n : read_inode_range(t, n, off, len, bad))

fs_stat(s, path, bad) ==
    Then(resolve_path_inode(s, path, bad), LAMBDA t, n : read_inode(t, n, bad))

\* Every block of the directory; one that fails fails the call.
AllEntries(s, ino, bad) ==
    FoldLeft(LAMBDA acc, bi :
               Then(acc, LAMBDA t, list :
               Then(fs_data_block(t, ino, bi, bad), LAMBDA u, blk : Ok(u, list \o blk.entries))),
             Ok(s, <<>>), BlockIndexes(ino))
fs_readdir(s, path, bad) ==
    Then(fs_stat(s, path, bad), LAMBDA t, ino : IF ino.dir THEN AllEntries(t, ino, bad) ELSE Err(t))

\* A call that ends with r, and what its answer then says.
Call == ext2left > 0 /\ ext2left' = ext2left - 1
Answers(r, answer(_)) == Call /\ fsc' = r.s /\ reply' = [answer(r) EXCEPT !.ok = r.ok]

\* A chunk of a file, as exec and read_all ask for it.
read_chunk(path, off, len, bad) ==
    /\ fsc.drive # NoNum
    /\ Answers(fs_read(fsc, path, off, len, bad), LAMBDA r :
           [NoAnswer EXCEPT !.by = "module", !.path = path, !.off = off, !.len = len, !.data = r.v])

\* core/kmod/fs.rs: any failure is "no such file".
file_metadata(path, bad) ==
    /\ fsc.drive # NoNum
    /\ Answers(fs_stat(fsc, path, bad), LAMBDA r :
           [NoAnswer EXCEPT !.by = "stat", !.path = path, !.len = IF r.ok THEN r.v.size ELSE 0])

readdir_path(path, bad) ==
    /\ fsc.drive # NoNum
    /\ Answers(fs_readdir(fsc, path, bad), LAMBDA r :
           [NoAnswer EXCEPT !.by = "readdir", !.path = path, !.list = Listed(r.v)])

\* core/kmod/fs.rs read_all: chunks until an empty one.  A failure after
\* the first chunk ends the file there; before it, a path that cannot be
\* resolved is missing and any other failure turns to the boot images.
FromBoot(s, r) == [s |-> s, ok |-> r[1], v |-> r[2]]
RECURSIVE read_chunks(_, _, _, _)
RECURSIVE AfterChunk(_, _, _, _, _)
AfterChunk(r, found, path, out, bad) ==
    IF ~found THEN Err(r.s)
    ELSE IF ~r.ok /\ out = <<>> THEN FromBoot(r.s, boot_read(path))
    ELSE IF ~r.ok \/ r.v = <<>> THEN Ok(r.s, out)
    ELSE read_chunks(r.s, path, out \o r.v, bad)
read_chunks(s, path, out, bad) ==
    AfterChunk(fs_read(s, path, Len(out), CHUNK, bad), resolve_path_inode(s, path, bad).ok,
               path, out, bad)

read_all(path, bad) ==
    Answers(IF fsc.drive = NoNum THEN FromBoot(fsc, boot_read(path))
            ELSE read_chunks(fsc, path, <<>>, bad),
            LAMBDA r : [NoAnswer EXCEPT !.by = IF fsc.drive = NoNum THEN "boot" ELSE "all",
                                        !.path = path, !.data = r.v])

\* exec and elf.rs look in the boot images whatever is mounted.
boot_file(path) ==
    Answers(FromBoot(fsc, boot_read(path)),
            LAMBDA r : [NoAnswer EXCEPT !.by = "boot", !.path = path, !.data = r.v])

boot_stat(path) ==
    LET found == SelectSeq([i \in DOMAIN BootImages |-> <<i, file_metadata_in(BootImages[i], path)>>],
                           LAMBDA f : f[2] # NoNum)
        size(f) == BootImages[f[1]].inodes[f[2]].size
    IN  Answers([s |-> fsc, ok |-> found # <<>>, v |-> <<>>], LAMBDA r :
            [NoAnswer EXCEPT !.by = "bootstat", !.path = path,
                             !.len = IF ~r.ok \/ Plain(path) = <<>> THEN 0 ELSE size(found[1])])

boot_readdir(path) ==
    Answers(FromBoot(fsc, FoldLeft(LAMBDA r, img : IF r[1] THEN r ELSE readdir_path_in(img, path),
                                   <<FALSE, <<>>>>, BootImages)),
            LAMBDA r : [NoAnswer EXCEPT !.by = "bootdir", !.path = path, !.list = r.v])

(***************************************************************************)
(* services/fs: no cache, every sector asked for from disk.service.        *)
(***************************************************************************)
svc_read_fs_block(img, b, bad) == IF b = bad THEN <<FALSE, <<>>>> ELSE <<TRUE, img.blk[b]>>

\* The descriptor table was read at mount; the inode's block is read here.
svc_read_inode(img, n, bad) == svc_read_fs_block(img, img.table[n], bad)[1]

\* Entry i of a pointer block: 0 below a hole, NoNum when it is not read.
svc_ptr(img, b, i, bad) ==
    IF b \in {0, NoNum} THEN b ELSE IF b = bad THEN NoNum ELSE img.blk[b].units[i + 1]

get_block_num(img, n, bi, bad) ==
    LET i == bi - NDIR
        j == i - PTRS
        ino == img.inodes[n]
    IN  IF bi < NDIR THEN ino.blocks[bi + 1]
        ELSE IF i < PTRS THEN svc_ptr(img, ino.blocks[NDIR + 1], i, bad)
        ELSE IF j < PTRS * PTRS
             THEN svc_ptr(img, svc_ptr(img, ino.blocks[NDIR + 2], j \div PTRS, bad), j % PTRS, bad)
        ELSE NoNum

\* A data block that was not found or not delivered; a hole is neither.
Unread(b, bad) == b = NoNum \/ (b # 0 /\ b = bad)

\* One round of the copy loop: success, the block index, the units copied.
SvcPart(img, n, off, want, acc, bad) ==
    LET bi == acc[2]
        b == get_block_num(img, n, bi, bad)
        boff == off % BLOCK_SIZE
        start == IF bi = off \div BLOCK_SIZE THEN boff ELSE 0
        left == want - Len(acc[3])
    IN  IF Unread(b, bad) THEN <<FALSE, bi, <<>>>>
        ELSE <<TRUE, bi + 1, acc[3] \o
                 (IF b = 0 THEN Zeros(Shorter(left, BLOCK_SIZE - boff))
                  ELSE SubSeq(img.blk[b].units, start + 1, start + Shorter(left, BLOCK_SIZE - start)))>>

RECURSIVE SvcLoop(_, _, _, _, _, _)
SvcLoop(img, n, off, want, acc, bad) ==
    IF ~acc[1] \/ Len(acc[3]) >= want THEN acc
    ELSE SvcLoop(img, n, off, want, SvcPart(img, n, off, want, acc, bad), bad)

\* The blocks up to the first hole are read before the names are compared;
\* one that cannot be read fails the lookup.
SvcEntries(img, acc, b, bad) ==
    AppendEntries(img, acc, IF Unread(b, bad) THEN NoNum ELSE b)
SvcNamed(data, name) == IF data[1] = "failed" THEN NoNum ELSE Named(data[2], name)
svc_lookup(img, n, name, bad) ==
    IF ~svc_read_inode(img, n, bad) \/ ~img.inodes[n].dir THEN NoNum
    ELSE SvcNamed(FoldLeft(LAMBDA acc, bi : SvcEntries(img, acc, get_block_num(img, n, bi, bad), bad),
                           <<"more", <<>>>>, BlockIndexes(img.inodes[n])), name)

\* "." and ".." are looked up like any name.
resolve_path(img, path, bad) ==
    FoldLeft(LAMBDA n, name : IF n = NoNum THEN NoNum ELSE svc_lookup(img, n, name, bad), ROOT_INO, path)

SvcRange(img, n, off, len, bad) ==
    IF n = NoNum \/ ~svc_read_inode(img, n, bad) \/ img.inodes[n].dir THEN <<FALSE, 0, <<>>>>
    ELSE IF off >= img.inodes[n].size THEN <<TRUE, 0, <<>>>>
    ELSE SvcLoop(img, n, off, Shorter(len, img.inodes[n].size - off),
                 <<TRUE, off \div BLOCK_SIZE, <<>>>>, bad)

\* bad: the block disk.service could not deliver.
svc_read(drive, path, off, len, bad) ==
    LET got(r) == [s |-> fsc, ok |-> r[1], v |-> r[3]]
    IN  Answers(got(SvcRange(Drives[drive], resolve_path(Drives[drive], path, bad), off, len, bad)),
                LAMBDA r : [NoAnswer EXCEPT !.by = "service", !.path = path, !.off = off,
                                            !.len = len, !.data = r.v])

Ext2Next ==
    \/ \E path \in FilePaths, off \in Offsets, len \in Lengths, bad \in Faults : read_chunk(path, off, len, bad)
    \/ \E path \in FilePaths, bad \in Faults : file_metadata(path, bad) \/ readdir_path(path, bad)
    \/ \E path \in FilePaths, bad \in Faults : read_all(path, bad)
    \/ \E path \in FilePaths : boot_file(path) \/ boot_stat(path) \/ boot_readdir(path)
    \/ \E d \in DOMAIN Drives, path \in FilePaths, off \in Offsets, len \in Lengths, bad \in Faults :
         svc_read(d, path, off, len, bad)

(***************************************************************************)
(* Property.                                                               *)
(***************************************************************************)
Slice(seq, off, len) == SubSeq(seq, off + 1, Shorter(off + len, Len(seq)))
Whole(img, path) == LET n == Walk(img, Plain(path)) IN Contents(img, n)
Sparse(img, n) ==
    \E bi \in 0 .. div_ceil(img.inodes[n].size, BLOCK_SIZE) - 1 : BlockOf(img, n, bi) = 0

\* Whatever was cached before and whichever block could not be read during
\* an earlier call, a successful read through the module (fs_read) returns
\* exactly the bytes of the mounted drive's file, read_all returns a prefix
\* of it or the whole file of a boot image, stat returns its size, and the
\* readers of the boot images and of the file service agree with the same
\* definition.  Sparse files are left out for the service, which loses its
\* place in them (ext2/mod.rs, the zero-filling branch of read).
ReadsMatchImage ==
    reply.ok =>
        LET img == Drives[fsc.drive]
        IN  CASE reply.by = "module" ->
                   reply.data = Slice(Whole(img, reply.path), reply.off, reply.len)
              [] reply.by = "all" -> \/ IsPrefix(reply.data, Whole(img, reply.path))
                                      \/ \E i \in DOMAIN BootImages :
                                           <<TRUE, reply.data>> = read_path_in(BootImages[i], reply.path)
              [] reply.by = "stat" ->
                   reply.len = img.inodes[Walk(img, Plain(reply.path))].size
              [] reply.by = "boot" ->
                   \E i \in DOMAIN BootImages :
                      /\ Walk(BootImages[i], reply.path) # NoNum
                      /\ reply.data = Whole(BootImages[i], reply.path)
              [] reply.by = "service" ->
                   \E d \in DOMAIN Drives :
                      \/ reply.data = Slice(Whole(Drives[d], reply.path), reply.off, reply.len)
                      \/ Sparse(Drives[d], Walk(Drives[d], Plain(reply.path)))
              [] OTHER -> TRUE
=============================================================================
