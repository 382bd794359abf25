------------------------------ MODULE MCParts ------------------------------
(* Small instances of the parts for TLC.                                    *)
EXTENDS Parts, TLC

\* Signals: a handler that blocks nothing, or two signals.
MCSigMasks == {{}, {2, 19}}

\* Terminal: what programs print; 27 is ESC, 91 is "[".
CSI(s) == <<27, 91>> \o s
MCOutputs ==
    {<<97, 98>>, <<10>>, <<27, 91>>, <<50, 114>>, <<27, 77>>,
     CSI(<<49, 59, 50, 114>>), CSI(<<50, 76>>), CSI(<<80>>), CSI(<<50, 83>>),
     CSI(<<63, 52, 55, 104>>), CSI(<<63, 52, 55, 108>>), CSI(<<51, 49, 109>>),
     CSI(<<63, 50, 53, 108>>), CSI(<<50, 98>>)}
MCPrompt == <<62>>

\* Ext2: an image with a directory, a file that reaches an indirect block and
\* a sparse file; "v" tells the images apart.
Entry(name, ino) == [name |-> name, ino |-> ino]
Units(a, b) == [units |-> <<a, b>>, entries |-> <<>>]
Entries(list) == [units |-> <<0, 0>>, entries |-> list]
Inode(dir, size, blocks) == [dir |-> dir, size |-> size, blocks |-> blocks]
Image(v) ==
    [inodes |-> (2 :> Inode(TRUE, 3, <<3, 4, 0>>)) @@ (3 :> Inode(FALSE, 5, <<5, 6, 0>>))
             @@ (4 :> Inode(TRUE, 2, <<9, 0, 0>>)) @@ (5 :> Inode(FALSE, 3, <<0, 8, 0>>)),
     table |-> [i \in 2 .. 5 |-> 2],
     gdt |-> 1,
     blk |-> <<Units(2, 2), Units(0, 0), Entries(<<Entry("x", 0), Entry("a", 3)>>),
               Units(10, 0), Units(v, v + 1), Units(7, 11), Units(v + 2, v + 3),
               Units(12, 0), Entries(<<Entry("b", 5), Entry("..", 2)>>),
               Entries(<<Entry("d", 4)>>), Units(v + 4, 0), Units(v + 5, 0)>>]
MCDrives == (1 :> Image(10))
MCBootImages == <<Image(20), Image(30)>>
MCFilePaths == {<<"a">>, <<"d", "b">>, <<"d", ".">>, <<"z">>}

\* Kmod: a disk and a file-system module, ET_EXEC packages of them that overlap
\* each other or the area of the ET_DYN images, and packages that are refused
\* at each of the loader's checks.
Text(v) == [vaddr |-> v, data |-> <<7>>, memsz |-> 1, w |-> FALSE, x |-> TRUE, inside |-> TRUE]
DataSegment(v) == [vaddr |-> v, data |-> <<5, 6>>, memsz |-> 3, w |-> TRUE, x |-> FALSE, inside |-> TRUE]
Rel(offset, addend) == [relative |-> TRUE, offset |-> offset, addend |-> addend]
Elf(segs, relas, init) ==
    [header |-> TRUE, dyn |-> TRUE, segs |-> segs, relas |-> relas, init |-> init,
     table |-> "full"]
Package(name, deps, elf) ==
    [readable |-> TRUE, len |-> 4, magic |-> TRUE, abi |-> 1, header_size |-> 3,
     names |-> 1, elf_size |-> 1, name |-> name, deps |-> deps, version |-> 1, elf |-> elf]
DiskCext ==
    Package("disk", {}, Elf(<<Text(2), DataSegment(4)>>,
                            <<Rel(4, 2), [Rel(5, 0) EXCEPT !.relative = FALSE]>>, 2))
AtLinkAddress(f, v) ==
    [f EXCEPT !.elf.dyn = FALSE, !.elf.relas = <<>>, !.elf.init = v,
              !.elf.segs = <<Text(v), DataSegment(v + 2)>>]
FsCext == Package("fs", {"disk"}, Elf(<<Text(0), DataSegment(3)>>, <<Rel(5, 3)>>, 0))
MCCextFiles ==
    {DiskCext, FsCext,
     [FsCext EXCEPT !.name = "net"], [FsCext EXCEPT !.elf_size = 2],
     [FsCext EXCEPT !.names = 0], [FsCext EXCEPT !.elf.table = "partial"],
     [FsCext EXCEPT !.deps = {}, !.elf.segs = <<Text(0), [DataSegment(2) EXCEPT !.inside = FALSE]>>],
     [FsCext EXCEPT !.elf.segs = <<[Text(0) EXCEPT !.memsz = 0, !.data = <<>>]>>],
     [DiskCext EXCEPT !.magic = FALSE], [DiskCext EXCEPT !.readable = FALSE],
     [DiskCext EXCEPT !.elf.relas = <<Rel(4, 2), Rel(7, 2)>>],
     AtLinkAddress(DiskCext, 2), AtLinkAddress(FsCext, 4), AtLinkAddress(DiskCext, 40),
     [DiskCext EXCEPT !.elf.table = "null"], [DiskCext EXCEPT !.elf.init = -1]}

\* Services: names in pieces; "sh" is a part of "shell.service".
Service(dir, name) == <<dir>> \o name \o <<".service">>
MCServiceLines ==
    {Service("/system/services/", <<"driver">>), Service("/bin/", <<"driver">>),
     Service("/system/services/", <<"sh", "ell">>), <<"/bin/", "sh">>, <<"/config/", "sh">>}
MCDriverLists ==
    {<<>>, <<<<"/bin/drivers/", "net", ".elf">>, Service("/system/services/", <<"sh", "ell">>)>>}
MCMissing == {<<"sh">>, Service("/bin/", <<"driver">>)}
=============================================================================
