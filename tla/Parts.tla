------------------------------- MODULE Parts -------------------------------
(* The parts of the system that have a module of their own and share no     *)
(* state in this model, side by side: a behaviour is a behaviour of one of  *)
(* them, named by "part", while the others are absent or in their           *)
(* initial state.  The parts with proofs are extended, so that the runs'    *)
(* properties are the definitions the theorems name; the properties of the  *)
(* others are restated here under their own names.                         *)
EXTENDS Integers, Sequences, Waiting, Pipes, Mouse, Shell, Disk, Net

\* Signals
CONSTANTS SigPids, Sigs, SigMasks, StackWords, MaxPush, SigSteps
VARIABLES sp, sigleft

\* Terminal
CONSTANTS MaxCols, MaxRows, ANSI_MAX_SEQ_LEN, Outputs, PROMPT, TermSteps
VARIABLES term, termleft

\* Files
CONSTANTS FileProcs, FirstFileProc, LAST_FD, MAX_HANDLES, FS_MAILBOX, MaxLen,
          MaxLate, FileSteps
VARIABLES files

\* Ext2
CONSTANTS BLOCK_SIZE, PTRS, NDIR, CHUNK, BLOCK_CACHE_SLOTS,
          INODE_CACHE_SLOTS, PATH_CACHE_SLOTS, Drives, BootImages, FilePaths,
          Faults, Offsets, Lengths, Ext2Steps
VARIABLES fsc, reply, ext2left

\* Kmod
CONSTANTS CextFiles, NCext, PAGE, FIXED, LOAD_START, LOAD_GUARD, Frames0
VARIABLES todo, kimage, modules

\* Services
CONSTANTS ServiceLines, MaxLines, DriverLists, Missing, MaxProcs
VARIABLES table

VARIABLE part

SignalPart == INSTANCE Signals
TermPart == INSTANCE Terminal
FilePart == INSTANCE Files
Ext2Part == INSTANCE Ext2
KmodPart == INSTANCE Kmod
SvcPart == INSTANCE Services

sigVars == <<sp, sigleft>>
termVars == <<term, termleft>>
fileVars == <<files>>
ext2Vars == <<fsc, reply, ext2left>>
kmodVars == <<todo, kimage, modules>>
svcVars == <<table>>

vars == <<sigVars, waitVars, pipeVars, termVars, shellVars, fileVars,
          ext2Vars, diskVars, netVars, mouseVars, kmodVars, svcVars, part>>

PartNames == { "signals", "waiting", "pipes", "terminal", "shell", "files",
              "ext2", "disk", "net", "mouse", "kmod", "services"}

\* A part that the behaviour is not about keeps this value.
Absent == "absent"

SignalStarts ==
    IF part = "signals" THEN SignalPart!SigInit
    ELSE sp = Absent /\ sigleft = Absent

TermStarts ==
    IF part = "terminal" THEN TermPart!TermInit
    ELSE term = Absent /\ termleft = Absent

FileStarts ==
    IF part = "files" THEN FilePart!FileInit
    ELSE files = Absent

Ext2Starts ==
    IF part = "ext2" THEN Ext2Part!Ext2Init
    ELSE fsc = Absent /\ reply = Absent /\ ext2left = Absent

KmodStarts ==
    IF part = "kmod" THEN KmodPart!KmodInit
    ELSE todo = Absent /\ kimage = Absent /\ modules = Absent

SvcStarts ==
    IF part = "services" THEN SvcPart!SvcInit
    ELSE table = Absent

Init ==
    /\ part \in PartNames
    /\ SignalStarts
    /\ WaitInit
    /\ PipeInit
    /\ TermStarts
    /\ ShellInit
    /\ FileStarts
    /\ Ext2Starts
    /\ DiskInit
    /\ virtio_legacy_init_pio
    /\ MouseInit
    /\ KmodStarts
    /\ SvcStarts
    /\ part # "disk" => present = DriveIds

SignalStep ==
    /\ part = "signals"
    /\ SignalPart!SigNext
    /\ UNCHANGED <<part, waitVars, pipeVars, termVars, shellVars, fileVars,
                    ext2Vars, diskVars, netVars, mouseVars, kmodVars, svcVars>>

WaitStep ==
    /\ part = "waiting"
    /\ WaitNext
    /\ UNCHANGED <<part, sigVars, pipeVars, termVars, shellVars, fileVars,
                    ext2Vars, diskVars, netVars, mouseVars, kmodVars, svcVars>>

PipeStep ==
    /\ part = "pipes"
    /\ PipeNext
    /\ UNCHANGED <<part, sigVars, waitVars, termVars, shellVars, fileVars,
                    ext2Vars, diskVars, netVars, mouseVars, kmodVars, svcVars>>

TermStep ==
    /\ part = "terminal"
    /\ TermPart!TermNext
    /\ UNCHANGED <<part, sigVars, waitVars, pipeVars, shellVars, fileVars,
                    ext2Vars, diskVars, netVars, mouseVars, kmodVars, svcVars>>

ShellStep ==
    /\ part = "shell"
    /\ ShellNext
    /\ UNCHANGED <<part, sigVars, waitVars, pipeVars, termVars, fileVars,
                    ext2Vars, diskVars, netVars, mouseVars, kmodVars, svcVars>>

FileStep ==
    /\ part = "files"
    /\ FilePart!FileNext
    /\ UNCHANGED <<part, sigVars, waitVars, pipeVars, termVars, shellVars,
                    ext2Vars, diskVars, netVars, mouseVars, kmodVars, svcVars>>

Ext2Step ==
    /\ part = "ext2"
    /\ Ext2Part!Ext2Next
    /\ UNCHANGED <<part, sigVars, waitVars, pipeVars, termVars, shellVars,
                    fileVars, diskVars, netVars, mouseVars, kmodVars, svcVars>>

DiskStep ==
    /\ part = "disk"
    /\ DiskNext
    /\ UNCHANGED <<part, sigVars, waitVars, pipeVars, termVars, shellVars,
                    fileVars, ext2Vars, netVars, mouseVars, kmodVars, svcVars>>

NetStep ==
    /\ part = "net"
    /\ NetNext
    /\ UNCHANGED <<part, sigVars, waitVars, pipeVars, termVars, shellVars,
                    fileVars, ext2Vars, diskVars, mouseVars, kmodVars,
                    svcVars>>

MouseStep ==
    /\ part = "mouse"
    /\ MouseNext
    /\ UNCHANGED <<part, sigVars, waitVars, pipeVars, termVars, shellVars,
                    fileVars, ext2Vars, diskVars, netVars, kmodVars, svcVars>>

KmodStep ==
    /\ part = "kmod"
    /\ KmodPart!KmodNext
    /\ UNCHANGED <<part, sigVars, waitVars, pipeVars, termVars, shellVars,
                    fileVars, ext2Vars, diskVars, netVars, mouseVars, svcVars>>

SvcStep ==
    /\ part = "services"
    /\ SvcPart!SvcNext
    /\ UNCHANGED <<part, sigVars, waitVars, pipeVars, termVars, shellVars,
                    fileVars, ext2Vars, diskVars, netVars, mouseVars,
                    kmodVars>>

Next ==
    \/ SignalStep
    \/ WaitStep
    \/ PipeStep
    \/ TermStep
    \/ ShellStep
    \/ FileStep
    \/ Ext2Step
    \/ DiskStep
    \/ NetStep
    \/ MouseStep
    \/ KmodStep
    \/ SvcStep

(* The fairness of the two parts with a promise about the future (see       *)
(* WaitFairness and ShellFairness): the timer ticks, and a ready thread     *)
(* gets its turn.                                                           *)
Fairness ==
    /\ WF_waitVars(part = "waiting" /\ tick)
    /\ \A t \in Waiters : WF_waitVars(part = "waiting" /\ Resume(t))
    /\ WF_shellVars(part = "shell" /\ drain_child_output)
    /\ WF_shellVars(part = "shell" /\ send_chunk)

Spec == Init /\ [][Next]_vars /\ Fairness

-----------------------------------------------------------------------------
\* Signals: handlers start one at a time and return to what they interrupted.
HandlersReturn == [][part = "signals" => SignalPart!HandlerStep]_vars

\* Terminal: the frame buffer shows the cells of the terminal.
ScreenShowsCells == part = "terminal" => TermPart!ScreenShowsCells

\* Files: a remote file is open at the service while a descriptor names it.
RemoteFilesCounted == part = "files" => FilePart!RemoteFilesCounted

\* Ext2: each reader answers with the bytes of the image.
ReadsMatchImage == part = "ext2" => Ext2Part!ReadsMatchImage

\* Kmod: a registered module stays as its package says, where it was placed.
ModulesIntact == part = "kmod" => KmodPart!ModulesIntact

\* Services: a service has one live process, unless a zombie hides it.
OneProcessPerService == part = "services" => SvcPart!OneProcessPerService
=============================================================================
