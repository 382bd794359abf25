-------------------------------- MODULE Disk --------------------------------
(***************************************************************************)
(* Sector I/O: disk.service (services/disk), its client in the file        *)
(* service (services/fs/src/disk_device.rs) and the kernel module's own    *)
(* ATA reads (modules/fs).  One ATA channel: two drives share the drive,   *)
(* address and command registers.  disk.service is a user process and can  *)
(* be descheduled between two register accesses; the kernel module reads a *)
(* sector inside a system call, in one piece.  Neither knows of the other. *)
(* The contents of a sector are a version number.                          *)
(***************************************************************************)
EXTENDS Integers, Sequences

CONSTANTS DiskClients,   \* processes that send requests to disk.service
          DiskUsers,     \* those of them with User privilege
          LBAs,
          MAX_DISKS,     \* drives are 0 .. MAX_DISKS - 1; 0 is the master
          DiskSteps      \* bound on requests, intrusions and kernel reads

VARIABLES ata,       \* registers and the transfer under way
          sectors,   \* contents of every drive
          present,   \* drives found by init_disks
          dsvc,      \* disk.service: its program counter and request
          dinbox,    \* requests waiting for it
          client,    \* the clients: what they asked for, their mailboxes
          kgot,      \* last sector the kernel module read
          mixed,     \* a transfer of disk.service was cut into
          diskleft
diskVars == <<ata, sectors, present, dsvc, dinbox, client, kgot, mixed, diskleft>>

DriveIds == 0 .. MAX_DISKS - 1
NoReq == [op |-> "none", disk |-> 0, lba |-> 0, val |-> 0, from |-> 0]
NoData == -1
Fresh(d, l) == 10 * d + l            \* what a sector holds at first
Written(d, l) == 100 + 10 * d + l    \* and once it has been written
Idle == [phase |-> "idle", op |-> "none", disk |-> 0, lba |-> 0]
NoGot == [ok |-> FALSE, disk |-> 0, lba |-> 0, val |-> NoData]

\* AtaDrive::init: which drives answer IDENTIFY is up to the machine.
Detected == (SUBSET DriveIds) \ {{}}

DiskInit ==
    /\ ata = [head |-> 0, lba |-> 0, xfer |-> Idle]
    /\ sectors = [d \in DriveIds |-> [l \in LBAs |-> Fresh(d, l)]]
    /\ present \in Detected
    /\ dsvc = [pc |-> "recv", req |-> NoReq, val |-> NoData]
    /\ dinbox = <<>>
    /\ client = [c \in DiskClients |-> [req |-> NoReq, mail |-> <<>>, got |-> NoGot]]
    /\ kgot = NoGot
    /\ mixed = FALSE
    /\ diskleft = DiskSteps

Spend == diskleft > 0 /\ diskleft' = diskleft - 1

(***************************************************************************)
(* DiskServiceDevice: a request, then the first message that arrives.      *)
(***************************************************************************)
ask(c, op, d, l, v) ==
    /\ Spend
    /\ client[c].req = NoReq
    /\ LET r == [op |-> op, disk |-> d, lba |-> l, val |-> v, from |-> c]
       IN  /\ dinbox' = Append(dinbox, r)
           /\ client' = [client EXCEPT ![c].req = r]
    /\ UNCHANGED <<ata, sectors, present, dsvc, kgot, mixed>>

read_sector(c, d, l) == ask(c, "read", d, l, NoData)
write_sector(c, d, l) == ask(c, "write", d, l, Written(d, l))

\* Any other process may send the client a message of its own.
other_message(c) ==
    /\ Spend
    /\ client' = [client EXCEPT ![c].mail = Append(@, [from |-> "other", status |-> 0, val |-> NoData])]
    /\ mixed' = TRUE
    /\ UNCHANGED <<ata, sectors, present, dsvc, dinbox, kgot>>

received(c, got) ==
    /\ client[c].mail # <<>>
    /\ client' = [client EXCEPT ![c] = [req |-> NoReq, mail |-> Tail(@.mail), got |-> got]]
    /\ UNCHANGED <<ata, sectors, present, dsvc, dinbox, kgot, mixed, diskleft>>

\* A message of another sender, or a status, is an I/O error.  The answer
\* is not compared with the sector that was asked for.
read_done(c) ==
    LET m == Head(client[c].mail)
        r == client[c].req
    IN  /\ r.op = "read"
        /\ received(c, IF m.from = "disk" /\ m.status = 0
                       THEN [ok |-> TRUE, disk |-> r.disk, lba |-> r.lba, val |-> m.val] ELSE NoGot)

write_done(c) == client[c].req.op \in {"write", "info", "list"} /\ received(c, NoGot)

(***************************************************************************)
(* disk.service: one request after the other, in steps that end where what *)
(* the drive does next is settled: the drive, the address, the command,    *)
(* the data.  The four address registers and the sector count, always 1,   *)
(* are one step.  A kernel read between two of them leaves a wrong address *)
(* and would be marked (mixed); the model has it right after them instead. *)
(***************************************************************************)
ToSvc(pc) == dsvc' = [dsvc EXCEPT !.pc = pc]

\* Requests that need no transfer are answered at once.
Answered(status, r) ==
    /\ client' = [client EXCEPT ![r.from].mail = Append(@, [from |-> "disk", status |-> status,
                                                           val |-> NoData])]
    /\ dsvc' = [dsvc EXCEPT !.pc = "recv"]

disk_main ==
    /\ dsvc.pc = "recv"
    /\ dinbox # <<>>
    /\ dinbox' = Tail(dinbox)
    /\ LET r == Head(dinbox)
       IN  IF r.from \in DiskUsers THEN Answered(-1, r)
           ELSE IF r.op = "list" THEN Answered(0, r)
           ELSE IF r.disk \notin DriveIds THEN Answered(-22, r)
           ELSE IF r.disk \notin present THEN Answered(-6, r)
           ELSE IF r.op = "info" THEN Answered(0, r)
           ELSE client' = client /\ dsvc' = [pc |-> "select", req |-> r, val |-> NoData]
    /\ UNCHANGED <<ata, sectors, present, kgot, mixed, diskleft>>

select_drive ==
    /\ dsvc.pc = "select"
    /\ ata' = [ata EXCEPT !.head = dsvc.req.disk]
    /\ ToSvc("lba")
    /\ UNCHANGED <<sectors, present, dinbox, client, kgot, mixed, diskleft>>

\* Mutant: the drive bit of the top address byte is always the master's.
lba28_of_master ==
    /\ dsvc.pc = "lba"
    /\ ata' = [ata EXCEPT !.lba = dsvc.req.lba, !.head = 0]
    /\ ToSvc("cmd")
    /\ UNCHANGED <<sectors, present, dinbox, client, kgot, mixed, diskleft>>

write_lba28 ==
    /\ dsvc.pc = "lba"
    /\ ata' = [ata EXCEPT !.lba = dsvc.req.lba, !.head = dsvc.req.disk]
    /\ ToSvc("cmd")
    /\ UNCHANGED <<sectors, present, dinbox, client, kgot, mixed, diskleft>>

write_command ==
    /\ dsvc.pc = "cmd"
    /\ ata' = [ata EXCEPT !.xfer = [phase |-> "drq", op |-> dsvc.req.op, disk |-> ata.head, lba |-> ata.lba]]
    /\ ToSvc("wait")
    /\ UNCHANGED <<sectors, present, dinbox, client, kgot, mixed, diskleft>>

\* wait_not_busy and wait_drq: the error bit, or no DRQ in time, ends it.
wait_drq ==
    /\ dsvc.pc = "wait"
    /\ \/ ata.xfer.phase = "drq" /\ ToSvc("data") /\ client' = client
       \/ Answered(-5, dsvc.req)
    /\ UNCHANGED <<ata, sectors, present, dinbox, kgot, mixed, diskleft>>

\* The words of the sector; with no transfer under way they are arbitrary.
move_data ==
    /\ dsvc.pc = "data"
    /\ LET x == ata.xfer
       IN  /\ sectors' = IF x.phase = "drq" /\ x.op = "write"
                         THEN [sectors EXCEPT ![x.disk][x.lba] = dsvc.req.val] ELSE sectors
           /\ dsvc' = [dsvc EXCEPT !.pc = IF dsvc.req.op = "write" THEN "flush" ELSE "reply",
                                   !.val = IF x.phase = "drq" /\ x.op = "read" THEN sectors[x.disk][x.lba]
                                           ELSE NoData]
           /\ ata' = [ata EXCEPT !.xfer = Idle]
    /\ UNCHANGED <<present, dinbox, client, kgot, mixed, diskleft>>

\* After a write the drive is told to flush its cache.
flush_cache ==
    /\ dsvc.pc = "flush"
    /\ \/ ToSvc("reply") /\ client' = client
       \/ Answered(-5, dsvc.req)
    /\ UNCHANGED <<ata, sectors, present, dinbox, kgot, mixed, diskleft>>

send_response ==
    /\ dsvc.pc = "reply"
    /\ client' = [client EXCEPT ![dsvc.req.from].mail =
                    Append(@, [from |-> "disk", status |-> 0, val |-> dsvc.val])]
    /\ ToSvc("recv")
    /\ UNCHANGED <<ata, sectors, present, dinbox, kgot, mixed, diskleft>>

(***************************************************************************)
(* modules/fs read_sector_ata: the registers, the command and the words in *)
(* one system call; a command under way is abandoned by the drive.         *)
(***************************************************************************)
read_sector_ata(d, l) ==
    /\ Spend
    /\ ata' = [head |-> d, lba |-> l, xfer |-> Idle]
    /\ \/ kgot' = NoGot
       \/ d \in present /\ kgot' = [ok |-> TRUE, disk |-> d, lba |-> l, val |-> sectors[d][l]]
    /\ mixed' = (mixed \/ dsvc.pc \in {"cmd", "wait", "data"})
    /\ UNCHANGED <<sectors, present, dsvc, dinbox, client>>

DiskNext ==
    \/ \E c \in DiskClients, d \in DriveIds, l \in LBAs : read_sector(c, d, l) \/ write_sector(c, d, l)
    \/ \E c \in DiskClients, d \in 0 .. MAX_DISKS : ask(c, "info", d, 0, NoData)
    \/ \E c \in DiskClients : ask(c, "list", 0, 0, NoData)
    \/ \E c \in DiskClients : other_message(c) \/ read_done(c) \/ write_done(c)
    \/ disk_main \/ select_drive \/ write_lba28 \/ write_command \/ wait_drq \/ move_data
    \/ flush_cache \/ send_response
    \/ \E d \in DriveIds, l \in LBAs : read_sector_ata(d, l)

DiskSpec == DiskInit /\ [][DiskNext]_diskVars

Holds(d, l, v) == v \in {Fresh(d, l), Written(d, l)}

\* As long as no message was taken for an answer and the kernel module did
\* not cut into a transfer, a client that reads a sector gets the contents
\* of the sector and of the drive it asked for, whatever the other client
\* and the kernel module did with the shared registers before.
SectorIsTheOneAsked ==
    /\ kgot.ok /\ ~mixed => Holds(kgot.disk, kgot.lba, kgot.val)
    /\ ~mixed => \A c \in DiskClients :
                    LET g == client[c].got IN g.ok => Holds(g.disk, g.lba, g.val)
    /\ ~mixed => \A d \in DriveIds, l \in LBAs : Holds(d, l, sectors[d][l])
=============================================================================
