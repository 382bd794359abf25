--------------------------- MODULE ServiceProofs ----------------------------
(***************************************************************************)
(* Proofs about two services.                                              *)
(*                                                                         *)
(* Sector I/O (Disk): what a client of disk.service reads.                 *)
(*                                                                         *)
(* The shell service and the output of its children (Shell), for every     *)
(* size of the mailbox and any number of chunks.                           *)
(***************************************************************************)
EXTENDS Disk, Shell, TLAPS

(* Sequences *)

LEMMA ElementOfSeq == ASSUME NEW S, NEW q \in Seq(S), NEW n \in 1 .. Len(q) PROVE q[n] \in S
  OBVIOUS

LEMMA EmptySeq ==
    ASSUME NEW S
    PROVE  <<>> \in Seq(S) /\ Len(<<>>) = 0 /\ \A q \in Seq(S) : q # <<>> => Len(q) \in Nat \ {0}
  OBVIOUS

LEMMA AppendProperties ==
    ASSUME NEW S, NEW q \in Seq(S), NEW e \in S
    PROVE  /\ Append(q, e) \in Seq(S) /\ Append(q, e) # <<>> /\ Len(Append(q, e)) = Len(q) + 1
           /\ \A i \in 1 .. Len(q) : Append(q, e)[i] = q[i]
           /\ Append(q, e)[Len(q) + 1] = e
  OBVIOUS

LEMMA HeadTailProperties ==
    ASSUME NEW S, NEW q \in Seq(S), q # <<>>
    PROVE  /\ Head(q) \in S /\ Tail(q) \in Seq(S) /\ Len(Tail(q)) = Len(q) - 1
           /\ \A i \in 1 .. Len(Tail(q)) : Tail(q)[i] = q[i + 1]
  OBVIOUS

LEMMA SeqEqual ==
    ASSUME NEW S, NEW q \in Seq(S), NEW r \in Seq(S), Len(q) = Len(r),
           \A i \in 1 .. Len(q) : q[i] = r[i]
    PROVE  q = r
  OBVIOUS

LEMMA SubSeqProperties ==
    ASSUME NEW S, NEW q, NEW a \in Int, NEW b \in Int, \A k \in a .. b : q[k] \in S
    PROVE  /\ SubSeq(q, a, b) \in Seq(S)
           /\ Len(SubSeq(q, a, b)) = IF a <= b THEN b - a + 1 ELSE 0
           /\ \A k \in 1 .. b - a + 1 : SubSeq(q, a, b)[k] = q[a + k - 1]
  OBVIOUS

-----------------------------------------------------------------------------
(* Sector I/O *)

(***************************************************************************)
(* As long as no message was taken for an answer and no transfer was cut   *)
(* into, the request of a client is in one place: in the inbox, with       *)
(* disk.service, or answered in the client's mailbox.  While the service   *)
(* is past write_lba28 the registers, and then the transfer under way, are *)
(* those of its request.                                                   *)
(***************************************************************************)
AnyDrive == DriveIds \cup (0 .. MAX_DISKS) \cup {0}
AnyLba == LBAs \cup {0}
SectorContents ==
  {NoData} \cup {Fresh(d, l) : d \in DriveIds, l \in LBAs}
           \cup {Written(d, l) : d \in DriveIds, l \in LBAs}

Transfers(r) == r.op \in {"read", "write"}

(* Requests, as the clients make them.                                     *)
Asked ==
  {r \in [op : {"read", "write", "info", "list"}, disk : AnyDrive, lba : AnyLba,
          val : SectorContents, from : DiskClients] :
     Transfers(r) => /\ r.disk \in DriveIds
                     /\ r.lba \in LBAs
                     /\ r.op = "write" => r.val = Written(r.disk, r.lba)}

Answers == [from : {"disk"}, status : Int, val : SectorContents]
Gots == [ok : BOOLEAN, disk : AnyDrive, lba : AnyLba, val : SectorContents]
Client == [req : Asked \cup {NoReq}, mail : Seq(Answers), got : Gots]
Transfer == [phase : {"idle", "drq"}, op : {"none", "read", "write"}, disk : AnyDrive, lba : AnyLba]

DiskTypeOK ==
  /\ ata \in [head : AnyDrive, lba : AnyLba, xfer : Transfer]
  /\ sectors \in [DriveIds -> [LBAs -> SectorContents]]
  /\ present \subseteq DriveIds
  /\ dsvc \in [pc : {"recv", "select", "lba", "cmd", "wait", "data", "flush", "reply"},
               req : Asked \cup {NoReq}, val : SectorContents]
  /\ dinbox \in Seq(Asked)
  /\ client \in [DiskClients -> Client]
  /\ kgot \in Gots

(* The client of r waits, and has no answer yet.                           *)
Awaited(cl, r) == cl[r.from].req = r /\ cl[r.from].mail = <<>>

(* The clients of the requests of q wait; no client has two requests.      *)
InboxAwaited(cl, q) ==
  /\ \A i \in 1..Len(q) : Awaited(cl, q[i])
  /\ \A i, j \in 1..Len(q) : q[i].from = q[j].from => i = j

NotOf(c, q) == \A i \in 1..Len(q) : q[i].from # c

(* A message that answers r.                                               *)
RightAnswer(r, m) == m.status = 0 /\ r.op = "read" => Holds(r.disk, r.lba, m.val)

MailAwaited(cl) ==
  \A c \in DiskClients :
    \/ cl[c].mail = <<>>
    \/ /\ cl[c].req # NoReq
       /\ Len(cl[c].mail) = 1
       /\ RightAnswer(cl[c].req, cl[c].mail[1])

ServiceAtWork ==
  LET r == dsvc.req
  IN  dsvc.pc # "recv" =>
        /\ r \in Asked /\ Transfers(r)
        /\ Awaited(client, r) /\ NotOf(r.from, dinbox)
        /\ dsvc.pc = "cmd" => ata.head = r.disk /\ ata.lba = r.lba
        /\ dsvc.pc \in {"wait", "data"} =>
             ata.xfer = [phase |-> "drq", op |-> r.op, disk |-> r.disk, lba |-> r.lba]
        /\ dsvc.pc \in {"flush", "reply"} => RightAnswer(r, [status |-> 0, val |-> dsvc.val])

GotsHold ==
  /\ kgot.ok => Holds(kgot.disk, kgot.lba, kgot.val)
  /\ \A c \in DiskClients :
       client[c].got.ok => Holds(client[c].got.disk, client[c].got.lba, client[c].got.val)

SectorsHold == \A d \in DriveIds, l \in LBAs : Holds(d, l, sectors[d][l])

Undisturbed ==
  /\ DiskTypeOK
  /\ InboxAwaited(client, dinbox)
  /\ MailAwaited(client)
  /\ ServiceAtWork
  /\ GotsHold
  /\ SectorsHold

DiskIInv == mixed \/ Undisturbed

(* NoReq is no request, and the values at the start have their types.      *)
LEMMA DiskValues ==
    /\ NoReq \notin Asked
    /\ NoData \in SectorContents /\ NoGot \in Gots /\ Idle \in Transfer
    /\ ~NoGot.ok
    /\ \A d \in DriveIds, l \in LBAs : Fresh(d, l) \in SectorContents /\ Written(d, l) \in SectorContents
<1>1. NoReq \notin Asked
  BY DEF NoReq, Asked
<1>2. NoData \in SectorContents
  BY DEF SectorContents
<1>3. NoGot \in Gots /\ ~NoGot.ok
  BY <1>2 DEF NoGot, Gots, AnyDrive, AnyLba
<1>4. Idle \in Transfer
  BY DEF Idle, Transfer, AnyDrive, AnyLba
<1> QED BY <1>1, <1>2, <1>3, <1>4 DEF SectorContents

LEMMA DiskInitIInv == DiskInit => DiskIInv
<1> SUFFICES ASSUME DiskInit PROVE Undisturbed
  BY DEF DiskIInv
<1> USE DEF DiskInit
<1>1. ata \in [head : AnyDrive, lba : AnyLba, xfer : Transfer]
  BY DiskValues DEF AnyDrive, AnyLba
<1>2. sectors \in [DriveIds -> [LBAs -> SectorContents]]
  BY DiskValues
<1>3. present \subseteq DriveIds
  BY DEF Detected
<1>4. dsvc \in [pc : {"recv", "select", "lba", "cmd", "wait", "data", "flush", "reply"},
               req : Asked \cup {NoReq}, val : SectorContents] /\ dsvc.pc = "recv"
  BY DiskValues
<1>5. dinbox \in Seq(Asked) /\ Len(dinbox) = 0
  BY EmptySeq
<1>6. client \in [DiskClients -> Client]
  <2>1. <<>> \in Seq(Answers)
    BY EmptySeq
  <2> QED BY <2>1, DiskValues DEF Client
<1>7. kgot \in Gots
  BY DiskValues
<1>8. MailAwaited(client)
  BY Zenon DEF MailAwaited
<1>9. GotsHold
  BY DiskValues DEF GotsHold
<1>10. SectorsHold
  BY DEF SectorsHold, Holds
<1>11. InboxAwaited(client, dinbox)
  BY <1>5 DEF InboxAwaited
<1>12. ServiceAtWork
  BY <1>4 DEF ServiceAtWork
<1> HIDE DEF DiskInit
<1> QED BY <1>1, <1>2, <1>3, <1>4, <1>5, <1>6, <1>7, <1>8, <1>9, <1>10, <1>11, <1>12
        DEF Undisturbed, DiskTypeOK

(* The answer m to r is put into its client's mailbox.                     *)
Delivered(cl, ncl, r, m) == ncl = [cl EXCEPT ![r.from].mail = Append(@, m)]

(* An answer reaches the client that waits for it.                         *)
LEMMA AnswerPosted ==
    ASSUME NEW cl \in [DiskClients -> Client], NEW ncl, NEW r \in Asked, NEW m \in Answers,
           Awaited(cl, r), RightAnswer(r, m), MailAwaited(cl), Delivered(cl, ncl, r, m)
    PROVE  /\ ncl \in [DiskClients -> Client]
           /\ MailAwaited(ncl)
           /\ \A s \in Asked : s.from # r.from /\ Awaited(cl, s) => Awaited(ncl, s)
           /\ \A c \in DiskClients : ncl[c].got = cl[c].got
<1>1. r.from \in DiskClients
  BY DEF Asked
<1>2. Append(<<>>, m) \in Seq(Answers) /\ Append(<<>>, m) = <<m>> /\ Len(<<m>>) = 1 /\ <<m>>[1] = m
  BY AppendProperties, EmptySeq
<1> DEFINE x == [cl[r.from] EXCEPT !.mail = <<m>>]
<1>3. ncl = [cl EXCEPT ![r.from] = x]
  BY <1>1, <1>2 DEF Awaited, Delivered, Client
<1>4. /\ ncl \in [DiskClients -> Client]
      /\ \A c \in DiskClients : c # r.from => ncl[c] = cl[c]
      /\ ncl[r.from].req = r /\ ncl[r.from].mail = <<m>> /\ ncl[r.from].got = cl[r.from].got
  <2>1. x \in Client /\ x.req = r /\ x.mail = <<m>> /\ x.got = cl[r.from].got
    BY Zenon, <1>1, <1>2 DEF Awaited, Client
  <2> HIDE DEF x
  <2> QED BY <1>1, <1>3, <2>1
<1>5. MailAwaited(ncl)
  BY Zenon, <1>1, <1>2, <1>4, DiskValues DEF MailAwaited
<1>6. \A s \in Asked : s.from # r.from /\ Awaited(cl, s) => Awaited(ncl, s)
  BY <1>4 DEF Awaited, Asked
<1> QED BY <1>1, <1>4, <1>5, <1>6

(* The service answers r and returns to its inbox.                         *)
LEMMA AnswerKeeps ==
    ASSUME Undisturbed, NEW r \in Asked, NEW m \in Answers,
           Awaited(client, r), RightAnswer(r, m), NotOf(r.from, dinbox'),
           dinbox' \in Seq(Asked), InboxAwaited(client, dinbox'),
           Delivered(client, client', r, m),
           dsvc' = [dsvc EXCEPT !.pc = "recv"],
           UNCHANGED <<ata, sectors, present, kgot>>
    PROVE  Undisturbed'
<1>1. client \in [DiskClients -> Client] /\ MailAwaited(client)
  BY DEF Undisturbed, DiskTypeOK
<1>2. /\ client' \in [DiskClients -> Client]
      /\ MailAwaited(client')
      /\ \A s \in Asked : s.from # r.from /\ Awaited(client, s) => Awaited(client', s)
      /\ \A c \in DiskClients : client'[c].got = client[c].got
  BY <1>1, AnswerPosted
<1>3. InboxAwaited(client', dinbox')
  <2>1. \A i \in 1..Len(dinbox') : dinbox'[i] \in Asked /\ dinbox'[i].from # r.from
    BY ElementOfSeq DEF NotOf
  <2> QED BY <1>2, <2>1 DEF InboxAwaited
<1>4. dsvc' \in [pc : {"recv", "select", "lba", "cmd", "wait", "data", "flush", "reply"},
                 req : Asked \cup {NoReq}, val : SectorContents] /\ dsvc'.pc = "recv"
  BY DEF Undisturbed, DiskTypeOK
<1>5. DiskTypeOK'
  BY <1>2, <1>4 DEF Undisturbed, DiskTypeOK
<1>6. ServiceAtWork'
  BY <1>4 DEF ServiceAtWork
<1>7. GotsHold'
  BY <1>2 DEF Undisturbed, GotsHold
<1>8. SectorsHold'
  BY DEF Undisturbed, SectorsHold
<1> QED BY <1>2, <1>3, <1>5, <1>6, <1>7, <1>8 DEF Undisturbed

(* A step of the service that says nothing to anyone.                      *)
LEMMA ServiceKeeps ==
    ASSUME Undisturbed, UNCHANGED <<dinbox, client, present, kgot>>,
           DiskTypeOK', ServiceAtWork', SectorsHold'
    PROVE  Undisturbed'
  BY DEF Undisturbed, GotsHold

LEMMA AskKeeps ==
    ASSUME Undisturbed, NEW c \in DiskClients, NEW op, NEW d, NEW l, NEW v, ask(c, op, d, l, v),
           [op |-> op, disk |-> d, lba |-> l, val |-> v, from |-> c] \in Asked
    PROVE  Undisturbed'
<1> DEFINE r == [op |-> op, disk |-> d, lba |-> l, val |-> v, from |-> c]
<1>1. /\ client[c].req = NoReq
      /\ dinbox' = Append(dinbox, r)
      /\ client' = [client EXCEPT ![c].req = r]
      /\ UNCHANGED <<ata, sectors, present, dsvc, kgot>>
  BY DEF ask
<1>2. r \in Asked /\ r.from = c /\ r # NoReq
  BY DiskValues
<1> HIDE DEF r
<1>3. client \in [DiskClients -> Client] /\ dinbox \in Seq(Asked)
  BY DEF Undisturbed, DiskTypeOK
<1>4. client[c].mail = <<>>
  BY <1>1 DEF Undisturbed, MailAwaited
<1>5. /\ client' \in [DiskClients -> Client]
      /\ \A x \in DiskClients : x # c => client'[x] = client[x]
      /\ client'[c].req = r /\ client'[c].mail = <<>> /\ client'[c].got = client[c].got
  BY Zenon, <1>1, <1>2, <1>3, <1>4 DEF Client
<1>6. /\ dinbox' \in Seq(Asked) /\ Len(dinbox') = Len(dinbox) + 1
      /\ \A i \in 1..Len(dinbox) : dinbox'[i] = dinbox[i]
      /\ dinbox'[Len(dinbox) + 1] = r
  BY <1>1, <1>2, <1>3, AppendProperties
<1>7. \A i \in 1..Len(dinbox) : dinbox[i] \in Asked /\ Awaited(client, dinbox[i]) /\ dinbox[i].from \in DiskClients
  BY <1>3, ElementOfSeq DEF Undisturbed, InboxAwaited, Asked
<1>8. \A i \in 1..Len(dinbox) : dinbox[i].from # c
  BY <1>1, <1>7, DiskValues DEF Awaited
<1>9. InboxAwaited(client', dinbox')
  <2>1. \A i \in 1..Len(dinbox') : Awaited(client', dinbox'[i])
    <3> TAKE i \in 1..Len(dinbox')
    <3>1. CASE i = Len(dinbox) + 1
      BY <3>1, <1>2, <1>5, <1>6 DEF Awaited
    <3>2. CASE i \in 1..Len(dinbox)
      BY <3>2, <1>5, <1>6, <1>7, <1>8 DEF Awaited
    <3> QED BY <3>1, <3>2, <1>3, <1>6
  <2>2. \A i, j \in 1..Len(dinbox') : dinbox'[i].from = dinbox'[j].from => i = j
    <3> TAKE i, j \in 1..Len(dinbox')
    <3>1. Len(dinbox) \in Nat
      BY <1>3
    <3>2. i \in 1..Len(dinbox) \/ i = Len(dinbox) + 1
      BY <3>1, <1>6
    <3>3. j \in 1..Len(dinbox) \/ j = Len(dinbox) + 1
      BY <3>1, <1>6
    <3>4. \A a, b \in 1..Len(dinbox) : dinbox[a].from = dinbox[b].from => a = b
      BY DEF Undisturbed, InboxAwaited
    <3> QED BY <3>2, <3>3, <3>4, <1>2, <1>6, <1>8
  <2> QED BY <2>1, <2>2 DEF InboxAwaited
<1>10. MailAwaited(client')
  BY <1>5 DEF Undisturbed, MailAwaited
<1>11. ServiceAtWork'
  <2> SUFFICES ASSUME dsvc'.pc # "recv" PROVE ServiceAtWork'
    BY DEF ServiceAtWork
  <2>1. dsvc.req \in Asked /\ Awaited(client, dsvc.req) /\ NotOf(dsvc.req.from, dinbox)
    BY <1>1 DEF Undisturbed, ServiceAtWork
  <2>2. dsvc.req.from \in DiskClients /\ dsvc.req.from # c
    BY <1>1, <2>1, DiskValues DEF Awaited, Asked
  <2>3. Awaited(client', dsvc.req)
    BY <1>5, <2>1, <2>2 DEF Awaited
  <2>4. NotOf(dsvc.req.from, dinbox')
    <3>1. Len(dinbox) \in Nat
      BY <1>3
    <3> QED BY <3>1, <1>2, <1>6, <2>1, <2>2 DEF NotOf
  <2> QED BY <1>1, <2>3, <2>4 DEF Undisturbed, ServiceAtWork
<1>12. DiskTypeOK'
  BY <1>1, <1>5, <1>6 DEF Undisturbed, DiskTypeOK
<1>13. GotsHold'
  BY <1>1, <1>5 DEF Undisturbed, GotsHold
<1>14. SectorsHold'
  BY <1>1 DEF Undisturbed, SectorsHold
<1> QED BY <1>9, <1>10, <1>11, <1>12, <1>13, <1>14 DEF Undisturbed

(* A client takes its answer: what it keeps of a read is what it asked for *)
(* and the value the answer brought.                                       *)
LEMMA ReceivedKeeps ==
    ASSUME Undisturbed, NEW c \in DiskClients, NEW got \in Gots, received(c, got),
           client[c].req # NoReq,
           got.ok => Holds(got.disk, got.lba, got.val)
    PROVE  Undisturbed'
<1> DEFINE x == [req |-> NoReq, mail |-> Tail(client[c].mail), got |-> got]
<1>1. /\ client[c].mail # <<>>
      /\ client' = [client EXCEPT ![c] = x]
      /\ UNCHANGED <<ata, sectors, present, dsvc, dinbox, kgot>>
  BY DEF received
<1>2. client \in [DiskClients -> Client] /\ client[c].mail \in Seq(Answers)
  BY DEF Undisturbed, DiskTypeOK, Client
<1>3. Len(client[c].mail) = 1
  BY <1>1 DEF Undisturbed, MailAwaited
<1>4. Tail(client[c].mail) \in Seq(Answers) /\ Len(Tail(client[c].mail)) = 0
  BY <1>1, <1>2, <1>3, HeadTailProperties
<1>5. Tail(client[c].mail) = <<>>
  BY Zenon, <1>4, EmptySeq
<1>6. x \in Client /\ x.mail = <<>> /\ x.got = got
  BY <1>4, <1>5 DEF Client
<1> HIDE DEF x
<1>7. /\ client' \in [DiskClients -> Client]
      /\ client'[c] = x
      /\ \A y \in DiskClients : y # c => client'[y] = client[y]
  BY <1>1, <1>2, <1>6
<1>8. \A r \in Asked : Awaited(client, r) => Awaited(client', r)
  <2> TAKE r \in Asked
  <2> HAVE Awaited(client, r)
  <2>1. r.from # c /\ r.from \in DiskClients
    BY <1>1 DEF Awaited, Asked
  <2> QED BY <1>7, <2>1 DEF Awaited
<1>9. InboxAwaited(client', dinbox')
  <2>1. \A i \in 1..Len(dinbox) : dinbox[i] \in Asked
    BY ElementOfSeq DEF Undisturbed, DiskTypeOK
  <2> QED BY Zenon, <1>1, <1>8, <2>1 DEF Undisturbed, InboxAwaited
<1>10. MailAwaited(client')
  BY <1>6, <1>7 DEF Undisturbed, MailAwaited
<1>11. ServiceAtWork'
  BY Zenon, <1>1, <1>8 DEF Undisturbed, ServiceAtWork
<1>12. DiskTypeOK'
  BY <1>1, <1>7 DEF Undisturbed, DiskTypeOK
<1>13. GotsHold'
  BY <1>1, <1>6, <1>7 DEF Undisturbed, GotsHold
<1>14. SectorsHold'
  BY <1>1 DEF Undisturbed, SectorsHold
<1> QED BY <1>9, <1>10, <1>11, <1>12, <1>13, <1>14 DEF Undisturbed

LEMMA ReadDoneKeeps ==
    ASSUME Undisturbed, NEW c \in DiskClients, read_done(c)
    PROVE  Undisturbed'
<1> DEFINE m == Head(client[c].mail)
           r == client[c].req
           got == IF m.from = "disk" /\ m.status = 0
                  THEN [ok |-> TRUE, disk |-> r.disk, lba |-> r.lba, val |-> m.val] ELSE NoGot
<1>1. r.op = "read" /\ received(c, got)
  BY DEF read_done
<1>2. client[c].mail # <<>>
  BY <1>1 DEF received
<1>3. client[c].mail \in Seq(Answers) /\ r \in Asked \cup {NoReq}
  BY DEF Undisturbed, DiskTypeOK, Client
<1>4. Len(client[c].mail) = 1 /\ RightAnswer(r, client[c].mail[1]) /\ r \in Asked
  BY <1>2, <1>3 DEF Undisturbed, MailAwaited
<1>5. m = client[c].mail[1] /\ m \in Answers
  BY <1>2, <1>3, <1>4, HeadTailProperties, ElementOfSeq
<1> HIDE DEF m, r
<1>6. got \in Gots
  BY SMTT(30), <1>4, <1>5, DiskValues DEF Gots, Answers, Asked
<1>7. got.ok => Holds(got.disk, got.lba, got.val)
  BY <1>1, <1>4, <1>5, DiskValues DEF RightAnswer, Answers
<1> HIDE DEF got
<1>8. r # NoReq
  BY <1>4, DiskValues
<1> QED BY <1>1, <1>6, <1>7, <1>8, ReceivedKeeps DEF r

LEMMA WriteDoneKeeps ==
    ASSUME Undisturbed, NEW c \in DiskClients, write_done(c)
    PROVE  Undisturbed'
<1>1. client[c].req # NoReq /\ received(c, NoGot)
  BY DEF write_done, NoReq
<1> QED BY <1>1, ReceivedKeeps, DiskValues

(* An answer without a transfer, or after one that failed.                 *)
LEMMA AnsweredKeeps ==
    ASSUME Undisturbed, NEW status \in Int, NEW r \in Asked, Answered(status, r),
           status # 0 \/ ~Transfers(r),
           Awaited(client, r), NotOf(r.from, dinbox'),
           dinbox' \in Seq(Asked), InboxAwaited(client, dinbox'),
           UNCHANGED <<ata, sectors, present, kgot>>
    PROVE  Undisturbed'
<1> DEFINE m == [from |-> "disk", status |-> status, val |-> NoData]
<1>1. m \in Answers /\ RightAnswer(r, m)
  BY DiskValues DEF Answers, RightAnswer, Transfers
<1>2. Delivered(client, client', r, m) /\ dsvc' = [dsvc EXCEPT !.pc = "recv"]
  BY DEF Answered, Delivered
<1> HIDE DEF m
<1> QED BY <1>1, <1>2, AnswerKeeps

LEMMA DiskMainKeeps ==
    ASSUME Undisturbed, disk_main
    PROVE  Undisturbed'
<1> DEFINE r == Head(dinbox)
           q == Tail(dinbox)
<1>1. /\ dsvc.pc = "recv" /\ dinbox # <<>> /\ dinbox' = q
      /\ UNCHANGED <<ata, sectors, present, kgot>>
  BY DEF disk_main
<1>2. dinbox \in Seq(Asked) /\ InboxAwaited(client, dinbox)
  BY DEF Undisturbed, DiskTypeOK
<1>3. /\ r = dinbox[1] /\ q \in Seq(Asked) /\ Len(q) = Len(dinbox) - 1 /\ Len(dinbox) \in Nat \ {0}
      /\ \A i \in 1..Len(q) : q[i] = dinbox[i + 1]
  BY <1>1, <1>2, HeadTailProperties, EmptySeq
<1>4. r \in Asked /\ Awaited(client, r)
  BY <1>2, <1>3, ElementOfSeq DEF InboxAwaited
<1>5. \/ \E status \in {-1, -22, -6} : Answered(status, r)
      \/ Answered(0, r) /\ r.op \in {"list", "info"}
      \/ /\ client' = client /\ dsvc' = [pc |-> "select", req |-> r, val |-> NoData]
         /\ r.op \notin {"list", "info"}
  BY DEF disk_main
<1> HIDE DEF r, q
<1>6. \A i \in 1..Len(q) : i + 1 \in 1..Len(dinbox) /\ 1 \in 1..Len(dinbox) /\ i + 1 # 1
  BY <1>3
<1>7. NotOf(r.from, q)
  BY <1>2, <1>3, <1>6 DEF InboxAwaited, NotOf
<1>8. InboxAwaited(client, q)
  BY SMTT(30), <1>2, <1>3, <1>6 DEF InboxAwaited
<1>9. CASE \E status \in {-1, -22, -6} : Answered(status, r)
  <2>1. PICK status \in {-1, -22, -6} : Answered(status, r)
    BY <1>9
  <2>2. status \in Int /\ status # 0
    OBVIOUS
  <2> QED BY <1>1, <1>3, <1>4, <1>7, <1>8, <2>1, <2>2, AnsweredKeeps
<1>10. CASE Answered(0, r) /\ r.op \in {"list", "info"}
  <2>1. ~Transfers(r)
    BY <1>10 DEF Transfers
  <2> QED BY <1>1, <1>3, <1>4, <1>7, <1>8, <1>10, <2>1, AnsweredKeeps
<1>11. CASE /\ client' = client /\ dsvc' = [pc |-> "select", req |-> r, val |-> NoData]
            /\ r.op \notin {"list", "info"}
  <2>1. Transfers(r)
    BY <1>4, <1>11 DEF Asked, Transfers
  <2>2. dsvc' \in [pc : {"recv", "select", "lba", "cmd", "wait", "data", "flush", "reply"},
                   req : Asked \cup {NoReq}, val : SectorContents]
        /\ dsvc'.pc = "select" /\ dsvc'.req = r
    BY SMTT(30), <1>4, <1>11, DiskValues
  <2>3. DiskTypeOK'
    BY <1>1, <1>3, <1>11, <2>2 DEF Undisturbed, DiskTypeOK
  <2>4. ServiceAtWork'
    BY <1>1, <1>4, <1>7, <1>11, <2>1, <2>2 DEF ServiceAtWork
  <2> QED BY <1>1, <1>8, <1>11, <2>3, <2>4 DEF Undisturbed, GotsHold, SectorsHold
<1> QED BY <1>5, <1>9, <1>10, <1>11

Pcs == {"recv", "select", "lba", "cmd", "wait", "data", "flush", "reply"}

(* A step of the service between two register accesses: only its program   *)
(* counter and the registers change.                                       *)
LEMMA RegisterKeeps ==
    ASSUME Undisturbed, NEW pc \in Pcs \ {"recv"}, dsvc.pc # "recv", ToSvc(pc),
           UNCHANGED <<sectors, present, dinbox, client, kgot>>,
           ata' \in [head : AnyDrive, lba : AnyLba, xfer : Transfer],
           pc = "cmd" => ata'.head = dsvc.req.disk /\ ata'.lba = dsvc.req.lba,
           pc \in {"wait", "data"} =>
             ata'.xfer = [phase |-> "drq", op |-> dsvc.req.op, disk |-> dsvc.req.disk, lba |-> dsvc.req.lba],
           pc \in {"flush", "reply"} => dsvc.pc = "flush"
    PROVE  Undisturbed'
<1>1. /\ dsvc' \in [pc : Pcs, req : Asked \cup {NoReq}, val : SectorContents]
      /\ dsvc'.pc = pc /\ dsvc'.req = dsvc.req /\ dsvc'.val = dsvc.val
  BY DEF ToSvc, Undisturbed, DiskTypeOK, Pcs
<1>2. DiskTypeOK'
  BY SMTT(30), <1>1 DEF Undisturbed, DiskTypeOK, Pcs
<1>3. ServiceAtWork'
  BY <1>1 DEF Undisturbed, ServiceAtWork
<1>4. SectorsHold'
  BY DEF Undisturbed, SectorsHold
<1> QED BY <1>2, <1>3, <1>4, ServiceKeeps

(* The request the service works on: a sector of a drive.                  *)
LEMMA AtWork ==
    ASSUME Undisturbed, dsvc.pc # "recv"
    PROVE  /\ dsvc.req \in Asked /\ Transfers(dsvc.req)
           /\ dsvc.req.disk \in DriveIds /\ dsvc.req.lba \in LBAs
           /\ dsvc.req.disk \in AnyDrive /\ dsvc.req.lba \in AnyLba
           /\ dsvc.req.op = "write" => dsvc.req.val = Written(dsvc.req.disk, dsvc.req.lba)
           /\ ata \in [head : AnyDrive, lba : AnyLba, xfer : Transfer]
<1>1. dsvc.req \in Asked /\ Transfers(dsvc.req)
  BY DEF Undisturbed, ServiceAtWork
<1> QED BY <1>1 DEF Asked, AnyDrive, AnyLba, Undisturbed, DiskTypeOK

(* The service gives up a transfer, or answers one that is complete.       *)
LEMMA ServiceAnswers ==
    ASSUME Undisturbed, dsvc.pc # "recv", NEW m \in Answers, RightAnswer(dsvc.req, m),
           Delivered(client, client', dsvc.req, m),
           dsvc' = [dsvc EXCEPT !.pc = "recv"],
           UNCHANGED <<ata, sectors, present, dinbox, kgot>>
    PROVE  Undisturbed'
<1>1. dsvc.req \in Asked /\ Awaited(client, dsvc.req) /\ NotOf(dsvc.req.from, dinbox)
  BY DEF Undisturbed, ServiceAtWork
<1>2. dinbox' \in Seq(Asked) /\ InboxAwaited(client, dinbox') /\ NotOf(dsvc.req.from, dinbox')
  BY <1>1 DEF Undisturbed, DiskTypeOK
<1> QED BY <1>1, <1>2, AnswerKeeps

LEMMA GivesUp ==
    ASSUME Undisturbed, dsvc.pc # "recv", Answered(-5, dsvc.req),
           UNCHANGED <<ata, sectors, present, dinbox, kgot>>
    PROVE  Undisturbed'
<1> DEFINE m == [from |-> "disk", status |-> -5, val |-> NoData]
<1>1. m \in Answers /\ RightAnswer(dsvc.req, m)
  BY DiskValues DEF Answers, RightAnswer
<1>2. Delivered(client, client', dsvc.req, m) /\ dsvc' = [dsvc EXCEPT !.pc = "recv"]
  BY DEF Answered, Delivered
<1> HIDE DEF m
<1> QED BY <1>1, <1>2, ServiceAnswers

(* The words of the sector move between the drive and the service.         *)
LEMMA MoveDataKeeps ==
    ASSUME Undisturbed, move_data
    PROVE  Undisturbed'
<1> DEFINE r == dsvc.req
<1>1. dsvc.pc = "data" /\ UNCHANGED <<present, dinbox, client, kgot>>
  BY SMTT(30) DEF move_data
<1>2. ata.xfer = [phase |-> "drq", op |-> r.op, disk |-> r.disk, lba |-> r.lba]
  BY <1>1 DEF Undisturbed, ServiceAtWork
<1>3. /\ r \in Asked /\ r.op \in {"read", "write"} /\ r.disk \in DriveIds /\ r.lba \in LBAs
      /\ r.op = "write" => r.val = Written(r.disk, r.lba)
  BY <1>1, AtWork DEF Transfers
<1>4. /\ sectors' = IF r.op = "write" THEN [sectors EXCEPT ![r.disk][r.lba] = r.val] ELSE sectors
      /\ dsvc' = [dsvc EXCEPT !.pc = IF r.op = "write" THEN "flush" ELSE "reply",
                              !.val = IF r.op = "read" THEN sectors[r.disk][r.lba] ELSE NoData]
      /\ ata' = [ata EXCEPT !.xfer = Idle]
  BY <1>2 DEF move_data
<1>5. sectors \in [DriveIds -> [LBAs -> SectorContents]] /\ SectorsHold
  BY DEF Undisturbed, DiskTypeOK
<1>6. r.val \in SectorContents
  BY <1>3 DEF Asked
<1> DEFINE pc == IF r.op = "write" THEN "flush" ELSE "reply"
           val == IF r.op = "read" THEN sectors[r.disk][r.lba] ELSE NoData
<1>7. pc \in {"flush", "reply"} /\ val \in SectorContents
  BY <1>3, <1>5, DiskValues
<1>8. r.op = "read" => Holds(r.disk, r.lba, val)
  BY <1>3, <1>5 DEF SectorsHold
<1>9. dsvc' = [dsvc EXCEPT !.pc = pc, !.val = val]
  BY <1>4
<1> HIDE DEF pc, val
<1>10. /\ dsvc' \in [pc : Pcs, req : Asked \cup {NoReq}, val : SectorContents]
       /\ dsvc'.pc = pc /\ dsvc'.val = val /\ dsvc'.req = r
  BY Zenon, <1>7, <1>9 DEF Undisturbed, DiskTypeOK, Pcs
<1>11. sectors' \in [DriveIds -> [LBAs -> SectorContents]]
  BY <1>3, <1>4, <1>5, <1>6
<1>12. SectorsHold'
  BY <1>3, <1>4, <1>5 DEF SectorsHold, Holds
<1>13. ata' \in [head : AnyDrive, lba : AnyLba, xfer : Transfer]
  BY <1>4, DiskValues DEF Undisturbed, DiskTypeOK
<1>14. DiskTypeOK'
  BY <1>1, <1>10, <1>11, <1>13 DEF Undisturbed, DiskTypeOK, Pcs
<1>15. RightAnswer(r, [status |-> 0, val |-> val])
  BY SMTT(30), <1>8 DEF RightAnswer
<1>16. ServiceAtWork'
  BY <1>1, <1>7, <1>10, <1>15 DEF Undisturbed, ServiceAtWork
<1> QED BY <1>1, <1>12, <1>14, <1>16, ServiceKeeps

LEMMA SendResponseKeeps ==
    ASSUME Undisturbed, send_response
    PROVE  Undisturbed'
<1> DEFINE m == [from |-> "disk", status |-> 0, val |-> dsvc.val]
<1>1. /\ dsvc.pc = "reply" /\ dsvc' = [dsvc EXCEPT !.pc = "recv"]
      /\ Delivered(client, client', dsvc.req, m)
      /\ UNCHANGED <<ata, sectors, present, dinbox, kgot>>
  BY DEF send_response, ToSvc, Delivered
<1>2. RightAnswer(dsvc.req, [status |-> 0, val |-> dsvc.val])
  BY <1>1 DEF Undisturbed, ServiceAtWork
<1>3. m \in Answers /\ RightAnswer(dsvc.req, m)
  BY <1>2 DEF Answers, RightAnswer, Undisturbed, DiskTypeOK
<1> HIDE DEF m
<1> QED BY <1>1, <1>3, ServiceAnswers

(* The kernel module reads a sector while disk.service has no transfer     *)
(* under way; the registers it leaves behind are set again before use.     *)
LEMMA KernelReadKeeps ==
    ASSUME Undisturbed, NEW d \in DriveIds, NEW l \in LBAs, read_sector_ata(d, l), ~mixed'
    PROVE  Undisturbed'
<1>1. /\ ata' = [head |-> d, lba |-> l, xfer |-> Idle]
      /\ dsvc.pc \notin {"cmd", "wait", "data"}
      /\ UNCHANGED <<sectors, present, dsvc, dinbox, client>>
  BY Zenon DEF read_sector_ata
<1>2. kgot' \in {NoGot, [ok |-> TRUE, disk |-> d, lba |-> l, val |-> sectors[d][l]]}
  BY DEF read_sector_ata
<1>3. sectors[d][l] \in SectorContents /\ Holds(d, l, sectors[d][l])
  BY DEF Undisturbed, DiskTypeOK, SectorsHold
<1>4. d \in AnyDrive /\ l \in AnyLba
  BY DEF AnyDrive, AnyLba
<1>5. kgot' \in Gots /\ (kgot'.ok => Holds(kgot'.disk, kgot'.lba, kgot'.val))
  <2>1. CASE kgot' = NoGot
    BY <2>1, DiskValues
  <2>2. CASE kgot' = [ok |-> TRUE, disk |-> d, lba |-> l, val |-> sectors[d][l]]
    BY <2>2, <1>3, <1>4 DEF Gots
  <2> QED BY <1>2, <2>1, <2>2
<1>6. DiskTypeOK'
  BY Zenon, <1>1, <1>4, <1>5, DiskValues DEF Undisturbed, DiskTypeOK
<1>7. ServiceAtWork'
  BY ZenonT(30), <1>1 DEF Undisturbed, ServiceAtWork
<1>8. GotsHold'
  BY <1>1, <1>5 DEF Undisturbed, GotsHold
<1> QED BY <1>1, <1>6, <1>7, <1>8 DEF Undisturbed, SectorsHold

LEMMA DiskNextIInv ==
    ASSUME DiskIInv, [DiskNext]_diskVars
    PROVE  DiskIInv'
<1>1. CASE mixed'
  BY <1>1 DEF DiskIInv
<1>2. CASE ~mixed'
  <2>1. ASSUME mixed PROVE FALSE
    BY Zenon, <2>1, <1>2 DEF DiskNext, diskVars, read_sector, write_sector, ask, other_message, read_done,
       write_done, received, disk_main, select_drive, write_lba28, write_command, wait_drq, move_data,
       flush_cache, send_response, read_sector_ata
  <2>2. Undisturbed
    BY <2>1 DEF DiskIInv
  <2> SUFFICES Undisturbed'
    BY DEF DiskIInv
  <2>3. ASSUME NEW c \in DiskClients, NEW d \in DriveIds, NEW l \in LBAs, read_sector(c, d, l)
        PROVE  Undisturbed'
    <3>1. [op |-> "read", disk |-> d, lba |-> l, val |-> NoData, from |-> c] \in Asked
      BY DiskValues DEF Asked, AnyDrive, AnyLba
    <3> QED BY <2>2, <2>3, <3>1, AskKeeps DEF read_sector
  <2>4. ASSUME NEW c \in DiskClients, NEW d \in DriveIds, NEW l \in LBAs, write_sector(c, d, l)
        PROVE  Undisturbed'
    <3>1. [op |-> "write", disk |-> d, lba |-> l, val |-> Written(d, l), from |-> c] \in Asked
      BY DiskValues DEF Asked, AnyDrive, AnyLba
    <3> QED BY <2>2, <2>4, <3>1, AskKeeps DEF write_sector
  <2>5. ASSUME NEW c \in DiskClients, NEW d \in 0 .. MAX_DISKS, ask(c, "info", d, 0, NoData)
        PROVE  Undisturbed'
    <3>1. [op |-> "info", disk |-> d, lba |-> 0, val |-> NoData, from |-> c] \in Asked
      BY DiskValues DEF Asked, AnyDrive, AnyLba, Transfers
    <3> QED BY <2>2, <2>5, <3>1, AskKeeps
  <2>6. ASSUME NEW c \in DiskClients, ask(c, "list", 0, 0, NoData)
        PROVE  Undisturbed'
    <3>1. [op |-> "list", disk |-> 0, lba |-> 0, val |-> NoData, from |-> c] \in Asked
      BY DiskValues DEF Asked, AnyDrive, AnyLba, Transfers
    <3> QED BY <2>2, <2>6, <3>1, AskKeeps
  <2>7. ASSUME NEW c \in DiskClients, other_message(c)
        PROVE  FALSE
    BY <1>2, <2>7 DEF other_message
  <2>8. ASSUME NEW c \in DiskClients, read_done(c) \/ write_done(c)
        PROVE  Undisturbed'
    BY <2>2, <2>8, ReadDoneKeeps, WriteDoneKeeps
  <2>9. CASE disk_main
    BY <2>2, <2>9, DiskMainKeeps
  <2>10. CASE select_drive
    <3>1. /\ dsvc.pc = "select" /\ ToSvc("lba") /\ ata' = [ata EXCEPT !.head = dsvc.req.disk]
          /\ UNCHANGED <<sectors, present, dinbox, client, kgot>>
      BY <2>10 DEF select_drive
    <3>2. ata' \in [head : AnyDrive, lba : AnyLba, xfer : Transfer]
      BY <2>2, <3>1, AtWork
    <3> QED BY <2>2, <3>1, <3>2, RegisterKeeps DEF Pcs
  <2>11. CASE write_lba28
    <3>1. /\ dsvc.pc = "lba" /\ ToSvc("cmd")
          /\ ata' = [ata EXCEPT !.lba = dsvc.req.lba, !.head = dsvc.req.disk]
          /\ UNCHANGED <<sectors, present, dinbox, client, kgot>>
      BY <2>11 DEF write_lba28
    <3>2. /\ ata' \in [head : AnyDrive, lba : AnyLba, xfer : Transfer]
          /\ ata'.head = dsvc.req.disk /\ ata'.lba = dsvc.req.lba
      BY Zenon, <2>2, <3>1, AtWork
    <3> QED BY <2>2, <3>1, <3>2, RegisterKeeps DEF Pcs
  <2>12. CASE write_command
    <3> DEFINE x == [phase |-> "drq", op |-> dsvc.req.op, disk |-> ata.head, lba |-> ata.lba]
    <3>1. /\ dsvc.pc = "cmd" /\ ToSvc("wait") /\ ata' = [ata EXCEPT !.xfer = x]
          /\ UNCHANGED <<sectors, present, dinbox, client, kgot>>
      BY <2>12 DEF write_command
    <3>2. ata.head = dsvc.req.disk /\ ata.lba = dsvc.req.lba
      BY <2>2, <3>1 DEF Undisturbed, ServiceAtWork
    <3>3. x \in Transfer
      BY <2>2, <3>1, AtWork DEF Transfer, Transfers
    <3>4. /\ ata' \in [head : AnyDrive, lba : AnyLba, xfer : Transfer]
          /\ ata'.xfer = x
      BY <2>2, <3>1, <3>3, AtWork
    <3> QED BY <2>2, <3>1, <3>2, <3>4, RegisterKeeps DEF Pcs
  <2>13. CASE wait_drq
    <3>1. /\ dsvc.pc = "wait" /\ UNCHANGED <<ata, sectors, present, dinbox, kgot>>
          /\ (ToSvc("data") /\ client' = client) \/ Answered(-5, dsvc.req)
      BY <2>13 DEF wait_drq
    <3>2. CASE Answered(-5, dsvc.req)
      BY <2>2, <3>1, <3>2, GivesUp
    <3>3. CASE ToSvc("data") /\ client' = client
      <4>1. ata.xfer = [phase |-> "drq", op |-> dsvc.req.op, disk |-> dsvc.req.disk, lba |-> dsvc.req.lba]
        BY <2>2, <3>1 DEF Undisturbed, ServiceAtWork
      <4>2. ata' \in [head : AnyDrive, lba : AnyLba, xfer : Transfer]
        BY <2>2, <3>1, AtWork
      <4> QED BY SMTT(30), <2>2, <3>1, <3>3, <4>1, <4>2, RegisterKeeps DEF Pcs
    <3> QED BY <3>1, <3>2, <3>3
  <2>14. CASE move_data
    BY <2>2, <2>14, MoveDataKeeps
  <2>15. CASE flush_cache
    <3>1. /\ dsvc.pc = "flush" /\ UNCHANGED <<ata, sectors, present, dinbox, kgot>>
          /\ (ToSvc("reply") /\ client' = client) \/ Answered(-5, dsvc.req)
      BY <2>15 DEF flush_cache
    <3>2. CASE Answered(-5, dsvc.req)
      BY <2>2, <3>1, <3>2, GivesUp
    <3>3. CASE ToSvc("reply") /\ client' = client
      <4>1. ata' \in [head : AnyDrive, lba : AnyLba, xfer : Transfer]
        BY <2>2, <3>1, AtWork
      <4> QED BY <2>2, <3>1, <3>3, <4>1, RegisterKeeps DEF Pcs
    <3> QED BY <3>1, <3>2, <3>3
  <2>16. CASE send_response
    BY <2>2, <2>16, SendResponseKeeps
  <2>17. ASSUME NEW d \in DriveIds, NEW l \in LBAs, read_sector_ata(d, l)
         PROVE  Undisturbed'
    BY SMTT(30), <1>2, <2>2, <2>17, KernelReadKeeps
  <2>18. CASE UNCHANGED diskVars
    BY Zenon, <2>2, <2>18 DEF diskVars, Undisturbed, DiskTypeOK, ServiceAtWork, GotsHold, SectorsHold
  <2> QED
    BY SMTT(30), <2>3, <2>4, <2>5, <2>6, <2>7, <2>8, <2>9, <2>10, <2>11, <2>12, <2>13, <2>14, <2>15, <2>16,
       <2>17, <2>18
    DEF DiskNext
<1> QED BY <1>1, <1>2

(* A read of disk.service returns the contents of the sector and drive     *)
(* that the client asked for, for every number of clients, drives and      *)
(* sectors: the registers that the service and the kernel module share are *)
(* those of the request from write_lba28 to the last word, unless the      *)
(* module cuts in between or a client takes another message for its answer.*)
THEOREM DiskReadsSectorAsked == DiskSpec => []SectorIsTheOneAsked
<1>1. DiskInit => DiskIInv
  BY DiskInitIInv
<1>2. DiskIInv /\ [DiskNext]_diskVars => DiskIInv'
  BY SMTT(30), DiskNextIInv
<1>3. DiskIInv => SectorIsTheOneAsked
  BY DEF DiskIInv, Undisturbed, GotsHold, SectorsHold, SectorIsTheOneAsked
<1> QED BY <1>1, <1>2, <1>3, PTL DEF DiskSpec

-----------------------------------------------------------------------------
(* The shell service *)

(***************************************************************************)
(* What the children wrote is displayed, then waits in the mailbox, then   *)
(* is in the hands of a writer that waits for room.  The notice of an exit *)
(* is last in the mailbox, and there only from the exit to the end of the  *)
(* last drain.                                                             *)
(***************************************************************************)
Chunks == [from : {"child"}, n : Nat]

Posted == Chunks \cup {Exit}

(* The chunk in the hands of a writer.                                     *)
Pending(c) == IF c = "writing" THEN 1 ELSE 0

(* Chunks in the mailbox, for w written, d displayed and a child c.        *)
Backlog(w, d, c) == Len(w) - Pending(c) - Len(d)

(* The lines of w are those of d, then those of the mailbox b.             *)
Lines(w, d, c, b) ==
  /\ Backlog(w, d, c) \in Nat
  /\ Len(b) \in {Backlog(w, d, c), Backlog(w, d, c) + 1}
  /\ \A i \in 1..Len(d) : d[i] = w[i]
  /\ \A i \in 1..Backlog(w, d, c) : b[i] = w[Len(d) + i]
  /\ Len(b) = Backlog(w, d, c) + 1 => b[Len(b)] = Exit

NoNoticeIn(w, d, c, b) == Len(b) = Backlog(w, d, c)

ShellTypeOK ==
  /\ written \in Seq(Chunks)
  /\ displayed \in Seq(Chunks)
  /\ inbox \in Seq(Posted)
  /\ child \in {"none", "running", "writing", "zombie"}
  /\ spc \in {"keys", "recv", "check", "wait", "recv2", "check2", "final"}

ShellIInv ==
  /\ ShellTypeOK
  /\ Lines(written, displayed, child, inbox)
  /\ NoNoticeIn(written, displayed, child, inbox) \/ child = "zombie" \/ spc = "final"
  /\ child = "none" <=> spc \in {"keys", "final"}
  /\ spc = "keys" => inbox = <<>>

(* A chunk and the notice of an exit are told apart.                       *)
LEMMA ChunkIsNoExit == Exit \notin Chunks
  BY ZenonT(30) DEF Exit, Chunks

(* Lines, for a backlog of k chunks.                                       *)
LEMMA LinesOf ==
    ASSUME NEW w, NEW d, NEW c, NEW b, NEW k \in Nat, Backlog(w, d, c) = k,
           Len(b) \in {k, k + 1},
           \A i \in 1..Len(d) : d[i] = w[i],
           \A i \in 1..k : b[i] = w[Len(d) + i],
           Len(b) = k + 1 => b[Len(b)] = Exit
    PROVE  Lines(w, d, c, b)
  BY DEF Lines

(* Taking a chunk from the mailbox and drawing it (ShowOne).               *)
LEMMA ChunkShown ==
    ASSUME NEW w \in Seq(Chunks), NEW d \in Seq(Chunks), NEW c, NEW b \in Seq(Posted),
           Lines(w, d, c, b), b # <<>>, Head(b) # Exit
    PROVE  /\ Append(d, Head(b)) \in Seq(Chunks)
           /\ Tail(b) \in Seq(Posted)
           /\ Lines(w, Append(d, Head(b)), c, Tail(b))
           /\ NoNoticeIn(w, d, c, b) => NoNoticeIn(w, Append(d, Head(b)), c, Tail(b))
<1> DEFINE e == Append(d, Head(b))
           t == Tail(b)
           k == Backlog(w, d, c)
<1>1. /\ Len(d) \in Nat /\ Len(w) \in Nat /\ Len(b) \in Nat \ {0}
      /\ Pending(c) \in {0, 1} /\ k \in Nat
  BY EmptySeq DEF Lines, Pending
<1>2. /\ Head(b) = b[1] /\ t \in Seq(Posted) /\ Len(t) = Len(b) - 1
      /\ \A i \in 1..Len(t) : t[i] = b[i + 1]
  BY HeadTailProperties
<1>3. Head(b) \in Chunks
  BY <1>1, <1>2, ElementOfSeq DEF Posted
<1>4. /\ e \in Seq(Chunks) /\ Len(e) = Len(d) + 1
      /\ \A i \in 1..Len(d) : e[i] = d[i]
      /\ e[Len(d) + 1] = Head(b)
  BY <1>3, AppendProperties
<1> HIDE DEF e, t
<1>5. k # 0
  BY <1>1, <1>2 DEF Lines
<1>6. Backlog(w, e, c) = k - 1
  BY <1>1, <1>4 DEF Backlog
<1>7. Head(b) = w[Len(d) + 1]
  BY <1>1, <1>2, <1>5 DEF Lines
<1>8. \A i \in 1..Len(e) : e[i] = w[i]
  BY SMTT(30), <1>1, <1>4, <1>7 DEF Lines
<1>9. \A i \in 1..(k - 1) : t[i] = w[Len(e) + i]
  <2> TAKE i \in 1..(k - 1)
  <2>1. i \in 1..Len(t) /\ i + 1 \in 1..k
    BY <1>1, <1>2, <1>5 DEF Lines
  <2>2. t[i] = b[i + 1]
    BY <1>2, <2>1
  <2>3. b[i + 1] = w[Len(d) + (i + 1)]
    BY <2>1 DEF Lines
  <2> QED BY <2>1, <2>2, <2>3, <1>1, <1>4
<1>10. Len(t) = k => t[Len(t)] = Exit
  BY <1>1, <1>2, <1>5 DEF Lines
<1>11. Len(t) \in {k - 1, (k - 1) + 1} /\ k - 1 \in Nat /\ (k - 1) + 1 = k
  BY <1>1, <1>2, <1>5 DEF Lines
<1>12. Lines(w, e, c, t)
  BY Zenon, <1>6, <1>8, <1>9, <1>10, <1>11, LinesOf
<1> QED BY <1>1, <1>2, <1>4, <1>6, <1>12 DEF NoNoticeIn, e, t

(* Taking the notice of an exit: it was alone in the mailbox.              *)
LEMMA NoticeTaken ==
    ASSUME NEW w \in Seq(Chunks), NEW d \in Seq(Chunks), NEW c, NEW b \in Seq(Posted),
           Lines(w, d, c, b), b # <<>>, Head(b) = Exit
    PROVE  /\ Tail(b) = <<>>
           /\ Lines(w, d, c, Tail(b))
           /\ NoNoticeIn(w, d, c, Tail(b))
<1>1. /\ Len(d) \in Nat /\ Len(w) \in Nat /\ Len(b) \in Nat \ {0}
      /\ Pending(c) \in {0, 1} /\ Backlog(w, d, c) \in Nat
  BY EmptySeq DEF Lines, Pending
<1>2. /\ Head(b) = b[1] /\ Tail(b) \in Seq(Posted) /\ Len(Tail(b)) = Len(b) - 1
  BY HeadTailProperties
<1>3. Backlog(w, d, c) = 0
  <2> SUFFICES ASSUME Backlog(w, d, c) # 0 PROVE FALSE
    OBVIOUS
  <2>1. b[1] = w[Len(d) + 1] /\ Len(d) + 1 \in 1..Len(w)
    BY <1>1 DEF Lines, Backlog
  <2> QED BY <1>2, <2>1, ElementOfSeq, ChunkIsNoExit
<1>4. Len(Tail(b)) = 0
  BY <1>1, <1>2, <1>3 DEF Lines
<1>5. Tail(b) = <<>>
  BY Zenon, <1>2, <1>4, EmptySeq
<1>6. \A i \in 1..Len(d) : d[i] = w[i]
  BY DEF Lines
<1>7. Lines(w, d, c, Tail(b))
  <2> DEFINE t == Tail(b)
  <2>1. Len(t) = 0
    BY <1>4
  <2> HIDE DEF t
  <2>2. /\ Len(t) \in {0, 0 + 1} /\ \A i \in 1..0 : t[i] = w[Len(d) + i]
        /\ Len(t) = 0 + 1 => t[Len(t)] = Exit
    BY <2>1
  <2>3. Lines(w, d, c, t)
    BY <1>3, <1>6, <2>2, LinesOf
  <2> QED BY <2>3 DEF t
<1> QED BY <1>3, <1>4, <1>5, <1>7 DEF NoNoticeIn

(* The writer's chunk gets its place in the mailbox (send_chunk).          *)
LEMMA ChunkPosted ==
    ASSUME NEW w \in Seq(Chunks), NEW d \in Seq(Chunks), NEW b \in Seq(Posted),
           Lines(w, d, "writing", b), NoNoticeIn(w, d, "writing", b)
    PROVE  /\ Append(b, w[Len(w)]) \in Seq(Posted)
           /\ Lines(w, d, "running", Append(b, w[Len(w)]))
           /\ NoNoticeIn(w, d, "running", Append(b, w[Len(w)]))
<1> DEFINE a == Append(b, w[Len(w)])
           k == Backlog(w, d, "writing")
<1>1. Len(d) \in Nat /\ Len(w) \in Nat /\ Len(b) = k /\ k \in Nat /\ k = Len(w) - 1 - Len(d)
  BY DEF Lines, NoNoticeIn, Backlog, Pending
<1>2. w[Len(w)] \in Posted
  BY <1>1, ElementOfSeq DEF Posted
<1>3. /\ a \in Seq(Posted) /\ Len(a) = k + 1
      /\ \A i \in 1..k : a[i] = b[i]
      /\ a[k + 1] = w[Len(w)]
  BY <1>1, <1>2, AppendProperties
<1> HIDE DEF a
<1>4. Backlog(w, d, "running") = k + 1
  BY <1>1, SMTT(30) DEF Backlog, Pending
<1>5. \A i \in 1..(k + 1) : a[i] = w[Len(d) + i]
  BY SMTT(30), <1>1, <1>3 DEF Lines
<1>6. Lines(w, d, "running", a)
  BY <1>1, <1>3, <1>4, <1>5 DEF Lines
<1> QED BY <1>3, <1>4, <1>6 DEF a, NoNoticeIn

(* A chunk is written and waits for room (write_starts).                   *)
LEMMA ChunkWritten ==
    ASSUME NEW w \in Seq(Chunks), NEW d \in Seq(Chunks), NEW b \in Seq(Posted), NEW x \in Chunks,
           Lines(w, d, "running", b), NoNoticeIn(w, d, "running", b)
    PROVE  /\ Append(w, x) \in Seq(Chunks)
           /\ Lines(Append(w, x), d, "writing", b)
           /\ NoNoticeIn(Append(w, x), d, "writing", b)
<1> DEFINE v == Append(w, x)
           k == Backlog(w, d, "running")
<1>1. Len(d) \in Nat /\ Len(w) \in Nat /\ Len(b) = k /\ k \in Nat /\ k = Len(w) - Len(d)
  BY DEF Lines, NoNoticeIn, Backlog, Pending
<1>2. v \in Seq(Chunks) /\ Len(v) = Len(w) + 1 /\ \A i \in 1..Len(w) : v[i] = w[i]
  BY AppendProperties
<1> HIDE DEF v
<1>3. Backlog(v, d, "writing") = k
  BY <1>1, <1>2 DEF Backlog, Pending
<1>4. \A i \in 1..Len(d) : d[i] = v[i]
  <2> TAKE i \in 1..Len(d)
  <2>1. i \in 1..Len(w)
    BY <1>1
  <2> QED BY <1>2, <2>1 DEF Lines
<1>5. \A i \in 1..k : b[i] = v[Len(d) + i]
  <2> TAKE i \in 1..k
  <2>1. Len(d) + i \in 1..Len(w)
    BY <1>1
  <2>2. b[i] = w[Len(d) + i]
    BY Zenon DEF Lines
  <2> QED BY <1>2, <2>1, <2>2
<1>6. Lines(v, d, "writing", b)
  BY ZenonT(30), <1>1, <1>3, <1>4, <1>5 DEF Lines
<1> QED BY <1>1, <1>2, <1>3, <1>6 DEF v, NoNoticeIn

(* An exit, with and without room for its notice (child_exit).             *)
LEMMA ExitPosted ==
    ASSUME NEW w \in Seq(Chunks), NEW d \in Seq(Chunks), NEW b \in Seq(Posted),
           Lines(w, d, "running", b), NoNoticeIn(w, d, "running", b)
    PROVE  /\ Lines(w, d, "zombie", b)
           /\ Append(b, Exit) \in Seq(Posted)
           /\ Lines(w, d, "zombie", Append(b, Exit))
<1> DEFINE a == Append(b, Exit)
           k == Backlog(w, d, "running")
<1>1. /\ Len(b) = k /\ k \in Nat
      /\ Backlog(w, d, "zombie") = k
  BY DEF Lines, NoNoticeIn, Backlog, Pending
<1>2. /\ a \in Seq(Posted) /\ Len(a) = k + 1
      /\ \A i \in 1..k : a[i] = b[i]
      /\ a[k + 1] = Exit
  BY SMTT(30), <1>1, AppendProperties DEF Posted
<1> HIDE DEF a
<1>3. Lines(w, d, "zombie", b)
  BY Zenon, <1>1 DEF Lines
<1>4. Lines(w, d, "zombie", a)
  BY Zenon, <1>1, <1>2 DEF Lines
<1> QED BY <1>2, <1>3, <1>4 DEF a

(* A child that is not writing has nothing in its hands.                   *)
LEMMA SameBacklog ==
    ASSUME NEW w, NEW d, NEW b, NEW c, NEW e, c # "writing", e # "writing",
           Lines(w, d, c, b)
    PROVE  /\ Lines(w, d, e, b)
           /\ NoNoticeIn(w, d, c, b) <=> NoNoticeIn(w, d, e, b)
<1>1. Backlog(w, d, c) = Backlog(w, d, e)
  BY DEF Backlog, Pending
<1> QED BY <1>1 DEF Lines, NoNoticeIn

-----------------------------------------------------------------------------
LEMMA ShellInitIInv == ShellInit => ShellIInv
<1> SUFFICES ASSUME ShellInit PROVE ShellIInv
  OBVIOUS
<1>1. written = <<>> /\ displayed = <<>> /\ inbox = <<>> /\ child = "none" /\ spc = "keys"
  BY DEF ShellInit
<1>2. ShellTypeOK
  BY <1>1, EmptySeq DEF ShellTypeOK
<1>3. Backlog(written, displayed, child) = 0 /\ Len(inbox) = 0 /\ Len(displayed) = 0
  BY <1>1 DEF Backlog, Pending
<1>4. Lines(written, displayed, child, inbox)
  BY <1>3 DEF Lines
<1> QED BY <1>1, <1>2, <1>3, <1>4 DEF ShellIInv, NoNoticeIn

(* What every loop of drain_child_output does with the mailbox: a chunk is *)
(* drawn, or the mailbox is found empty or has only the notice, and then   *)
(* all chunks posted so far are on the screen.                             *)
LEMMA ShowOneKeeps ==
    ASSUME ShellIInv, ShowOne, UNCHANGED <<child, written>>
    PROVE  /\ inbox' \in Seq(Posted) /\ displayed' \in Seq(Chunks)
           /\ Lines(written, displayed, child, inbox)'
           /\ NoNoticeIn(written, displayed, child, inbox) => NoNoticeIn(written, displayed, child, inbox)'
           /\ ~GotText => inbox' = <<>> /\ NoNoticeIn(written, displayed, child, inbox)'
<1>1. /\ written \in Seq(Chunks) /\ displayed \in Seq(Chunks) /\ inbox \in Seq(Posted)
      /\ Lines(written, displayed, child, inbox)
  BY DEF ShellIInv, ShellTypeOK
<1>2. CASE GotText
  <2>1. inbox' = Tail(inbox) /\ displayed' = Append(displayed, Head(inbox))
    BY <1>2 DEF ShowOne, GotText
  <2> QED BY <1>1, <1>2, <2>1, ChunkShown DEF GotText
<1>3. CASE inbox # <<>> /\ Head(inbox) = Exit
  <2>1. inbox' = Tail(inbox) /\ displayed' = displayed
    BY <1>3 DEF ShowOne
  <2>2. Tail(inbox) \in Seq(Posted)
    BY <1>1, <1>3, HeadTailProperties
  <2> QED BY <1>1, <1>3, <2>1, <2>2, NoticeTaken DEF GotText
<1>4. CASE inbox = <<>>
  <2>1. inbox' = inbox /\ displayed' = displayed
    BY <1>4 DEF ShowOne
  <2>2. Len(inbox) = 0
    BY <1>4
  <2>3. NoNoticeIn(written, displayed, child, inbox)
    BY <1>1, <2>2 DEF Lines, NoNoticeIn
  <2> QED BY <1>1, <1>4, <2>1, <2>3
<1> QED BY <1>2, <1>3, <1>4 DEF GotText

LEMMA RecvLoopKeeps ==
    ASSUME ShellIInv, NEW here, NEW next, RecvLoop(here, next),
           <<here, next>> \in {<<"recv", "check">>, <<"recv2", "check2">>, <<"final", "keys">>}
    PROVE  ShellIInv'
<1>1. ShowOne /\ UNCHANGED <<child, written>> /\ spc = here
      /\ spc' = IF GotText THEN here ELSE next
  BY DEF RecvLoop
<1>2. /\ inbox' \in Seq(Posted) /\ displayed' \in Seq(Chunks)
      /\ Lines(written, displayed, child, inbox)'
      /\ NoNoticeIn(written, displayed, child, inbox) => NoNoticeIn(written, displayed, child, inbox)'
      /\ ~GotText => inbox' = <<>> /\ NoNoticeIn(written, displayed, child, inbox)'
  BY <1>1, ShowOneKeeps
<1>3. ShellTypeOK'
  BY <1>1, <1>2 DEF ShellIInv, ShellTypeOK
<1>4. (NoNoticeIn(written, displayed, child, inbox) \/ child = "zombie" \/ spc = "final")'
  BY <1>1, <1>2 DEF ShellIInv
<1>5. (child = "none" <=> spc \in {"keys", "final"})' /\ (spc = "keys" => inbox = <<>>)'
  BY <1>1, <1>2 DEF ShellIInv
<1> QED BY <1>2, <1>3, <1>4, <1>5 DEF ShellIInv

LEMMA IpcRecvWaitKeeps ==
    ASSUME ShellIInv, ipc_recv_wait
    PROVE  ShellIInv'
<1>1. ShowOne /\ UNCHANGED <<child, written>> /\ spc = "wait" /\ spc' \in {"recv2", "check2"}
  BY DEF ipc_recv_wait
<1>2. /\ inbox' \in Seq(Posted) /\ displayed' \in Seq(Chunks)
      /\ Lines(written, displayed, child, inbox)'
      /\ NoNoticeIn(written, displayed, child, inbox) => NoNoticeIn(written, displayed, child, inbox)'
  BY <1>1, ShowOneKeeps
<1>3. ShellTypeOK'
  BY <1>1, <1>2 DEF ShellIInv, ShellTypeOK
<1>4. (NoNoticeIn(written, displayed, child, inbox) \/ child = "zombie" \/ spc = "final")'
  BY <1>1, <1>2 DEF ShellIInv
<1>5. (child = "none" <=> spc \in {"keys", "final"})' /\ (spc = "keys" => inbox = <<>>)'
  BY <1>1 DEF ShellIInv
<1> QED BY <1>2, <1>3, <1>4, <1>5 DEF ShellIInv

LEMMA WaitNonblockingKeeps ==
    ASSUME ShellIInv, NEW here, NEW next, wait_nonblocking(here, next),
           <<here, next>> \in {<<"check", "wait">>, <<"check2", "recv">>}
    PROVE  ShellIInv'
<1>1. UNCHANGED <<inbox, written, displayed>> /\ spc = here
  BY DEF wait_nonblocking
<1>2. CASE child = "zombie"
  <2>1. child' = "none" /\ spc' = "final"
    BY <1>2 DEF wait_nonblocking, AfterReap
  <2>2. Lines(written, displayed, child, inbox)'
    BY <1>1, <1>2, <2>1, SameBacklog DEF ShellIInv
  <2> QED BY <1>1, <2>1, <2>2 DEF ShellIInv, ShellTypeOK
<1>3. CASE child # "zombie"
  <2>1. child' = child /\ spc' = next
    BY <1>3 DEF wait_nonblocking
  <2> QED BY <1>1, <1>3, <2>1 DEF ShellIInv, ShellTypeOK
<1> QED BY <1>2, <1>3

(* A key: the line may start a program, at a prompt with nothing to show.  *)
LEMMA ReadKeyKeeps ==
    ASSUME ShellIInv, read_key
    PROVE  ShellIInv'
<1>1. UNCHANGED <<inbox, written, displayed>> /\ spc = "keys" /\ child = "none"
  BY DEF read_key, ShellIInv
<1>2. \/ spc' = "recv" /\ child' = "running"
      \/ UNCHANGED <<spc, child>>
  BY DEF read_key, handle_line
<1>3. CASE spc' = "recv" /\ child' = "running"
  <2>1. /\ Lines(written, displayed, child, inbox)'
        /\ NoNoticeIn(written, displayed, child, inbox)'
    BY <1>1, <1>3, SameBacklog DEF ShellIInv
  <2> QED BY <1>1, <1>3, <2>1 DEF ShellIInv, ShellTypeOK
<1>4. CASE UNCHANGED <<spc, child>>
  BY <1>1, <1>4 DEF ShellIInv, ShellTypeOK
<1> QED BY <1>2, <1>3, <1>4

LEMMA ShellNextIInv ==
    ASSUME ShellIInv, [ShellNext]_shellVars
    PROVE  ShellIInv'
<1>1. CASE read_key
  BY <1>1, ReadKeyKeeps
<1>2. CASE RecvLoop("recv", "check")
  BY <1>2, RecvLoopKeeps
<1>3. CASE wait_nonblocking("check", "wait")
  BY <1>3, WaitNonblockingKeeps
<1>4. CASE ipc_recv_wait
  BY <1>4, IpcRecvWaitKeeps
<1>5. CASE RecvLoop("recv2", "check2")
  BY <1>5, RecvLoopKeeps
<1>6. CASE wait_nonblocking("check2", "recv")
  BY <1>6, WaitNonblockingKeeps
<1>7. CASE RecvLoop("final", "keys")
  BY <1>7, RecvLoopKeeps
<1>8. CASE write_starts
  <2>1. /\ child = "running" /\ child' = "writing" /\ UNCHANGED <<spc, inbox, displayed>>
        /\ written' = Append(written, [from |-> "child", n |-> Len(written) + 1])
    BY <1>8 DEF write_starts
  <2>2. [from |-> "child", n |-> Len(written) + 1] \in Chunks
    BY DEF ShellIInv, ShellTypeOK, Chunks
  <2>3. spc \notin {"keys", "final"} /\ NoNoticeIn(written, displayed, "running", inbox)
    BY <2>1 DEF ShellIInv
  <2>4. /\ written' \in Seq(Chunks)
        /\ Lines(written, displayed, child, inbox)'
        /\ NoNoticeIn(written, displayed, child, inbox)'
    BY <2>1, <2>2, <2>3, ChunkWritten DEF ShellIInv, ShellTypeOK
  <2> QED BY <2>1, <2>3, <2>4 DEF ShellIInv, ShellTypeOK
<1>9. CASE send_chunk
  <2>1. /\ child = "writing" /\ child' = "running" /\ UNCHANGED <<spc, written, displayed>>
        /\ inbox' = Append(inbox, written[Len(written)])
    BY <1>9 DEF send_chunk
  <2>2. spc \notin {"keys", "final"} /\ NoNoticeIn(written, displayed, "writing", inbox)
    BY <2>1 DEF ShellIInv
  <2>3. /\ inbox' \in Seq(Posted)
        /\ Lines(written, displayed, child, inbox)'
        /\ NoNoticeIn(written, displayed, child, inbox)'
    BY <2>1, <2>2, ChunkPosted DEF ShellIInv, ShellTypeOK
  <2> QED BY <2>1, <2>2, <2>3 DEF ShellIInv, ShellTypeOK
<1>10. CASE child_exit
  <2>1. /\ child = "running" /\ child' = "zombie" /\ UNCHANGED <<spc, written, displayed>>
        /\ inbox' \in {inbox, Append(inbox, Exit)}
    BY <1>10 DEF child_exit
  <2>2. spc \notin {"keys", "final"} /\ NoNoticeIn(written, displayed, "running", inbox)
    BY <2>1 DEF ShellIInv
  <2>3. /\ inbox' \in Seq(Posted)
        /\ Lines(written, displayed, child, inbox)'
    BY ZenonT(30), <2>1, <2>2, ExitPosted DEF ShellIInv, ShellTypeOK
  <2> QED BY <2>1, <2>2, <2>3 DEF ShellIInv, ShellTypeOK
<1>11. CASE UNCHANGED shellVars
  BY <1>11 DEF ShellIInv, ShellTypeOK, shellVars
<1> QED
  BY <1>1, <1>2, <1>3, <1>4, <1>5, <1>6, <1>7, <1>8, <1>9, <1>10, <1>11
  DEF ShellNext, drain_child_output

LEMMA ShellIInvShows == ShellIInv => ChildOutputComplete
<1> SUFFICES ASSUME ShellIInv PROVE ChildOutputComplete
  OBVIOUS
<1> DEFINE p == SubSeq(written, 1, Len(displayed))
<1>1. /\ written \in Seq(Chunks) /\ displayed \in Seq(Chunks)
      /\ Len(written) \in Nat /\ Len(displayed) \in Nat /\ Len(displayed) <= Len(written)
  BY DEF ShellIInv, ShellTypeOK, Lines, Backlog, Pending
<1>2. \A i \in 1..Len(displayed) : written[i] \in Chunks
  BY <1>1, ElementOfSeq
<1>3. /\ p \in Seq(Chunks) /\ Len(p) = Len(displayed)
      /\ \A i \in 1..Len(displayed) : p[i] = written[i]
  BY SMTT(30), <1>1, <1>2, SubSeqProperties
<1>4. \A i \in 1..Len(displayed) : displayed[i] = written[i]
  BY Zenon DEF ShellIInv, Lines
<1> HIDE DEF p
<1>5. displayed = p
  BY <1>1, <1>3, <1>4, SeqEqual
<1>6. ASSUME spc = "keys" PROVE displayed = written
  <2>1. Len(inbox) = 0 /\ child = "none"
    BY <1>6 DEF ShellIInv
  <2>2. Len(displayed) = Len(written)
    BY <1>1, <2>1 DEF ShellIInv, Lines, Backlog, Pending
  <2> QED BY <1>1, <1>4, <2>2, SeqEqual
<1> QED BY <1>5, <1>6 DEF ChildOutputComplete, p

(* Nothing a child of the shell prints is lost or reordered, for every     *)
(* size of the mailbox, however many chunks are written, and whether or    *)
(* not the notice of the exit fits: drain_child_output shows all of it     *)
(* before the prompt returns.                                              *)
THEOREM ShellShowsChildOutput == ShellSpec => []ChildOutputComplete
<1>1. ShellInit => ShellIInv
  BY ShellInitIInv
<1>2. ShellIInv /\ [ShellNext]_shellVars => ShellIInv'
  BY ShellNextIInv
<1>3. ShellIInv => ChildOutputComplete
  BY ShellIInvShows
<1> QED BY <1>1, <1>2, <1>3, PTL DEF ShellSpec
=============================================================================
