--------------------------- MODULE ReceiveProofs ----------------------------
(***************************************************************************)
(* Proofs about threads that block for input on top of the scheduler, for  *)
(* every queue size and every set of threads.                              *)
(*                                                                         *)
(* IPC (Ipc), for every capacity of the mailboxes and any number of        *)
(* messages: no wake-up of a blocked receiver is lost, no registration     *)
(* outlives its receive and no message is dropped while its addressee owns *)
(* the mailbox.                                                            *)
(*                                                                         *)
(* The path of a scancode (Keyboard), for every capacity of the buffers and *)
(* any number of scancodes: it keeps its order, and the Mutexes of the two *)
(* Fifos never leave the CPU.                                              *)
(***************************************************************************)
EXTENDS IpcSendProofs, Keyboard

-----------------------------------------------------------------------------
(* Scans *)

(* A set of numbers has a least one: what the lemmas on the code's scans   *)
(* need, and LEMMA NatWellOrdered provides.                                *)
WellOrdered == \A T \in SUBSET Nat : T # {} => \E x \in T : \A y \in T : x =< y

LEMMA FirstIsLeast ==
    ASSUME WellOrdered, NEW T, T \subseteq Nat, T # {}
    PROVE  First(T) \in T /\ \A y \in T : First(T) <= y
<1>1. \E x \in T : \A y \in T : x =< y
  BY DEF WellOrdered
<1> QED BY <1>1, Zenon DEF First

(* pop_valid_for_receiver_copy stops at the first message for t.           *)
LEMMA FirstForFacts ==
    ASSUME WellOrdered, NEW q, Len(q) \in Nat, NEW t
    PROVE  /\ FirstFor(q, t) \in 0 .. Len(q)
           /\ FirstFor(q, t) # 0 => IsFor(q[FirstFor(q, t)], t)
           /\ \A j \in 1 .. Len(q) :
                 IsFor(q[j], t) => FirstFor(q, t) # 0 /\ FirstFor(q, t) <= j
<1> DEFINE I == {i \in 1 .. Len(q) : IsFor(q[i], t)}
<1>1. FirstFor(q, t) = First(I) /\ (I = {} => First(I) = 0)
  BY DEF FirstFor, First
<1>2. I # {} => First(I) \in I /\ \A y \in I : First(I) <= y
  <2>1. I \subseteq Nat
    OBVIOUS
  <2> QED BY Zenon, <2>1, FirstIsLeast
<1>3. \A j \in 1 .. Len(q) : IsFor(q[j], t) => j \in I
  OBVIOUS
<1>4. \A i \in I : i \in 1 .. Len(q) /\ IsFor(q[i], t)
  OBVIOUS
<1> HIDE DEF I
<1>5. CASE I = {}
  BY <1>1, <1>3, <1>5
<1>6. CASE I # {}
  BY <1>1, <1>2, <1>3, <1>4, <1>6
<1> QED BY <1>5, <1>6

(* What SubSeq returns; it need not lie within q.                          *)
LEMMA PartElements ==
    ASSUME NEW S, NEW q, NEW a \in Int, NEW b \in Int, \A k \in a .. b : q[k] \in S
    PROVE  /\ SubSeq(q, a, b) \in Seq(S)
           /\ Len(SubSeq(q, a, b)) = IF a <= b THEN b - a + 1 ELSE 0
           /\ \A k \in 1 .. b - a + 1 : SubSeq(q, a, b)[k] = q[a + k - 1]
  OBVIOUS

(* The part of a mailbox from message a to message b.                      *)
LEMMA PartOf ==
    ASSUME NEW S, NEW q \in Seq(S), NEW a \in 1 .. Len(q) + 1, NEW b \in 0 .. Len(q), a <= b + 1
    PROVE  /\ SubSeq(q, a, b) \in Seq(S)
           /\ Len(SubSeq(q, a, b)) = b + 1 - a
           /\ \A k \in 1 .. b + 1 - a : SubSeq(q, a, b)[k] = q[k + a - 1]
<1>1. \A k \in a .. b : q[k] \in S
  OBVIOUS
<1>2. /\ SubSeq(q, a, b) \in Seq(S)
      /\ Len(SubSeq(q, a, b)) = IF a <= b THEN b - a + 1 ELSE 0
      /\ \A k \in 1 .. b - a + 1 : SubSeq(q, a, b)[k] = q[a + k - 1]
  <2>1. a \in Int /\ b \in Int
    OBVIOUS
  <2> QED BY <1>1, <2>1, PartElements
<1>3. b - a + 1 = b + 1 - a /\ \A k \in 1 .. b + 1 - a : a + k - 1 = k + a - 1
  OBVIOUS
<1> QED BY SMTT(30), <1>2, <1>3

-----------------------------------------------------------------------------
(* Receiving *)

(* What a receive may do: it takes messages out of the caller's own        *)
(* mailbox, and hands over at most one.                                    *)
Takes ==
    /\ mailbox' \in [Slots -> Seq(AnyMessage)]
    /\ \A r \in Slots \ {SlotOf(cpu)} : mailbox'[r] = mailbox[r]
    /\ \A i \in 1 .. Len(mailbox'[SlotOf(cpu)]) : \E j \in 1 .. Len(mailbox[SlotOf(cpu)]) :
          mailbox'[SlotOf(cpu)][i] = mailbox[SlotOf(cpu)][j]
    /\ got' \in [Tids -> AnyMessage \cup [lost : AnyMessage] \cup {NoThread}]

(* A message that leaves mailbox s was handed over, or lost on its way to  *)
(* a bad buffer, or its addressee no longer owns the slot.                 *)
DropsOnly(s) ==
    \A m \in Messages(mailbox[s]) \ Messages(mailbox'[s]) :
        got'[m.to] \in Received(m) \/ threads[s] # m.to

(* A message of the mailbox whose addressee owns the slot is for it.       *)
LEMMA OwnMessageIsFor ==
    ASSUME IpcIInv, NEW t \in Tids, state[t] # "Absent",
           NEW j \in 1 .. Len(mailbox[SlotOf(t)]), mailbox[SlotOf(t)][j].to = t
    PROVE  IsFor(mailbox[SlotOf(t)][j], t)
<1>1. SlotOf(t) \in Slots /\ threads[SlotOf(t)] = t
  BY SlotOfFacts DEF IpcIInv
<1> QED BY <1>1 DEF IpcIInv, GenerationsMatch, IsFor

LEMMA ReceivedTyped ==
    ASSUME NEW m \in AnyMessage, NEW r \in Received(m)
    PROVE  r \in AnyMessage \cup [lost : AnyMessage]
BY DEF Received

LEMMA DropThroughFacts ==
    ASSUME NEW q \in Seq(AnyMessage), NEW i \in 1 .. Len(q)
    PROVE  /\ DropThrough(q, i) \in Seq(AnyMessage)
           /\ Len(DropThrough(q, i)) = Len(q) - i
           /\ \A k \in 1 .. Len(q) - i : DropThrough(q, i)[k] = q[k + i]
<1>1. /\ i + 1 \in 1 .. Len(q) + 1 /\ Len(q) \in 0 .. Len(q) /\ i + 1 <= Len(q) + 1
      /\ Len(q) + 1 - (i + 1) = Len(q) - i
      /\ \A k \in 1 .. Len(q) - i : k + (i + 1) - 1 = k + i
  OBVIOUS
<1> QED BY <1>1, PartOf DEF DropThrough

LEMMA PopValidTakes ==
    ASSUME WellOrdered, IpcIInv, pc[cpu] = "syscall", PopValid(cpu)
    PROVE  /\ Takes
           /\ ~ HasMessage(cpu) => mailbox'[SlotOf(cpu)] = <<>>
           /\ DropsOnly(SlotOf(cpu))
<1> DEFINE s == SlotOf(cpu)
           q == mailbox[s]
           i == FirstFor(q, cpu)
<1>1. cpu \in Tids /\ s \in Slots /\ threads[s] = cpu /\ state[cpu] # "Absent"
  BY CallerAwake
<1>2. /\ q \in Seq(AnyMessage) /\ Len(q) \in Nat /\ DOMAIN q = 1 .. Len(q)
      /\ mailbox \in [Slots -> Seq(AnyMessage)]
      /\ got \in [Tids -> AnyMessage \cup [lost : AnyMessage] \cup {NoThread}]
  BY <1>1 DEF IpcIInv, IpcTypeOK
<1>3. /\ i \in 0 .. Len(q)
      /\ i # 0 => IsFor(q[i], cpu)
      /\ \A j \in 1 .. Len(q) : IsFor(q[j], cpu) => i # 0 /\ i <= j
  BY <1>2, FirstForFacts
<1>4. IF i = 0
      THEN /\ mailbox' = [mailbox EXCEPT ![s] = <<>>]
           /\ got' = [got EXCEPT ![cpu] = NoThread]
      ELSE /\ mailbox' = [mailbox EXCEPT ![s] = DropThrough(q, i)]
           /\ \E r \in Received(q[i]) : got' = [got EXCEPT ![cpu] = r]
  BY DEF PopValid
<1>5. HasMessage(cpu) <=> i # 0
  BY DEF HasMessage
<1>6. \A j \in 1 .. Len(q) : q[j].to = cpu => i # 0 /\ i <= j
  BY <1>1, <1>3, OwnMessageIsFor
<1> HIDE DEF i, s
<1>7. CASE i = 0
  <2>1. /\ mailbox' = [mailbox EXCEPT ![s] = <<>>] /\ got' = [got EXCEPT ![cpu] = NoThread]
    BY <1>4, <1>7
  <2>2. mailbox'[s] = <<>> /\ <<>> \in Seq(AnyMessage)
    BY <1>1, <1>2, <2>1
  <2>3. Takes
    BY <1>1, <1>2, <2>1, <2>2 DEF Takes, s
  <2>4. DropsOnly(s)
    BY <1>1, <1>2, <1>6, <1>7 DEF DropsOnly, Messages
  <2> QED BY <2>2, <2>3, <2>4 DEF s
<1>8. CASE i # 0
  <2>1. /\ mailbox' = [mailbox EXCEPT ![s] = DropThrough(q, i)]
        /\ i \in 1 .. Len(q) /\ q[i].to = cpu /\ q[i] \in AnyMessage
    BY <1>2, <1>3, <1>4, <1>8 DEF IsFor
  <2>2. PICK r \in Received(q[i]) : got' = [got EXCEPT ![cpu] = r]
    BY <1>4, <1>8
  <2>3. r \in AnyMessage \cup [lost : AnyMessage]
    BY <2>1, <2>2, ReceivedTyped
  <2>4. /\ mailbox'[s] = DropThrough(q, i)
        /\ DropThrough(q, i) \in Seq(AnyMessage)
        /\ Len(DropThrough(q, i)) = Len(q) - i
        /\ \A k \in 1 .. Len(q) - i : DropThrough(q, i)[k] = q[k + i]
    BY Zenon, <1>1, <1>2, <2>1, DropThroughFacts
  <2>5. \A k \in 1 .. Len(mailbox'[s]) : \E j \in 1 .. Len(q) : mailbox'[s][k] = q[j]
    <3>1. \A k \in 1 .. Len(q) - i : k + i \in 1 .. Len(q)
      BY <1>2, <2>1
    <3> QED BY Zenon, <2>4, <3>1
  <2>6. Takes
    <3>1. mailbox' \in [Slots -> Seq(AnyMessage)]
      BY <1>1, <1>2, <2>1, <2>4
    <3>2. got' \in [Tids -> AnyMessage \cup [lost : AnyMessage] \cup {NoThread}]
      BY <1>1, <1>2, <2>2, <2>3
    <3>3. \A t \in Slots \ {s} : mailbox'[t] = mailbox[t]
      BY <1>2, <2>1
    <3> QED BY <2>5, <3>1, <3>2, <3>3 DEF Takes, s
  <2>7. DropsOnly(s)
    <3> SUFFICES ASSUME NEW m \in Messages(mailbox[s]) \ Messages(mailbox'[s]), threads[s] = m.to
                 PROVE  got'[m.to] \in Received(m)
      BY DEF DropsOnly
    <3>1. PICK j \in 1 .. Len(q) : m = q[j]
      BY <1>2 DEF Messages
    <3>2. i <= j
      BY Zenon, <1>1, <1>6, <3>1
    <3>3. ~ (i < j)
      <4> SUFFICES ASSUME i < j PROVE FALSE
        OBVIOUS
      <4>1. j - i \in 1 .. Len(q) - i /\ (j - i) + i = j
        BY <2>1
      <4>2. mailbox'[s][j - i] = m
        BY <2>4, <3>1, <4>1
      <4>3. Len(mailbox'[s]) = Len(q) - i
        BY Zenon, <2>4
      <4>4. \E k \in 1 .. Len(mailbox'[s]) : m = mailbox'[s][k]
        BY Zenon, <4>1, <4>2, <4>3
      <4>5. m \in Messages(mailbox'[s])
        BY Zenon, <4>4 DEF Messages
      <4> QED BY Zenon, <4>5
    <3>4. m = q[i] /\ m.to = cpu
      BY <2>1, <3>1, <3>2, <3>3
    <3> QED BY <1>1, <1>2, <2>2, <3>4
  <2> QED BY <1>5, <1>8, <2>6, <2>7 DEF s
<1> QED BY <1>7, <1>8

LEMMA FromSenderTakes ==
    ASSUME WellOrdered, IpcIInv, NEW f \in Tids, recv_from_sender(f)
    PROVE  Takes /\ DropsOnly(SlotOf(cpu))
<1> DEFINE s == SlotOf(cpu)
           q == mailbox[s]
           i == First({j \in 1 .. Len(q) : q[j].from = f /\ IsFor(q[j], cpu)})
           R == DropThrough(q, i) \o SubSeq(q, 1, i - 1)
<1>1. cpu \in Tids /\ s \in Slots /\ threads[s] = cpu /\ state[cpu] # "Absent"
  BY CallerAwake DEF recv_from_sender
<1>2. /\ q \in Seq(AnyMessage) /\ Len(q) \in Nat /\ DOMAIN q = 1 .. Len(q)
      /\ mailbox \in [Slots -> Seq(AnyMessage)]
      /\ got \in [Tids -> AnyMessage \cup [lost : AnyMessage] \cup {NoThread}]
  BY <1>1 DEF IpcIInv, IpcTypeOK
<1>3. i \in 0 .. Len(q) /\ (i # 0 => IsFor(q[i], cpu))
  <2> DEFINE I == {j \in 1 .. Len(q) : q[j].from = f /\ IsFor(q[j], cpu)}
  <2>1. i = First(I) /\ (I = {} => First(I) = 0)
    BY DEF First
  <2>2. I \subseteq Nat
    OBVIOUS
  <2>3. I # {} => First(I) \in I
    BY Zenon, <2>2, FirstIsLeast
  <2> HIDE DEF i
  <2> QED BY <1>2, <2>1, <2>3
<1>4. IF i = 0
      THEN got' = [got EXCEPT ![cpu] = NoThread] /\ UNCHANGED mailbox
      ELSE got' = [got EXCEPT ![cpu] = q[i]] /\ mailbox' = [mailbox EXCEPT ![s] = R]
  BY Zenon DEF recv_from_sender
<1> HIDE DEF i, s, R
<1>5. CASE i = 0
  BY <1>1, <1>2, <1>4, <1>5 DEF Takes, DropsOnly, s
<1>6. CASE i # 0
  <2>1. /\ i \in 1 .. Len(q) /\ q[i].to = cpu /\ q[i] \in AnyMessage
        /\ got' = [got EXCEPT ![cpu] = q[i]] /\ mailbox' = [mailbox EXCEPT ![s] = R]
    BY <1>2, <1>3, <1>4, <1>6 DEF IsFor
  <2>2. /\ DropThrough(q, i) \in Seq(AnyMessage)
        /\ Len(DropThrough(q, i)) = Len(q) - i
        /\ \A k \in 1 .. Len(q) - i : DropThrough(q, i)[k] = q[k + i]
    BY Zenon, <1>2, <2>1, DropThroughFacts
  <2>3. /\ SubSeq(q, 1, i - 1) \in Seq(AnyMessage)
        /\ Len(SubSeq(q, 1, i - 1)) = i - 1
        /\ \A k \in 1 .. i - 1 : SubSeq(q, 1, i - 1)[k] = q[k]
    <3>1. /\ 1 \in 1 .. Len(q) + 1 /\ i - 1 \in 0 .. Len(q) /\ 1 <= (i - 1) + 1
          /\ (i - 1) + 1 - 1 = i - 1 /\ \A k \in 1 .. i - 1 : k + 1 - 1 = k
      BY <1>2, <2>1
    <3> QED BY <1>2, <3>1, PartOf
  <2>4. /\ R \in Seq(AnyMessage) /\ Len(R) = Len(q) - 1
        /\ \A k \in 1 .. Len(q) - i : R[k] = q[k + i]
        /\ \A k \in Len(q) - i + 1 .. Len(q) - 1 : R[k] = q[k - (Len(q) - i)]
    <3> DEFINE A == DropThrough(q, i)
               B == SubSeq(q, 1, i - 1)
    <3>1. A \in Seq(AnyMessage) /\ B \in Seq(AnyMessage) /\ R = A \o B
      BY <2>2, <2>3 DEF R
    <3>2. Len(A) = Len(q) - i /\ Len(B) = i - 1 /\ Len(A) + Len(B) = Len(q) - 1
      BY <1>2, <2>1, <2>2, <2>3
    <3> HIDE DEF A, B
    <3>3. /\ R \in Seq(AnyMessage) /\ Len(R) = Len(A) + Len(B)
          /\ \A k \in 1 .. Len(A) + Len(B) :
                R[k] = IF k <= Len(A) THEN A[k] ELSE B[k - Len(A)]
      BY <3>1
    <3>4. /\ R \in Seq(AnyMessage) /\ Len(R) = Len(q) - 1
          /\ \A k \in 1 .. Len(q) - 1 :
                R[k] = IF k <= Len(q) - i THEN A[k] ELSE B[k - (Len(q) - i)]
      BY <3>2, <3>3
    <3>5. \A k \in 1 .. Len(q) - i : k \in 1 .. Len(q) - 1 /\ k <= Len(q) - i
      BY <1>2, <2>1
    <3>6. \A k \in 1 .. Len(q) - i : R[k] = q[k + i]
      BY <2>2, <3>4, <3>5, SMTT(30) DEF A
    <3>7. ASSUME NEW k \in Len(q) - i + 1 .. Len(q) - 1 PROVE R[k] = q[k - (Len(q) - i)]
      <4>1. k \in 1 .. Len(q) - 1 /\ ~ (k <= Len(q) - i) /\ k - (Len(q) - i) \in 1 .. i - 1
        <5>1. Len(q) \in Int /\ i \in Int /\ i <= Len(q) /\ k \in Int
              /\ k >= Len(q) - i + 1 /\ k <= Len(q) - 1
          BY <1>2, <2>1, <3>7
        <5> QED BY <5>1
      <4> QED BY Zenon, <2>3, <3>4, <4>1 DEF B
    <3> QED BY <3>4, <3>6, <3>7
  <2>5. mailbox'[s] = R /\ \A t \in Slots \ {s} : mailbox'[t] = mailbox[t]
    BY <1>1, <1>2, <2>1
  <2>6. \A k \in 1 .. Len(R) : \E j \in 1 .. Len(q) : R[k] = q[j]
    <3> SUFFICES ASSUME NEW k \in 1 .. Len(R) PROVE \E j \in 1 .. Len(q) : R[k] = q[j]
      OBVIOUS
    <3>1. CASE k \in 1 .. Len(q) - i
      <4>1. k + i \in 1 .. Len(q)
        BY <1>2, <2>1, <3>1
      <4> QED BY <2>4, <3>1, <4>1
    <3>2. CASE k \in Len(q) - i + 1 .. Len(q) - 1
      <4>1. k - (Len(q) - i) \in 1 .. Len(q)
        BY <1>2, <2>1, <3>2
      <4> QED BY <2>4, <3>2, <4>1
    <3> QED BY <1>2, <2>1, <2>4, <3>1, <3>2
  <2>7. Takes
    <3>1. mailbox' \in [Slots -> Seq(AnyMessage)]
      BY <1>1, <1>2, <2>1, <2>4
    <3>2. got' \in [Tids -> AnyMessage \cup [lost : AnyMessage] \cup {NoThread}]
      BY <1>1, <1>2, <2>1
    <3> QED BY <2>5, <2>6, <3>1, <3>2 DEF Takes, s
  <2>8. DropsOnly(s)
    <3> SUFFICES ASSUME NEW m \in Messages(mailbox[s]) \ Messages(mailbox'[s]), threads[s] = m.to
                 PROVE  got'[m.to] \in Received(m)
      BY DEF DropsOnly
    <3>1. PICK j \in 1 .. Len(q) : m = q[j]
      BY <1>2 DEF Messages
    <3>2. DOMAIN R = 1 .. Len(q) - 1
      BY <2>4
    <3>3. ASSUME j > i PROVE FALSE
      <4>1. j - i \in 1 .. Len(q) - i /\ (j - i) + i = j /\ j - i \in 1 .. Len(q) - 1
        BY <1>2, <2>1, <3>3
      <4> QED BY <2>4, <2>5, <3>1, <3>2, <4>1 DEF Messages
    <3>4. ASSUME j < i PROVE FALSE
      <4> DEFINE k == j + (Len(q) - i)
      <4>1. k \in Len(q) - i + 1 .. Len(q) - 1 /\ k - (Len(q) - i) = j /\ k \in 1 .. Len(q) - 1
        BY <1>2, <2>1, <3>4
      <4> HIDE DEF k
      <4> QED BY Zenon, <2>4, <2>5, <3>1, <3>2, <4>1 DEF Messages
    <3>5. j = i
      BY <1>2, <2>1, <3>3, <3>4
    <3> QED BY <1>1, <1>2, <2>1, <3>1, <3>5 DEF Received
  <2> QED BY <2>7, <2>8 DEF s
<1> QED BY <1>5, <1>6

(* Taking messages out of one's own mailbox disturbs nobody else.          *)
LEMMA TakesKeeps ==
    ASSUME IpcIInv, pc[cpu] = "syscall", Takes, UNCHANGED <<schedVars, used>>
    PROVE  /\ IInv'
           /\ \A t \in Tids : state[t] # "Absent" => t \in used'
           /\ \A r \in Slots : \A i \in 1 .. Len(mailbox'[r]) :
                 /\ mailbox'[r][i].to \in used'
                 /\ threads'[r] = mailbox'[r][i].to
                    => mailbox'[r][i].to_generation = slot_generations'[r]
           /\ \A t \in Tids \ {cpu} : state[t] # "Absent" =>
                 SlotOf(t) \in Slots /\ SlotOf(t) # SlotOf(cpu)
                 /\ mailbox'[SlotOf(t)] = mailbox[SlotOf(t)]
<1>1. IInv'
  BY NextIInv DEF IpcIInv
<1>3. UNCHANGED <<threads, slot_generations>>
  BY DEF schedVars
<1>4. ASSUME NEW r \in Slots, NEW i \in 1 .. Len(mailbox'[r])
      PROVE  /\ mailbox'[r][i].to \in used'
             /\ threads'[r] = mailbox'[r][i].to
                => mailbox'[r][i].to_generation = slot_generations'[r]
  <2>1. \E j \in 1 .. Len(mailbox[r]) : mailbox'[r][i] = mailbox[r][j]
    BY DEF Takes
  <2> QED BY <1>3, <2>1 DEF IpcIInv, GenerationsMatch
<1>5. \A t \in Tids \ {cpu} : state[t] # "Absent" =>
          SlotOf(t) \in Slots /\ SlotOf(t) # SlotOf(cpu)
          /\ mailbox'[SlotOf(t)] = mailbox[SlotOf(t)]
  BY CallerAwake, SlotOfFacts DEF Takes, IpcIInv
<1> QED BY <1>1, <1>4, <1>5 DEF IpcIInv, GenerationsMatch

LEMMA ReceivePreserves ==
    ASSUME WellOrdered, IpcIInv, recv \/ \E f \in Tids : recv_from_sender(f)
    PROVE  IpcIInv'
<1>1. /\ UNCHANGED <<schedVars, waiter, op, parent, used, sends>>
      /\ pc[cpu] = "syscall" /\ op[cpu] = NoOp
  BY Zenon DEF recv, recv_from_sender, Idles
<1>2. Takes
  BY PopValidTakes, FromSenderTakes, <1>1 DEF recv
<1>3. UNCHANGED <<threads, slot_generations, state, pc, cpu, sleep_queue>>
  BY <1>1 DEF schedVars
<1>4. IInv'
  BY <1>1, <1>2, TakesKeeps
<1>5. IpcTypeOK'
  BY <1>1, <1>2 DEF IpcIInv, IpcTypeOK, Takes
<1>6. OpControl'
  BY <1>1, <1>3 DEF IpcIInv, OpControl
<1>7. GenerationsMatch'
  BY Zenon, <1>1, <1>2, <1>3, TakesKeeps DEF IpcIInv, GenerationsMatch
<1>8. WaitingRegistered'
  BY <1>1 DEF IpcIInv, WaitingRegistered, OpControl, NoOp
<1>9. SleeperIsRegistered'
  <2> SUFFICES ASSUME NEW t \in Tids, state[t] = "Sleeping", op[t].call = "recv"
               PROVE  Registered(t)' \/ WakeInFlight(t)'
    BY <1>1, <1>3 DEF SleeperIsRegistered, Registered
  <2>1. mailbox'[SlotOf(t)] = mailbox[SlotOf(t)]
    BY <1>1, <1>2, TakesKeeps, CallerAwake
  <2>2. Registered(t) => Registered(t)'
    BY <1>1, <1>3, <2>1, SlotFixed DEF Registered
  <2>3. WakeInFlight(t) => WakeInFlight(t)'
    BY <1>1 DEF WakeInFlight
  <2> QED BY <2>2, <2>3 DEF IpcIInv, SleeperIsRegistered, Registered
<1>10. WaiterIsReceiving'
  <2>1. waiter[SlotOf(cpu)] = NoThread
    BY <1>1, CallerAwake DEF IpcIInv, WaiterIsReceiving, NoOp
  <2>2. \A r \in Slots : waiter[r] # NoThread => mailbox'[r] = mailbox[r]
    BY <1>2, <2>1 DEF Takes
  <2> QED BY <1>1, <1>3, <2>2 DEF IpcIInv, WaiterIsReceiving
<1> QED BY Zenon, <1>4, <1>5, <1>6, <1>7, <1>8, <1>9, <1>10 DEF IpcIInv

LEMMA PlainOperations ==
    NoOp \in Operation /\ [call |-> "wait"] \in Operation /\ [call |-> "recv"] \in Operation
BY DEF Operation, NoOp

(* recv_blocking registers itself under the lock under which it found no   *)
(* message.                                                                *)
LEMMA RecvBlockingPreserves == ASSUME WellOrdered, IpcIInv, recv_blocking PROVE IpcIInv'
<1> DEFINE s == SlotOf(cpu)
<1>1. /\ UNCHANGED <<schedVars, parent, used, sends>>
      /\ pc[cpu] = "syscall" /\ op[cpu].call \in {"none", "recv"}
      /\ PopValid(cpu)
      /\ IF HasMessage(cpu)
         THEN op' = [op EXCEPT ![cpu] = NoOp] /\ UNCHANGED waiter
         ELSE /\ op' = [op EXCEPT ![cpu] = [call |-> "wait"]]
              /\ waiter' = [waiter EXCEPT ![s] = cpu]
  BY DEF recv_blocking, Idles, NoOp
<1>2. Takes /\ (~ HasMessage(cpu) => mailbox'[s] = <<>>)
  BY <1>1, PopValidTakes
<1>3. UNCHANGED <<threads, slot_generations, state, pc, cpu, sleep_queue>>
  BY <1>1 DEF schedVars
<1>4. cpu \in Tids /\ s \in Slots /\ state[cpu] # "Sleeping"
  BY <1>1, CallerAwake
<1>5. IInv'
  BY <1>1, <1>2, TakesKeeps
<1>6. \A t \in Tids : op'[t] = IF t = cpu THEN IF HasMessage(cpu) THEN NoOp
                                                                  ELSE [call |-> "wait"]
                                          ELSE op[t]
  BY <1>1, <1>4 DEF IpcIInv, IpcTypeOK
<1> HIDE DEF s
<1>7. IpcTypeOK'
  <2>1. op' \in [Tids -> Operation] /\ waiter' \in [Slots -> Tids \cup {NoThread}]
    BY ZenonT(30), <1>1, <1>4, PlainOperations DEF IpcIInv, IpcTypeOK
  <2> QED BY <1>1, <1>2, <2>1 DEF IpcIInv, IpcTypeOK, Takes
<1>8. OpControl'
  BY <1>1, <1>3, <1>6, SMTT(30) DEF IpcIInv, OpControl, NoOp
<1>9. GenerationsMatch'
  <2>1. \A t \in Tids : op'[t].call = "send" => op'[t] = op[t]
    BY <1>6 DEF NoOp
  <2> QED BY Zenon, <1>1, <1>2, <1>3, <2>1, TakesKeeps DEF IpcIInv, GenerationsMatch
<1>10. WaitingRegistered'
  <2> SUFFICES ASSUME NEW t \in Tids, op'[t].call = "wait" PROVE Registered(t)'
    BY SMTT(30) DEF WaitingRegistered
  <2>1. t = cpu /\ ~ HasMessage(cpu)
    BY <1>1, <1>6 DEF IpcIInv, OpControl, NoOp
  <2>2. waiter'[s] = cpu /\ mailbox'[s] = <<>>
    BY <1>1, <1>2, <1>4, <2>1 DEF IpcIInv, IpcTypeOK
  <2> QED BY <1>3, <2>1, <2>2, SlotFixed DEF Registered, s
<1>11. SleeperIsRegistered'
  <2> SUFFICES ASSUME NEW t \in Tids, state[t] = "Sleeping", op'[t].call = "recv"
               PROVE  Registered(t)' \/ WakeInFlight(t)'
    BY <1>3 DEF SleeperIsRegistered, Registered
  <2>1. t # cpu /\ op[t].call = "recv"
    BY <1>4, <1>6
  <2>2. SlotOf(t) \in Slots /\ SlotOf(t) # s /\ mailbox'[SlotOf(t)] = mailbox[SlotOf(t)]
    BY <1>1, <1>2, <2>1, TakesKeeps DEF s
  <2>3. waiter'[SlotOf(t)] = waiter[SlotOf(t)]
    BY <1>1, <2>2 DEF IpcIInv, IpcTypeOK
  <2>4. Registered(t) => Registered(t)'
    BY <1>3, <2>2, <2>3, SlotFixed DEF Registered
  <2>5. WakeInFlight(t) => WakeInFlight(t)'
    BY <1>1, <1>6 DEF WakeInFlight
  <2> QED BY <2>1, <2>4, <2>5 DEF IpcIInv, SleeperIsRegistered, Registered
<1>12. WaiterIsReceiving'
  <2>1. \A u \in Tids : op'[u].call # "wake"
    BY <1>1, <1>6 DEF IpcIInv, OpControl, NoOp
  <2>2. threads[s] = cpu /\ \A r \in Slots : threads[r] = cpu => r = s
    BY <1>1, <1>4, CallerAwake, SlotOfFacts DEF IpcIInv, s
  <2>3. \A r \in Slots \ {s} : waiter'[r] = waiter[r] /\ mailbox'[r] = mailbox[r]
    BY <1>1, <1>2, <1>4 DEF Takes, IpcIInv, IpcTypeOK, s
  <2>4. ASSUME NEW r \in Slots, waiter'[r] # NoThread
        PROVE  /\ threads'[r] = waiter'[r] /\ mailbox'[r] = <<>>
               /\ op'[waiter'[r]].call \in {"wait", "recv"}
    <3>1. CASE r # s
      <4>1. waiter[r] \in Tids \ {cpu} /\ threads[r] = waiter[r] /\ mailbox[r] = <<>>
            /\ op[waiter[r]].call \in {"wait", "recv"}
        BY <2>2, <2>3, <2>4, <3>1 DEF IpcIInv, IpcTypeOK, WaiterIsReceiving
      <4> QED BY <1>3, <1>6, <2>3, <3>1, <4>1
    <3>2. CASE r = s /\ HasMessage(cpu)
      <4>1. mailbox[s] # <<>> /\ waiter'[r] = waiter[s]
        BY <1>1, <3>2 DEF HasMessage, FirstFor, First, s
      <4> QED BY <2>4, <4>1, <1>4 DEF IpcIInv, WaiterIsReceiving
    <3>3. CASE r = s /\ ~ HasMessage(cpu)
      <4>1. waiter'[s] = cpu /\ mailbox'[s] = <<>>
        BY <1>1, <1>2, <1>4, <3>3 DEF IpcIInv, IpcTypeOK
      <4> QED BY <1>3, <1>4, <1>6, <2>2, <3>3, <4>1
    <3> QED BY <3>1, <3>2, <3>3
  <2> QED BY <2>1, <2>4 DEF WaiterIsReceiving
<1> QED BY <1>5, <1>7, <1>8, <1>9, <1>10, <1>11, <1>12 DEF IpcIInv

(* The receiver goes to sleep registered, or finds a wake pending and      *)
(* withdraws.                                                              *)
LEMMA RecvSleepPreserves == ASSUME IpcIInv, recv_sleep PROVE IpcIInv'
<1> DEFINE s == SlotOf(cpu)
<1>1. /\ pc[cpu] = "syscall" /\ op[cpu].call = "wait"
      /\ sleep_thread_unless_woken
      /\ UNCHANGED <<threads, slot_generations, in_syscall, sleep_queue, current, cpu,
                     current_slice, mailbox, got, parent, used, sends>>
      /\ pc' = [pc EXCEPT ![cpu] = IF pending_wakeup[cpu] THEN "syscall" ELSE "yield"]
      /\ IF pending_wakeup[cpu]
         THEN /\ op' = [op EXCEPT ![cpu] = NoOp]
              /\ waiter' = [waiter EXCEPT ![s] = IF @ = cpu THEN NoThread ELSE @]
         ELSE op' = [op EXCEPT ![cpu] = [call |-> "recv"]] /\ UNCHANGED waiter
  BY DEF recv_sleep, IpcIInv, IInv, SchedTypeOK
<1>2. cpu \in Tids /\ s \in Slots /\ state[cpu] \notin {"Sleeping", "Absent"}
  BY <1>1, CallerAwake
<1>3. IInv'
  BY <1>1, SleepUnlessWokenPreserves DEF IpcIInv
<1>4. \A t \in Tids : /\ op'[t] = IF t = cpu THEN IF pending_wakeup[cpu] THEN NoOp
                                                  ELSE [call |-> "recv"]
                                  ELSE op[t]
                      /\ t # cpu => state'[t] = state[t] /\ pc'[t] = pc[t]
                      /\ state'[t] = "Absent" <=> state[t] = "Absent"
  BY <1>1, <1>2 DEF IpcIInv, IpcTypeOK, IInv, SchedTypeOK, sleep_thread_unless_woken
<1>5. pc'[cpu] \in {"syscall", "yield"}
  BY <1>1, <1>2 DEF IpcIInv, IInv, SchedTypeOK
<1> HIDE DEF s
<1>6. IpcTypeOK'
  <2>1. op' \in [Tids -> Operation]
    BY Zenon, <1>1, <1>2, PlainOperations DEF IpcIInv, IpcTypeOK
  <2>2. waiter' \in [Slots -> Tids \cup {NoThread}]
    BY <1>1, <1>2 DEF IpcIInv, IpcTypeOK
  <2> QED BY <1>1, <2>1, <2>2 DEF IpcIInv, IpcTypeOK
<1>7. OpControl'
  BY <1>1, <1>4, <1>5 DEF IpcIInv, OpControl, NoOp
<1>8. \A t \in Tids : op'[t].call \notin {"send", "wait"}
  BY <1>1, <1>4 DEF IpcIInv, OpControl, NoOp
<1>9. WaitingRegistered'
  BY <1>8 DEF WaitingRegistered
<1>10. GenerationsMatch'
  BY <1>1, <1>4, <1>8 DEF IpcIInv, GenerationsMatch
<1>11. SleeperIsRegistered'
  <2> SUFFICES ASSUME NEW t \in Tids, state'[t] = "Sleeping", op'[t].call = "recv"
               PROVE  Registered(t)' \/ WakeInFlight(t)'
    BY DEF SleeperIsRegistered, Registered
  <2>1. CASE t = cpu
    <3>1. ~ pending_wakeup[cpu] /\ waiter' = waiter
      BY <1>1, <1>2, <1>4, <2>1 DEF NoOp
    <3>2. Registered(cpu)
      BY <1>1, <1>2 DEF IpcIInv, WaitingRegistered
    <3> QED BY <1>1, <2>1, <3>1, <3>2, SlotFixed DEF Registered
  <2>2. CASE t # cpu
    <3>1. state[t] = "Sleeping" /\ op[t].call = "recv"
      BY SMTT(30), <1>4, <2>2
    <3>2. SlotOf(t) \in Slots /\ SlotOf(t) # s
      BY Zenon, <1>1, <2>2, <3>1, CallerAwake, SlotOfFacts DEF IpcIInv, s
    <3>3. waiter'[SlotOf(t)] = waiter[SlotOf(t)]
      BY <1>1, <3>2 DEF IpcIInv, IpcTypeOK
    <3>4. Registered(t) => Registered(t)'
      BY <1>1, <3>3, SlotFixed DEF Registered
    <3>5. WakeInFlight(t) => WakeInFlight(t)'
      BY <1>1, <1>4 DEF WakeInFlight
    <3> QED BY <3>1, <3>4, <3>5, SMTT(30) DEF IpcIInv, SleeperIsRegistered, Registered
  <2> QED BY <2>1, <2>2
<1>12. WaiterIsReceiving'
  <2>1. \A u \in Tids : op'[u].call # "wake"
    BY <1>1, <1>4 DEF IpcIInv, OpControl, NoOp
  <2>2. threads[s] = cpu
    BY <1>1, CallerAwake DEF s
  <2>3. ASSUME NEW r \in Slots, waiter'[r] # NoThread
        PROVE  waiter'[r] = waiter[r] /\ waiter[r] \in Tids /\ (waiter[r] = cpu => ~ pending_wakeup[cpu])
    <3>1. waiter'[r] = waiter[r] /\ waiter[r] \in Tids
      BY <1>1, <1>2, <2>3 DEF IpcIInv, IpcTypeOK
    <3>2. ASSUME waiter[r] = cpu, pending_wakeup[cpu] PROVE FALSE
      <4>1. r = s
        BY SMTT(30), <1>1, <1>2, <2>3, <3>1, <3>2, SlotOfFacts DEF IpcIInv, WaiterIsReceiving, s
      <4> QED BY <1>1, <1>2, <2>3, <3>2, <4>1 DEF IpcIInv, IpcTypeOK
    <3> QED BY <3>1, <3>2
  <2>4. \A r \in Slots : waiter'[r] # NoThread => op'[waiter'[r]].call \in {"wait", "recv"}
    BY <1>4, <2>3 DEF IpcIInv, WaiterIsReceiving
  <2> QED BY <1>1, <2>1, <2>3, <2>4 DEF IpcIInv, WaiterIsReceiving
<1> QED BY ZenonT(30), <1>3, <1>6, <1>7, <1>9, <1>10, <1>11, <1>12 DEF IpcIInv

-----------------------------------------------------------------------------
(* The invariant *)

LEMMA IpcInitIInv == IpcInit => IpcIInv
<1> SUFFICES ASSUME IpcInit PROVE IpcIInv
  OBVIOUS
<1> USE DEF IpcInit
<1>1. IInv
  BY InitIInv
<1>2. IpcTypeOK
  <2>1. Idle \in Tids /\ CoreService \in Tids
    BY SchedulerConstants
  <2>2. <<>> \in Seq(AnyMessage)
    OBVIOUS
  <2> QED BY <2>1, <2>2, PlainOperations DEF IpcTypeOK
<1>3. OpControl /\ WaitingRegistered
  BY DEF OpControl, WaitingRegistered, NoOp, SchedInit
<1>4. GenerationsMatch
  <2>1. \A s \in Slots : Len(mailbox[s]) = 0
    OBVIOUS
  <2>2. \A t \in Tids : op[t].call = "none"
    BY DEF NoOp
  <2>3. \A t \in Tids : state[t] # "Absent" => t \in used
    BY DEF SchedInit
  <2> QED BY <2>1, <2>2, <2>3 DEF GenerationsMatch
<1>5. SleeperIsRegistered /\ WaiterIsReceiving
  BY DEF SleeperIsRegistered, WaiterIsReceiving, NoOp
<1> QED BY <1>1, <1>2, <1>3, <1>4, <1>5 DEF IpcIInv

LEMMA IpcNextIInv == WellOrdered => (IpcIInv /\ [IpcNext]_ipcVars => IpcIInv')
<1> SUFFICES ASSUME WellOrdered, IpcIInv, [IpcNext]_ipcVars PROVE IpcIInv'
  OBVIOUS
<1>1. CASE IpcThreadStep
  BY <1>1, SendPushPreserves, SendWakePreserves, RecvBlockingPreserves, RecvSleepPreserves,
     ExitMarkPreserves, AnnouncePreserves, SchedPartPreserves DEF IpcThreadStep
<1>2. CASE recv \/ ipc_tick
  BY <1>2, ReceivePreserves, SchedPartPreserves
<1>3. ASSUME NEW t \in Tids,
             send_lookup(t) \/ recv_from_sender(t) \/ ipc_add_thread(t) \/ ipc_wake(t)
      PROVE  IpcIInv'
  BY <1>3, LookupPreserves, ReceivePreserves, SchedPartPreserves
<1>4. CASE UNCHANGED ipcVars
  <2>1. UNCHANGED schedVars /\ UNCHANGED <<mailbox, waiter, op, got, parent, used, sends>>
    BY <1>4 DEF ipcVars
  <2>2. IInv'
    BY <2>1, NextIInv DEF IpcIInv
  <2>3. UNCHANGED <<threads, slot_generations, state, pc, cpu, sleep_queue>>
    BY SMTT(30), <2>1 DEF schedVars
  <2>4. IpcTypeOK' /\ OpControl' /\ GenerationsMatch' /\ WaiterIsReceiving'
    BY <2>1, <2>3, SMTT(30) DEF IpcIInv, IpcTypeOK, OpControl, GenerationsMatch, WaiterIsReceiving
  <2>5. WaitingRegistered' /\ SleeperIsRegistered'
    BY SMTT(30), <2>1, <2>3, SlotFixed DEF IpcIInv, WaitingRegistered, Registered, SleeperIsRegistered,
                                 WakeInFlight
  <2> QED BY <2>2, <2>4, <2>5 DEF IpcIInv
<1> QED BY <1>1, <1>2, <1>3, <1>4 DEF IpcNext

-----------------------------------------------------------------------------
(* Messages are not dropped *)

LEMMA StepDropsOnly ==
    ASSUME WellOrdered, IpcIInv, [IpcNext]_ipcVars, NEW s \in Slots PROVE DropsOnly(s)
<1>0. mailbox \in [Slots -> Seq(AnyMessage)]
  BY DEF IpcIInv, IpcTypeOK
<1>1. ASSUME mailbox'[s] = mailbox[s] PROVE DropsOnly(s)
  BY <1>1 DEF DropsOnly
<1>2. ASSUME NEW r \in Slots, NEW m, mailbox' = [mailbox EXCEPT ![r] = Append(@, m)]
      PROVE  DropsOnly(s)
  <2>1. CASE r = s
    <3>1. mailbox[s] \in Seq(AnyMessage) /\ mailbox'[s] = Append(mailbox[s], m)
      BY <1>0, <1>2, <2>1
    <3>2. \A i \in DOMAIN mailbox[s] : i \in DOMAIN mailbox'[s] /\ mailbox'[s][i] = mailbox[s][i]
      BY <3>1
    <3> QED BY <3>2 DEF DropsOnly, Messages
  <2> QED BY <1>0, <1>1, <1>2, <2>1
<1>3. ASSUME Takes, DropsOnly(SlotOf(cpu)) PROVE DropsOnly(s)
  BY Zenon, <1>1, <1>3 DEF Takes
<1>4. CASE send_push
  <2>1. op[cpu].slot \in Slots
    BY Zenon, <1>4 DEF send_push, IpcIInv, IInv, SchedTypeOK, IpcTypeOK, Operation
  <2>2. mailbox' = mailbox \/ \E m : mailbox' = [mailbox EXCEPT ![op[cpu].slot] = Append(@, m)]
    BY Zenon, <1>4 DEF send_push
  <2> QED BY Zenon, <1>1, <1>2, <2>1, <2>2
<1>5. CASE wake_parent_ipc_waiter
  <2>1. mailbox' = mailbox
        \/ /\ state[parent[cpu]] # "Absent"
           /\ \E m : mailbox' = [mailbox EXCEPT ![SlotOf(parent[cpu])] = Append(@, m)]
    BY Zenon, <1>5 DEF wake_parent_ipc_waiter, send_from_kernel, Exists
  <2>2. state[parent[cpu]] # "Absent" => SlotOf(parent[cpu]) \in Slots
    BY SlotOfFacts DEF IpcIInv, IInv, SchedTypeOK, IpcTypeOK
  <2> QED BY Zenon, <1>1, <1>2, <2>1, <2>2
<1>6. CASE recv \/ recv_blocking
  BY Zenon, <1>3, <1>6, PopValidTakes DEF recv, recv_blocking
<1>7. CASE \E f \in Tids : recv_from_sender(f)
  BY <1>3, <1>7, FromSenderTakes
<1>8. CASE UNCHANGED mailbox
  BY <1>1, <1>8
<1> QED BY Zenon, <1>4, <1>5, <1>6, <1>7, <1>8
        DEF IpcNext, IpcThreadStep, send_lookup, send_wake, recv_sleep, ipc_exit_mark,
            deliver_sigchld, ipc_exit_switch, ipc_return, ipc_sched, ipc_tick,
            ipc_add_thread, ipc_wake, ipcOnly, ipcVars

-----------------------------------------------------------------------------
(* The results *)

WF == INSTANCE WellFoundedInduction

LEMMA NatWellOrdered == WellOrdered
<1> SUFFICES ASSUME NEW T \in SUBSET Nat, T # {}
             PROVE  \E x \in T : \A y \in T : x =< y
  BY DEF WellOrdered
<1>1. PICK x \in T : \A y \in T : ~ (<<y, x>> \in WF!OpToRel(<, Nat))
  BY Zenon, WF!WFMin, WF!NatLessThanWellFounded
<1>2. \A y \in T : ~ (y < x)
  <2>1. WF!OpToRel(<, Nat) = {ss \in Nat \X Nat : ss[1] < ss[2]}
    BY Zenon DEF WF!OpToRel
  <2> QED BY <1>1, <2>1
<1> QED BY <1>2

LEMMA IpcInvariant == IpcSpec => []IpcIInv
BY IpcInitIInv, IpcNextIInv, NatWellOrdered, PTL DEF IpcSpec

(* No wake-up is lost: a thread asleep in recv_blocking is registered in   *)
(* an empty mailbox, or the send that took the registration is about to    *)
(* wake it.                                                                *)
THEOREM IpcNoLostWakeup == IpcSpec => []SleeperIsRegistered
BY IpcInvariant, PTL DEF IpcIInv

(* Whatever threads exit and whoever inherits their slots, a registration  *)
(* in a mailbox ends with the recv_blocking that made it: a send only ever *)
(* wakes a thread that waits for it.                                       *)
THEOREM IpcWaiterIsReceiving == IpcSpec => []WaiterIsReceiving
BY IpcInvariant, PTL DEF IpcIInv

(* A receive throws away no message of the thread that makes it: what      *)
(* leaves a mailbox is handed to its addressee, goes to the bad buffer the *)
(* addressee gave, or was sent to an earlier owner of the slot.            *)
THEOREM IpcNoMessageDropped == IpcSpec => NoLiveMessageDropped
<1>1. IpcIInv /\ [IpcNext]_ipcVars =>
          [\A s \in Slots : \A m \in Messages(mailbox[s]) \ Messages(mailbox'[s]) :
              got'[m.to] \in Received(m) \/ threads[s] # m.to]_ipcVars
  BY StepDropsOnly, NatWellOrdered DEF DropsOnly
<1> QED BY <1>1, IpcInvariant, PTL DEF IpcSpec, NoLiveMessageDropped

-----------------------------------------------------------------------------
(* The keyboard *)

(* The stages at which a thread is inside the Mutex of SCANCODE_BUF, and   *)
(* inside that of SCANCODE_TAP_BUF.                                        *)
InBuf == {[call |-> "read_char", at |-> "pop"],
          [call |-> "read_char_blocking", at |-> "pop"],
          [call |-> "inject_scancode", at |-> "push"]}
InTap == {[call |-> "read_char_tap", at |-> "pop"],
          [call |-> "inject_scancode", at |-> "push_tap"]}

Stage == {"none", "register", "lock", "pop", "sleep", "push", "tap", "push_tap", "wake"}
Call == {"none", "read_char", "read_char_tap", "read_char_blocking", "inject_scancode"}

KbdTypeOK ==
    /\ buf \in Seq(Nat)
    /\ buf_lock \in Tids \cup {NoThread}
    /\ tap_lock \in Tids \cup {NoThread}
    /\ kbd_waiter \in Tids \cup {NoThread}
    /\ kop \in [Tids -> [call : Call, at : Stage]]
    /\ codes \in Nat
    /\ last_read \in Nat

(* A thread inside a Mutex executes a stage of a system call that neither  *)
(* sleeps nor yields nor exits.                                            *)
LocksHeld ==
    /\ buf_lock # NoThread => buf_lock = cpu /\ pc[cpu] = "syscall" /\ kop[cpu] \in InBuf
    /\ tap_lock # NoThread => tap_lock = cpu /\ pc[cpu] = "syscall" /\ kop[cpu] \in InTap

(* Nothing in the buffer, and nothing read, is newer than the newest code. *)
CodesBounded ==
    /\ last_read <= codes
    /\ \A i \in 1 .. Len(buf) : buf[i] <= codes

KbdIInv ==
    /\ IInv
    /\ KbdTypeOK
    /\ LocksHeld
    /\ ScancodesInOrder
    /\ CodesBounded

LEMMA KbdInitIInv == KbdInit => KbdIInv
<1> SUFFICES ASSUME KbdInit PROVE KbdIInv
  OBVIOUS
<1>1. IInv
  BY InitIInv DEF KbdInit
<1>2. KbdTypeOK
  BY DEF KbdInit, KbdTypeOK, NoCall, Call, Stage
<1>3. LocksHeld /\ ScancodesInOrder /\ CodesBounded
  BY DEF KbdInit, LocksHeld, ScancodesInOrder, CodesBounded
<1> QED BY <1>1, <1>2, <1>3 DEF KbdIInv

-----------------------------------------------------------------------------
(* The buffer *)

(* A scancode newer than everything so far is pushed, or dropped because   *)
(* the buffer is full.                                                     *)
LEMMA PushKeepsOrder ==
    ASSUME KbdTypeOK, ScancodesInOrder, CodesBounded,
           codes' = codes + 1, last_read' = last_read,
           buf' \in {buf, push_fifo(buf, codes + 1)}
    PROVE  /\ buf' \in Seq(Nat) /\ codes' \in Nat
           /\ ScancodesInOrder' /\ CodesBounded'
<1> USE DEF KbdTypeOK
<1>1. CASE buf' = buf
  BY <1>1 DEF ScancodesInOrder, CodesBounded
<1>2. CASE buf' = Append(buf, codes + 1)
  <2>1. /\ buf' \in Seq(Nat) /\ Len(buf') = Len(buf) + 1
        /\ \A i \in 1 .. Len(buf) : buf'[i] = buf[i]
        /\ buf'[Len(buf) + 1] = codes + 1
    BY <1>2
  <2>2. \A i \in 1 .. Len(buf) : buf[i] \in Nat
    OBVIOUS
  <2>3. \A i \in 1 .. Len(buf') : i \in 1 .. Len(buf) \/ i = Len(buf) + 1
    BY <2>1
  <2>4. ASSUME NEW i \in 1 .. Len(buf'), NEW j \in 1 .. Len(buf'), i < j
        PROVE  buf'[i] < buf'[j]
    <3>1. i \in 1 .. Len(buf)
      BY <2>1, <2>4
    <3>2. CASE j \in 1 .. Len(buf)
      BY <2>1, <2>4, <3>1, <3>2 DEF ScancodesInOrder
    <3>3. CASE j = Len(buf) + 1
      <4>1. buf[i] <= codes /\ buf[i] \in Nat /\ codes \in Nat
        BY <2>2, <3>1 DEF CodesBounded
      <4> QED BY <2>1, <3>1, <3>3, <4>1
    <3> QED BY <2>3, <3>2, <3>3
  <2>5. ASSUME NEW i \in 1 .. Len(buf')
        PROVE  buf'[i] > last_read' /\ buf'[i] <= codes'
    <3>1. last_read \in Nat /\ codes \in Nat /\ last_read <= codes
      BY DEF CodesBounded
    <3>2. CASE i \in 1 .. Len(buf)
      <4>1. buf[i] \in Nat /\ buf[i] > last_read /\ buf[i] <= codes
        BY <2>2, <3>2 DEF ScancodesInOrder, CodesBounded
      <4>2. buf'[i] = buf[i]
        BY <2>1, <3>2
      <4> QED BY <3>1, <4>1, <4>2
    <3>3. CASE i = Len(buf) + 1
      <4>1. buf'[i] = codes + 1
        BY <2>1, <3>3
      <4> QED BY <3>1, <4>1
    <3> QED BY <2>3, <3>2, <3>3
  <2>6. ScancodesInOrder'
    BY <2>4, <2>5 DEF ScancodesInOrder
  <2>7. CodesBounded'
    BY <2>5 DEF CodesBounded
  <2> QED BY <2>1, <2>6, <2>7
<1> QED BY <1>1, <1>2 DEF push_fifo

(* The oldest scancode is taken out.                                       *)
LEMMA PopKeepsOrder ==
    ASSUME KbdTypeOK, ScancodesInOrder, CodesBounded, buf # <<>>,
           codes' = codes, last_read' = Head(buf), buf' = Tail(buf)
    PROVE  /\ buf' \in Seq(Nat) /\ last_read' \in Nat
           /\ ScancodesInOrder' /\ CodesBounded'
<1> USE DEF KbdTypeOK
<1>1. /\ Len(buf) \in Nat \ {0} /\ buf' \in Seq(Nat) /\ Len(buf') = Len(buf) - 1
      /\ \A i \in 1 .. Len(buf') : buf'[i] = buf[i + 1]
      /\ last_read' = buf[1] /\ buf[1] \in Nat
  OBVIOUS
<1>2. \A i \in 1 .. Len(buf') : i + 1 \in 1 .. Len(buf) /\ 1 < i + 1
  BY <1>1
<1>3. ScancodesInOrder'
  BY <1>1, <1>2 DEF ScancodesInOrder
<1>4. CodesBounded'
  BY <1>1, <1>2 DEF CodesBounded
<1> QED BY <1>1, <1>3, <1>4

-----------------------------------------------------------------------------
(* The steps *)

(* Steps that leave the scheduler, the buffer and the codes alone.         *)
LEMMA BufferUnchanged ==
    ASSUME KbdIInv, UNCHANGED <<schedVars, buf, codes, last_read>>
    PROVE  IInv' /\ ScancodesInOrder' /\ CodesBounded'
<1>1. IInv'
  BY NextIInv DEF KbdIInv
<1>2. ScancodesInOrder' /\ CodesBounded'
  BY DEF KbdIInv, ScancodesInOrder, CodesBounded
<1> QED BY <1>1, <1>2

(* IRQ1 takes the Mutexes only when they are free, and gives them back.    *)
LEMMA InterruptPreserves == ASSUME KbdIInv, keyboard_interrupt PROVE KbdIInv'
<1>1. IInv'
  <2>1. CASE buf_lock = NoThread /\ tap_lock = NoThread
    BY <2>1, WakeWaiterPreserves DEF keyboard_interrupt, KbdIInv, KbdTypeOK
  <2>2. CASE ~ (buf_lock = NoThread /\ tap_lock = NoThread)
    <3>1. UNCHANGED schedVars
      BY <2>2 DEF keyboard_interrupt, schedVars
    <3> QED BY <3>1, NextIInv DEF KbdIInv
  <2> QED BY <2>1, <2>2
<1>2. buf' \in Seq(Nat) /\ codes' \in Nat /\ ScancodesInOrder' /\ CodesBounded'
  BY PushKeepsOrder DEF KbdIInv, keyboard_interrupt
<1>3. KbdTypeOK'
  BY SMTT(30), <1>2 DEF KbdIInv, KbdTypeOK, keyboard_interrupt
<1>4. LocksHeld'
  BY DEF KbdIInv, LocksHeld, keyboard_interrupt
<1> QED BY <1>1, <1>2, <1>3, <1>4 DEF KbdIInv

(* The stages of the system calls that take, keep or give back a Mutex.    *)
LEMMA CallStepPreserves ==
    ASSUME KbdIInv,
           sys_keyboard \/ register_waiter \/ lock_fifo \/ pop_tap_scancode \/ inject_push_tap
    PROVE  KbdIInv'
<1> USE DEF sys_keyboard, start_call, register_waiter, lock_fifo, pop_tap_scancode,
            inject_push_tap, At, GoTo, Return, NoCall
<1>1. UNCHANGED <<schedVars, buf, codes, last_read>>
  OBVIOUS
<1>2. IInv' /\ ScancodesInOrder' /\ CodesBounded'
  BY SMTT(30), <1>1, BufferUnchanged
<1>3. cpu \in Tids /\ cpu # NoThread /\ UNCHANGED <<cpu, pc>>
  BY Zenon, <1>1, SchedulerConstants DEF KbdIInv, IInv, SchedTypeOK, schedVars
<1>4. KbdTypeOK'
  <2>1. kop' \in [Tids -> [call : Call, at : Stage]]
    BY <1>3, SMTT(30) DEF KbdIInv, KbdTypeOK, Call, Stage
  <2> QED BY <1>1, <1>3, <2>1 DEF KbdIInv, KbdTypeOK
<1>5. LocksHeld'
  BY SMTT(30), <1>3 DEF KbdIInv, KbdTypeOK, LocksHeld, InBuf, InTap
<1> QED BY <1>2, <1>4, <1>5 DEF KbdIInv

(* pop_scancode inside the Mutex: the oldest scancode, or none.            *)
LEMMA PopPreserves == ASSUME KbdIInv, pop_scancode PROVE KbdIInv'
<1> USE DEF pop_scancode, At, GoTo, Return, NoCall
<1>1. UNCHANGED <<schedVars, codes>>
  OBVIOUS
<1>2. IInv'
  BY <1>1, NextIInv DEF KbdIInv
<1>3. cpu \in Tids /\ cpu # NoThread /\ UNCHANGED <<cpu, pc>>
  BY <1>1, SchedulerConstants DEF KbdIInv, IInv, SchedTypeOK, schedVars
<1>4. buf' \in Seq(Nat) /\ last_read' \in Nat /\ ScancodesInOrder' /\ CodesBounded'
  <2>1. CASE buf = <<>>
    BY <1>1, <2>1, BufferUnchanged DEF KbdIInv, KbdTypeOK
  <2>2. CASE buf # <<>>
    BY <1>1, <2>2, PopKeepsOrder DEF KbdIInv
  <2> QED BY <2>1, <2>2
<1>5. KbdTypeOK'
  <2>1. kop' \in [Tids -> [call : Call, at : Stage]]
    BY <1>3 DEF KbdIInv, KbdTypeOK, Call, Stage
  <2> QED BY <1>1, <1>3, <1>4, <2>1 DEF KbdIInv, KbdTypeOK
<1>6. LocksHeld'
  BY <1>3 DEF KbdIInv, KbdTypeOK, LocksHeld, InBuf, InTap
<1> QED BY <1>2, <1>4, <1>5, <1>6 DEF KbdIInv

(* push_scancode of inject_scancode, its first part.                       *)
LEMMA InjectPreserves == ASSUME KbdIInv, inject_push PROVE KbdIInv'
<1> USE DEF inject_push, At, GoTo
<1>1. UNCHANGED schedVars
  OBVIOUS
<1>2. IInv'
  BY <1>1, NextIInv DEF KbdIInv
<1>3. cpu \in Tids /\ cpu # NoThread /\ UNCHANGED <<cpu, pc>>
  BY <1>1, SchedulerConstants DEF KbdIInv, IInv, SchedTypeOK, schedVars
<1>4. buf' \in Seq(Nat) /\ codes' \in Nat /\ ScancodesInOrder' /\ CodesBounded'
  BY PushKeepsOrder DEF KbdIInv
<1>5. KbdTypeOK'
  BY <1>3, <1>4 DEF KbdIInv, KbdTypeOK, Call, Stage
<1>6. LocksHeld'
  BY <1>3 DEF KbdIInv, KbdTypeOK, LocksHeld, InBuf, InTap
<1> QED BY <1>2, <1>4, <1>5, <1>6 DEF KbdIInv

(* The two steps that sleep and wake do so outside the Mutexes.            *)
LEMMA SleepWakePreserves ==
    ASSUME KbdIInv, read_sleep \/ inject_wake PROVE KbdIInv'
<1> USE DEF At, GoTo, Return, NoCall
<1>1. UNCHANGED <<cpu, buf, codes, last_read, buf_lock, tap_lock>>
  BY DEF read_sleep, inject_wake
<1>2. IInv'
  <2>1. CASE read_sleep
    BY <2>1, SleepUnlessWokenPreserves DEF read_sleep, KbdIInv
  <2>2. CASE inject_wake
    BY Zenon, <2>2, WakeWaiterPreserves DEF inject_wake, KbdIInv, KbdTypeOK
  <2> QED BY <2>1, <2>2
<1>3. cpu \in Tids /\ kop[cpu] \notin InBuf \cup InTap
  BY DEF KbdIInv, IInv, SchedTypeOK, read_sleep, inject_wake, InBuf, InTap
<1>4. KbdTypeOK'
  BY <1>1, <1>3 DEF KbdIInv, KbdTypeOK, Call, Stage, read_sleep, inject_wake
<1>5. LocksHeld'
  BY <1>1, <1>3 DEF KbdIInv, LocksHeld
<1>6. ScancodesInOrder' /\ CodesBounded'
  BY <1>1 DEF KbdIInv, ScancodesInOrder, CodesBounded
<1> QED BY <1>2, <1>4, <1>5, <1>6 DEF KbdIInv

(* The timer interrupt lets a thread inside a system call run on, and no   *)
(* other step of the scheduler is possible for one inside a keyboard call. *)
LEMMA SchedStepPreserves == ASSUME KbdIInv, kbd_sched PROVE KbdIInv'
<1>1. UNCHANGED <<buf, buf_lock, tap_lock, kbd_waiter, kop, codes, last_read>>
  BY DEF kbd_sched, kbdOnly
<1>2. [SchedNext]_schedVars
  BY DEF kbd_sched, SchedNext, ThreadStep
<1>3. IInv'
  BY <1>2, NextIInv DEF KbdIInv
<1>4. KbdTypeOK' /\ ScancodesInOrder' /\ CodesBounded'
  BY <1>1 DEF KbdIInv, KbdTypeOK, ScancodesInOrder, CodesBounded
<1>5. ASSUME pc[cpu] = "syscall", kop[cpu] \in InBuf \cup InTap
      PROVE  cpu' = cpu /\ pc'[cpu] = "syscall"
  <2>1. kop[cpu] # NoCall /\ cpu \in Tids /\ in_syscall[cpu] /\ current = cpu
    BY SMTT(30), <1>5, SchedulerConstants
       DEF InBuf, InTap, NoCall, KbdIInv, IInv, SchedTypeOK, ControlState
  <2>2. tick
    BY ZenonT(30), <1>5, <2>1 DEF kbd_sched, yield_now, syscall_enter, exit_clear_current, exit_switch,
                      fault_exit
  <2>3. ~ TickGuard
    BY ZenonT(30), <2>1, SchedulerConstants DEF TickGuard
  <2> QED BY <1>5, <2>2, <2>3, SMTT(30) DEF tick, timer_interrupt
<1>6. LocksHeld'
  BY <1>1, <1>5 DEF KbdIInv, LocksHeld
<1> QED BY <1>3, <1>4, <1>6 DEF KbdIInv

LEMMA KbdNextIInv == KbdIInv /\ [KbdNext]_kbdVars => KbdIInv'
<1> SUFFICES ASSUME KbdIInv, [KbdNext]_kbdVars PROVE KbdIInv'
  OBVIOUS
<1>1. CASE UNCHANGED kbdVars
  <2>1. UNCHANGED <<schedVars, buf, codes, last_read>>
    BY <1>1, SMTT(30) DEF kbdVars, kbdOnly
  <2>2. KbdTypeOK' /\ LocksHeld'
    BY <1>1 DEF kbdVars, kbdOnly, schedVars, KbdIInv, KbdTypeOK, LocksHeld
  <2> QED BY <2>1, <2>2, BufferUnchanged DEF KbdIInv
<1> QED BY <1>1, InterruptPreserves, CallStepPreserves, PopPreserves, InjectPreserves,
           SleepWakePreserves, SchedStepPreserves DEF KbdNext, spin

LEMMA KbdInvariant == KbdSpec => []KbdIInv
BY KbdInitIInv, KbdNextIInv, PTL DEF KbdSpec

-----------------------------------------------------------------------------
(* Scancodes leave SCANCODE_BUF in the order in which IRQ1 and             *)
(* inject_scancode put them in, none twice, for every capacity of the      *)
(* buffer and however the handler and the callers interleave.              *)
THEOREM KeyboardOrder == KbdSpec => []ScancodesInOrder
BY KbdInvariant, PTL DEF KbdIInv

(* No thread is switched out inside a Mutex of the Fifos: a tick lets it   *)
(* run on and the calls neither sleep nor exit there.  Only the handler of *)
(* IRQ1 can find a Mutex taken.                                            *)
THEOREM KeyboardLocks == KbdSpec => []FifoLockHolderRuns
<1>1. KbdIInv => FifoLockHolderRuns
  BY DEF KbdIInv, LocksHeld, FifoLockHolderRuns
<1> QED BY <1>1, KbdInvariant, PTL
=============================================================================
