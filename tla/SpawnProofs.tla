---------------------------- MODULE SpawnProofs -----------------------------
(* The pool of kernel stacks, for every number of processes, every pool and *)
(* free list and every memory map: no two threads ever run on one stack.    *)
(* What the page-table code does to memory is irrelevant here and stays     *)
(* folded up; what matters is which calls touch the pool and the stack that *)
(* the process table records.                                               *)
EXTENDS Spawn, TLAPS

ProcFields == {"st", "parent", "root", "heap_start", "heap_end", "stack_bottom",
               "service", "kstack", "ksize"}

(* What the stack fields hold, and that only running processes have stacks. *)
StackTypeOK ==
    /\ DOMAIN kst = {"off", "free"}
    /\ kst.off \in 0 .. KSTACK_POOL_SIZE
    /\ kst.free \in [KSlots -> 0 .. KSTACK_POOL_SIZE]
    /\ carved \in [1 .. KSTACK_POOL_SIZE -> Nat]
    /\ DOMAIN proc = Pids
    /\ \A p \in Pids :
          /\ DOMAIN proc[p] = ProcFields
          /\ proc[p].kstack \in 0 .. KSTACK_POOL_SIZE
          /\ proc[p].ksize \in Nat
          /\ proc[p].st = "run" => proc[p].kstack # 0

(* A stack that some thread uses or the free list offers.                   *)
Listed(b) == b # 0 /\ \E i \in KSlots : kst.free[i] = b
Used(b) == b # 0 /\ \E p \in Pids : proc[p].st = "run" /\ proc[p].kstack = b
Live(b) == Listed(b) \/ Used(b)

(* Each stack has one place: one slot of the list, or one thread.           *)
OnePlace ==
    /\ \A i, j \in KSlots : kst.free[i] # 0 /\ kst.free[i] = kst.free[j] => i = j
    /\ \A p, q \in Pids :
          proc[p].st = "run" /\ proc[q].st = "run" /\ proc[p].kstack = proc[q].kstack => p = q
    /\ \A i \in KSlots, p \in Pids :
          proc[p].st = "run" => kst.free[i] # proc[p].kstack

(* Stacks were cut out of the pool one after the other: below the bump      *)
(* offset, and apart from each other.                                       *)
CutApart ==
    /\ \A b \in 1 .. KSTACK_POOL_SIZE : Live(b) => b + carved[b] <= kst.off
    /\ \A b, c \in 1 .. KSTACK_POOL_SIZE :
          Live(b) /\ Live(c) /\ b < c => b + carved[b] < c

StackIInv == StackTypeOK /\ OnePlace /\ CutApart

-----------------------------------------------------------------------------
(* A set of numbers has a least one: what the CHOOSE of a first slot needs, *)
(* and LEMMA NatWellOrdered provides.                                       *)
WellOrdered == \A T \in SUBSET Nat : T # {} => \E x \in T : \A y \in T : x =< y

(* The CHOOSE of a first slot has something to choose.                      *)
LEMMA FirstSlot ==
  ASSUME WellOrdered, NEW T, T \subseteq KSlots, T # {}
  PROVE  (CHOOSE i \in T : \A j \in T : i <= j) \in T
<1>1. T \in SUBSET Nat
  BY DEF KSlots
<1>2. \E x \in T : \A y \in T : x <= y
  BY <1>1 DEF WellOrdered
<1> QED
  BY Zenon, <1>2

(* A pid that exec and fork may hand out belongs to no process.             *)
LEMMA FreshPidIdle ==
  ASSUME NEW q \in Pids, FreshPid(q)
  PROVE  proc[q].st # "run"
<1>1. proc[q] = NoProc
  BY Zenon DEF FreshPid, Created
<1>2. NoProc.st # "run"
  BY DEF NoProc
<1> QED BY Zenon, <1>1, <1>2

LEMMA StackInitIInv == Init => StackIInv
<1> SUFFICES ASSUME Init PROVE StackIInv
  OBVIOUS
<1>1. StackTypeOK
  BY KernelStackSizes DEF Init, StackTypeOK, ProcFields, NoProc
<1>2. \A p \in Pids : proc[p].st # "run"
  BY DEF Init, NoProc
<1>3. \A i \in KSlots : kst.free[i] = 0
  BY DEF Init
<1>4. \A b \in 1 .. KSTACK_POOL_SIZE : ~Live(b)
  BY <1>2, <1>3 DEF Live, Listed, Used
<1> QED
  BY <1>1, <1>2, <1>3, <1>4 DEF StackIInv, OnePlace, CutApart

(* Calls that leave every stack where it is: memory calls, execve and wait, *)
(* which change other fields of the process table only.                     *)
SameStacks ==
    /\ kst' = kst /\ carved' = carved
    /\ DOMAIN proc' = Pids
    /\ \A p \in Pids : /\ DOMAIN proc'[p] = ProcFields
                       /\ proc'[p].kstack \in {proc[p].kstack, 0}
                       /\ proc'[p].ksize \in Nat
                       /\ proc'[p].st = "run" => /\ proc[p].st = "run"
                                                 /\ proc'[p].kstack = proc[p].kstack

LEMMA SameStacksKeep ==
  ASSUME StackIInv, SameStacks PROVE StackIInv'
<1>1. StackTypeOK'
  BY KernelStackSizes DEF StackIInv, StackTypeOK, SameStacks
<1>2. OnePlace'
  BY DEF StackIInv, OnePlace, SameStacks
<1>3. \A b \in 1 .. KSTACK_POOL_SIZE : Live(b)' => Live(b)
  BY DEF SameStacks, Live, Listed, Used
<1>4. CutApart'
  BY <1>3 DEF StackIInv, CutApart, SameStacks
<1> QED
  BY <1>1, <1>2, <1>4 DEF StackIInv

(* allocate_kernel_stack: the stack comes from a slot of the free list,     *)
(* which is cleared, or is cut off above the bump offset, or is none.       *)
LEMMA AllocateKernelStack ==
  ASSUME WellOrdered, StackIInv, NEW size \in Nat
  PROVE  LET ks == allocate_kernel_stack(kst, size)
         IN  \/ /\ ~ks.fresh
                /\ \E i \in KSlots : /\ kst.free[i] # 0 /\ ks.base = kst.free[i]
                                     /\ ks.k = [kst EXCEPT !.free[i] = 0]
             \/ /\ ks.fresh /\ ks.base = kst.off + 1
                /\ kst.off + size + 1 <= KSTACK_POOL_SIZE
                /\ ks.k = [kst EXCEPT !.off = kst.off + size + 1]
             \/ /\ ks.fresh /\ ks.base = 0
                /\ ks.k = [kst EXCEPT !.off = KSTACK_POOL_SIZE]
<1> DEFINE used == {i \in KSlots : kst.free[i] # 0}
           first == CHOOSE i \in used : \A j \in used : i <= j
           ks == allocate_kernel_stack(kst, size)
<1>1. CASE used # {}
  <2>1. first \in used
    BY Zenon, <1>1, FirstSlot
  <2>2. ks = [base |-> kst.free[first], k |-> [kst EXCEPT !.free[first] = 0], fresh |-> FALSE]
    BY <1>1 DEF allocate_kernel_stack, TakeSlot
  <2>3. /\ ~ks.fresh /\ first \in KSlots
        /\ kst.free[first] # 0 /\ ks.base = kst.free[first]
        /\ ks.k = [kst EXCEPT !.free[first] = 0]
    BY <2>1, <2>2
  <2> QED
    BY Zenon, <2>3
<1>2. CASE used = {}
  <2>1. ks = [base |-> IF kst.off + (size + 1) <= KSTACK_POOL_SIZE THEN kst.off + 1 ELSE 0,
              k |-> [kst EXCEPT !.off = IF kst.off + (size + 1) <= KSTACK_POOL_SIZE
                                        THEN kst.off + (size + 1) ELSE KSTACK_POOL_SIZE],
              fresh |-> TRUE]
    BY <1>2 DEF allocate_kernel_stack, KSTACK_GUARD
  <2>2. kst.off \in Nat /\ KSTACK_POOL_SIZE \in Nat
    BY KernelStackSizes DEF StackIInv, StackTypeOK
  <2> QED
    BY <2>1, <2>2
<1> QED
  BY Zenon, <1>1, <1>2

(* A call that takes a stack and gives it to a new process, or loses it.    *)
Enters(ks, size, q) ==
    /\ q \in Pids /\ proc[q].st # "run" /\ ks.base # 0
    /\ DOMAIN proc' = Pids
    /\ \A p \in Pids \ {q} : proc'[p] = proc[p]
    /\ DOMAIN proc'[q] = ProcFields
    /\ proc'[q].kstack = ks.base /\ proc'[q].ksize = size /\ proc'[q].st = "run"
TakesStack(ks, size) ==
    /\ kst' = ks.k
    /\ CarvedOut(ks, size)
    /\ proc' = proc \/ \E q \in Pids : Enters(ks, size, q)

LEMMA TakesStackKeeps ==
  ASSUME WellOrdered, StackIInv, NEW size \in Nat, TakesStack(allocate_kernel_stack(kst, size), size)
  PROVE  StackIInv'
<1> DEFINE ks == allocate_kernel_stack(kst, size)
<1>0. TakesStack(ks, size) /\ StackTypeOK /\ KSTACK_POOL_SIZE \in Nat
  BY KernelStackSizes DEF StackIInv
<1>a. \/ /\ ~ks.fresh
         /\ \E i \in KSlots : /\ kst.free[i] # 0 /\ ks.base = kst.free[i]
                              /\ ks.k = [kst EXCEPT !.free[i] = 0]
      \/ /\ ks.fresh /\ ks.base = kst.off + 1
         /\ kst.off + size + 1 <= KSTACK_POOL_SIZE
         /\ ks.k = [kst EXCEPT !.off = kst.off + size + 1]
      \/ /\ ks.fresh /\ ks.base = 0
         /\ ks.k = [kst EXCEPT !.off = KSTACK_POOL_SIZE]
  BY Zenon, AllocateKernelStack
<1> HIDE DEF ks
<1>b. DOMAIN proc' = Pids /\ \A p \in Pids : DOMAIN proc'[p] = ProcFields
  BY ZenonT(60), <1>0 DEF TakesStack, Enters, StackTypeOK
<1>c. \A p \in Pids :
         \/ /\ proc[p].kstack \in 0 .. KSTACK_POOL_SIZE /\ proc[p].ksize \in Nat
            /\ proc[p].st = "run" => proc[p].kstack # 0
            /\ proc'[p] = proc[p]
         \/ proc'[p].kstack = ks.base /\ proc'[p].ksize = size /\ ks.base # 0
  BY <1>0 DEF TakesStack, Enters, StackTypeOK
<1>1. CASE \E i \in KSlots : /\ ~ks.fresh /\ kst.free[i] # 0 /\ ks.base = kst.free[i]
                             /\ ks.k = [kst EXCEPT !.free[i] = 0]
  <2>1. PICK i \in KSlots : /\ ~ks.fresh /\ kst.free[i] # 0 /\ ks.base = kst.free[i]
                            /\ ks.k = [kst EXCEPT !.free[i] = 0]
    BY Zenon, <1>1
  <2>2. /\ kst' = [kst EXCEPT !.free[i] = 0] /\ carved' = carved
        /\ kst'.off = kst.off /\ kst'.free = [kst.free EXCEPT ![i] = 0]
        /\ DOMAIN kst' = {"off", "free"}
    BY <1>0, <2>1 DEF TakesStack, CarvedOut, StackTypeOK
  <2>t. /\ kst'.free \in [KSlots -> 0 .. KSTACK_POOL_SIZE]
        /\ kst.free[i] \in 1 .. KSTACK_POOL_SIZE
    <3>1. kst.free \in [KSlots -> 0 .. KSTACK_POOL_SIZE]
      BY <1>0 DEF StackTypeOK
    <3> QED
      BY <1>0, <2>1, <2>2, <3>1
  <2>3. StackTypeOK'
    <3>1. ks.base \in 1 .. KSTACK_POOL_SIZE
      BY <2>1, <2>t
    <3>2. \A p \in Pids : /\ proc'[p].kstack \in 0 .. KSTACK_POOL_SIZE
                          /\ proc'[p].ksize \in Nat
                          /\ proc'[p].st = "run" => proc'[p].kstack # 0
      BY <1>0, <1>c, <3>1
    <3> QED
      BY <1>0, <1>b, <2>2, <2>t, <3>2 DEF StackTypeOK
  <2>4. \A j \in KSlots : kst'.free[j] = IF j = i THEN 0 ELSE kst.free[j]
    BY <1>0, <2>2 DEF StackTypeOK
  <2>5. OnePlace'
    <3>1. \A p \in Pids : proc[p].st = "run" => kst.free[i] # proc[p].kstack
      BY <2>1 DEF StackIInv, OnePlace
    <3>2. \A j, k \in KSlots : kst'.free[j] # 0 /\ kst'.free[j] = kst'.free[k] => j = k
      BY <2>4 DEF StackIInv, OnePlace
    <3>3. CASE proc' = proc
      BY <1>0, <2>4, <3>2, <3>3 DEF StackIInv, OnePlace, StackTypeOK
    <3>4. CASE \E q \in Pids : Enters(ks, size, q)
      <4>1. PICK q \in Pids : Enters(ks, size, q)
        BY <3>4
      <4>2. \A p, r \in Pids : /\ proc'[p].st = "run" /\ proc'[r].st = "run"
                               /\ proc'[p].kstack = proc'[r].kstack
                              => p = r
        BY <2>1, <3>1, <4>1 DEF Enters, StackIInv, OnePlace
      <4>3. ASSUME NEW j \in KSlots, NEW p \in Pids, proc'[p].st = "run"
            PROVE  kst'.free[j] # proc'[p].kstack
        <5>1. CASE p = q
          BY <2>1, <2>4, <4>1, <5>1 DEF Enters, StackIInv, OnePlace
        <5>2. CASE p # q
          BY <1>0, <2>4, <4>1, <4>3, <5>2 DEF Enters, StackIInv, OnePlace, StackTypeOK
        <5> QED
          BY <5>1, <5>2
      <4> QED
        BY <3>2, <4>2, <4>3 DEF OnePlace
    <3> QED
      BY <1>0, <3>3, <3>4 DEF TakesStack
  <2>6. \A b \in 1 .. KSTACK_POOL_SIZE : Live(b)' => Live(b)
    BY <1>0, <2>1, <2>4 DEF Live, Listed, Used, TakesStack, Enters
  <2>7. CutApart'
    BY <2>2, <2>6 DEF StackIInv, CutApart
  <2> QED
    BY <2>3, <2>5, <2>7 DEF StackIInv
<1>2. CASE /\ ks.fresh /\ ks.base = kst.off + 1
           /\ kst.off + size + 1 <= KSTACK_POOL_SIZE
           /\ ks.k = [kst EXCEPT !.off = kst.off + size + 1]
  <2>1. /\ kst'.off = kst.off + size + 1 /\ kst'.free = kst.free
        /\ DOMAIN kst' = {"off", "free"}
        /\ carved' = [carved EXCEPT ![kst.off + 1] = size]
        /\ kst.off + 1 \in 1 .. KSTACK_POOL_SIZE /\ kst.off \in Nat
    <3>1. kst.off \in Nat /\ DOMAIN kst = {"off", "free"}
      BY <1>0 DEF StackTypeOK
    <3>2. kst.off + 1 \in 1 .. KSTACK_POOL_SIZE
      BY <1>0, <1>2, <3>1
    <3>3. carved' = [carved EXCEPT ![kst.off + 1] = size]
      <4>1. ks.fresh /\ ks.base # 0 /\ ks.base = kst.off + 1
        BY <1>2, <3>1
      <4> QED
        BY Zenon, <1>0, <4>1 DEF TakesStack, CarvedOut
    <3>4. kst' = [kst EXCEPT !.off = kst.off + size + 1]
      BY <1>0, <1>2 DEF TakesStack
    <3> QED
      BY <3>1, <3>2, <3>3, <3>4
  <2>2. StackTypeOK'
    <3>1. kst'.off \in 0 .. KSTACK_POOL_SIZE
      BY <1>0, <1>2, <2>1
    <3>2. carved' \in [1 .. KSTACK_POOL_SIZE -> Nat]
      <4>1. carved \in [1 .. KSTACK_POOL_SIZE -> Nat]
        BY <1>0 DEF StackTypeOK
      <4> QED
        BY <2>1, <4>1
    <3>3. \A p \in Pids : /\ proc'[p].kstack \in 0 .. KSTACK_POOL_SIZE
                          /\ proc'[p].ksize \in Nat
                          /\ proc'[p].st = "run" => proc'[p].kstack # 0
      BY <1>0, <1>2, <1>c, <2>1
    <3> QED
      BY <1>0, <1>b, <2>1, <3>1, <3>2, <3>3 DEF StackTypeOK
  <2>3. \A b \in 1 .. KSTACK_POOL_SIZE : Live(b) => b + carved[b] <= kst.off
    BY DEF StackIInv, CutApart
  <2>4. \A b \in 1 .. KSTACK_POOL_SIZE :
            /\ carved[b] \in Nat
            /\ carved'[b] = IF b = kst.off + 1 THEN size ELSE carved[b]
    BY <1>0, <2>1 DEF StackTypeOK
  <2>5. ~Live(kst.off + 1)
    BY <2>1, <2>3, <2>4
  <2>6. \A b \in 1 .. KSTACK_POOL_SIZE : Live(b)' => Live(b) \/ b = kst.off + 1
    BY <1>0, <1>2, <2>1 DEF Live, Listed, Used, TakesStack, Enters
  <2>7. OnePlace'
    <3>1. \A i \in KSlots : kst.free[i] # kst.off + 1
      BY <2>1, <2>5 DEF Live, Listed
    <3>2. \A p \in Pids : proc[p].st = "run" => proc[p].kstack # kst.off + 1
      BY <2>1, <2>5 DEF Live, Used
    <3> QED
      BY <1>0, <1>2, <2>1, <3>1, <3>2 DEF StackIInv, OnePlace, TakesStack, Enters
  <2>8. CutApart'
    <3>1. ASSUME NEW b \in 1 .. KSTACK_POOL_SIZE, Live(b)'
          PROVE  b + carved'[b] <= kst'.off
      BY <2>1, <2>3, <2>4, <2>6, <3>1
    <3>2. ASSUME NEW b \in 1 .. KSTACK_POOL_SIZE, NEW c \in 1 .. KSTACK_POOL_SIZE,
                 Live(b)', Live(c)', b < c
          PROVE  b + carved'[b] < c
      <4>1. CASE c = kst.off + 1
        BY <2>1, <2>3, <2>4, <2>6, <3>2, <4>1
      <4>2. CASE c # kst.off + 1
        <5>1. Live(c) /\ c <= kst.off
          BY <2>1, <2>3, <2>4, <2>6, <3>2, <4>2
        <5>2. Live(b) /\ b # kst.off + 1
          BY <2>1, <2>6, <3>2, <5>1
        <5>3. b + carved[b] < c
          BY <3>2, <5>1, <5>2 DEF StackIInv, CutApart
        <5> QED
          BY <2>4, <5>2, <5>3
      <4> QED
        BY <4>1, <4>2
    <3> QED
      BY <3>1, <3>2 DEF CutApart
  <2> QED
    BY <2>2, <2>7, <2>8 DEF StackIInv
<1>3. CASE ks.fresh /\ ks.base = 0 /\ ks.k = [kst EXCEPT !.off = KSTACK_POOL_SIZE]
  <2>1. /\ kst'.off = KSTACK_POOL_SIZE /\ kst'.free = kst.free
        /\ DOMAIN kst' = {"off", "free"} /\ carved' = carved /\ proc' = proc
    BY <1>0, <1>3 DEF TakesStack, CarvedOut, StackTypeOK, Enters
  <2>2. StackTypeOK'
    BY <1>0, <2>1 DEF StackTypeOK
  <2>3. OnePlace'
    BY <2>1 DEF StackIInv, OnePlace
  <2>4. \A b \in 1 .. KSTACK_POOL_SIZE : Live(b)' => Live(b)
    BY <2>1 DEF Live, Listed, Used
  <2>5. CutApart'
    <3>1. kst.off <= KSTACK_POOL_SIZE /\ kst.off \in Nat
      BY <1>0 DEF StackTypeOK
    <3>2. \A b \in 1 .. KSTACK_POOL_SIZE : carved[b] \in Nat
      BY <1>0 DEF StackTypeOK
    <3> QED
      BY <1>0, <2>1, <2>4, <3>1, <3>2 DEF StackIInv, CutApart
  <2> QED
    BY <2>2, <2>3, <2>5 DEF StackIInv
<1> QED
  BY Zenon, <1>a, <1>1, <1>2, <1>3

(* Ending a process: its stack goes into an empty slot, or is lost.         *)
LEMMA ExitKeeps ==
  ASSUME WellOrdered, StackIInv, NEW p \in Running, ExitChanges(p), carved' = carved
  PROVE  StackIInv'
<1> DEFINE empty == {i \in KSlots : kst.free[i] = 0}
           slot == CHOOSE i \in empty : \A j \in empty : i <= j
           base == proc[p].kstack
<1>0. /\ StackTypeOK /\ KSTACK_POOL_SIZE \in Nat
      /\ p \in Pids /\ proc[p].st = "run" /\ base \in 1 .. KSTACK_POOL_SIZE
  BY KernelStackSizes DEF StackIInv, StackTypeOK, Running
<1>1. /\ DOMAIN proc' = Pids
      /\ \A q \in Pids \ {p} : proc'[q] = proc[q]
      /\ DOMAIN proc'[p] = ProcFields
      /\ proc'[p].st = "zombie" /\ proc'[p].kstack = 0 /\ proc'[p].ksize = 0
  BY <1>0 DEF ExitChanges, StackTypeOK, ProcFields
<1>2. CASE empty = {}
  <2>1. kst' = kst
    BY <1>2 DEF ExitChanges, free_kernel_stack
  <2>2. SameStacks
    BY SMTT(30), <1>0, <1>1, <2>1 DEF SameStacks, StackTypeOK
  <2> QED
    BY <2>2, SameStacksKeep
<1>3. CASE empty # {}
  <2>1. slot \in KSlots /\ kst.free[slot] = 0
    BY Zenon, <1>3, FirstSlot
  <2>2. kst' = [kst EXCEPT !.free[slot] = base]
    BY <1>0, <1>3 DEF ExitChanges, free_kernel_stack
  <2> HIDE DEF slot
  <2>3. /\ kst'.off = kst.off /\ kst'.free = [kst.free EXCEPT ![slot] = base]
        /\ DOMAIN kst' = {"off", "free"}
    BY <1>0, <2>2 DEF StackTypeOK
  <2>4. StackTypeOK'
    <3>1. kst.free \in [KSlots -> 0 .. KSTACK_POOL_SIZE]
      BY <1>0 DEF StackTypeOK
    <3>2. kst'.free \in [KSlots -> 0 .. KSTACK_POOL_SIZE]
      BY <1>0, <2>1, <2>3, <3>1
    <3>3. \A q \in Pids : /\ DOMAIN proc'[q] = ProcFields
                          /\ proc'[q].kstack \in 0 .. KSTACK_POOL_SIZE
                          /\ proc'[q].ksize \in Nat
                          /\ proc'[q].st = "run" => proc'[q].kstack # 0
      BY <1>0, <1>1 DEF StackTypeOK
    <3> QED
      BY <1>0, <1>1, <2>3, <3>2, <3>3 DEF StackTypeOK
  <2>5. \A j \in KSlots : kst'.free[j] = IF j = slot THEN base ELSE kst.free[j]
    BY <1>0, <2>3 DEF StackTypeOK
  <2>6. OnePlace'
    BY <1>0, <1>1, <2>1, <2>5 DEF StackIInv, OnePlace
  <2>7. \A b \in 1 .. KSTACK_POOL_SIZE : Live(b)' => Live(b)
    BY <1>0, <1>1, <2>1, <2>5 DEF Live, Listed, Used
  <2>8. CutApart'
    BY <2>3, <2>7 DEF StackIInv, CutApart
  <2> QED
    BY <2>4, <2>6, <2>8 DEF StackIInv
<1> QED
  BY <1>2, <1>3

-----------------------------------------------------------------------------
(* Calls that change other fields of process p only.                        *)
Alike(p) ==
    /\ DOMAIN proc' = Pids
    /\ \A q \in Pids \ {p} : proc'[q] = proc[q]
    /\ DOMAIN proc'[p] = ProcFields
    /\ proc'[p].kstack = proc[p].kstack
    /\ proc'[p].ksize = proc[p].ksize
    /\ proc'[p].st = proc[p].st
OtherFields(p) == proc' = proc \/ Alike(p)

LEMMA OtherFieldsKeep ==
  ASSUME StackIInv, kst' = kst, carved' = carved, NEW p \in Pids, OtherFields(p)
  PROVE  StackIInv'
<1>1. StackTypeOK
  BY DEF StackIInv
<1>2. CASE proc' = proc
  BY <1>1, <1>2, SameStacksKeep DEF SameStacks, StackTypeOK
<1>3. CASE Alike(p)
  BY Zenon, <1>1, <1>3, SameStacksKeep DEF Alike, SameStacks, StackTypeOK
<1> QED
  BY <1>2, <1>3 DEF OtherFields

LEMMA GrowHeapFields ==
  ASSUME StackTypeOK, NEW p \in Pids, NEW m, NEW pages, NEW end, GrowHeap(p, m, pages, end)
  PROVE  OtherFields(p)
<1>1. DOMAIN proc = Pids /\ DOMAIN proc[p] = ProcFields
  BY DEF StackTypeOK
<1>2. CASE proc' = [proc EXCEPT ![p].heap_end = end]
  BY <1>1, <1>2 DEF ProcFields, Alike, OtherFields
<1> QED
  BY <1>2 DEF GrowHeap, OtherFields

(* The calls of Memory: heap, mappings, shared pages, device memory.        *)
LEMMA MemoryCallKeeps ==
  ASSUME StackIInv, NEW p \in Running, MemoryCall(p), kst' = kst, carved' = carved
  PROVE  StackIInv'
<1>0. StackTypeOK /\ p \in Pids /\ Running \subseteq Pids
  BY DEF StackIInv, Running
<1>1. ASSUME NEW a, brk(p, a) PROVE OtherFields(p)
  <2>1. CASE proc' = [proc EXCEPT ![p].heap_end = a]
    BY <1>0, <2>1 DEF StackTypeOK, ProcFields, Alike, OtherFields
  <2> QED
    BY Zenon, <1>0, <1>1, <2>1, GrowHeapFields DEF brk
<1>2. ASSUME NEW n, NEW len, mmap(p, n, len) PROVE OtherFields(p)
  BY Zenon, <1>0, <1>2, GrowHeapFields DEF mmap, GrowAt
<1>3. ASSUME NEW n, NEW len, munmap(p, n, len) PROVE OtherFields(p)
  BY <1>3 DEF munmap, OtherFields
<1>4. ASSUME NEW n, NEW len, NEW prot, mprotect(p, n, len, prot) PROVE OtherFields(p)
  BY <1>4 DEF mprotect, OtherFields
<1>5. ASSUME NEW out, NEW len, NEW hint, alloc_shared_pages(p, len, out, hint)
      PROVE  OtherFields(p)
  <2>1. CASE proc' = proc
    BY <2>1 DEF OtherFields
  <2>2. ASSUME NEW m, NEW n, GrowAt(p, m, hint, n) PROVE OtherFields(p)
    BY Zenon, <1>0, <2>2, GrowHeapFields DEF GrowAt
  <2> QED
    BY Zenon, <1>5, <2>1, <2>2 DEF alloc_shared_pages, ShareFrames, Shared, Forfeit
<1>6. ASSUME NEW t \in Pids, NEW frames, NEW hint, map_phys_pages_into_target(p, t, frames, hint)
      PROVE  OtherFields(t)
  <2>1. CASE proc' = proc
    BY <2>1 DEF OtherFields
  <2>2. ASSUME NEW m, NEW n, GrowAt(t, m, hint, n) PROVE OtherFields(t)
    BY Zenon, <1>0, <2>2, GrowHeapFields DEF GrowAt
  <2> QED
    BY Zenon, <1>6, <2>1, <2>2 DEF map_phys_pages_into_target, GrowTarget, Forfeit
<1>7. ASSUME NEW n, NEW d, unmap_pages(p, n, 1, d) PROVE OtherFields(p)
  BY <1>7 DEF unmap_pages, OtherFields
<1>8. ASSUME NEW f, NEW len, map_physical_range(p, f, len) PROVE OtherFields(p)
  BY <1>0, <1>8, GrowHeapFields DEF map_physical_range, MapDevice
<1>9. ASSUME map_framebuffer(p) PROVE OtherFields(p)
  BY <1>0, <1>9, GrowHeapFields DEF map_framebuffer, MapDevice
<1>10. \E t \in Pids : OtherFields(t)
  BY Zenon, <1>0, <1>1, <1>2, <1>3, <1>4, <1>5, <1>6, <1>7, <1>8, <1>9 DEF MemoryCall
<1> QED
  BY <1>10, OtherFieldsKeep

(* exec_with_data, called by exec and by kernel_main.                       *)
LEMMA StartExecKeeps ==
  ASSUME WellOrdered, StackIInv, NEW p, NEW q \in Pids, NEW prog, NEW e,
         FreshPid(q), StartExec(p, q, prog, e)
  PROVE  StackIInv'
<1> DEFINE ks == allocate_kernel_stack(kst, EXEC_STACK)
<1>0. StackTypeOK /\ EXEC_STACK \in Nat
  BY KernelStackSizes DEF StackIInv
<1>1. proc[q].st # "run"
  BY FreshPidIdle
<1>2. StartImage(p, q, prog, e.m, e.heap, ks)
  BY DEF StartExec
<1> HIDE DEF ks
<1>3. ASSUME NEW m, NoProcess(m) PROVE SameStacks
  BY <1>0, <1>3 DEF NoProcess, SameStacks, StackTypeOK
<1>4. ASSUME NEW m, NoThread(m, ks, EXEC_STACK) PROVE TakesStack(ks, EXEC_STACK)
  BY <1>4 DEF NoThread, TakesStack
<1>5. ASSUME NEW root, NEW heap, NEW service, NEW pages, ks.base # 0,
             Started(q, e.m, NewProc(p, root, heap, service, ks.base), pages, ks, EXEC_STACK)
      PROVE  TakesStack(ks, EXEC_STACK)
  <2>1. Enters(ks, EXEC_STACK, q)
    BY <1>0, <1>1, <1>5 DEF Started, Enters, NewProc, ProcFields, StackTypeOK
  <2> QED
    BY ZenonT(30), <1>5, <2>1 DEF Started, TakesStack
<1>6. SameStacks \/ TakesStack(ks, EXEC_STACK)
  BY <1>2, <1>3, <1>4, <1>5 DEF StartImage
<1> QED
  BY <1>0, <1>6, SameStacksKeep, TakesStackKeeps DEF ks

LEMMA ForkKeeps ==
  ASSUME WellOrdered, StackIInv, NEW p \in Running, NEW q \in Pids, fork(p, q)
  PROVE  StackIInv'
<1> DEFINE ks == allocate_kernel_stack(kst, FORK_STACK)
<1> HIDE DEF ks
<1>0. StackTypeOK /\ FORK_STACK \in Nat /\ p \in Pids /\ proc[p].st = "run"
  BY SMTT(30), KernelStackSizes DEF StackIInv, Running
<1>1. proc[q].st # "run"
  <2>1. FreshPid(q)
    BY Zenon DEF fork
  <2> QED BY Zenon, <2>1, FreshPidIdle
<1>2. PICK m : StartClone(p, q, m, ks)
  BY DEF fork, ks
<1>3. ASSUME NEW y, NoProcess(y) PROVE SameStacks
  BY <1>0, <1>3 DEF NoProcess, SameStacks, StackTypeOK
<1>4. ASSUME NEW y, NoThread(y, ks, FORK_STACK) PROVE TakesStack(ks, FORK_STACK)
  BY <1>4 DEF NoThread, TakesStack
<1>5. ASSUME ks.base # 0,
             Started(q, m, [proc[p] EXCEPT !.parent = p, !.root = m.root, !.kstack = ks.base,
                                           !.ksize = FORK_STACK],
                     promised[p], ks, FORK_STACK)
      PROVE  TakesStack(ks, FORK_STACK)
  <2>1. Enters(ks, FORK_STACK, q)
    BY <1>0, <1>1, <1>5 DEF Started, Enters, ProcFields, StackTypeOK
  <2> QED
    BY <1>5, <2>1 DEF Started, TakesStack
<1>6. SameStacks \/ TakesStack(ks, FORK_STACK)
  BY <1>2, <1>3, <1>4, <1>5 DEF StartClone
<1> QED
  BY <1>0, <1>6, SameStacksKeep, TakesStackKeeps DEF ks

LEMMA WaitKeeps ==
  ASSUME StackIInv, NEW p \in Running, NEW c \in Pids, wait(p, c)
  PROVE  StackIInv'
<1>1. StackTypeOK
  BY DEF StackIInv
<1>2. SameStacks
  BY <1>1 DEF wait, SameStacks, StackTypeOK, NoProc, ProcFields
<1> QED
  BY <1>2, SameStacksKeep

LEMMA StackNextIInv == WellOrdered => (StackIInv /\ [Next]_vars => StackIInv')
<1> SUFFICES ASSUME WellOrdered, StackIInv, [Next]_vars PROVE StackIInv'
  OBVIOUS
<1>0. StackTypeOK
  BY DEF StackIInv
<1>1. CASE kernel_main
  <2>1. PICK e : FreshPid(1) /\ StartExec(0, 1, "core.service", e)
    BY <1>1 DEF kernel_main, exec_with_data
  <2>2. 1 \in Pids
    BY MaxPidAssumption DEF Pids
  <2> QED
    BY <2>1, <2>2, StartExecKeeps
<1>2. ASSUME NEW p \in Running, MemoryCall(p), UNCHANGED <<kst, carved, manager>>
      PROVE  StackIInv'
  BY <1>2, MemoryCallKeeps
<1>3. ASSUME NEW p \in Running, NEW q \in Pids, NEW prog, exec(p, q, prog)
      PROVE  StackIInv'
  <2>1. PICK e : FreshPid(q) /\ StartExec(p, q, prog, e)
    BY <1>3 DEF exec, exec_with_data
  <2> QED
    BY <2>1, StartExecKeeps
<1>4. ASSUME NEW p \in Running, NEW prog, execve_syscall(p, prog) PROVE StackIInv'
  <2>1. p \in Pids /\ kst' = kst /\ carved' = carved
    BY <1>4 DEF execve_syscall, Running
  <2>2. OtherFields(p)
    <3>1. PICK m : Replace(p, prog, m)
      BY <1>4 DEF execve_syscall
    <3>2. CASE proc' = [proc EXCEPT ![p].root = m.root, ![p].heap_start = 2 * HEAP,
                                    ![p].heap_end = 2 * (HEAP + 2),
                                    ![p].stack_bottom = STACK - 2]
      BY <1>0, <2>1, <3>2 DEF StackTypeOK, ProcFields, Alike, OtherFields
    <3> QED
      BY <3>1, <3>2 DEF Replace, OtherFields
  <2> QED
    BY <2>1, <2>2, OtherFieldsKeep
<1>5. ASSUME NEW p \in Running, NEW q \in Pids, fork(p, q) PROVE StackIInv'
  BY <1>5, ForkKeeps
<1>6. ASSUME NEW p \in Running, exit_current_task(p) PROVE StackIInv'
  BY <1>6, ExitKeeps DEF exit_current_task
<1>7. ASSUME NEW p \in Running, NEW n, page_fault_handler(p, n) PROVE StackIInv'
  <2>1. PICK m : GrowOrEnd(p, n, m)
    BY <1>7 DEF page_fault_handler
  <2>2. CASE try_grow_user_stack(p, n, m) /\ kst' = kst /\ carved' = carved
    <3>1. p \in Pids /\ proc' = [proc EXCEPT ![p].stack_bottom = n]
      BY <2>2 DEF try_grow_user_stack, Running
    <3>2. OtherFields(p)
      BY <1>0, <3>1 DEF StackTypeOK, ProcFields, Alike, OtherFields
    <3> QED
      BY <2>2, <3>1, <3>2, OtherFieldsKeep
  <2>3. CASE ExitChanges(p) /\ carved' = carved
    BY <2>3, ExitKeeps
  <2> QED
    BY <2>1, <2>2, <2>3 DEF GrowOrEnd
<1>8. ASSUME NEW p \in Running, NEW c \in Pids, wait(p, c) PROVE StackIInv'
  BY <1>8, WaitKeeps
<1>9. CASE UNCHANGED vars
  <2>1. SameStacks
    BY <1>9 DEF vars, StackIInv, StackTypeOK, SameStacks
  <2> QED
    BY <2>1, SameStacksKeep
<1> QED
  BY <1>1, <1>2, <1>3, <1>4, <1>5, <1>6, <1>7, <1>8, <1>9 DEF Next

WF == INSTANCE WellFoundedInduction

LEMMA NatWellOrdered == WellOrdered
<1> SUFFICES ASSUME NEW T \in SUBSET Nat, T # {}
             PROVE  \E x \in T : \A y \in T : x =< y
  BY DEF WellOrdered
<1>1. PICK x \in T : \A y \in T : ~ (<<y, x>> \in WF!OpToRel(<, Nat))
  BY Zenon, WF!WFMin, WF!NatLessThanWellFounded
<1>2. \A y \in T : ~ (y < x)
  <2>1. WF!OpToRel(<, Nat) = {ss \in Nat \X Nat : ss[1] < ss[2]}
    BY Zenon DEF WF!OpToRel
  <2> QED BY <1>1, <2>1
<1> QED BY <1>2

LEMMA StackInvariant == Spec => []StackIInv
  BY StackInitIInv, StackNextIInv, NatWellOrdered, PTL DEF Spec

(* Threads do not share kernel stacks: through every sequence of exec,      *)
(* fork, exit, failed starts and reused stacks, the stack of a running      *)
(* thread is not on KSTACK_FREE_LIST and is no other thread's, and it       *)
(* overlaps another only if allocate_kernel_stack gave it a recycled stack  *)
(* smaller than it asked for.                                               *)
THEOREM KernelStacksNotShared == Spec => []KernelStackHasOneUser
<1>1. StackIInv => KernelStackHasOneUser
  <2> SUFFICES ASSUME StackIInv, NEW p \in Running
               PROVE  /\ \A i \in KSlots : kst.free[i] # proc[p].kstack
                      /\ \A q \in Running \ {p} :
                            /\ proc[q].kstack # proc[p].kstack
                            /\ StackPages(p) \cap StackPages(q) # {} =>
                                  \E x \in {p, q} : carved[proc[x].kstack] < proc[x].ksize
    BY DEF KernelStackHasOneUser
  <2>1. \A r \in Running : /\ r \in Pids /\ proc[r].st = "run"
                           /\ proc[r].kstack \in 1 .. KSTACK_POOL_SIZE
                           /\ proc[r].ksize \in Nat /\ carved[proc[r].kstack] \in Nat
                           /\ Live(proc[r].kstack)
    BY KernelStackSizes DEF StackIInv, StackTypeOK, Running, Live, Used
  <2>2. \A i \in KSlots : kst.free[i] # proc[p].kstack
    BY <2>1 DEF StackIInv, OnePlace
  <2>3. ASSUME NEW q \in Running \ {p} PROVE proc[q].kstack # proc[p].kstack
    BY <2>1, <2>3 DEF StackIInv, OnePlace
  <2>4. ASSUME NEW q \in Running \ {p}, NEW a, a \in StackPages(p) \cap StackPages(q)
        PROVE  \E x \in {p, q} : carved[proc[x].kstack] < proc[x].ksize
    <3>1. CASE proc[p].kstack < proc[q].kstack
      <4>1. proc[p].kstack + carved[proc[p].kstack] < proc[q].kstack
        BY <2>1, <3>1 DEF StackIInv, CutApart
      <4>2. proc[q].kstack <= a /\ a <= proc[p].kstack + proc[p].ksize /\ a \in Int
        BY <2>1, <2>4 DEF StackPages
      <4> QED
        BY <2>1, <4>1, <4>2
    <3>2. CASE proc[q].kstack < proc[p].kstack
      <4>1. proc[q].kstack + carved[proc[q].kstack] < proc[p].kstack
        BY <2>1, <3>2 DEF StackIInv, CutApart
      <4>2. proc[p].kstack <= a /\ a <= proc[q].kstack + proc[q].ksize /\ a \in Int
        BY <2>1, <2>4 DEF StackPages
      <4> QED
        BY <2>1, <4>1, <4>2
    <3> QED
      BY <2>1, <2>3, <3>1, <3>2
  <2> QED
    BY <2>2, <2>3, <2>4
<1> QED
  BY <1>1, StackInvariant, PTL

=============================================================================
