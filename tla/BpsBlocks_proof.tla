--------------------------- MODULE BpsBlocks_proof ---------------------------
(***************************************************************************)
(* Proofs about the stand-alone blocks of the BPS engine: the free pool of *)
(* the address register file, the watcher of memory events, the crossbar   *)
(* and the hot-address detector.                                           *)
(***************************************************************************)
EXTENDS ArfFreePool, MemEventWatch, Crossbar, HotAddrDetect,
        Integers, FiniteSetTheorems, SequenceTheorems, Induction

-----------------------------------------------------------------------------
\* The free pool of ibex_addr_regfile, for every ring size and base address.

IInv == TypeOK /\ PoolSafe

\* A cycle's request ports: any grant request, and a spfree of a held slot.
Request(a, f, s) == a \in BOOLEAN /\ f \in BOOLEAN /\ s \in Managed /\ (f => s \in owned)

\* Every step of the pool is a clock edge under some well-behaved request.
LEMMA StepIsClock ==
  ASSUME IInv, Next
  PROVE  \E a, f \in BOOLEAN, s \in Managed : Request(a, f, s) /\ Clock(a, f, s)
<1>1. CASE Spalloc
  <2>1. FreePoolBase \in Managed
    BY ManagedCntAssumption, FreePoolBaseAssumption DEF Managed
  <2>2. Request(TRUE, FALSE, FreePoolBase) /\ Clock(TRUE, FALSE, FreePoolBase)
    BY <1>1, <2>1 DEF Spalloc, Request
  <2>3. QED
    BY <2>1, <2>2
<1>2. CASE Spfree
  BY <1>2 DEF Spfree, Request, IInv, TypeOK
<1>3. CASE SpallocSpfree
  BY <1>3 DEF SpallocSpfree, Request, IInv, TypeOK
<1>4. QED
  BY <1>1, <1>2, <1>3 DEF Next

\* The head is a live position exactly when the pool is not empty, and the tail
\* is not live while the pool is not full (the pop reads a free slot, the push
\* overwrites none).
LEMMA EndsOfRing ==
  ASSUME IInv
  PROVE  /\ Live \subseteq Ptr
         /\ free_not_empty => free_head_q \in Live
         /\ free_not_full => free_tail_q \notin Live
BY ManagedCntAssumption
   DEF IInv, TypeOK, PoolSafe, RingOK, Live, Ptr, free_not_empty, free_not_full

\* What an edge does to the registers: they stay well-typed and in step, the
\* live positions lose the head on a pop and gain the tail on a push.
LEMMA ClockRing ==
  ASSUME IInv, NEW a, NEW f, NEW s, Request(a, f, s), Clock(a, f, s),
         NEW gnt, NEW push, gnt = spalloc_gnt(a), push = Push(gnt, f)
  PROVE  /\ free_head_q' \in Ptr /\ free_tail_q' \in Ptr /\ free_count_q' \in 0..ManagedCnt
         /\ RingOK'
         /\ Live' = (Live \ (IF gnt THEN {free_head_q} ELSE {}))
                      \cup (IF push THEN {free_tail_q} ELSE {})
<1>0. /\ ManagedCnt \in Nat /\ ManagedCnt > 1
      /\ free_head_q \in Ptr /\ free_tail_q \in Ptr /\ free_count_q \in 0..ManagedCnt
      /\ RingOK /\ gnt \in BOOLEAN /\ push \in BOOLEAN
      /\ gnt => free_count_q # 0
      /\ push => free_count_q # ManagedCnt /\ ~(gnt /\ free_count_q = 1)
  BY ManagedCntAssumption
     DEF IInv, TypeOK, PoolSafe, Request, spalloc_gnt, Push, free_not_empty, free_not_full
<1>1. /\ free_head_q' = IF gnt THEN Inc(free_head_q) ELSE free_head_q
      /\ free_tail_q' = IF push THEN Inc(free_tail_q) ELSE free_tail_q
      /\ free_count_q' = CountNext(gnt, push)
  BY DEF Clock
<1>2. CASE gnt /\ push
  <2>1. /\ free_head_q' = Inc(free_head_q)
        /\ free_tail_q' = Inc(free_tail_q)
        /\ free_count_q' = free_count_q
    BY <1>0, <1>1, <1>2 DEF CountNext
  <2>2. \A i : i \in Live' <=> (i \in Live /\ i # free_head_q) \/ i = free_tail_q
    BY <1>0, <1>2, <2>1 DEF Ptr, Inc, RingOK, Live
  <2>3. /\ free_head_q' \in Ptr /\ free_tail_q' \in Ptr /\ free_count_q' \in 0..ManagedCnt
        /\ RingOK'
    BY <1>0, <1>2, <2>1 DEF Ptr, Inc, RingOK
  <2>4. Live' = (Live \ {free_head_q}) \cup {free_tail_q}
    BY <2>2
  <2>5. QED
    BY <1>2, <2>3, <2>4
<1>3. CASE gnt /\ ~push
  <2>1. /\ free_head_q' = Inc(free_head_q)
        /\ free_tail_q' = free_tail_q
        /\ free_count_q' = free_count_q - 1
    BY <1>0, <1>1, <1>3 DEF CountNext
  <2>2. \A i : i \in Live' <=> i \in Live /\ i # free_head_q
    BY <1>0, <1>3, <2>1 DEF Ptr, Inc, RingOK, Live
  <2>3. QED
    BY <1>0, <1>3, <2>1, <2>2 DEF Ptr, Inc, RingOK
<1>4. CASE ~gnt /\ push
  <2>1. /\ free_head_q' = free_head_q
        /\ free_tail_q' = Inc(free_tail_q)
        /\ free_count_q' = free_count_q + 1
    BY <1>0, <1>1, <1>4 DEF CountNext
  <2>2. \A i : i \in Live' <=> i \in Live \/ i = free_tail_q
    BY <1>0, <1>4, <2>1 DEF Ptr, Inc, RingOK, Live
  <2>3. QED
    BY <1>0, <1>4, <2>1, <2>2 DEF Ptr, Inc, RingOK
<1>5. CASE ~gnt /\ ~push
  BY <1>0, <1>1, <1>5 DEF Ptr, CountNext, RingOK, Live
<1>6. QED
  BY <1>0, <1>2, <1>3, <1>4, <1>5

\* The slots an edge moves: FreeSlots loses the slot popped and gains the slot
\* pushed, so each slot stays in one place and no slot enters the list twice.
LEMMA ClockSlots ==
  ASSUME IInv, NEW a, NEW f, NEW s, Request(a, f, s), Clock(a, f, s)
  PROVE  NoDuplicate' /\ Partition' /\ free_list_q' \in [Ptr -> Managed]
         /\ owned' \subseteq Managed /\ lost' \subseteq Managed
<1> DEFINE gnt == spalloc_gnt(a)
           push == Push(gnt, f)
           top == free_list_q[free_head_q]
<1>1. /\ Live' = (Live \ (IF gnt THEN {free_head_q} ELSE {}))
                   \cup (IF push THEN {free_tail_q} ELSE {})
  BY ClockRing
<1>2. /\ Live \subseteq Ptr
      /\ gnt => free_head_q \in Live
      /\ push => free_tail_q \notin Live
      /\ gnt \in BOOLEAN /\ push \in BOOLEAN /\ f \in BOOLEAN
      /\ push => f
      /\ f => s \in owned
      /\ s \in Managed
      /\ free_head_q \in Ptr /\ free_tail_q \in Ptr
      /\ free_list_q \in [Ptr -> Managed]
  BY EndsOfRing DEF spalloc_gnt, Push, Request, IInv, TypeOK
<1>3. /\ free_list_q' = IF push THEN [free_list_q EXCEPT ![free_tail_q] = s] ELSE free_list_q
      /\ owned' = (owned \cup (IF gnt THEN {top} ELSE {})) \ (IF f THEN {s} ELSE {})
      /\ lost' = lost \cup (IF f /\ ~push THEN {s} ELSE {})
  BY DEF Clock, spalloc_idx
<1> HIDE DEF gnt, push
<1>4. NoDuplicate /\ Partition /\ owned \subseteq Managed /\ lost \subseteq Managed
  BY DEF IInv, PoolSafe, TypeOK
<1>5. \A i \in Live : free_list_q[i] \in FreeSlots
  BY DEF FreeSlots
<1>6. f => s \notin FreeSlots
  BY <1>2, <1>4 DEF Partition
<1>7. /\ free_list_q' \in [Ptr -> Managed]
      /\ owned' \subseteq Managed /\ lost' \subseteq Managed
  BY <1>2, <1>3, <1>4
<1>8. \A i \in Live' : free_list_q'[i] = IF push /\ i = free_tail_q THEN s ELSE free_list_q[i]
  BY <1>1, <1>2, <1>3
<1>9. NoDuplicate'
  <2> SUFFICES ASSUME NEW i \in Live', NEW j \in Live', free_list_q'[i] = free_list_q'[j]
               PROVE  i = j
    BY DEF NoDuplicate
  <2>1. CASE push /\ i = free_tail_q
    BY <1>1, <1>2, <1>5, <1>6, <1>8, <2>1
  <2>2. CASE push /\ j = free_tail_q
    BY <1>1, <1>2, <1>5, <1>6, <1>8, <2>2
  <2>3. CASE ~(push /\ i = free_tail_q) /\ ~(push /\ j = free_tail_q)
    BY <1>1, <1>2, <1>4, <1>8, <2>3 DEF NoDuplicate
  <2>4. QED
    BY <1>2, <2>1, <2>2, <2>3
<1>10. FreeSlots' = (FreeSlots \ (IF gnt THEN {top} ELSE {})) \cup (IF push THEN {s} ELSE {})
  <2>1. \A x : x \in FreeSlots' <=> \E i \in Live' : x = free_list_q'[i]
    BY DEF FreeSlots
  <2>2. \A x : x \in FreeSlots <=> \E i \in Live : x = free_list_q[i]
    BY DEF FreeSlots
  <2>3. ASSUME NEW x \in FreeSlots'
        PROVE  x \in (FreeSlots \ (IF gnt THEN {top} ELSE {})) \cup (IF push THEN {s} ELSE {})
    <3>1. PICK i \in Live' : x = free_list_q'[i]
      BY <2>1, <2>3
    <3>2. CASE push /\ i = free_tail_q
      BY <1>8, <3>1, <3>2
    <3>3. CASE ~(push /\ i = free_tail_q)
      <4>1. i \in Live /\ (gnt => i # free_head_q) /\ x = free_list_q[i]
        BY <1>1, <1>2, <1>8, <3>1, <3>3
      <4>2. gnt => x # top
        BY <1>2, <1>4, <4>1 DEF NoDuplicate
      <4>3. QED
        BY <2>2, <4>1, <4>2
    <3>4. QED
      BY <3>2, <3>3
  <2>4. ASSUME NEW x \in FreeSlots, gnt => x # top
        PROVE  x \in FreeSlots'
    <3>1. PICK i \in Live : x = free_list_q[i]
      BY <2>2, <2>4
    <3>2. i \in Live' /\ free_list_q'[i] = x
      BY <1>1, <1>2, <1>8, <2>4, <3>1
    <3>3. QED
      BY <2>1, <3>2
  <2>5. ASSUME push
        PROVE  s \in FreeSlots'
    BY <1>1, <1>8, <2>1, <2>5
  <2>6. QED
    BY <1>2, <2>3, <2>4, <2>5
<1>11. Partition'
  <2>1. gnt => top \in FreeSlots /\ top \in Managed
    BY <1>2, <1>5
  <2>2. CASE gnt
    BY <1>2, <1>3, <1>4, <1>6, <1>10, <2>1, <2>2 DEF Partition
  <2>3. CASE ~gnt
    BY <1>2, <1>3, <1>4, <1>6, <1>10, <2>3 DEF Partition
  <2>4. QED
    BY <2>2, <2>3
<1>12. QED
  BY <1>7, <1>9, <1>11

\* Reset leaves every managed slot free and the ring full.
LEMMA InitIInv == Init => IInv
<1> SUFFICES ASSUME Init PROVE IInv
  OBVIOUS
<1>1. TypeOK
  BY ManagedCntAssumption, FreePoolBaseAssumption DEF Init, TypeOK, Ptr, Managed
<1>2. Live = Ptr
  BY ManagedCntAssumption DEF Init, Live, Ptr
<1>3. NoDuplicate
  BY <1>2, FreePoolBaseAssumption DEF Init, NoDuplicate, Ptr
<1>4. FreeSlots = Managed
  <2>1. ASSUME NEW x \in Managed PROVE x \in FreeSlots
    <3>1. x - FreePoolBase \in Ptr /\ FreePoolBase + (x - FreePoolBase) = x
      BY ManagedCntAssumption, FreePoolBaseAssumption DEF Managed, Ptr
    <3>2. QED
      BY <1>2, <3>1 DEF Init, FreeSlots
  <2>2. FreeSlots \subseteq Managed
    BY <1>1, <1>2 DEF FreeSlots, TypeOK
  <2>3. QED
    BY <2>1, <2>2
<1>5. RingOK
  BY ManagedCntAssumption DEF Init, RingOK
<1>6. QED
  BY <1>1, <1>3, <1>4, <1>5 DEF Init, IInv, PoolSafe, Partition

\* The inductive step.
LEMMA NextIInv == IInv /\ [Next]_vars => IInv'
<1> SUFFICES ASSUME IInv, [Next]_vars PROVE IInv'
  OBVIOUS
<1>1. CASE Next
  <2>1. PICK a \in BOOLEAN, f \in BOOLEAN, s \in Managed : Request(a, f, s) /\ Clock(a, f, s)
    BY <1>1, StepIsClock
  <2>2. QED
    BY <2>1, ClockRing, ClockSlots DEF IInv, TypeOK, PoolSafe
<1>2. CASE UNCHANGED vars
  BY <1>2 DEF vars, IInv, TypeOK, PoolSafe, RingOK, NoDuplicate, Partition, FreeSlots, Live
<1>3. QED
  BY <1>1, <1>2

\* The registers of the free-pool directory keep their types.
THEOREM TypeCorrect == Spec => []TypeOK
<1>1. IInv => TypeOK
  BY DEF IInv
<1>2. QED
  BY InitIInv, NextIInv, <1>1, PTL DEF Spec

\* The free pool is safe for every pool size: the ring registers agree, the free
\* list has no duplicate, and every slot is free, held or dropped, never two of
\* these; in particular no slot is ever handed out while the dynarec holds it.
THEOREM PoolIsSafe == Spec => []PoolSafe
<1>1. IInv => PoolSafe
  BY DEF IInv
<1>2. QED
  BY InitIInv, NextIInv, <1>1, PTL DEF Spec

\* Head, tail and count agree, whichever of spalloc and spfree coincide: the second
\* assignment to free_count_q undoes no update (ibex_addr_regfile 166-178).
THEOREM RingRegistersAgree == Spec => []RingOK
<1>1. QED
  BY PoolIsSafe, PTL DEF PoolSafe

\* No slot is on the free list twice, so no two allocations get the same slot.
THEOREM NoSlotFreeTwice == Spec => []NoDuplicate
<1>1. QED
  BY PoolIsSafe, PTL DEF PoolSafe

-----------------------------------------------------------------------------
\* The directory implements the FIFO queue of free slots.

\* The ring from head to tail, as the refinement mapping reads it.
Queue == [i \in 1..free_count_q |-> free_list_q[(free_head_q + i - 1) % ManagedCnt]]

\* The position i steps from p, without the modulo.
At(p, i) == IF p + i < ManagedCnt THEN p + i ELSE p + i - ManagedCnt

LEMMA StepsFrom ==
  ASSUME NEW p \in Ptr, NEW i \in 0..ManagedCnt
  PROVE  (p + i) % ManagedCnt = At(p, i) /\ At(p, i) \in Ptr
<1>0. ManagedCnt \in Nat \ {0} /\ p \in Nat /\ i \in Nat /\ p < ManagedCnt /\ i <= ManagedCnt
  BY ManagedCntAssumption DEF Ptr
<1>1. CASE p + i < ManagedCnt
  <2>1. p + i \in 0..(ManagedCnt - 1)
    BY <1>0, <1>1
  <2>2. \A m \in Nat \ {0} : \A n \in 0..(m - 1) : n % m = n
    OBVIOUS
  <2> QED
    BY <1>0, <1>1, <2>1, <2>2 DEF At, Ptr
<1>2. CASE ~(p + i < ManagedCnt)
  <2>1. p + i - ManagedCnt \in 0..(ManagedCnt - 1)
    BY <1>0, <1>2
  <2>2. \A m \in Nat \ {0} : \A n \in 0..(m - 1) : (n + m) % m = n
    OBVIOUS
  <2>3. ((p + i - ManagedCnt) + ManagedCnt) % ManagedCnt = p + i - ManagedCnt
    BY <1>0, <2>1, <2>2
  <2>4. (p + i - ManagedCnt) + ManagedCnt = p + i
    BY <1>0
  <2> QED
    BY <1>2, <2>1, <2>3, <2>4 DEF At, Ptr
<1> QED
  BY <1>1, <1>2

\* The queue's length and elements.
LEMMA QueueIs ==
  ASSUME TypeOK
  PROVE  /\ Queue \in Seq(Managed) /\ Len(Queue) = free_count_q
         /\ \A i \in 1..free_count_q : Queue[i] = free_list_q[At(free_head_q, i - 1)]
<1>1. free_count_q \in Nat /\ free_count_q <= ManagedCnt /\ ManagedCnt \in Nat
  BY ManagedCntAssumption DEF TypeOK
<1>2. ASSUME NEW i \in 1..free_count_q
      PROVE  /\ free_list_q[(free_head_q + i - 1) % ManagedCnt] = free_list_q[At(free_head_q, i - 1)]
             /\ free_list_q[At(free_head_q, i - 1)] \in Managed
  <2>1. i - 1 \in 0..ManagedCnt /\ free_head_q \in Ptr
    BY <1>1 DEF TypeOK
  <2>2. free_head_q + i - 1 = free_head_q + (i - 1)
    BY <1>1, <2>1 DEF Ptr
  <2>3. (free_head_q + (i - 1)) % ManagedCnt = At(free_head_q, i - 1) /\ At(free_head_q, i - 1) \in Ptr
    BY <2>1, StepsFrom
  <2> QED
    BY <2>2, <2>3 DEF TypeOK
<1>3. Queue \in [1..free_count_q -> Managed]
  BY <1>2 DEF Queue
<1> QED
  BY <1>1, <1>2, <1>3 DEF Queue

\* A slot the dynarec holds is not free, so there is room for it: a full ring has
\* every managed slot on it.
LEMMA HeldLeavesRoom ==
  ASSUME IInv, owned # {}
  PROVE  free_not_full
<1> SUFFICES ASSUME free_count_q = ManagedCnt PROVE FALSE
  BY DEF free_not_full
<1>0. ManagedCnt \in Nat /\ ManagedCnt > 1 /\ FreePoolBase \in Nat
  BY ManagedCntAssumption, FreePoolBaseAssumption
<1>1. Live = Ptr
  <2>1. free_tail_q = free_head_q /\ free_head_q \in Ptr
    BY <1>0 DEF IInv, TypeOK, PoolSafe, RingOK, Ptr
  <2>2. Live = (free_head_q..(ManagedCnt - 1)) \cup (0..(free_head_q - 1))
    BY <1>0, <2>1 DEF Live, Ptr
  <2> QED
    BY <1>0, <2>1, <2>2 DEF Ptr
<1>2. free_list_q \in Injection(Ptr, Managed)
  BY <1>1, Zenon DEF IInv, TypeOK, PoolSafe, NoDuplicate, Injection, IsInjective
<1>3. /\ IsFiniteSet(Ptr) /\ Cardinality(Ptr) = ManagedCnt
      /\ IsFiniteSet(Managed) /\ Cardinality(Managed) = ManagedCnt
  <2>1. 0 \in Int /\ ManagedCnt - 1 \in Int /\ 0 <= ManagedCnt - 1
    BY <1>0
  <2>2. FreePoolBase \in Int /\ FreePoolBase + ManagedCnt - 1 \in Int /\ FreePoolBase <= FreePoolBase + ManagedCnt - 1
    BY <1>0
  <2>3. Cardinality(Ptr) = (ManagedCnt - 1) - 0 + 1 /\ IsFiniteSet(Ptr)
    BY <2>1, FS_Interval DEF Ptr
  <2>4. Cardinality(Managed) = (FreePoolBase + ManagedCnt - 1) - FreePoolBase + 1 /\ IsFiniteSet(Managed)
    BY <2>2, FS_Interval DEF Managed
  <2> QED
    BY <1>0, <2>3, <2>4
<1>4. free_list_q \in Surjection(Ptr, Managed)
  BY <1>2, <1>3, FS_Injection, Zenon
<1>5. Managed \subseteq FreeSlots
  BY <1>1, <1>4 DEF Surjection, FreeSlots
<1> QED
  BY <1>5 DEF IInv, TypeOK, PoolSafe, Partition

\* What an edge does to the queue.
LEMMA ClockQueue ==
  ASSUME IInv, IInv', NEW a, NEW f, NEW s, Request(a, f, s), Clock(a, f, s),
         NEW gnt, NEW push, gnt = spalloc_gnt(a), push = Push(gnt, f)
  PROVE  /\ gnt /\ push => Queue' = Append(Tail(Queue), s)
         /\ gnt /\ ~push => Queue' = Tail(Queue)
         /\ ~gnt /\ push => Queue' = Append(Queue, s)
         /\ ~gnt /\ ~push => Queue' = Queue
         /\ gnt => Queue # <<>> /\ spalloc_idx = Head(Queue)
<1> DEFINE N == free_count_q
           M == free_count_q'
<1>0. /\ ManagedCnt \in Nat /\ ManagedCnt > 1
      /\ free_head_q \in Ptr /\ free_tail_q \in Ptr /\ N \in 0..ManagedCnt
      /\ RingOK /\ gnt \in BOOLEAN /\ push \in BOOLEAN
      /\ gnt => N # 0
      /\ push => N # ManagedCnt
      /\ free_list_q \in [Ptr -> Managed] /\ s \in Managed
  BY ManagedCntAssumption
     DEF IInv, TypeOK, PoolSafe, Request, spalloc_gnt, Push, free_not_empty, free_not_full
<1>1. /\ free_head_q' = IF gnt THEN Inc(free_head_q) ELSE free_head_q
      /\ free_list_q' = IF push THEN [free_list_q EXCEPT ![free_tail_q] = s] ELSE free_list_q
      /\ M = N - (IF gnt THEN 1 ELSE 0) + (IF push THEN 1 ELSE 0)
  BY <1>0 DEF Clock, CountNext
<1>2. /\ Queue \in Seq(Managed) /\ Len(Queue) = N
      /\ \A i \in 1..N : Queue[i] = free_list_q[At(free_head_q, i - 1)]
  BY QueueIs DEF IInv
<1>3. /\ Queue' \in Seq(Managed) /\ Len(Queue') = M
      /\ \A i \in 1..M : Queue'[i] = free_list_q'[At(free_head_q', i - 1)]
  <2>1. TypeOK => /\ Queue \in Seq(Managed) /\ Len(Queue) = free_count_q
                  /\ \A i \in 1..free_count_q : Queue[i] = free_list_q[At(free_head_q, i - 1)]
    BY QueueIs
  <2>2. (TypeOK => /\ Queue \in Seq(Managed) /\ Len(Queue) = free_count_q
                   /\ \A i \in 1..free_count_q : Queue[i] = free_list_q[At(free_head_q, i - 1)])'
    BY QueueIs, PTL
  <2> QED
    BY <2>2 DEF IInv, At
<1>4. \A i \in 1..N : At(free_head_q, i - 1) \in Ptr /\ (push => At(free_head_q, i - 1) # free_tail_q)
  BY <1>0 DEF At, Ptr, RingOK
<1>5. push => At(free_head_q, N) = free_tail_q
  BY <1>0 DEF At, Ptr, RingOK
<1>6. \A i \in 1..N : free_list_q'[At(free_head_q, i - 1)] = Queue[i]
  BY <1>0, <1>1, <1>2, <1>4
<1>7. push => free_list_q'[free_tail_q] = s
  BY <1>0, <1>1
<1>8. gnt => \A i \in 1..ManagedCnt : At(free_head_q', i - 1) = IF i = ManagedCnt THEN free_head_q ELSE At(free_head_q, i)
  BY <1>0, <1>1 DEF At, Ptr, Inc
<1>9. gnt => Queue # <<>> /\ spalloc_idx = Head(Queue)
  <2> SUFFICES ASSUME gnt PROVE Queue # <<>> /\ spalloc_idx = Head(Queue)
    OBVIOUS
  <2>1. 1 \in 1..N /\ At(free_head_q, 0) = free_head_q
    BY <1>0 DEF At, Ptr
  <2>2. Queue[1] = free_list_q[At(free_head_q, 1 - 1)]
    BY <1>2, <2>1
  <2>3. Queue[1] = free_list_q[free_head_q]
    BY <2>1, <2>2
  <2> QED
    BY <1>0, <1>2, <2>3 DEF spalloc_idx
<1>10. CASE ~gnt
  <2>1. free_head_q' = free_head_q
    BY <1>1, <1>10
  <2>2. CASE ~push
    <3>1. M = N /\ \A i \in 1..N : Queue'[i] = Queue[i]
      BY <1>0, <1>1, <1>3, <1>6, <1>10, <2>1, <2>2
    <3>2. Queue' = Queue
      BY <1>2, <1>3, <3>1
    <3> QED
      BY <1>10, <2>2, <3>2
  <2>3. CASE push
    <3> DEFINE T == Append(Queue, s)
    <3>1. T \in Seq(Managed) /\ Len(T) = N + 1 /\ T[N + 1] = s /\ \A i \in 1..N : T[i] = Queue[i]
      BY <1>0, <1>2
    <3>2. M = N + 1
      BY <1>0, <1>1, <1>10, <2>3
    <3>3. \A i \in 1..N : Queue'[i] = T[i]
      <4>1. \A i \in 1..N : i \in 1..M
        BY <1>0, <3>2
      <4> QED
        BY <1>3, <1>6, <2>1, <3>1, <4>1
    <3>4. Queue'[N + 1] = s
      <4>1. N + 1 \in 1..M /\ (N + 1) - 1 = N
        BY <1>0, <3>2
      <4>2. Queue'[N + 1] = free_list_q'[At(free_head_q', N)]
        BY <1>3, <4>1
      <4> QED
        BY <1>5, <1>7, <2>1, <2>3, <4>2
    <3>5. \A i \in 1..(N + 1) : Queue'[i] = T[i]
      BY <1>0, <3>1, <3>3, <3>4
    <3> HIDE DEF T
    <3>6. Queue' = T
      BY <1>3, <3>1, <3>2, <3>5
    <3> QED
      BY <1>10, <2>3, <3>6 DEF T
  <2> QED
    BY <1>0, <1>10, <2>2, <2>3
<1>11. CASE gnt
  <2> DEFINE T == Tail(Queue)
  <2>1. T \in Seq(Managed) /\ Len(T) = N - 1 /\ \A i \in 1..(N - 1) : T[i] = Queue[i + 1]
    BY <1>0, <1>2, <1>11
  <2>2. ASSUME NEW i \in 1..(N - 1) PROVE i \in 1..M => Queue'[i] = T[i]
    <3>1. i \in 1..ManagedCnt /\ i # ManagedCnt /\ i + 1 \in 1..N /\ (i + 1) - 1 = i
      BY <1>0
    <3>2. At(free_head_q', i - 1) = At(free_head_q, i)
      BY <1>8, <1>11, <3>1
    <3>3. free_list_q'[At(free_head_q, i)] = Queue[i + 1]
      BY <1>6, <3>1
    <3> QED
      BY <1>3, <2>1, <3>2, <3>3
  <2> HIDE DEF T
  <2>3. CASE ~push
    <3>1. M = N - 1 /\ \A i \in 1..M : Queue'[i] = T[i]
      BY <1>0, <1>1, <1>11, <2>2, <2>3
    <3>2. Queue' = T
      BY <1>3, <2>1, <3>1
    <3> QED
      BY <1>9, <1>11, <2>3, <3>2 DEF T
  <2>4. CASE push
    <3> DEFINE U == Append(T, s)
    <3>1. U \in Seq(Managed) /\ Len(U) = N /\ U[N] = s /\ \A i \in 1..(N - 1) : U[i] = T[i]
      BY <1>0, <1>11, <2>1
    <3>2. M = N /\ N \in 1..M /\ N \in 1..ManagedCnt /\ N # ManagedCnt
      <4>1. N # 0 /\ N # ManagedCnt
        BY <1>0, <1>11, <2>4
      <4>2. M = N - 1 + 1
        BY <1>1, <1>11, <2>4
      <4> QED
        BY <1>0, <4>1, <4>2
    <3>3. Queue'[N] = s
      <4>1. At(free_head_q', N - 1) = At(free_head_q, N)
        BY <1>8, <1>11, <3>2
      <4> QED
        BY <1>3, <1>5, <1>7, <2>4, <3>2, <4>1
    <3>4. \A i \in 1..N : Queue'[i] = U[i]
      BY <1>0, <2>2, <3>1, <3>2, <3>3
    <3> HIDE DEF U
    <3>5. Queue' = U
      BY <1>3, <3>1, <3>2, <3>4
    <3> QED
      BY <1>9, <1>11, <2>4, <3>5 DEF U, T
  <2> QED
    BY <1>0, <2>3, <2>4
<1> QED
  BY <1>0, <1>10, <1>11

\* Reset seeds the queue with the managed slots in order.
LEMMA InitFifo == Init => Pool!Init
<1> SUFFICES ASSUME Init PROVE Queue = [i \in 1..ManagedCnt |-> FreePoolBase + i - 1]
  BY DEF Pool!Init, Init, Queue
<1>1. IInv
  BY InitIInv
<1>2. /\ free_count_q = ManagedCnt /\ free_head_q = 0 /\ ManagedCnt \in Nat /\ FreePoolBase \in Nat
      /\ free_list_q = [i \in Ptr |-> FreePoolBase + i]
  BY ManagedCntAssumption, FreePoolBaseAssumption DEF Init
<1>3. ASSUME NEW i \in 1..ManagedCnt PROVE Queue[i] = FreePoolBase + i - 1
  <2>1. At(0, i - 1) = i - 1 /\ i - 1 \in Ptr
    BY <1>2 DEF At, Ptr
  <2>2. Queue[i] = free_list_q[At(0, i - 1)]
    BY <1>1, <1>2, QueueIs DEF IInv
  <2> QED
    BY <1>2, <2>1, <2>2
<1> QED
  BY <1>2, <1>3 DEF Queue

\* Every edge is a step of the queue or leaves it alone.
LEMMA ClockFifo ==
  ASSUME IInv, IInv', Next
  PROVE  Pool!Next \/ UNCHANGED <<Queue, owned, lost>>
<1>1. PICK a \in BOOLEAN, f \in BOOLEAN, s \in Managed : Request(a, f, s) /\ Clock(a, f, s)
  BY StepIsClock
<1> DEFINE gnt == spalloc_gnt(a)
           push == Push(gnt, f)
<1>2. /\ gnt /\ push => Queue' = Append(Tail(Queue), s)
      /\ gnt /\ ~push => Queue' = Tail(Queue)
      /\ ~gnt /\ push => Queue' = Append(Queue, s)
      /\ ~gnt /\ ~push => Queue' = Queue
      /\ gnt => Queue # <<>> /\ spalloc_idx = Head(Queue)
  BY <1>1, ClockQueue
<1>3. /\ owned' = (owned \cup (IF gnt THEN {spalloc_idx} ELSE {})) \ (IF f THEN {s} ELSE {})
      /\ lost' = lost \cup (IF f /\ ~push THEN {s} ELSE {})
  BY <1>1 DEF Clock
<1>4. /\ gnt \in BOOLEAN /\ push \in BOOLEAN /\ f \in BOOLEAN
      /\ f => s \in owned
      /\ push => f
      /\ f /\ ~push => gnt /\ free_count_q = 1
  BY <1>1, HeldLeavesRoom DEF Request, spalloc_gnt, Push, free_not_empty
<1> HIDE DEF gnt, push
<1>5. CASE gnt /\ push
  <2>1. Pool!AllocFree(s)
    BY <1>2, <1>3, <1>4, <1>5 DEF Pool!AllocFree, Queue
  <2> QED
    BY <1>4, <1>5, <2>1 DEF Pool!Next
<1>6. CASE gnt /\ ~push /\ f
  <2>1. Queue \in Seq(Managed) /\ Len(Queue) = 1
    BY <1>4, <1>6, QueueIs DEF IInv
  <2>2. Tail(Queue) = <<>>
    <3>1. Tail(Queue) \in Seq(Managed) /\ Len(Tail(Queue)) = 0
      BY <2>1
    <3> QED
      BY <3>1, EmptySeq
  <2>3. Pool!AllocLose(s)
    BY <1>2, <1>3, <1>6, <2>1, <2>2 DEF Pool!AllocLose, Queue
  <2> QED
    BY <1>4, <1>6, <2>3 DEF Pool!Next
<1>7. CASE gnt /\ ~push /\ ~f
  <2>1. Pool!Alloc
    BY <1>2, <1>3, <1>7 DEF Pool!Alloc, Queue
  <2> QED
    BY <2>1 DEF Pool!Next
<1>8. CASE ~gnt /\ push
  <2>1. Pool!Free(s)
    BY <1>2, <1>3, <1>4, <1>8 DEF Pool!Free, Queue
  <2> QED
    BY <1>4, <1>8, <2>1 DEF Pool!Next
<1>9. CASE ~gnt /\ ~push
  BY <1>2, <1>3, <1>4, <1>9
<1> QED
  BY <1>4, <1>5, <1>6, <1>7, <1>8, <1>9

\* The ring of ibex_addr_regfile implements a FIFO queue of free slots, for every
\* pool size: allocations come out in the order the slots went in, and a slot given
\* back is dropped only in a cycle that also takes the last free one.
THEOREM PoolIsFifo == Spec => FifoPool
<1>1. IInv /\ IInv' /\ [Next]_vars => [Pool!Next]_<<Queue, owned, lost>>
  <2>1. UNCHANGED vars => UNCHANGED <<Queue, owned, lost>>
    BY DEF vars, Queue
  <2> QED
    BY <2>1, ClockFifo
<1>2. Spec => []IInv
  BY InitIInv, NextIInv, PTL DEF Spec
<1> QED
  BY <1>1, <1>2, InitFifo, PTL DEF Spec, FifoPool, Pool!Spec, Queue

-----------------------------------------------------------------------------
\* ibex_mem_event_watch: the watchers lose no wake-up once armed and keep what they
\* were armed with, for any number of lanes, addresses, words and targets.

\* One lane of an edge: it is woken, or armed while it was free, or left alone.
LEMMA LaneTick ==
  ASSUME WatchTypeOK, NEW issue \in SUBSET Watchers, NEW w \in [issue -> Watch], Tick(issue, w),
         NEW l \in Watchers
  PROVE  \/ do_wake(l) /\ ~st_q'[l].active
         \/ ~do_wake(l) /\ ~st_q[l].active /\ l \in issue /\ st_q'[l] = w[l]
         \/ ~do_wake(l) /\ st_q'[l] = st_q[l]
  <1>1. st_q'[l] = IF do_wake(l) THEN [st_q[l] EXCEPT !.active = FALSE]
                   ELSE IF l \in issue /\ ~st_q[l].active THEN w[l] ELSE st_q[l]
    BY DEF Tick, WatchTick
  <1>2. [st_q[l] EXCEPT !.active = FALSE].active = FALSE
    BY DEF WatchTypeOK
  <1> QED
    BY <1>1, <1>2

\* The words, watches and promises keep their types.
THEOREM WatchTyped ==
  WatchSpec => []WatchTypeOK
  <1>1. WatchInit => WatchTypeOK
    BY WatchAssumption DEF WatchInit, WatchTypeOK, Reset, Ops
  <1>2. WatchTypeOK /\ [WatchNext]_watchVars => WatchTypeOK'
    <2>1. ASSUME WatchTypeOK, NEW issue \in SUBSET Watchers, NEW w \in [issue -> Watch], Tick(issue, w)
          PROVE  WatchTypeOK'
      <3> USE <2>1
      <3>1. \A l \in Watchers : [st_q[l] EXCEPT !.active = FALSE]
                               \in [active : BOOLEAN, op : Ops, addr : WatchAddrs,
                                    sentinel : Word, target : Targets]
        BY DEF WatchTypeOK
      <3>2. \A l \in issue : w[l] \in [active : BOOLEAN, op : Ops, addr : WatchAddrs,
                                       sentinel : Word, target : Targets]
        BY DEF Watch
      <3>3. st_q' \in [Watchers -> [active : BOOLEAN, op : Ops, addr : WatchAddrs,
                                 sentinel : Word, target : Targets]]
        BY <3>1, <3>2 DEF Tick, WatchTick, WatchTypeOK
      <3>4. mem' \in [WatchAddrs -> Word] /\ due' \in [Watchers -> BOOLEAN]
        <4>1. CASE NoStore
          BY <4>1 DEF NoStore, WatchTypeOK
        <4>2. ASSUME NEW a \in WatchAddrs, NEW v \in Word, Store(a, v)
              PROVE  mem' \in [WatchAddrs -> Word] /\ due' \in [Watchers -> BOOLEAN]
          <5>1. \A l \in Watchers : addr_match(l, a) \in BOOLEAN
            BY DEF addr_match, WatchTypeOK
          <5> QED
            BY <4>2, <5>1 DEF Store, WatchTypeOK
        <4> QED
          BY <4>1, <4>2 DEF Tick
      <3>5. metAtArm' \in [Watchers -> BOOLEAN]
        <4>1. \A l \in Watchers : cond_met(st_q'[l], mem'[st_q'[l].addr]) \in BOOLEAN
          BY <3>3 DEF cond_met, Ops
        <4>2. metAtArm' = [l \in Watchers |-> IF st_q'[l].active /\ ~st_q[l].active
                                           THEN cond_met(st_q'[l], mem'[st_q'[l].addr])
                                           ELSE metAtArm[l]]
          BY DEF Tick
        <4> QED
          BY <4>1, <4>2 DEF WatchTypeOK
      <3> QED
        BY <3>3, <3>4, <3>5 DEF WatchTypeOK
    <2>2. WatchTypeOK /\ UNCHANGED watchVars => WatchTypeOK'
      BY DEF WatchTypeOK, watchVars
    <2> QED
      BY <2>1, <2>2 DEF WatchNext
  <1> QED
    BY <1>1, <1>2, PTL DEF WatchSpec

\* No wake-up is lost after the arming: a lane asleep on a condition that holds was
\* armed while it held, or the LSU is about to show it the word.  The one way to become
\* so is a store, and a store promises the word.
THEOREM NoLostWakeup ==
  WatchSpec => []LostOnlyAtArm
  <1>1. WatchInit => LostOnlyAtArm
    BY DEF WatchInit, LostOnlyAtArm, Met, Reset
  <1>2. WatchTypeOK /\ WatchTypeOK' /\ LostOnlyAtArm /\ [WatchNext]_watchVars => LostOnlyAtArm'
    <2> SUFFICES ASSUME WatchTypeOK, WatchTypeOK', LostOnlyAtArm, [WatchNext]_watchVars, NEW l \in Watchers, Met(l)'
                 PROVE  due'[l] \/ metAtArm'[l]
      BY DEF LostOnlyAtArm
    <2>1. CASE UNCHANGED watchVars
      BY <2>1 DEF watchVars, LostOnlyAtArm, Met, cond_met, bits
    <2>2. CASE WatchNext
      <3> PICK issue \in SUBSET Watchers : \E w \in [issue -> Watch] : Tick(issue, w)
        BY <2>2 DEF WatchNext
      <3> PICK w \in [issue -> Watch] : Tick(issue, w)
        OBVIOUS
      <3>1. st_q'[l].active /\ cond_met(st_q'[l], mem'[st_q'[l].addr])
        BY DEF Met, cond_met, bits
      <3>2. metAtArm'[l] = IF st_q'[l].active /\ ~st_q[l].active
                           THEN cond_met(st_q'[l], mem'[st_q'[l].addr]) ELSE metAtArm[l]
        BY DEF Tick
      <3>3. CASE ~st_q[l].active
        BY <3>1, <3>2, <3>3
      <3>4. CASE st_q[l].active
        <4>1. ~do_wake(l) /\ st_q'[l] = st_q[l]
          BY <3>1, <3>4, LaneTick
        <4>2. metAtArm'[l] = metAtArm[l]
          BY <3>2, <3>4
        <4>3. ASSUME NEW a \in WatchAddrs, NEW v \in Word, Store(a, v), ~due'[l]
              PROVE  mem'[st_q[l].addr] = mem[st_q[l].addr]
          <5>1. st_q[l].addr # a
            BY <3>4, <4>3 DEF Store, addr_match
          <5> QED
            BY <4>3, <5>1 DEF Store, WatchTypeOK
        <4>4. ~due'[l] => mem'[st_q[l].addr] = mem[st_q[l].addr]
          BY <4>3 DEF Tick, NoStore
        <4>5. ~due'[l] => Met(l)
          BY <3>1, <3>4, <4>1, <4>4 DEF Met
        <4>6. ~due'[l] => ~due[l]
          BY <3>4, <4>1, <4>5 DEF do_wake, Met
        <4> QED
          BY <4>2, <4>5, <4>6 DEF LostOnlyAtArm
      <3> QED
        BY <3>3, <3>4
    <2> QED
      BY <2>1, <2>2
  <1> QED
    BY <1>1, <1>2, WatchTyped, PTL DEF WatchSpec

\* A suspended lane keeps its watch until it fires: a wj* issued to it has no effect.
THEOREM WatchIsKept ==
  WatchSpec => ArmedUntilFired
  <1>1. WatchTypeOK /\ [WatchNext]_watchVars
          => [\A l \in Watchers : st_q[l].active
                => st_q'[l] = st_q[l] \/ (do_wake(l) /\ ~st_q'[l].active)]_watchVars
    <2> SUFFICES ASSUME WatchTypeOK, WatchNext, NEW l \in Watchers, st_q[l].active
                 PROVE  st_q'[l] = st_q[l] \/ (do_wake(l) /\ ~st_q'[l].active)
      OBVIOUS
    <2> QED
      BY LaneTick DEF WatchNext
  <1> QED
    BY <1>1, WatchTyped, PTL DEF WatchSpec, ArmedUntilFired

-----------------------------------------------------------------------------
\* ibex_crossbar: the arbitration loop computes a fixed priority, for any number of
\* requestors, banks and words.

\* What the loop has claimed when the requestors below n have had their turn: one
\* entry for the lowest requestor of every bank asked for.
Claim(r) == [bank |-> addr_i[r].bank, winner |-> r, off |-> addr_i[r].off]
First(r) == /\ req_i[r]
            /\ \A k \in Reqs : k < r /\ req_i[k] => addr_i[k].bank # addr_i[r].bank
ClaimedBelow(n) == {Claim(r) : r \in {r \in Reqs : r < n /\ First(r)}}

\* If some requestor below r asks for its bank, so does a first one.
LEMMA FirstOfBank ==
  ASSUME NEW r \in Reqs, NEW k \in Reqs, k < r, req_i[k],
         addr_i[k].bank = addr_i[r].bank
  PROVE  \E j \in Reqs : j < r /\ First(j) /\ addr_i[j].bank = addr_i[r].bank
<1> DEFINE Rivals == {j \in Reqs : j < r /\ req_i[j] /\ addr_i[j].bank = addr_i[r].bank}
<1>1. Reqs \subseteq Nat
  BY CrossbarAssumption DEF Reqs
<1>2. Rivals \in SUBSET Nat /\ Rivals # {}
  BY <1>1
<1>3. PICK m \in Rivals : \A j \in Rivals : m <= j
  <2> HIDE DEF Rivals
  <2> QED
    BY <1>2, LeastElement
<1>4. First(m)
  <2> SUFFICES ASSUME NEW j \in Reqs, j < m, req_i[j], addr_i[j].bank = addr_i[m].bank
               PROVE  FALSE
    BY DEF First
  <2>1. j \in Nat /\ m \in Nat /\ r \in Nat
    BY <1>1
  <2>2. j \in Rivals
    BY <2>1
  <2> QED
    BY <1>3, <2>1, <2>2
<1> QED
  BY <1>4

\* The loop computes what its closed form says.
LEMMA ClaimsClosed ==
  claims = ClaimedBelow(NumReqs)
<1> DEFINE Turn(g, n) == LET r == n - 1
                         IN  IF req_i[r] /\ \A c \in g[n - 1] : c.bank # addr_i[r].bank
                             THEN g[n - 1] \cup {[bank |-> addr_i[r].bank, winner |-> r, off |-> addr_i[r].off]}
                             ELSE g[n - 1]
           Loop(g) == [n \in 0..NumReqs |-> IF n = 0 THEN {} ELSE Turn(g, n)]
           iter == CHOOSE g : g = Loop(g)
           closed == [n \in 0..NumReqs |-> ClaimedBelow(n)]
<1>1. NumReqs \in Nat /\ Reqs \subseteq Nat
  BY CrossbarAssumption DEF Reqs
<1>2. claims = iter[NumReqs]
  BY DEF claims
<1>3. ClaimedBelow(0) = {}
  BY <1>1 DEF ClaimedBelow
<1>4. ASSUME NEW n \in 1..NumReqs
      PROVE  ClaimedBelow(n) = Turn(closed, n)
  <2>1. n - 1 \in Reqs /\ n \in Nat /\ n - 1 \in 0..NumReqs
    BY <1>1 DEF Reqs
  <2>2. \A k \in Reqs : k < n <=> k < n - 1 \/ k = n - 1
    BY <1>1, <2>1
  <2>3. ClaimedBelow(n) = ClaimedBelow(n - 1) \cup (IF First(n - 1) THEN {Claim(n - 1)} ELSE {})
    BY <2>1, <2>2 DEF ClaimedBelow
  <2>4. First(n - 1) <=> req_i[n - 1] /\ \A c \in ClaimedBelow(n - 1) : c.bank # addr_i[n - 1].bank
    <3>1. ASSUME First(n - 1)
          PROVE  req_i[n - 1] /\ \A c \in ClaimedBelow(n - 1) : c.bank # addr_i[n - 1].bank
      BY <3>1 DEF ClaimedBelow, Claim, First
    <3>2. ASSUME req_i[n - 1], ~First(n - 1)
          PROVE  \E c \in ClaimedBelow(n - 1) : c.bank = addr_i[n - 1].bank
      <4>1. PICK k \in Reqs : k < n - 1 /\ req_i[k] /\ addr_i[k].bank = addr_i[n - 1].bank
        BY <3>2 DEF First
      <4>2. PICK j \in Reqs : j < n - 1 /\ First(j) /\ addr_i[j].bank = addr_i[n - 1].bank
        BY <2>1, <4>1, FirstOfBank
      <4>3. Claim(j) \in ClaimedBelow(n - 1) /\ Claim(j).bank = addr_i[j].bank
        BY <4>2 DEF ClaimedBelow, Claim
      <4> QED
        BY <4>2, <4>3
    <3> QED
      BY <3>1, <3>2 DEF First
  <2>5. closed[n - 1] = ClaimedBelow(n - 1)
    BY <2>1
  <2> HIDE DEF closed
  <2> QED
    BY <2>3, <2>4, <2>5 DEF Claim
<1>5. closed = Loop(closed)
  <2> HIDE DEF Turn
  <2> QED
    BY <1>1, <1>3, <1>4
<1>6. iter = Loop(iter)
  <2> HIDE DEF closed, Turn
  <2> QED
    BY <1>5
<1>7. \A n \in 0..NumReqs : iter[n] = closed[n]
  <2> DEFINE S == {n \in 0..NumReqs : iter[n] = closed[n]}
  <2> HIDE DEF iter, closed
  <2>1. 0 \in S
    BY <1>1, <1>5, <1>6
  <2>2. ASSUME NEW n \in 1..NumReqs, n - 1 \in S PROVE n \in S
    <3>1. n \in 0..NumReqs /\ n # 0
      BY <1>1
    <3>2. iter[n] = Turn(iter, n) /\ closed[n] = Turn(closed, n)
      <4> HIDE DEF Turn
      <4> QED
        BY <1>5, <1>6, <3>1
    <3> QED
      BY <2>2, <3>1, <3>2
  <2>3. \A n \in 0..NumReqs : n \in S
    <3> HIDE DEF S
    <3> QED
      BY <1>1, <2>1, <2>2, IntervalInduction
  <2> QED
    BY <2>3
<1> QED
  <2> HIDE DEF iter
  <2> QED
    BY <1>1, <1>2, <1>7

\* The claims of the loop, one by one.
LEMMA ClaimsAre ==
  /\ \A r \in Reqs : First(r) => Claim(r) \in claims
  /\ \A c \in claims : \E r \in Reqs : First(r) /\ c = Claim(r)
<1>1. \A r \in Reqs : r < NumReqs
  BY CrossbarAssumption DEF Reqs
<1> QED
  BY <1>1, ClaimsClosed DEF ClaimedBelow

\* A requestor is granted exactly when it is the first of its bank.
LEMMA GrantIsFirst ==
  \A r \in Reqs : gnt_o(r) <=> First(r)
<1> SUFFICES ASSUME NEW r \in Reqs
             PROVE  gnt_o(r) <=> First(r)
  OBVIOUS
<1>1. \A k \in Reqs : Claim(k).winner = k
  BY DEF Claim
<1>2. ASSUME First(r) PROVE gnt_o(r)
  BY <1>1, <1>2, ClaimsAre DEF gnt_o
<1>3. ASSUME gnt_o(r) PROVE First(r)
  <2>1. PICK c \in claims : c.winner = r
    BY <1>3 DEF gnt_o
  <2>2. PICK k \in Reqs : First(k) /\ c = Claim(k)
    BY ClaimsAre
  <2> QED
    BY <1>1, <2>1, <2>2
<1> QED
  BY <1>2, <1>3

\* Two first requestors of one bank are the same.
LEMMA FirstIsUnique ==
  \A r, k \in Reqs : First(r) /\ First(k) /\ addr_i[r].bank = addr_i[k].bank => r = k
<1>1. Reqs \subseteq Nat
  BY CrossbarAssumption DEF Reqs
<1> QED
  BY <1>1 DEF First

\* ibex_crossbar's loop grants the lowest requestor of every requested bank and no
\* other, for any number of requestors and banks.
THEOREM CrossbarIsFixedPriority ==
  XbarSpec => []LowestPerBankWins
<1>1. LowestPerBankWins
  <2>1. \A r \in Reqs : gnt_o(r) <=> /\ req_i[r]
                                     /\ \A k \in Reqs : k < r /\ req_i[k] => addr_i[k].bank # addr_i[r].bank
    BY GrantIsFirst DEF First
  <2>2. \A c, d \in claims : c.bank = d.bank => c = d
    BY ClaimsAre, FirstIsUnique DEF Claim
  <2>3. {c.bank : c \in claims} = {addr_i[r].bank : r \in {r \in Reqs : req_i[r]}}
    <3>1. ASSUME NEW c \in claims
          PROVE  \E r \in Reqs : req_i[r] /\ c.bank = addr_i[r].bank
      BY ClaimsAre DEF Claim, First
    <3>2. ASSUME NEW r \in Reqs, req_i[r]
          PROVE  \E c \in claims : c.bank = addr_i[r].bank
      <4>1. CASE First(r)
        BY <4>1, ClaimsAre DEF Claim
      <4>2. CASE ~First(r)
        <5>1. PICK k \in Reqs : k < r /\ req_i[k] /\ addr_i[k].bank = addr_i[r].bank
          BY <3>2, <4>2 DEF First
        <5>2. PICK j \in Reqs : First(j) /\ addr_i[j].bank = addr_i[r].bank
          BY <5>1, FirstOfBank
        <5> QED
          BY <5>2, ClaimsAre DEF Claim
      <4> QED
        BY <4>1, <4>2
    <3> QED
      BY <3>1, <3>2
  <2> QED
    BY <2>1, <2>2, <2>3 DEF LowestPerBankWins
<1> QED
  BY <1>1, PTL

\* Repeated reads get their own word, whoever used the bank in between.
THEOREM CrossbarReadsItsWord ==
  XbarSpec => DataAfterGrant
<1> DEFINE Typed == /\ req_i \in [Reqs -> BOOLEAN]
                    /\ addr_i \in [Reqs -> Addresses]
           Named == \A c \in claims : c.bank = addr_i[c.winner].bank
           Reads == \A r \in Reqs :
                      gnt_o(r) /\ gnt_o(r)' /\ addr_i'[r] = addr_i[r]
                        => rdata_o(r)' = word(addr_i[r].bank, addr_i[r].off)
<1>1. XbarInit => Typed
  BY DEF XbarInit
<1>2. Typed /\ [XbarClock]_xbarVars => Typed'
  BY DEF XbarClock, xbarVars
<1>3. ASSUME Named', Typed, XbarClock PROVE Reads
  <2> SUFFICES ASSUME NEW r \in Reqs, gnt_o(r), gnt_o(r)', addr_i'[r] = addr_i[r]
               PROVE  rdata_o(r)' = word(addr_i[r].bank, addr_i[r].off)
    OBVIOUS
  <2> DEFINE c == Claim(r)
  <2>1. c \in claims /\ c.bank = addr_i[r].bank /\ c.off = addr_i[r].off
    BY GrantIsFirst, ClaimsAre DEF Claim
  <2>2. \A d \in claims : d.bank = c.bank => d = c
    BY <2>1, ClaimsAre, FirstIsUnique, GrantIsFirst DEF Claim
  <2>3. (CHOOSE d \in claims : d.bank = c.bank) = c
    <3> HIDE DEF c
    <3> QED
      BY <2>1, <2>2
  <2>4. addr_i[r].bank \in 0..(NumBanks - 1)
    BY <1>3 DEF Addresses
  <2>5. bank_rdata_i'[addr_i[r].bank] = word(addr_i[r].bank, addr_i[r].off)
    <3> HIDE DEF c
    <3> QED
      BY <1>3, <2>1, <2>3, <2>4 DEF XbarClock
  <2>6. \A d \in claims' : d.winner = r => d.bank = addr_i'[r].bank
    BY <1>3
  <2>7. rdata_o(r)' = bank_rdata_i'[addr_i'[r].bank]
    <3>1. \E d \in claims' : d.winner = r
      BY DEF gnt_o
    <3>2. rdata_o(r)' = bank_rdata_i'[(CHOOSE d \in claims' : d.winner = r).bank]
      BY <3>1 DEF rdata_o, gnt_o
    <3> QED
      BY <2>6, <3>1, <3>2
  <2> QED
    BY <2>5, <2>7
<1>4. Named
  BY ClaimsAre DEF Claim
<1>5. XbarSpec => []Typed
  <2> HIDE DEF Typed
  <2> QED
    BY <1>1, <1>2, PTL DEF XbarSpec
<1>6. Named' /\ Typed /\ [XbarClock]_xbarVars => [Reads]_xbarVars
  BY <1>3
<1> QED
  <2> HIDE DEF Typed, Reads, Named
  <2>1. XbarSpec => [][Reads]_xbarVars
    BY <1>4, <1>5, <1>6, PTL DEF XbarSpec
  <2> QED
    BY <2>1 DEF DataAfterGrant, Reads

-----------------------------------------------------------------------------
\* ibex_hot_addr_detect: the index and the tag of an entry determine its address,
\* and the ring offers hot addresses only.

\* The XOR with a given slice is undone by the same slice.
LEMMA XorCancels ==
  ASSUME NEW x, NEW y, NEW z, Xor(x, z) = Xor(y, z)
  PROVE  x = y
<1>1. ASSUME NEW e PROVE e \in x <=> e \in y
  <2>1. e \in Xor(x, z) <=> e \in Xor(y, z)
    OBVIOUS
  <2> QED
    BY <2>1 DEF Xor
<1> QED
  BY <1>1

\* The stages of the fold of an address, and what the hash takes from them.
Stages(f, a) == /\ f \in [0..SliceCnt -> Entries]
                /\ f[0] = {}
                /\ \A n \in 1..SliceCnt : f[n] = Xor(f[n - 1], a[n])

LEMMA HashIsFold ==
  ASSUME NEW a \in [1..SliceCnt -> Entries]
  PROVE  \E f : Stages(f, a) /\ hash_idx(a) = f[SliceCnt]
<1> DEFINE G == [p \in Entries \X Nat |-> IF p[2] \in 1..SliceCnt THEN Xor(p[1], a[p[2]]) ELSE p[1]]
           Loop(g) == [n \in 0..SliceCnt |-> IF n = 0 THEN {} ELSE Xor(g[n - 1], a[n])]
           fold == CHOOSE g : g = Loop(g)
<1>1. SliceCnt \in Nat
  BY HotAssumption
<1>2. \A x, y \in Entries : Xor(x, y) \in Entries
  BY DEF Xor, Entries
<1>3. G \in [Entries \X Nat -> Entries] /\ {} \in Entries
  BY <1>2 DEF Entries
<1>4. PICK f : Follows(f, SliceCnt, Entries, {}, G)
  <2> HIDE DEF G
  <2> QED
    BY <1>1, <1>3, RecursionExists, Zenon
<1>5. f \in [0..SliceCnt -> Entries] /\ f[0] = {} /\ \A n \in 1..SliceCnt : f[n] = G[<<f[n - 1], n>>]
  BY <1>4 DEF Follows
<1>6. ASSUME NEW n \in 1..SliceCnt PROVE f[n] = Xor(f[n - 1], a[n])
  <2>1. f[n - 1] \in Entries /\ n \in Nat
    BY <1>1, <1>5
  <2>2. G[<<f[n - 1], n>>] = Xor(f[n - 1], a[n])
    BY <2>1
  <2> HIDE DEF G
  <2> QED
    BY <1>5, <2>2
<1>7. f = Loop(f)
  BY <1>1, <1>5, <1>6
<1>8. fold = Loop(fold)
  BY <1>7
<1>9. hash_idx(a) = fold[SliceCnt]
  BY DEF hash_idx
<1> HIDE DEF fold, G
<1>10. \A n \in 0..SliceCnt : fold[n] = f[n]
  <2> DEFINE S == {n \in 0..SliceCnt : fold[n] = f[n]}
  <2>1. 0 \in S
    BY <1>1, <1>5, <1>8
  <2>2. \A n \in 1..SliceCnt : n - 1 \in S => n \in S
    <3> SUFFICES ASSUME NEW n \in 1..SliceCnt, fold[n - 1] = f[n - 1] PROVE fold[n] = f[n]
      BY <1>1
    <3>1. n \in 0..SliceCnt /\ n # 0
      BY <1>1
    <3>2. fold[n] = Xor(fold[n - 1], a[n])
      BY <1>8, <3>1
    <3> QED
      BY <1>6, <3>2
  <2>3. \A n \in 0..SliceCnt : n \in S
    <3> HIDE DEF S
    <3> QED
      BY <1>1, <2>1, <2>2, IntervalInduction
  <2> QED
    BY <2>3
<1>11. hash_idx(a) = f[SliceCnt]
  BY <1>1, <1>9, <1>10
<1> QED
  BY <1>5, <1>6, <1>11 DEF Stages

LEMMA HashInTable ==
  ASSUME NEW a \in Addrs
  PROVE  hash_idx(a) \in Entries
<1>1. a \in [1..SliceCnt -> Entries] /\ SliceCnt \in Nat
  BY HotAssumption
<1> QED
  BY <1>1, HashIsFold DEF Stages

\* Two addresses with one index and one tag are the same address.
LEMMA IndexAndTagExact ==
  ASSUME NEW a \in Addrs, NEW b \in Addrs,
         hash_idx(a) = hash_idx(b), tag(a) = tag(b)
  PROVE  a = b
<1>1. /\ a \in [1..SliceCnt -> Entries] /\ b \in [1..SliceCnt -> Entries]
      /\ SliceCnt \in Nat \ {0}
  BY HotAssumption
<1>2. PICK f : Stages(f, a) /\ hash_idx(a) = f[SliceCnt]
  BY <1>1, HashIsFold
<1>3. PICK g : Stages(g, b) /\ hash_idx(b) = g[SliceCnt]
  BY <1>1, HashIsFold
<1>4. \A n \in 2..SliceCnt : a[n] = b[n]
  <2>1. ASSUME NEW n \in 2..SliceCnt PROVE tag(a)[n] = a[n] /\ tag(b)[n] = b[n]
    BY DEF tag
  <2> QED
    BY <2>1
<1>5. \A n \in 1..SliceCnt : f[n] = Xor(f[n - 1], a[n]) /\ g[n] = Xor(g[n - 1], b[n])
  BY <1>2, <1>3 DEF Stages
<1>6. ASSUME NEW n \in 2..SliceCnt, f[n] = g[n] PROVE f[n - 1] = g[n - 1]
  <2>1. n \in 1..SliceCnt
    BY <1>1
  <2>2. Xor(f[n - 1], a[n]) = Xor(g[n - 1], a[n])
    BY <1>4, <1>5, <1>6, <2>1
  <2> QED
    BY <2>2, XorCancels
<1>7. f[1] = g[1]
  <2> DEFINE S == {n \in 0..SliceCnt : n = 0 \/ (f[n] = g[n] => f[1] = g[1])}
  <2>1. 0 \in S
    BY <1>1
  <2>2. ASSUME NEW n \in 1..SliceCnt, n - 1 \in S PROVE n \in S
    <3>1. CASE n = 1
      BY <1>1, <3>1
    <3>2. CASE n # 1
      <4>1. n \in 2..SliceCnt /\ n - 1 # 0
        BY <1>1, <3>2
      <4> QED
        BY <1>1, <1>6, <2>2, <4>1
    <3> QED
      BY <3>1, <3>2
  <2>3. \A n \in 0..SliceCnt : n \in S
    <3> HIDE DEF S
    <3> QED
      BY <1>1, <2>1, <2>2, IntervalInduction
  <2>4. SliceCnt \in S /\ SliceCnt # 0
    BY <1>1, <2>3
  <2>5. f[SliceCnt] = g[SliceCnt]
    BY <1>2, <1>3
  <2> QED
    BY <2>4, <2>5
<1>8. a[1] = b[1]
  <2>1. 1 \in 1..SliceCnt /\ f[0] = {} /\ g[0] = {}
    BY <1>1, <1>2, <1>3 DEF Stages
  <2>2. f[1] = Xor(f[0], a[1]) /\ g[1] = Xor(g[0], b[1])
    <3>1. f[1] = Xor(f[1 - 1], a[1]) /\ g[1] = Xor(g[1 - 1], b[1])
      BY <1>5, <2>1
    <3> QED
      BY <3>1 DEF Xor
  <2>3. Xor({}, a[1]) = a[1] /\ Xor({}, b[1]) = b[1]
    BY DEF Xor
  <2> QED
    BY <1>7, <2>1, <2>2, <2>3
<1>9. \A n \in 1..SliceCnt : a[n] = b[n]
  BY <1>1, <1>4, <1>8
<1> QED
  BY <1>1, <1>9

\* A table entry counts one address only, for every width of the index and every
\* number of slices: the tag leaves out exactly what the index determines.
THEOREM TableEntryExact ==
  HotSpec => []HitIsExact
<1>1. HitIsExact
  BY IndexAndTagExact DEF HitIsExact, hit
<1> QED
  BY <1>1, PTL

\* A number below the modulus is its own remainder.
LEMMA SmallMod ==
  ASSUME NEW m \in Nat \ {0}, NEW n \in 0..(m - 1)
  PROVE  n % m = n
  OBVIOUS

\* The next position of a ring of D.
LEMMA NextPosition ==
  ASSUME NEW D \in Nat \ {0}, NEW p \in 0..(D - 1)
  PROVE  (p + 1) % D = IF p + 1 = D THEN 0 ELSE p + 1
<1>1. CASE p + 1 = D
  <2>1. D % D = 0
    OBVIOUS
  <2> QED
    BY <1>1, <2>1
<1>2. CASE p + 1 # D
  <2>1. p + 1 \in 0..(D - 1)
    BY <1>2
  <2> QED
    BY <1>2, <2>1
<1> QED
  BY <1>1, <1>2

\* An address earned its place in the ring.
Hot(x) == x \in Addrs /\ loads[x] = Threshold

HotTyped == /\ valid_q \in [Entries -> BOOLEAN]
            /\ tag_q \in [Entries -> {tag(a) : a \in Addrs \cup {NoAddr}}]
            /\ cnt_q \in [Entries -> Nat]
            /\ recq_mem \in [RingPtr -> Addrs \cup {NoAddr}]
            /\ recq_head_q \in RingPtr
            /\ recq_tail_q \in RingPtr
            /\ recq_count_q \in 0..RecqDepth
            /\ loads \in [Addrs -> 0..Threshold]

\* The count of an entry is below the threshold, and its address was loaded at
\* least that often.
CountEarned == \A a \in Addrs :
  hit(a) => /\ cnt_q[hash_idx(a)] < Threshold
            /\ cnt_q[hash_idx(a)] <= loads[a] \/ loads[a] = Threshold

\* Either every position of the ring was written with a hot address, or the writes
\* have not come round yet and the offered positions are below the tail.
RingHot == \/ \A s \in RingPtr : Hot(recq_mem[s])
           \/ /\ recq_head_q + recq_count_q <= recq_tail_q
              /\ \A s \in RingPtr : s < recq_tail_q => Hot(recq_mem[s])

HotInv == HotTyped /\ CountEarned /\ RingHot

LEMMA HotBounds ==
  /\ RecqDepth \in Nat \ {0} /\ CntMod \in Nat /\ Threshold \in Nat
  /\ Threshold >= 2 /\ Threshold <= CntMod
  BY HotAssumption

\* A load keeps the counts earned, and an address that is promoted is hot.
LEMMA ObserveTable ==
  ASSUME HotTyped, CountEarned, NEW a \in Addrs, NEW pop \in BOOLEAN,
         Observe(a, pop)
  PROVE  /\ valid_q' \in [Entries -> BOOLEAN]
         /\ tag_q' \in [Entries -> {tag(b) : b \in Addrs \cup {NoAddr}}]
         /\ cnt_q' \in [Entries -> Nat]
         /\ loads' \in [Addrs -> 0..Threshold]
         /\ CountEarned'
         /\ \A x : Hot(x) => Hot(x)'
         /\ promote_thresh(a) => Hot(a)'
<1> DEFINE i == hash_idx(a)
<1>1. i \in Entries /\ tag(a) \in {tag(b) : b \in Addrs \cup {NoAddr}}
  BY HashInTable
<1>2. loads' = [loads EXCEPT ![a] = IF @ < Threshold THEN @ + 1 ELSE @]
  BY DEF Observe
<1>3. /\ loads' \in [Addrs -> 0..Threshold]
      /\ \A b \in Addrs : b # a => loads'[b] = loads[b]
      /\ loads'[a] = IF loads[a] < Threshold THEN loads[a] + 1 ELSE loads[a]
      /\ loads[a] \in 0..Threshold
  BY <1>2, HotBounds DEF HotTyped
<1>4. \A x : Hot(x) => Hot(x)'
  BY <1>3, HotBounds DEF Hot
<1>5. CASE hit(a)
  <2>1. /\ cnt_q' = [cnt_q EXCEPT ![i] = IF promote_thresh(a) THEN 0 ELSE (@ + 1) % CntMod]
        /\ UNCHANGED <<valid_q, tag_q>>
    BY <1>5 DEF Observe, TableTick
  <2>2. cnt_q[i] < Threshold /\ cnt_q[i] \in Nat /\ (cnt_q[i] <= loads[a] \/ loads[a] = Threshold)
    BY <1>1, <1>5 DEF CountEarned, HotTyped
  <2>3. promote_thresh(a) <=> cnt_q[i] = Threshold - 1
    BY <1>5 DEF promote_thresh
  <2>4. promote_thresh(a) => Hot(a)'
    BY <1>3, <2>2, <2>3, HotBounds DEF Hot
  <2>5. ~promote_thresh(a) => (cnt_q[i] + 1) % CntMod = cnt_q[i] + 1 /\ cnt_q[i] + 1 < Threshold
    <3> SUFFICES ASSUME ~promote_thresh(a)
                 PROVE  (cnt_q[i] + 1) % CntMod = cnt_q[i] + 1 /\ cnt_q[i] + 1 < Threshold
      OBVIOUS
    <3>1. cnt_q[i] + 1 \in 0..(CntMod - 1) /\ CntMod \in Nat \ {0} /\ cnt_q[i] + 1 < Threshold
      BY <2>2, <2>3, HotBounds
    <3> QED
      BY <3>1, SmallMod
  <2>6. cnt_q'[i] = IF promote_thresh(a) THEN 0 ELSE cnt_q[i] + 1
    BY <1>1, <2>1, <2>5 DEF HotTyped
  <2>7. cnt_q' \in [Entries -> Nat]
    BY <1>1, <2>1, <2>2, <2>5 DEF HotTyped
  <2>8. CountEarned'
    <3> SUFFICES ASSUME NEW b \in Addrs, hit(b)'
                 PROVE  /\ cnt_q'[hash_idx(b)] < Threshold
                        /\ cnt_q'[hash_idx(b)] <= loads'[b] \/ loads'[b] = Threshold
      BY DEF CountEarned
    <3>1. hit(b)
      BY <2>1 DEF hit
    <3>2. CASE hash_idx(b) = i
      <4>1. b = a
        BY <1>5, <3>1, <3>2, IndexAndTagExact DEF hit
      <4> QED
        BY <1>3, <2>2, <2>3, <2>5, <2>6, <4>1, HotBounds
    <3>3. CASE hash_idx(b) # i
      <4>1. cnt_q'[hash_idx(b)] = cnt_q[hash_idx(b)] /\ b # a
        BY <2>1, <3>3, HashInTable DEF HotTyped
      <4> QED
        BY <1>3, <3>1, <4>1 DEF CountEarned
    <3> QED
      BY <3>2, <3>3
  <2> QED
    BY <1>3, <1>4, <2>1, <2>4, <2>7, <2>8 DEF HotTyped
<1>6. CASE ~hit(a)
  <2>1. /\ cnt_q' = [cnt_q EXCEPT ![i] = 1]
        /\ valid_q' = [valid_q EXCEPT ![i] = TRUE]
        /\ tag_q' = [tag_q EXCEPT ![i] = tag(a)]
    BY <1>6 DEF Observe, TableTick
  <2>2. CountEarned'
    <3> SUFFICES ASSUME NEW b \in Addrs, hit(b)'
                 PROVE  /\ cnt_q'[hash_idx(b)] < Threshold
                        /\ cnt_q'[hash_idx(b)] <= loads'[b] \/ loads'[b] = Threshold
      BY DEF CountEarned
    <3>2. CASE hash_idx(b) = i
      <4>1. tag(b) = tag(a)
        BY <1>1, <2>1, <3>2 DEF hit, HotTyped
      <4>2. b = a
        BY <3>2, <4>1, IndexAndTagExact
      <4>3. cnt_q'[i] = 1
        BY <1>1, <2>1 DEF HotTyped
      <4> QED
        BY <1>3, <4>2, <4>3, HotBounds
    <3>3. CASE hash_idx(b) # i
      <4>1. /\ cnt_q'[hash_idx(b)] = cnt_q[hash_idx(b)] /\ b # a
            /\ valid_q'[hash_idx(b)] = valid_q[hash_idx(b)]
            /\ tag_q'[hash_idx(b)] = tag_q[hash_idx(b)]
        BY <2>1, <3>3, HashInTable DEF HotTyped
      <4>2. hit(b)
        BY <4>1 DEF hit
      <4> QED
        BY <1>3, <4>1, <4>2 DEF CountEarned
    <3> QED
      BY <3>2, <3>3
  <2>3. ~promote_thresh(a)
    BY <1>6 DEF promote_thresh
  <2>4. valid_q' \in [Entries -> BOOLEAN] /\ cnt_q' \in [Entries -> Nat]
    BY <2>1 DEF HotTyped
  <2>5. tag_q' \in [Entries -> {tag(b) : b \in Addrs \cup {NoAddr}}]
    BY <1>1, <2>1 DEF HotTyped
  <2> QED
    BY <1>3, <1>4, <2>2, <2>3, <2>4, <2>5
<1> QED
  BY <1>5, <1>6

\* A push of a hot address, with or without a pop, keeps the ring hot.
LEMMA PushHot ==
  ASSUME HotTyped, RingHot, \A x : Hot(x) => Hot(x)',
         NEW a \in Addrs, Hot(a)', NEW pop \in BOOLEAN, RingPush(a, pop)
  PROVE  /\ recq_mem' \in [RingPtr -> Addrs \cup {NoAddr}]
         /\ recq_head_q' \in RingPtr /\ recq_tail_q' \in RingPtr /\ recq_count_q' \in 0..RecqDepth
         /\ RingHot'
<1>1. RecqDepth \in Nat \ {0}
  BY HotBounds
<1>2. /\ Next1(recq_tail_q) = IF recq_tail_q + 1 = RecqDepth THEN 0 ELSE recq_tail_q + 1
      /\ Next1(recq_head_q) = IF recq_head_q + 1 = RecqDepth THEN 0 ELSE recq_head_q + 1
  BY <1>1, NextPosition DEF Next1, HotTyped, RingPtr
<1>3. /\ recq_mem' = [recq_mem EXCEPT ![recq_tail_q] = a]
      /\ recq_tail_q' = IF recq_tail_q + 1 = RecqDepth THEN 0 ELSE recq_tail_q + 1
      /\ recq_head_q' = IF recq_count_q # RecqDepth THEN recq_head_q
                        ELSE IF recq_head_q + 1 = RecqDepth THEN 0 ELSE recq_head_q + 1
      /\ recq_count_q' = IF recq_count_q # RecqDepth /\ ~pop THEN recq_count_q + 1 ELSE recq_count_q
  BY <1>2 DEF RingPush, recq_not_full
<1>4. /\ recq_head_q \in 0..(RecqDepth - 1) /\ recq_tail_q \in 0..(RecqDepth - 1)
      /\ recq_count_q \in 0..RecqDepth
  BY DEF HotTyped, RingPtr
<1>5. /\ recq_head_q' \in 0..(RecqDepth - 1) /\ recq_tail_q' \in 0..(RecqDepth - 1)
      /\ recq_count_q' \in 0..RecqDepth
  BY <1>1, <1>3, <1>4
<1>6. \A s \in RingPtr : recq_mem'[s] = IF s = recq_tail_q THEN a ELSE recq_mem[s]
  BY <1>3 DEF HotTyped
<1>7. \A s \in RingPtr : Hot(recq_mem[s]) \/ s = recq_tail_q => Hot(recq_mem[s])'
  <2> SUFFICES ASSUME NEW s \in RingPtr, Hot(recq_mem[s]) \/ s = recq_tail_q
               PROVE  Hot(recq_mem[s])'
    OBVIOUS
  <2>1. CASE s = recq_tail_q
    BY <1>6, <2>1 DEF Hot
  <2>2. CASE s # recq_tail_q
    <3>1. recq_mem'[s] = recq_mem[s] /\ Hot(recq_mem[s])
      BY <1>6, <2>2
    <3> QED
      BY <3>1 DEF Hot
  <2> QED
    BY <2>1, <2>2
<1>8. RingHot'
  <2>1. CASE \A s \in RingPtr : Hot(recq_mem[s])
    BY <1>7, <2>1 DEF RingHot, RingPtr
  <2>2. CASE /\ recq_head_q + recq_count_q <= recq_tail_q
             /\ \A s \in RingPtr : s < recq_tail_q => Hot(recq_mem[s])
    <3>1. CASE recq_tail_q + 1 = RecqDepth
      <4>1. \A s \in RingPtr : s < recq_tail_q \/ s = recq_tail_q
        BY <1>1, <1>4, <3>1 DEF RingPtr
      <4>2. \A s \in RingPtr : Hot(recq_mem[s])'
        BY <1>7, <2>2, <4>1
      <4> QED
        BY <4>2 DEF RingHot, RingPtr
    <3>2. CASE recq_tail_q + 1 # RecqDepth
      <4>1. recq_head_q' + recq_count_q' <= recq_tail_q'
        BY <1>1, <1>3, <1>4, <2>2, <3>2
      <4>2. \A s \in RingPtr : s < recq_tail_q' => s < recq_tail_q \/ s = recq_tail_q
        BY <1>1, <1>3, <1>4, <3>2 DEF RingPtr
      <4>3. \A s \in RingPtr : s < recq_tail_q' => Hot(recq_mem[s])'
        BY <1>7, <2>2, <4>2
      <4> QED
        BY <4>1, <4>3 DEF RingHot, RingPtr
    <3> QED
      BY <3>1, <3>2
  <2> QED
    BY <2>1, <2>2 DEF RingHot
<1>9. recq_mem' \in [RingPtr -> Addrs \cup {NoAddr}]
  BY <1>3 DEF HotTyped
<1> QED
  BY <1>5, <1>8, <1>9 DEF RingPtr

\* So does a pop.
LEMMA PopHot ==
  ASSUME HotTyped, RingHot, \A x : Hot(x) => Hot(x)', RingPop
  PROVE  /\ recq_mem' \in [RingPtr -> Addrs \cup {NoAddr}]
         /\ recq_head_q' \in RingPtr /\ recq_tail_q' \in RingPtr /\ recq_count_q' \in 0..RecqDepth
         /\ RingHot'
<1>1. RecqDepth \in Nat \ {0}
  BY HotBounds
<1>2. Next1(recq_head_q) = IF recq_head_q + 1 = RecqDepth THEN 0 ELSE recq_head_q + 1
  BY <1>1, NextPosition DEF Next1, HotTyped, RingPtr
<1>3. /\ recq_head_q' = IF recq_head_q + 1 = RecqDepth THEN 0 ELSE recq_head_q + 1
      /\ recq_count_q' = recq_count_q - 1 /\ recq_count_q # 0
      /\ recq_mem' = recq_mem /\ recq_tail_q' = recq_tail_q
  BY <1>2 DEF RingPop, recq_not_empty
<1>4. /\ recq_head_q \in 0..(RecqDepth - 1) /\ recq_tail_q \in 0..(RecqDepth - 1)
      /\ recq_count_q \in 0..RecqDepth
  BY DEF HotTyped, RingPtr
<1>5. recq_head_q' \in 0..(RecqDepth - 1) /\ recq_count_q' \in 0..RecqDepth
  BY <1>1, <1>3, <1>4
<1>6. \A s \in RingPtr : Hot(recq_mem[s]) => Hot(recq_mem[s])'
  BY <1>3 DEF Hot
<1>7. RingHot'
  <2>1. CASE \A s \in RingPtr : Hot(recq_mem[s])
    BY <1>6, <2>1 DEF RingHot, RingPtr
  <2>2. CASE /\ recq_head_q + recq_count_q <= recq_tail_q
             /\ \A s \in RingPtr : s < recq_tail_q => Hot(recq_mem[s])
    <3>1. recq_head_q' + recq_count_q' <= recq_tail_q'
      BY <1>1, <1>3, <1>4, <2>2
    <3>2. \A s \in RingPtr : s < recq_tail_q' => Hot(recq_mem[s])'
      BY <1>3, <1>6, <2>2
    <3> QED
      BY <3>1, <3>2 DEF RingHot, RingPtr
  <2> QED
    BY <2>1, <2>2 DEF RingHot
<1> QED
  BY <1>3, <1>5, <1>7 DEF RingPtr, HotTyped

\* Every address offered to the dynarec was loaded at least HOT_THRESH times, for
\* every table, threshold and ring: evictions, overflows of the ring and pops in
\* the cycle of a push included.
THEOREM RecommendsOnlyHot ==
  HotSpec => []OnlyHotRecommended
<1>1. HotInit => HotInv
  <2> SUFFICES ASSUME HotInit PROVE HotInv
    OBVIOUS
  <2>1. HotTyped
    BY HotBounds DEF HotInit, HotTyped, RingPtr
  <2>2. CountEarned
    BY HashInTable DEF HotInit, CountEarned, hit
  <2>3. RingHot
    BY HotBounds DEF HotInit, RingHot, RingPtr
  <2> QED
    BY <2>1, <2>2, <2>3 DEF HotInv
<1>2. ASSUME HotInv, HotNext PROVE HotInv'
  <2> USE <1>2 DEF HotInv
  <2>1. CASE Pop
    <3>1. UNCHANGED <<valid_q, tag_q, cnt_q, loads>> /\ RingPop
      BY <2>1 DEF Pop
    <3>2. \A x : Hot(x) => Hot(x)'
      BY <3>1 DEF Hot
    <3>3. CountEarned'
      BY <3>1 DEF CountEarned, hit
    <3> QED
      BY <3>1, <3>2, <3>3, PopHot DEF HotTyped, RingPtr
  <2>2. ASSUME NEW a \in Addrs, NEW pop \in BOOLEAN, Observe(a, pop)
        PROVE  HotInv'
    <3>1. /\ valid_q' \in [Entries -> BOOLEAN]
          /\ tag_q' \in [Entries -> {tag(b) : b \in Addrs \cup {NoAddr}}]
          /\ cnt_q' \in [Entries -> Nat]
          /\ loads' \in [Addrs -> 0..Threshold]
          /\ CountEarned'
          /\ \A x : Hot(x) => Hot(x)'
          /\ promote_thresh(a) => Hot(a)'
      BY <2>2, ObserveTable
    <3>2. /\ recq_mem' \in [RingPtr -> Addrs \cup {NoAddr}]
          /\ recq_head_q' \in RingPtr /\ recq_tail_q' \in RingPtr /\ recq_count_q' \in 0..RecqDepth
          /\ RingHot'
      <4>1. CASE promote_thresh(a)
        BY <2>2, <3>1, <4>1, PushHot DEF Observe
      <4>2. CASE ~promote_thresh(a) /\ RingPop
        BY <3>1, <4>2, PopHot
      <4>3. CASE RingHold
        <5>1. UNCHANGED <<recq_mem, recq_head_q, recq_tail_q, recq_count_q>>
          BY <4>3 DEF RingHold
        <5> QED
          BY <3>1, <5>1 DEF RingHot, HotTyped, RingPtr, Hot
      <4> QED
        BY <2>2, <4>1, <4>2, <4>3 DEF Observe
    <3> QED
      BY <3>1, <3>2 DEF HotTyped, RingPtr, Entries
  <2> QED
    BY <2>1, <2>2 DEF HotNext
<1>3. HotInv /\ UNCHANGED hotVars => HotInv'
  BY DEF HotInv, HotTyped, CountEarned, RingHot, hotVars, Hot, hit, RingPtr
<1>4. HotInv => OnlyHotRecommended
  <2> SUFFICES ASSUME HotInv, recq_not_empty
               PROVE  recq_addr \in Addrs /\ loads[recq_addr] = Threshold
    BY DEF OnlyHotRecommended
  <2>1. recq_head_q \in RingPtr /\ recq_tail_q \in RingPtr /\ recq_count_q \in 0..RecqDepth /\ recq_count_q # 0
    BY DEF HotInv, HotTyped, recq_not_empty
  <2>2. recq_head_q + recq_count_q <= recq_tail_q => recq_head_q < recq_tail_q
    BY <2>1, HotBounds DEF RingPtr
  <2>3. Hot(recq_mem[recq_head_q])
    BY <2>1, <2>2 DEF HotInv, RingHot
  <2> QED
    BY <2>3 DEF Hot, recq_addr
<1> QED
  BY <1>1, <1>2, <1>3, <1>4, PTL DEF HotSpec
=============================================================================
