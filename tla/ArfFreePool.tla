----------------------------- MODULE ArfFreePool -----------------------------
(***************************************************************************)
(* The free-pool directory of ibex_addr_regfile: a ring of free slot       *)
(* indices with a head pointer, a tail pointer and a count, popped by      *)
(* spalloc and pushed by spfree, both possible in the same clock cycle.    *)
(*                                                                         *)
(* The dynarec that drives the two request ports is the environment: it    *)
(* frees only slots it holds.  owned and lost are history variables: what  *)
(* the dynarec believes it holds, and what it gave back and the hardware   *)
(* dropped.                                                                *)
(***************************************************************************)
EXTENDS Naturals, Sequences

CONSTANTS ManagedCnt,     \* parameter ManagedCnt (256)
          FreePoolBase    \* ARF_FREEPOOL_BASE (0x02000)

ASSUME ManagedCntAssumption == ManagedCnt \in Nat /\ ManagedCnt > 1

\* The pointers are $clog2(ManagedCnt) bits wide and wrap by overflow, so the
\* ring is closed only for a power of two.
ASSUME PowerOfTwoAssumption == \E w \in 1..ManagedCnt : ManagedCnt = 2^w

ASSUME FreePoolBaseAssumption == FreePoolBase \in Nat

VARIABLES free_list_q, free_head_q, free_tail_q, free_count_q, owned, lost

vars == <<free_list_q, free_head_q, free_tail_q, free_count_q, owned, lost>>

Ptr == 0..(ManagedCnt - 1)
Managed == FreePoolBase..(FreePoolBase + ManagedCnt - 1)

Init == /\ free_list_q = [i \in Ptr |-> FreePoolBase + i]
        /\ free_head_q = 0
        /\ free_tail_q = 0
        /\ free_count_q = ManagedCnt
        /\ owned = {}
        /\ lost = {}

\* A pointer increment, modulo its width.
Inc(p) == IF p = ManagedCnt - 1 THEN 0 ELSE p + 1

free_not_empty == free_count_q # 0
free_not_full == free_count_q # ManagedCnt

spalloc_gnt(spalloc_req) == spalloc_req /\ free_not_empty

\* Faulty variants, named for the mistake they make, stand before the definition
\* they vary: each property of a run is shown to fail when one takes its place.
spalloc_idx_AtTail == free_list_q[free_tail_q]

\* The combinational answer to spalloc, granted or not.
spalloc_idx == free_list_q[free_head_q]

\* A push is taken only below the limit and not while the last slot is popped.
Push(gnt, spfree_req) ==
  spfree_req /\ free_not_full /\ ~(gnt /\ free_count_q = 1)

CountNext_PushWins(gnt, push) ==
  IF push THEN free_count_q + 1 ELSE IF gnt THEN free_count_q - 1 ELSE free_count_q

\* free_count_q after the edge: the assignment under the push comes last and
\* overrides the one under the pop.
CountNext(gnt, push) ==
  IF push THEN IF gnt THEN free_count_q ELSE free_count_q + 1
          ELSE IF gnt THEN free_count_q - 1 ELSE free_count_q

\* One rising edge of clk_core_i with both request ports sampled.
Clock(spalloc_req, spfree_req, spfree_idx) ==
  LET gnt == spalloc_gnt(spalloc_req)
      push == Push(gnt, spfree_req)
  IN  /\ free_head_q' = IF gnt THEN Inc(free_head_q) ELSE free_head_q
      /\ free_tail_q' = IF push THEN Inc(free_tail_q) ELSE free_tail_q
      /\ free_list_q' = IF push THEN [free_list_q EXCEPT ![free_tail_q] = spfree_idx]
                                ELSE free_list_q
      /\ free_count_q' = CountNext(gnt, push)
      /\ owned' = (owned \cup (IF gnt THEN {spalloc_idx} ELSE {}))
                    \ (IF spfree_req THEN {spfree_idx} ELSE {})
      /\ lost' = lost \cup (IF spfree_req /\ ~push THEN {spfree_idx} ELSE {})

Spalloc == Clock(TRUE, FALSE, FreePoolBase)
Spfree == \E s \in owned : Clock(FALSE, TRUE, s)
SpallocSpfree == \E s \in owned : Clock(TRUE, TRUE, s)

Next == Spalloc \/ Spfree \/ SpallocSpfree

Spec == Init /\ [][Next]_vars

-----------------------------------------------------------------------------
\* The type invariant of the directory's registers (ibex_addr_regfile 143-147).
TypeOK == /\ free_list_q \in [Ptr -> Managed]
          /\ free_head_q \in Ptr
          /\ free_tail_q \in Ptr
          /\ free_count_q \in 0..ManagedCnt
          /\ owned \subseteq Managed
          /\ lost \subseteq Managed

\* The ring positions between head and tail, where free slots are stored.
Live == IF free_count_q = 0 THEN {}
        ELSE IF free_head_q < free_tail_q THEN free_head_q..(free_tail_q - 1)
        ELSE (free_head_q..(ManagedCnt - 1)) \cup (0..(free_tail_q - 1))

FreeSlots == {free_list_q[i] : i \in Live}

\* Head, tail and count, three registers updated under different conditions by
\* the pop and the push, always describe the same stretch of the ring: no
\* sequence of allocations and frees, simultaneous or not, makes them drift.
RingOK == free_tail_q = IF free_head_q + free_count_q < ManagedCnt
                        THEN free_head_q + free_count_q
                        ELSE free_head_q + free_count_q - ManagedCnt

\* No slot is in the free list twice, so no slot can be handed to two walks.
NoDuplicate == \A i, j \in Live : free_list_q[i] = free_list_q[j] => i = j

\* Every managed slot is in exactly one place: free, held by the dynarec, or
\* dropped by a spfree the directory did not take.  A slot the dynarec holds is
\* never in the free list, whatever the order of allocations and frees.
Partition == /\ owned \cap FreeSlots = {}
             /\ lost \cap (owned \cup FreeSlots) = {}
             /\ owned \cup FreeSlots \cup lost = Managed

\* The free pool through any sequence of spalloc, spfree and both in one cycle: its
\* registers agree, no slot is free twice, and none is free and in use.
PoolSafe == RingOK /\ NoDuplicate /\ Partition

\* The directory implements a FIFO queue of free slots: reading the ring from
\* head to tail gives the queue, and the only cycle in which a slot handed back
\* is dropped is one that also pops the last free slot.
Pool == INSTANCE FreeSlotQueue
          WITH Slots <- [i \in 1..ManagedCnt |-> FreePoolBase + i - 1],
               queue <- [i \in 1..free_count_q |->
                           free_list_q[(free_head_q + i - 1) % ManagedCnt]],
               held <- owned,
               gone <- lost
FifoPool == Pool!Spec
=============================================================================
