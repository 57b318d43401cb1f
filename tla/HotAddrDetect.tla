---------------------------- MODULE HotAddrDetect ----------------------------
(***************************************************************************)
(* ibex_hot_addr_detect: the direct-mapped table of load counters and the  *)
(* ring of recommended addresses.                                          *)
(*                                                                         *)
(* An address is SliceCnt slices of IdxW bits, as the hash reads it: the   *)
(* first slice is the low bits, the others are the tag.  A slice, and so   *)
(* an index of the table, is the set of its bits that are one.  loads is a *)
(* history variable: how often each address was loaded, up to the          *)
(* threshold.                                                              *)
(***************************************************************************)
EXTENDS Naturals

CONSTANTS IdxW,           \* log2 of the table's size (6)
          SliceCnt,       \* slices of an address (6)
          Threshold,      \* HOT_THRESH (8)
          CntMod,         \* 2^CntWidth (16)
          RecqDepth,      \* HOT_RECQ_DEPTH (8), a power of two
          Addrs           \* addresses loaded

Bits == 0..(IdxW - 1)
Entries == SUBSET Bits

ASSUME HotAssumption == /\ {IdxW, SliceCnt, RecqDepth, CntMod} \subseteq Nat \ {0}
                        /\ Threshold \in 2..CntMod
                        /\ Addrs \subseteq [1..SliceCnt -> Entries]

VARIABLES valid_q, tag_q, cnt_q,                              \* the table
          recq_mem, recq_head_q, recq_tail_q, recq_count_q,   \* the ring
          loads

hotVars == <<valid_q, tag_q, cnt_q, recq_mem, recq_head_q, recq_tail_q, recq_count_q, loads>>

RingPtr == 0..(RecqDepth - 1)
NoAddr == [s \in 1..SliceCnt |-> {}]

\* The XOR of all slices indexes the table; the slices above the lowest are the tag.
Xor(x, y) == (x \ y) \cup (y \ x)
hash_idx(a) ==
  LET fold[n \in 0..SliceCnt] == IF n = 0 THEN {} ELSE Xor(fold[n - 1], a[n])
  IN  fold[SliceCnt]
tag_LowDropped(a) == [s \in 3..SliceCnt |-> a[s]]
tag(a) == [s \in 2..SliceCnt |-> a[s]]

hit(a) == valid_q[hash_idx(a)] /\ tag_q[hash_idx(a)] = tag(a)

promote_thresh_AnyTag(a) == cnt_q[hash_idx(a)] = Threshold - 1
promote_thresh(a) == hit(a) /\ cnt_q[hash_idx(a)] = Threshold - 1

recq_not_empty == recq_count_q # 0
recq_not_full == recq_count_q # RecqDepth
recq_addr == recq_mem[recq_head_q]

HotInit == /\ valid_q = [i \in Entries |-> FALSE]
           /\ tag_q = [i \in Entries |-> tag(NoAddr)]
           /\ cnt_q = [i \in Entries |-> 0]
           /\ recq_mem = [i \in RingPtr |-> NoAddr]
           /\ recq_head_q = 0
           /\ recq_tail_q = 0
           /\ recq_count_q = 0
           /\ loads = [a \in Addrs |-> 0]

\* The table at the edge of an observed load: count a hit, restart the count of a
\* promoted address, or take the entry over.
TableTick(a) ==
  LET i == hash_idx(a)
  IN  IF hit(a)
      THEN /\ cnt_q' = [cnt_q EXCEPT ![i] = IF promote_thresh(a) THEN 0 ELSE (@ + 1) % CntMod]
           /\ UNCHANGED <<valid_q, tag_q>>
      ELSE /\ cnt_q' = [cnt_q EXCEPT ![i] = 1]
           /\ valid_q' = [valid_q EXCEPT ![i] = TRUE]
           /\ tag_q' = [tag_q EXCEPT ![i] = tag(a)]

Next1(p) == (p + 1) % RecqDepth

\* The ring at an edge: a push overwrites the oldest entry of a full ring.  A pop in
\* the cycle of a push moves no head; it only keeps the count from rising.
RingPush(a, pop) ==
  /\ recq_mem' = [recq_mem EXCEPT ![recq_tail_q] = a]
  /\ recq_tail_q' = Next1(recq_tail_q)
  /\ recq_head_q' = IF recq_not_full THEN recq_head_q ELSE Next1(recq_head_q)
  /\ recq_count_q' = IF recq_not_full /\ ~pop THEN recq_count_q + 1 ELSE recq_count_q

RingPop == /\ recq_not_empty
           /\ recq_head_q' = Next1(recq_head_q)
           /\ recq_count_q' = recq_count_q - 1
           /\ UNCHANGED <<recq_mem, recq_tail_q>>

RingHold == UNCHANGED <<recq_mem, recq_head_q, recq_tail_q, recq_count_q>>

\* One clock edge with a load of a observed on the bus, and recq_pop_i as given.
Observe(a, pop) ==
  /\ TableTick(a)
  /\ loads' = [loads EXCEPT ![a] = IF @ < Threshold THEN @ + 1 ELSE @]
  /\ IF promote_thresh(a) THEN RingPush(a, pop)
     ELSE IF pop /\ recq_not_empty THEN RingPop ELSE RingHold

\* One clock edge with no load and recq_pop_i high.
Pop == /\ RingPop
       /\ UNCHANGED <<valid_q, tag_q, cnt_q, loads>>

HotNext == Pop \/ \E a \in Addrs, pop \in BOOLEAN : Observe(a, pop)

HotSpec == HotInit /\ [][HotNext]_hotVars

\* Four addresses to check the detector with: with one bit in a slice they share
\* entries and tags in every combination.
FewAddrs == {[s \in 1..SliceCnt |-> IF s \in ones THEN {0} ELSE {}] :
               ones \in {{}, {1}, {2}, 1..SliceCnt}}

-----------------------------------------------------------------------------
\* A table entry counts one address only, although its tag leaves out the lowest
\* slice and the index folds all slices together (ibex_hot_addr_detect 45-53, 67-72).
HitIsExact == \A a, b \in Addrs : hit(a) /\ hit(b) /\ hash_idx(a) = hash_idx(b) => a = b

\* Whatever is offered to the dynarec was loaded at least HOT_THRESH times, even
\* after evictions, overflows of the ring and pops in the cycle of a push.
OnlyHotRecommended == recq_not_empty => recq_addr \in Addrs /\ loads[recq_addr] = Threshold
=============================================================================
