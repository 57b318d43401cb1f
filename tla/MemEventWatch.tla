---------------------------- MODULE MemEventWatch ----------------------------
(***************************************************************************)
(* ibex_mem_event_watch: one watcher per lane.  A lane arms it with a      *)
(* wj* instruction and is woken when the condition on the watched word     *)
(* holds in a cycle in which the LSU supplies that word.                   *)
(*                                                                         *)
(* External: the device that stores to memory, and the LSU, which supplies *)
(* the word in the cycle after it sees a store to the watched address      *)
(* (ibex_mem_event_watch 44-48 and 88-90).  due[l] is the LSU's promise    *)
(* for the next cycle; metAtArm[l] is a history variable.  The predicate   *)
(* number a watch carries beside its target is left out.                   *)
(***************************************************************************)
EXTENDS Naturals

CONSTANTS NumLanes,
          WatchAddrs,   \* addresses watched and stored to
          WordW,        \* bits of a memory word (32)
          Word,         \* values of a memory word
          Targets       \* target PCs

ASSUME WatchAssumption == /\ NumLanes \in Nat \ {0} /\ WordW \in Nat
                          /\ Word \subseteq 0..(2^WordW - 1) /\ 0 \in Word
                          /\ WatchAddrs # {} /\ Targets # {}

VARIABLES st_q, mem, due, metAtArm

watchVars == <<st_q, mem, due, metAtArm>>

Watchers == 0..(NumLanes - 1)
Ops == {"EQ", "NE", "SET", "OTHER"}      \* funct7: ARF_WJ_*, or any other code
Watch == [active : {TRUE}, op : Ops, addr : WatchAddrs, sentinel : Word, target : Targets]

Reset == [active |-> FALSE, op |-> "EQ", addr |-> CHOOSE a \in WatchAddrs : TRUE,
          sentinel |-> 0, target |-> CHOOSE p \in Targets : TRUE]

WatchInit == /\ st_q = [l \in Watchers |-> Reset]
             /\ mem \in [WatchAddrs -> Word]
             /\ due = [l \in Watchers |-> FALSE]
             /\ metAtArm = [l \in Watchers |-> FALSE]

bits(x) == {i \in 0..(WordW - 1) : (x \div 2^i) % 2 = 1}
cond_met(w, curval) == CASE w.op = "EQ" -> curval = w.sentinel
                         [] w.op = "NE" -> curval # w.sentinel
                         [] w.op = "SET" -> bits(curval) \cap bits(w.sentinel) # {}
                         [] w.op = "OTHER" -> FALSE

do_wake(l) == st_q[l].active /\ due[l] /\ cond_met(st_q[l], mem[st_q[l].addr])

\* The watcher's registers at an edge: a wake has priority over a new watch, and a
\* watch in progress is never replaced.  issue is the set of lanes issuing w[l].
WatchTick_IssueFirst(issue, w) ==
  st_q' = [l \in Watchers |-> IF l \in issue THEN IF st_q[l].active THEN st_q[l] ELSE w[l]
                           ELSE IF do_wake(l) THEN [st_q[l] EXCEPT !.active = FALSE] ELSE st_q[l]]
WatchTick(issue, w) ==
  st_q' = [l \in Watchers |-> IF do_wake(l) THEN [st_q[l] EXCEPT !.active = FALSE]
                           ELSE IF l \in issue /\ ~st_q[l].active THEN w[l]
                           ELSE st_q[l]]

\* External: memory and LSU at the same edge, with a store or without one.
addr_match(l, a) == st_q[l].active /\ st_q[l].addr = a
Store(a, v) == /\ mem' = [mem EXCEPT ![a] = v]
               /\ due' = [l \in Watchers |-> addr_match(l, a)]
NoStore == UNCHANGED mem /\ due' = [l \in Watchers |-> FALSE]

\* One rising edge of clk_i.
Tick(issue, w) ==
  /\ WatchTick(issue, w)
  /\ (NoStore \/ \E a \in WatchAddrs, v \in Word : Store(a, v))
  /\ metAtArm' = [l \in Watchers |-> IF st_q'[l].active /\ ~st_q[l].active
                                  THEN cond_met(st_q'[l], mem'[st_q'[l].addr])
                                  ELSE metAtArm[l]]

WatchNext == \E issue \in SUBSET Watchers : \E w \in [issue -> Watch] : Tick(issue, w)

WatchSpec == WatchInit /\ [][WatchNext]_watchVars

-----------------------------------------------------------------------------
\* The type invariant of the watchers and of what the LSU owes them.
WatchTypeOK == /\ st_q \in [Watchers -> [active : BOOLEAN, op : Ops, addr : WatchAddrs,
                                       sentinel : Word, target : Targets]]
               /\ mem \in [WatchAddrs -> Word]
               /\ due \in [Watchers -> BOOLEAN]
               /\ metAtArm \in [Watchers -> BOOLEAN]

Met(l) == st_q[l].active /\ cond_met(st_q[l], mem[st_q[l].addr])

\* A wake-up is never lost once a lane is suspended: a lane that sleeps although its
\* condition holds is about to be woken, or the condition held when it was armed.
LostOnlyAtArm == \A l \in Watchers : Met(l) => due[l] \/ metAtArm[l]

\* A suspended lane keeps the target it was armed with until it fires, whatever wj*
\* it is issued meanwhile (ibex_mem_event_watch 103-114).
ArmedUntilFired ==
  [][\A l \in Watchers : st_q[l].active => st_q'[l] = st_q[l] \/ (do_wake(l) /\ ~st_q'[l].active)]_watchVars
=============================================================================
