------------------------------- MODULE LaneMem -------------------------------
(***************************************************************************)
(* The lanes composed with the banked LSU and the external bus, as         *)
(* ibex_vliw_dispatch wires them, under the most general instruction       *)
(* supply: in every cycle each lane may be given any operation of LaneOps. *)
(* The engine of module VliwDispatch supplies a subset of these.           *)
(*                                                                         *)
(* External: the memory system behind the core's data_* port, modelled     *)
(* from how ibex_banked_lsumem and the testbench drive it.  A request is   *)
(* granted in the cycle it is made or later; responses come one or more    *)
(* cycles after their grant, in order.  The testbench answers only loads;  *)
(* the Ibex bus protocol answers stores too: StoreRvalid selects.          *)
(***************************************************************************)
EXTENDS Lane, BankedLsumem, Sequences

CONSTANTS StoreRvalid,       \* TRUE: stores get a response as well
          MaxOutstanding     \* bound on granted requests without a response

ASSUME BusAssumption == StoreRvalid \in BOOLEAN /\ MaxOutstanding \in Nat \ {0}

VARIABLES bus_q,     \* granted requests whose response is due, oldest first
          ext_mem    \* contents of the external memory

busVars == <<bus_q, ext_mem>>

BusInit == /\ bus_q = <<>>
           /\ ext_mem = [a \in Val |-> 0]

\* What the bus may drive while the core presents a request (or not).
BusMay(req, gnt, rvalid) == /\ gnt => req /\ Len(bus_q) < MaxOutstanding
                            /\ rvalid => bus_q # <<>>

BusDrives(gnt, rvalid) ==
  [gnt |-> gnt, rvalid |-> rvalid, rdata |-> IF rvalid THEN Head(bus_q).data ELSE 0]

BusTick(we, addr, wdata, bus) ==
  LET rest == IF bus.rvalid THEN Tail(bus_q) ELSE bus_q
      due == bus.gnt /\ (we => StoreRvalid)
      answer == [we |-> we, addr |-> addr, data |-> IF we THEN 0 ELSE ext_mem[addr]]
  IN  /\ bus_q' = IF due THEN Append(rest, answer) ELSE rest
      /\ ext_mem' = IF bus.gnt /\ we THEN [ext_mem EXCEPT ![addr] = wdata] ELSE ext_mem

BusTypeOK == /\ bus_q \in Seq([we : BOOLEAN, addr : Val, data : Val])
             /\ ext_mem \in [Val -> Val]

-----------------------------------------------------------------------------
CONSTANT LaneOps      \* the operations the decoders may present to a lane

ASSUME LaneOpsAssumption ==
  \A d \in LaneOps : /\ d.valid \in BOOLEAN /\ d.is_load \in BOOLEAN /\ d.is_store \in BOOLEAN
                     /\ d.a \in Val /\ d.b \in Val

memVars == <<laneVars, lsuVars, busVars>>

MemInit == LaneInit /\ LsuInit /\ BusInit

\* The requests the lanes raise for the operations d.
Ports(d) == [l \in Lanes |-> data_port(l, d[l])]

\* One clock edge of lanes, LSU and bus under the operations d.
MemTick(d, gnt, rvalid) ==
  LET rq == Ports(d)
      bus == BusDrives(gnt, rvalid)
  IN  /\ BusMay(ext_data_req(rq), gnt, rvalid)
      /\ LaneTick(rq, lsu_gnt(rq, bus), lsu_rvalid(rq, bus))
      /\ LsuTick(rq, bus)
      /\ BusTick(ext_data_we(rq), ext_data_addr(rq), ext_data_wdata(rq), bus)

MemNext == \E d \in [Lanes -> LaneOps], gnt, rvalid \in BOOLEAN : MemTick(d, gnt, rvalid)

MemSpec == MemInit /\ [][MemNext]_memVars

\* Loads and stores of every address: the ALU adds b to a base a, so a store's
\* datum and its address vary together; NoOp is an idle slot.
NoOp == [valid |-> FALSE, op |-> "ADD", a |-> 0, b |-> 0, is_load |-> FALSE, is_store |-> FALSE]
Loads == {[NoOp EXCEPT !.valid = TRUE, !.is_load = TRUE, !.a = x] : x \in Val}
Stores == {[NoOp EXCEPT !.valid = TRUE, !.is_store = TRUE, !.a = x, !.b = 1] : x \in Val}
AnyOps == {NoOp} \cup Loads \cup Stores

-----------------------------------------------------------------------------
\* The type invariant of the lanes, the LSU and the bus.
MemTypeOK == LaneTypeOK /\ LsuTypeOK /\ BusTypeOK

\* The external port and the lane it serves agree: while the port waits for a
\* response, the pending lane is the one waiting, the single transaction on the
\* bus is its load, at the address it asked for, and while the port is idle
\* nothing is outstanding (ibex_banked_lsumem 195-198: one outstanding external
\* transaction, its response routed to the lane that made it).
PendingLaneWaits ==
  IF ext_state_q = "EXT_WAIT"
  THEN /\ ls_state_q[ext_pending_lane_q] = "LS_WAIT_RVALID"
       /\ ~ext_pending_is_store_q
       /\ Len(bus_q) = 1
       /\ ~bus_q[1].we
       /\ bus_q[1].addr = ls_addr_q[ext_pending_lane_q]
  ELSE bus_q = <<>>

\* No lane is ever left waiting for an external response that is not coming: a
\* lane that waits for a response to an external load is the pending lane of a
\* waiting port.  (A lane waiting on an on-chip load is a different story.)
NoOrphanWait ==
  \A l \in Lanes :
    ls_state_q[l] = "LS_WAIT_RVALID" /\ ~InWindow(ls_addr_q[l])
      => ext_state_q = "EXT_WAIT" /\ ext_pending_lane_q = l

\* A lane leaves LS_WAIT_RVALID only with the data of its own load: the response
\* the bus gives in that cycle is the one to the address the lane latched.
OwnResponse ==
  [][\A l \in Lanes :
       ls_state_q[l] = "LS_WAIT_RVALID" /\ ls_state_q'[l] # "LS_WAIT_RVALID"
         => bus_q # <<>> /\ bus_q[1].addr = ls_addr_q[l] /\ ~bus_q[1].we]_memVars
=============================================================================
