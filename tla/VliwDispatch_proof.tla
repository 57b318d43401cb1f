------------------------- MODULE VliwDispatch_proof --------------------------
(***************************************************************************)
(* Proofs about the lanes, the LSU's external port and the bus, whatever   *)
(* operations the lanes are given, and about the engine built of them: the *)
(* halt protocol, and what it executes.  They are for any width, program,  *)
(* fill traffic and bus timing.                                            *)
(*                                                                         *)
(* The theorems about the external port are for a bus that answers loads   *)
(* only (StoreRvalid = FALSE, the testbench's bus).                        *)
(***************************************************************************)
EXTENDS VliwDispatch, Induction

-----------------------------------------------------------------------------
(* Lanes, LSU and bus *)

\* The lowest element of a non-empty set of lanes exists in it: this is what makes
\* the priority loops of ibex_banked_lsumem (209-218) pick a requestor.
LEMMA LowestInSet ==
  ASSUME NEW S \in SUBSET Lanes, S # {}
  PROVE  Lowest(S) \in S /\ \A k \in S : Lowest(S) <= k
<1>1. S \in SUBSET Nat
  BY WAssumption DEF Lanes
<1>2. \E m \in S : \A k \in S : m <= k
  BY <1>1, LeastElement
<1> QED BY <1>2 DEF Lowest

\* Priority selection never leaves the range of lanes, even for the empty set.
LEMMA LowestIsLane ==
  ASSUME NEW S \in SUBSET Lanes
  PROVE  Lowest(S) \in Lanes
<1>1. CASE S = {}
  BY <1>1, WAssumption DEF Lowest, Lanes
<1>2. CASE S # {}
  BY <1>2, LowestInSet
<1> QED BY <1>1, <1>2

\* A remainder is below its divisor: words, bank numbers and bank offsets all wrap.
LEMMA ModRange ==
  ASSUME NEW n \in Nat, NEW m \in Nat \ {0}
  PROVE  n % m \in 0..(m - 1)
OBVIOUS

\* What the memory side relies on in the operations d of a cycle.
OperandsOK(d) ==
  \A k \in Lanes : d[k].a \in Val /\ d[k].b \in Val /\ d[k].is_store \in BOOLEAN

LEMMA LaneOpsOK == ASSUME NEW d \in [Lanes -> LaneOps] PROVE OperandsOK(d)
BY LaneOpsAssumption DEF OperandsOK

\* The request of a lane that is given a well-formed operation is well-formed.
LEMMA PortType ==
  ASSUME MemTypeOK, NEW d, OperandsOK(d), NEW l \in Lanes
  PROVE  Ports(d)[l] \in Request
<1>2. d[l].a \in Val /\ d[l].b \in Val /\ d[l].is_store \in BOOLEAN
  BY DEF OperandsOK
<1>3. alu_adder_result(d[l]) \in Val
  <2>1. d[l].a + d[l].b \in Nat /\ d[l].a + ValMod - d[l].b \in Nat
    BY <1>2, ValModAssumption DEF Val
  <2> QED BY <2>1, ModRange, ValModAssumption DEF alu_adder_result, Val
<1>4. 0 \in Val
  BY ValModAssumption DEF Val
<1>5. Ports(d)[l] = data_port(l, d[l])
  BY DEF Ports
<1>6. ls_we_q[l] \in BOOLEAN /\ ls_addr_q[l] \in Val /\ ls_wdata_q[l] \in Val
  BY DEF MemTypeOK, LaneTypeOK
<1> QED BY <1>2, <1>3, <1>4, <1>5, <1>6 DEF data_port, NoRequest, Request

\* A clock edge keeps the types of the registers, the banks and the bus.
LEMMA StepMemTypeOK ==
  ASSUME MemTypeOK, NEW d, OperandsOK(d), NEW gnt \in BOOLEAN, NEW rvalid \in BOOLEAN,
         MemTick(d, gnt, rvalid)
  PROVE  MemTypeOK'
<1> DEFINE rq == Ports(d)
           bus == BusDrives(gnt, rvalid)
<1>1. \A l \in Lanes : /\ rq[l].req \in BOOLEAN
                       /\ rq[l].we \in BOOLEAN
                       /\ rq[l].addr \in Val
                       /\ rq[l].wdata \in Val
  BY PortType DEF Request
<1>2. ext_sel_lane(rq) \in Lanes
  BY LowestIsLane DEF ext_sel_lane
<1>3. ext_data_we(rq) \in BOOLEAN /\ ext_data_addr(rq) \in Val /\ ext_data_wdata(rq) \in Val
  BY <1>1, <1>2 DEF ext_data_we, ext_data_addr, ext_data_wdata
<1>4. bus.gnt = gnt /\ bus.rvalid = rvalid
  BY DEF BusDrives
<1>5. LaneTypeOK'
  <2>1. ASSUME NEW l \in Lanes, NEW g, NEW rv
        PROVE  ls_state_d(l, rq[l], g, rv) \in LsStates
    BY DEF ls_state_d, LsStates, MemTypeOK, LaneTypeOK
  <2> HIDE DEF rq
  <2>2. ls_state_q' \in [Lanes -> LsStates]
    BY <2>1 DEF MemTick, LaneTick, rq
  <2>3. /\ ls_addr_q' \in [Lanes -> Val]
        /\ ls_wdata_q' \in [Lanes -> Val]
        /\ ls_we_q' \in [Lanes -> BOOLEAN]
    BY <1>1 DEF MemTick, LaneTick, MemTypeOK, LaneTypeOK, rq
  <2> QED BY <2>2, <2>3 DEF LaneTypeOK
<1>6. LsuTypeOK'
  <2>1. LsuTick(rq, bus)
    BY DEF MemTick
  <2>2. ASSUME NEW b \in Banks, NEW o \in Offs
        PROVE  Lowest({l \in Lanes : oc_store_gnt(rq, l) /\ req_bank(rq, l) = b /\ req_off(rq, l) = o})
                 \in Lanes
    BY LowestIsLane
  <2>3. ASSUME NEW b \in Banks
        PROVE  Lowest({l \in Lanes : oc_load_gnt(rq, l) /\ req_bank(rq, l) = b}) \in Lanes
    BY LowestIsLane
  <2>4. \A l \in Lanes : req_off(rq, l) \in Offs
    <3> TAKE l \in Lanes
    <3>1. rq[l].addr \div NumDataBanks \in Nat
      BY <1>1, DataBanksAssumption, ValModAssumption DEF Val
    <3> QED BY <3>1, ModRange, DataBanksAssumption DEF req_off, Offs
  <2> HIDE DEF rq, bus
  <2>5. bank_mem' \in [Banks -> [Offs -> Val]]
    BY <1>1, <2>1, <2>2 DEF LsuTick, MemTypeOK, LsuTypeOK
  <2>6. rd_bank_rdata' \in [Banks -> Val]
    BY <2>1, <2>3, <2>4 DEF LsuTick, MemTypeOK, LsuTypeOK
  <2>7. ext_state_q' \in {"EXT_IDLE", "EXT_WAIT"}
    BY <2>1 DEF LsuTick, ext_state_d, MemTypeOK, LsuTypeOK
  <2>8. ext_pending_lane_q' \in Lanes /\ ext_pending_is_store_q' \in BOOLEAN
    BY <1>2, <1>3, <2>1 DEF LsuTick, MemTypeOK, LsuTypeOK
  <2> QED BY <2>5, <2>6, <2>7, <2>8 DEF LsuTypeOK
<1>7. BusTypeOK'
  <2> DEFINE Answers == [we : BOOLEAN, addr : Val, data : Val]
             answer == [we |-> ext_data_we(rq), addr |-> ext_data_addr(rq),
                        data |-> IF ext_data_we(rq) THEN 0 ELSE ext_mem[ext_data_addr(rq)]]
             rest == IF rvalid THEN Tail(bus_q) ELSE bus_q
  <2>1. bus_q \in Seq(Answers) /\ ext_mem \in [Val -> Val]
    BY DEF MemTypeOK, BusTypeOK
  <2>2. answer \in Answers
    <3>1. 0 \in Val
      BY ValModAssumption DEF Val
    <3>2. answer.data \in Val
      BY <1>3, <2>1, <3>1
    <3> QED BY <1>3, <3>2
  <2>3. rvalid => bus_q # << >>
    BY DEF MemTick, BusMay
  <2>4. bus_q' \in {rest, Append(rest, answer)}
    BY <1>4 DEF MemTick, BusTick
  <2>5. ext_mem' \in {ext_mem, [ext_mem EXCEPT ![ext_data_addr(rq)] = ext_data_wdata(rq)]}
    BY DEF MemTick, BusTick
  <2>6. ext_mem' \in [Val -> Val]
    BY <1>3, <2>1, <2>5
  <2> HIDE DEF answer, Answers
  <2>7. rest \in Seq(Answers)
    BY <2>1, <2>3
  <2> HIDE DEF rest
  <2>8. bus_q' \in Seq(Answers)
    BY <2>2, <2>4, <2>7
  <2> QED BY <2>6, <2>8 DEF BusTypeOK, Answers
<1> QED BY <1>5, <1>6, <1>7 DEF MemTypeOK

LEMMA InitMemTypeOK == MemInit => MemTypeOK
<1> SUFFICES ASSUME MemInit PROVE MemTypeOK
  OBVIOUS
<1>1. 0 \in Val /\ 0 \in Lanes
  BY WAssumption, ValModAssumption DEF Lanes, Val
<1>2. LaneTypeOK
  BY <1>1 DEF MemInit, LaneInit, LaneTypeOK, LsStates
<1>3. LsuTypeOK
  BY <1>1 DEF MemInit, LsuInit, LsuTypeOK
<1>4. BusTypeOK
  BY <1>1 DEF MemInit, BusInit, BusTypeOK
<1> QED BY <1>2, <1>3, <1>4 DEF MemTypeOK

LEMMA StutterMemTypeOK == MemTypeOK /\ UNCHANGED memVars => MemTypeOK'
BY DEF MemTypeOK, LaneTypeOK, LsuTypeOK, BusTypeOK, memVars, laneVars, lsuVars, busVars

\* The registers of the lanes and of the LSU keep their types, for any well-formed
\* operations: addresses, lane numbers and bank offsets never leave their range.
THEOREM MemTypeCorrect == MemSpec => []MemTypeOK
<1>1. MemTypeOK /\ [MemNext]_memVars => MemTypeOK'
  BY StutterMemTypeOK, StepMemTypeOK, LaneOpsOK DEF MemNext
<1> QED BY <1>1, InitMemTypeOK, PTL DEF MemSpec

\* Sequences of at most one element: all the bus ever holds.
LEMMA OneElement ==
  ASSUME NEW x
  PROVE  /\ Append(<< >>, x) = <<x>>
         /\ Tail(<<x>>) = << >>
         /\ Len(<<x>>) = 1
         /\ <<x>> # << >>
         /\ <<x>>[1] = x
OBVIOUS

\* The inductive invariant: PendingLaneWaits with the bus queue named as a
\* one-element sequence, and NoOrphanWait.
IInv ==
  /\ ext_state_q \in {"EXT_IDLE", "EXT_WAIT"}
  /\ ext_state_q = "EXT_IDLE" => bus_q = << >>
  /\ ext_state_q = "EXT_WAIT" =>
       /\ ext_pending_lane_q \in Lanes
       /\ ls_state_q[ext_pending_lane_q] = "LS_WAIT_RVALID"
       /\ ~ext_pending_is_store_q
       /\ \E x : bus_q = <<x>> /\ ~x.we /\ x.addr = ls_addr_q[ext_pending_lane_q]
  /\ NoOrphanWait

LEMMA IInvImplies == IInv => PendingLaneWaits /\ NoOrphanWait
BY OneElement DEF IInv, PendingLaneWaits

LEMMA InitIInv == MemInit => IInv
BY DEF MemInit, LaneInit, LsuInit, BusInit, IInv, NoOrphanWait

\* What the ports of the lanes carry: a waiting lane asks for nothing, a lane that
\* waits for its grant repeats the address it latched (ibex_lane 122-162).
LEMMA PortFacts ==
  ASSUME NEW d, NEW l \in Lanes
  PROVE  LET rq == Ports(d)
         IN  /\ rq[l].req \in BOOLEAN
             /\ rq[l].req => ls_state_q[l] # "LS_WAIT_RVALID"
             /\ rq[l].req /\ ls_state_q[l] # "LS_IDLE" => rq[l].addr = ls_addr_q[l]
BY DEF Ports, data_port, NoRequest

\* The arbiter of the external port selects a lane with an external request.
LEMMA SelectedLane ==
  ASSUME NEW rq, ext_selected(rq)
  PROVE  ext_sel_lane(rq) \in Lanes /\ external(rq, ext_sel_lane(rq))
<1> DEFINE S == {l \in Lanes : external(rq, l)}
<1>1. S \in SUBSET Lanes /\ S # {}
  BY DEF ext_selected
<1>2. Lowest(S) \in S
  <2> HIDE DEF S
  <2> QED BY <1>1, LowestInSet
<1> QED BY <1>2 DEF ext_sel_lane

\* The address a lane holds after an edge is the one of the request it made.
LEMMA LatchedAddress ==
  ASSUME NEW d, NEW g, NEW rv, LaneTick(Ports(d), g, rv), NEW l \in Lanes
  PROVE  /\ Ports(d)[l].req => ls_addr_q'[l] = Ports(d)[l].addr
         /\ ~Ports(d)[l].req => ls_addr_q'[l] = ls_addr_q[l]
BY PortFacts DEF LaneTick

\* How a lane comes to wait for a response: it waited before and got none, or its
\* read was granted.
LEMMA WaitingLane ==
  ASSUME NEW d, NEW g, NEW rv, LaneTick(Ports(d), g, rv), NEW l \in Lanes,
         ls_state_q'[l] = "LS_WAIT_RVALID"
  PROVE  \/ Ports(d)[l].req /\ g[l] /\ ~Ports(d)[l].we
         \/ ~Ports(d)[l].req /\ ls_state_q[l] = "LS_WAIT_RVALID" /\ ~rv[l]
<1>1. ls_state_q'[l] = ls_state_d(l, Ports(d)[l], g[l], rv[l])
  BY DEF LaneTick
<1>2. CASE Ports(d)[l].req
  BY <1>1, <1>2 DEF ls_state_d
<1>3. CASE ~Ports(d)[l].req
  BY <1>1, <1>3 DEF ls_state_d
<1> QED BY <1>2, <1>3

\* A clock edge keeps the invariant, whatever operations d the lanes are given.
LEMMA StepIInv ==
  ASSUME StoreRvalid = FALSE, IInv, NEW d, NEW gnt \in BOOLEAN, NEW rvalid \in BOOLEAN,
         MemTick(d, gnt, rvalid)
  PROVE  IInv'
<1> DEFINE rq == Ports(d)
           bus == BusDrives(gnt, rvalid)
           sel == ext_sel_lane(rq)
           g == lsu_gnt(rq, bus)
           rv == lsu_rvalid(rq, bus)
<1>1. /\ BusMay(ext_data_req(rq), gnt, rvalid)
      /\ LaneTick(rq, g, rv)
      /\ LsuTick(rq, bus)
      /\ BusTick(ext_data_we(rq), ext_data_addr(rq), ext_data_wdata(rq), bus)
  BY DEF MemTick
<1>2. bus.gnt = gnt /\ bus.rvalid = rvalid
  BY DEF BusDrives
<1>3. /\ ext_state_q' = ext_state_d(rq, bus)
      /\ ext_pending_lane_q' = IF ext_data_req(rq) /\ gnt THEN sel ELSE ext_pending_lane_q
      /\ ext_pending_is_store_q' = IF ext_data_req(rq) /\ gnt THEN ext_data_we(rq)
                                                             ELSE ext_pending_is_store_q
  BY <1>1, <1>2 DEF LsuTick
<1>4. \A l \in Lanes : /\ g[l] = (oc_gnt(rq, l) \/ ext_gnt(rq, bus, l))
                       /\ rv[l] = (oc_gnt(rq, l) \/ ext_rvalid(rq, bus, l))
  BY DEF lsu_gnt, lsu_rvalid
<1>5. ASSUME NEW l \in Lanes, oc_gnt(rq, l)
      PROVE  rq[l].req /\ InWindow(rq[l].addr)
  BY <1>5 DEF oc_gnt, oc_load_gnt, oc_store_gnt, load_req, store_req, onchip
<1>6. \* A granted external read makes its lane the pending one.
      ASSUME NEW l \in Lanes, rq[l].req, g[l], ~rq[l].we, ~InWindow(rq[l].addr)
      PROVE  ext_data_req(rq) /\ gnt /\ l = sel /\ ~ext_data_we(rq)
  <2>1. ext_gnt(rq, bus, l)
    BY <1>4, <1>5, <1>6
  <2> QED BY <2>1, <1>2, <1>6 DEF ext_gnt, ext_data_we
<1>a. CASE ext_state_q = "EXT_WAIT"
  <2>1. ~ext_data_req(rq) /\ ~gnt
    BY <1>a, <1>1 DEF ext_data_req, BusMay
  <2>2. PICK x : bus_q = <<x>> /\ ~x.we /\ x.addr = ls_addr_q[ext_pending_lane_q]
    BY <1>a DEF IInv
  <2>3. \A l \in Lanes : ls_state_q'[l] = "LS_WAIT_RVALID" /\ ~InWindow(ls_addr_q'[l])
          => l = ext_pending_lane_q /\ ~rvalid
    <3> SUFFICES ASSUME NEW l \in Lanes, ls_state_q'[l] = "LS_WAIT_RVALID", ~InWindow(ls_addr_q'[l])
                 PROVE  l = ext_pending_lane_q /\ ~rvalid
      OBVIOUS
    <3>1. ~(rq[l].req /\ g[l] /\ ~rq[l].we)
      BY <1>1, <1>6, <2>1, LatchedAddress
    <3>2. ~rq[l].req /\ ls_state_q[l] = "LS_WAIT_RVALID" /\ ~rv[l]
      BY <1>1, <3>1, WaitingLane
    <3>3. ls_addr_q'[l] = ls_addr_q[l]
      BY <1>1, <3>2, LatchedAddress
    <3>4. l = ext_pending_lane_q /\ ~ext_pending_is_store_q
      BY <1>a, <3>2, <3>3 DEF IInv, NoOrphanWait
    <3>5. ~ext_rvalid(rq, bus, l)
      BY <1>4, <3>2
    <3> QED BY <3>4, <3>5, <1>2 DEF ext_rvalid
  <2>4. CASE rvalid
    <3>1. ext_state_q' = "EXT_IDLE"
      BY <1>2, <1>3, <1>a, <2>1, <2>4 DEF ext_state_d
    <3>2. bus_q' = << >>
      BY <1>1, <1>2, <2>1, <2>2, <2>4, OneElement DEF BusTick
    <3> QED BY <3>1, <3>2, <2>3, <2>4 DEF IInv, NoOrphanWait
  <2>5. CASE ~rvalid
    <3>1. /\ ext_state_q' = "EXT_WAIT"
          /\ ext_pending_lane_q' = ext_pending_lane_q
          /\ ext_pending_is_store_q' = ext_pending_is_store_q
      BY <1>2, <1>3, <1>a, <2>1, <2>5 DEF ext_state_d
    <3>2. bus_q' = bus_q
      BY <1>1, <1>2, <2>1, <2>5 DEF BusTick
    <3> DEFINE p == ext_pending_lane_q
    <3>3. p \in Lanes /\ ls_state_q[p] = "LS_WAIT_RVALID" /\ ~ext_pending_is_store_q
      BY <1>a DEF IInv
    <3>4. ~rq[p].req
      BY <3>3, PortFacts
    <3>5. ~rv[p]
      BY <1>2, <1>4, <1>5, <2>5, <3>3, <3>4 DEF ext_rvalid
    <3>6. ls_state_q'[p] = "LS_WAIT_RVALID"
      BY <1>1, <3>3, <3>4, <3>5 DEF LaneTick, ls_state_d
    <3>7. ls_addr_q'[p] = ls_addr_q[p]
      BY <1>1, <3>3, <3>4, LatchedAddress
    <3> QED BY <2>2, <2>3, <3>1, <3>2, <3>3, <3>6, <3>7 DEF IInv, NoOrphanWait
  <2> QED BY <2>4, <2>5
<1>b. CASE ext_state_q = "EXT_IDLE"
  <2>1. bus_q = << >> /\ ~rvalid
    BY <1>b, <1>1 DEF IInv, BusMay
  <2>2. \* A lane that waits for an external response has just been granted.
        \A l \in Lanes : ls_state_q'[l] = "LS_WAIT_RVALID" /\ ~InWindow(ls_addr_q'[l])
          => ext_data_req(rq) /\ gnt /\ l = sel /\ ~ext_data_we(rq)
    <3> SUFFICES ASSUME NEW l \in Lanes, ls_state_q'[l] = "LS_WAIT_RVALID", ~InWindow(ls_addr_q'[l])
                 PROVE  ext_data_req(rq) /\ gnt /\ l = sel /\ ~ext_data_we(rq)
      OBVIOUS
    <3>1. rq[l].req /\ g[l] /\ ~rq[l].we
      <4>1. ~rq[l].req => ls_addr_q'[l] = ls_addr_q[l]
        BY <1>1, LatchedAddress
      <4>2. ~(~rq[l].req /\ ls_state_q[l] = "LS_WAIT_RVALID")
        BY <1>b, <4>1 DEF IInv, NoOrphanWait
      <4> QED BY <1>1, <4>2, WaitingLane
    <3> QED BY <1>1, <1>6, <3>1, LatchedAddress
  <2>3. CASE ext_data_req(rq) /\ gnt /\ ~ext_data_we(rq)
    <3>1. sel \in Lanes /\ external(rq, sel)
      BY <2>3, SelectedLane DEF ext_data_req
    <3>2. /\ ext_state_q' = "EXT_WAIT"
          /\ ext_pending_lane_q' = sel
          /\ ext_pending_is_store_q' = ext_data_we(rq)
      BY <1>2, <1>3, <1>b, <2>3 DEF ext_state_d
    <3>3. rq[sel].req /\ g[sel] /\ ~rq[sel].we
      BY <1>2, <1>4, <2>3, <3>1 DEF external, ext_gnt, ext_data_we
    <3>4. ls_state_q'[sel] = "LS_WAIT_RVALID"
      BY <1>1, <3>1, <3>3 DEF LaneTick, ls_state_d
    <3>5. ls_addr_q'[sel] = ext_data_addr(rq)
      BY <1>1, <3>1, <3>3, LatchedAddress DEF ext_data_addr
    <3>6. \E x : bus_q' = <<x>> /\ ~x.we /\ x.addr = ext_data_addr(rq)
      <4> DEFINE x == [we |-> ext_data_we(rq), addr |-> ext_data_addr(rq),
                       data |-> IF ext_data_we(rq) THEN 0 ELSE ext_mem[ext_data_addr(rq)]]
      <4>1. bus_q' = Append(<< >>, x)
        BY <1>1, <1>2, <2>1, <2>3 DEF BusTick
      <4>2. bus_q' = <<x>>
        BY <4>1, OneElement
      <4>3. ~x.we /\ x.addr = ext_data_addr(rq)
        BY <2>3
      <4> QED BY <4>2, <4>3
    <3>7. ~ext_pending_is_store_q'
      BY <2>3, <3>2
    <3> HIDE DEF rq, sel
    <3> QED BY <2>2, <3>1, <3>2, <3>4, <3>5, <3>6, <3>7 DEF IInv, NoOrphanWait
  <2>4. CASE ~(ext_data_req(rq) /\ gnt /\ ~ext_data_we(rq))
    <3>1. ext_state_q' = "EXT_IDLE"
      BY <1>2, <1>3, <1>b, <2>1, <2>4 DEF ext_state_d
    <3>2. bus_q' = << >>
      BY <1>1, <1>2, <2>1, <2>4 DEF BusTick, BusMay
    <3> QED BY <2>2, <2>4, <3>1, <3>2 DEF IInv, NoOrphanWait
  <2> QED BY <2>3, <2>4
<1> QED BY <1>a, <1>b DEF IInv

LEMMA StutterIInv == IInv /\ UNCHANGED memVars => IInv'
BY DEF IInv, NoOrphanWait, memVars, laneVars, lsuVars, busVars

\* The external port and the lane it serves agree in every reachable state, for any
\* number of lanes: the outstanding load on the bus is the pending lane's own
\* (ibex_banked_lsumem 195-273 against ibex_lane 116-178).
THEOREM PortMatchesLane ==
  ASSUME StoreRvalid = FALSE
  PROVE  MemSpec => []PendingLaneWaits
<1>1. IInv /\ [MemNext]_memVars => IInv'
  BY StepIInv, StutterIInv DEF MemNext
<1> QED BY <1>1, InitIInv, IInvImplies, PTL DEF MemSpec

\* No lane ever waits for an external response that cannot come, for any number of
\* lanes (ibex_lane LS_WAIT_RVALID, ibex_banked_lsumem EXT_WAIT).
THEOREM NoLaneIsOrphaned ==
  ASSUME StoreRvalid = FALSE
  PROVE  MemSpec => []NoOrphanWait
<1>1. IInv /\ [MemNext]_memVars => IInv'
  BY StepIInv, StutterIInv DEF MemNext
<1> QED BY <1>1, InitIInv, IInvImplies, PTL DEF MemSpec

\* In one clock edge a lane stops waiting only on the response to its own load.
LEMMA StepOwnResponse ==
  ASSUME IInv, NEW d, NEW gnt \in BOOLEAN, NEW rvalid \in BOOLEAN, MemTick(d, gnt, rvalid),
         NEW l \in Lanes, ls_state_q[l] = "LS_WAIT_RVALID", ls_state_q'[l] # "LS_WAIT_RVALID"
  PROVE  bus_q # << >> /\ bus_q[1].addr = ls_addr_q[l] /\ ~bus_q[1].we
<1> DEFINE rq == Ports(d)
           bus == BusDrives(gnt, rvalid)
<1>1. ~rq[l].req
  BY PortFacts
<1>2. lsu_rvalid(rq, bus)[l]
  BY <1>1 DEF MemTick, LaneTick, ls_state_d
<1>3. ~oc_gnt(rq, l)
  BY <1>1 DEF oc_gnt, oc_load_gnt, oc_store_gnt, load_req, store_req, onchip
<1>4. ~ext_gnt(rq, bus, l)
  BY <1>1, SelectedLane DEF ext_gnt, ext_data_req, external
<1>5. ext_rvalid(rq, bus, l)
  BY <1>2, <1>3 DEF lsu_rvalid
<1>6. bus.rvalid /\ l = ext_pending_lane_q
  BY <1>4, <1>5 DEF ext_rvalid
<1>7. bus_q # << >>
  BY <1>6 DEF MemTick, BusMay, BusDrives
<1>8. PICK x : bus_q = <<x>> /\ ~x.we /\ x.addr = ls_addr_q[l]
  BY <1>6, <1>7 DEF IInv
<1> QED BY <1>7, <1>8, OneElement

\* A load completes with the response to its own address and with no other: the
\* routing of ibex_banked_lsumem 264-273 never wakes a lane by mistake.
THEOREM LoadsGetTheirOwn ==
  ASSUME StoreRvalid = FALSE
  PROVE  MemSpec => OwnResponse
<1>1. IInv /\ [MemNext]_memVars => IInv'
  BY StepIInv, StutterIInv DEF MemNext
<1>2. IInv /\ [MemNext]_memVars
      => [\A l \in Lanes :
            ls_state_q[l] = "LS_WAIT_RVALID" /\ ls_state_q'[l] # "LS_WAIT_RVALID"
              => bus_q # << >> /\ bus_q[1].addr = ls_addr_q[l] /\ ~bus_q[1].we]_memVars
  BY StepOwnResponse DEF MemNext
<1> QED BY <1>1, <1>2, InitIInv, PTL DEF MemSpec, OwnResponse

-----------------------------------------------------------------------------
(* The halt protocol *)

\* NoFetchAfterHalt alone is not inductive: that no fetch is issued in the cycle the
\* halt is latched needs HaltSeenInFirstCycle.
HaltInv == HaltSeenInFirstCycle /\ NoFetchAfterHalt

LEMMA InitHaltInv == Init => HaltInv
BY DEF Init, HaltInv, HaltSeenInFirstCycle, NoFetchAfterHalt, halt_set

\* The registers of the halt and fetch bookkeeping after a clock edge.
LEMMA TickFacts ==
  ASSUME NEW fe, NEW fill, NEW gnt, NEW rvalid, Tick(fe, fill, gnt, rvalid)
  PROVE  /\ halted_q' = (halted_q \/ halt_set)
         /\ fetch_valid_q' = fetch_req_q
         /\ bundle_active' = (fetch_req_q \/ (bundle_active /\ ~all_lanes_done))
         /\ fetch_req_q' = (fetch_req(fe) /\ ~redirect)
         /\ ~fetch_req_q => a_rdata_q' = a_rdata_q
BY DEF Tick, CacheTick, fetch_valid, bundle_active_d

LEMMA StepHaltInv ==
  ASSUME HaltInv, NEW fe, NEW fill, NEW gnt, NEW rvalid, Tick(fe, fill, gnt, rvalid)
  PROVE  HaltInv'
<1>1. NoFetchAfterHalt'
  BY TickFacts DEF HaltInv, HaltSeenInFirstCycle, NoFetchAfterHalt, fetch_req
<1>2. HaltSeenInFirstCycle'
  <2>1. CASE fetch_req_q
    BY <2>1, TickFacts DEF HaltSeenInFirstCycle
  <2>2. CASE ~fetch_req_q
    \* The slots are those of this cycle, so an ebreak among them is latched now.
    <3>1. a_rdata_q' = a_rdata_q /\ (bundle_active' => bundle_active)
      BY <2>2, TickFacts
    <3>2. halt_set' => halt_set
      BY <3>1 DEF halt_set
    <3> QED BY <3>2, TickFacts DEF HaltSeenInFirstCycle
  <2> QED BY <2>1, <2>2
<1> QED BY <1>1, <1>2 DEF HaltInv

LEMMA StutterHaltInv == HaltInv /\ UNCHANGED vars => HaltInv'
BY DEF HaltInv, HaltSeenInFirstCycle, NoFetchAfterHalt, halt_set, vars, dispatchVars, cacheVars

\* Once an ebreak is latched no fetch is under way and none is ever started
\* (ibex_vliw_dispatch 93-116): the fetch that could race the halt is blocked by
\* fetch_valid_q in the one cycle in which it could be issued.
THEOREM HaltStopsFetch == Spec => []NoFetchAfterHalt
<1>1. HaltInv /\ [Next]_vars => HaltInv'
  BY StepHaltInv, StutterHaltInv DEF Next
<1>2. HaltInv => NoFetchAfterHalt
  BY DEF HaltInv
<1> QED BY <1>1, <1>2, InitHaltInv, PTL DEF Spec

\* An ebreak that is not yet latched is decoded in the cycle in which fetch_valid_q
\* holds back the next fetch (ibex_vliw_dispatch 93-116), whatever the loader and the
\* fetch-enable input do.
THEOREM HaltIsSeenInTime == Spec => []HaltSeenInFirstCycle
<1>1. HaltInv /\ [Next]_vars => HaltInv'
  BY StepHaltInv, StutterHaltInv DEF Next
<1>2. HaltInv => HaltSeenInFirstCycle
  BY DEF HaltInv
<1> QED BY <1>1, <1>2, InitHaltInv, PTL DEF Spec

\* Between bundles no lane acts: none commits and none redirects.
LEMMA IdleLanes ==
  ASSUME ~bundle_active, NEW l \in Lanes
  PROVE  ~branch_redirect(decoded(l)) /\ \A rv : ~commit_valid(l, decoded(l), rv)
BY DEF branch_redirect, commit_valid, decoded

\* The register file is a function of the registers, initially and after an edge.
RfShape == rf = [r \in Regs |-> rf[r]]

LEMMA InitRfShape == Init => RfShape
BY DEF Init, RfInit, RfShape

LEMMA StepRfShape ==
  ASSUME NEW fe, NEW fill, NEW gnt, NEW rvalid, Tick(fe, fill, gnt, rvalid)
  PROVE  RfShape'
BY DEF Tick, Commit, RfTick, RfShape

LEMMA StutterRfShape == RfShape /\ UNCHANGED vars => RfShape'
BY DEF RfShape, vars

\* A clock edge of a halted, drained engine changes nothing a program can see.
LEMMA HaltedEdge ==
  ASSUME HaltInv, RfShape, halted_q, ~bundle_active,
         NEW fe, NEW fill, NEW gnt, NEW rvalid, Tick(fe, fill, gnt, rvalid)
  PROVE  ~bundle_active' /\ rf' = rf /\ pc_q' = pc_q
<1>1. ~bundle_active'
  BY TickFacts DEF HaltInv, NoFetchAfterHalt
<1>2. pc_q' = pc_q
  <2>1. ~redirect
    BY IdleLanes DEF redirect, redirecting
  <2> QED BY <2>1 DEF Tick, pc_d
<1>3. rf' = rf
  <2> DEFINE rv == lsu_rvalid(Ports(ops), BusDrives(gnt, rvalid))
             we == [l \in Lanes |-> commit_valid(l, decoded(l), rv[l])]
             waddr == [l \in Lanes |-> decoded(l).waddr]
             wdata == [l \in Lanes |-> commit_wdata(decoded(l),
                                         lsu_rdata(Ports(ops), BusDrives(gnt, rvalid))[l])]
  <2>1. RfTick(we, waddr, wdata)
    BY DEF Tick, Commit
  <2>2. \A l \in Lanes : ~we[l]
    BY IdleLanes
  <2> HIDE DEF we, waddr, wdata
  <2>3. rf' = [r \in Regs |-> rf[r]]
    BY <2>1, <2>2 DEF RfTick
  <2> QED BY <2>3 DEF RfShape
<1> QED BY <1>1, <1>2, <1>3

\* After a halt nothing happens any more: no bundle becomes active, no register is
\* written and the PC stands still, whatever the fetch-enable input and the loader do.
THEOREM HaltedForGood == Spec => HaltIsFinal
<1>1. HaltInv /\ RfShape /\ [Next]_vars => (HaltInv /\ RfShape)'
  BY StepHaltInv, StutterHaltInv, StepRfShape, StutterRfShape DEF Next
<1>2. HaltInv /\ RfShape /\ [Next]_vars
      => [halted_q /\ ~bundle_active => ~bundle_active' /\ rf' = rf /\ pc_q' = pc_q]_vars
  BY HaltedEdge DEF Next
<1> QED BY <1>1, <1>2, InitHaltInv, InitRfShape, PTL DEF Spec, HaltIsFinal

-----------------------------------------------------------------------------
\* The reset value of the slots is a word of the cache.
LEMMA ZeroWordType == ZeroWord \in Instruction
BY NumRegsAssumption DEF ZeroWord, Instruction, Kinds, Regs

LEMMA InitTypeOK == Init => TypeOK
<1> SUFFICES ASSUME Init PROVE TypeOK
  OBVIOUS
<1>1. rf \in [Regs -> Val]
  BY ValModAssumption DEF Init, RfInit, Val
<1>2. imem \in CacheWords /\ a_rdata \in [Lanes -> Instruction] /\ a_rdata_q \in [Lanes -> Instruction]
  BY EnvAssumption, ZeroWordType DEF Init, CacheInit
<1>3. pc_q \in 0..(PcMod - 1)
  BY PcAssumption DEF Init
<1>4. fetch_req_q = FALSE
  BY DEF Init, CacheInit
<1> QED BY <1>1, <1>2, <1>3, <1>4, InitMemTypeOK DEF Init, TypeOK

\* The operations the lanes see have words for operands.  A load writes no register.
LEMMA DecodedType ==
  ASSUME TypeOK, NEW l \in Lanes
  PROVE  /\ decoded(l).a \in Val /\ decoded(l).b \in Val
         /\ decoded(l).is_store \in BOOLEAN
         /\ decoded(l).imm \in Nat /\ decoded(l).pc \in Nat
         /\ decoded(l).op = "SLTU"
         /\ decoded(l).rf_we => ~decoded(l).is_load
<1>1. a_rdata_q[l] \in Instruction
  BY DEF TypeOK
<1>2. rf_rdata(a_rdata_q[l].rs1) \in Val /\ rf_rdata(a_rdata_q[l].rs2) \in Val
  BY <1>1, ValModAssumption DEF TypeOK, Instruction, rf_rdata, Val
<1>3. a_rdata_q[l].imm \in Nat /\ pc_q + l \in Nat
  BY <1>1, PcAssumption, WAssumption DEF TypeOK, Instruction, Lanes
<1>4. (data_req_o(a_rdata_q[l]) /\ data_we_o(a_rdata_q[l])) \in BOOLEAN
  BY DEF data_req_o, data_we_o
<1>5. rf_we_o(a_rdata_q[l]) => ~data_req_o(a_rdata_q[l])
  BY DEF rf_we_o, data_req_o, AluKinds, JumpKinds
<1> QED BY <1>2, <1>3, <1>4, <1>5 DEF decoded, alu_operator_o

LEMMA OpsType == TypeOK => OperandsOK(ops)
BY DecodedType DEF OperandsOK, ops

\* What a lane commits is a word.
LEMMA CommitType ==
  ASSUME TypeOK, NEW l \in Lanes, NEW rv, NEW rdata, commit_valid(l, decoded(l), rv)
  PROVE  commit_wdata(decoded(l), rdata) \in Val
<1>1. ~decoded(l).is_load /\ decoded(l).op = "SLTU"
  BY DecodedType DEF commit_valid
<1>2. 0 \in Val /\ 1 \in Val
  BY ValModAssumption DEF Val
<1> QED BY <1>1, <1>2 DEF commit_wdata, alu_result

\* The program counter stays in range.
LEMMA PcType == TypeOK => pc_d \in 0..(PcMod - 1)
<1> SUFFICES ASSUME TypeOK PROVE pc_d \in 0..(PcMod - 1)
  OBVIOUS
<1>1. redirect_pc \in 0..(PcMod - 1)
  <2>1. Lowest(redirecting) \in Lanes
    BY LowestIsLane DEF redirecting
  <2>2. branch_target(decoded(Lowest(redirecting))) \in Nat
    <3> DEFINE d == decoded(Lowest(redirecting))
    <3>1. d.a \in Nat /\ d.imm \in Nat /\ d.pc \in Nat
      BY <2>1, DecodedType DEF Val
    <3> HIDE DEF d
    <3> QED BY <3>1 DEF branch_target, d
  <2> QED BY <2>2, ModRange, PcAssumption DEF redirect_pc
<1>2. (pc_q + BundleSlots) % PcMod \in 0..(PcMod - 1)
  <2>1. pc_q + BundleSlots \in Nat
    BY WAssumption, PcAssumption DEF TypeOK, BundleSlots
  <2> QED BY <2>1, ModRange, PcAssumption
<1> QED BY <1>1, <1>2 DEF pc_d, TypeOK

\* The lane whose register write wins is one of the writing lanes.
LEMMA HighestInSet ==
  ASSUME NEW S \in SUBSET Lanes, S # {}
  PROVE  (CHOOSE l \in S : \A k \in S : k <= l) \in S
<1> DEFINE T == {m \in Lanes : W - 1 - m \in S}
<1>1. \A k \in S : W - 1 - k \in T
  BY WAssumption DEF Lanes
<1>2. T # {} /\ T \in SUBSET Lanes
  BY <1>1
<1>3. PICK m \in T : \A k \in T : m <= k
  BY <1>2, LowestInSet
<1>4. W - 1 - m \in S
  OBVIOUS
<1>5. ASSUME NEW k \in S PROVE k <= W - 1 - m
  <2>1. m <= W - 1 - k
    BY <1>1, <1>3
  <2>2. k \in Nat /\ m \in Nat /\ W \in Nat
    BY WAssumption, <1>2 DEF Lanes
  <2> QED BY <2>1, <2>2
<1> QED BY <1>4, <1>5

LEMMA StepTypeOK ==
  ASSUME TypeOK, NEW fe \in FetchEnable, NEW fill \in Fills,
         NEW gnt \in BOOLEAN, NEW rvalid \in BOOLEAN, Tick(fe, fill, gnt, rvalid)
  PROVE  TypeOK'
<1>1. MemTypeOK'
  BY OpsType, StepMemTypeOK DEF Tick, TypeOK
<1>2. pc_q' \in 0..(PcMod - 1)
  BY PcType DEF Tick
<1>3. /\ halted_q' \in BOOLEAN /\ bundle_active' \in BOOLEAN /\ bundle_active_q' \in BOOLEAN
      /\ fetch_valid_q' \in BOOLEAN /\ fetch_req_q' \in BOOLEAN
  <2>1. halted_q' = (halted_q \/ halt_set) /\ fetch_valid_q' = fetch_req_q
        /\ bundle_active_q' = bundle_active /\ bundle_active' = bundle_active_d
        /\ fetch_req_q' = (fetch_req(fe) /\ ~redirect)
    BY DEF Tick, CacheTick, fetch_valid
  <2>2. bundle_active_d \in BOOLEAN
    BY Zenon DEF bundle_active_d, fetch_valid
  <2>3. (halted_q \/ halt_set) \in BOOLEAN /\ (fetch_req(fe) /\ ~redirect) \in BOOLEAN
    BY Zenon
  <2> QED BY <2>1, <2>2, <2>3, Zenon DEF TypeOK
<1>4. imem' \in CacheWords
  <2>1. CASE ~fill.req
    BY <2>1 DEF Tick, CacheTick, TypeOK
  <2>2. CASE fill.req
    <3>1. fill.addr \in 0..(BankDepth - 1) /\ fill.bank \in Lanes /\ fill.wdata \in Instruction
      BY <2>2, EnvAssumption
    <3>2. imem' = [imem EXCEPT ![fill.addr][fill.bank] = fill.wdata]
      BY <2>2 DEF Tick, CacheTick
    <3> QED BY <3>1, <3>2 DEF TypeOK, CacheWords
  <2> QED BY <2>1, <2>2
<1>5. a_rdata' \in [Lanes -> Instruction] /\ a_rdata_q' \in [Lanes -> Instruction]
  <2>1. bundle_word_idx(pc_q) \in 0..(BankDepth - 1)
    BY ModRange, BankDepthAssumption, PcAssumption DEF bundle_word_idx, TypeOK
  <2> QED BY <2>1 DEF Tick, CacheTick, TypeOK, CacheWords
<1>6. rf' \in [Regs -> Val]
  <2> DEFINE rv == lsu_rvalid(Ports(ops), BusDrives(gnt, rvalid))
             rd == lsu_rdata(Ports(ops), BusDrives(gnt, rvalid))
             we == [l \in Lanes |-> commit_valid(l, decoded(l), rv[l])]
             waddr == [l \in Lanes |-> decoded(l).waddr]
             wdata == [l \in Lanes |-> commit_wdata(decoded(l), rd[l])]
             writers(r) == {l \in Lanes : we[l] /\ waddr[l] = r /\ r # 0}
  <2>1. RfTick(we, waddr, wdata)
    BY DEF Tick, Commit
  <2>2. \A l \in Lanes : we[l] => wdata[l] \in Val
    BY CommitType
  <2>3. \A r \in Regs : rf[r] \in Val
    BY DEF TypeOK
  <2> HIDE DEF we, waddr, wdata
  <2>4. ASSUME NEW r \in Regs, writers(r) # {}
        PROVE  wdata[CHOOSE l \in writers(r) : \A k \in writers(r) : k <= l] \in Val
    BY <2>2, <2>4, HighestInSet
  <2> QED BY <2>1, <2>3, <2>4 DEF RfTick
<1> QED BY <1>1, <1>2, <1>3, <1>4, <1>5, <1>6 DEF TypeOK

LEMMA StutterTypeOK == TypeOK /\ UNCHANGED vars => TypeOK'
<1> SUFFICES ASSUME TypeOK, UNCHANGED vars PROVE TypeOK'
  OBVIOUS
<1>1. UNCHANGED memVars /\ UNCHANGED dispatchVars /\ UNCHANGED cacheVars /\ rf' = rf
  BY DEF vars
<1>2. MemTypeOK'
  BY <1>1, StutterMemTypeOK DEF TypeOK
<1> QED BY <1>1, <1>2 DEF TypeOK, dispatchVars, cacheVars

\* The engine's registers, slots and memories keep their types, for any program image
\* and fill traffic: the PC wraps, and only words reach the register file.
THEOREM EngineTypeCorrect == Spec => []TypeOK
<1>1. TypeOK /\ [Next]_vars => TypeOK'
  BY StepTypeOK, StutterTypeOK DEF Next
<1> QED BY <1>1, InitTypeOK, PTL DEF Spec

-----------------------------------------------------------------------------
\* What the open inputs of the decoders come to: every operator is SLTU, of zero with
\* zero, so the registers keep their reset value, the address a lane has latched is
\* zero like them, and if address zero is on-chip no request reaches the bus.
ZeroInv == /\ \A r \in Regs : rf[r] = 0
           /\ \A l \in Lanes : ls_addr_q[l] = 0
           /\ InWindow(0) => bus_q = <<>>

LEMMA InitZeroInv == Init => ZeroInv
BY DEF Init, RfInit, MemInit, LaneInit, BusInit, ZeroInv

\* Both operands of every operation are zero.
LEMMA ZeroOperands ==
  ASSUME TypeOK, ZeroInv, NEW l \in Lanes
  PROVE  decoded(l).a = 0 /\ decoded(l).b = 0 /\ decoded(l).op = "SLTU"
<1>1. a_rdata_q[l].rs1 \in Regs /\ a_rdata_q[l].rs2 \in Regs
  BY DEF TypeOK, Instruction
<1>2. rf_rdata(a_rdata_q[l].rs1) = 0 /\ rf_rdata(a_rdata_q[l].rs2) = 0
  BY <1>1 DEF ZeroInv, rf_rdata
<1> QED BY <1>2 DEF decoded, alu_operator_o

\* Every request is for word 0.
LEMMA ZeroAddress ==
  ASSUME TypeOK, ZeroInv, NEW l \in Lanes
  PROVE  Ports(ops)[l].addr = 0
<1>1. ValMod % ValMod = 0
  BY ValModAssumption, Z3
<1>2. alu_adder_result(decoded(l)) = 0
  <2>1. 0 + ValMod - 0 = ValMod
    BY ValModAssumption
  <2> QED BY <1>1, <2>1, ZeroOperands DEF alu_adder_result
<1>3. Ports(ops)[l] = data_port(l, decoded(l))
  BY DEF Ports, ops
<1> QED BY <1>2, <1>3 DEF data_port, NoRequest, ZeroInv

\* So, with word 0 on-chip, no lane selects the external port.
LEMMA NoneExternal ==
  ASSUME TypeOK, ZeroInv, InWindow(0)
  PROVE  ~ext_selected(Ports(ops))
BY ZeroAddress DEF ext_selected, external

LEMMA StepZeroInv ==
  ASSUME TypeOK, ZeroInv, NEW fe, NEW fill, NEW gnt, NEW rvalid, Tick(fe, fill, gnt, rvalid)
  PROVE  ZeroInv'
<1>1. \A r \in Regs : rf'[r] = 0
  <2> DEFINE rv == lsu_rvalid(Ports(ops), BusDrives(gnt, rvalid))
             rd == lsu_rdata(Ports(ops), BusDrives(gnt, rvalid))
             we == [l \in Lanes |-> commit_valid(l, decoded(l), rv[l])]
             waddr == [l \in Lanes |-> decoded(l).waddr]
             wdata == [l \in Lanes |-> commit_wdata(decoded(l), rd[l])]
             writers(r) == {l \in Lanes : we[l] /\ waddr[l] = r /\ r # 0}
  <2>1. RfTick(we, waddr, wdata)
    BY DEF Tick, Commit
  <2>2. \A l \in Lanes : we[l] => wdata[l] = 0
    <3> SUFFICES ASSUME NEW l \in Lanes, NEW x, NEW y, commit_valid(l, decoded(l), x)
                 PROVE  commit_wdata(decoded(l), y) = 0
      OBVIOUS
    <3>1. ~decoded(l).is_load
      BY DecodedType DEF commit_valid
    <3>2. ~alu_cmp_result(decoded(l))
      BY ZeroOperands DEF alu_cmp_result
    <3> QED BY <3>1, <3>2, ZeroOperands DEF commit_wdata, alu_result
  <2>3. \A r \in Regs : rf[r] = 0
    BY DEF ZeroInv
  <2> HIDE DEF we, waddr, wdata
  <2>4. ASSUME NEW r \in Regs, writers(r) # {}
        PROVE  wdata[CHOOSE l \in writers(r) : \A k \in writers(r) : k <= l] = 0
    BY <2>2, <2>4, HighestInSet
  <2> QED BY <2>1, <2>3, <2>4 DEF RfTick
<1>2. \A l \in Lanes : ls_addr_q'[l] = 0
  BY ZeroAddress DEF Tick, MemTick, LaneTick, ZeroInv
<1>3. InWindow(0) => bus_q' = <<>>
  <2> SUFFICES ASSUME InWindow(0) PROVE bus_q' = <<>>
    OBVIOUS
  <2>1. bus_q = <<>> /\ ~ext_data_req(Ports(ops))
    BY NoneExternal DEF ZeroInv, ext_data_req
  <2>2. ~gnt /\ ~rvalid
    BY <2>1 DEF Tick, MemTick, BusMay
  <2> QED BY <2>1, <2>2 DEF Tick, MemTick, BusTick, BusDrives
<1> QED BY <1>1, <1>2, <1>3 DEF ZeroInv, InWindow

LEMMA StutterZeroInv == ZeroInv /\ UNCHANGED vars => ZeroInv'
BY DEF ZeroInv, InWindow, vars, memVars, laneVars, busVars

-----------------------------------------------------------------------------
(* The engine as the machine of DESIGN.md 7.3.  A bundle takes four cycles:   *)
(* its fetch is requested, the slots are latched, it executes (the machine's  *)
(* step), and it retires.  This invariant follows it around.                  *)

Fetched == imem[bundle_word_idx(pc_q)]
Idling == ~bundle_active /\ ~fetch_req_q /\ ~fetch_valid_q
Fetching == /\ ~bundle_active /\ ~bundle_active_q /\ fetch_req_q /\ ~fetch_valid_q /\ ~halted_q
            /\ a_rdata = Fetched
Executing == /\ bundle_active /\ ~bundle_active_q /\ fetch_req_q /\ fetch_valid_q /\ ~halted_q
             /\ a_rdata = Fetched /\ a_rdata_q = Fetched
Retiring == /\ bundle_active /\ bundle_active_q /\ ~fetch_req_q /\ fetch_valid_q
            /\ BundleAsDocumented(a_rdata_q)
            /\ halt_set => halted_q
            /\ redirect => pc_q = redirect_pc

LanesIdle == \A l \in Lanes : ls_state_q[l] = "LS_IDLE"
RefInv == /\ TypeOK /\ ZeroInv /\ RfShape /\ LanesIdle
          /\ imem \in Images
          /\ Idling \/ Fetching \/ Executing \/ Retiring

\* The premises under which the engine is the machine.
Undisturbed == /\ \A image \in Images : ImageAsDocumented(image)
               /\ Fills = {NoFill} /\ FetchEnable = {TRUE} /\ InWindow(0)

LEMMA FetchedDocumented ==
  ASSUME Undisturbed, TypeOK, imem \in Images
  PROVE  BundleAsDocumented(Fetched)
<1>1. bundle_word_idx(pc_q) \in 0..(BankDepth - 1)
  BY ModRange, BankDepthAssumption, PcAssumption DEF bundle_word_idx, TypeOK
<1> QED BY <1>1 DEF Undisturbed, ImageAsDocumented, Fetched

\* Where a bundle jumps to.
Jumps(b) == {l \in Lanes : b[l].kind = "jalr"}
JumpTo(b) == b[Lowest(Jumps(b))].imm % PcMod

LEMMA DocumentedRedirect ==
  ASSUME TypeOK, ZeroInv, bundle_active, BundleAsDocumented(a_rdata_q)
  PROVE  /\ redirecting = Jumps(a_rdata_q)
         /\ redirect <=> Jumps(a_rdata_q) # {}
         /\ redirect => redirect_pc = JumpTo(a_rdata_q)
<1>1. ASSUME NEW l \in Lanes
      PROVE  /\ branch_redirect(decoded(l)) <=> a_rdata_q[l].kind = "jalr"
             /\ a_rdata_q[l].kind = "jalr"
                  => branch_target(decoded(l)) = a_rdata_q[l].imm
  <2>1. decoded(l).a = 0 /\ decoded(l).b = 0 /\ decoded(l).op = "SLTU"
    BY ZeroOperands
  <2>2. /\ decoded(l).valid = bundle_active
        /\ decoded(l).is_branch = (a_rdata_q[l].kind = "branch")
        /\ decoded(l).is_jump = (a_rdata_q[l].kind \in JumpKinds \cup {"fence_i"})
        /\ decoded(l).imm = a_rdata_q[l].imm
    BY DEF decoded, branch_in_dec_o, jump_in_dec_o
  <2>3. AsDocumented(a_rdata_q[l]) /\ a_rdata_q[l].imm \in Nat
    BY DEF BundleAsDocumented, TypeOK, Instruction
  <2>4. ~alu_cmp_result(decoded(l))
    BY <2>1 DEF alu_cmp_result
  <2>5. branch_redirect(decoded(l)) <=> a_rdata_q[l].kind = "jalr"
    BY <2>2, <2>3, <2>4 DEF branch_redirect, AsDocumented, JumpKinds
  <2>6. a_rdata_q[l].kind = "jalr" => branch_target(decoded(l)) = a_rdata_q[l].imm
    <3>1. a_rdata_q[l].kind = "jalr" => branch_target(decoded(l)) = decoded(l).a + decoded(l).imm
      BY <2>2 DEF branch_target, JumpKinds
    <3>2. decoded(l).a + decoded(l).imm = a_rdata_q[l].imm
      BY <2>1, <2>2, <2>3
    <3> QED BY <3>1, <3>2
  <2> QED BY <2>5, <2>6
<1>2. redirecting = Jumps(a_rdata_q)
  BY <1>1 DEF redirecting, Jumps
<1>3. redirect <=> Jumps(a_rdata_q) # {}
  BY <1>2 DEF redirect
<1>4. redirect => redirect_pc = JumpTo(a_rdata_q)
  <2> SUFFICES ASSUME redirect PROVE redirect_pc = JumpTo(a_rdata_q)
    OBVIOUS
  <2>1. Lowest(Jumps(a_rdata_q)) \in Jumps(a_rdata_q)
    BY <1>3, LowestInSet DEF Jumps
  <2> QED BY <1>1, <1>2, <2>1 DEF redirect_pc, JumpTo, Jumps
<1> QED BY <1>2, <1>3, <1>4

\* The one store of a bundle is granted where it is issued, so no lane ever waits.
LEMMA LanesStayIdle ==
  ASSUME TypeOK, ZeroInv, LanesIdle, InWindow(0), bundle_active => BundleAsDocumented(a_rdata_q),
         NEW fe, NEW fill, NEW gnt, NEW rvalid, Tick(fe, fill, gnt, rvalid)
  PROVE  LanesIdle'
<1> DEFINE rq == Ports(ops)
           bus == BusDrives(gnt, rvalid)
<1>1. ASSUME NEW l \in Lanes
      PROVE  /\ rq[l].req <=> bundle_active /\ data_we_o(a_rdata_q[l])
             /\ rq[l].req => rq[l].we /\ rq[l].addr = 0
  <2>1. rq[l] = data_port(l, decoded(l))
    BY DEF Ports, ops
  <2>2. /\ decoded(l).valid = bundle_active
        /\ decoded(l).is_load = (data_req_o(a_rdata_q[l]) /\ ~data_we_o(a_rdata_q[l]))
        /\ decoded(l).is_store = (data_req_o(a_rdata_q[l]) /\ data_we_o(a_rdata_q[l]))
    BY DEF decoded
  <2>3. bundle_active => a_rdata_q[l].kind # "load"
    BY DEF BundleAsDocumented, AsDocumented
  <2>4. /\ bundle_active => ~decoded(l).is_load
        /\ bundle_active => (decoded(l).is_store <=> data_we_o(a_rdata_q[l]))
    BY <2>2, <2>3 DEF data_req_o, data_we_o
  <2>5. rq[l].addr = 0
    BY ZeroAddress
  <2> QED BY <2>1, <2>2, <2>4, <2>5 DEF data_port, LanesIdle, NoRequest
<1>2. ASSUME NEW l \in Lanes, rq[l].req PROVE lsu_gnt(rq, bus)[l]
  <2>1. store_req(rq, l)
    BY <1>1, <1>2 DEF store_req, onchip
  <2>2. \A k \in Lanes : k < l => ~store_req(rq, k)
    <3> SUFFICES ASSUME NEW k \in Lanes, k < l, store_req(rq, k) PROVE FALSE
      OBVIOUS
    <3>1. data_we_o(a_rdata_q[k]) /\ data_we_o(a_rdata_q[l]) /\ bundle_active
      BY <1>1, <1>2 DEF store_req, onchip
    <3>2. k = l
      BY <3>1 DEF BundleAsDocumented
    <3> QED BY <3>2, WAssumption DEF Lanes
  <2>3. oc_store_gnt(rq, l)
    BY <2>1, <2>2 DEF oc_store_gnt
  <2> QED BY <2>3 DEF lsu_gnt, oc_gnt
<1>3. ASSUME NEW l \in Lanes PROVE ls_state_q'[l] = "LS_IDLE"
  <2>1. ls_state_q'[l] = ls_state_d(l, rq[l], lsu_gnt(rq, bus)[l], lsu_rvalid(rq, bus)[l])
    BY DEF Tick, MemTick, LaneTick
  <2> HIDE DEF rq, bus
  <2>2. CASE rq[l].req
    BY <1>1, <1>2, <2>1, <2>2 DEF ls_state_d
  <2>3. CASE ~rq[l].req
    BY <2>1, <2>3 DEF ls_state_d, LanesIdle
  <2> QED BY <2>2, <2>3
<1> QED BY <1>3 DEF LanesIdle

\* The cycle after the fetch pipeline: everything but the phase.
LEMMA EdgeFacts ==
  ASSUME Undisturbed, RefInv, NEW fe \in FetchEnable, NEW fill \in Fills,
         NEW gnt \in BOOLEAN, NEW rvalid \in BOOLEAN, Tick(fe, fill, gnt, rvalid)
  PROVE  /\ TypeOK' /\ ZeroInv' /\ RfShape' /\ LanesIdle' /\ imem' = imem
         /\ pc_q' = pc_d /\ halted_q' = (halted_q \/ halt_set)
         /\ fetch_valid_q' = fetch_req_q /\ bundle_active_q' = bundle_active
         /\ bundle_active' = (fetch_req_q \/ (bundle_active /\ ~all_lanes_done))
         /\ fetch_req_q' = (fetch_req(TRUE) /\ ~redirect)
         /\ a_rdata' = (IF fetch_req(TRUE) THEN Fetched ELSE a_rdata)
         /\ a_rdata_q' = (IF fetch_req_q THEN a_rdata ELSE a_rdata_q)
         /\ all_lanes_done <=> bundle_active /\ bundle_active_q
<1>1. fe = TRUE /\ ~fill.req
  BY DEF Undisturbed, NoFill
<1>2. bundle_active => BundleAsDocumented(a_rdata_q)
  BY FetchedDocumented DEF RefInv, Idling, Fetching, Executing, Retiring
<1>3. LanesIdle'
  BY <1>2, LanesStayIdle DEF RefInv, Undisturbed
<1>4. TypeOK' /\ ZeroInv' /\ RfShape'
  BY StepTypeOK, StepZeroInv, StepRfShape DEF RefInv
<1>5. all_lanes_done <=> bundle_active /\ bundle_active_q
  BY DEF RefInv, LanesIdle, all_lanes_done, lane_busy
<1>6. /\ imem' = imem /\ pc_q' = pc_d /\ halted_q' = (halted_q \/ halt_set)
      /\ fetch_valid_q' = fetch_req_q /\ bundle_active_q' = bundle_active
      /\ bundle_active' = (fetch_req_q \/ (bundle_active /\ ~all_lanes_done))
      /\ fetch_req_q' = (fetch_req(TRUE) /\ ~redirect)
      /\ a_rdata' = (IF fetch_req(TRUE) THEN Fetched ELSE a_rdata)
      /\ a_rdata_q' = (IF fetch_req_q THEN a_rdata ELSE a_rdata_q)
  BY <1>1 DEF Tick, CacheTick, fetch_valid, bundle_active_d, Fetched
<1> QED BY <1>3, <1>4, <1>5, <1>6

\* One turn of the bundle's cycle.
LEMMA StepRefInv ==
  ASSUME Undisturbed, RefInv, NEW fe \in FetchEnable, NEW fill \in Fills,
         NEW gnt \in BOOLEAN, NEW rvalid \in BOOLEAN, Tick(fe, fill, gnt, rvalid)
  PROVE  /\ RefInv'
         /\ \/ Idling /\ (Idling \/ Fetching)'
            \/ Fetching /\ Executing'
            \/ Executing /\ Retiring' /\ pc_q' = (IF redirect THEN redirect_pc ELSE pc_q)
            \/ Retiring /\ Idling'
<1> DEFINE Edge ==
             /\ TypeOK' /\ ZeroInv' /\ RfShape' /\ LanesIdle' /\ imem' = imem
             /\ pc_q' = pc_d /\ halted_q' = (halted_q \/ halt_set)
             /\ fetch_valid_q' = fetch_req_q /\ bundle_active_q' = bundle_active
             /\ bundle_active' = (fetch_req_q \/ (bundle_active /\ ~all_lanes_done))
             /\ fetch_req_q' = (fetch_req(TRUE) /\ ~redirect)
             /\ a_rdata' = (IF fetch_req(TRUE) THEN Fetched ELSE a_rdata)
             /\ a_rdata_q' = (IF fetch_req_q THEN a_rdata ELSE a_rdata_q)
             /\ all_lanes_done <=> bundle_active /\ bundle_active_q
<1>0. Edge
  BY EdgeFacts
<1>1. /\ TypeOK' /\ ZeroInv' /\ RfShape' /\ LanesIdle' /\ (imem \in Images)'
      /\ TypeOK /\ ZeroInv /\ imem \in Images
  BY <1>0 DEF RefInv
<1>2. ~bundle_active => ~redirect /\ ~halt_set /\ pc_d = pc_q
  <2>1. ~bundle_active => ~redirect
    BY IdleLanes DEF redirect, redirecting
  <2> QED BY <2>1 DEF halt_set, pc_d
<1>3. pc_q' = pc_q => Fetched' = Fetched
  BY <1>0 DEF Fetched, bundle_word_idx
<1>4. CASE Idling
  <2>1. (Idling \/ Fetching)'
    BY <1>0, <1>2, <1>3, <1>4 DEF Idling, Fetching, fetch_req
  <2> QED BY <1>1, <1>4, <2>1 DEF RefInv
<1>5. CASE Fetching
  <2>1. Executing'
    BY <1>0, <1>2, <1>3, <1>5 DEF Fetching, Executing, fetch_req
  <2> QED BY <1>1, <1>5, <2>1 DEF RefInv
<1>6. CASE Executing
  <2>1. ~fetch_req(TRUE) /\ ~all_lanes_done
    BY <1>0, <1>6 DEF Executing, fetch_req
  <2>2. a_rdata_q' = a_rdata_q /\ bundle_active' /\ bundle_active_q' /\ ~fetch_req_q' /\ fetch_valid_q'
    BY <1>0, <1>6, <2>1 DEF Executing
  <2>3. BundleAsDocumented(a_rdata_q)
    BY <1>1, <1>6, FetchedDocumented DEF Executing
  <2>4. BundleAsDocumented(a_rdata_q)'
    BY <2>2, <2>3 DEF BundleAsDocumented
  <2>5. (halt_set => halted_q)'
    BY <1>0, <1>6, <2>2 DEF halt_set, Executing
  <2>6. pc_q' = (IF redirect THEN redirect_pc ELSE pc_q)
    BY <1>0, <2>1 DEF pc_d
  <2>7. redirect <=> Jumps(a_rdata_q) # {}
    BY <1>1, <1>6, <2>3, DocumentedRedirect DEF Executing
  <2>8. redirect => redirect_pc = JumpTo(a_rdata_q)
    BY <1>1, <1>6, <2>3, DocumentedRedirect DEF Executing
  <2>9. /\ redirect' <=> (Jumps(a_rdata_q) # {})'
        /\ redirect' => (redirect_pc = JumpTo(a_rdata_q))'
    BY <1>1, <2>2, <2>4, DocumentedRedirect, PTL
  <2>10. (redirect => pc_q = redirect_pc)'
    BY <2>2, <2>6, <2>7, <2>8, <2>9 DEF Jumps, JumpTo
  <2>11. Retiring'
    BY <2>2, <2>4, <2>5, <2>10 DEF Retiring
  <2> QED BY <1>1, <1>6, <2>6, <2>11 DEF RefInv
<1>7. CASE Retiring
  <2>1. Idling'
    BY <1>0, <1>7 DEF Retiring, Idling, fetch_req
  <2> QED BY <1>1, <1>7, <2>1 DEF RefInv
<1> QED BY <1>4, <1>5, <1>6, <1>7 DEF RefInv

\* What the machine does with a documented bundle, the registers being zero.
LEMMA MachineStepIs ==
  ASSUME Undisturbed, RefInv, Executing
  PROVE  /\ Machine!NextPc = IF redirect THEN redirect_pc ELSE (pc_q + BundleSlots) % PcMod
         /\ \A r \in Regs : Machine!NextReg(r) = 0
         /\ (\E l \in Machine!Lanes : Machine!Bundle[l].kind = "ebreak") <=> halt_set
<1>0. TypeOK /\ ZeroInv /\ imem \in Images /\ BundleAsDocumented(a_rdata_q)
  BY FetchedDocumented DEF RefInv, Executing
<1>1. MachinePc = pc_q
  BY DEF MachinePc, Executing
<1>2. Machine!Bundle = a_rdata_q /\ Machine!Lanes = Lanes /\ Machine!Regs = Regs
  BY <1>1 DEF Machine!Bundle, Machine!Lanes, Machine!Regs, Lanes, Regs, Executing, Fetched,
              bundle_word_idx
<1>3. ASSUME NEW l \in Lanes
      PROVE  /\ a_rdata_q[l] \in Instruction /\ AsDocumented(a_rdata_q[l])
             /\ Machine!A(a_rdata_q[l]) = 0
             /\ a_rdata_q[l].kind # "op_imm" => Machine!B(a_rdata_q[l]) = 0
  BY <1>0 DEF TypeOK, ZeroInv, BundleAsDocumented, Instruction, Machine!A, Machine!B
<1>4. ASSUME NEW l \in Lanes PROVE Machine!Takes(l) <=> a_rdata_q[l].kind = "jalr"
  <2>1. a_rdata_q[l].kind = "branch" => ~Machine!Compare(a_rdata_q[l])
    BY <1>3 DEF Machine!Compare, AsDocumented
  <2> QED BY <1>2, <1>3, <2>1 DEF Machine!Takes, AsDocumented
<1>5. ASSUME NEW l \in Lanes, a_rdata_q[l].kind = "jalr" PROVE Machine!Target(l) = a_rdata_q[l].imm
  <2>1. Machine!Target(l) = Machine!A(a_rdata_q[l]) + a_rdata_q[l].imm
    BY <1>2, <1>5 DEF Machine!Target
  <2>2. a_rdata_q[l].imm \in Nat /\ Machine!A(a_rdata_q[l]) = 0
    BY <1>3 DEF Instruction
  <2> QED BY <2>1, <2>2
<1>6. /\ redirect <=> Jumps(a_rdata_q) # {}
      /\ redirect => redirect_pc = JumpTo(a_rdata_q)
  BY <1>0, DocumentedRedirect DEF Executing
<1>7. Machine!NextPc = IF redirect THEN redirect_pc ELSE (pc_q + BundleSlots) % PcMod
  <2>1. CASE ~redirect
    <3>1. ~\E l \in Machine!Lanes : Machine!Takes(l)
      BY <1>2, <1>4, <1>6, <2>1 DEF Jumps
    <3> QED BY <1>1, <2>1, <3>1 DEF Machine!NextPc, BundleSlots
  <2>2. CASE redirect
    <3> DEFINE m == CHOOSE l \in Machine!Lanes :
                      Machine!Takes(l) /\ \A k \in Machine!Lanes : Machine!Takes(k) => l <= k
               n == Lowest(Jumps(a_rdata_q))
    <3>1. n \in Jumps(a_rdata_q) /\ \A k \in Jumps(a_rdata_q) : n <= k
      BY <1>6, <2>2, LowestInSet DEF Jumps
    <3>2. /\ n \in Machine!Lanes /\ Machine!Takes(n)
          /\ \A k \in Machine!Lanes : Machine!Takes(k) => n <= k
      BY <1>2, <1>4, <3>1 DEF Jumps
    <3>3. /\ m \in Machine!Lanes /\ Machine!Takes(m)
          /\ \A k \in Machine!Lanes : Machine!Takes(k) => m <= k
      BY <3>2
    <3> HIDE DEF m, n
    <3>4. m = n
      <4>1. m <= n /\ n <= m /\ m \in Nat /\ n \in Nat
        BY <1>2, <3>2, <3>3, WAssumption DEF Lanes
      <4> QED BY <4>1
    <3>5. Machine!NextPc = Machine!Target(m) % PcMod
      BY <3>2 DEF Machine!NextPc, m
    <3>6. Machine!Target(n) = a_rdata_q[n].imm
      BY <1>5, <3>1 DEF Jumps
    <3> QED BY <1>6, <2>2, <3>4, <3>5, <3>6 DEF JumpTo, n
  <2> QED BY <2>1, <2>2
<1>8. ASSUME NEW r \in Regs PROVE Machine!NextReg(r) = 0
  <2> DEFINE writers == {l \in Machine!Lanes : Machine!Writes(l) /\ Machine!Bundle[l].rd = r}
             w == CHOOSE l \in writers : \A k \in writers : k <= l
  <2>1. Machine!NextReg(r) = IF r = 0 \/ writers = {} THEN rf[r] ELSE Machine!Result(w)
    BY DEF Machine!NextReg
  <2>2. rf[r] = 0
    BY <1>0 DEF ZeroInv
  <2>3. ASSUME r # 0, writers # {} PROVE Machine!Result(w) = 0
    <3>1. w \in writers
      BY <1>2, <2>3, HighestInSet
    <3> HIDE DEF w
    <3>2. /\ w \in Lanes /\ a_rdata_q[w].rd = r
          /\ a_rdata_q[w].kind \in {"op", "op_imm", "jal", "jalr"}
      BY <1>2, <3>1 DEF Machine!Writes
    <3>3. a_rdata_q[w].kind = "op" /\ a_rdata_q[w].aluop # "EQ"
      BY <1>3, <2>3, <3>2 DEF AsDocumented
    <3>4. Machine!A(a_rdata_q[w]) = 0 /\ Machine!B(a_rdata_q[w]) = 0
      BY <1>3, <3>2, <3>3
    <3>5. ~Machine!Compare(a_rdata_q[w])
      BY <3>3, <3>4 DEF Machine!Compare
    <3>6. (0 + 0) % ValMod = 0 /\ (0 + ValMod - 0) % ValMod = 0
      BY ValModAssumption, Z3
    <3> QED BY <1>2, <3>3, <3>4, <3>5, <3>6 DEF Machine!Result
  <2> HIDE DEF w, writers
  <2> QED BY <2>1, <2>2, <2>3
<1>9. (\E l \in Machine!Lanes : Machine!Bundle[l].kind = "ebreak") <=> halt_set
  BY <1>2 DEF halt_set, ebrk_insn_o, Executing
<1> QED BY <1>7, <1>8, <1>9

\* A clock edge is a step of the machine or leaves it where it was.
LEMMA EdgeRefines ==
  ASSUME Undisturbed, RefInv, NEW fe \in FetchEnable, NEW fill \in Fills,
         NEW gnt \in BOOLEAN, NEW rvalid \in BOOLEAN, Tick(fe, fill, gnt, rvalid)
  PROVE  Machine!Step \/ UNCHANGED <<MachinePc, rf, halted_q, imem>>
<1>0. /\ TypeOK' /\ ZeroInv' /\ RfShape' /\ imem' = imem
      /\ pc_q' = pc_d /\ halted_q' = (halted_q \/ halt_set)
      /\ all_lanes_done <=> bundle_active /\ bundle_active_q
  BY EdgeFacts
<1>1. rf = [r \in Regs |-> 0] /\ rf' = [r \in Regs |-> 0]
  <2>1. rf = [r \in Regs |-> rf[r]] /\ \A r \in Regs : rf[r] = 0
    BY DEF RefInv, RfShape, ZeroInv
  <2>2. rf' = [r \in Regs |-> rf'[r]] /\ \A r \in Regs : rf'[r] = 0
    BY <1>0 DEF RfShape, ZeroInv
  <2> QED BY <2>1, <2>2
<1>2. CASE ~bundle_active /\ (~bundle_active' \/ ~bundle_active_q')
  <2>1. ~redirect /\ ~halt_set
    BY <1>2, IdleLanes DEF redirect, redirecting, halt_set
  <2>2. MachinePc = pc_q /\ MachinePc' = pc_q'
    BY <1>2 DEF MachinePc
  <2>3. pc_q' = pc_q /\ halted_q' = halted_q
    BY <1>0, <1>2, <2>1 DEF pc_d, RefInv, TypeOK
  <2> QED BY <1>0, <1>1, <2>2, <2>3
<1>3. CASE Executing /\ Retiring' /\ pc_q' = (IF redirect THEN redirect_pc ELSE pc_q)
  <2>1. redirect' <=> redirect
    <3>1. TypeOK /\ ZeroInv /\ BundleAsDocumented(a_rdata_q) /\ bundle_active
      BY <1>3, FetchedDocumented DEF RefInv, Executing
    <3>2. redirect <=> Jumps(a_rdata_q) # {}
      BY <3>1, DocumentedRedirect
    <3>3. TypeOK' /\ ZeroInv' /\ BundleAsDocumented(a_rdata_q)' /\ bundle_active'
      BY <1>0, <1>3 DEF Retiring
    <3>4. redirect' <=> (Jumps(a_rdata_q) # {})'
      BY <3>3, DocumentedRedirect, PTL
    <3>5. a_rdata_q' = a_rdata_q
      BY <1>3, EdgeFacts DEF Executing
    <3> QED BY <3>2, <3>4, <3>5 DEF Jumps
  <2>2. MachinePc' = IF redirect THEN redirect_pc ELSE (pc_q + BundleSlots) % PcMod
    BY <1>3, <2>1 DEF MachinePc, Retiring, BundleSlots
  <2>3. halted_q' = halt_set /\ ~halted_q
    BY <1>0, <1>3 DEF Executing, halt_set
  <2>4. rf' = [r \in Machine!Regs |-> Machine!NextReg(r)]
    <3>1. \A r \in Regs : Machine!NextReg(r) = 0
      BY <1>3, MachineStepIs
    <3> QED BY <1>1, <3>1 DEF Machine!Regs, Regs
  <2>5. MachinePc' = Machine!NextPc
    BY <1>3, <2>2, MachineStepIs
  <2>6. halted_q' = \E l \in Machine!Lanes : Machine!Bundle[l].kind = "ebreak"
    BY <1>3, <2>3, MachineStepIs DEF halt_set
  <2> QED BY <1>0, <2>3, <2>4, <2>5, <2>6 DEF Machine!Step
<1>4. CASE Retiring /\ Idling'
  <2>1. halted_q' = halted_q
    BY <1>0, <1>4 DEF Retiring, RefInv, TypeOK
  <2>2. MachinePc' = pc_q'
    BY <1>4 DEF MachinePc, Idling
  <2>3. pc_q' = IF redirect THEN redirect_pc ELSE (pc_q + BundleSlots) % PcMod
    BY <1>0, <1>4 DEF pc_d, Retiring
  <2>4. MachinePc = pc_q'
    BY <1>4, <2>3 DEF MachinePc, Retiring
  <2> QED BY <1>0, <1>1, <2>1, <2>2, <2>4
<1> QED BY <1>2, <1>3, <1>4, StepRefInv DEF Idling, Fetching, Executing

LEMMA StutterView ==
  ASSUME UNCHANGED vars
  PROVE  /\ UNCHANGED <<redirect, redirect_pc, halt_set, Fetched, MachinePc>>
         /\ UNCHANGED <<dispatchVars, cacheVars, rf, memVars>>
<1>1. /\ UNCHANGED <<pc_q, halted_q, bundle_active, bundle_active_q, fetch_valid_q>>
      /\ UNCHANGED <<imem, a_rdata, a_rdata_q, fetch_req_q, rf>>
  BY DEF vars, dispatchVars, cacheVars
<1>2. \A l : decoded(l)' = decoded(l)
  BY <1>1 DEF decoded, rf_rdata
<1>3. redirecting' = redirecting
  BY <1>2 DEF redirecting, branch_redirect, alu_cmp_result
<1>4. redirect' = redirect /\ redirect_pc' = redirect_pc
  <2>1. redirect_pc' = branch_target(decoded(Lowest(redirecting))') % PcMod
    BY <1>3 DEF redirect_pc, branch_target
  <2>2. redirect' = (redirecting' # {})
    BY DEF redirect
  <2> QED BY <1>2, <1>3, <2>1, <2>2 DEF redirect, redirect_pc
<1>5. halt_set' = halt_set /\ Fetched' = Fetched
  BY <1>1 DEF halt_set, Fetched, bundle_word_idx
<1>6. MachinePc' = MachinePc
  BY <1>1, <1>4 DEF MachinePc, BundleSlots
<1> QED BY <1>4, <1>5, <1>6 DEF vars

\* For any width, cache size and program of documented bundles, left alone by the
\* loader and with fetching enabled, the engine is the machine of DESIGN.md 7.3:
\* every bundle executes exactly once, in program order, though it occupies the
\* lanes for two cycles and its fetch is requested twice.
THEOREM EngineIsMachine == ASSUME Undisturbed PROVE Spec => ExecutesBundles
<1>1. Init => RefInv
  <2> SUFFICES ASSUME Init PROVE RefInv
    OBVIOUS
  <2>1. TypeOK /\ ZeroInv /\ RfShape
    BY InitTypeOK, InitZeroInv, InitRfShape
  <2>2. LanesIdle /\ imem \in Images /\ Idling
    BY DEF Init, MemInit, LaneInit, CacheInit, LanesIdle, Idling
  <2> QED BY <2>1, <2>2 DEF RefInv
<1>2. RefInv /\ [Next]_vars => RefInv'
  <2>1. RefInv /\ Next => RefInv'
    BY StepRefInv DEF Next
  <2>2. RefInv /\ UNCHANGED vars => RefInv'
    <3> SUFFICES ASSUME RefInv, UNCHANGED vars PROVE RefInv'
      OBVIOUS
    <3>1. TypeOK' /\ ZeroInv' /\ RfShape'
      BY StutterTypeOK, StutterZeroInv, StutterRfShape DEF RefInv
    <3>2. LanesIdle' /\ imem' \in Images
      BY DEF RefInv, LanesIdle, vars, memVars, laneVars, cacheVars
    <3>3. (Idling \/ Fetching \/ Executing \/ Retiring)'
      BY StutterView DEF RefInv, dispatchVars, cacheVars, Idling, Fetching, Executing, Retiring,
                         BundleAsDocumented
    <3> QED BY <3>1, <3>2, <3>3 DEF RefInv
  <2> QED BY <2>1, <2>2
<1>3. Init => Machine!Init
  BY DEF Init, Machine!Init, MachinePc
<1>4. RefInv /\ [Next]_vars => [Machine!Step]_<<MachinePc, rf, halted_q, imem>>
  <2>1. UNCHANGED vars => UNCHANGED <<MachinePc, rf, halted_q, imem>>
    BY StutterView DEF dispatchVars, cacheVars
  <2> QED BY <2>1, EdgeRefines DEF Next
<1> QED BY <1>1, <1>2, <1>3, <1>4, PTL DEF Spec, ExecutesBundles, Machine!Spec
=============================================================================
