---------------------------- MODULE VliwDispatch -----------------------------
(***************************************************************************)
(* ibex_vliw_dispatch: the W-lane engine.  Program counter, halt latch and *)
(* bundle-active bookkeeping of the dispatcher, composed with the bundle   *)
(* cache, the register file, the lanes, the banked LSU and the external    *)
(* bus.  One step is one rising edge of clk_i.                             *)
(*                                                                         *)
(* Every register is zero at reset and the only ALU result a lane can form *)
(* is SLTU, so the registers stay zero and every address is word 0, which  *)
(* OnChipBase decides whether to find on-chip (0, as in the code) or on    *)
(* the external port.                                                      *)
(***************************************************************************)
EXTENDS LaneMem, BundleCache

-----------------------------------------------------------------------------
(* ibex_register_file_vliw: two combinational read ports and one write port  *)
(* per lane.  Register 0 is never written and reads as zero.                 *)

CONSTANT NumRegs
ASSUME NumRegsAssumption == NumRegs \in Nat \ {0}

Regs == 0..(NumRegs - 1)

VARIABLE rf

RfInit == rf = [r \in Regs |-> 0]

rf_rdata(raddr) == IF raddr = 0 THEN 0 ELSE rf[raddr]

\* One clock edge: the write ports are served in lane order, so of several lanes
\* writing one register the highest wins.
RfTick(we, waddr, wdata) ==
  rf' = [r \in Regs |->
           LET writers == {l \in Lanes : we[l] /\ waddr[l] = r /\ r # 0}
           IN  IF writers = {} THEN rf[r]
               ELSE wdata[CHOOSE l \in writers : \A k \in writers : k <= l]]

-----------------------------------------------------------------------------
(* ibex_vliw_dispatch *)

CONSTANTS PcMod,        \* program counters wrap here (2^30 slots in the code)
          Images,       \* bundle-cache images the loader may have written
          Fills,        \* fill-port traffic while the engine runs
          FetchEnable   \* values of fetch_enable_i while the engine runs

ASSUME PcAssumption == PcMod \in Nat \ {0}
Instruction == [kind : Kinds, rd : Regs, rs1 : Regs, rs2 : Regs, imm : Nat,
                aluop : {"ADD", "SUB", "SLTU", "EQ", "NE"}]
CacheWords == [0..(BankDepth - 1) -> [Lanes -> Instruction]]

ASSUME EnvAssumption ==
  /\ FetchEnable \subseteq BOOLEAN
  /\ Images \subseteq CacheWords
  /\ NoFill \in Fills
  /\ \A f \in Fills : f.req => /\ f.addr \in 0..(BankDepth - 1)
                               /\ f.bank \in Lanes
                               /\ f.wdata \in Instruction

VARIABLES pc_q, halted_q, bundle_active, bundle_active_q, fetch_valid_q

dispatchVars == <<pc_q, halted_q, bundle_active, bundle_active_q, fetch_valid_q>>
vars == <<dispatchVars, cacheVars, rf, memVars>>

\* The slots a bundle advances the PC by: BundleBytes = W * 8, in 4-byte slots.
BundleSlots == 2 * W

Init == /\ pc_q = 0
        /\ halted_q = FALSE
        /\ bundle_active = FALSE
        /\ bundle_active_q = FALSE
        /\ fetch_valid_q = FALSE
        /\ RfInit
        /\ MemInit
        /\ \E image \in Images : CacheInit(image, ZeroWord)

\* The operation lane l sees: the decoder's signals for the slot latch, with the
\* register reads.  Operand b is the rs2 field's register for every instruction,
\* and imm is the I-type immediate for every jump and branch.
decoded(l) ==
  LET i == a_rdata_q[l]
  IN  [valid |-> bundle_active,
       op |-> alu_operator_o(i),
       a |-> rf_rdata(i.rs1), b |-> rf_rdata(i.rs2),
       rf_we |-> rf_we_o(i), waddr |-> i.rd,
       is_load |-> data_req_o(i) /\ ~data_we_o(i), is_store |-> data_req_o(i) /\ data_we_o(i),
       is_branch |-> branch_in_dec_o(i), is_jump |-> jump_in_dec_o(i),
       pc |-> pc_q + l, imm |-> i.imm]

ops == [l \in Lanes |-> decoded(l)]

all_lanes_done == bundle_active /\ bundle_active_q /\ \A l \in Lanes : ~lane_busy(l)

redirecting == {l \in Lanes : branch_redirect(decoded(l))}
redirect == redirecting # {}
redirect_pc == branch_target(decoded(Lowest(redirecting))) % PcMod

halt_set_SecondCycle ==
  bundle_active /\ bundle_active_q /\ \E l \in Lanes : ebrk_insn_o(a_rdata_q[l])
halt_set == bundle_active /\ \E l \in Lanes : ebrk_insn_o(a_rdata_q[l])

fetch_req_Halted(fetch_enable) ==
  fetch_enable /\ ~fetch_valid_q /\ (~bundle_active \/ all_lanes_done \/ redirect)
fetch_req_Repeated(fetch_enable) ==
  fetch_enable /\ ~halted_q /\ (~bundle_active \/ all_lanes_done \/ redirect)

fetch_req(fetch_enable) ==
  /\ fetch_enable /\ ~halted_q /\ ~fetch_valid_q
  /\ ~bundle_active \/ all_lanes_done \/ redirect

\* The program counter after the edge: a redirect has priority over the advance.
pc_d == IF redirect THEN redirect_pc
        ELSE IF bundle_active /\ all_lanes_done THEN (pc_q + BundleSlots) % PcMod
        ELSE pc_q

bundle_active_d_HaltHolds ==
  fetch_valid \/ (bundle_active /\ (halted_q \/ ~all_lanes_done))
bundle_active_d == fetch_valid \/ (bundle_active /\ ~all_lanes_done)

\* The register-file writes of the lanes' commit ports.
Commit(gnt, rvalid) ==
  LET rq == Ports(ops)
      bus == BusDrives(gnt, rvalid)
      rv == lsu_rvalid(rq, bus)
      rd == lsu_rdata(rq, bus)
  IN  RfTick([l \in Lanes |-> commit_valid(l, decoded(l), rv[l])],
             [l \in Lanes |-> decoded(l).waddr],
             [l \in Lanes |-> commit_wdata(decoded(l), rd[l])])

\* One rising edge of clk_i.
Tick(fetch_enable, fill, gnt, rvalid) ==
  /\ MemTick(ops, gnt, rvalid)
  /\ pc_q' = pc_d
  /\ halted_q' = (halted_q \/ halt_set)
  /\ fetch_valid_q' = fetch_valid
  /\ bundle_active_q' = bundle_active
  /\ bundle_active' = bundle_active_d
  /\ CacheTick(fetch_req(fetch_enable), pc_q, redirect, fill)
  /\ Commit(gnt, rvalid)

Next == \E fe \in FetchEnable, fill \in Fills, gnt, rvalid \in BOOLEAN :
          Tick(fe, fill, gnt, rvalid)

\* The clock runs while nothing is asked of the bus, and the bus grants a request that
\* is held and answers a load it has granted, as tb_vliw.cpp does (168-186).
TickWith(gnt, rvalid) == \E fe \in FetchEnable, fill \in Fills : Tick(fe, fill, gnt, rvalid)
Quiet == bus_q = <<>> /\ ~ext_data_req(Ports(ops)) /\ TickWith(FALSE, FALSE)
Granted == ext_data_req(Ports(ops)) /\ \E rvalid \in BOOLEAN : TickWith(TRUE, rvalid)
Answered == bus_q # <<>> /\ \E gnt \in BOOLEAN : TickWith(gnt, TRUE)
Fairness == WF_vars(Quiet) /\ WF_vars(Granted) /\ WF_vars(Answered)

Spec == Init /\ [][Next]_vars
FairSpec == Spec /\ Fairness

-----------------------------------------------------------------------------
\* The type invariant of the engine.
TypeOK == /\ pc_q \in 0..(PcMod - 1)
          /\ halted_q \in BOOLEAN /\ bundle_active \in BOOLEAN /\ bundle_active_q \in BOOLEAN
          /\ fetch_valid_q \in BOOLEAN /\ fetch_req_q \in BOOLEAN
          /\ rf \in [Regs -> Val]
          /\ imem \in CacheWords
          /\ a_rdata \in [Lanes -> Instruction] /\ a_rdata_q \in [Lanes -> Instruction]
          /\ MemTypeOK

\* The cycle that decodes an ebreak for the first time is one in which fetch_valid_q
\* holds fetch_req down: the halt latch is never too late for the next fetch.
HaltSeenInFirstCycle == halt_set /\ ~halted_q => fetch_valid_q

\* Once halted the engine fetches nothing more (ibex_vliw_dispatch 93-96): not
\* even a fetch issued in the cycle in which the ebreak was decoded survives.
NoFetchAfterHalt == halted_q => ~fetch_req_q

\* After the halt a drained engine stays drained: no bundle becomes active, no
\* register is written any more, and the PC stands still.
HaltIsFinal == [][halted_q /\ ~bundle_active
                    => ~bundle_active' /\ rf' = rf /\ pc_q' = pc_q]_vars

\* Once halted, the bundle in flight drains, however long its memory access and the
\* ones made again as a bundle retires keep a lane busy, and none follows it
\* (ibex_vliw_dispatch 93-96).
HaltDrains == halted_q ~> [](~bundle_active /\ ~fetch_req_q)

\* A bundle completes: "Bundle completion = slowest operation in it completes"
\* (DESIGN.md 7.3).  An operation that completes late keeps its lane busy, and the
\* bundle with it; no lane stays busy for ever.
BundleCompletes == bundle_active ~> ~bundle_active

\* The engine as the machine of DESIGN.md 7.3: the registers are those of the
\* machine, and its PC is the engine's except in the second cycle of a bundle
\* that does not branch, when the machine has already moved on.
MachinePc == IF bundle_active /\ bundle_active_q /\ ~redirect
             THEN (pc_q + BundleSlots) % PcMod ELSE pc_q
Machine == INSTANCE BundleMachine
             WITH pc <- MachinePc, regs <- rf, halted <- halted_q, image <- imem
ExecutesBundles == Machine!Spec

\* The programs the engine executes as documented: register operations, branches,
\* register-relative jumps without a link, what writes register 0, and at most one
\* store in a bundle.  EQ is left out: the lanes compute SLTU in its place.
AsDocumented(i) == \/ i.kind \in {"op", "branch"} /\ i.aluop # "EQ"
                   \/ i.kind \in {"op", "op_imm", "jalr"} /\ i.rd = 0
                   \/ i.kind \in {"fence", "ebreak", "store"}
BundleAsDocumented(b) ==
  /\ \A l \in Lanes : AsDocumented(b[l])
  /\ \A k, l \in Lanes : data_we_o(b[k]) /\ data_we_o(b[l]) => k = l
ImageAsDocumented(image) == \A i \in 0..(BankDepth - 1) : BundleAsDocumented(image[i])
=============================================================================
