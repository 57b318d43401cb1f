---------------------------- MODULE BankedLsumem -----------------------------
(***************************************************************************)
(* ibex_banked_lsumem: the banked on-chip data memory and the single       *)
(* external port shared by all lanes.                                      *)
(*                                                                         *)
(* rq is the function of the lanes' requests in this cycle; bus is what    *)
(* the external bus drives: gnt, rvalid, rdata.  Per-bank arbitration is   *)
(* stated in the closed form that module Crossbar checks against the loop  *)
(* of the code.  The SRAM clock is the core clock, as ibex_core and the    *)
(* testbench wire it.                                                      *)
(***************************************************************************)
EXTENDS VliwParams

CONSTANTS NumDataBanks,    \* number of on-chip banks
          DataBankDepth,   \* words per bank
          OnChipBase,      \* first on-chip word address (0)
          OnChipLimit      \* first word address past the on-chip window

ASSUME DataBanksAssumption == NumDataBanks \in Nat \ {0} /\ DataBankDepth \in Nat \ {0}
ASSUME OnChipAssumption == OnChipBase \in Nat /\ OnChipLimit \in Nat

VARIABLES bank_mem,               \* the words of every bank
          rd_bank_rdata,          \* registered read port of every bank
          ext_state_q, ext_pending_lane_q, ext_pending_is_store_q

lsuVars == <<bank_mem, rd_bank_rdata, ext_state_q, ext_pending_lane_q, ext_pending_is_store_q>>

Banks == 0..(NumDataBanks - 1)
Offs == 0..(DataBankDepth - 1)

LsuInit == /\ bank_mem = [b \in Banks |-> [o \in Offs |-> 0]]
           /\ rd_bank_rdata = [b \in Banks |-> 0]
           /\ ext_state_q = "EXT_IDLE"
           /\ ext_pending_lane_q = 0
           /\ ext_pending_is_store_q = FALSE

InWindow(a) == OnChipBase <= a /\ a < OnChipLimit
onchip(rq, l) == rq[l].req /\ InWindow(rq[l].addr)
external(rq, l) == rq[l].req /\ ~InWindow(rq[l].addr)

load_req(rq, l) == onchip(rq, l) /\ ~rq[l].we
store_req(rq, l) == onchip(rq, l) /\ rq[l].we
req_bank(rq, l) == rq[l].addr % NumDataBanks
req_off(rq, l) == (rq[l].addr \div NumDataBanks) % DataBankDepth

\* The read crossbar and the write arbiter: lowest requesting lane of each bank.
oc_load_gnt(rq, l) ==
  /\ load_req(rq, l)
  /\ \A k \in Lanes : k < l /\ load_req(rq, k) => req_bank(rq, k) # req_bank(rq, l)

oc_store_gnt(rq, l) ==
  /\ store_req(rq, l)
  /\ \A k \in Lanes : k < l /\ store_req(rq, k) => req_bank(rq, k) # req_bank(rq, l)

oc_gnt(rq, l) == oc_load_gnt(rq, l) \/ oc_store_gnt(rq, l)

\* The external arbiter and the bus request it drives.
ext_selected(rq) == \E l \in Lanes : external(rq, l)
ext_sel_lane(rq) == Lowest({l \in Lanes : external(rq, l)})
ext_data_req_WhileBusy(rq) == ext_selected(rq)
ext_data_req(rq) == ext_selected(rq) /\ ext_state_q = "EXT_IDLE"
ext_data_we(rq) == rq[ext_sel_lane(rq)].we
ext_data_addr(rq) == rq[ext_sel_lane(rq)].addr
ext_data_wdata(rq) == rq[ext_sel_lane(rq)].wdata

ext_gnt_ToAll(rq, bus, l) == ext_data_req(rq) /\ bus.gnt
ext_gnt(rq, bus, l) == ext_data_req(rq) /\ bus.gnt /\ l = ext_sel_lane(rq)

ext_rvalid_ToAll(rq, bus, l) ==
  \/ ext_pending_is_store_q /\ ext_gnt(rq, bus, l)
  \/ ~ext_pending_is_store_q /\ bus.rvalid

\* A store is answered at its grant (judged by the previous transaction's kind),
\* a load by the bus response, at the pending lane.
ext_rvalid(rq, bus, l) ==
  \/ ext_pending_is_store_q /\ ext_gnt(rq, bus, l)
  \/ ~ext_pending_is_store_q /\ bus.rvalid /\ l = ext_pending_lane_q

lsu_gnt(rq, bus) == [l \in Lanes |-> oc_gnt(rq, l) \/ ext_gnt(rq, bus, l)]
lsu_rvalid(rq, bus) == [l \in Lanes |-> oc_gnt(rq, l) \/ ext_rvalid(rq, bus, l)]
lsu_rdata(rq, bus) ==
  [l \in Lanes |-> CASE onchip(rq, l) /\ oc_load_gnt(rq, l) -> rd_bank_rdata[req_bank(rq, l)]
                     [] onchip(rq, l) /\ ~oc_load_gnt(rq, l) -> 0
                     [] OTHER -> bus.rdata]

\* Next state of the external port's machine.  (Here and in the other modules a
\* faulty variant, such as ext_state_d_StoreWaits, stands before the definition it
\* varies and is used by no definition.)
ext_state_d_StoreWaits(rq, bus) ==
  CASE ext_data_req(rq) /\ bus.gnt -> "EXT_WAIT"
    [] ext_state_q = "EXT_WAIT" /\ bus.rvalid -> "EXT_IDLE"
    [] OTHER -> ext_state_q

ext_state_d(rq, bus) ==
  CASE ext_data_req(rq) /\ bus.gnt /\ ~ext_data_we(rq) -> "EXT_WAIT"
    [] ext_state_q = "EXT_WAIT" /\ bus.rvalid -> "EXT_IDLE"
    [] OTHER -> ext_state_q

\* One clock edge: bank reads and writes see the contents before the edge.
LsuTick(rq, bus) ==
  LET writer(b, o) == {l \in Lanes : oc_store_gnt(rq, l) /\ req_bank(rq, l) = b /\ req_off(rq, l) = o}
      reader(b) == {l \in Lanes : oc_load_gnt(rq, l) /\ req_bank(rq, l) = b}
      accepted == ext_data_req(rq) /\ bus.gnt
  IN  /\ bank_mem' = [b \in Banks |-> [o \in Offs |->
                        IF writer(b, o) = {} THEN bank_mem[b][o]
                                             ELSE rq[Lowest(writer(b, o))].wdata]]
      /\ rd_bank_rdata' = [b \in Banks |->
                        IF reader(b) = {} THEN rd_bank_rdata[b]
                                          ELSE bank_mem[b][req_off(rq, Lowest(reader(b)))]]
      /\ ext_state_q' = ext_state_d(rq, bus)
      /\ ext_pending_lane_q' = IF accepted THEN ext_sel_lane(rq) ELSE ext_pending_lane_q
      /\ ext_pending_is_store_q' = IF accepted THEN ext_data_we(rq) ELSE ext_pending_is_store_q

LsuTypeOK == /\ bank_mem \in [Banks -> [Offs -> Val]]
             /\ rd_bank_rdata \in [Banks -> Val]
             /\ ext_state_q \in {"EXT_IDLE", "EXT_WAIT"}
             /\ ext_pending_lane_q \in Lanes
             /\ ext_pending_is_store_q \in BOOLEAN
=============================================================================
