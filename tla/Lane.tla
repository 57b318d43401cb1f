-------------------------------- MODULE Lane ---------------------------------
(***************************************************************************)
(* The decoder and the execution lane of every slot, W times.              *)
(*                                                                         *)
(* ibex_decoder as the engine uses it: the control signals a lane receives *)
(* for the instruction in its slot.  An instruction is a record: its kind  *)
(* (opcode and funct fields), the register fields, the I-type immediate in *)
(* slots, and the ALU operator its encoding asks for.  Two inputs of the   *)
(* decoders are left open where the engine instantiates them and read as   *)
(* zero: instr_first_cycle_i, so that jumps write rd, and                  *)
(* instr_rdata_alu_i, so that the ALU half of the decoder never sees the   *)
(* instruction and keeps its default operator.                             *)
(*                                                                         *)
(* ibex_lane: the ALU result, the one-outstanding load/store state         *)
(* machine, the commit port and branch resolution.                         *)
(*                                                                         *)
(* An operation d is what the decoders hand a lane in one cycle: valid     *)
(* (instr_valid_i = bundle_active), the ALU operator op with its register  *)
(* operands a and b, the class of the instruction, the destination, and    *)
(* pc and imm for branches.  imd_val_q is left out: only the RV32B         *)
(* extensions write it.  arf_use_i is left out of the effective address:   *)
(* the decoder raises data_req_o for no ARF instruction.                   *)
(***************************************************************************)
EXTENDS VliwParams

-----------------------------------------------------------------------------
(* ibex_decoder *)

\* OP, OP_IMM, LUI and AUIPC, with every legal function.
AluKinds == {"op", "op_imm", "lui", "auipc"}

\* FENCE.I is a jump to the decoder.
JumpKinds == {"jal", "jalr"}
MiscMemKinds == {"fence", "fence_i"}

\* "trap" stands for ecall, mret, dret and wfi, whose outputs the engine leaves open.
SystemKinds == {"trap", "ebreak", "csr"}

\* BPS-V address-register operations, with and without a destination register
\* (slotr, ldp, ldpi, splr, spalloc and ldpcap have one).
ArfKinds == {"arf_rd", "arf"}

Kinds == AluKinds \cup JumpKinds \cup MiscMemKinds \cup SystemKinds \cup ArfKinds
           \cup {"load", "store", "branch", "illegal"}

\* A load raises no register write: in the core the writeback stage does it.
rf_we_o(i) == i.kind \in AluKinds \cup JumpKinds \cup {"csr", "arf_rd"}

jump_in_dec_o(i) == i.kind \in JumpKinds \cup {"fence_i"}
branch_in_dec_o(i) == i.kind = "branch"

\* No address-register operation raises data_req_o.
data_req_o(i) == i.kind \in {"load", "store"}
data_we_o(i) == i.kind = "store"

ebrk_insn_o(i) == i.kind = "ebreak"

alu_operator_o(i) == "SLTU"

\* The reset value of a slot is no instruction.
ZeroWord == [kind |-> "illegal", rd |-> 0, rs1 |-> 0, rs2 |-> 0, imm |-> 0, aluop |-> "SLTU"]

-----------------------------------------------------------------------------
(* ibex_lane *)

VARIABLES ls_state_q, ls_addr_q, ls_wdata_q, ls_we_q

laneVars == <<ls_state_q, ls_addr_q, ls_wdata_q, ls_we_q>>

LsStates == {"LS_IDLE", "LS_WAIT_GNT", "LS_WAIT_RVALID"}

LaneInit == /\ ls_state_q = [l \in Lanes |-> "LS_IDLE"]
            /\ ls_addr_q = [l \in Lanes |-> 0]
            /\ ls_wdata_q = [l \in Lanes |-> 0]
            /\ ls_we_q = [l \in Lanes |-> FALSE]

\* The adder negates operand b for every operator modelled except ADD.
alu_adder_result(d) ==
  IF d.op = "ADD" THEN (d.a + d.b) % ValMod ELSE (d.a + ValMod - d.b) % ValMod

alu_cmp_result(d) ==
  CASE d.op = "NE" -> d.a # d.b
    [] d.op = "SLTU" -> d.a < d.b
    [] OTHER -> d.a = d.b

alu_result(d) ==
  IF d.op \in {"ADD", "SUB"} THEN alu_adder_result(d)
                             ELSE IF alu_cmp_result(d) THEN 1 ELSE 0

\* The data-memory port of lane l.
data_port(l, d) ==
  CASE ls_state_q[l] = "LS_IDLE" /\ d.valid /\ (d.is_load \/ d.is_store) ->
         [req |-> TRUE, we |-> d.is_store, addr |-> alu_adder_result(d), wdata |-> d.b]
    [] ls_state_q[l] = "LS_WAIT_GNT" ->
         [req |-> TRUE, we |-> ls_we_q[l], addr |-> ls_addr_q[l], wdata |-> ls_wdata_q[l]]
    [] OTHER -> NoRequest

\* Next state of the load/store machine: a store is over when it is granted, a
\* load waits for its response, a refused request waits for its grant.
ls_state_d(l, rq, gnt, rvalid) ==
  CASE rq.req /\ gnt /\ rq.we -> "LS_IDLE"
    [] rq.req /\ gnt /\ ~rq.we -> "LS_WAIT_RVALID"
    [] rq.req /\ ~gnt -> "LS_WAIT_GNT"
    [] ~rq.req /\ ls_state_q[l] = "LS_WAIT_RVALID" /\ rvalid -> "LS_IDLE"
    [] OTHER -> ls_state_q[l]

\* One clock edge of all lanes; rq, gnt and rvalid are functions over lanes.
LaneTick(rq, gnt, rvalid) ==
  LET issue(l) == ls_state_q[l] = "LS_IDLE" /\ rq[l].req
  IN  /\ ls_state_q' = [l \in Lanes |-> ls_state_d(l, rq[l], gnt[l], rvalid[l])]
      /\ ls_addr_q' = [l \in Lanes |-> IF issue(l) THEN rq[l].addr ELSE ls_addr_q[l]]
      /\ ls_wdata_q' = [l \in Lanes |-> IF issue(l) THEN rq[l].wdata ELSE ls_wdata_q[l]]
      /\ ls_we_q' = [l \in Lanes |-> IF issue(l) THEN rq[l].we ELSE ls_we_q[l]]

lane_busy(l) == ls_state_q[l] # "LS_IDLE"

load_complete(l, rvalid) == ls_state_q[l] = "LS_WAIT_RVALID" /\ rvalid

\* The commit port: the operation now in the slot decides whether and where the
\* data of a completing load is written.
commit_valid(l, d, rvalid) ==
  d.valid /\ d.rf_we /\ (d.is_load => load_complete(l, rvalid))

commit_wdata(d, rdata) == IF d.is_load THEN rdata ELSE alu_result(d)

branch_redirect(d) == d.valid /\ (IF d.is_branch THEN alu_cmp_result(d) ELSE d.is_jump)

\* JAL raises is_jump_i as well, so it too takes the register-relative form.
branch_target(d) == IF d.is_jump THEN d.a + d.imm ELSE d.pc + d.imm

LaneTypeOK == /\ ls_state_q \in [Lanes -> LsStates]
              /\ ls_addr_q \in [Lanes -> Val]
              /\ ls_wdata_q \in [Lanes -> Val]
              /\ ls_we_q \in [Lanes -> BOOLEAN]
=============================================================================
