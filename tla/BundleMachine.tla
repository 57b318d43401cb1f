---------------------------- MODULE BundleMachine ----------------------------
(***************************************************************************)
(* What the VLIW engine promises the dynarec (DESIGN.md 3.1, 6 and 7.3),   *)
(* for bundles of OP, OP_IMM, branch, jump, fence and ebreak instructions: *)
(* each bundle executes once, all lanes reading the registers as they were *)
(* before it; the highest lane writing a register wins; the lowest lane    *)
(* that branches gives the next PC, otherwise the next bundle follows (a   *)
(* fence orders nothing more); ebreak stops the machine after its bundle.  *)
(***************************************************************************)
EXTENDS Naturals

CONSTANTS W, ValMod, NumRegs, PcMod, BankDepth

VARIABLES pc, regs, halted, image

Lanes == 0..(W - 1)
Regs == 0..(NumRegs - 1)
Bundle == image[pc % BankDepth]

A(i) == regs[i.rs1]
B(i) == IF i.kind = "op_imm" THEN i.imm % ValMod ELSE regs[i.rs2]

Compare(i) == CASE i.aluop = "EQ" -> A(i) = B(i)
                [] i.aluop = "NE" -> A(i) # B(i)
                [] OTHER -> A(i) < B(i)

\* What lane l writes: an ALU result, or the return address of a jump.
Result(l) == LET i == Bundle[l]
             IN  CASE i.kind \in {"jal", "jalr"} -> (pc + l + 1) % ValMod
                   [] i.aluop = "ADD" -> (A(i) + B(i)) % ValMod
                   [] i.aluop = "SUB" -> (A(i) + ValMod - B(i)) % ValMod
                   [] OTHER -> IF Compare(i) THEN 1 ELSE 0

Writes(l) == Bundle[l].kind \in {"op", "op_imm", "jal", "jalr"}

Takes(l) == \/ Bundle[l].kind \in {"jal", "jalr"}
            \/ Bundle[l].kind = "branch" /\ Compare(Bundle[l])

Target(l) == IF Bundle[l].kind = "jalr" THEN A(Bundle[l]) + Bundle[l].imm
                                        ELSE pc + l + Bundle[l].imm

NextPc == IF \E l \in Lanes : Takes(l)
          THEN Target(CHOOSE l \in Lanes : Takes(l) /\ \A k \in Lanes : Takes(k) => l <= k) % PcMod
          ELSE (pc + 2 * W) % PcMod

NextReg(r) == LET writers == {l \in Lanes : Writes(l) /\ Bundle[l].rd = r}
              IN  IF r = 0 \/ writers = {} THEN regs[r]
                  ELSE Result(CHOOSE l \in writers : \A k \in writers : k <= l)

Step == /\ ~halted
        /\ pc' = NextPc
        /\ regs' = [r \in Regs |-> NextReg(r)]
        /\ halted' = \E l \in Lanes : Bundle[l].kind = "ebreak"
        /\ UNCHANGED image

Init == pc = 0 /\ halted = FALSE

Spec == Init /\ [][Step]_<<pc, regs, halted, image>>
=============================================================================
