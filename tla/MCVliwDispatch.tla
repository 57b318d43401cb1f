--------------------------- MODULE MCVliwDispatch ----------------------------
(***************************************************************************)
(* Two lanes, two registers, a bundle cache of eight words.  A program     *)
(* is two bundles, at PC 0 and PC 4 (consecutive), and halts everywhere    *)
(* else.  The test of tests/alu.asm takes four lanes instead.              *)
(***************************************************************************)
EXTENDS VliwDispatch

Instr(kind, rd, imm, aluop) ==
  [kind |-> kind, rd |-> rd, rs1 |-> 1, rs2 |-> 1, imm |-> imm, aluop |-> aluop]

Plain(kind) == Instr(kind, 1, 0, "SLTU")
Nop == Plain("fence")
Ebreak == Plain("ebreak")
Halt == <<Ebreak, Nop>>

\* The image with bundle p at PC 0, bundle q at the next PC, halts elsewhere.
Program(p, q) ==
  [i \in 0..(BankDepth - 1) |-> LET b == IF i = 0 THEN p ELSE IF i = 4 THEN q ELSE Halt
                  IN  [l \in Lanes |-> IF l < Len(b) THEN b[l + 1] ELSE Nop]]
NoFills == {NoFill}

\* Bundles that the engine executes as documented: register-register operations,
\* branches whose condition is false, register-relative jumps without a link, and
\* at most one store.
AluOps == {Instr("op", 1, 0, o) : o \in {"ADD", "SUB", "NE"}}
NotTaken == {Instr("branch", 0, 4, "NE")}
Jumps == {Instr("jalr", 0, t, "SLTU") : t \in {0, 4, 6}}
Executed == {Nop, Ebreak, Plain("store")} \cup AluOps \cup NotTaken \cup Jumps
OneStore == {b \in Executed \X Executed : ~(data_we_o(b[1]) /\ data_we_o(b[2]))}
RefImages == {Program(p, q) : p \in OneStore,
                              q \in {Halt, <<Nop, Plain("store")>>} \cup (Jumps \X {Nop, Ebreak})}

\* They are programs of the theorem EngineIsMachine.
ASSUME RefImagesAssumption == \A image \in RefImages : ImageAsDocumented(image)

-----------------------------------------------------------------------------
\* One instruction of each effect a lane can have (no branch is taken) in every lane,
\* with the memory accesses of a program in one lane.
EachEffect == {Nop, Ebreak} \cup {Plain(k) : k \in {"op", "jalr", "load", "store"}}
AccessIn(l, b) == \A k \in Lanes : data_req_o(b[k + 1]) => k = l
AccessImages ==
  {Program(p, q) : <<p, q>> \in {pq \in (EachEffect \X EachEffect)
                                          \X {<<Plain("store"), Plain("jalr")>>, <<Nop, Plain("load")>>} :
                                   \E l \in Lanes : AccessIn(l, pq[1]) /\ AccessIn(l, pq[2])}}

\* The loader overwrites slot 0 of the first bundle with a halt while the engine runs:
\* a program that jumps back to it comes to an end.
HaltFills == {NoFill, [req |-> TRUE, addr |-> 0, bank |-> 0, wdata |-> Ebreak]}

\* A single load, from the on-chip memory.
LoadImages == {Program(<<Plain("load"), Nop>>, Halt)}

\* tests/alu.asm as far as ADDI, ADD and SUB: four bundles' worth of slots apart, the
\* bundles are at PC 0, 8 and 16.
Alu(kind, rd, rs1, rs2, imm, op) ==
  [kind |-> kind, rd |-> rd, rs1 |-> rs1, rs2 |-> rs2, imm |-> imm, aluop |-> op]
AluTest ==
  << <<Alu("op_imm", 5, 0, 0, 16, "ADD"), Alu("op_imm", 6, 0, 0, 32, "ADD"),
       Alu("op_imm", 7, 0, 0, 48, "ADD"), Alu("op_imm", 8, 0, 0, 64, "ADD")>>,
     <<Alu("op", 9, 5, 6, 0, "ADD"), Alu("op", 10, 7, 8, 0, "ADD"),
       Alu("op", 11, 8, 5, 0, "SUB"), Nop>>,
     <<Ebreak, Nop, Nop, Nop>> >>
AluImages ==
  {[i \in 0..(BankDepth - 1) |->
     [l \in Lanes |-> IF i % BundleSlots = 0 /\ i \div BundleSlots < 3 /\ l < 4
                      THEN AluTest[i \div BundleSlots + 1][l + 1] ELSE Ebreak]]}

\* What the testbench checks as soon as halted_o is high (tb_vliw.cpp 204-246).
AluTestPasses ==
  halted_q => /\ rf[5] = 16 /\ rf[6] = 32 /\ rf[7] = 48 /\ rf[8] = 64
              /\ rf[9] = 48 /\ rf[10] = 112 /\ rf[11] = 48
=============================================================================
