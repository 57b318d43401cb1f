------------------------------ MODULE Crossbar -------------------------------
(***************************************************************************)
(* ibex_crossbar in front of its memory banks: the arbitration loop, one   *)
(* iteration per requestor, and the routing of read data back.  A          *)
(* requestor that is not granted retries the same address.  The banks are  *)
(* prim_ram_2p ports: the word read at an edge is at the output after it.  *)
(* Contents do not change here; word(b, o) is what bank b holds at o.      *)
(***************************************************************************)
EXTENDS Naturals, FiniteSets

CONSTANTS NumReqs, NumBanks, BankWords

ASSUME CrossbarAssumption == {NumReqs, NumBanks, BankWords} \subseteq Nat \ {0}

Reqs == 0..(NumReqs - 1)
Addresses == [bank : 0..(NumBanks - 1), off : 0..(BankWords - 1)]

VARIABLES req_i,         \* which requestors ask in this cycle
          addr_i,        \* bank and offset each one asks for
          bank_rdata_i   \* registered read data of every bank, 0 before a read

xbarVars == <<req_i, addr_i, bank_rdata_i>>

word(b, o) == 1 + b * BankWords + o

\* The loop: the banks claimed by the first n requestors, each with its winner and
\* the offset the winner presents.
claims_HighestWins ==
  LET claim(r) == [bank |-> addr_i[r].bank, winner |-> r, off |-> addr_i[r].off]
  IN  {claim(r) : r \in {r \in Reqs : req_i[r] /\ \A k \in Reqs :
                                        k > r /\ req_i[k] => addr_i[k].bank # addr_i[r].bank}}
claims ==
  LET iter[n \in 0..NumReqs] ==
        IF n = 0 THEN {}
        ELSE LET r == n - 1
             IN  IF req_i[r] /\ \A c \in iter[n - 1] : c.bank # addr_i[r].bank
                 THEN iter[n - 1] \cup {[bank |-> addr_i[r].bank, winner |-> r, off |-> addr_i[r].off]}
                 ELSE iter[n - 1]
  IN  iter[NumReqs]

gnt_o(r) == \E c \in claims : c.winner = r

\* Response routing: the bank a requestor won gives it data, others give zero.
rdata_o_AnyBank(r) == IF req_i[r] THEN bank_rdata_i[(addr_i[r].bank + 1) % NumBanks] ELSE 0
rdata_o(r) == IF gnt_o(r) THEN bank_rdata_i[(CHOOSE c \in claims : c.winner = r).bank] ELSE 0

XbarInit == /\ req_i \in [Reqs -> BOOLEAN]
            /\ addr_i \in [Reqs -> Addresses]
            /\ bank_rdata_i = [b \in 0..(NumBanks - 1) |-> 0]

\* One clock edge: claimed banks read, refused requestors hold their request.
XbarClock == /\ bank_rdata_i' = [b \in 0..(NumBanks - 1) |->
                                   IF \E c \in claims : c.bank = b
                                   THEN word(b, (CHOOSE c \in claims : c.bank = b).off)
                                   ELSE bank_rdata_i[b]]
             /\ req_i' \in [Reqs -> BOOLEAN]
             /\ addr_i' \in [Reqs -> Addresses]
             /\ \A r \in Reqs : req_i[r] /\ ~gnt_o(r) => req_i'[r] /\ addr_i'[r] = addr_i[r]

XbarSpec == XbarInit /\ [][XbarClock]_xbarVars

-----------------------------------------------------------------------------
\* The loop grants exactly the lowest requestor of every requested bank
\* (ibex_crossbar 44-48), the closed form the banked LSU is modelled with: no bank
\* serves two requestors and no requested bank stays idle.
LowestPerBankWins ==
  /\ \A r \in Reqs : gnt_o(r) <=> /\ req_i[r]
                                  /\ \A k \in Reqs : k < r /\ req_i[k] => addr_i[k].bank # addr_i[r].bank
  /\ \A c, d \in claims : c.bank = d.bank => c = d
  /\ {c.bank : c \in claims} = {addr_i[r].bank : r \in {r \in Reqs : req_i[r]}}

\* A requestor that repeats a granted read and is granted again sees, in the second
\* cycle, the word it asked for, whoever else used the bank before.
DataAfterGrant ==
  [][\A r \in Reqs : gnt_o(r) /\ gnt_o(r)' /\ addr_i'[r] = addr_i[r]
       => rdata_o(r)' = word(addr_i[r].bank, addr_i[r].off)]_xbarVars
=============================================================================
