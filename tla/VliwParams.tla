----------------------------- MODULE VliwParams ------------------------------
(***************************************************************************)
(* Parameters shared by the modules of the W-lane VLIW engine, and the     *)
(* arithmetic they share.                                                  *)
(*                                                                         *)
(* A machine word (register, address, datum) is a number below ValMod.     *)
(* Data addresses count 32-bit words and program counters count 32-bit     *)
(* instruction slots: the two byte-offset bits of both are always zero     *)
(* here, as they are dropped wherever the code indexes a memory.           *)
(***************************************************************************)
EXTENDS Naturals, FiniteSets

CONSTANTS W,          \* SuperscalarWidth: number of lanes
          ValMod      \* 2^32 in the code: words wrap here

ASSUME WAssumption == W \in Nat \ {0}
ASSUME ValModAssumption == ValMod \in Nat \ {0, 1}

Lanes == 0..(W - 1)
Val == 0..(ValMod - 1)

\* The lowest element of a set of lanes, lane 0 for the empty set: the result of
\* the upward priority loops with a "not yet selected" guard.
Lowest(S) == IF S = {} THEN 0 ELSE CHOOSE l \in S : \A k \in S : l <= k

\* What a lane puts on its data-memory port.
Request == [req : BOOLEAN, we : BOOLEAN, addr : Val, wdata : Val]
NoRequest == [req |-> FALSE, we |-> FALSE, addr |-> 0, wdata |-> 0]
=============================================================================
