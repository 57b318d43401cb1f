---------------------------- MODULE HardwareBlocks ---------------------------
(***************************************************************************)
(* The blocks of the engine one by one, each under any traffic its ports   *)
(* allow: the lanes with the banked memory and the bus, the free pool of   *)
(* the address register file, the crossbar, the hot-address detector and   *)
(* the memory-event watchers.  No module of the repository connects the    *)
(* last two to the others, and the ports of the pool are tied off, so a    *)
(* behaviour is one of one block, the others being at reset.               *)
(***************************************************************************)
EXTENDS LaneMem, ArfFreePool, Crossbar, HotAddrDetect, MemEventWatch

VARIABLE block      \* the block that is clocked

blockVars == <<block, memVars, vars, xbarVars, hotVars, watchVars>>

\* What the environment presents to a block that is not clocked.
NoRequests == /\ req_i = [r \in Reqs |-> FALSE]
              /\ addr_i = [r \in Reqs |-> [bank |-> 0, off |-> 0]]
ZeroMemory == mem = [a \in WatchAddrs |-> 0]

BlocksInit == /\ block \in {"lanes", "pool", "crossbar", "detector", "watchers"}
              /\ MemInit /\ Init /\ XbarInit /\ HotInit /\ WatchInit
              /\ block # "crossbar" => NoRequests
              /\ block # "watchers" => ZeroMemory

ClockLanes == block = "lanes" /\ MemNext /\ UNCHANGED <<block, vars, xbarVars, hotVars, watchVars>>
ClockPool == block = "pool" /\ Next /\ UNCHANGED <<block, memVars, xbarVars, hotVars, watchVars>>
ClockCrossbar == block = "crossbar" /\ XbarClock /\ UNCHANGED <<block, memVars, vars, hotVars, watchVars>>
ClockDetector == block = "detector" /\ HotNext /\ UNCHANGED <<block, memVars, vars, xbarVars, watchVars>>
ClockWatchers == block = "watchers" /\ WatchNext /\ UNCHANGED <<block, memVars, vars, xbarVars, hotVars>>

BlocksNext == ClockLanes \/ ClockPool \/ ClockCrossbar \/ ClockDetector \/ ClockWatchers

BlocksSpec == BlocksInit /\ [][BlocksNext]_blockVars
=============================================================================
