# A TLA+ verification of the BPS-V core and of its verification flow

The repository is an Ibex RISC-V core extended to a small VLIW machine for a dynamic
recompiler ("BPS-V"): `DESIGN.md` describes the extension, `rtl/` holds the SystemVerilog. Around it
stand the programs that decide whether the core is right: the conductor of the formal proofs
(`dv/formal/conductor.py`), the UVM regression flow (`dv/uvm/core_ibex/`) and the tools under `util/`.
This directory models both.

- **The hardware the repository adds to Ibex**: the W-lane engine (dispatcher, bundle cache, register
  file, lanes, banked data memory), the address-register-file (ARF) free pool, the crossbar, the
  hot-address detector and the memory-event watcher.
- **The Python programs around it**: the process runner and the proof modes of the conductor, a
  regression as make runs it, and the sequential scripts both rely on.

Every definition is translated from the source; `PROJECT.json` maps each one to its lines.

In a hardware module a step is one rising edge of the core clock. Combinational signals are operators
with the names of the source (`fetch_req`, `redirect`, `ext_gnt`), registers are variables, and the
`always_ff` blocks of a component are one action: everything it assigns at an edge changes
together, and all right-hand sides see the values before the edge, as non-blocking
assignments do.

In a program module a step is what nothing else can interrupt or observe half-done: a callback of the
event loop up to where another process may act, a script between two accesses to a file that others
read. Opening a file for writing and writing it are two steps, with the file empty between them. A
sequential script without shared state is an operator, checked against what it is asked for.

## 1. Inventory

### The engine

| Component | Source | State | Operations | Talks to |
|---|---|---|---|---|
| Dispatcher | `ibex_vliw_dispatch.sv` | `pc_q`, `halted_q`, `bundle_active`, `bundle_active_q`, `fetch_valid_q` | fetch request, activate and retire a bundle, redirect, halt on ebreak | everything below |
| Bundle cache | `ibex_bundle_cache.sv` | bank contents, RAM output registers, slot latch, `fetch_req_q` | fetch, latch, fill by the loader | dispatcher, loader |
| Decoders | `ibex_decoder.sv` | none | instruction word to control signals | slot latch, lanes |
| Register file | `ibex_register_file_vliw.sv` | `rf` | 2W reads, W writes, highest lane wins | lanes |
| Lanes | `ibex_lane.sv`, `ibex_alu.sv` | `ls_state_q`, latched address, data and kind | ALU, issue a load or store, wait for grant, wait for response, commit, branch | data memory, register file, dispatcher |
| Data memory | `ibex_banked_lsumem.sv` | banks, read registers, `ext_state_q`, `ext_pending_lane_q`, `ext_pending_is_store_q` | per-bank grant, external arbitration, response routing | lanes, external bus |
| External bus | outside `rtl/` | outstanding requests, memory | grant, respond | data memory |

A fetch takes two cycles (RAM output register, then slot latch). The bundle is active from the
third cycle on, for at least two cycles, and until every lane is idle. Nothing in the engine is
a thread: the concurrency is that of the lanes, the loader's fill port, the `fetch_enable_i` input
and the bus, which all act in the same cycles.

Hard behaviours: grants and responses that come at any time; a response routed by registers
that describe the previous transaction; a halt that is latched a cycle late; a bundle that is
active for two cycles in both of which its lanes read, write and branch; fixed-priority
arbitration.

Correct means: one bundle is executed once, in program order, with all lanes reading the state
before it (`ExecutesBundles`); bundles complete (`BundleCompletes`); a halt stops fetching and
drains (`NoFetchAfterHalt`, `HaltIsFinal`, `HaltDrains`); the test programs end as they expect (`AluTestPasses`); an external load's answer goes to the lane
that asked (`PendingLaneWaits`, `NoOrphanWait`, `OwnResponse`).

### The other BPS-V blocks

| Component | Source | State | Operations | Correct means |
|---|---|---|---|---|
| ARF free pool | `ibex_addr_regfile.sv` 138-180 | ring of slot numbers, head, tail, count | `spalloc`, `spfree`, both in one cycle | no slot is free twice or free and owned; FIFO |
| ARF memory banks | `ibex_addr_regfile.sv` | RAM banks | datapath and management port | (not modelled: `ibex_core` ties the ports off) |
| Crossbar | `ibex_crossbar.sv` | none; registered banks behind it | arbitrate per bank, route data | lowest requestor of each bank, data of the bank it won |
| Hot-address detector | `ibex_hot_addr_detect.sv` | counter table, recommendation ring | observe a load, promote, pop | only addresses loaded often enough are recommended |
| Memory-event watcher | `ibex_mem_event_watch.sv` | one watch per lane | arm (`wj*`), snoop, wake | no lost wake-up, no replaced watch |
| Predicate file | `ibex_predicate.sv` | predicate bits | write | (not modelled: instantiated nowhere) |

The detector and the watcher are instantiated by no other module of the repository; their
environment is modelled from their port comments.

### The conductor of the formal proofs (`dv/formal/`)

| Component | Source | State | Operations | Correct means |
|---|---|---|---|---|
| Process runner | `conductor.py` 95-288 | `pending`, `running`, per process `kill_`, `max_memory`, `expected_memory`, its future; the operating system process | `shell`, `cancel`, `poll` (preempt for memory, start, reap), timeout | none lost or left behind (`NoneLost`, `NoOrphan`), everyone answered or dropped (`EachSettled`), oldest first (`OldestFirst`) |
| Proof modes | `conductor.py` 290-790 | strategy files; the locals of a run | prove, explore, bmc, info; load and store strategies | exit 0 of a complete prove run is a proof (`ProveIsSound`); stored strategies were proved (`StrategiesEarned`) and stay (`StoreKeepsProofs`); a complete run means proved (`CompleteMeansProved`) |
| aig-manip | `aig-manip/src/main.rs` (Rust) | none | `select`: what an engine is given for a step (also `simulate`, `coi`, `why` for a person) | the chosen properties, no circular assumption (`ProofInputsSound`) |
| Property selection | `smt2manip.py`, `split_by_prefixes` | none | the same selection for a cross-check by hand; build the proof tree | the same, and no property dropped (`ProofInputsSound`) |

One event loop runs everything: coroutines ask the runner for processes and await futures; the runner polls
four times a second. Hard: what a process does between two polls (exit, grow, run out of time) meets what the
coroutines do (cancel) and what the runner decides (preempt, restart); files outlive the design they
were written for and may be cut off by a crash.

### The regression flow (`dv/uvm/core_ibex/`)

| Component | Source | State | Operations | Correct means |
|---|---|---|---|---|
| Make and its scripts | `scripts/*.py`, `*.mk` | `metadata.pickle` and its lock; per test a pickle, `trr.yaml` and a log; stamps | create, build, generate, compile, simulate, check, collect, clean | no races on a test (`NoTestRace`), no lost update and readable files (`MetadataKept`), honest reports (`PassWasEarned`, `FirstReportHonest`, `GreenMeansAllPassed`, `ReportHonest`) |
| Log checker | `ibex_log_to_trace_csv.py` | none | scan a log, scan a trace | verdict as the log deserves (`LogVerdictDeserved`) |
| Test selection | `metadata.py`, `ibex_cmd.py` | none | arguments, testlists, filter, seeds | exactly the tests asked for (`SelectionRight`, `AllMeansAll`) |
| Directed list | `gen_testlist.py`, `directed_test_schema.py` | one file | write, read, join | a list reads back (`GeneratedListReads`) |
| Command templates | `riscvdv_interface.py`, `scripts_lib.py` | none | three substitutions | the command the template means (`CommandMeant`) |
| Coverage summary | `report_lib/util.py` | none | parse, average | values under their columns (`CoverageByColumn`) |

The scripts are processes that make starts in parallel; they share files only. Hard: writers behind a file lock
with a five-second alarm, readers without a lock, results that survive from one make to the next, modification
times that a failed make leaves behind, a crash between the opening and the writing of a file.

### Tools (`util/`)

`ibex_config.py` (a configuration to simulator options; with the ISA strings of `ibex_cmd.py`:
`ConfigConsistent`), `check_tool_requirements.py` (versions; `ToolsJudged`), `sv2v_in_place.py` (a tree converted in
place; `AllOrNothing`). All three are sequential; what is hard in them are boundary cases and partial failure.

### The inherited Ibex core

Load/store unit, prefetch buffer and fetch FIFO, instruction cache, fetch, decode and writeback
stages, controller, execute block with multiplier and divider, CSRs and counters, PMP, lockstep.
`ibex_core` still contains them next to the engine. They are listed in `PROJECT.json` as not
modelled and are next in the plan (section 7).

## 2. Modules

| Module | Models | Composes |
|---|---|---|
| `VliwParams` | number of lanes, word size, the priority choice `Lowest` | |
| `Lane` | `ibex_decoder` as far as the engine uses it, and `ibex_lane`, W times | `VliwParams` |
| `BankedLsumem` | `ibex_banked_lsumem` | `VliwParams` |
| `LaneMem` | lanes, data memory and the external bus (the memory behind the `data_*` port) wired together, under any instruction supply | `Lane`, `BankedLsumem` |
| `BundleCache` | `ibex_bundle_cache` | `VliwParams` |
| `VliwDispatch` | the engine, with its register file | `LaneMem`, `BundleCache` |
| `BundleMachine` | abstract: one bundle per step, from `DESIGN.md` | |
| `ArfFreePool` | the free-slot ring | |
| `FreeSlotQueue` | abstract: a FIFO queue of free slots | |
| `Crossbar`, `HotAddrDetect`, `MemEventWatch` | the blocks of these names | |
| `HardwareBlocks` | the hardware blocks one at a time, each under any traffic its ports allow | `LaneMem`, `ArfFreePool`, `Crossbar`, `HotAddrDetect`, `MemEventWatch` |
| `MC...` | values of the constants for TLC (modules whose constants are numbers and sets in a `.cfg` need none) | |
| `ProofRunner` | the conductor's process runner, with the operating system's processes | |
| `ProcessLine` | abstract: one line of processes, served oldest first | |
| `ProofModes` | the conductor's modes and the strategy files | |
| `UvmLog` | log and trace checker | |
| `RegressionFlow` | make, the scripts and their files | `UvmLog` |
| `IbexConfig` | configuration tool; command templates | `PyResult` |
| `TestSelection` | test selection; directed test list | `IbexConfig` |
| `StepSelect` | aig-manip select, `smt2manip.py`, the proof tree | `PyResult` |
| `ToolRequirements`, `Sv2vInPlace`, `CovSummary` | one sequential script each | `PyResult` |
| `DvAlgorithms` | one input at a time to all sequential scripts, and what they are asked for | all of the above |
| `PyResult` | external: a Python value returned, or an exception; a comprehension with a condition | |
| `Induction` | lemmas: induction over numbers stated about a set, and the existence of a recursive function | |
| `BpsBlocks_proof` | theorems about `ArfFreePool`, `MemEventWatch`, `Crossbar`, `HotAddrDetect` | `Induction` |
| `VliwDispatch_proof` | theorems about `LaneMem` and the engine | |
| `UvmLog_proof` | lemmas: what the two loops of the log checker compute | `Induction` |
| `RegressionFlow_proof`, `DvAlgorithms_proof` | theorems about the regression and the sequential scripts | `UvmLog_proof` |
| `ProofRunner_proof`, `ProofModes_proof` | theorems about the conductor | |

How state and actions correspond to the code, where it is not one to one:

- **Words and addresses.** Register values and data addresses are numbers below `ValMod` (2^32 in
  the code); addresses count words and PCs count 4-byte slots, as the code drops the two low bits
  wherever it indexes a memory. `PcMod` and `BankDepth` wrap the PC and the cache index.
- **Instructions** are records: a kind, the register fields, the immediate in slots, and the ALU
  operator the encoding asks for. `Lane` says what `ibex_decoder` makes of them *as the engine
  instantiates it*. The inputs `instr_rdata_alu_i` and `instr_first_cycle_i` are left open there
  (`ibex_vliw_dispatch.sv` 186-251) and the simulator reads them as zero. So the ALU operator is
  always the default, SLTU, and a jump writes its destination. A load never raises `rf_we`
  (`ibex_decoder.sv` 357-379). The abstract machine uses the operator the instruction asks for.
- **`LaneMem`** hands every lane an arbitrary operation in every cycle; the engine hands it those of
  one bundle. What is proved of `LaneMem` is proved for the larger set of behaviours.
- **The bus** grants in any cycle a request is made and answers any number of cycles after the grant,
  in order. `StoreRvalid` says whether stores are answered: the testbench (`dv/vliw/tb_vliw.cpp`)
  answers loads only, the Ibex protocol answers both.
- **Arbitration.** `BankedLsumem` states the crossbar's and the write arbiter's grants in closed form;
  `Crossbar` models the loop iteration by iteration and checks it against that form.
- **Processes.** `ProofRunner` splits `poll()` at every process it preempts, starts or reaps, so that processes grow, exit and
  run out of time between any two of these; coroutines act only between polls, as the event loop lets them.
  Memory is counted in whole units.
- **Engines.** `ProofModes` does not model what an engine does. `Kept` is what aig-manip `select` leaves of an entry: the
  properties the present design has in the entry's step; that the others are missing is no error, also when nothing is left. On these the
  engine may answer UNSAT if all of them are inductive, SAT if not, and may always give up or be killed. `Edit` changes the design between
  runs: a property may become false, vanish or move to another step. `race()` is modelled as written: an `explore` without `--hard` that has
  anything to do ends in its exception.
- **Make.** `fresh[j]` says that the target of job `j` is newer than its prerequisites, `programs` are the generated programs there,
  `stamps` the last targets (coverage, report) that are newer than everything but the tests' results; `cached` are the targets this make
  found up to date and has remade no prerequisite of. A job is a script and its test. The sub-makes are one walk over one graph of rules. A
  make that finds `metadata.pickle` torn does not fail for it: creation leaves the file alone (`metadata.py` 355-364), the lists of tests
  come back empty (`get_meta.mk` 11-13), and what is left of the goal are the rules without a test (`EndJobs`).
- **Simulation.** A run of the simulator may leave a new log, or none and the one of an earlier make (`Kept`): its return code is not looked at
  and nothing removes an old log (`run_rtl.py` 105-110).
  `Writing` scripts load, change and store the metadata; each adds its own fields, so the metadata is the set
  of jobs whose fields it holds.
- **Logs.** A log line is the set of the markers the checker looks for; a trace is a sequence of line kinds.
- **Values.** A yaml value is a pair of its Python type and a number, so that `isinstance` and `==` can be told apart; an option
  is which parameter it sets to which value, not its spelling. A command template is a sequence of words and
  parameters.
- **History variables.** `owned` and `lost` (free pool), `loads` (detector) and `metAtArm` (watcher)
  record what the environment knows, `seen`, `saved` and `loaded` (proof modes) and `earned` and `exported` (regression) what has happened
  so far; no guard of the code's part reads them. The dynarec frees only
  slots it owns, so `Spfree` takes its argument from `owned`.
- **Faulty variants.** Definitions such as `CountNext_PushWins` stand before the definition they vary and are
  used by nothing; each property of a passing run fails when the variant named in `PROJECT.json`
  takes the definition's place.

## 3. Runs

Passing runs:

| Run | Shows | Bounds |
|---|---|---|
| `blocks`: free pool | head, tail and count agree; no duplicate; every slot is in one place (`PoolSafe`); implements `FreeSlotQueue` (`FifoPool`) | 4 slots: the ring wraps, empties, fills, and sees both requests at counts 0, 1, 2 and 4 |
| `blocks`: lanes and memory | port, bus and lanes agree about whose answer is due (`PendingLaneWaits`, `NoOrphanWait`, `OwnResponse`) | 2 lanes, 2 on-chip and 2 external words, bus that may hold 2 requests |
| `blocks`: crossbar | the loop is the closed form (`LowestPerBankWins`); data of a repeated read (`DataAfterGrant`) | 3 requestors on 2 banks of 2 words: three-way conflicts and disjoint requests |
| `blocks`: detector | one entry, one address (`HitIsExact`); only hot addresses are recommended (`OnlyHotRecommended`) | 2 entries, 3 slices, threshold 2, ring of 2, 4 addresses that collide in index and in tag |
| `blocks`: watchers | no wake-up is lost after arming (`LostOnlyAtArm`) | 1 lane (lanes share only the bus they snoop), 2 addresses, 3 words that tell the conditions apart |
| `engine` | two-cycle pipeline implements one bundle per step | 2 lanes, 792 programs of two bundles then halts, `fetch_enable_i` high |
| `engine_ext` | bundles that access memory complete (`BundleCompletes`); the halt latch stops the fetch in flight (`NoFetchAfterHalt`), and the halted engine drains (`HaltDrains`) and stays as it is (`HaltIsFinal`) | 2 lanes, an instruction of each effect in each lane with the accesses of a program in one lane, loads and stores on a bus that grants and answers when it likes, the loader overwriting a slot while the engine runs, `fetch_enable_i` free |
| `proof_runner` | no process lost, orphaned, starved or kept; oldest first | 3 processes for 2 places, any two of which outgrow the memory together; one has a timeout; `--no-kill` on and off |
| `proof_modes` | proofs are real, earned and kept | 5 properties in 2 steps, 2 designs (in the second one property is false, one is gone and one has moved to another step, where it is false), 13 command lines, a crash or an interrupt anywhere |
| `regression` | no races, no lost updates, honest reports | one generated and one directed test, 3 makes and 1 crash between cleans, edits of the testbench; logs that pass, fail, fail without an error line, are cut off or missing |
| `dv_algorithms` | each script does what it is asked for (`ConfigConsistent`, `ToolsJudged`, `SelectionRight` and `ProofInputsSound` each join the questions about one part) | enumerated inputs: values of right and wrong type in every kind of field, VCS releases across months, service packs and patches, 1 to 2 words in `TEST`, templates of up to 3 parameters, files in any order, tables with cells missing, without a number or too many, ... (55 409 states) |

Five runs end in a violation, each a disagreement between the code and a sentence of the repository (quoted under `findings`):

| Run | Property | What happens |
|---|---|---|
| `engine_load` | `BundleCompletes` | the `rvalid` of an on-chip load comes in the cycle of its grant, one before the lane looks for it: the bundle never completes |
| `engine_alu` | `AluTestPasses` | the program of `tests/alu.asm` halts with every register at 0: the operand is always a register and the operator SLTU |
| `proof_modes_moved` | `CompleteMeansProved` | a property was moved to another step; the old entry names it, aig-manip selects nothing for that entry, and a complete prove run exits with 0 |
| `regression_stale_pass` | `ReportHonest` | a test that passed in an earlier make and whose log now has errors keeps `passed = True`: it is collected as PASS and make succeeds |
| `select_all` | `AllMeansAll` | `TEST=all` creates no directed test |

What does hold beside them: `FirstReportHonest` (first make after a clean) and `PassWasEarned` (some simulation was good);
`ProveIsSound`, which promises a proof only for what is stored under its own step; `SelectionRight`, for a `TEST` that does not ask for
the directed tests by `all` alone and tests with at most one parameter.

`blocks` is one run for five blocks that share no signal in the repository: the first state chooses the block that is clocked, and the
others stay at reset. Its states are the sum of the blocks' states, and its properties are each about one block.

`engine` covers the bundles on which code and design agree: register-register operations
(on registers that are all zero, where the operator makes no difference for ADD, SUB and NE),
branches whose condition is false, register-relative jumps without a link, fences, ebreak, and at most
one store per bundle. What the run tests is the pipeline: that the two cycles of a bundle have the
effect of one, that a redirect in the first cycle and the refetch after it lose and repeat no
bundle, and that priorities between lanes are the documented ones.

With these bundles no lane ever waits, so that they complete is no question of that run: it is asked in `engine_ext`, with accesses
that wait. There `OnChipBase = 1` puts address 0, the only one the engine ever forms, on the external bus; in the repository
(`OnChipBase = 0`) it is on-chip, an external access cannot be reached, and a load is stuck (`engine_load`). All accesses of a program are in one
lane, because two lanes that store hang (section 5). A lane that is idle repeats its access in every cycle of its bundle, the one in which
the bundle retires included, so accesses reach over into the next bundle.

The programs of the engine's runs have two bundles: every bundle follows reset or another bundle,
jumps go back, forward and into the halts, and the state of the pipeline at a bundle boundary does not
depend on the history before it.

In `regression` two makes are the least in which a result can be stale and three those in which a make can follow one that found its
metadata torn by the crash. More
tests add no new interaction: a per-test script touches the metadata (shared with the writers) and its own test. In
`proof_runner` three processes are needed for one to wait behind a preempted one. `dv_algorithms` takes the sequential
scripts one input at a time and has no interleaving, so its states are its inputs.

Fairness, where a liveness property needs it:

- hardware (`FairSpec`): a request that is held is granted and a granted load answered in
  the end (`WF_vars(Granted)`, `WF_vars(Answered)`), as the bus protocol promises, and while the bus is not asked for anything the clock runs
  (`WF_vars(Quiet)`). Only `BundleCompletes` and `HaltDrains` use it;
- `ProofRunner`: `WF_vars(Poll)`, as `poll()` schedules itself again as long as the loop runs, and `WF_vars(Exit(q))`, as a command
  left alone exits; nothing is assumed of timeouts or of preempted processes;
- `ProofModes` and `RegressionFlow` have none: an engine without a timeout need not answer, and four of the regression's scripts start
  their commands without a timeout (`compile_tb.py` 158, `build_instr_gen.py` 46, `run_instr_gen.py` 230, `compile_test.py` 199), so nothing in
  the code promises that a run of the conductor or a make ends.

## 4. Proofs

TLAPS proves, for every value of the constants that satisfies the named assumptions:

- **Free pool** (`BpsBlocks_proof`): `TypeCorrect` and `PoolIsSafe` (`PoolSafe`, the conjunction of `RingOK`, `NoDuplicate` and `Partition`), with
  `RingRegistersAgree` and `NoSlotFreeTwice` for its first two parts. The inductive invariant is all of them with the types. None is inductive alone: that a pop returns a slot nobody owns
  needs the head to be a live position (`RingOK`) and the list to have no duplicate; that a push
  overwrites no free slot needs the tail not to be live. `EndsOfRing` and `ClockRing` say how the set
  of live positions changes at an edge, which is all that the slot-level argument needs. `PoolIsFifo` (`FifoPool`) is the
  refinement: the queue is the list read from the head, `free_count_q` slots on, modulo the size. The steps are that a pop is the
  tail of that sequence, a push its append, and both at once the append of the tail, where the count decides which of them happen.
- **Watcher** (`BpsBlocks_proof`): `WatchTyped`, `NoLostWakeup` (`LostOnlyAtArm`) and `WatchIsKept` (`ArmedUntilFired`), for any number of lanes, addresses and
  words. The invariant is the property with the types: a store either marks the matching lanes as due or leaves their words
  alone, and a lane that is due and met fires at this edge.
- **Crossbar** (`BpsBlocks_proof`): `CrossbarIsFixedPriority` (`LowestPerBankWins`) and `CrossbarReadsItsWord` (`DataAfterGrant`), for any requestors, banks
  and words. The loop invariant says that after `n` requestors the claims are those of the requestors below `n` that are the first
  on their bank; at most one claim is of a bank, so the data mux is deterministic.
- **Detector** (`BpsBlocks_proof`): `TableEntryExact` (`HitIsExact`) and `RecommendsOnlyHot` (`OnlyHotRecommended`), for any slice width, address width, threshold and
  ring. The first is algebra of the hash: the XOR of the other slices, which the tag holds, cancels, so index and tag give the
  low slice back. The second needs `HotInv`: a counter never exceeds the loads of the address its entry hits
  (`CountEarned`), and either every cell of the ring is hot, or the pushes have not come round yet, the cells below the tail are hot
  and head plus count is at most the tail (`RingHot`). Head, tail and count drift apart in the code (section 5), so the usual ring invariant is false
  and this one takes its place.
- **Lanes and memory** (`VliwDispatch_proof`): `MemTypeCorrect` for any bus; on a bus that answers loads only
  (`StoreRvalid = FALSE`), `PortMatchesLane` (`PendingLaneWaits`), `NoLaneIsOrphaned` (`NoOrphanWait`) and
  `LoadsGetTheirOwn` (`OwnResponse`), for any number of lanes, banks and words. The invariant couples three
  machines: port waiting, pending lane waiting, one load on the bus with the lane's address. An idle
  port means an empty bus and no lane waiting for an external answer. The proof of a step splits on what the
  bus does in it: grant to a load, grant to a store, response, neither.
- **Engine** (`VliwDispatch_proof`): `EngineTypeCorrect`; `HaltStopsFetch` (`NoFetchAfterHalt`) from the invariant `HaltInv`, which adds
  `HaltSeenInFirstCycle`: the first cycle that decodes an ebreak is one in which `fetch_valid_q` blocks the
  fetch; and `HaltedForGood` (`HaltIsFinal`); `HaltIsSeenInTime` states the first half of `HaltInv` by itself. They hold for every program, fill traffic and fetch-enable
  input. `EngineIsMachine` (`ExecutesBundles`) is the refinement, under the premises `Undisturbed`: every program is `ImageAsDocumented` (what the
  engine executes as `DESIGN.md` has it: see section 5 for the rest), the loader is silent, fetching is enabled and address 0 is on-chip. For any
  width, cache size and such program the engine is the machine that executes each bundle once. The invariant `RefInv`, with `ZeroInv` (registers and latched addresses are zero: on programs whose results the design and the
  engine agree on), follows a bundle through its four cycles (idle, fetching, executing, retiring). The machine steps in the executing cycle; the
  retiring cycle repeats the same branch and the same writes, and the refinement's PC is one bundle ahead unless it branched.
  `RefImagesAssumption` has TLC evaluate the premise on the programs of the run.
- **`ProofRunner_proof`**: `RunnerTyped`, `NoProcessLost` (`NoneLost`), `NoProcessOrphaned` (`NoOrphan`) and the refinement
  `RunnerServesOldestFirst` (`OldestFirst`), for any processes, limits and sizes. The inductive invariant joins types, the two
  lists and `KillsOnlyCancelled`: without the last one an awaited process could leave the runner through the "uninterested" branch. The
  refinement maps the state to `running` followed by `pending` reversed; admission, preemption and requeueing only move the
  boundary between the two, which the lemmas on sequences say.
- **`ProofModes_proof`**: `ProveModeSound` (`ProveIsSound`), `StoredProofsEarned` (`StrategiesEarned`), `StoringKeepsProofs` (`StoreKeepsProofs`), for any
  designs, properties, command lines and strategy files: what is stored under another step than its property's is promised to be found, not
  to be proved (`proof_modes_moved`). `ProveIsSound` needs to know, in the middle of a run, that whatever
  is no longer in `todo` was proved or has raised `has_errors`, and that coverage was checked against the strategies run.
  `StoreKeepsProofs` needs that `loaded` is what the file of this step last held.
- **`RegressionFlow_proof`**: `FlowTyped`, `TestsNotRaced` (`NoTestRace`), `MetadataIsKept` (`MetadataKept`, that is `NoLostUpdate` and
  `TornWhileWritten`), `PassesEarned` (`PassWasEarned`) and `GreenIsAllPassed` (`GreenMeansAllPassed`), for any tests, logs, edits and any
  number of makes and crashes. `FirstReportIsHonest` (`FirstReportHonest`) joins them, see below. `NoTestRace` rests on the order of the rules: a running job's prerequisites are settled and
  its dependents are not, so two jobs of one test cannot both run; a make that sees no tests starts none of them. `NoLostUpdate` couples the lock, the loaded copy and the
  file. `PassWasEarned` follows a verdict backwards: report, pickle on disk, copy in memory, log. `GreenMeansAllPassed`
  needs to know what a make with nothing to do relies on: the stamp of the report is there only with a report full of PASS (`GreenOK`), when the
  results of a test are newer than it they are newer than the merged coverage as well, so a make that remakes the one remakes the other
  (`OrderOK`), and nothing is there before the metadata is created (`Untouched`). `FirstReportHonest` adds `FirstOK`: in
  the first walk after a clean a test has no verdict, on disk or in memory, until its log is checked; the check of a test is never passed
  over; and once it is settled the stored result says what the log deserves, for nothing else of that test runs any more (`CheckIsLast`).
  What the check computes on a log of any length comes from `UvmLog_proof`.
- **Sequential scripts** (`DvAlgorithms_proof`): all nine properties of the run, for inputs of any size that satisfy `InputAssumption`:
  - `LogsJudged` (`LogVerdictDeserved`): a log's flags after `n` lines are those of its first `n` lines (`ScanKnows`).
  - `ToolsAreJudged` (`ToolsJudged`): after `n` requirements the tools missing and still pending are known. That VCS releases
    compare as they should is arithmetic on numbers below 10000.
  - `ConversionIsAllOrNothing` (`AllOrNothing`): after `n` files the disk holds the conversions of the original tree where the
    list has been and the old text elsewhere (`CopiedUpTo`, `SplattedUpTo`).
  - `ConfigReachesAll` (`ConfigConsistent`): the options are a list of eighteen, one for each field, and the two stages of a
    simulator are this list filtered by two sets that share nothing and leave nothing out.
  - `SelectionIsRight` (`SelectionRight`, with its conditions: `all` in TEST only beside `all_directed`, one parameter at most): what TEST asks for of a list (`RiscvdvChosen`, `DirectedChosen`), what the filter leaves of it
    (`FilterByFirst` on any `rtl_params`), and that joining the seeds of distinct tests gives each test and seed once (`CreatesBoth`).
  - `ListsRead` (`GeneratedListReads`): what the suites append, what reading tells apart again, and that a name finds one test.
  - `CommandsMean` (`CommandMeant`): substituting the entries of a dictionary one after the other is substituting them all at
    once, because none of its texts names one of its own keys; two rounds are then the replacement of every atom by its replaced replacement
    (`Then`), which is what `Meaning` says; an unset variable is a parameter without a meaning there, and the code refuses it also when
    the command does not have it (section 5), so the converse, that a command is returned, is asked only where every listed variable is set.
  - `ProofInputsAreSound` (`ProofInputsSound`): its first part is `SelectionIsolates` (`SelectIsolated`): after `n` names the bads before the index are the chosen
    assertions so far, those after it are still the bads of the names to come, and the constraints are the assertions of earlier steps
    (`SelectedUpTo`, `TurnSelects`). Its second part is `ProofStepsIsolated` (`StepIsolated`): after `n` lines of the solver's
    input the ids to assume and to delete are those of the introductions so far and the conjuncts written are those of the kept assertions
    (`ManipulatedUpTo`). Its third part is about a recursion on names: a call of `group` is labelled with the chunks
    taken off; its list holds the properties with one chunk left and one call for each next chunk, all distinct (`LeafsGive`, `BelowGive`); so
    opening the groups of one level gives the labels of the next, and each property has one label on each level (`Level`).
  - `CoverageRead` (`CoverageByColumn`): a table is read row by row (`TableParsed`), a row's cells are labelled with the columns they are
    under (`CellsLabelled`), and filtering the modules of the covergroup report gives their averages in the same order (`KeepMaps`).

A loop of the code is a recursive function here. The library's induction theorems take an operator, which no
installed prover can instantiate; `Induction` states induction about a set of numbers instead (`IntervalInduction`) and proves, from the
well-foundedness of the naturals, that a function that follows a given step exists (`RecursionExists`). A recursive definition is a
`CHOOSE` of such a function, so it satisfies its own equation, and the loop invariant is the set the induction is about.

A comprehension of the code is `Keep` (the elements of a list that are in a set) or `FlattenSeq` (lists joined). The first part of
`DvAlgorithms_proof` is a small theory of them. `FlattenSeq` is shown to be the recursion that joins one list after the other
(`FlattenJoins`, where `Joins` is the recursion), from which follow what the joined list holds (`FlattenRange`) and when it has no
duplicate (`FlattenDistinct`). `Keep` joins lists of at most one element, so it keeps what is in the set, in order and without new duplicates
(`Keeps`). `Replaced(s, f)`, every element by its list, composes with itself and with joining (`ReplacedTwice`,
`ReplacedConcat`): substitution, the opening of a tree and filtering are instances of it.

What `InputAssumption` asks of an input, and why the code or the repository's data justify it: a tool is a key of a yaml mapping, so none comes
twice; yosys gives each assertion an id of its own; the two testlists have a test once and at most one `rtl_param` per
test (`Testlist`; the filter alone is proved for any); a name is of one file in the directories of the test suites, and not of a handwritten test
(`Directories`: `directed_data` looks tests up by name, and the 913 files vendored have distinct names); the dictionaries of
`rtl_simulation.yaml` and its callers have a key once and no text that names a key of the same dictionary (`Dictionary`, `Command`; a template that
did would depend on the order of the dictionary); a property of a step has a name of its own, with at least one chunk
(`PropertyList`: `chunk_name` gives none only for an empty name); a coverage report is one table with each column once and rows with any number of cells
(`IsTable`; section 5 has what a second header does), and a covergroup is in its report once.

Assumptions on constants are named in the module that declares them (`WAssumption`, `ManagedCntAssumption`,
`PowerOfTwoAssumption`, `EnvAssumption`, `ModesAssumption`, `FlowAssumption`, ...) and evaluated by TLC in the runs.

Only proved: the types of the pool, the watcher, the lanes with their memory, the engine and the regression, `HaltSeenInFirstCycle` and
`ArmedUntilFired`, which the runs would only repeat.

Only model-checked:

- liveness (`BundleCompletes`, `HaltDrains`, `EachSettled`), which is outside the prover's reach.

Every safety invariant, action property and refinement that a passing run checks is proved, from the assumptions named above (for the
lanes with their memory that the bus answers loads only, for the engine's refinement `Undisturbed`, for the sequential scripts `InputAssumption`).

## 5. Disagreements seen while modelling that no run shows

Hardware:

- A `spfree` in the cycle in which `spalloc` takes the last free slot is dropped (`ibex_addr_regfile.sv` 173) and its slot never comes
  back; `DESIGN.md` 263 says "return slot `rs1` to the free list". (`FreeSlotQueue` allows that one drop.)
- On a bus that answers stores, the late answer to a store ends the load granted after it (`ibex_banked_lsumem.sv` 237);
  `doc/03_reference/load_store_unit.rst` 95 says "one ``data_rvalid_i`` will be signalled for each of them, in the order they were
  issued". (The proofs assume `StoreRvalid = FALSE`.)
- A condition that is already true when a watch is armed wakes nobody (`ibex_mem_event_watch.sv` 90); `DESIGN.md` 139-140 says "when
  `MEM[ S[si] ] == rs2`, set the next bundle PC to `P`" and "Until then, the issuing lane suspends".
- `ibex_bps_pkg.sv` 41 speaks of a sentinel that `spalloc` returns when the pool is empty;
  `spalloc_idx_o` is the stale list entry then, and nothing uses the constant.
- `ibex_crossbar.sv` 82-83 has the caller use `rdata_o` in the granted cycle; with registered banks it is then
  the word of the previous read. `DataAfterGrant` is what does hold.
- In `ibex_hot_addr_detect.sv` 132-143 a pop in the cycle of a promotion keeps the count and leaves the head:
  the popped entry is offered again, and head, tail and count disagree from then on.
- Also: `beq` of equal registers is not taken (SLTU), `jal` and `fence.i` jump relative to a register
  (`is_jump_i` is raised for all three).
- Two stores of one bundle to the same bank: the lower lane is idle again after its grant and stores anew in
  every cycle, so the higher one never gets the bank and the bundle never ends. So does a store in a lower lane beside a
  load in a higher one that share the external port.
- A bundle that takes more than two cycles has `fetch_valid_q` low again when it retires, so `fetch_req` (`ibex_vliw_dispatch.sv` 115) goes
  out in that very cycle with the old PC: its slots become active a second time, under the next bundle's PC. It takes an access on the external
  port, which the engine as instantiated cannot make (section 3); it is why `ExecutesBundles` is asked of bundles that do not wait.
- If `fetch_enable_i` drops for one of the two fetch cycles, the old PC is fetched again and the slots are
  latched anew under the active bundle.
- `ibex_bundle_cache.sv` 53 numbers bundles by `bundle_pc / (Width*4)`; the index is the PC in words and
  consecutive bundles are 2W words apart.

Programs:

- `race()` (`conductor.py` 68-86): with two tasks both wrappers read the loop's variable after the loop and await the last coroutine; the
  second await raises. "Races allow async processes to cleanly run in parrallel" (64), but an `explore` without `--hard` that has something to
  prove ends in that exception. `ProofModes` has it (`RaceRaises`).
- "If <V> occurs in the string but $V is not set in the environment, an error is raised" (`scripts_lib.py` 156-157): the error is raised for
  every listed variable that is not set, also when the string does not have it (162). `CommandMeant` asks nothing of those commands but
  that what is returned is right.
- "Never allocate more than (total ram - buffer)" (`conductor.py` 223): what is set aside for a process is forgotten at the
  next poll, when only what it has used so far counts.
- With `--by-step` prove mode does not look at the results of the proofs (`conductor.py` 641) and exits with 0.
- `VcsToolReq` (`check_tool_requirements.py` 248-282) makes one number of month, service pack and patch: 2020.12 is taken to
  be older than 2020.03-SP2, against the comment at 263-265. `VcsOrdered`, a part of `ToolsJudged`, is about the pairs that do compare well.
- `filter_tests_by_config` (`ibex_cmd.py` 151-187) appends a test once per parameter that allows the configuration, so a test with two
  that do is run twice, one whose second excludes it is kept, against the docstring ("all tests incompatible with the specified ibex config
  have been removed", 145-147), and one with an empty `rtl_params` is lost. Both testlists of the repository have at most one.
- "Does aig-manip select for smt2 files." is the description of `smt2manip.py`, but a chosen cover, which aig-manip keeps negated, is deleted there.
- A process that expects more memory than there is stays at the head of the queue and holds up everything behind it
  (`conductor.py` 259); in `proof_runner` every process fits in memory alone.
- `--add_tests=epmp_tests`, as the help of `gen_testlist.py` (474) spells it, adds nothing: the name has a hyphen. The egrep patterns match more
  than the extension, and one stray file makes the whole list unreadable.
- `run_instr_gen.py` returns 0 when its commands fail, and leaves no program.
- A log with `FAILED` and no error line ends `check_logs.py` with a TypeError (`ibex_log_to_trace_csv.py` 245).
- `collect_results.py` expects a RuntimeError from a result it cannot load; a torn pickle raises an EOFError.
- In `report_lib/util.py` a metric with total 0 ends the program, and a second header line misaligns the columns.
- `smt2manip.py` relies on the exact spelling of one line of the file yosys writes.

## 6. Not modelled

Programs: the writers of the text, HTML, SVG, JUnit and JSON reports (formatting), the synthesis scripts (text filters over one
report), the paths and flags the scripts put together (`get_riscvdv_compile_cmds`, `reloc_word`, the pkg-config flags of
`compile_tb.py`; that a command cannot be put together is modelled), the operand conversion of a trace, `--define-if`
parsing, the other subcommands of aig-manip (`simulate`, `coi`, `why`: no proof depends on them) and the formats it reads, import paths and data files, vendored code but for `process_regression_list`.

Hardware: the inherited Ibex core (section 7), the ARF memory banks (ports tied off), the predicate file
(instantiated nowhere), the ALU operators no lane can be given, byte enables and sign extension (no
property is about them), the ARF crossbar of the dispatcher (no lane uses its data), the tracer, the packages, the
testbench (its bus behaviour is in `LaneMem`). A second SRAM clock is not modelled: `ibex_core` and the testbench
tie it to the core clock.

## 7. Plan

Done, in this order: free pool and its abstract queue; lanes with data memory and bus; crossbar; detector; watcher; the engine
and its abstract machine; the process runner and its abstract line; the proof modes; the regression flow; the
sequential scripts; the proofs of section 4.

What would come next, most stateful parts first:

1. The inherited core: `LoadStoreUnit` with `WbStage` (split accesses, outstanding responses, errors; abstract: one request, one
   answer); `PrefetchBuffer` and `FetchFifo` (abstract: the instruction stream from the last branch target, in order);
   `Controller` (exceptions, interrupts, debug, sleep); `Pmp` and the iterative divider against reference definitions.
2. The arguments of a make in `RegressionFlow`: a second make with other tests on an existing metadata directory.
