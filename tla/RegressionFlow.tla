---------------------------- MODULE RegressionFlow ----------------------------
(***************************************************************************)
(* A regression of dv/uvm/core_ibex: the scripts that make runs, in        *)
(* parallel and again after edits, failures and crashes, and the files     *)
(* through which they talk: metadata.pickle, locked by the scripts that    *)
(* change it and read without a lock by the others, and for each test its  *)
(* TestRunResult (a pickle, with trr.yaml beside it) and simulation log.   *)
(*                                                                         *)
(* A job is a pair of a script and the test it works on.  Make compares    *)
(* modification times: fresh[j] says that the target of j is there and     *)
(* newer than its prerequisites, and cached holds the jobs of which make   *)
(* found that out when it started and has remade no prerequisite since.    *)
(***************************************************************************)
EXTENDS UvmLog, FiniteSets

CONSTANTS Riscvdv, Directed,   \* the tests, generated and directed
          Whole,               \* stands for the test of a job that has none
          SimLogs,             \* what the simulation of a test may leave
          CutLogs,             \* what it may leave when it is killed, complete or not
          COV,                 \* collect coverage
          Edited,              \* the jobs whose source files are edited
          MaxMakes, MaxCrashes \* bounds between two cleans

NoLog == [trace |-> <<>>, lines |-> <<>>, exists |-> FALSE]
Logs == [trace : Seq(TraceLines), lines : Seq(Lines), exists : {TRUE}] \cup {NoLog}
Tests == Riscvdv \cup Directed

Writers == {"cfg", "igb", "tb", "fcov", "merge", "collect"}
Steps == {"bin", "sim", "check"}
WriterJobs == Writers \X {Whole}
TestJobs == ({"gen"} \X Riscvdv) \cup (Steps \X Tests)
Jobs == WriterJobs \cup TestJobs
NoJob == <<"none", Whole>>

\* The value of a TestRunResult, as far as the results depend on it.
Results == [passed : {"None", "True", "False"}, failure_mode : Failure_Modes]
NewResult == [passed |-> "None", failure_mode |-> "NONE"]

ASSUME FlowAssumption ==
  /\ Whole \notin Tests
  /\ Riscvdv \cap Directed = {}
  /\ COV \in BOOLEAN
  /\ Edited \subseteq Jobs
  /\ MaxMakes \in Nat /\ MaxCrashes \in Nat
  /\ SimLogs \in [Tests -> SUBSET (Logs \ {NoLog})] /\ CutLogs \subseteq Logs \ {NoLog}

\* Mutant: the log check depends on the binary, not on the simulation.
Prereqs_NoSim == [j \in Jobs |->
  CASE j[1] = "igb"     -> {<<"cfg", Whole>>}
    [] j[1] = "gen"     -> {<<"igb", Whole>>}
    [] j[1] = "bin"     -> IF j[2] \in Riscvdv THEN {<<"gen", j[2]>>} ELSE {}
    [] j[1] = "sim"     -> {<<"tb", Whole>>, <<"bin", j[2]>>}
    [] j[1] = "check"   -> {<<"bin", j[2]>>}
    [] j[1] = "collect" -> {"check"} \X Tests
    [] OTHER            -> {}]

\* The rules of wrapper.mk, ibex_sim.mk and riscvdv.mk.
Checks == {"check"} \X Tests
Prereqs == [j \in Jobs |->
  CASE j[1] = "igb"     -> {<<"cfg", Whole>>}
    [] j[1] = "gen"     -> {<<"igb", Whole>>}
    [] j[1] = "bin"     -> IF j[2] \in Riscvdv THEN {<<"gen", j[2]>>} ELSE {}
    [] j[1] = "sim"     -> {<<"tb", Whole>>, <<"bin", j[2]>>}
    [] j[1] = "check"   -> {<<"sim", j[2]>>}
    [] j[1] = "fcov"    -> Checks
    [] j[1] = "merge"   -> {<<"fcov", Whole>>}
    [] j[1] = "collect" -> Checks \cup {<<"merge", Whole>>}
    [] OTHER            -> {}]

Dependents == [j \in Jobs |-> {k \in Jobs : j \in Prereqs[k]}]
Collect == <<"collect", Whole>>

\* The jobs whose rules are there even when make knows of no test.
EndJobs == {"fcov", "merge", "collect"} \X {Whole}

VARIABLES meta, lock, trr, log, report,   \* the output directory
          fresh, programs,                \* the times of its files, the programs there
          stamps,                         \* of EndJobs: newer than all but the tests' results
          make, exit_code, settled, cached, failed, pc, \* one run of make
          md, mem,                        \* what a script has loaded
          makes, crashes, exported, earned \* counters and history

results == <<log, report, earned>>
times == <<fresh, programs, stamps>>
walk == <<make, exit_code, settled, cached, failed>>
bounds == <<makes, crashes>>
vars == <<meta, lock, trr, times, results, walk, pc, md, mem, bounds, exported>>

Init == /\ meta = [state |-> "absent", fields |-> {}]
        /\ lock = NoJob
        /\ trr = [t \in Tests |-> [state |-> "absent", val |-> NewResult]]
        /\ log = [t \in Tests |-> NoLog]
        /\ fresh = [j \in Jobs |-> FALSE]
        /\ programs = {}
        /\ stamps = {}
        /\ report = [t \in Tests |-> "none"]
        /\ make = "idle"
        /\ exit_code = "none"
        /\ settled = {}
        /\ cached = {}
        /\ failed = FALSE
        /\ pc = [j \in Jobs |-> "idle"]
        /\ md = [j \in Jobs |-> {}]
        /\ mem = [t \in Tests |-> NewResult]
        /\ makes = 0
        /\ crashes = 0
        /\ exported = {}
        /\ earned = {}

Active == {j \in Jobs : pc[j] # "idle"}

\* Processing the trace raises an exception: the file is missing or unusable.
NoTrace(l) == ~l.exists \/ TraceUnusable(l.trace)

\* What a simulation left is accepted by the log checker.
Passes(l) == ~NoTrace(l) /\ check_ibex_uvm_log(l.lines).passed

-----------------------------------------------------------------------------
(* make, run by a user: it creates the metadata, then walks the targets. *)

\* An existing metadata file is left as it is, readable or not.  When it is not, the
\* lists of tests are empty: there are no rules for the tests, and what is left of
\* the goal is EndJobs, as if everything before it were done.
MakeStart == /\ make = "idle" /\ makes < MaxMakes
             /\ makes' = makes + 1
             /\ exit_code' = "none" /\ failed' = FALSE
             /\ make' = IF meta.state = "absent" THEN "create" ELSE "walk"
             /\ settled' = IF meta.state = "torn" THEN Jobs \ EndJobs ELSE {}
             /\ cached' = IF meta.state = "torn" THEN stamps ELSE {j \in Jobs : fresh[j]}
             /\ UNCHANGED <<meta, lock, trr, times, results, pc, md, mem, crashes, exported>>

\* Every test's pickle first; metadata.pickle is opened for writing last.
CreateTests == /\ make = "create"
               /\ trr' = [t \in Tests |-> [state |-> "ok", val |-> NewResult]]
               /\ meta' = [state |-> "torn", fields |-> {}]
               /\ make' = "creating"
               /\ UNCHANGED <<lock, times, results, exit_code, settled, cached, failed, pc, md,
                              mem, bounds, exported>>

CreateDone == /\ make = "creating"
              /\ meta' = [state |-> "ok", fields |-> {}]
              /\ make' = "walk"
              /\ UNCHANGED <<lock, trr, times, results, exit_code, settled, cached, failed, pc,
                             md, mem, bounds, exported>>

\* Make is about to look at j, whose prerequisites it is done with.
Considers(j) == /\ make = "walk" /\ ~failed
                /\ j \notin settled /\ pc[j] = "idle"
                /\ Prereqs[j] \subseteq settled

\* Targets that need no work are passed over together.
Skip == LET done == {j \in cached : Considers(j)} IN
           /\ done # {}
           /\ settled' = settled \cup done
           /\ UNCHANGED <<meta, lock, trr, times, results, make, exit_code, cached, failed, pc,
                          md, mem, bounds, exported>>

Starts(j) == Considers(j) /\ j \notin cached

\* The times after the target of j is written: what depends on it is older.
Newer(j, there) == [k \in Jobs |-> IF k = j THEN there ELSE fresh[k] /\ k \notin Dependents[j]]

\* The recipe of j is done, whatever it has written.
Settle(j) == /\ pc' = [pc EXCEPT ![j] = "idle"]
             /\ settled' = settled \cup {j}
             /\ UNCHANGED <<make, exit_code, failed>>

\* The recipe of j succeeded with its target, the last file it writes; what depends
\* on it is remade in this make.
Succeed(j) ==
  /\ Settle(j)
  /\ cached' = cached \ Dependents[j]
  /\ fresh' = Newer(j, TRUE)
  /\ stamps' = IF j \in EndJobs THEN (stamps \ Dependents[j]) \cup {j} ELSE stamps
  /\ UNCHANGED programs

\* The script of j has written its target and goes on.
Write(j, phase) ==
  /\ pc' = [pc EXCEPT ![j] = phase]
  /\ cached' = cached \ Dependents[j]
  /\ fresh' = Newer(j, TRUE)
  /\ programs' = programs \cup ({j[2]} \cap {t \in Riscvdv : j = <<"gen", t>>})
  /\ UNCHANGED <<make, exit_code, settled, failed, stamps>>

\* The recipe of j failed: make starts no other job.
Fail(j) == /\ pc' = [pc EXCEPT ![j] = "idle"]
           /\ failed' = TRUE
           /\ UNCHANGED <<make, exit_code, settled, cached, times>>

Continue(j, phase) == pc' = [pc EXCEPT ![j] = phase] /\ UNCHANGED <<walk, times>>

\* Once the running jobs have ended.
MakeEnd == /\ make = "walk" /\ Active = {}
           /\ failed \/ Collect \in settled
           /\ make' = "idle"
           /\ exit_code' = IF failed THEN "2" ELSE "0"
           /\ settled' = {} /\ cached' = {}
           /\ UNCHANGED <<meta, lock, trr, times, results, failed, pc, md, mem, bounds, exported>>

-----------------------------------------------------------------------------
(* The scripts that change the metadata, through LockedMetadata. *)

\* Without coverage two of the rules only touch their stamp.
Touch(j) == /\ j[1] \in {"fcov", "merge"} /\ ~COV /\ Starts(j)
            /\ Succeed(j)
            /\ UNCHANGED <<meta, lock, trr, results, md, mem, bounds, exported>>

LaunchWriter(j) == /\ (j[1] \in {"fcov", "merge"} => COV)
                   /\ Starts(j)
                   /\ Continue(j, "wait")
                   /\ UNCHANGED <<meta, lock, trr, results, md, mem, bounds, exported>>

\* Mutant: the file is opened and loaded without waiting for the lock.
Enter_Unlocked(j) == /\ pc[j] = "wait" /\ meta.state = "ok"
                     /\ lock' = j
                     /\ md' = [md EXCEPT ![j] = meta.fields]
                     /\ Continue(j, "held")
                     /\ UNCHANGED <<meta, trr, results, mem, bounds, exported>>

\* __enter__: wait for the lock, then load the file.
Enter(j) == /\ pc[j] = "wait" /\ lock = NoJob
            /\ IF meta.state = "torn"
               THEN Fail(j) /\ UNCHANGED <<lock, md>>
               ELSE /\ lock' = j
                    /\ md' = [md EXCEPT ![j] = meta.fields]
                    /\ Continue(j, "held")
            /\ UNCHANGED <<meta, trr, results, mem, bounds, exported>>

\* The alarm set for five seconds goes off while another script has the lock.
Alarm(j) == /\ pc[j] = "wait" /\ lock # NoJob
            /\ Fail(j)
            /\ UNCHANGED <<meta, lock, trr, results, md, mem, bounds, exported>>

\* Mutant: whatever is not False passes.
Verdict_NotFalse(r) == IF r.passed # "False" THEN "PASS" ELSE "FAILED"

\* What collect_results.py says of a test.
Verdict(r) == IF r.passed = "True" THEN "PASS"
              ELSE IF r.failure_mode = "TIMEOUT" THEN "FAILED {T}" ELSE "FAILED"

Readable == \A t \in Tests : trr[t].state = "ok"
AllPassed == \A t \in Tests : trr[t].state = "ok" /\ trr[t].val.passed = "True"

\* The body of the with statement, up to the opening of the file for writing in
\* __exit__.  collect_results.py reports on all the tests in its body, unless one
\* of their pickles cannot be loaded.
Body(j) == /\ pc[j] = "held"
           /\ meta' = [state |-> "torn", fields |-> {}]
           /\ report' = IF j = Collect /\ Readable
                        THEN [t \in Tests |-> Verdict(trr[t].val)] ELSE report
           /\ Continue(j, "dump")
           /\ UNCHANGED <<lock, trr, log, earned, md, mem, bounds, exported>>

\* The rest of __exit__: the object is written and the lock released.
Leave(j) == /\ pc[j] = "dump"
            /\ meta' = [state |-> "ok", fields |-> md[j] \cup {j}]
            /\ exported' = exported \cup {j}
            /\ lock' = NoJob
            /\ md' = [md EXCEPT ![j] = {}]
            /\ Continue(j, "tool")
            /\ UNCHANGED <<trr, results, mem, bounds>>

\* Mutant: collect_results.py always succeeds.
Tool_Green(j) == /\ pc[j] = "tool"
                 /\ \/ Succeed(j)
                    \/ j # Collect /\ Fail(j)
                 /\ UNCHANGED <<meta, lock, trr, results, md, mem, bounds, exported>>

\* The commands of the script, which may fail; collect_results.py has none and
\* fails when a test has.
Tool(j) == /\ pc[j] = "tool"
           /\ \/ (j = Collect => AllPassed) /\ Succeed(j)
              \/ (j = Collect => ~AllPassed) /\ Fail(j)
           /\ UNCHANGED <<meta, lock, trr, results, md, mem, bounds, exported>>

-----------------------------------------------------------------------------
(* The scripts that work on one test.  They read the metadata without the lock, *)
(* check_logs.py not at all, and export the TestRunResult they have loaded.     *)

Loads(j) == /\ trr[j[2]].state = "ok"
            /\ j[1] # "check" => meta.state = "ok"

\* export opens the pickle for writing, which truncates it, ...
Opened(t) == trr' = [trr EXCEPT ![t] = [state |-> "torn", val |-> NewResult]]

\* compile_test.py and run_rtl.py export before they run anything, once they have
\* their commands; a command they cannot construct ends them before that.
LaunchTest(j) ==
  /\ Starts(j)
  /\ \/ /\ Loads(j) => j[1] \in {"bin", "sim"}
        /\ Fail(j)
        /\ UNCHANGED <<trr, mem>>
     \/ /\ Loads(j)
        /\ mem' = [mem EXCEPT ![j[2]] = trr[j[2]].val]
        /\ IF j[1] \in {"bin", "sim"}
           THEN Opened(j[2]) /\ Continue(j, "dump")
           ELSE UNCHANGED trr /\ Continue(j, "tool")
  /\ UNCHANGED <<meta, lock, results, md, bounds, exported>>

\* ... and then writes it, and trr.yaml.
Export(t) == trr' = [trr EXCEPT ![t] = [state |-> "ok", val |-> mem[t]]]

Forget(t) == mem' = [mem EXCEPT ![t] = NewResult]

\* trr.yaml is the target of the check, whichever script exports it.  Make has
\* looked at its time before and looks again only after the check itself.
Dump(j) == LET check == <<"check", j[2]>> IN
  /\ pc[j] = "dump"
  /\ Export(j[2])
  /\ fresh' = Newer(check, log[j[2]].exists)
  /\ IF j[1] \in {"bin", "sim"}
     THEN pc' = [pc EXCEPT ![j] = "tool"] /\ UNCHANGED walk
     ELSE Settle(j) /\ cached' = IF j = check THEN cached \ Dependents[j] ELSE cached
  /\ IF j[1] = "sim" THEN UNCHANGED mem ELSE Forget(j[2])
  /\ UNCHANGED <<meta, lock, results, programs, stamps, md, bounds, exported>>

\* run_instr_gen.py fails when it cannot have its commands, or when they succeed
\* without leaving a program; when they fail it still succeeds, with no program or
\* with that of an earlier make.
Generate(t) == LET j == <<"gen", t>> IN
  /\ pc[j] = "tool"
  /\ \/ Opened(t) /\ Write(j, "dump") /\ UNCHANGED mem
     \/ Opened(t) /\ Continue(j, "dump") /\ UNCHANGED mem
     \/ UNCHANGED trr /\ Fail(j) /\ Forget(t)
  /\ UNCHANGED <<meta, lock, results, md, bounds, exported>>

\* The compiler needs a program of the generator.
Compile(t) == LET j == <<"bin", t>> IN
  /\ pc[j] = "tool"
  /\ \/ (t \in Riscvdv => t \in programs) /\ Succeed(j)
     \/ Fail(j)
  /\ UNCHANGED <<meta, lock, trr, results, md, mem, bounds, exported>>

\* The log of a simulation replaces that of an earlier one.
Replaced(t, l) ==
  /\ log' = [log EXCEPT ![t] = l]
  /\ earned' = IF Passes(l) THEN earned \cup {t} ELSE earned
  /\ Write(<<"sim", t>>, "dump2")

\* The simulator does not start, or is killed before it opens its log: there is none,
\* or that of an earlier make.
Kept(t) == Continue(<<"sim", t>>, "dump2") /\ UNCHANGED <<log, earned>>

\* The simulation ends by itself, whatever it returns, or run_one kills it when its
\* time is up.
Simulated(t, killed) ==
  /\ pc[<<"sim", t>>] = "tool"
  /\ Kept(t) \/ \E l \in IF killed THEN CutLogs ELSE SimLogs[t] : Replaced(t, l)
  /\ mem' = [mem EXCEPT ![t].failure_mode = IF killed THEN "TIMEOUT" ELSE @]
  /\ Opened(t)
  /\ UNCHANGED <<meta, lock, report, md, bounds, exported>>

Simulate(t) == \E killed \in BOOLEAN : Simulated(t, killed)

DumpSim(t) == LET j == <<"sim", t>> IN
  /\ pc[j] = "dump2"
  /\ Export(t) /\ Forget(t)
  /\ Settle(j)
  /\ fresh' = Newer(<<"check", t>>, log[t].exists)
  /\ UNCHANGED <<meta, lock, results, cached, programs, stamps, md, bounds, exported>>

\* A TestRunResult already marked TIMEOUT is not looked at further.  A log that
\* does not pass sets the mode and leaves passed as it was.
compare_test_run(r, l) ==
  LET uvm == check_ibex_uvm_log(l.lines)
  IN  CASE r.failure_mode = "TIMEOUT" -> [r EXCEPT !.passed = "False"]
        [] r.failure_mode # "TIMEOUT" /\ NoTrace(l)
             -> [passed |-> "False", failure_mode |-> "FILE_ERROR"]
        [] r.failure_mode # "TIMEOUT" /\ ~NoTrace(l) /\ uvm.passed
             -> [r EXCEPT !.passed = "True"]
        [] OTHER -> [r EXCEPT !.failure_mode = uvm.failure_mode]

CheckRaises(r, l) == /\ r.failure_mode # "TIMEOUT" /\ ~NoTrace(l)
                     /\ check_ibex_uvm_log(l.lines).raises

Check(t) == LET j == <<"check", t>> IN
  /\ pc[j] = "tool"
  /\ IF CheckRaises(mem[t], log[t]) THEN Fail(j) /\ Forget(t) /\ UNCHANGED trr
     ELSE /\ mem' = [mem EXCEPT ![t] = compare_test_run(mem[t], log[t])]
          /\ Opened(t)
          /\ Continue(j, "dump")
  /\ UNCHANGED <<meta, lock, results, md, bounds, exported>>

-----------------------------------------------------------------------------
(* What happens to a regression from outside. *)

\* Everything is killed at once.  The lock goes with its process and what was being
\* written stays as it is.  The tools may have written their targets by then.
Crash == /\ make # "idle" /\ crashes < MaxCrashes
         /\ crashes' = crashes + 1
         /\ make' = "idle" /\ exit_code' = "killed"
         /\ settled' = {} /\ cached' = {} /\ failed' = FALSE
         /\ pc' = [j \in Jobs |-> "idle"]
         /\ lock' = NoJob
         /\ md' = [j \in Jobs |-> {}] /\ mem' = [t \in Tests |-> NewResult]
         /\ \E written \in SUBSET {j \in TestJobs : pc[j] = "tool" /\ j[1] # "check"} :
            \E left \in [{t \in Tests : <<"sim", t>> \in written} -> CutLogs] :
              /\ log' = [t \in Tests |-> IF t \in DOMAIN left THEN left[t] ELSE log[t]]
              /\ earned' = earned \cup {t \in DOMAIN left : Passes(left[t])}
              /\ fresh' = [j \in Jobs |->
                             j \in written \/ (fresh[j] /\ Prereqs[j] \cap written = {})]
              /\ programs' = programs \cup {t \in Riscvdv : <<"gen", t>> \in written}
         /\ UNCHANGED <<meta, trr, report, stamps, makes, exported>>

\* A source file of j is edited.
Edit(j) == /\ make = "idle" /\ (fresh[j] \/ j \in stamps)
           /\ fresh' = [fresh EXCEPT ![j] = FALSE]
           /\ stamps' = stamps \ {j}
           /\ UNCHANGED <<meta, lock, trr, programs, results, walk, pc, md, mem, bounds, exported>>

\* make clean removes the output directory.
Clean == /\ make = "idle" /\ makes > 0
         /\ meta' = [state |-> "absent", fields |-> {}]
         /\ trr' = [t \in Tests |-> [state |-> "absent", val |-> NewResult]]
         /\ log' = [t \in Tests |-> NoLog]
         /\ fresh' = [j \in Jobs |-> FALSE] /\ programs' = {} /\ stamps' = {}
         /\ report' = [t \in Tests |-> "none"]
         /\ exit_code' = "none"
         /\ makes' = 0 /\ crashes' = 0
         /\ exported' = {} /\ earned' = {}
         /\ failed' = FALSE
         /\ UNCHANGED <<lock, make, settled, cached, pc, md, mem>>

Writing(j) == Touch(j) \/ LaunchWriter(j) \/ Enter(j) \/ Alarm(j) \/ Body(j) \/ Leave(j) \/ Tool(j)
Progress == \/ CreateTests \/ CreateDone \/ Skip \/ MakeEnd
            \/ \E j \in WriterJobs : Writing(j)
            \/ \E j \in TestJobs : LaunchTest(j) \/ Dump(j)
            \/ \E t \in Riscvdv : Generate(t)
            \/ \E t \in Tests : Compile(t) \/ Simulate(t) \/ DumpSim(t) \/ Check(t)
Outside == MakeStart \/ Crash \/ Clean \/ \E j \in Edited : Edit(j)
Next == Progress \/ Outside

Spec == Init /\ [][Next]_vars

-----------------------------------------------------------------------------
(* Properties *)

\* The types of the files in the output directory, of a make and of its scripts.
TypeOK ==
  /\ meta \in [state : {"absent", "ok", "torn"}, fields : SUBSET Jobs]
  /\ lock \in Jobs \cup {NoJob}
  /\ trr \in [Tests -> [state : {"absent", "ok", "torn"}, val : Results]]
  /\ log \in [Tests -> Logs]
  /\ fresh \in [Jobs -> BOOLEAN] /\ programs \subseteq Riscvdv /\ stamps \subseteq EndJobs
  /\ report \in [Tests -> {"none", "PASS", "FAILED", "FAILED {T}"}]
  /\ make \in {"idle", "create", "creating", "walk"}
  /\ exit_code \in {"none", "0", "2", "killed"}
  /\ settled \subseteq Jobs /\ cached \subseteq Jobs
  /\ failed \in BOOLEAN
  /\ pc \in [Jobs -> {"idle", "wait", "held", "dump", "dump2", "tool"}]
  /\ md \in [Jobs -> SUBSET Jobs]
  /\ mem \in [Tests -> Results]
  /\ makes \in Nat /\ crashes \in Nat
  /\ exported \subseteq Jobs /\ earned \subseteq Tests

\* export() "should only be called from contexts where there won't be races": two
\* scripts never work on one test at a time, and none does while the results are
\* collected.
Touches(j) == IF j = Collect THEN Tests ELSE {j[2]} \cap Tests
NoTestRace == \A j, k \in Active : Touches(j) \cap Touches(k) # {} => j = k

\* "This allows us to not worry about multiple processes racing to write into the
\* file" (LockedMetadata): what a script recorded in the metadata stays in it.
NoLostUpdate == meta.state = "ok" => exported \subseteq meta.fields

\* The metadata is unreadable only while a script is writing it, or since a crash.
TornWhileWritten == meta.state = "torn" /\ crashes = 0 =>
                      make = "creating" \/ \E j \in WriterJobs : pc[j] = "dump"

\* The metadata survives the scripts that share it: no update is lost, and it can be
\* read whenever none of them is writing it.
MetadataKept == NoLostUpdate /\ TornWhileWritten

\* A test reported PASS has had a simulation the checker accepts, however often
\* it was simulated, interrupted and checked since.
PassWasEarned == \A t \in Tests : report[t] = "PASS" => t \in earned

\* The report of the first make after a clean agrees with the logs, read the way
\* the checker's comments say they are.
Deserves(l) == Executed(l.trace) /\ Deserved(l.lines)
FirstReportHonest ==
  makes = 1 => \A t \in Tests : /\ report[t] = "PASS" => Deserves(log[t])
                                /\ report[t] = "FAILED" => ~Deserves(log[t])

\* "Succeed if no tests failed" (collect_results.py): a make that succeeds, even
\* one with nothing to do, leaves a report in which every test passed.
GreenMeansAllPassed == exit_code = "0" => \A t \in Tests : report[t] = "PASS"

\* "Something was found in the logfile that means we mark this test as failed"
\* (check_logs.py): after a make that succeeded, every log is one that passes.
ReportHonest == exit_code = "0" /\ makes = MaxMakes => \A t \in Tests : Deserves(log[t])
=============================================================================
