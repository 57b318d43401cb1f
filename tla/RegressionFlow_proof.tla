------------------------- MODULE RegressionFlow_proof -------------------------
(* Safety of the regression flow for every set of tests, whatever the           *)
(* simulations leave and however often make is run, edited under and killed.    *)
EXTENDS RegressionFlow, UvmLog_proof

Idle(j) == pc[j] = "idle"

\* Scripts run, and the lock is held, only while make walks the targets.
Quiet == /\ make # "walk" =>
              lock = NoJob /\ settled = {} /\ cached = {} /\ \A j \in Jobs : Idle(j)
         /\ make # "idle" => exit_code = "none"

\* What make is done with is closed under prerequisites, and a script runs only
\* when make is done with them and not with its own target.
SettleOK == /\ \A j \in settled : Prereqs[j] \subseteq settled
            /\ \A j \in Jobs : ~Idle(j) => j \notin settled /\ Prereqs[j] \subseteq settled

\* The lock protects the metadata between loading and writing it back.
LockOK == /\ lock = NoJob \/ lock \in WriterJobs
          /\ \A j \in WriterJobs :
               /\ pc[j] \in {"held", "dump"} <=> lock = j
               /\ pc[j] = "held" => meta.state = "ok" /\ md[j] = meta.fields
               /\ pc[j] = "dump" => meta.state = "torn" /\ exported \subseteq md[j]
          /\ make = "walk" => meta.state # "absent"
          /\ make \in {"create", "creating"} \/ meta.state = "absent" => exported = {}

\* A pass on disk or in a script's memory goes back to a log that passed.
EarnedOK == \A t \in Tests :
              /\ trr[t].val.passed = "True" => t \in earned
              /\ Passes(log[t]) => t \in earned
              /\ \A j \in TestJobs : j[2] = t /\ ~Idle(j) /\ mem[t].passed = "True" => t \in earned

\* Nothing has been made when there is no metadata yet.
Untouched == meta.state = "absent" \/ make \in {"create", "creating"} =>
               stamps = {} /\ cached = {} /\ \A j \in Jobs : ~fresh[j]

\* The stamp of collect_results.py stands for a report in which all tests passed,
\* and is remade only once it is older than the merged coverage: when the results
\* of a test are newer than it, they are newer than the coverage as well.
Fcov == <<"fcov", Whole>>
Merge == <<"merge", Whole>>
AllReported == \A t \in Tests : report[t] = "PASS"
OrderOK == /\ \A j \in EndJobs : fresh[j] \/ j \in cached => j \in stamps
           /\ fresh[Fcov] /\ Merge \in stamps /\ Collect \in stamps => fresh[Collect]
           /\ Collect \in stamps /\ Collect \notin cached /\ Collect \notin settled =>
                Merge \notin stamps \/ (Fcov \notin cached /\ Fcov \notin settled)
           /\ Merge \in settled => Merge \in stamps
GreenOK == /\ Collect \in stamps \/ Collect \in settled => AllReported
           /\ ~Idle(Collect) => Collect \notin stamps
           /\ pc[Collect] \in {"dump", "tool"} /\ AllPassed => AllReported

IInv == /\ TypeOK /\ Quiet /\ SettleOK /\ LockOK /\ NoLostUpdate /\ TornWhileWritten
        /\ EarnedOK /\ PassWasEarned /\ Untouched /\ OrderOK /\ GreenOK /\ GreenMeansAllPassed

-----------------------------------------------------------------------------
(* Jobs and their prerequisites *)

LEMMA JobKinds ==
  /\ \A j \in WriterJobs : j[1] \in Writers /\ j[2] = Whole /\ j = <<j[1], Whole>>
  /\ \A j \in TestJobs : /\ j[1] \in {"gen", "bin", "sim", "check"} /\ j[2] \in Tests
                         /\ j = <<j[1], j[2]>> /\ j \notin WriterJobs
                         /\ j[1] = "gen" => j[2] \in Riscvdv
  /\ \A t \in Riscvdv : <<"gen", t>> \in TestJobs
  /\ \A t \in Tests : <<"bin", t>> \in TestJobs /\ <<"sim", t>> \in TestJobs /\ <<"check", t>> \in TestJobs
  /\ \A k \in Writers : <<k, Whole>> \in WriterJobs
  /\ NoJob \notin Jobs /\ Collect \in WriterJobs
  /\ Jobs = WriterJobs \cup TestJobs
  BY FlowAssumption DEF Jobs, WriterJobs, TestJobs, Writers, Steps, Tests, NoJob, Collect

LEMMA PrereqFacts ==
  /\ \A j \in Jobs : Prereqs[j] \subseteq Jobs
  /\ \A t \in Riscvdv : <<"gen", t>> \in Prereqs[<<"bin", t>>]
  /\ \A t \in Tests : /\ <<"bin", t>> \in Prereqs[<<"sim", t>>]
                      /\ <<"sim", t>> \in Prereqs[<<"check", t>>]
                      /\ <<"check", t>> \in Prereqs[Collect]
  /\ \A j \in EndJobs : \A k \in Jobs \ EndJobs : j \notin Prereqs[k]
<1>1. \A j \in Jobs : Prereqs[j] \subseteq Jobs
  <2> SUFFICES ASSUME NEW j \in Jobs, NEW p \in Prereqs[j] PROVE p \in Jobs
    OBVIOUS
  <2>1. Checks \subseteq TestJobs
    BY DEF Checks, TestJobs, Steps
  <2>2. \A k \in Writers : <<k, Whole>> \in Jobs
    BY JobKinds
  <2>3. j[1] \in {"gen", "bin", "sim", "check"} => j[2] \in Tests
    BY JobKinds DEF Writers
  <2>4. CASE j[1] = "bin"
    BY <2>3, <2>4, JobKinds DEF Prereqs
  <2>5. CASE j[1] = "sim"
    BY <2>2, <2>3, <2>5, JobKinds DEF Prereqs, Writers
  <2>6. CASE j[1] = "check"
    BY <2>3, <2>6, JobKinds DEF Prereqs
  <2>7. CASE j[1] \notin {"bin", "sim", "check"}
    BY <2>1, <2>2, <2>7, JobKinds DEF Prereqs, Writers
  <2> QED
    BY <2>4, <2>5, <2>6, <2>7
<1>2. \A t \in Riscvdv : <<"gen", t>> \in Prereqs[<<"bin", t>>]
  BY JobKinds DEF Prereqs, Tests
<1>3. \A t \in Tests : /\ <<"bin", t>> \in Prereqs[<<"sim", t>>]
                       /\ <<"sim", t>> \in Prereqs[<<"check", t>>]
  BY JobKinds DEF Prereqs
<1>4. \A t \in Tests : <<"check", t>> \in Prereqs[Collect]
  BY JobKinds DEF Prereqs, Checks, Collect
<1>5. ASSUME NEW j \in EndJobs, NEW k \in Jobs \ EndJobs PROVE j \notin Prereqs[k]
  <2>1. /\ j \in WriterJobs /\ j[1] \in {"fcov", "merge", "collect"} /\ j \notin TestJobs
    BY JobKinds DEF EndJobs, WriterJobs, Writers
  <2>2. k[1] \notin {"fcov", "merge", "collect"}
    BY JobKinds DEF EndJobs
  <2>3. Prereqs[k] \subseteq ({"cfg", "igb", "tb"} \X {Whole}) \cup ({"gen", "bin", "sim"} \X {k[2]})
    BY <2>2 DEF Prereqs
  <2> QED
    BY <2>1, <2>3
<1> QED
  BY <1>1, <1>2, <1>3, <1>4, <1>5

\* What is made of the results and the coverage.
LEMMA EndFacts ==
  /\ Fcov \in WriterJobs /\ Merge \in WriterJobs /\ Collect \in WriterJobs
  /\ EndJobs = {Fcov, Merge, Collect} /\ EndJobs \subseteq Jobs
  /\ Fcov # Merge /\ Fcov # Collect /\ Merge # Collect
  /\ Prereqs[Fcov] = Checks /\ Prereqs[Merge] = {Fcov} /\ Prereqs[Collect] = Checks \cup {Merge}
  /\ Checks \subseteq TestJobs
  /\ \A j \in Jobs : /\ Fcov \in Dependents[j] <=> j \in Checks
                     /\ Merge \in Dependents[j] <=> j = Fcov
                     /\ Collect \in Dependents[j] <=> j \in Checks \/ j = Merge
<1>1. /\ Fcov \in WriterJobs /\ Merge \in WriterJobs /\ Collect \in WriterJobs
      /\ EndJobs = {Fcov, Merge, Collect} /\ EndJobs \subseteq Jobs
      /\ Fcov # Merge /\ Fcov # Collect /\ Merge # Collect
  BY JobKinds DEF Fcov, Merge, Collect, EndJobs, Writers, WriterJobs
<1>2. Prereqs[Fcov] = Checks /\ Prereqs[Merge] = {Fcov} /\ Prereqs[Collect] = Checks \cup {Merge}
  BY <1>1, JobKinds DEF Prereqs, Fcov, Merge, Collect
<1>3. Checks \subseteq TestJobs
  BY DEF Checks, TestJobs, Steps
<1> QED
  BY <1>1, <1>2, <1>3, JobKinds DEF Dependents

LEMMA TouchFacts ==
  \A j \in Jobs : \A t \in Touches(j) :
    t \in Tests /\ (j = Collect \/ (j \in TestJobs /\ j = <<j[1], t>>))
<1> SUFFICES ASSUME NEW j \in Jobs, NEW t \in Touches(j), j # Collect
             PROVE  t \in Tests /\ j \in TestJobs /\ j = <<j[1], t>>
  BY DEF Touches
<1>1. t \in Tests /\ t = j[2]
  BY DEF Touches
<1>2. j \in TestJobs
  BY <1>1, JobKinds, FlowAssumption
<1> QED
  BY <1>1, <1>2, JobKinds

\* Two scripts on one test would be two steps of one chain.
LEMMA NoRaceFromOrder == ASSUME TypeOK, SettleOK PROVE NoTestRace
<1> SUFFICES ASSUME NEW j \in Active, NEW k \in Active, Touches(j) \cap Touches(k) # {}, j # k
             PROVE  FALSE
  BY DEF NoTestRace
<1> DEFINE Before(a, b) == \/ a[1] = "gen" /\ b[1] \in {"bin", "sim", "check", "collect"}
                           \/ a[1] = "bin" /\ b[1] \in {"sim", "check", "collect"}
                           \/ a[1] = "sim" /\ b[1] \in {"check", "collect"}
                           \/ a[1] = "check" /\ b[1] = "collect"
<1>1. ASSUME NEW a \in Active, NEW b \in Active, NEW t \in Touches(a) \cap Touches(b), Before(a, b)
      PROVE  FALSE
  <2>1. /\ a \in TestJobs /\ a = <<a[1], t>> /\ t \in Tests
        /\ b = Collect \/ (b \in TestJobs /\ b = <<b[1], t>>)
    BY <1>1, TouchFacts, JobKinds DEF Active, Collect
  <2>2. a \notin settled /\ Prereqs[b] \subseteq settled
    BY <1>1 DEF SettleOK, Active, Idle
  <2>3. <<"check", t>> \in settled \/ b = <<"check", t>> => <<"sim", t>> \in settled
    BY <2>1, <2>2, PrereqFacts DEF SettleOK
  <2>4. <<"sim", t>> \in settled \/ b = <<"sim", t>> => <<"bin", t>> \in settled
    BY <2>1, <2>2, PrereqFacts DEF SettleOK
  <2>5. t \in Riscvdv /\ (<<"bin", t>> \in settled \/ b = <<"bin", t>>) => <<"gen", t>> \in settled
    BY <2>1, <2>2, PrereqFacts DEF SettleOK
  <2>6. b = Collect => <<"check", t>> \in settled
    BY <2>1, <2>2, PrereqFacts
  <2>7. b = Collect \/ b = <<"bin", t>> \/ b = <<"sim", t>> \/ b = <<"check", t>>
    BY <2>1, <1>1, JobKinds
  <2>8. a[1] = "gen" => t \in Riscvdv
    BY <2>1, JobKinds
  <2> QED
    BY <1>1, <2>1, <2>2, <2>3, <2>4, <2>5, <2>6, <2>7, <2>8 DEF Collect
<1>2. PICK t : t \in Touches(j) \cap Touches(k)
  OBVIOUS
<1>3. Before(j, k) \/ Before(k, j)
  <2>1. /\ j = Collect \/ (j \in TestJobs /\ j = <<j[1], t>>)
        /\ k = Collect \/ (k \in TestJobs /\ k = <<k[1], t>>)
    BY <1>2, TouchFacts DEF Active
  <2>2. Collect[1] = "collect"
    BY DEF Collect
  <2>3. /\ j \in TestJobs => j[1] \in {"gen", "bin", "sim", "check"}
        /\ k \in TestJobs => k[1] \in {"gen", "bin", "sim", "check"}
    BY JobKinds
  <2>4. j \in TestJobs /\ k \in TestJobs => j[1] # k[1]
    BY <2>1, JobKinds
  <2> QED
    BY <2>1, <2>2, <2>3, <2>4
<1> QED
  BY <1>1, <1>2, <1>3

\* The results are collected after every test has been through all its steps.
LEMMA CollectAfterTests == ASSUME SettleOK, Prereqs[Collect] \subseteq settled
                           PROVE  TestJobs \subseteq settled
<1> SUFFICES ASSUME NEW j \in TestJobs PROVE j \in settled
  OBVIOUS
<1> DEFINE t == j[2]
<1>1. t \in Tests /\ j = <<j[1], t>> /\ (j[1] = "gen" => t \in Riscvdv)
  BY JobKinds
<1>2. <<"check", t>> \in settled
  BY <1>1, PrereqFacts
<1>3. <<"sim", t>> \in settled
  BY <1>1, <1>2, PrereqFacts DEF SettleOK
<1>4. <<"bin", t>> \in settled
  BY <1>1, <1>3, PrereqFacts DEF SettleOK
<1>5. t \in Riscvdv => <<"gen", t>> \in settled
  BY <1>4, PrereqFacts DEF SettleOK
<1> QED
  BY <1>1, <1>2, <1>3, <1>4, <1>5, JobKinds

-----------------------------------------------------------------------------
(* One step of one script *)

Phases == {"idle", "wait", "held", "dump", "dump2", "tool"}
WriterAct(j) == j \in WriterJobs /\ Writing(j)
TestAct(j) == /\ j \in TestJobs
              /\ \/ LaunchTest(j) \/ Dump(j)
                 \/ \E t \in Riscvdv : j = <<"gen", t>> /\ Generate(t)
                 \/ \E t \in Tests : \/ j = <<"bin", t>> /\ Compile(t)
                                     \/ j = <<"sim", t>> /\ (Simulate(t) \/ DumpSim(t))
                                     \/ j = <<"check", t>> /\ Check(t)

\* An export of the result of the test of j writes trr.yaml.
Exports(j) == /\ j \in TestJobs
              /\ fresh' = Newer(<<"check", j[2]>>, log[j[2]].exists)
              /\ UNCHANGED <<programs, stamps>>
              /\ \/ pc' = [pc EXCEPT ![j] = "tool"] /\ UNCHANGED walk
                 \/ Settle(j) /\ cached' \in {cached, cached \ Dependents[j]}

\* What it does to make's walk.
Moves(j) == /\ ~Idle(j) \/ Considers(j)
            /\ make' = make /\ exit_code' = exit_code
            /\ \/ \E x \in Phases \ {"idle"} : Continue(j, x)
               \/ Fail(j)
               \/ Succeed(j) \/ Exports(j)
               \/ \E x \in Phases \ {"idle"} : j[1] \in {"gen", "sim"} /\ Write(j, x)

LEMMA WriterMoves == ASSUME TypeOK, NEW j, WriterAct(j) PROVE j \in Jobs /\ Moves(j)
<1> USE DEF WriterAct, Moves, Idle, Phases
<1>0. j \in Jobs
  BY JobKinds
<1>1. CASE Touch(j)
  BY <1>0, <1>1 DEF Touch, Starts, Succeed, Settle
<1>2. CASE LaunchWriter(j)
  BY <1>0, <1>2 DEF LaunchWriter, Starts, Continue, walk
<1>3. CASE Enter(j)
  BY <1>0, <1>3 DEF Enter, Continue, Fail, walk
<1>4. CASE Alarm(j)
  BY <1>0, <1>4 DEF Alarm, Fail
<1>5. CASE Body(j)
  BY <1>0, <1>5 DEF Body, Continue, walk
<1>6. CASE Leave(j)
  BY <1>0, <1>6 DEF Leave, Continue, walk
<1>7. CASE Tool(j)
  BY <1>0, <1>7 DEF Tool, Succeed, Settle, Fail
<1> QED
  BY <1>1, <1>2, <1>3, <1>4, <1>5, <1>6, <1>7 DEF Writing

LEMMA LogExists == \A l \in Logs : l.exists \in BOOLEAN
<1>1. \A l \in [trace : Seq(TraceLines), lines : Seq(Lines), exists : {TRUE}] : l.exists = TRUE
  OBVIOUS
<1>2. NoLog.exists = FALSE
  BY DEF NoLog
<1> QED
  BY <1>1, <1>2, Zenon DEF Logs

LEMMA TestMoves == ASSUME TypeOK, NEW j, TestAct(j) PROVE j \in Jobs /\ Moves(j)
<1> USE DEF Moves, Idle, Phases
<1>0. j \in Jobs
  BY JobKinds DEF TestAct
<1>1. CASE LaunchTest(j)
  BY <1>0, <1>1 DEF LaunchTest, Starts, Continue, Fail, walk
<1>2. CASE Dump(j)
  <2>1. Exports(j) /\ make' = make /\ exit_code' = exit_code /\ pc[j] = "dump"
    BY <1>2 DEF Dump, Exports, Settle, walk, TestAct
  <2> QED
    BY <1>0, <2>1
<1>3. ASSUME NEW t \in Riscvdv, j = <<"gen", t>>, Generate(t) PROVE Moves(j)
  BY <1>0, <1>3 DEF Generate, Continue, Write, Fail, walk
<1>5. ASSUME NEW t \in Tests, j = <<"bin", t>>, Compile(t) PROVE Moves(j)
  BY <1>0, <1>5 DEF Compile, Succeed, Settle, Fail
<1>6. ASSUME NEW t \in Tests, j = <<"sim", t>>, Simulate(t) PROVE Moves(j)
  BY <1>0, <1>6 DEF Simulate, Simulated, Kept, Replaced, Continue, Write, walk
<1>7. ASSUME NEW t \in Tests, j = <<"sim", t>>, DumpSim(t) PROVE Moves(j)
  <2>1. Exports(j) /\ make' = make /\ exit_code' = exit_code /\ pc[j] = "dump2"
    BY <1>7 DEF DumpSim, Exports, Settle, TestAct
  <2> QED
    BY <2>1
<1>8. ASSUME NEW t \in Tests, j = <<"check", t>>, Check(t) PROVE Moves(j)
  BY <1>0, <1>8 DEF Check, Continue, Fail, walk
<1> QED
  BY <1>0, <1>1, <1>2, <1>3, <1>5, <1>6, <1>7, <1>8 DEF TestAct

LEMMA NewerTyped == ASSUME TypeOK, NEW j, NEW b \in BOOLEAN PROVE Newer(j, b) \in [Jobs -> BOOLEAN]
  BY DEF TypeOK, Newer

\* The walk stays in order.
LEMMA MoveSettles == ASSUME TypeOK, Quiet, SettleOK, NEW j \in Jobs, Moves(j)
  PROVE  /\ make = "walk" /\ j \notin settled
         /\ SettleOK'
         /\ pc' \in [Jobs -> Phases] /\ \A k \in Jobs : k # j => pc'[k] = pc[k]
         /\ settled \subseteq settled' /\ settled' \subseteq settled \cup {j}
         /\ settled' \subseteq Jobs /\ cached' \subseteq cached /\ failed' \in BOOLEAN
         /\ fresh' \in [Jobs -> BOOLEAN] /\ programs' \subseteq Riscvdv /\ stamps' \subseteq EndJobs
<1>0. /\ make = "walk" /\ j \notin settled /\ Prereqs[j] \subseteq settled
      /\ pc \in [Jobs -> Phases] /\ fresh \in [Jobs -> BOOLEAN]
      /\ settled \subseteq Jobs /\ failed \in BOOLEAN
      /\ programs \subseteq Riscvdv /\ stamps \subseteq EndJobs
  BY DEF Moves, Considers, Quiet, SettleOK, Idle, TypeOK, Phases
<1> DEFINE Walked == /\ pc' \in [Jobs -> Phases] /\ \A k \in Jobs : k # j => pc'[k] = pc[k]
                     /\ settled' = settled \/ (settled' = settled \cup {j} /\ pc'[j] = "idle")
                     /\ cached' \subseteq cached /\ failed' \in BOOLEAN
                     /\ fresh' \in [Jobs -> BOOLEAN] /\ programs' \subseteq Riscvdv
                     /\ stamps' \subseteq EndJobs
<1>1. ASSUME NEW x \in Phases, Continue(j, x) PROVE Walked
  BY <1>0, <1>1 DEF Continue, walk, times
<1>2. ASSUME Fail(j) PROVE Walked
  BY <1>0, <1>2 DEF Fail, Phases, times
<1>3. ASSUME Settle(j) PROVE /\ pc' \in [Jobs -> Phases] /\ \A k \in Jobs : k # j => pc'[k] = pc[k]
                             /\ settled' = settled \cup {j} /\ pc'[j] = "idle" /\ failed' = failed
  BY <1>0, <1>3 DEF Settle, Phases
<1>4. ASSUME Succeed(j) PROVE Walked
  <2>1. stamps' \subseteq EndJobs
    BY <1>0, <1>4 DEF Succeed
  <2> QED
    BY <1>0, <1>3, <1>4, <2>1, NewerTyped DEF Succeed
<1>5. ASSUME NEW x \in Phases, Write(j, x) PROVE Walked
  <2>1. programs' \subseteq Riscvdv
    BY <1>0, <1>5, JobKinds DEF Write
  <2> QED
    BY <1>0, <1>5, <2>1, NewerTyped DEF Write
<1>6. ASSUME Exports(j) PROVE Walked
  <2>1. log[j[2]].exists \in BOOLEAN
    BY <1>6, JobKinds, LogExists DEF Exports, TypeOK
  <2>2. fresh' \in [Jobs -> BOOLEAN] /\ programs' = programs /\ stamps' = stamps
    BY <1>6, <2>1, NewerTyped DEF Exports
  <2>3. CASE pc' = [pc EXCEPT ![j] = "tool"] /\ UNCHANGED walk
    BY <1>0, <2>2, <2>3 DEF walk, Phases
  <2>4. CASE Settle(j) /\ cached' \in {cached, cached \ Dependents[j]}
    BY <1>0, <1>3, <2>2, <2>4
  <2> QED
    BY <1>6, <2>3, <2>4 DEF Exports
<1>7. Walked
  BY <1>1, <1>2, <1>4, <1>5, <1>6 DEF Moves
<1>8. SettleOK'
  BY <1>0, <1>7 DEF SettleOK, Idle
<1> QED
  BY <1>0, <1>7, <1>8

-----------------------------------------------------------------------------
(* What the two kinds of script leave alone *)

LEMMA WriterFrame == ASSUME NEW j, WriterAct(j)
                     PROVE  UNCHANGED <<trr, log, earned, mem, makes, crashes>>
  BY DEF WriterAct, Writing, Touch, LaunchWriter, Enter, Alarm, Body, Leave, Tool, results, bounds

LEMMA TestFrame == ASSUME NEW j, TestAct(j)
                   PROVE  UNCHANGED <<meta, lock, md, exported, report, makes, crashes>>
  BY DEF TestAct, LaunchTest, Dump, Generate, Compile, Simulate, Simulated, Replaced, Kept, DumpSim, Check,
         results, bounds

LEMMA NewResultOK == NewResult \in Results /\ NewResult.passed # "True"
  BY DEF NewResult, Results, Failure_Modes

\* The checker gives a mode, and passes a test only for a log that passes.
LEMMA CompareOK == ASSUME NEW r \in Results, NEW l
  PROVE  /\ compare_test_run(r, l) \in Results
         /\ compare_test_run(r, l).passed = "True" => r.passed = "True" \/ Passes(l)
<1> DEFINE uvm == check_ibex_uvm_log(l.lines)
<1>1. uvm.failure_mode \in Failure_Modes
  BY DEF check_ibex_uvm_log, Failure_Modes
<1> HIDE DEF uvm
<1>2. compare_test_run(r, l) =
        CASE r.failure_mode = "TIMEOUT" -> [r EXCEPT !.passed = "False"]
          [] r.failure_mode # "TIMEOUT" /\ NoTrace(l)
               -> [passed |-> "False", failure_mode |-> "FILE_ERROR"]
          [] r.failure_mode # "TIMEOUT" /\ ~NoTrace(l) /\ uvm.passed
               -> [r EXCEPT !.passed = "True"]
          [] OTHER -> [r EXCEPT !.failure_mode = uvm.failure_mode]
  BY DEF compare_test_run, uvm
<1>3. ~NoTrace(l) /\ uvm.passed => Passes(l)
  BY DEF Passes, uvm
<1>4. CASE r.failure_mode = "TIMEOUT"
  BY <1>2, <1>4 DEF Results
<1>5. CASE r.failure_mode # "TIMEOUT" /\ NoTrace(l)
  BY <1>2, <1>5 DEF Results, Failure_Modes
<1>6. CASE r.failure_mode # "TIMEOUT" /\ ~NoTrace(l) /\ uvm.passed
  BY <1>2, <1>3, <1>6 DEF Results
<1>7. CASE r.failure_mode # "TIMEOUT" /\ ~NoTrace(l) /\ ~uvm.passed
  BY <1>1, <1>2, <1>7 DEF Results
<1> QED
  BY <1>4, <1>5, <1>6, <1>7

-----------------------------------------------------------------------------
(* A test's result: types, and where a pass comes from *)

Stored == [state : {"absent", "ok", "torn"}, val : Results]
ResultsTyped == trr \in [Tests -> Stored] /\ log \in [Tests -> Logs] /\ mem \in [Tests -> Results]
                /\ earned \subseteq Tests

LEMMA TestResults == ASSUME TypeOK, Quiet, SettleOK, EarnedOK, NEW j, TestAct(j)
                     PROVE  ResultsTyped' /\ EarnedOK'
<1> DEFINE t == j[2]
<1>0. /\ j \in TestJobs /\ j \in Jobs /\ t \in Tests
      /\ \A k \in Jobs : k # j => pc'[k] = pc[k]
  BY TestMoves, MoveSettles, JobKinds DEF TestAct
<1>1. /\ trr \in [Tests -> Stored] /\ log \in [Tests -> Logs] /\ mem \in [Tests -> Results]
      /\ earned \subseteq Tests
  BY DEF TypeOK, Stored
<1>2. NewResult \in Results /\ NewResult.passed # "True"
  BY NewResultOK
<1>3. \A v \in Results : [state |-> "ok", val |-> v] \in Stored /\ [state |-> "torn", val |-> v] \in Stored
  BY DEF Stored
\* Enough: the job at hand keeps a passed result only where it was earned.
<1>4. ASSUME NEW e, earned' = e, earned \subseteq e, e \subseteq Tests,
             \A u \in Tests : u # t => trr'[u] = trr[u] /\ log'[u] = log[u] /\ mem'[u] = mem[u],
             trr'[t].val.passed = "True" => t \in e,
             mem'[t].passed = "True" /\ ~Idle(j)' => t \in e,
             Passes(log'[t]) => t \in e,
             mem'[t].passed = "True" => t \in e \/ mem'[t] = mem[t]
      PROVE  EarnedOK'
  <2> SUFFICES ASSUME NEW u \in Tests
               PROVE  /\ trr'[u].val.passed = "True" => u \in e
                      /\ Passes(log'[u]) => u \in e
                      /\ \A k \in TestJobs : k[2] = u /\ ~Idle(k)' /\ mem'[u].passed = "True" => u \in e
    BY <1>4 DEF EarnedOK, Passes
  <2>1. CASE u # t
    BY <1>0, <1>4, <2>1, JobKinds DEF EarnedOK, Idle
  <2>2. CASE u = t
    <3>1. ASSUME NEW k \in TestJobs, k[2] = t, ~Idle(k)', mem'[t].passed = "True" PROVE t \in e
      BY <1>0, <1>4, <3>1, JobKinds DEF EarnedOK, Idle
    <3> QED
      BY <1>4, <2>2, <3>1
  <2> QED
    BY <2>1, <2>2
<1>12. \A u \in Tests : SimLogs[u] \subseteq Logs /\ CutLogs \subseteq Logs
  BY FlowAssumption
<1> HIDE DEF t
<1> USE DEF Opened, Export, Forget
<1>5. CASE LaunchTest(j)
  <2>1. CASE Fail(j) /\ UNCHANGED <<trr, mem>>
    <3>1. /\ trr' = trr /\ mem' = mem /\ log' = log /\ earned' = earned /\ pc'[j] = "idle"
      BY <1>0, <1>5, <2>1 DEF LaunchTest, Fail, results, TypeOK
    <3> QED
      BY <1>0, <1>1, <1>4, <3>1 DEF EarnedOK, ResultsTyped, Idle
  <2>2. CASE ~(Fail(j) /\ UNCHANGED <<trr, mem>>)
    <3>1. /\ mem' = [mem EXCEPT ![t] = trr[t].val] /\ log' = log /\ earned' = earned
          /\ trr' = trr \/ trr' = [trr EXCEPT ![t] = [state |-> "torn", val |-> NewResult]]
      BY <1>5, <2>2 DEF LaunchTest, results, t
    <3>2. trr[t] \in Stored /\ trr[t].val \in Results
      BY <1>0, <1>1 DEF Stored
    <3>3. ResultsTyped'
      BY <1>0, <1>1, <1>2, <1>3, <3>1, <3>2 DEF ResultsTyped
    <3> QED
      BY <1>0, <1>1, <1>2, <1>4, <3>1, <3>2, <3>3 DEF EarnedOK
  <2> QED
    BY <2>1, <2>2
<1>6. CASE Dump(j)
  <2>1. /\ trr' = [trr EXCEPT ![t] = [state |-> "ok", val |-> mem[t]]] /\ log' = log
        /\ earned' = earned /\ ~Idle(j)
        /\ mem' = mem \/ mem' = [mem EXCEPT ![t] = NewResult]
    BY <1>6 DEF Dump, results, Idle, t
  <2> QED
    BY <1>0, <1>1, <1>2, <1>3, <1>4, <2>1 DEF EarnedOK, ResultsTyped, t
<1>7. ASSUME NEW u \in Riscvdv, j = <<"gen", u>>, Generate(u) PROVE ResultsTyped' /\ EarnedOK'
  <2>1. /\ \/ trr' = trr
           \/ trr' = [trr EXCEPT ![t] = [state |-> "torn", val |-> NewResult]]
        /\ log' = log /\ earned' = earned /\ ~Idle(j)
        /\ mem' = mem \/ mem' = [mem EXCEPT ![t] = NewResult]
    BY <1>7 DEF Generate, results, Idle, t
  <2>2. ResultsTyped'
    <3>1. trr' \in [Tests -> Stored]
      <4>1. [state |-> "torn", val |-> NewResult] \in Stored
        BY <1>2, <1>3
      <4> QED
        BY <1>1, <2>1, <4>1
    <3>2. mem' \in [Tests -> Results]
      BY <1>0, <1>1, <1>2, <2>1
    <3> QED
      BY <1>1, <2>1, <3>1, <3>2 DEF ResultsTyped
  <2>3. \A v \in Tests : v # t => trr'[v] = trr[v] /\ log'[v] = log[v] /\ mem'[v] = mem[v]
    BY <1>0, <1>1, <2>1
  <2>4. trr'[t].val.passed = "True" => t \in earned'
    BY <1>0, <1>1, <1>2, <2>1 DEF EarnedOK, t
  <2>5. mem'[t].passed = "True" => t \in earned'
    BY <1>0, <1>1, <1>2, <2>1 DEF EarnedOK, t
  <2>6. Passes(log'[t]) => t \in earned'
    BY <1>0, <1>1, <2>1 DEF EarnedOK
  <2> QED
    BY <1>0, <1>1, <1>4, <2>1, <2>2, <2>3, <2>4, <2>5, <2>6
<1>8. ASSUME NEW u \in Tests, j = <<"bin", u>>, Compile(u) PROVE ResultsTyped' /\ EarnedOK'
  <2>1. /\ trr' = trr /\ log' = log /\ earned' = earned /\ ~Idle(j) /\ mem' = mem
    BY <1>8 DEF Compile, results, Idle
  <2> QED
    BY <1>0, <1>1, <1>4, <2>1 DEF EarnedOK, ResultsTyped, t
<1>9. ASSUME NEW u \in Tests, j = <<"sim", u>>, NEW b, Simulated(u, b)
      PROVE  ResultsTyped' /\ EarnedOK'
  <2>0. PICK l \in Logs : /\ log' = [log EXCEPT ![t] = l]
                          /\ earned' = IF Passes(l) THEN earned \cup {t} ELSE earned
    <3>1. CASE Kept(u)
      <4>1. log' = [log EXCEPT ![t] = log[t]] /\ earned' = earned /\ log[t] \in Logs
        BY <1>0, <1>1, <3>1 DEF Kept
      <4>2. Passes(log[t]) => earned \cup {t} = earned
        BY <1>0 DEF EarnedOK
      <4> QED
        BY <4>1, <4>2
    <3>2. ASSUME NEW l \in Logs, Replaced(u, l)
          PROVE  /\ log' = [log EXCEPT ![t] = l]
                 /\ earned' = IF Passes(l) THEN earned \cup {t} ELSE earned
      BY <1>9, <3>2 DEF Replaced, t
    <3> QED
      BY <1>9, <1>12, <3>1, <3>2 DEF Simulated
  <2>1. /\ mem' = [mem EXCEPT ![t].failure_mode = IF b THEN "TIMEOUT" ELSE @]
        /\ trr' = [trr EXCEPT ![t] = [state |-> "torn", val |-> NewResult]]
        /\ ~Idle(j)
    BY <1>9 DEF Simulated, Idle, t
  <2>2. mem'[t] \in Results /\ mem'[t].passed = mem[t].passed /\ mem' \in [Tests -> Results]
    BY <1>0, <1>1, <2>1 DEF Results, Failure_Modes
  <2>3. ResultsTyped'
    BY <1>0, <1>1, <1>2, <1>3, <2>0, <2>1, <2>2 DEF ResultsTyped
  <2>4. \A v \in Tests : v # t => trr'[v] = trr[v] /\ log'[v] = log[v] /\ mem'[v] = mem[v]
    BY <1>0, <1>1, <2>0, <2>1, <2>2
  <2>5. trr'[t].val.passed = "True" => t \in earned'
    BY <1>0, <1>1, <1>2, <2>0, <2>1, <2>2 DEF EarnedOK, t
  <2>6. mem'[t].passed = "True" => t \in earned'
    BY <1>0, <1>1, <1>2, <2>0, <2>1, <2>2 DEF EarnedOK, t
  <2>7. Passes(log'[t]) => t \in earned'
    BY <1>0, <1>1, <2>0, <2>1, <2>2 DEF EarnedOK
  <2> QED
    BY <1>0, <1>1, <1>4, <2>0, <2>1, <2>2, <2>3, <2>4, <2>5, <2>6, <2>7
<1>10. ASSUME NEW u \in Tests, j = <<"sim", u>>, DumpSim(u) PROVE ResultsTyped' /\ EarnedOK'
  <2>1. /\ trr' = [trr EXCEPT ![t] = [state |-> "ok", val |-> mem[t]]] /\ log' = log
        /\ earned' = earned /\ ~Idle(j) /\ mem' = [mem EXCEPT ![t] = NewResult]
    BY <1>10 DEF DumpSim, results, Idle, t
  <2> QED
    BY <1>0, <1>1, <1>2, <1>3, <1>4, <2>1 DEF EarnedOK, ResultsTyped, t
<1>11. ASSUME NEW u \in Tests, j = <<"check", u>>, Check(u) PROVE ResultsTyped' /\ EarnedOK'
  <2> DEFINE c == compare_test_run(mem[t], log[t])
  <2>1. c \in Results /\ (c.passed = "True" => mem[t].passed = "True" \/ Passes(log[t]))
    BY <1>0, <1>1, CompareOK
  <2>2. /\ log' = log /\ earned' = earned /\ ~Idle(j)
        /\ \/ trr' = trr /\ mem' = [mem EXCEPT ![t] = NewResult]
           \/ /\ trr' = [trr EXCEPT ![t] = [state |-> "torn", val |-> NewResult]]
              /\ mem' = [mem EXCEPT ![t] = c]
    BY <1>11 DEF Check, results, Idle, t
  <2> HIDE DEF c
  <2>3. ResultsTyped'
    BY <1>0, <1>1, <1>2, <1>3, <2>1, <2>2 DEF ResultsTyped
  <2>4. \A v \in Tests : v # t => trr'[v] = trr[v] /\ log'[v] = log[v] /\ mem'[v] = mem[v]
    BY <1>0, <1>1, <2>1, <2>2
  <2>5. trr'[t].val.passed = "True" => t \in earned'
    BY <1>0, <1>1, <1>2, <2>1, <2>2 DEF EarnedOK, t
  <2>6. mem'[t].passed = "True" => t \in earned'
    BY <1>0, <1>1, <1>2, <2>1, <2>2 DEF EarnedOK, t
  <2>7. Passes(log'[t]) => t \in earned'
    BY <1>0, <1>1, <2>1, <2>2 DEF EarnedOK
  <2> QED
    BY <1>0, <1>1, <1>4, <2>1, <2>2, <2>3, <2>4, <2>5, <2>6, <2>7
<1> QED
  BY <1>5, <1>6, <1>7, <1>8, <1>9, <1>10, <1>11 DEF TestAct, Simulate

-----------------------------------------------------------------------------
(* The metadata under its lock *)

MetaTyped == /\ meta \in [state : {"absent", "ok", "torn"}, fields : SUBSET Jobs]
             /\ lock \in Jobs \cup {NoJob} /\ md \in [Jobs -> SUBSET Jobs] /\ exported \subseteq Jobs
MetaOK == MetaTyped /\ LockOK /\ NoLostUpdate /\ TornWhileWritten

LEMMA TestMeta == ASSUME TypeOK, Quiet, SettleOK, LockOK, NoLostUpdate, TornWhileWritten,
                         NEW j, TestAct(j)
                  PROVE  MetaOK'
<1>1. /\ \A k \in WriterJobs : pc'[k] = pc[k]
      /\ make' = make /\ make = "walk"
  BY TestMoves, MoveSettles, JobKinds DEF TestAct, Moves
<1>2. UNCHANGED <<meta, lock, md, exported, crashes>>
  BY TestFrame
<1> QED
  BY <1>1, <1>2 DEF MetaOK, MetaTyped, TypeOK, LockOK, NoLostUpdate, TornWhileWritten

LEMMA WriterMeta == ASSUME TypeOK, Quiet, SettleOK, LockOK, NoLostUpdate, TornWhileWritten,
                           NEW j, WriterAct(j)
                    PROVE  MetaOK'
<1>0. /\ j \in WriterJobs /\ j \in Jobs /\ make' = make /\ make = "walk" /\ crashes' = crashes
      /\ \A k \in Jobs : k # j => pc'[k] = pc[k]
      /\ WriterJobs \subseteq Jobs /\ NoJob \notin Jobs
  BY WriterMoves, MoveSettles, WriterFrame, JobKinds DEF WriterAct, Moves
<1>1. MetaTyped /\ pc \in [Jobs -> Phases]
  BY DEF TypeOK, MetaTyped, Phases
\* Steps that leave the file, the lock and the loaded copies alone.
<1>2. ASSUME UNCHANGED <<meta, lock, md, exported>>,
             pc[j] \notin {"held", "dump"}, pc'[j] \notin {"held", "dump"}
      PROVE  MetaOK'
  BY <1>0, <1>1, <1>2 DEF MetaOK, MetaTyped, LockOK, NoLostUpdate, TornWhileWritten
<1>3. CASE Touch(j)
  BY <1>0, <1>1, <1>2, <1>3 DEF Touch, Starts, Considers, Succeed, Settle
<1>4. CASE LaunchWriter(j)
  BY <1>0, <1>1, <1>2, <1>4 DEF LaunchWriter, Starts, Considers, Continue
<1>5. CASE Alarm(j)
  BY <1>0, <1>1, <1>2, <1>5 DEF Alarm, Fail
<1>6. CASE Tool(j)
  BY <1>0, <1>1, <1>2, <1>6 DEF Tool, Fail, Succeed, Settle
<1>7. CASE Enter(j)
  <2>1. CASE meta.state = "torn"
    BY <1>0, <1>1, <1>2, <1>7, <2>1 DEF Enter, Fail
  <2>2. CASE meta.state # "torn"
    <3>1. /\ lock = NoJob /\ lock' = j /\ md' = [md EXCEPT ![j] = meta.fields]
          /\ pc'[j] = "held" /\ UNCHANGED <<meta, exported>>
      BY <1>0, <1>1, <1>7, <2>2 DEF Enter, Continue
    <3>2. meta.state = "ok" /\ meta.fields \in SUBSET Jobs
      BY <1>0, <1>1, <2>2 DEF MetaTyped, LockOK
    <3>3. MetaTyped'
      BY <1>0, <1>1, <3>1, <3>2 DEF MetaTyped
    <3>4. LockOK'
      BY <1>0, <1>1, <3>1, <3>2 DEF MetaTyped, LockOK
    <3>5. NoLostUpdate' /\ TornWhileWritten'
      BY <3>1, <3>2 DEF NoLostUpdate, TornWhileWritten
    <3> QED
      BY <3>3, <3>4, <3>5 DEF MetaOK
  <2> QED
    BY <2>1, <2>2
<1>8. CASE Body(j)
  <2>1. /\ meta' = [state |-> "torn", fields |-> {}]
        /\ pc[j] = "held" /\ pc'[j] = "dump" /\ UNCHANGED <<lock, md, exported>>
    BY <1>0, <1>1, <1>8 DEF Body, Continue
  <2>2. lock = j /\ meta.state = "ok" /\ md[j] = meta.fields /\ exported \subseteq md[j]
    BY <1>0, <2>1 DEF LockOK, NoLostUpdate
  <2>3. MetaTyped'
    BY <1>1, <2>1 DEF MetaTyped
  <2>4. LockOK'
    BY <1>0, <2>1, <2>2 DEF LockOK
  <2>5. NoLostUpdate' /\ TornWhileWritten'
    BY <1>0, <2>1 DEF NoLostUpdate, TornWhileWritten
  <2> QED
    BY <2>3, <2>4, <2>5 DEF MetaOK
<1>9. CASE Leave(j)
  <2>1. /\ meta' = [state |-> "ok", fields |-> md[j] \cup {j}]
        /\ exported' = exported \cup {j} /\ lock' = NoJob /\ md' = [md EXCEPT ![j] = {}]
        /\ pc[j] = "dump" /\ pc'[j] = "tool"
    BY <1>0, <1>1, <1>9 DEF Leave, Continue
  <2>2. lock = j /\ exported \subseteq md[j]
    BY <1>0, <2>1 DEF LockOK
  <2>3. MetaTyped'
    BY <1>0, <1>1, <2>1 DEF MetaTyped
  <2>4. LockOK'
    BY <1>0, <2>1, <2>2 DEF LockOK
  <2>5. NoLostUpdate' /\ TornWhileWritten'
    BY <2>1, <2>2 DEF NoLostUpdate, TornWhileWritten
  <2> QED
    BY <2>3, <2>4, <2>5 DEF MetaOK
<1> QED
  BY <1>3, <1>4, <1>5, <1>6, <1>7, <1>8, <1>9 DEF WriterAct, Writing

-----------------------------------------------------------------------------
(* The report *)

\* The times of the last targets stay in order.
LEMMA MoveOrder == ASSUME TypeOK, Quiet, SettleOK, OrderOK, NEW j \in Jobs, Moves(j)
                   PROVE  OrderOK'
<1>0. /\ j \notin settled /\ settled \subseteq settled' /\ settled' \subseteq settled \cup {j}
      /\ cached' \subseteq cached
  BY MoveSettles
<1>1. /\ fresh \in [Jobs -> BOOLEAN] /\ EndJobs = {Fcov, Merge, Collect} /\ EndJobs \subseteq Jobs
      /\ Fcov # Merge /\ Fcov # Collect /\ Merge # Collect
  BY EndFacts DEF TypeOK
<1>2. ASSUME \A e \in EndJobs : /\ fresh'[e] = fresh[e] /\ (e \in cached' <=> e \in cached)
                                /\ (e \in settled' <=> e \in settled),
             stamps' = stamps
      PROVE  OrderOK'
  BY <1>1, <1>2 DEF OrderOK
\* When a test has a new result, the coverage and the report are both older.
<1>3. ASSUME \A e \in EndJobs : /\ fresh'[e] => fresh[e]
                                /\ (e \in settled' <=> e \in settled),
             \/ (Collect \in cached' <=> Collect \in cached)
             \/ Fcov \notin cached' /\ Fcov \notin settled,
             ~fresh'[Fcov], stamps' = stamps
      PROVE  OrderOK'
  BY <1>0, <1>1, <1>3 DEF OrderOK
<1>4. \A k \in Jobs : Newer(j, TRUE)[k] = IF k = j THEN TRUE ELSE fresh[k] /\ k \notin Dependents[j]
  BY DEF Newer
<1>5. CASE Fail(j) \/ \E x : Continue(j, x)
  BY <1>2, <1>5 DEF Fail, Continue, walk, times
<1>6. ASSUME NEW x, Write(j, x), j[1] \in {"gen", "sim"} PROVE OrderOK'
  <2>1. j \notin EndJobs /\ j \notin Checks
    BY <1>6 DEF EndJobs, Checks
  <2>2. \A e \in EndJobs : e \notin Dependents[j]
    BY <1>1, <2>1, EndFacts
  <2> QED
    BY <1>1, <1>2, <1>4, <1>6, <2>1, <2>2 DEF Write
<1>7. ASSUME Exports(j) PROVE OrderOK'
  <2> DEFINE c == <<"check", j[2]>>
  <2>1. c \in Checks /\ c \in Jobs /\ j \notin EndJobs /\ c \notin EndJobs
    BY <1>1, <1>7, JobKinds, EndFacts DEF Exports, Checks
  <2>2. \A e \in EndJobs : fresh'[e] = (fresh[e] /\ e \notin Dependents[c])
    BY <1>1, <1>7, <2>1 DEF Exports, Newer
  <2>3. ~fresh'[Fcov] /\ stamps' = stamps
    BY <1>1, <1>7, <2>1, <2>2, EndFacts DEF Exports
  <2>4. \/ (Collect \in cached' <=> Collect \in cached)
        \/ Fcov \notin cached' /\ Fcov \notin settled
    <3>1. CASE j \in Checks
      <4>1. Fcov \notin settled
        BY <1>0, <1>1, <3>1, EndFacts DEF SettleOK
      <4> QED
        BY <1>7, <3>1, <4>1, EndFacts DEF Exports, walk
    <3>2. CASE j \notin Checks
      BY <1>1, <1>7, <2>1, <3>2, EndFacts DEF Exports, walk
    <3> QED
      BY <3>1, <3>2
  <2> QED
    BY <1>0, <1>1, <1>3, <2>1, <2>2, <2>3, <2>4
<1>8. ASSUME Succeed(j) PROVE OrderOK'
  <2>1. /\ cached' = cached \ Dependents[j] /\ settled' = settled \cup {j}
        /\ \A k \in Jobs : fresh'[k] = IF k = j THEN TRUE ELSE fresh[k] /\ k \notin Dependents[j]
        /\ stamps' = IF j \in EndJobs THEN (stamps \ Dependents[j]) \cup {j} ELSE stamps
    BY <1>4, <1>8 DEF Succeed, Settle
  <2>0. /\ \A e \in EndJobs : fresh[e] \/ e \in cached => e \in stamps
        /\ fresh[Fcov] /\ Merge \in stamps /\ Collect \in stamps => fresh[Collect]
        /\ Merge \in settled => Merge \in stamps
    BY DEF OrderOK
  <2>2. CASE j = Fcov
    <3>1. Merge \notin settled
      BY <1>0, <1>1, <2>2, EndFacts DEF SettleOK
    <3>2. Merge \in Dependents[j] /\ Collect \notin Dependents[j]
      BY <1>1, <2>2, JobKinds, EndFacts
    <3>3. /\ Merge \notin stamps' /\ Merge \notin settled' /\ ~fresh'[Merge] /\ Merge \notin cached'
          /\ Fcov \in stamps' /\ (Collect \in stamps => Collect \in stamps')
          /\ (fresh'[Collect] => fresh[Collect])
      BY <1>1, <2>1, <2>2, <3>1, <3>2
    <3>4. \A e \in EndJobs : fresh'[e] \/ e \in cached' => e \in stamps'
      BY <1>0, <1>1, <2>0, <3>3
    <3> QED
      BY <3>3, <3>4 DEF OrderOK
  <2>3. CASE j = Merge
    <3>1. Collect \in Dependents[j] /\ Fcov \notin Dependents[j]
      BY <1>1, <2>3, JobKinds, EndFacts
    <3>2. /\ Collect \notin stamps' /\ Merge \in stamps' /\ ~fresh'[Collect] /\ Collect \notin cached'
          /\ (Fcov \in stamps => Fcov \in stamps') /\ (fresh'[Fcov] => fresh[Fcov])
      BY <1>1, <2>1, <2>3, <3>1
    <3>3. \A e \in EndJobs : fresh'[e] \/ e \in cached' => e \in stamps'
      BY <1>0, <1>1, <2>0, <3>2
    <3> QED
      BY <3>2, <3>3 DEF OrderOK
  <2>4. CASE j = Collect
    <3>0. Fcov \notin Dependents[j] /\ Merge \notin Dependents[j]
      BY <1>1, <2>4, JobKinds, EndFacts
    <3>1. /\ Collect \in stamps' /\ fresh'[Collect] /\ Collect \in settled'
          /\ \A e \in {Fcov, Merge} : /\ (e \in stamps => e \in stamps') /\ (fresh'[e] => fresh[e])
                                      /\ (e \in settled' <=> e \in settled)
      BY <1>1, <2>1, <2>4, <3>0
    <3>2. \A e \in EndJobs : fresh'[e] \/ e \in cached' => e \in stamps'
      BY <1>0, <1>1, <2>0, <3>1
    <3>3. Merge \in settled' => Merge \in stamps'
      BY <1>1, <2>0, <3>1
    <3> QED
      BY <3>1, <3>2, <3>3 DEF OrderOK
  <2>5. CASE j \in Checks
    <3>1. j \notin EndJobs /\ Fcov \notin settled
      BY <1>0, <1>1, <2>5, JobKinds, EndFacts DEF SettleOK
    <3> QED
      BY <1>1, <1>3, <2>1, <2>5, <3>1, EndFacts
  <2>6. CASE j \notin EndJobs /\ j \notin Checks
    <3>1. \A e \in EndJobs : e \notin Dependents[j]
      BY <1>1, <2>6, EndFacts
    <3> QED
      BY <1>1, <1>2, <2>1, <2>6, <3>1
  <2> QED
    BY <1>1, <2>2, <2>3, <2>4, <2>5, <2>6
<1> QED
  BY <1>5, <1>6, <1>7, <1>8 DEF Moves

\* A script other than collect_results.py, which leaves the report alone.
LEMMA OtherGreen == ASSUME TypeOK, Quiet, SettleOK, GreenOK, NEW j \in Jobs, j # Collect, Moves(j),
                           report' = report, trr' = trr \/ j \in TestJobs
                    PROVE  GreenOK'
<1>0. /\ Collect \in Jobs /\ pc'[Collect] = pc[Collect]
      /\ (Collect \in settled' <=> Collect \in settled)
  BY MoveSettles, JobKinds
<1>1. j \in TestJobs => pc[Collect] = "idle"
  BY <1>0, MoveSettles, CollectAfterTests DEF SettleOK, Idle
<1>2. Collect \in stamps' => Collect \in stamps
  BY DEF Moves, Continue, Fail, Succeed, Exports, Write, times
<1>3. AllReported' <=> AllReported
  BY DEF AllReported
<1>4. pc[Collect] # "idle" => (AllPassed' <=> AllPassed)
  BY <1>1 DEF AllPassed
<1> QED
  BY <1>0, <1>2, <1>3, <1>4 DEF GreenOK, Idle

LEMMA CollectGreen == ASSUME TypeOK, Quiet, SettleOK, OrderOK, GreenOK, WriterAct(Collect)
                      PROVE  GreenOK'
<1>0. /\ Collect \in Jobs /\ Collect \notin settled /\ trr' = trr
      /\ pc \in [Jobs -> Phases]
  BY WriterMoves, MoveSettles, WriterFrame, JobKinds DEF TypeOK, Phases
<1>1. (AllPassed' <=> AllPassed) /\ (report' = report => (AllReported' <=> AllReported))
  BY <1>0 DEF AllPassed, AllReported
<1>2. CASE Touch(Collect)
  BY <1>2 DEF Touch, Collect
<1>3. CASE LaunchWriter(Collect)
  <2>1. /\ Collect \notin cached /\ Prereqs[Collect] \subseteq settled
        /\ pc'[Collect] = "wait" /\ UNCHANGED <<report, stamps, settled>>
    BY <1>0, <1>3 DEF LaunchWriter, Starts, Considers, Continue, walk, times, results
  <2>2. Merge \in settled /\ Fcov \in settled
    BY <2>1, EndFacts DEF SettleOK
  <2>3. Collect \notin stamps
    BY <1>0, <2>1, <2>2 DEF OrderOK
  <2> QED
    BY <1>0, <1>1, <2>1, <2>3 DEF GreenOK, Idle
<1>4. CASE Enter(Collect) \/ Alarm(Collect)
  <2>1. /\ ~Idle(Collect) /\ pc'[Collect] \in {"held", "idle"}
        /\ UNCHANGED <<report, stamps, settled>>
    BY <1>0, <1>4 DEF Enter, Alarm, Continue, Fail, walk, times, results, Idle
  <2> QED
    BY <1>0, <1>1, <2>1 DEF GreenOK, Idle
<1>5. CASE Body(Collect)
  <2>1. /\ ~Idle(Collect) /\ pc'[Collect] = "dump" /\ UNCHANGED <<stamps, settled>>
        /\ Readable => report' = [t \in Tests |-> Verdict(trr[t].val)]
    BY <1>0, <1>5 DEF Body, Continue, walk, times, Idle
  <2>2. AllPassed => AllReported'
    BY <2>1 DEF AllPassed, AllReported, Readable, Verdict
  <2> QED
    BY <1>0, <1>1, <2>1, <2>2 DEF GreenOK, Idle
<1>6. CASE Leave(Collect)
  <2>1. /\ pc[Collect] = "dump" /\ pc'[Collect] = "tool" /\ UNCHANGED <<report, stamps, settled>>
    BY <1>0, <1>6 DEF Leave, Continue, walk, times, results
  <2> QED
    BY <1>0, <1>1, <2>1 DEF GreenOK, Idle
<1>7. CASE Tool(Collect)
  <2>1. pc[Collect] = "tool" /\ pc'[Collect] = "idle" /\ report' = report
    BY <1>0, <1>7 DEF Tool, Succeed, Settle, Fail, results
  <2>2. CASE Fail(Collect)
    BY <1>0, <1>1, <2>1, <2>2 DEF Fail, times, GreenOK, Idle
  <2>3. CASE AllPassed /\ Succeed(Collect)
    <3>1. AllReported' /\ Collect \in settled'
      BY <1>1, <2>1, <2>3 DEF GreenOK, Succeed, Settle
    <3> QED
      BY <2>1, <3>1 DEF GreenOK, Idle
  <2> QED
    BY <1>7, <2>2, <2>3 DEF Tool
<1> QED
  BY <1>2, <1>3, <1>4, <1>5, <1>6, <1>7 DEF WriterAct, Writing

-----------------------------------------------------------------------------
(* The inductive invariant *)

\* The conjuncts of TypeOK no lemma above speaks of.
RestTyped == /\ report \in [Tests -> {"none", "PASS", "FAILED", "FAILED {T}"}]
             /\ make \in {"idle", "create", "creating", "walk"}
             /\ exit_code \in {"none", "0", "2", "killed"}
             /\ makes \in Nat /\ crashes \in Nat
WalkTyped == /\ fresh \in [Jobs -> BOOLEAN] /\ programs \subseteq Riscvdv /\ stamps \subseteq EndJobs
             /\ pc \in [Jobs -> Phases]
             /\ settled \subseteq Jobs /\ cached \subseteq Jobs /\ failed \in BOOLEAN

LEMMA TypeParts == TypeOK <=> ResultsTyped /\ MetaTyped /\ RestTyped /\ WalkTyped
  BY DEF TypeOK, ResultsTyped, MetaTyped, RestTyped, WalkTyped, Stored, Phases

LEMMA InitOK == Init => IInv
<1> SUFFICES ASSUME Init PROVE IInv
  OBVIOUS
<1>1. TypeOK
  <2>1. NoLog \in Logs
    BY DEF NoLog, Logs
  <2>2. [t \in Tests |-> [state |-> "absent", val |-> NewResult]] \in [Tests -> Stored]
    BY NewResultOK DEF Stored
  <2>3. ResultsTyped
    BY <2>1, <2>2, NewResultOK DEF Init, ResultsTyped
  <2>4. MetaTyped /\ WalkTyped
    BY DEF Init, MetaTyped, WalkTyped, Phases
  <2>5. RestTyped
    BY DEF Init, RestTyped
  <2> QED
    BY <2>3, <2>4, <2>5, TypeParts
<1>2. ~Passes(NoLog)
  BY DEF Passes, NoTrace, NoLog
<1>3. EarnedOK
  BY <1>2, NewResultOK DEF Init, EarnedOK, Idle, TestJobs, Jobs
<1>4. Quiet /\ SettleOK
  BY DEF Init, Quiet, SettleOK, Idle
<1>5. LockOK /\ NoLostUpdate /\ TornWhileWritten
  BY JobKinds DEF Init, LockOK, NoLostUpdate, TornWhileWritten
<1>6. PassWasEarned /\ Untouched /\ OrderOK /\ GreenOK /\ GreenMeansAllPassed
  BY JobKinds, EndFacts DEF Init, PassWasEarned, Untouched, OrderOK, GreenOK, GreenMeansAllPassed, Idle
<1> QED
  BY <1>1, <1>3, <1>4, <1>5, <1>6 DEF IInv

\* A step of a script keeps the parts about the walk, whatever the script.
LEMMA JobStep == ASSUME IInv, NEW j \in Jobs, Moves(j), UNCHANGED <<makes, crashes>>
                 PROVE  /\ WalkTyped' /\ SettleOK' /\ make = "walk" /\ make' = "walk"
                        /\ exit_code = "none" /\ exit_code' = "none"
                        /\ makes' \in Nat /\ crashes' \in Nat
                        /\ Quiet' /\ OrderOK' /\ GreenMeansAllPassed'
<1>1. /\ make = "walk" /\ SettleOK' /\ WalkTyped'
  BY MoveSettles DEF IInv, WalkTyped, TypeOK
<1>2. make' = "walk" /\ exit_code = "none" /\ exit_code' = "none"
  BY <1>1 DEF Moves, IInv, Quiet
<1>3. OrderOK'
  BY MoveOrder DEF IInv
<1> QED
  BY <1>1, <1>2, <1>3 DEF IInv, TypeOK, Quiet, GreenMeansAllPassed

LEMMA TestStepOK == ASSUME IInv, NEW j, TestAct(j) PROVE IInv'
<1>1. j \in Jobs /\ Moves(j) /\ j \in TestJobs /\ j # Collect
  BY TestMoves, JobKinds DEF IInv, TestAct
<1>2. UNCHANGED <<meta, lock, md, exported, report, makes, crashes>>
  BY TestFrame
<1>3. /\ WalkTyped' /\ SettleOK' /\ make' = "walk" /\ exit_code' = "none"
      /\ makes' \in Nat /\ crashes' \in Nat /\ Quiet' /\ OrderOK' /\ GreenMeansAllPassed'
  BY <1>1, <1>2, JobStep
<1>4. ResultsTyped' /\ EarnedOK'
  BY TestResults DEF IInv
<1>5. MetaOK'
  BY TestMeta DEF IInv
<1>6. GreenOK'
  BY <1>1, <1>2, OtherGreen DEF IInv
<1>7. RestTyped'
  BY <1>2, <1>3 DEF RestTyped, IInv, TypeOK
<1>8. PassWasEarned'
  <2>1. earned \subseteq earned'
    BY DEF TestAct, LaunchTest, Dump, Generate, Compile, Simulate, Simulated, Replaced, Kept, DumpSim,
           Check, results
  <2> QED
    BY <1>2, <2>1 DEF PassWasEarned, IInv
<1>9. TypeOK'
  BY <1>3, <1>4, <1>5, <1>7, TypeParts, PTL DEF MetaOK
<1>10. Untouched'
  BY <1>3, <1>5 DEF Untouched, MetaOK, LockOK
<1> QED
  BY <1>3, <1>4, <1>5, <1>6, <1>8, <1>9, <1>10 DEF IInv, MetaOK

LEMMA WriterStepOK == ASSUME IInv, NEW j, WriterAct(j) PROVE IInv'
<1>1. j \in Jobs /\ Moves(j) /\ j \in WriterJobs
  BY WriterMoves DEF IInv, WriterAct
<1>2. UNCHANGED <<trr, log, earned, mem, makes, crashes>>
  BY WriterFrame
<1>3. /\ WalkTyped' /\ SettleOK' /\ make' = "walk" /\ exit_code' = "none"
      /\ makes' \in Nat /\ crashes' \in Nat /\ Quiet' /\ OrderOK' /\ GreenMeansAllPassed'
  BY <1>1, <1>2, JobStep
<1>4. MetaOK'
  BY WriterMeta DEF IInv
<1>5. ResultsTyped' /\ EarnedOK'
  <2>1. \A k \in TestJobs : k \in Jobs /\ k # j
    BY <1>1, JobKinds
  <2>2. \A k \in TestJobs : pc'[k] = pc[k]
    BY <1>1, <2>1, MoveSettles DEF IInv
  <2>3. ResultsTyped
    BY TypeParts DEF IInv
  <2> QED
    BY <1>2, <2>2, <2>3 DEF IInv, ResultsTyped, EarnedOK, Idle
<1>6. \/ report' = report
      \/ j = Collect /\ Readable /\ report' = [t \in Tests |-> Verdict(trr[t].val)]
  BY DEF WriterAct, Writing, Touch, LaunchWriter, Enter, Alarm, Body, Leave, Tool, results
<1>7. RestTyped' /\ PassWasEarned'
  <2>1. \A t \in Tests : report'[t] = "PASS" => t \in earned'
    BY <1>2, <1>6 DEF IInv, PassWasEarned, EarnedOK, Verdict
  <2>2. report' \in [Tests -> {"none", "PASS", "FAILED", "FAILED {T}"}]
    BY <1>6 DEF IInv, TypeOK, Verdict
  <2> QED
    BY <1>3, <2>1, <2>2 DEF RestTyped, PassWasEarned
<1>8. GreenOK'
  <2>1. CASE j = Collect
    BY <2>1, CollectGreen DEF IInv
  <2>2. CASE j # Collect
    BY <1>1, <1>2, <1>6, <2>2, OtherGreen DEF IInv
  <2> QED
    BY <2>1, <2>2
<1>9. TypeOK'
  BY <1>3, <1>4, <1>5, <1>7, TypeParts, PTL DEF MetaOK
<1>10. Untouched'
  BY <1>3, <1>4 DEF Untouched, MetaOK, LockOK
<1> QED
  BY <1>3, <1>4, <1>5, <1>7, <1>8, <1>9, <1>10 DEF IInv, MetaOK

\* The steps of make itself and of its surroundings.
LEMMA MakeStepOK ==
  ASSUME IInv, MakeStart \/ CreateTests \/ CreateDone \/ Skip \/ MakeEnd
  PROVE  IInv'
<1> USE DEF IInv
<1>0. WriterJobs \subseteq Jobs /\ TestJobs \subseteq Jobs /\ Collect \in Jobs
  BY JobKinds
<1>1. CASE MakeStart
  <2>1. /\ UNCHANGED <<meta, lock, trr, fresh, programs, stamps, log, report, earned, pc, md, mem,
                       crashes, exported>>
        /\ make = "idle" /\ makes' = makes + 1 /\ failed' = FALSE /\ exit_code' = "none"
        /\ make' = IF meta.state = "absent" THEN "create" ELSE "walk"
        /\ settled' = IF meta.state = "torn" THEN Jobs \ EndJobs ELSE {}
        /\ cached' = IF meta.state = "torn" THEN stamps ELSE {j \in Jobs : fresh[j]}
    BY <1>1 DEF MakeStart, results, times
  <2>2. TypeOK'
    <3>1. makes' \in Nat
      <4>1. makes \in Nat /\ makes' = makes + 1
        BY <2>1 DEF TypeOK
      <4> QED
        BY <4>1
    <3>2. settled' \subseteq Jobs /\ cached' \subseteq Jobs
      BY <2>1, EndFacts DEF TypeOK
    <3>3. make' \in {"idle", "create", "creating", "walk"}
      BY <2>1
    <3> QED
      BY <2>1, <3>1, <3>2, <3>3 DEF TypeOK
  <2>3. SettleOK'
    <3>1. \A j \in Jobs \ EndJobs : Prereqs[j] \subseteq Jobs \ EndJobs
      BY PrereqFacts
    <3>2. \A j \in settled' : Prereqs[j] \subseteq settled'
      BY <2>1, <3>1
    <3> QED
      BY <2>1, <3>2 DEF Quiet, SettleOK, Idle
  <2>4. meta.state = "absent" => settled' = {} /\ cached' = {}
    BY <2>1 DEF Untouched
  <2>5. Quiet' /\ EarnedOK' /\ PassWasEarned' /\ Untouched'
    BY <1>0, <2>1, <2>4 DEF Quiet, EarnedOK, PassWasEarned, Idle, Untouched
  <2>6. LockOK' /\ NoLostUpdate' /\ TornWhileWritten'
    BY <1>0, <2>1 DEF Quiet, LockOK, NoLostUpdate, TornWhileWritten, Idle
  <2>7. Collect \notin settled' /\ Merge \notin settled'
    BY <2>1, EndFacts
  <2>8. OrderOK'
    <3>1. CASE meta.state = "torn"
      BY <2>1, <2>7, <3>1 DEF OrderOK
    <3>2. CASE meta.state # "torn"
      <4>1. settled' = {} /\ cached' = {j \in Jobs : fresh[j]}
        BY <2>1, <3>2
      <4> QED
        BY <1>0, <2>1, <2>7, <4>1, EndFacts DEF OrderOK
    <3> QED
      BY <3>1, <3>2
  <2>9. GreenOK' /\ GreenMeansAllPassed'
    BY <1>0, <2>1, <2>7 DEF GreenOK, GreenMeansAllPassed, AllReported, AllPassed, Quiet, Idle
  <2> QED
    BY <2>2, <2>3, <2>5, <2>6, <2>8, <2>9
<1>2. CASE CreateTests
  <2>1. /\ trr' = [t \in Tests |-> [state |-> "ok", val |-> NewResult]]
        /\ meta' = [state |-> "torn", fields |-> {}] /\ make = "create" /\ make' = "creating"
        /\ UNCHANGED <<lock, fresh, programs, stamps, log, report, earned, exit_code, settled,
                       cached, failed, pc, md, mem, makes, crashes, exported>>
    BY <1>2 DEF CreateTests, results, times, bounds
  <2>2. trr' \in [Tests -> Stored]
    BY <2>1, NewResultOK DEF Stored
  <2>3. TypeOK'
    BY <2>1, <2>2 DEF TypeOK, Stored
  <2>4. Quiet' /\ SettleOK' /\ EarnedOK' /\ PassWasEarned'
    BY <1>0, <2>1, NewResultOK DEF Quiet, SettleOK, EarnedOK, PassWasEarned, Idle
  <2>5. LockOK' /\ NoLostUpdate' /\ TornWhileWritten'
    BY <1>0, <2>1 DEF Quiet, LockOK, NoLostUpdate, TornWhileWritten, Idle
  <2>6. GreenOK' /\ GreenMeansAllPassed' /\ Untouched' /\ OrderOK'
    BY <1>0, <2>1 DEF GreenOK, GreenMeansAllPassed, AllReported, Quiet, Idle, Untouched, OrderOK
  <2> QED
    BY <2>3, <2>4, <2>5, <2>6
<1>3. CASE CreateDone
  <2>1. /\ meta' = [state |-> "ok", fields |-> {}] /\ make = "creating" /\ make' = "walk"
        /\ UNCHANGED <<lock, trr, fresh, programs, stamps, log, report, earned, exit_code, settled,
                       cached, failed, pc, md, mem, makes, crashes, exported>>
    BY <1>3 DEF CreateDone, results, times, bounds
  <2>2. TypeOK'
    BY <2>1 DEF TypeOK
  <2>3. Quiet' /\ SettleOK' /\ EarnedOK' /\ PassWasEarned'
    BY <2>1 DEF Quiet, SettleOK, EarnedOK, PassWasEarned, Idle
  <2>4. LockOK' /\ NoLostUpdate' /\ TornWhileWritten'
    BY <1>0, <2>1 DEF Quiet, LockOK, NoLostUpdate, TornWhileWritten, Idle
  <2>5. GreenOK' /\ GreenMeansAllPassed' /\ Untouched' /\ OrderOK'
    BY <2>1 DEF GreenOK, GreenMeansAllPassed, AllReported, AllPassed, Idle, Untouched, OrderOK
  <2> QED
    BY <2>2, <2>3, <2>4, <2>5
<1>4. CASE Skip
  <2> DEFINE done == {j \in cached : Considers(j)}
  <2>1. /\ done \subseteq cached /\ make = "walk"
        /\ \A j \in done : Considers(j)
        /\ settled' = settled \cup done
        /\ UNCHANGED <<meta, lock, trr, fresh, programs, stamps, log, report, earned, make, exit_code,
                       cached, failed, pc, md, mem, makes, crashes, exported>>
    BY <1>4 DEF Skip, Considers, results, times, bounds
  <2> HIDE DEF done
  <2>2. TypeOK'
    BY <2>1 DEF TypeOK
  <2>3. SettleOK'
    BY <2>1 DEF SettleOK, Considers, Idle
  <2>4. Quiet' /\ EarnedOK' /\ PassWasEarned' /\ LockOK' /\ NoLostUpdate' /\ TornWhileWritten'
    BY <2>1 DEF Quiet, EarnedOK, PassWasEarned, LockOK, NoLostUpdate, TornWhileWritten, Idle
  <2>5. \A e \in EndJobs : e \in done => e \in stamps
    BY <2>1 DEF OrderOK
  <2>6. OrderOK'
    BY <2>1, <2>5, EndFacts DEF OrderOK
  <2>7. GreenOK' /\ GreenMeansAllPassed' /\ Untouched'
    BY <2>1, <2>5, EndFacts DEF GreenOK, GreenMeansAllPassed, AllReported, AllPassed, Idle, Untouched
  <2> QED
    BY <2>2, <2>3, <2>4, <2>6, <2>7
<1>5. CASE MakeEnd
  <2>1. /\ make = "walk" /\ make' = "idle" /\ settled' = {} /\ cached' = {}
        /\ \A j \in Jobs : Idle(j)
        /\ failed \/ Collect \in settled
        /\ exit_code' = IF failed THEN "2" ELSE "0"
        /\ UNCHANGED <<meta, lock, trr, fresh, programs, stamps, log, report, earned, failed, pc, md,
                       mem, makes, crashes, exported>>
    BY <1>5 DEF MakeEnd, results, times, bounds, Active, Idle
  <2>2. TypeOK'
    BY <2>1 DEF TypeOK
  <2>3. lock = NoJob /\ meta.state # "absent" /\ ~(meta.state = "torn" /\ crashes = 0)
    BY <1>0, <2>1 DEF LockOK, TornWhileWritten, Idle
  <2>4. Quiet' /\ SettleOK' /\ EarnedOK' /\ PassWasEarned'
    BY <1>0, <2>1, <2>3 DEF Quiet, SettleOK, EarnedOK, PassWasEarned, Idle
  <2>5. LockOK' /\ NoLostUpdate' /\ TornWhileWritten'
    BY <1>0, <2>1, <2>3 DEF LockOK, NoLostUpdate, TornWhileWritten, Idle
  <2>6. GreenOK' /\ GreenMeansAllPassed'
    BY <1>0, <2>1 DEF GreenOK, GreenMeansAllPassed, AllReported, AllPassed, Idle
  <2>7. OrderOK' /\ Untouched'
    BY <2>1, <2>3 DEF OrderOK, Untouched
  <2> QED
    BY <2>2, <2>4, <2>5, <2>6, <2>7
<1> QED
  BY <1>1, <1>2, <1>3, <1>4, <1>5

LEMMA OutsideStepOK == ASSUME IInv, Crash \/ Clean \/ \E j \in Edited : Edit(j)
                       PROVE  IInv'
<1> USE DEF IInv
<1>0. /\ WriterJobs \subseteq Jobs /\ TestJobs \subseteq Jobs /\ Collect \in Jobs
      /\ Collect[1] = "collect" /\ NoJob \notin Jobs
  BY JobKinds DEF Collect
<1>1. CASE Crash
  <2>1. /\ make # "idle" /\ crashes' = crashes + 1 /\ make' = "idle" /\ exit_code' = "killed"
        /\ settled' = {} /\ cached' = {} /\ failed' = FALSE
        /\ pc' = [j \in Jobs |-> "idle"] /\ lock' = NoJob
        /\ md' = [j \in Jobs |-> {}] /\ mem' = [t \in Tests |-> NewResult]
        /\ UNCHANGED <<meta, trr, report, stamps, makes, exported>>
    BY <1>1 DEF Crash
  <2>2. PICK written \in SUBSET {j \in TestJobs : pc[j] = "tool" /\ j[1] # "check"} :
          \E left \in [{t \in Tests : <<"sim", t>> \in written} -> CutLogs] :
            /\ log' = [t \in Tests |-> IF t \in DOMAIN left THEN left[t] ELSE log[t]]
            /\ earned' = earned \cup {t \in DOMAIN left : Passes(left[t])}
            /\ fresh' = [j \in Jobs |->
                           j \in written \/ (fresh[j] /\ Prereqs[j] \cap written = {})]
            /\ programs' = programs \cup {t \in Riscvdv : <<"gen", t>> \in written}
    BY <1>1 DEF Crash
  <2>3. PICK left \in [{t \in Tests : <<"sim", t>> \in written} -> CutLogs] :
            /\ log' = [t \in Tests |-> IF t \in DOMAIN left THEN left[t] ELSE log[t]]
            /\ earned' = earned \cup {t \in DOMAIN left : Passes(left[t])}
            /\ fresh' = [j \in Jobs |->
                           j \in written \/ (fresh[j] /\ Prereqs[j] \cap written = {})]
            /\ programs' = programs \cup {t \in Riscvdv : <<"gen", t>> \in written}
    BY <2>2
  <2>4. log' \in [Tests -> Logs] /\ earned' \subseteq Tests /\ earned \subseteq earned'
    BY <2>3, FlowAssumption DEF TypeOK
  <2>11. fresh' \in [Jobs -> BOOLEAN] /\ programs' \subseteq Riscvdv
    BY <2>3 DEF TypeOK
  <2>12. /\ \A e \in EndJobs : fresh'[e] => fresh[e]
         /\ fresh[Collect] => fresh'[Collect]
    <3>1. \A e \in EndJobs : e \in Jobs /\ e \notin TestJobs
      BY EndFacts, JobKinds
    <3>2. \A j \in written : j \notin Checks /\ j # Merge
      BY EndFacts, JobKinds DEF Checks
    <3>3. Prereqs[Collect] \cap written = {}
      BY <3>2, EndFacts
    <3> QED
      BY <1>0, <2>3, <3>1, <3>3 DEF TypeOK
  <2>13. OrderOK'
    BY <2>1, <2>12, EndFacts DEF OrderOK
  <2>14. Untouched'
    <3>1. SUFFICES ASSUME meta.state = "absent" PROVE stamps = {} /\ \A j \in Jobs : ~fresh'[j]
      BY <2>1 DEF Untouched
    <3>2. \A j \in Jobs : Idle(j)
      BY <3>1 DEF Quiet, LockOK
    <3>3. written = {}
      BY <1>0, <3>2 DEF Idle
    <3> QED
      BY <2>3, <3>1, <3>3 DEF Untouched
  <2>5. TypeOK'
    <3>1. mem' \in [Tests -> Results]
      BY <2>1, NewResultOK
    <3>2. crashes' \in Nat
      <4>1. crashes \in Nat /\ crashes' = crashes + 1
        BY <2>1 DEF TypeOK
      <4> QED
        BY <4>1
    <3> QED
      BY <2>1, <2>4, <2>11, <3>1, <3>2 DEF TypeOK
  <2>6. Quiet' /\ SettleOK'
    BY <2>1 DEF Quiet, SettleOK, Idle
  <2>7. EarnedOK' /\ PassWasEarned'
    <3>1. \A t \in Tests : Passes(log[t])' => t \in earned'
      <4> SUFFICES ASSUME NEW t \in Tests, Passes(log'[t]) PROVE t \in earned'
        BY DEF Passes, NoTrace
      <4> QED
        BY <2>3 DEF EarnedOK
    <3>2. \A j \in TestJobs : Idle(j)'
      BY <1>0, <2>1 DEF Idle
    <3> QED
      BY <2>1, <2>4, <3>1, <3>2 DEF EarnedOK, PassWasEarned
  <2>8. LockOK'
    BY <1>0, <2>1 DEF LockOK
  <2>9. NoLostUpdate' /\ TornWhileWritten'
    <3>1. crashes \in Nat
      BY DEF TypeOK
    <3>2. crashes' # 0
      BY <2>1, <3>1
    <3> QED
      BY <2>1, <3>2 DEF NoLostUpdate, TornWhileWritten
  <2>10. GreenOK' /\ GreenMeansAllPassed'
    BY <1>0, <2>1 DEF GreenOK, GreenMeansAllPassed, AllReported, AllPassed, Idle
  <2> QED
    BY <2>5, <2>6, <2>7, <2>8, <2>9, <2>10, <2>13, <2>14
<1>2. CASE Clean
  <2>1. /\ make = "idle" /\ meta' = [state |-> "absent", fields |-> {}]
        /\ trr' = [t \in Tests |-> [state |-> "absent", val |-> NewResult]]
        /\ log' = [t \in Tests |-> NoLog] /\ fresh' = [j \in Jobs |-> FALSE]
        /\ programs' = {} /\ stamps' = {}
        /\ report' = [t \in Tests |-> "none"] /\ exit_code' = "none"
        /\ makes' = 0 /\ crashes' = 0 /\ exported' = {} /\ earned' = {} /\ failed' = FALSE
        /\ UNCHANGED <<lock, make, settled, cached, pc, md, mem>>
    BY <1>2 DEF Clean
  <2>2. TypeOK'
    <3>1. NoLog \in Logs
      BY DEF NoLog, Logs
    <3>2. trr' \in [Tests -> Stored] /\ log' \in [Tests -> Logs]
      BY <2>1, <3>1, NewResultOK DEF Stored
    <3>3. ResultsTyped' /\ MetaTyped'
      BY <2>1, <3>2 DEF TypeOK, ResultsTyped, MetaTyped
    <3>4. RestTyped' /\ WalkTyped'
      BY <2>1 DEF TypeOK, RestTyped, WalkTyped, Phases
    <3> QED
      BY <3>3, <3>4, TypeParts, PTL
  <2>3. Quiet' /\ SettleOK'
    BY <2>1 DEF Quiet, SettleOK, Idle
  <2>4. EarnedOK' /\ PassWasEarned'
    <3>1. ~Passes(NoLog)
      BY DEF Passes, NoTrace, NoLog
    <3>2. \A j \in TestJobs : Idle(j)'
      BY <1>0, <2>1 DEF Quiet, Idle
    <3>3. \A t \in Tests : ~Passes(log[t])'
      BY <2>1, <3>1 DEF Passes, NoTrace
    <3> QED
      BY <2>1, <3>2, <3>3, NewResultOK DEF EarnedOK, PassWasEarned
  <2>5. LockOK' /\ NoLostUpdate' /\ TornWhileWritten'
    BY <1>0, <2>1 DEF Quiet, LockOK, NoLostUpdate, TornWhileWritten, Idle
  <2>6. settled = {} /\ cached = {}
    BY <2>1 DEF Quiet
  <2>7. GreenOK' /\ GreenMeansAllPassed' /\ OrderOK' /\ Untouched'
    BY <1>0, <2>1, <2>6, EndFacts DEF GreenOK, GreenMeansAllPassed, Quiet, Idle, OrderOK, Untouched
  <2> QED
    BY <2>2, <2>3, <2>4, <2>5, <2>7
<1>3. ASSUME NEW e \in Edited, Edit(e) PROVE IInv'
  <2>1. /\ make = "idle" /\ fresh' = [fresh EXCEPT ![e] = FALSE] /\ e \in Jobs
        /\ stamps' = stamps \ {e}
        /\ UNCHANGED <<meta, lock, trr, programs, log, report, earned, make, exit_code, settled, cached,
                       failed, pc, md, mem, makes, crashes, exported>>
    BY <1>3, FlowAssumption DEF Edit, results, walk, bounds
  <2>2. TypeOK'
    BY <2>1 DEF TypeOK
  <2>3. Quiet' /\ SettleOK' /\ EarnedOK' /\ PassWasEarned'
    BY <2>1 DEF Quiet, SettleOK, EarnedOK, PassWasEarned, Idle
  <2>4. LockOK' /\ NoLostUpdate' /\ TornWhileWritten'
    BY <2>1 DEF LockOK, NoLostUpdate, TornWhileWritten
  <2>5. /\ \A k \in Jobs : fresh'[k] <=> fresh[k] /\ k # e
        /\ settled = {} /\ cached = {} /\ Fcov \in Jobs /\ EndJobs \subseteq Jobs
    BY <1>0, <2>1, EndFacts DEF TypeOK, Quiet
  <2>6. OrderOK' /\ Untouched'
    BY <1>0, <2>1, <2>5 DEF OrderOK, Untouched
  <2>7. GreenOK' /\ GreenMeansAllPassed'
    BY <1>0, <2>1 DEF GreenOK, GreenMeansAllPassed, AllReported, AllPassed, Idle
  <2> QED
    BY <2>2, <2>3, <2>4, <2>6, <2>7
<1> QED
  BY <1>1, <1>2, <1>3

LEMMA NextOK == ASSUME IInv, [Next]_vars PROVE IInv'
<1>1. ASSUME NEW j \in WriterJobs, Writing(j) PROVE IInv'
  BY <1>1, WriterStepOK DEF WriterAct
<1>2. ASSUME NEW j \in TestJobs, LaunchTest(j) \/ Dump(j) PROVE IInv'
  BY <1>2, TestStepOK DEF TestAct
<1>3. ASSUME NEW t \in Riscvdv, Generate(t) PROVE IInv'
  <2>1. TestAct(<<"gen", t>>)
    BY <1>3, JobKinds DEF TestAct
  <2> QED
    BY <2>1, TestStepOK
<1>4. ASSUME NEW t \in Tests, Compile(t) PROVE IInv'
  <2>1. TestAct(<<"bin", t>>)
    BY <1>4, JobKinds DEF TestAct
  <2> QED
    BY <2>1, TestStepOK
<1>5. ASSUME NEW t \in Tests, Simulate(t) \/ DumpSim(t) PROVE IInv'
  <2>1. TestAct(<<"sim", t>>)
    BY <1>5, JobKinds DEF TestAct
  <2> QED
    BY <2>1, TestStepOK
<1>6. ASSUME NEW t \in Tests, Check(t) PROVE IInv'
  <2>1. TestAct(<<"check", t>>)
    BY <1>6, JobKinds DEF TestAct
  <2> QED
    BY <2>1, TestStepOK
<1>7. CASE MakeStart \/ CreateTests \/ CreateDone \/ Skip \/ MakeEnd
  BY <1>7, MakeStepOK
<1>8. CASE Crash \/ Clean \/ \E j \in Edited : Edit(j)
  BY <1>8, OutsideStepOK
<1>9. CASE UNCHANGED vars
  <2>1. UNCHANGED <<meta, lock, trr, fresh, programs, stamps, log, report, earned, make, exit_code,
                    settled, cached, failed, pc, md, mem, makes, crashes, exported>>
    BY <1>9 DEF vars, results, times, walk, bounds
  <2>2. TypeOK'
    BY <2>1 DEF IInv, TypeOK
  <2>3. Quiet' /\ SettleOK' /\ LockOK' /\ NoLostUpdate' /\ TornWhileWritten'
    BY <2>1 DEF IInv, Quiet, SettleOK, LockOK, NoLostUpdate, TornWhileWritten, Idle
  <2>4. EarnedOK' /\ PassWasEarned' /\ Untouched' /\ OrderOK'
    BY <2>1 DEF IInv, EarnedOK, PassWasEarned, Untouched, OrderOK, Idle
  <2>5. GreenOK' /\ GreenMeansAllPassed'
    BY <2>1 DEF IInv, GreenOK, AllReported, AllPassed, GreenMeansAllPassed, Idle
  <2> QED
    BY <2>2, <2>3, <2>4, <2>5 DEF IInv
<1> QED
  BY <1>1, <1>2, <1>3, <1>4, <1>5, <1>6, <1>7, <1>8, <1>9 DEF Next, Progress, Outside

LEMMA InvariantHolds == Spec => []IInv
  BY InitOK, NextOK, PTL DEF Spec

-----------------------------------------------------------------------------

\* The files, the processes and make's own state always have their types.
THEOREM FlowTyped == Spec => []TypeOK
<1>1. IInv => TypeOK
  BY DEF IInv
<1> QED
  BY <1>1, InvariantHolds, PTL

\* No two scripts ever work on the result of one test, the caution of export(),
\* though nothing but the order of make's targets keeps them apart.
THEOREM TestsNotRaced == Spec => []NoTestRace
<1>1. IInv => NoTestRace
  BY NoRaceFromOrder DEF IInv
<1> QED
  BY <1>1, InvariantHolds, PTL

\* The lock of LockedMetadata suffices: no update of the metadata is lost, and
\* the file cannot be read only while it is written, or after a crash.
THEOREM MetadataIsKept == Spec => []MetadataKept
<1>1. IInv => MetadataKept
  BY DEF IInv, MetadataKept
<1> QED
  BY <1>1, InvariantHolds, PTL

\* A reported pass goes back to a log the checker accepted.
THEOREM PassesEarned == Spec => []PassWasEarned
<1>1. IInv => PassWasEarned
  BY DEF IInv
<1> QED
  BY <1>1, InvariantHolds, PTL

\* A make that succeeds, even with nothing to do, has a report of passes only.
THEOREM GreenIsAllPassed == Spec => []GreenMeansAllPassed
<1>1. IInv => GreenMeansAllPassed
  BY DEF IInv
<1> QED
  BY <1>1, InvariantHolds, PTL
-----------------------------------------------------------------------------
(* The report of the first make *)

\* The checker's verdict on a log is in a result, as far as a report tells.
Judged(x, l) == /\ x.passed = "True" => Passes(l)
                /\ x.passed # "True" /\ x.failure_mode # "TIMEOUT" => ~Passes(l)

\* In the first walk a test is undecided until its log has been checked, and the
\* check is not passed over: its target was not there when make started.
FirstWalk(t) ==
  LET C == <<"check", t>> IN
  /\ C \notin cached
  /\ report[t] # "none" => C \in settled
  /\ C \notin settled /\ pc[C] # "dump" =>
       /\ trr[t].val.passed = "None"
       /\ \A j \in TestJobs : j[2] = t /\ ~Idle(j) => mem[t].passed = "None"
  /\ pc[C] = "dump" => Judged(mem[t], log[t])
  /\ C \in settled => trr[t].state = "ok" /\ Judged(trr[t].val, log[t])

Honest(t) == /\ report[t] = "PASS" => Passes(log[t])
             /\ report[t] = "FAILED" => ~Passes(log[t])

Beginning == makes = 0 \/ (makes = 1 /\ make \in {"create", "creating"})
FirstOK ==
  /\ makes = 0 => make = "idle" /\ meta.state = "absent"
  /\ \A t \in Tests :
       /\ Beginning => report[t] = "none"
       /\ makes \in {0, 1} /\ make = "creating" => trr[t].val.passed = "None"
       /\ makes \in {0, 1} /\ make = "walk" => FirstWalk(t)
       /\ makes \in {0, 1} => Honest(t)

\* Once the log of a test is checked, or being checked, its other jobs are done.
LEMMA CheckIsLast ==
  ASSUME SettleOK, NEW t \in Tests, \/ <<"check", t>> \in settled
                                    \/ Prereqs[<<"check", t>>] \subseteq settled
  PROVE  \A j \in TestJobs : j[2] = t /\ j # <<"check", t>> => j \in settled /\ Idle(j)
<1>1. <<"sim", t>> \in settled
  BY PrereqFacts DEF SettleOK
<1>2. <<"bin", t>> \in settled
  BY <1>1, PrereqFacts DEF SettleOK
<1>3. t \in Riscvdv => <<"gen", t>> \in settled
  BY <1>2, PrereqFacts DEF SettleOK
<1> SUFFICES ASSUME NEW j \in TestJobs, j[2] = t, j # <<"check", t>>
             PROVE  j \in settled /\ Idle(j)
  OBVIOUS
<1>4. j \in settled
  BY <1>1, <1>2, <1>3, JobKinds
<1> QED
  BY <1>4, JobKinds DEF SettleOK

\* A job works on the files of its own test.
LEMMA TestLocal ==
  ASSUME TypeOK, NEW j, TestAct(j)
  PROVE  \A u \in Tests : u # j[2] => trr'[u] = trr[u] /\ log'[u] = log[u] /\ mem'[u] = mem[u]
<1> DEFINE t == j[2]
<1>0. t \in Tests
  BY JobKinds DEF TestAct
<1>1. /\ DOMAIN trr = Tests /\ DOMAIN log = Tests /\ DOMAIN mem = Tests
      /\ trr = [u \in Tests |-> trr[u]] /\ log = [u \in Tests |-> log[u]]
      /\ mem = [u \in Tests |-> mem[u]]
  BY DEF TypeOK
<1> DEFINE Local == /\ trr' = trr \/ \E x : trr' = [trr EXCEPT ![t] = x]
                    /\ mem' = mem \/ \E x : mem' = [mem EXCEPT ![t] = x]
                    /\ log' = log \/ \E x : log' = [log EXCEPT ![t] = x]
<1>2. Local
  <2> USE DEF Opened, Export, Forget, results
  <2>1. CASE LaunchTest(j)
    BY <2>1 DEF LaunchTest
  <2>2. CASE Dump(j)
    BY <2>2 DEF Dump
  <2>3. ASSUME NEW u \in Riscvdv, j = <<"gen", u>>, Generate(u) PROVE Local
    BY <2>3 DEF Generate
  <2>4. ASSUME NEW u \in Tests, j = <<"bin", u>>, Compile(u) PROVE Local
    BY <2>4 DEF Compile
  <2>5. ASSUME NEW u \in Tests, j = <<"sim", u>>, NEW b, Simulated(u, b) PROVE Local
    BY <2>5, Zenon DEF Simulated, Replaced, Kept
  <2>6. ASSUME NEW u \in Tests, j = <<"sim", u>>, DumpSim(u) PROVE Local
    BY <2>6 DEF DumpSim
  <2>7. ASSUME NEW u \in Tests, j = <<"check", u>>, Check(u) PROVE Local
    BY <2>7, Zenon DEF Check
  <2> QED
    BY <2>1, <2>2, <2>3, <2>4, <2>5, <2>6, <2>7 DEF TestAct, Simulate
<1> QED
  BY <1>0, <1>1, <1>2

\* A job before the check leaves a test undecided.
LEMMA UndecidedStep ==
  ASSUME TypeOK, NEW j, TestAct(j), j[1] # "check", trr[j[2]].val.passed = "None",
         ~Idle(j) => mem[j[2]].passed = "None"
  PROVE  /\ trr'[j[2]].val.passed = "None"
         /\ mem'[j[2]].passed = "None" \/ (mem'[j[2]] = mem[j[2]] /\ Idle(j)')
<1> DEFINE t == j[2]
           Undecided == /\ trr'[t].val.passed = "None"
                        /\ mem'[t].passed = "None" \/ (mem'[t] = mem[t] /\ Idle(j)')
<1>0. j \in TestJobs /\ j \in Jobs /\ t \in Tests
  BY JobKinds DEF TestAct
<1>1. /\ trr \in [Tests -> Stored] /\ mem \in [Tests -> Results] /\ pc \in [Jobs -> Phases]
      /\ NewResult.passed = "None"
  BY DEF TypeOK, Stored, Phases, NewResult
<1>2. ASSUME trr' = trr \/ trr' = [trr EXCEPT ![t] = [state |-> "torn", val |-> NewResult]],
             \/ mem' = [mem EXCEPT ![t] = trr[t].val]
             \/ mem' = [mem EXCEPT ![t] = NewResult]
             \/ mem' = mem /\ (~Idle(j) \/ Idle(j)')
      PROVE  Undecided
  BY <1>0, <1>1, <1>2
<1>3. ASSUME ~Idle(j), trr' = [trr EXCEPT ![t] = [state |-> "ok", val |-> mem[t]]],
             mem' = mem \/ mem' = [mem EXCEPT ![t] = NewResult]
      PROVE  Undecided
  BY <1>0, <1>1, <1>3
<1> HIDE DEF Undecided
<1> USE DEF Opened, Export, Forget
<1>4. ASSUME LaunchTest(j) PROVE Undecided
  <2>1. CASE Fail(j) /\ UNCHANGED <<trr, mem>>
    <3>1. Idle(j)'
      BY <1>0, <1>1, <2>1 DEF Fail, Idle
    <3> QED
      BY <1>2, <2>1, <3>1
  <2>2. CASE ~(Fail(j) /\ UNCHANGED <<trr, mem>>)
    <3>1. /\ mem' = [mem EXCEPT ![t] = trr[t].val]
          /\ trr' = trr \/ trr' = [trr EXCEPT ![t] = [state |-> "torn", val |-> NewResult]]
      BY <1>4, <2>2 DEF LaunchTest
    <3> QED
      BY <1>0, <1>1, <3>1 DEF Undecided
  <2> QED
    BY <2>1, <2>2
<1>5. ASSUME Dump(j) PROVE Undecided
  <2>1. /\ ~Idle(j) /\ trr' = [trr EXCEPT ![t] = [state |-> "ok", val |-> mem[t]]]
        /\ mem' = mem \/ mem' = [mem EXCEPT ![t] = NewResult]
    BY <1>5 DEF Dump, Idle
  <2> QED
    BY <1>0, <1>1, <2>1 DEF Undecided
<1>6. ASSUME NEW u \in Riscvdv, j = <<"gen", u>>, Generate(u) PROVE Undecided
  <2>1. /\ trr' = trr \/ trr' = [trr EXCEPT ![t] = [state |-> "torn", val |-> NewResult]]
        /\ ~Idle(j) /\ (mem' = mem \/ mem' = [mem EXCEPT ![t] = NewResult])
    BY <1>6 DEF Generate, Idle
  <2> QED
    BY <1>2, <2>1
<1>8. ASSUME NEW u \in Tests, j = <<"bin", u>>, Compile(u) PROVE Undecided
  BY <1>2, <1>8 DEF Compile, Idle
<1>9. ASSUME NEW u \in Tests, j = <<"sim", u>>, NEW b, Simulated(u, b) PROVE Undecided
  <2>1. /\ mem' = [mem EXCEPT ![t].failure_mode = IF b THEN "TIMEOUT" ELSE @]
        /\ trr' = [trr EXCEPT ![t] = [state |-> "torn", val |-> NewResult]]
        /\ ~Idle(j)
    BY <1>9 DEF Simulated, Idle
  <2>2. mem'[t].passed = mem[t].passed
    BY <1>0, <1>1, <2>1 DEF Results
  <2> QED
    BY <1>0, <1>1, <2>1, <2>2 DEF Undecided
<1>10. ASSUME NEW u \in Tests, j = <<"sim", u>>, DumpSim(u) PROVE Undecided
  BY <1>3, <1>10 DEF DumpSim, Idle
<1>11. Undecided
  <2>1. \A u \in Tests : j # <<"check", u>>
    OBVIOUS
  <2>2. ASSUME NEW u \in Tests, j = <<"sim", u>>, Simulate(u) PROVE Undecided
    BY <1>9, <2>2, Zenon DEF Simulate
  <2> QED
    BY <2>1, <1>4, <1>5, <1>6, <1>8, <2>2, <1>10, Zenon DEF TestAct
<1> QED
  BY <1>11 DEF Undecided

\* The check decides: an undecided result leaves it judged.
LEMMA CompareJudges == ASSUME NEW x \in Results, x.passed = "None", NEW l
                       PROVE  Judged(compare_test_run(x, l), l)
<1> DEFINE uvm == check_ibex_uvm_log(l.lines)
<1> HIDE DEF uvm
<1>1. compare_test_run(x, l) =
        CASE x.failure_mode = "TIMEOUT" -> [x EXCEPT !.passed = "False"]
          [] x.failure_mode # "TIMEOUT" /\ NoTrace(l)
               -> [passed |-> "False", failure_mode |-> "FILE_ERROR"]
          [] x.failure_mode # "TIMEOUT" /\ ~NoTrace(l) /\ uvm.passed
               -> [x EXCEPT !.passed = "True"]
          [] OTHER -> [x EXCEPT !.failure_mode = uvm.failure_mode]
  BY DEF compare_test_run, uvm
<1>2. Passes(l) <=> ~NoTrace(l) /\ uvm.passed
  BY DEF Passes, uvm
<1>3. CASE x.failure_mode = "TIMEOUT"
  BY <1>1, <1>3 DEF Results, Judged
<1>4. CASE x.failure_mode # "TIMEOUT" /\ NoTrace(l)
  BY <1>1, <1>2, <1>4 DEF Results, Judged
<1>5. CASE x.failure_mode # "TIMEOUT" /\ ~NoTrace(l) /\ uvm.passed
  BY <1>1, <1>2, <1>5 DEF Results, Judged
<1>6. CASE x.failure_mode # "TIMEOUT" /\ ~NoTrace(l) /\ ~uvm.passed
  BY <1>1, <1>2, <1>6 DEF Results, Judged
<1> QED
  BY <1>3, <1>4, <1>5, <1>6

LEMMA CheckStep ==
  ASSUME TypeOK, NEW t \in Tests, TestAct(<<"check", t>>)
  PROVE  LET C == <<"check", t>> IN
         /\ log' = log
         /\ \/ /\ pc[C] # "dump" /\ settled' = settled /\ trr' = trr /\ pc'[C] = "idle"
            \/ /\ pc[C] # "dump" /\ settled' = settled /\ trr' = trr /\ pc'[C] = "tool"
               /\ mem'[t] = trr[t].val
            \/ /\ pc[C] = "tool" /\ settled' = settled /\ pc'[C] = "dump"
               /\ trr'[t] = [state |-> "torn", val |-> NewResult]
               /\ mem'[t] = compare_test_run(mem[t], log[t])
            \/ /\ pc[C] = "dump" /\ settled' = settled \cup {C} /\ pc'[C] = "idle"
               /\ trr'[t] = [state |-> "ok", val |-> mem[t]]
<1> DEFINE C == <<"check", t>>
<1>0. C \in Jobs /\ C[1] = "check" /\ C[2] = t
  BY JobKinds
<1>1. /\ trr \in [Tests -> Stored] /\ mem \in [Tests -> Results] /\ pc \in [Jobs -> Phases]
  BY DEF TypeOK, Stored, Phases
<1> USE DEF Opened, Export, Forget, results
<1>2. CASE LaunchTest(C)
  <2>1. log' = log /\ pc[C] = "idle"
    BY <1>2 DEF LaunchTest, Starts, Considers
  <2>2. CASE Fail(C) /\ UNCHANGED <<trr, mem>>
    BY <1>0, <1>1, <2>1, <2>2 DEF Fail
  <2>3. CASE ~(Fail(C) /\ UNCHANGED <<trr, mem>>)
    <3>1. /\ mem' = [mem EXCEPT ![t] = trr[t].val] /\ trr' = trr /\ Continue(C, "tool")
      BY <1>0, <1>2, <2>3 DEF LaunchTest
    <3> QED
      BY <1>0, <1>1, <2>1, <3>1 DEF Continue, walk
  <2> QED
    BY <2>2, <2>3
<1>3. CASE Dump(C)
  <2>1. /\ log' = log /\ pc[C] = "dump" /\ Settle(C)
        /\ trr' = [trr EXCEPT ![t] = [state |-> "ok", val |-> mem[t]]]
    BY <1>0, <1>3 DEF Dump
  <2> QED
    BY <1>0, <1>1, <2>1 DEF Settle
<1>4. CASE Check(t)
  <2>1. log' = log /\ pc[C] = "tool"
    BY <1>4 DEF Check
  <2>2. CASE CheckRaises(mem[t], log[t])
    <3>1. Fail(C) /\ trr' = trr
      BY <1>4, <2>2 DEF Check
    <3> QED
      BY <1>0, <1>1, <2>1, <3>1 DEF Fail
  <2>3. CASE ~CheckRaises(mem[t], log[t])
    <3>1. /\ mem' = [mem EXCEPT ![t] = compare_test_run(mem[t], log[t])] /\ Continue(C, "dump")
          /\ trr' = [trr EXCEPT ![t] = [state |-> "torn", val |-> NewResult]]
      BY <1>4, <2>3 DEF Check
    <3> QED
      BY <1>0, <1>1, <2>1, <3>1 DEF Continue, walk
  <2> QED
    BY <2>2, <2>3
<1>5. LaunchTest(C) \/ Dump(C) \/ Check(t)
  BY <1>0 DEF TestAct
<1> QED
  BY <1>2, <1>3, <1>4, <1>5

LEMMA FirstTestStep == ASSUME IInv, FirstOK, NEW j, TestAct(j) PROVE FirstOK'
<1> DEFINE t == j[2]
<1>0. /\ j \in TestJobs /\ j \in Jobs /\ t \in Tests /\ Moves(j) /\ j = <<j[1], t>>
      /\ TypeOK /\ SettleOK /\ SettleOK' /\ Quiet
  BY TestMoves, TestStepOK, JobKinds DEF TestAct, IInv
<1>1. /\ make = "walk" /\ make' = make /\ j \notin settled
      /\ Prereqs[j] \subseteq settled
      /\ \A k \in Jobs : k # j => pc'[k] = pc[k]
  BY <1>0, MoveSettles DEF Moves, Considers, SettleOK, Idle
<1>2. UNCHANGED <<meta, report, makes>>
  BY TestFrame
<1>3. \A u \in Tests : u # t => trr'[u] = trr[u] /\ log'[u] = log[u] /\ mem'[u] = mem[u]
  BY <1>0, TestLocal
<1>4. /\ cached' \subseteq cached
      /\ settled \subseteq settled' /\ settled' \subseteq settled \cup {j}
  BY <1>0, MoveSettles
<1>5. SUFFICES ASSUME makes \in {0, 1}, NEW u \in Tests PROVE FirstWalk(u)' /\ Honest(u)'
  BY <1>1, <1>2 DEF FirstOK, Beginning
<1> DEFINE C == <<"check", u>>
<1>6. C \in TestJobs /\ C \in Jobs /\ C[1] = "check" /\ C[2] = u /\ TestJobs \subseteq Jobs
  BY JobKinds
<1>7. FirstWalk(u) /\ Honest(u)
  BY <1>1, <1>5 DEF FirstOK
<1>8. C \notin cached'
  BY <1>4, <1>6, <1>7 DEF FirstWalk
<1>9. report'[u] # "none" => C \in settled'
  BY <1>2, <1>4, <1>7 DEF FirstWalk
<1>10. CASE u # t
  <2>1. /\ trr'[u] = trr[u] /\ log'[u] = log[u] /\ mem'[u] = mem[u] /\ C # j
        /\ pc'[C] = pc[C] /\ (C \in settled' <=> C \in settled)
        /\ \A k \in TestJobs : k[2] = u => pc'[k] = pc[k]
    BY <1>1, <1>3, <1>4, <1>6, <1>10
  <2>2. Honest(u)'
    BY <1>2, <1>7, <2>1 DEF Honest
  <2>3. /\ C \notin settled' /\ pc'[C] # "dump" =>
             /\ trr'[u].val.passed = "None"
             /\ \A k \in TestJobs : k[2] = u /\ ~Idle(k)' => mem'[u].passed = "None"
        /\ pc'[C] = "dump" => Judged(mem'[u], log'[u])
        /\ C \in settled' => trr'[u].state = "ok" /\ Judged(trr'[u].val, log'[u])
    BY <1>7, <2>1 DEF FirstWalk, Idle
  <2> QED
    BY <1>8, <1>9, <2>2, <2>3 DEF FirstWalk, Judged
<1>11. CASE u = t /\ j # C
  <2>1. C \notin settled /\ Idle(C) /\ C \notin settled' /\ Idle(C)' /\ report[u] = "none"
    <3>1. C \notin settled /\ Idle(C)
      BY <1>0, <1>1, <1>6, <1>11, CheckIsLast DEF SettleOK
    <3> QED
      BY <1>1, <1>4, <1>6, <1>7, <1>11, <3>1 DEF Idle, FirstWalk
  <2>2. Honest(u)'
    BY <1>2, <2>1 DEF Honest
  <2>3. /\ trr[t].val.passed = "None"
        /\ \A k \in TestJobs : k[2] = t /\ ~Idle(k) => mem[t].passed = "None"
    BY <1>7, <1>11, <2>1 DEF FirstWalk, Idle
  <2>4. j[1] # "check"
    BY <1>0, <1>11
  <2>5. /\ trr'[t].val.passed = "None"
        /\ mem'[t].passed = "None" \/ (mem'[t] = mem[t] /\ Idle(j)')
    BY <1>0, <2>3, <2>4, UndecidedStep
  <2>6. ASSUME NEW k \in TestJobs, k[2] = u, ~Idle(k)' PROVE mem'[u].passed = "None"
    <3>1. k # j => ~Idle(k)
      BY <1>1, <1>6, <2>6 DEF Idle
    <3> QED
      BY <1>11, <2>3, <2>5, <2>6, <3>1
  <2> QED
    BY <1>8, <1>9, <1>11, <2>1, <2>2, <2>5, <2>6 DEF FirstWalk, Idle
<1>12. CASE u = t /\ j = C
  <2>1. \A k \in TestJobs : k[2] = u /\ k # C => Idle(k) /\ Idle(k)'
    BY <1>0, <1>1, <1>6, <1>12, CheckIsLast DEF Idle
  <2>2. C \notin settled
    BY <1>1, <1>12
  <2>3. log' = log
    BY <1>0, <1>12, CheckStep
  <2>4. Honest(u)'
    BY <1>2, <1>7, <2>3 DEF Honest
  <2>5. CASE pc[C] # "dump" /\ settled' = settled /\ trr' = trr /\ pc'[C] = "idle"
    <3>1. /\ trr'[u].val.passed = "None"
          /\ \A k \in TestJobs : k[2] = u => Idle(k)'
      BY <1>7, <2>1, <2>2, <2>5 DEF FirstWalk, Idle
    <3> QED
      BY <1>8, <1>9, <2>2, <2>4, <2>5, <3>1 DEF FirstWalk
  <2>6. CASE /\ pc[C] # "dump" /\ settled' = settled /\ trr' = trr /\ pc'[C] = "tool"
             /\ mem'[u] = trr[u].val
    <3>1. trr'[u].val.passed = "None" /\ mem'[u].passed = "None"
      BY <1>7, <2>2, <2>6 DEF FirstWalk
    <3> QED
      BY <1>8, <1>9, <2>2, <2>4, <2>6, <3>1 DEF FirstWalk
  <2>7. CASE /\ pc[C] = "tool" /\ settled' = settled /\ pc'[C] = "dump"
             /\ mem'[u] = compare_test_run(mem[u], log[u])
    <3>1. mem[u].passed = "None" /\ mem[u] \in Results
      BY <1>0, <1>6, <1>7, <2>2, <2>7 DEF FirstWalk, Idle, TypeOK
    <3>2. Judged(mem'[u], log'[u])
      BY <2>3, <2>7, <3>1, CompareJudges
    <3>3. Judged(mem[u], log[u])'
      BY <3>2 DEF Judged
    <3> QED
      BY <1>8, <1>9, <2>2, <2>4, <2>7, <3>3 DEF FirstWalk
  <2>8. CASE /\ pc[C] = "dump" /\ settled' = settled \cup {C} /\ pc'[C] = "idle"
             /\ trr'[u] = [state |-> "ok", val |-> mem[u]]
    <3>1. trr'[u].state = "ok" /\ Judged(trr'[u].val, log'[u])
      BY <1>7, <2>3, <2>8 DEF FirstWalk
    <3>2. Judged(trr[u].val, log[u])'
      BY <3>1 DEF Judged
    <3> QED
      BY <1>8, <1>9, <2>4, <2>8, <3>1, <3>2 DEF FirstWalk
  <2> QED
    BY <1>0, <1>12, <2>5, <2>6, <2>7, <2>8, CheckStep
<1> QED
  BY <1>10, <1>11, <1>12

LEMMA FirstWriterStep == ASSUME IInv, FirstOK, NEW j, WriterAct(j) PROVE FirstOK'
<1>0. /\ j \in WriterJobs /\ j \in Jobs /\ Moves(j) /\ TypeOK /\ SettleOK /\ Quiet
  BY WriterMoves DEF WriterAct, IInv
<1>1. /\ make = "walk" /\ make' = make /\ Prereqs[j] \subseteq settled
      /\ \A k \in Jobs : k # j => pc'[k] = pc[k]
  BY <1>0, MoveSettles DEF Moves, Considers, SettleOK, Idle
<1>2. UNCHANGED <<trr, log, mem, makes>>
  BY WriterFrame
<1>4. /\ cached' \subseteq cached
      /\ settled \subseteq settled' /\ settled' \subseteq settled \cup {j}
  BY <1>0, MoveSettles
<1>3. \/ report' = report
      \/ j = Collect /\ Readable /\ report' = [t \in Tests |-> Verdict(trr[t].val)]
  BY DEF WriterAct, Writing, Touch, LaunchWriter, Enter, Alarm, Body, Leave, Tool, results
<1>5. SUFFICES ASSUME makes \in {0, 1}, NEW u \in Tests PROVE FirstWalk(u)' /\ Honest(u)'
  BY <1>1, <1>2 DEF FirstOK, Beginning
<1> DEFINE C == <<"check", u>>
<1>6. C \in Jobs /\ C # j /\ TestJobs \subseteq Jobs /\ \A k \in TestJobs : k # j
  BY <1>0, JobKinds
<1>7. FirstWalk(u) /\ Honest(u)
  BY <1>1, <1>5 DEF FirstOK
<1>8. /\ C \notin cached'
      /\ C \in settled' <=> C \in settled
      /\ pc'[C] = pc[C] /\ \A k \in TestJobs : pc'[k] = pc[k]
  BY <1>1, <1>4, <1>6, <1>7 DEF FirstWalk
<1>9. report'[u] # "none" => C \in settled'
  <2>1. CASE report' = report
    BY <1>7, <1>8, <2>1 DEF FirstWalk
  <2>2. CASE j = Collect
    BY <1>1, <1>8, <2>2, PrereqFacts
  <2> QED
    BY <1>3, <2>1, <2>2
<1>10. Honest(u)'
  <2>1. CASE report' = report
    BY <1>2, <1>7, <2>1 DEF Honest
  <2>2. CASE j = Collect /\ report' = [t \in Tests |-> Verdict(trr[t].val)]
    <3>1. report'[u] = Verdict(trr[u].val) /\ Judged(trr[u].val, log[u])
      BY <1>1, <1>7, <2>2, PrereqFacts DEF FirstWalk
    <3> QED
      BY <1>2, <3>1 DEF Honest, Judged, Verdict
  <2> QED
    BY <1>3, <2>1, <2>2
<1>11. FirstWalk(u)'
  BY <1>2, <1>7, <1>8, <1>9 DEF FirstWalk, Judged, Idle
<1> QED
  BY <1>10, <1>11

LEMMA FirstMakeStep ==
  ASSUME IInv, FirstOK, MakeStart \/ CreateTests \/ CreateDone \/ Skip \/ MakeEnd
  PROVE  FirstOK'
<1> USE DEF FirstOK, Beginning, Honest
<1>0. TypeOK /\ Quiet /\ SettleOK /\ makes \in Nat
  BY DEF IInv, TypeOK
<1>1. CASE MakeStart
  <2>1. /\ UNCHANGED <<meta, log, report>> /\ make = "idle" /\ makes' = makes + 1
        /\ make' = IF meta.state = "absent" THEN "create" ELSE "walk"
    BY <1>1 DEF MakeStart, results
  <2>2. makes' # 0 /\ (makes' = 1 => makes = 0)
    BY <1>0, <2>1
  <2> QED
    BY <2>1, <2>2
<1>2. CASE CreateTests
  <2>1. /\ trr' = [t \in Tests |-> [state |-> "ok", val |-> NewResult]]
        /\ make = "create" /\ make' = "creating"
        /\ UNCHANGED <<log, report, makes>>
    BY <1>2 DEF CreateTests, results, bounds
  <2>2. NewResult.passed = "None"
    BY DEF NewResult
  <2> QED
    BY <2>1, <2>2
<1>3. CASE CreateDone
  <2>1. /\ make = "creating" /\ make' = "walk"
        /\ UNCHANGED <<trr, log, report, settled, cached, pc, mem, makes>>
    BY <1>3 DEF CreateDone, results, bounds
  <2>2. settled = {} /\ cached = {} /\ \A k \in TestJobs : Idle(k)
    BY <1>0, <2>1, JobKinds DEF Quiet
  <2>3. ASSUME makes \in {0, 1}, NEW t \in Tests PROVE FirstWalk(t)'
    <3>1. report[t] = "none" /\ trr[t].val.passed = "None"
      BY <2>1, <2>3
    <3>2. pc[<<"check", t>>] = "idle"
      BY <2>2, JobKinds DEF Idle
    <3> QED
      BY <2>1, <2>2, <3>1, <3>2 DEF FirstWalk, Idle
  <2> QED
    BY <2>1, <2>3
<1>4. CASE Skip
  <2> DEFINE done == {j \in cached : Considers(j)}
  <2>1. /\ make = "walk" /\ done \subseteq cached
        /\ settled' = settled \cup done
        /\ UNCHANGED <<meta, trr, log, report, make, cached, pc, mem, makes>>
    BY <1>4 DEF Skip, Considers, results, bounds
  <2> HIDE DEF done
  <2>2. ASSUME makes \in {0, 1}, NEW t \in Tests PROVE FirstWalk(t)'
    <3>1. FirstWalk(t)
      BY <2>1, <2>2
    <3>2. <<"check", t>> \in settled' <=> <<"check", t>> \in settled
      BY <2>1, <3>1 DEF FirstWalk
    <3> QED
      BY <2>1, <3>1, <3>2 DEF FirstWalk, Judged, Idle
  <2> QED
    BY <2>1, <2>2
<1>5. CASE MakeEnd
  <2>1. /\ make = "walk" /\ make' = "idle" /\ UNCHANGED <<meta, report, log, makes>>
    BY <1>5 DEF MakeEnd, results, bounds
  <2> QED
    BY <2>1
<1> QED
  BY <1>1, <1>2, <1>3, <1>4, <1>5

LEMMA FirstOutsideStep ==
  ASSUME IInv, FirstOK, Crash \/ Clean \/ \E j \in Edited : Edit(j)
  PROVE  FirstOK'
<1> USE DEF FirstOK, Beginning
<1>0. TypeOK /\ Quiet /\ SettleOK
  BY DEF IInv
<1>1. CASE Crash
  <2>1. /\ make # "idle" /\ make' = "idle" /\ UNCHANGED <<report, makes>>
        /\ \A t \in Tests : pc[<<"sim", t>>] # "tool" => log'[t] = log[t]
    <3>1. \E written \in SUBSET {j \in TestJobs : pc[j] = "tool" /\ j[1] # "check"} :
            \E left \in [{t \in Tests : <<"sim", t>> \in written} -> CutLogs] :
              log' = [t \in Tests |-> IF t \in DOMAIN left THEN left[t] ELSE log[t]]
      BY <1>1 DEF Crash
    <3> QED
      BY <1>1, <3>1 DEF Crash
  <2>2. ASSUME makes \in {0, 1}, NEW t \in Tests PROVE Honest(t)'
    <3>1. CASE pc[<<"sim", t>>] = "tool"
      <4>1. <<"sim", t>> \in TestJobs /\ <<"sim", t>>[2] = t /\ <<"sim", t>> \in Jobs
            /\ <<"sim", t>> # <<"check", t>>
        BY JobKinds
      <4>2. <<"check", t>> \notin settled
        BY <1>0, <3>1, <4>1, CheckIsLast DEF Idle
      <4>3. make = "walk"
        BY <1>0, <3>1, <4>1 DEF Quiet, Idle
      <4>4. report[t] = "none"
        BY <2>2, <4>2, <4>3 DEF FirstWalk
      <4> QED
        BY <2>1, <4>4 DEF Honest
    <3>2. CASE pc[<<"sim", t>>] # "tool"
      BY <2>1, <2>2, <3>2 DEF Honest
    <3> QED
      BY <3>1, <3>2
  <2> QED
    BY <2>1, <2>2
<1>2. CASE Clean
  <2>1. /\ make = "idle" /\ make' = make /\ meta' = [state |-> "absent", fields |-> {}]
        /\ report' = [t \in Tests |-> "none"] /\ makes' = 0
    BY <1>2 DEF Clean
  <2> QED
    BY <2>1, JobKinds DEF Honest
<1>3. ASSUME NEW e \in Edited, Edit(e) PROVE FirstOK'
  <2>1. make = "idle" /\ UNCHANGED <<meta, log, report, make, makes>>
    BY <1>3 DEF Edit, results, walk, bounds
  <2> QED
    BY <2>1 DEF Honest
<1> QED
  BY <1>1, <1>2, <1>3

LEMMA FirstNext == ASSUME IInv, FirstOK, [Next]_vars PROVE FirstOK'
<1>1. ASSUME NEW j \in WriterJobs, Writing(j) PROVE FirstOK'
  BY <1>1, FirstWriterStep DEF WriterAct
<1>2. ASSUME NEW j \in TestJobs, LaunchTest(j) \/ Dump(j) PROVE FirstOK'
  BY <1>2, FirstTestStep DEF TestAct
<1>3. ASSUME NEW t \in Riscvdv, Generate(t) PROVE FirstOK'
  <2>1. TestAct(<<"gen", t>>)
    BY <1>3, JobKinds DEF TestAct
  <2> QED
    BY <2>1, FirstTestStep
<1>4. ASSUME NEW t \in Tests, Compile(t) PROVE FirstOK'
  <2>1. TestAct(<<"bin", t>>)
    BY <1>4, JobKinds DEF TestAct
  <2> QED
    BY <2>1, FirstTestStep
<1>5. ASSUME NEW t \in Tests, Simulate(t) \/ DumpSim(t) PROVE FirstOK'
  <2>1. TestAct(<<"sim", t>>)
    BY <1>5, JobKinds DEF TestAct
  <2> QED
    BY <2>1, FirstTestStep
<1>6. ASSUME NEW t \in Tests, Check(t) PROVE FirstOK'
  <2>1. TestAct(<<"check", t>>)
    BY <1>6, JobKinds DEF TestAct
  <2> QED
    BY <2>1, FirstTestStep
<1>7. CASE MakeStart \/ CreateTests \/ CreateDone \/ Skip \/ MakeEnd
  BY <1>7, FirstMakeStep
<1>8. CASE Crash \/ Clean \/ \E j \in Edited : Edit(j)
  BY <1>8, FirstOutsideStep
<1>9. CASE UNCHANGED vars
  BY <1>9 DEF vars, results, walk, bounds, FirstOK, Beginning, FirstWalk, Honest, Judged, Idle
<1> QED
  BY <1>1, <1>2, <1>3, <1>4, <1>5, <1>6, <1>7, <1>8, <1>9 DEF Next, Progress, Outside

LEMMA PassesDeserved == ASSUME NEW l \in Logs PROVE Passes(l) <=> Deserves(l)
<1>1. CASE l = NoLog
  <2>1. ~Passes(l) /\ l.trace = <<>>
    BY <1>1 DEF Passes, NoTrace, NoLog
  <2>2. ~Executed(l.trace)
    BY <2>1 DEF Executed
  <2> QED
    BY <2>1, <2>2 DEF Deserves
<1>2. CASE l # NoLog
  <2>1. l.trace \in Seq(TraceLines) /\ l.lines \in Seq(Lines) /\ l.exists = TRUE
    BY <1>2 DEF Logs
  <2> QED
    BY <2>1, VerdictDeserved, TraceVerdict DEF Passes, NoTrace, Deserves
<1> QED
  BY <1>1, <1>2

\* The report of the first make after a clean says of every test what its log, of
\* whatever length, deserves: nothing stale is on disk yet to be reported.
THEOREM FirstReportIsHonest == Spec => []FirstReportHonest
<1>1. Init => FirstOK
  <2> SUFFICES ASSUME Init PROVE FirstOK
    OBVIOUS
  <2>1. \A t \in Tests : <<"check", t>> \in Jobs
    BY JobKinds
  <2> QED
    BY <2>1 DEF Init, FirstOK, Beginning, Honest
<1>2. IInv /\ FirstOK /\ [Next]_vars => FirstOK'
  BY FirstNext
<1>3. IInv /\ FirstOK => FirstReportHonest
  <2> SUFFICES ASSUME IInv, FirstOK, makes = 1, NEW t \in Tests
               PROVE  /\ report[t] = "PASS" => Deserves(log[t])
                      /\ report[t] = "FAILED" => ~Deserves(log[t])
    BY DEF FirstReportHonest
  <2>1. Honest(t)
    BY DEF FirstOK
  <2>2. log[t] \in Logs
    BY DEF IInv, TypeOK
  <2> QED
    BY <2>1, <2>2, PassesDeserved DEF Honest
<1> QED
  BY <1>1, <1>2, <1>3, InvariantHolds, PTL DEF Spec
=============================================================================
