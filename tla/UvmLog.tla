-------------------------------- MODULE UvmLog --------------------------------
(***************************************************************************)
(* riscv_dv_extension/ibex_log_to_trace_csv.py: what the log checker finds *)
(* in the two files a simulation leaves, the instruction trace and the UVM *)
(* log.  A line is the set of the markers the checker searches it for.     *)
(***************************************************************************)
EXTENDS Naturals, Sequences

\* UVM_ERROR, UVM_FATAL or Error; the wall-clock timeout text; the two results.
Markers == {"error", "wallclock", "PASSED", "FAILED"}
Lines == SUBSET Markers

\* A line of the trace: an instruction, an ecall, or neither.
TraceLines == {"instr", "ecall", "other"}

Failure_Modes == {"NONE", "TIMEOUT", "FILE_ERROR", "LOG_ERROR"}

\* A line of the trace: an instruction counts until the first ecall.
Uncounted == [n |-> 0, stop |-> FALSE]
Count(c, line) == [n |-> IF ~c.stop /\ line = "instr" THEN c.n + 1 ELSE c.n,
                   stop |-> c.stop \/ line = "ecall"]

\* Instructions written to the csv file.
Processed(trace) ==
  LET count[n \in 0..Len(trace)] ==
        IF n = 0 THEN Uncounted ELSE Count(count[n - 1], trace[n])
  IN  count[Len(trace)].n

\* process_ibex_sim_log raises a RuntimeError.
TraceUnusable(trace) == Processed(trace) = 0

-----------------------------------------------------------------------------
(* check_ibex_uvm_log reads the log line by line. *)

Start == [passed |-> FALSE, failed |-> FALSE, test_result_seen |-> FALSE,
          error_line |-> {}, stop |-> FALSE]

\* Mutant: only the test's own result is looked at.
Read_ResultOnly(s, line) ==
  [s EXCEPT !.passed = @ \/ "PASSED" \in line, !.failed = @ \/ "FAILED" \in line]

\* Errors count until the first result, itself included, and the last one is kept
\* (error_line, {} for None); FAILED ends the loop.
Read(s, line) ==
  LET err == "error" \in line /\ ~s.test_result_seen
  IN  IF s.stop THEN s
      ELSE [passed |-> s.passed \/ "PASSED" \in line,
            failed |-> s.failed \/ err \/ "FAILED" \in line,
            test_result_seen |-> s.test_result_seen \/ line \cap {"PASSED", "FAILED"} # {},
            error_line |-> IF err THEN {line} ELSE s.error_line,
            stop |-> "FAILED" \in line]

Scan(lines) == LET after[n \in 0..Len(lines)] ==
                     IF n = 0 THEN Start ELSE Read(after[n - 1], lines[n])
               IN  after[Len(lines)]

\* (passed, failure_mode); a test that failed without an error line ends the
\* checker with a TypeError, from searching None for the timeout text.
check_ibex_uvm_log(lines) ==
  LET s == Scan(lines)
  IN  [passed |-> s.passed /\ ~s.failed,
       raises |-> s.failed /\ s.error_line = {},
       failure_mode |-> IF ~s.failed \/ s.error_line = {} THEN "NONE"
                        ELSE IF \E l \in s.error_line : "wallclock" \in l THEN "TIMEOUT"
                        ELSE "LOG_ERROR"]

-----------------------------------------------------------------------------
(* What the comments of the two functions promise, without the loops. *)

\* "the test result ... repeated multiple times with different results" fails, as
\* does an error before the first result; without a result there is no pass.
Result(lines) == {n \in 1..Len(lines) : lines[n] \cap {"PASSED", "FAILED"} # {}}
Deserved(lines) ==
  /\ \E n \in 1..Len(lines) : "PASSED" \in lines[n]
  /\ \A n \in 1..Len(lines) : "FAILED" \notin lines[n]
  /\ \A n \in 1..Len(lines) : "error" \in lines[n] => \E m \in Result(lines) : m < n

\* Some instruction was traced before the program's ecall.
Executed(trace) == \E n \in 1..Len(trace) : /\ trace[n] = "instr"
                                            /\ \A m \in 1..n : trace[m] # "ecall"
=============================================================================
