--------------------------- MODULE MCRegressionFlow ---------------------------
(* One generated and one directed test.  The logs: one that passes, one with an  *)
(* error before a late PASSED, one that reports FAILED with no error line, one   *)
(* without instructions, and the beginnings a killed simulation leaves.          *)
EXTENDS RegressionFlow, TLC
CONSTANTS r, d

Log(trace, lines) == [trace |-> trace, lines |-> lines, exists |-> TRUE]
Passing == Log(<<"instr", "ecall">>, <<{}, {"PASSED"}>>)
Failing == Log(<<"instr">>, <<{"error"}, {"PASSED"}>>)
Bare == Log(<<"instr">>, <<{"FAILED"}>>)
TimedOut == Log(<<"instr">>, <<{"error", "wallclock"}, {"FAILED"}>>)
Started == Log(<<"instr">>, <<{}>>)
MCSimLogs == (r :> {Passing, Failing}) @@ (d :> {Passing, Bare})
MCCutLogs == {Started}
MCStaleLogs == d :> {Passing, Failing}
MCEdited == {<<"tb", Whole>>}
=============================================================================
