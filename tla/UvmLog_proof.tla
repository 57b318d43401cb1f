----------------------------- MODULE UvmLog_proof -----------------------------
(***************************************************************************)
(* The loops of the log checker compute what its comments promise, for     *)
(* logs and traces of any length.                                          *)
(***************************************************************************)
EXTENDS UvmLog, Induction

ScanState == [passed : BOOLEAN, failed : BOOLEAN, test_result_seen : BOOLEAN,
              error_line : SUBSET Lines, stop : BOOLEAN]

LEMMA ReadTyped ==
  ASSUME NEW s \in ScanState, NEW line \in Lines
  PROVE  Read(s, line) \in ScanState
  BY DEF Read, ScanState

\* f[n] is what check_ibex_uvm_log knows after n lines.
ScansTo(f, lines) == /\ f \in [0..Len(lines) -> ScanState]
                     /\ f[0] = Start
                     /\ \A n \in 1..Len(lines) : f[n] = Read(f[n - 1], lines[n])
                     /\ Scan(lines) = f[Len(lines)]

LEMMA ScanIs == ASSUME NEW lines \in Seq(Lines) PROVE \E f : ScansTo(f, lines)
<1> DEFINE N == Len(lines)
           G == [p \in ScanState \X Nat |-> IF p[2] \in 1..N THEN Read(p[1], lines[p[2]]) ELSE p[1]]
           Loop(g) == [n \in 0..N |-> IF n = 0 THEN Start ELSE Read(g[n - 1], lines[n])]
           after == CHOOSE g : g = Loop(g)
<1>1. N \in Nat /\ \A n \in 1..N : lines[n] \in Lines
  OBVIOUS
<1>2. G \in [ScanState \X Nat -> ScanState] /\ Start \in ScanState
  <2>1. ASSUME NEW p \in ScanState \X Nat
        PROVE  (IF p[2] \in 1..N THEN Read(p[1], lines[p[2]]) ELSE p[1]) \in ScanState
    BY <1>1, ReadTyped
  <2> QED
    BY <2>1 DEF Start, ScanState
<1>3. PICK f : Follows(f, N, ScanState, Start, G)
  <2> HIDE DEF G, N
  <2> QED
    BY <1>1, <1>2, RecursionExists, Zenon
<1>4. f \in [0..N -> ScanState] /\ f[0] = Start /\ \A n \in 1..N : f[n] = G[<<f[n - 1], n>>]
  BY <1>3 DEF Follows
<1>5. ASSUME NEW n \in 1..N PROVE f[n] = Read(f[n - 1], lines[n])
  <2>1. f[n - 1] \in ScanState /\ n \in Nat
    BY <1>1, <1>4
  <2>2. G[<<f[n - 1], n>>] = Read(f[n - 1], lines[n])
    BY <2>1
  <2> HIDE DEF G
  <2> QED
    BY <1>4, <2>2
<1>6. f = Loop(f)
  BY <1>1, <1>4, <1>5
<1>7. after = Loop(after)
  BY <1>6
<1>8. Scan(lines) = after[N]
  BY DEF Scan
<1> HIDE DEF after, G
<1>9. \A n \in 0..N : after[n] = f[n]
  <2> DEFINE S == {n \in 0..N : after[n] = f[n]}
  <2>1. 0 \in S
    BY <1>1, <1>4, <1>7
  <2>2. \A n \in 1..N : n - 1 \in S => n \in S
    <3> SUFFICES ASSUME NEW n \in 1..N, after[n - 1] = f[n - 1] PROVE after[n] = f[n]
      BY <1>1
    <3>1. n \in 0..N /\ n # 0
      BY <1>1
    <3>2. after[n] = Read(after[n - 1], lines[n])
      BY <1>7, <3>1
    <3> QED
      BY <1>5, <3>2
  <2>3. \A n \in 0..N : n \in S
    <3> HIDE DEF S
    <3> QED
      BY <1>1, <2>1, <2>2, IntervalInduction
  <2> QED
    BY <2>3
<1> QED
  BY <1>1, <1>4, <1>5, <1>8, <1>9 DEF ScansTo

\* A line with a result on it, and an error that no result comes before.
HasResult(line) == line \cap {"PASSED", "FAILED"} # {}
EarlyError(lines, m) == "error" \in lines[m] /\ \A k \in 1..(m - 1) : ~HasResult(lines[k])

\* What is known after n lines: whether a FAILED was among them, and if none was,
\* whether there was a PASSED, a result and an early error.
ScanKnows(s, lines, n) ==
  /\ s.stop <=> \E m \in 1..n : "FAILED" \in lines[m]
  /\ s.stop => s.failed
  /\ ~s.stop => /\ s.passed <=> \E m \in 1..n : "PASSED" \in lines[m]
                /\ s.test_result_seen <=> \E m \in 1..n : HasResult(lines[m])
                /\ s.failed <=> \E m \in 1..n : EarlyError(lines, m)
                /\ s.failed <=> s.error_line # {}

LEMMA ReadKnows ==
  ASSUME NEW lines \in Seq(Lines), NEW n \in 1..Len(lines), NEW s \in ScanState,
         ScanKnows(s, lines, n - 1)
  PROVE  ScanKnows(Read(s, lines[n]), lines, n)
<1>1. n \in Nat /\ \A m : m \in 1..n <=> m \in 1..(n - 1) \/ m = n
  OBVIOUS
<1> DEFINE t == Read(s, lines[n])
           line == lines[n]
           err == "error" \in line /\ ~s.test_result_seen
<1>2. CASE s.stop
  <2>1. t = s
    BY <1>2 DEF Read
  <2> QED
    BY <1>1, <1>2, <2>1 DEF ScanKnows
<1>3. CASE ~s.stop
  <2>1. /\ t.passed = (s.passed \/ "PASSED" \in line)
        /\ t.failed = (s.failed \/ err \/ "FAILED" \in line)
        /\ t.test_result_seen = (s.test_result_seen \/ HasResult(line))
        /\ t.error_line = IF err THEN {line} ELSE s.error_line
        /\ t.stop = ("FAILED" \in line)
    BY <1>3 DEF Read, HasResult
  <2>2. /\ \A m \in 1..(n - 1) : "FAILED" \notin lines[m]
        /\ s.passed <=> \E m \in 1..(n - 1) : "PASSED" \in lines[m]
        /\ s.test_result_seen <=> \E m \in 1..(n - 1) : HasResult(lines[m])
        /\ s.failed <=> \E m \in 1..(n - 1) : EarlyError(lines, m)
        /\ s.failed <=> s.error_line # {}
    BY <1>3 DEF ScanKnows
  <2>3. err <=> EarlyError(lines, n)
    BY <2>2 DEF EarlyError
  <2> HIDE DEF t, err
  <2>4. t.stop <=> \E m \in 1..n : "FAILED" \in lines[m]
    BY <1>1, <2>1, <2>2
  <2>5. t.stop => t.failed
    BY <2>1
  <2>6. t.passed <=> \E m \in 1..n : "PASSED" \in lines[m]
    BY <1>1, <2>1, <2>2
  <2>7. t.test_result_seen <=> \E m \in 1..n : HasResult(lines[m])
    BY <1>1, <2>1, <2>2
  <2>8. ~t.stop => (t.failed <=> \E m \in 1..n : EarlyError(lines, m))
    BY <1>1, <2>1, <2>2, <2>3
  <2>9. ~t.stop => (t.failed <=> t.error_line # {})
    BY <2>1, <2>2
  <2> QED
    BY <2>4, <2>5, <2>6, <2>7, <2>8, <2>9 DEF ScanKnows, t
<1> QED
  BY <1>2, <1>3

LEMMA ScanKnowsAll ==
  ASSUME NEW lines \in Seq(Lines)
  PROVE  Scan(lines) \in ScanState /\ ScanKnows(Scan(lines), lines, Len(lines))
<1> DEFINE N == Len(lines)
<1>1. PICK f : ScansTo(f, lines)
  BY ScanIs
<1>2. /\ N \in Nat /\ f \in [0..N -> ScanState] /\ f[0] = Start
      /\ \A n \in 1..N : f[n] = Read(f[n - 1], lines[n])
      /\ Scan(lines) = f[N]
  BY <1>1 DEF ScansTo
<1> DEFINE T == {n \in 0..N : ScanKnows(f[n], lines, n)}
<1>3. 0 \in T
  BY <1>2 DEF ScanKnows, Start
<1>4. \A n \in 1..N : n - 1 \in T => n \in T
  <2> SUFFICES ASSUME NEW n \in 1..N, ScanKnows(f[n - 1], lines, n - 1)
               PROVE  ScanKnows(f[n], lines, n)
    BY <1>2
  <2>1. f[n - 1] \in ScanState
    BY <1>2
  <2> QED
    BY <1>2, <2>1, ReadKnows
<1>5. \A n \in 0..N : n \in T
  <2> HIDE DEF T, N
  <2> QED
    BY <1>2, <1>3, <1>4, IntervalInduction
<1> QED
  BY <1>2, <1>5

\* A log passes exactly when it deserves to.
LEMMA VerdictDeserved ==
  ASSUME NEW lines \in Seq(Lines)
  PROVE  check_ibex_uvm_log(lines).passed <=> Deserved(lines)
<1> DEFINE s == Scan(lines)
           N == Len(lines)
<1>1. N \in Nat /\ s \in ScanState /\ ScanKnows(s, lines, N)
  BY ScanKnowsAll
<1>2. check_ibex_uvm_log(lines).passed <=> s.passed /\ ~s.failed
  BY DEF check_ibex_uvm_log
<1>3. (\E m \in 1..N : EarlyError(lines, m))
        <=> ~\A n \in 1..N : "error" \in lines[n] => \E m \in Result(lines) : m < n
  <2>1. \A n \in 1..N : (\E m \in Result(lines) : m < n) <=> \E k \in 1..(n - 1) : HasResult(lines[k])
    BY <1>1 DEF Result, HasResult
  <2> QED
    BY <2>1 DEF EarlyError
<1> HIDE DEF s
<1>4. CASE s.stop
  BY <1>1, <1>2, <1>4 DEF ScanKnows, Deserved
<1>5. CASE ~s.stop
  BY <1>1, <1>2, <1>3, <1>5 DEF ScanKnows, Deserved
<1> QED
  BY <1>4, <1>5

\* A log with errors and no result is given a failure mode.
LEMMA ErrorHasMode ==
  ASSUME NEW lines \in Seq(Lines), NEW n \in 1..Len(lines), "error" \in lines[n],
         Result(lines) = {}
  PROVE  check_ibex_uvm_log(lines).failure_mode \in {"TIMEOUT", "LOG_ERROR"}
<1> DEFINE s == Scan(lines)
           N == Len(lines)
<1>1. N \in Nat /\ s \in ScanState /\ ScanKnows(s, lines, N)
  BY ScanKnowsAll
<1>2. \A m \in 1..N : ~HasResult(lines[m]) /\ "FAILED" \notin lines[m]
  BY DEF Result, HasResult
<1>3. EarlyError(lines, n)
  BY <1>1, <1>2 DEF EarlyError
<1>4. s.failed /\ s.error_line # {}
  BY <1>1, <1>2, <1>3 DEF ScanKnows
<1> QED
  BY <1>4 DEF check_ibex_uvm_log

-----------------------------------------------------------------------------
(* The trace *)

CountState == [n : Nat, stop : BOOLEAN]

\* f[n] is what it knows after n lines.
CountsTo(f, trace) == /\ f \in [0..Len(trace) -> CountState]
                      /\ f[0] = Uncounted
                      /\ \A n \in 1..Len(trace) : f[n] = Count(f[n - 1], trace[n])
                      /\ Processed(trace) = f[Len(trace)].n

LEMMA ProcessedIs == ASSUME NEW trace \in Seq(TraceLines) PROVE \E f : CountsTo(f, trace)
<1> DEFINE N == Len(trace)
           G == [p \in CountState \X Nat |-> IF p[2] \in 1..N THEN Count(p[1], trace[p[2]]) ELSE p[1]]
           Loop(g) == [n \in 0..N |-> IF n = 0 THEN Uncounted ELSE Count(g[n - 1], trace[n])]
           count == CHOOSE g : g = Loop(g)
<1>1. N \in Nat
  OBVIOUS
<1>2. G \in [CountState \X Nat -> CountState] /\ Uncounted \in CountState
  <2>1. ASSUME NEW p \in CountState \X Nat
        PROVE  (IF p[2] \in 1..N THEN Count(p[1], trace[p[2]]) ELSE p[1]) \in CountState
    BY DEF CountState, Count
  <2> QED
    BY <2>1 DEF CountState, Uncounted
<1>3. PICK f : Follows(f, N, CountState, Uncounted, G)
  <2> HIDE DEF G, N
  <2> QED
    BY <1>1, <1>2, RecursionExists, Zenon
<1>4. f \in [0..N -> CountState] /\ f[0] = Uncounted /\ \A n \in 1..N : f[n] = G[<<f[n - 1], n>>]
  BY <1>3 DEF Follows
<1>5. ASSUME NEW n \in 1..N PROVE f[n] = Count(f[n - 1], trace[n])
  <2>1. f[n - 1] \in CountState /\ n \in Nat
    BY <1>1, <1>4
  <2>2. G[<<f[n - 1], n>>] = Count(f[n - 1], trace[n])
    BY <2>1
  <2> HIDE DEF G
  <2> QED
    BY <1>4, <2>2
<1>6. f = Loop(f)
  BY <1>1, <1>4, <1>5
<1>7. count = Loop(count)
  BY <1>6
<1>8. Processed(trace) = count[N].n
  BY DEF Processed
<1> HIDE DEF count, G
<1>9. \A n \in 0..N : count[n] = f[n]
  <2> DEFINE S == {n \in 0..N : count[n] = f[n]}
  <2>1. 0 \in S
    BY <1>1, <1>4, <1>7
  <2>2. \A n \in 1..N : n - 1 \in S => n \in S
    <3> SUFFICES ASSUME NEW n \in 1..N, count[n - 1] = f[n - 1] PROVE count[n] = f[n]
      BY <1>1
    <3>1. n \in 0..N /\ n # 0
      BY <1>1
    <3>2. count[n] = Count(count[n - 1], trace[n])
      BY <1>7, <3>1
    <3> QED
      BY <1>5, <3>2
  <2>3. \A n \in 0..N : n \in S
    <3> HIDE DEF S
    <3> QED
      BY <1>1, <2>1, <2>2, IntervalInduction
  <2> QED
    BY <2>3
<1> QED
  BY <1>1, <1>4, <1>5, <1>8, <1>9 DEF CountsTo

\* A trace is unusable exactly when the program executed nothing before its ecall.
LEMMA TraceVerdict ==
  ASSUME NEW trace \in Seq(TraceLines)
  PROVE  TraceUnusable(trace) <=> ~Executed(trace)
<1> DEFINE N == Len(trace)
<1>1. PICK f : CountsTo(f, trace)
  BY ProcessedIs
<1>2. /\ N \in Nat /\ f \in [0..N -> CountState] /\ f[0] = Uncounted
      /\ \A n \in 1..N : f[n] = Count(f[n - 1], trace[n])
      /\ Processed(trace) = f[N].n
  BY <1>1 DEF CountsTo
<1> DEFINE Live(m) == trace[m] = "instr" /\ \A k \in 1..m : trace[k] # "ecall"
           Knows(c, n) == /\ c.stop <=> \E m \in 1..n : trace[m] = "ecall"
                          /\ c.n # 0 <=> \E m \in 1..n : Live(m)
           T == {n \in 0..N : Knows(f[n], n)}
<1>3. 0 \in T
  BY <1>2 DEF Uncounted
<1>4. \A n \in 1..N : n - 1 \in T => n \in T
  <2> SUFFICES ASSUME NEW n \in 1..N, Knows(f[n - 1], n - 1) PROVE Knows(f[n], n)
    BY <1>2
  <2>1. n \in Nat /\ \A m : m \in 1..n <=> m \in 1..(n - 1) \/ m = n
    OBVIOUS
  <2>2. f[n - 1] \in CountState /\ f[n] = Count(f[n - 1], trace[n])
    BY <1>2
  <2>3. /\ f[n].n = IF ~f[n - 1].stop /\ trace[n] = "instr" THEN f[n - 1].n + 1 ELSE f[n - 1].n
        /\ f[n].stop = (f[n - 1].stop \/ trace[n] = "ecall")
        /\ f[n - 1].n \in Nat
    BY <2>2 DEF Count, CountState
  <2>4. Live(n) <=> ~f[n - 1].stop /\ trace[n] = "instr"
    BY <2>1
  <2> HIDE DEF Live
  <2>5. f[n].stop <=> \E m \in 1..n : trace[m] = "ecall"
    BY <2>1, <2>3
  <2>6. f[n].n # 0 <=> f[n - 1].n # 0 \/ Live(n)
    BY <2>3, <2>4
  <2>7. f[n].n # 0 <=> \E m \in 1..n : Live(m)
    BY <2>1, <2>6
  <2> QED
    BY <2>5, <2>7
<1>5. \A n \in 0..N : n \in T
  <2> HIDE DEF T, N
  <2> QED
    BY <1>2, <1>3, <1>4, IntervalInduction
<1> QED
  BY <1>2, <1>5 DEF TraceUnusable, Executed
=============================================================================
