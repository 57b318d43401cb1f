-------------------------- MODULE DvAlgorithms_proof --------------------------
(***************************************************************************)
(* Proofs about the functions of the verification scripts, for inputs of   *)
(* any size.  A loop is a recursive function of the model: a lemma shows   *)
(* that it exists and is defined by its turns, and an induction carries    *)
(* what the loop knows from one turn to the next.                          *)
(***************************************************************************)
EXTENDS DvAlgorithms, UvmLog_proof, SequenceTheorems, FiniteSetTheorems

\* The input of a function is one of the inputs of its kind.
Given == /\ in.kind = "config" => in.of \in Files
         /\ in.kind = "vcs" => in.of \in VcsVersions \X VcsVersions
         /\ in.kind = "tools" => in.of \in Requirements
         /\ in.kind = "regression" => in.of \in Regressions
         /\ in.kind = "filter" => in.of \in Filters
         /\ in.kind = "suite" => in.of \in Suites
         /\ in.kind = "command" => in.of \in Commands
         /\ in.kind = "sv2v" => in.of \in Conversions
         /\ in.kind = "smt2" => in.of \in Proofs
         /\ in.kind = "tree" => in.of \in PropertyLists
         /\ in.kind = "coverage" => in.of \in CovReports
         /\ in.kind = "log" => in.of \in Logs

\* The input in hand is one of those of its kind, at any time.
LEMMA InputGiven == Spec => []Given
<1>1. Init => Given
  BY DEF Init, Given
<1>2. Given /\ [Next]_in => Given'
  <2>1. CASE UNCHANGED in
    BY <2>1 DEF Given
  <2>2. CASE Next
    BY <2>2 DEF Next, Take, Given
  <2> QED
    BY <2>1, <2>2
<1> QED
  BY <1>1, <1>2, PTL DEF Spec

\* ibex_log_to_trace_csv.py: the verdict on a log is the one it deserves, a trace is
\* usable exactly when the program ran, and an error has a failure mode, for logs and
\* traces of any length.
THEOREM LogsJudged == Spec => []LogVerdictDeserved
<1>1. Given => LogVerdictDeserved
  <2> SUFFICES ASSUME Given, in.kind = "log" PROVE LogVerdictDeserved
    BY DEF LogVerdictDeserved
  <2>1. in.of.lines \in Seq(Lines) /\ in.of.trace \in Seq(TraceLines)
    BY InputAssumption DEF Given
  <2>2. check_ibex_uvm_log(in.of.lines).passed <=> Deserved(in.of.lines)
    BY <2>1, VerdictDeserved
  <2>3. TraceUnusable(in.of.trace) <=> ~Executed(in.of.trace)
    BY <2>1, TraceVerdict
  <2>4. DOMAIN in.of.lines = 1..Len(in.of.lines)
    BY <2>1
  <2>5. (/\ \E n \in DOMAIN in.of.lines : "error" \in in.of.lines[n] /\ ~Deserved(in.of.lines)
         /\ Result(in.of.lines) = {})
          => check_ibex_uvm_log(in.of.lines).failure_mode \in {"TIMEOUT", "LOG_ERROR"}
    BY <2>1, <2>4, ErrorHasMode
  <2> QED
    BY <2>2, <2>3, <2>5 DEF LogVerdictDeserved
<1> QED
  BY <1>1, InputGiven, PTL

-----------------------------------------------------------------------------
(* Lists.  Many of the scripts' functions join, filter or replace: what is *)
(* joined after n lists is a recursion, and the rest follows from it.      *)

\* A function on 1..n is a list.
LEMMA FunctionIsSeq ==
  ASSUME NEW S, NEW n \in Nat, NEW f \in [1..n -> S]
  PROVE  f \in Seq(S) /\ Len(f) = n
<1>1. Seq(S) = UNION {[1..k -> S] : k \in Nat}
  BY SeqDef, Zenon
<1>2. f \in Seq(S)
  BY <1>1
<1> QED
  BY <1>2

\* The lists as far as they are joined after n of them.
Joins(f, ss, S) == /\ f \in [0..Len(ss) -> Seq(S)]
                   /\ f[0] = <<>>
                   /\ \A n \in 1..Len(ss) : f[n] = f[n - 1] \o ss[n]

\* FlattenSeq joins one list after the other.
LEMMA FlattenJoins ==
  ASSUME NEW S, NEW ss \in Seq(Seq(S))
  PROVE  \E f : Joins(f, ss, S) /\ FlattenSeq(ss) = f[Len(ss)]
<1> DEFINE N == Len(ss)
           V == Seq(S)
           G == [p \in V \X Nat |-> IF p[2] \in 1..N THEN p[1] \o ss[p[2]] ELSE p[1]]
<1>1. N \in Nat /\ DOMAIN ss = 1..N /\ \A n \in 1..N : ss[n] \in V
  OBVIOUS
<1>2. G \in [V \X Nat -> V] /\ <<>> \in V
  <2>1. \A x, y \in V : x \o y \in V
    OBVIOUS
  <2> QED
    BY <1>1, <2>1
<1>3. PICK f : Follows(f, N, V, <<>>, G)
  <2> HIDE DEF G, V, N
  <2> QED
    BY <1>1, <1>2, RecursionExists, Zenon
<1>4. f \in [0..N -> V] /\ f[0] = <<>> /\ \A n \in 1..N : f[n] = G[<<f[n - 1], n>>]
  BY <1>3, Zenon DEF Follows
<1>5. ASSUME NEW n \in 1..N PROVE f[n] = f[n - 1] \o ss[n]
  <2>1. n - 1 \in 0..N /\ n \in Nat
    BY <1>1
  <2>3. f[n - 1] \in V
    <3> HIDE DEF V, G, N
    <3> QED
      BY <1>4, <2>1, Zenon
  <2>2. G[<<f[n - 1], n>>] = f[n - 1] \o ss[n]
    <3> HIDE DEF V, N
    <3> QED
      BY <2>1, <2>3, Zenon
  <2> HIDE DEF G
  <2> QED
    BY <1>4, <2>2, Zenon
<1>6. Joins(f, ss, S)
  BY <1>4, <1>5, Zenon DEF Joins
<1>7. CASE N = 0
  <2>1. FlattenSeq(ss) = ss /\ ss = <<>>
    BY <1>7 DEF FlattenSeq
  <2> QED
    BY <1>4, <1>6, <1>7, <2>1
<1>8. CASE N # 0
  <2> DEFINE Loop(g) == [i \in 1..N |-> IF i = 1 THEN ss[i] ELSE g[i - 1] \o ss[i]]
             flatten == CHOOSE g : g = Loop(g)
             h == [i \in 1..N |-> f[i]]
  <2>1. FlattenSeq(ss) = flatten[N]
    BY <1>8 DEF FlattenSeq
  <2>2. f[1] = ss[1]
    <3>1. 1 \in 1..N /\ f[1 - 1] = <<>>
      BY <1>1, <1>4, <1>8
    <3>2. f[1] = <<>> \o ss[1]
      BY <1>5, <3>1, Zenon
    <3> QED
      BY <1>1, <3>1, <3>2
  <2>3. h = Loop(h)
    <3>1. ASSUME NEW i \in 1..N PROVE h[i] = IF i = 1 THEN ss[i] ELSE h[i - 1] \o ss[i]
      <4>1. i # 1 => i - 1 \in 1..N
        BY <1>1
      <4> QED
        BY <1>5, <2>2, <4>1, Zenon
    <3> QED
      BY <3>1, Zenon
  <2>4. flatten = Loop(flatten)
    <3> HIDE DEF Loop, h
    <3> QED
      BY <2>3
  <2>5. \A n \in 0..N : n = 0 \/ flatten[n] = h[n]
    <3> DEFINE T == {n \in 0..N : n = 0 \/ flatten[n] = h[n]}
    <3> HIDE DEF flatten, h
    <3>1. 0 \in T
      BY <1>1
    <3>2. ASSUME NEW n \in 1..N, n - 1 \in T PROVE n \in T
      <4>1. flatten[n] = IF n = 1 THEN ss[n] ELSE flatten[n - 1] \o ss[n]
        BY <2>4, Zenon
      <4>2. h[n] = IF n = 1 THEN ss[n] ELSE h[n - 1] \o ss[n]
        BY <2>3, Zenon
      <4>3. n = 1 \/ flatten[n - 1] = h[n - 1]
        BY <1>1, <3>2
      <4> QED
        BY <1>1, <4>1, <4>2, <4>3
    <3>3. \A n \in 0..N : n \in T
      <4> HIDE DEF T
      <4> QED
        BY <1>1, <3>1, <3>2, IntervalInduction, Zenon
    <3> QED
      BY <3>3
  <2>6. flatten[N] = f[N]
    <3>1. N \in 1..N
      BY <1>1, <1>8
    <3>2. h[N] = f[N]
      BY <3>1
    <3> HIDE DEF flatten, h, N
    <3> QED
      BY <1>1, <1>8, <2>5, <3>2
  <2> HIDE DEF flatten
  <2> QED
    BY <1>6, <2>1, <2>6
<1> QED
  BY <1>7, <1>8

\* The equations of the recursion that joins lists, one turn at a time.
LEMMA JoinStep ==
  ASSUME NEW S, NEW ss \in Seq(Seq(S)), NEW f, Joins(f, ss, S), NEW n \in 1..Len(ss)
  PROVE  f[n - 1] \in Seq(S) /\ ss[n] \in Seq(S) /\ f[n] = f[n - 1] \o ss[n]
<1>1. Len(ss) \in Nat /\ n - 1 \in 0..Len(ss) /\ ss[n] \in Seq(S)
  OBVIOUS
<1> QED
  BY <1>1, Zenon DEF Joins

\* Lists of one set joined are a list of that set.
LEMMA FlattenTyped ==
  ASSUME NEW S, NEW ss \in Seq(Seq(S))
  PROVE  FlattenSeq(ss) \in Seq(S)
<1>1. PICK f : Joins(f, ss, S) /\ FlattenSeq(ss) = f[Len(ss)]
  BY FlattenJoins
<1> QED
  BY <1>1 DEF Joins

\* The elements of a list that is put together.
LEMMA RangeJoin ==
  ASSUME NEW S, NEW s \in Seq(S), NEW t \in Seq(S), NEW x
  PROVE  x \in Range(s \o t) <=> x \in Range(s) \/ x \in Range(t)
<1>1. /\ DOMAIN (s \o t) = 1..(Len(s) + Len(t)) /\ DOMAIN s = 1..Len(s) /\ DOMAIN t = 1..Len(t)
      /\ Len(s) \in Nat /\ Len(t) \in Nat
      /\ \A i \in 1..Len(s) : (s \o t)[i] = s[i]
      /\ \A i \in 1..Len(t) : (s \o t)[i + Len(s)] = t[i]
  OBVIOUS
<1>2. ASSUME NEW i \in 1..(Len(s) + Len(t)), i \notin 1..Len(s)
      PROVE  i - Len(s) \in 1..Len(t) /\ (i - Len(s)) + Len(s) = i
  BY <1>1, <1>2
<1>3. \A i \in 1..Len(s) : i \in DOMAIN (s \o t)
  BY <1>1
<1>4. \A i \in 1..Len(t) : i + Len(s) \in DOMAIN (s \o t)
  BY <1>1
<1> DEFINE u == s \o t
<1> HIDE DEF u
<1>5. ASSUME x \in Range(u) PROVE x \in Range(s) \/ x \in Range(t)
  <2>1. PICK i \in DOMAIN u : x = u[i]
    BY <1>5 DEF Range
  <2>2. CASE i \in 1..Len(s)
    BY <1>1, <2>1, <2>2 DEF Range, u
  <2>3. CASE i \notin 1..Len(s)
    <3>1. i - Len(s) \in 1..Len(t) /\ (i - Len(s)) + Len(s) = i
      BY <1>1, <1>2, <2>1, <2>3 DEF u
    <3>2. u[i] = t[i - Len(s)]
      BY <1>1, <3>1 DEF u
    <3> QED
      BY <1>1, <2>1, <3>1, <3>2 DEF Range
  <2> QED
    BY <2>2, <2>3
<1>6. ASSUME x \in Range(s) \/ x \in Range(t) PROVE x \in Range(u)
  BY <1>1, <1>3, <1>4, <1>6, Zenon DEF Range, u
<1> QED
  BY <1>5, <1>6 DEF u

\* The elements of the joined list are those of the lists.
LEMMA FlattenRange ==
  ASSUME NEW S, NEW ss \in Seq(Seq(S)), NEW x
  PROVE  x \in Range(FlattenSeq(ss)) <=> \E i \in 1..Len(ss) : x \in Range(ss[i])
<1> DEFINE N == Len(ss)
<1>1. PICK f : Joins(f, ss, S) /\ FlattenSeq(ss) = f[N]
  BY FlattenJoins
<1>2. N \in Nat
  OBVIOUS
<1> DEFINE T == {n \in 0..N : x \in Range(f[n]) <=> \E i \in 1..n : x \in Range(ss[i])}
<1>3. 0 \in T
  <2>1. Range(f[0]) = {}
    BY <1>1 DEF Joins, Range
  <2> QED
    BY <1>2, <2>1
<1>4. ASSUME NEW n \in 1..N, n - 1 \in T PROVE n \in T
  <2>1. f[n - 1] \in Seq(S) /\ ss[n] \in Seq(S) /\ f[n] = f[n - 1] \o ss[n]
    BY <1>1, JoinStep, Zenon
  <2>2. x \in Range(f[n]) <=> x \in Range(f[n - 1]) \/ x \in Range(ss[n])
    BY <2>1, RangeJoin
  <2>3. n \in 0..N /\ \A i : i \in 1..n <=> i \in 1..(n - 1) \/ i = n
    BY <1>2
  <2> QED
    BY <1>4, <2>2, <2>3
<1>5. \A n \in 0..N : n \in T
  <2> HIDE DEF T
  <2> QED
    BY <1>2, <1>3, <1>4, IntervalInduction, Zenon
<1>6. N \in T
  <2> HIDE DEF N, T
  <2> QED
    BY <1>2, <1>5
<1>7. x \in Range(f[N]) <=> \E i \in 1..N : x \in Range(ss[i])
  <2> HIDE DEF N
  <2> QED
    BY <1>6
<1> QED
  BY <1>1, <1>7

\* Two lists without duplicates, and with nothing in common, joined.
LEMMA DistinctJoin ==
  ASSUME NEW S, NEW s \in Seq(S), NEW t \in Seq(S), IsInjective(s), IsInjective(t),
         \A x \in Range(s) : x \notin Range(t)
  PROVE  IsInjective(s \o t)
<1>1. /\ DOMAIN (s \o t) = 1..(Len(s) + Len(t)) /\ DOMAIN s = 1..Len(s) /\ DOMAIN t = 1..Len(t)
      /\ Len(s) \in Nat /\ Len(t) \in Nat
      /\ \A i \in 1..Len(s) : (s \o t)[i] = s[i]
      /\ \A i \in 1..(Len(s) + Len(t)) : i \notin 1..Len(s) => (s \o t)[i] = t[i - Len(s)]
  OBVIOUS
<1>2. \A i \in 1..(Len(s) + Len(t)) : i \notin 1..Len(s) => i - Len(s) \in 1..Len(t)
  BY <1>1
<1> DEFINE u == s \o t
<1> HIDE DEF u
<1> SUFFICES ASSUME NEW i \in 1..(Len(s) + Len(t)), NEW j \in 1..(Len(s) + Len(t)), u[i] = u[j]
             PROVE  i = j
  BY <1>1, Zenon DEF IsInjective, u
<1>3. \A k \in 1..Len(s) : u[k] = s[k] /\ s[k] \in Range(s)
  BY <1>1 DEF u, Range
<1>4. \A k \in 1..(Len(s) + Len(t)) : k \notin 1..Len(s) => u[k] = t[k - Len(s)] /\ t[k - Len(s)] \in Range(t)
  BY <1>1, <1>2, Zenon DEF u, Range
<1>5. CASE i \in 1..Len(s) /\ j \in 1..Len(s)
  BY <1>1, <1>3, <1>5 DEF IsInjective
<1>6. CASE i \notin 1..Len(s) /\ j \notin 1..Len(s)
  <2>1. i - Len(s) = j - Len(s)
    BY <1>1, <1>2, <1>4, <1>6 DEF IsInjective
  <2> QED
    BY <1>1, <2>1
<1> QED
  BY <1>3, <1>4, <1>5, <1>6

\* So the joined list has no duplicates when the lists have none, and none in common.
LEMMA FlattenDistinct ==
  ASSUME NEW S, NEW ss \in Seq(Seq(S)), \A i \in 1..Len(ss) : IsInjective(ss[i]),
         \A i, j \in 1..Len(ss) : \A x \in Range(ss[i]) : x \in Range(ss[j]) => i = j
  PROVE  IsInjective(FlattenSeq(ss))
<1> DEFINE N == Len(ss)
<1>1. PICK f : Joins(f, ss, S) /\ FlattenSeq(ss) = f[N]
  BY FlattenJoins
<1>2. N \in Nat
  OBVIOUS
<1> DEFINE T == {n \in 0..N : /\ IsInjective(f[n])
                              /\ \A x \in Range(f[n]) : \E i \in 1..n : x \in Range(ss[i])}
<1>3. 0 \in T
  <2>1. Range(f[0]) = {} /\ IsInjective(f[0])
    BY <1>1 DEF Joins, Range, IsInjective
  <2> QED
    BY <1>2, <2>1
<1>4. ASSUME NEW n \in 1..N, n - 1 \in T PROVE n \in T
  <2>1. f[n - 1] \in Seq(S) /\ ss[n] \in Seq(S) /\ f[n] = f[n - 1] \o ss[n]
    BY <1>1, JoinStep, Zenon
  <2>2. \A x : x \in Range(f[n]) <=> x \in Range(f[n - 1]) \/ x \in Range(ss[n])
    BY <2>1, RangeJoin
  <2>3. n \in 0..N /\ (\A i : i \in 1..n <=> i \in 1..(n - 1) \/ i = n) /\ \A i \in 1..(n - 1) : i # n /\ i \in 1..N
    BY <1>2
  <2>4. \A x \in Range(f[n - 1]) : x \notin Range(ss[n])
    BY <1>4, <2>3, Zenon
  <2>5. IsInjective(f[n])
    BY <1>4, <2>1, <2>4, DistinctJoin
  <2> QED
    BY <1>4, <2>2, <2>3, <2>5
<1>5. \A n \in 0..N : n \in T
  <2> HIDE DEF T
  <2> QED
    BY <1>2, <1>3, <1>4, IntervalInduction, Zenon
<1>6. N \in T
  <2> HIDE DEF N, T
  <2> QED
    BY <1>2, <1>5
<1> QED
  BY <1>1, <1>6

\* A list of no duplicates is as long as it has elements.
LEMMA DistinctCount ==
  ASSUME NEW S, NEW s \in Seq(S), IsInjective(s)
  PROVE  IsFiniteSet(Range(s)) /\ Cardinality(Range(s)) = Len(s)
<1>1. Len(s) \in Nat /\ DOMAIN s = 1..Len(s)
  OBVIOUS
<1>2. s \in Bijection(1..Len(s), Range(s))
  BY <1>1 DEF Bijection, Injection, Surjection, IsInjective, Range
<1>3. ExistsBijection(1..Len(s), Range(s))
  BY <1>2 DEF ExistsBijection
<1> QED
  BY <1>1, <1>3, FS_Bijection, FS_Interval, FS_CountingElements

\* What a comprehension keeps, as a join of lists of at most one element.
Kept(ss, list, A, K) ==
  /\ ss \in Seq(Seq(K)) /\ Len(ss) = Len(list) /\ Keep(list, A) = FlattenSeq(ss)
  /\ \A i \in 1..Len(list) : /\ IsInjective(ss[i])
                             /\ \A x : x \in Range(ss[i]) <=> x = list[i] /\ x \in A

\* Keep(list, A) joins, for every element, the element or nothing.
LEMMA KeepJoins ==
  ASSUME NEW S, NEW list \in Seq(S), NEW A
  PROVE  \E ss : Kept(ss, list, A, S \cap A)
<1> DEFINE ss == [i \in DOMAIN list |-> IF list[i] \in A THEN <<list[i]>> ELSE <<>>]
<1>1. Len(list) \in Nat /\ DOMAIN list = 1..Len(list) /\ \A i \in 1..Len(list) : list[i] \in S
  OBVIOUS
<1>2. \A i \in 1..Len(list) : ss[i] = IF list[i] \in A THEN <<list[i]>> ELSE <<>>
  BY <1>1
<1>3. ASSUME NEW i \in 1..Len(list)
      PROVE  /\ ss[i] \in Seq(S \cap A)
             /\ IsInjective(ss[i])
             /\ \A x : x \in Range(ss[i]) <=> x = list[i] /\ x \in A
  <2>1. CASE list[i] \in A
    <3>1. ss[i] = <<list[i]>>
      BY <1>2, <2>1
    <3>2. list[i] \in S \cap A
      BY <1>1, <2>1
    <3>3. <<list[i]>> \in Seq(S \cap A)
      BY <3>2
    <3>4. IsInjective(<<list[i]>>) /\ Range(<<list[i]>>) = {list[i]}
      BY DEF IsInjective, Range
    <3> QED
      BY <2>1, <3>1, <3>3, <3>4, Zenon
  <2>2. CASE list[i] \notin A
    <3>1. ss[i] = <<>>
      BY <1>2, <2>2
    <3>2. IsInjective(<<>>) /\ Range(<<>>) = {} /\ <<>> \in Seq(S \cap A)
      BY DEF IsInjective, Range
    <3> QED
      BY <2>2, <3>1, <3>2
  <2> QED
    BY <2>1, <2>2, Zenon
<1>4. ss \in [1..Len(list) -> Seq(S \cap A)]
  BY <1>1, <1>3
<1>5. ss \in Seq(Seq(S \cap A)) /\ Len(ss) = Len(list)
  BY <1>1, <1>4, FunctionIsSeq
<1>6. Keep(list, A) = FlattenSeq(ss)
  BY DEF Keep
<1> HIDE DEF ss
<1> QED
  BY <1>3, <1>5, <1>6, Zenon DEF Kept

\* It keeps what is in A and nothing else.
LEMMA Keeps ==
  ASSUME NEW S, NEW list \in Seq(S), NEW A
  PROVE  /\ Keep(list, A) \in Seq(S \cap A)
         /\ \A x : x \in Range(Keep(list, A)) <=> x \in Range(list) /\ x \in A
<1> DEFINE K == S \cap A
<1>1. PICK ss : Kept(ss, list, A, K)
  BY KeepJoins, Zenon
<1>2. \A x : x \in Range(list) <=> \E i \in 1..Len(list) : x = list[i]
  BY DEF Range
<1> HIDE DEF K
<1> USE <1>1 DEF Kept
<1>3. ASSUME NEW x PROVE x \in Range(Keep(list, A)) <=> x \in Range(list) /\ x \in A
  <2>1. x \in Range(FlattenSeq(ss)) <=> \E i \in 1..Len(ss) : x \in Range(ss[i])
    BY FlattenRange
  <2>2. x \in Range(FlattenSeq(ss)) <=> \E i \in 1..Len(list) : x = list[i] /\ x \in A
    BY <1>1, <2>1
  <2> QED
    BY <1>1, <1>2, <2>2
<1>4. Keep(list, A) \in Seq(K)
  BY <1>1, FlattenTyped
<1> QED
  BY <1>3, <1>4 DEF K

\* It has no duplicates if the list has none.
LEMMA KeepDistinct ==
  ASSUME NEW S, NEW list \in Seq(S), NEW A, IsInjective(list)
  PROVE  IsInjective(Keep(list, A))
<1> DEFINE K == S \cap A
<1>1. PICK ss : Kept(ss, list, A, K)
  BY KeepJoins, Zenon
<1>2. \A i, j \in 1..Len(list) : list[i] = list[j] => i = j
  BY DEF IsInjective
<1> HIDE DEF K
<1> USE <1>1 DEF Kept
<1>3. ASSUME NEW i \in 1..Len(ss), NEW j \in 1..Len(ss), NEW x \in Range(ss[i]), x \in Range(ss[j])
      PROVE  i = j
  <2>1. x = list[i] /\ x = list[j]
    BY <1>3, Zenon
  <2> QED
    BY <1>2, <2>1, Zenon
<1>4. \A i \in 1..Len(ss) : IsInjective(ss[i])
  BY <1>1
<1>5. IsInjective(FlattenSeq(ss))
  BY <1>3, <1>4, FlattenDistinct, Zenon
<1> QED
  BY <1>1, <1>5

\* Empty lists are those without elements, and the first element is one of them.
LEMMA EmptyRange ==
  ASSUME NEW S, NEW s \in Seq(S)
  PROVE  /\ s = <<>> <=> Range(s) = {}
         /\ s # <<>> => Head(s) \in Range(s)
<1>1. DOMAIN s = 1..Len(s) /\ Len(s) \in Nat
  OBVIOUS
<1>2. s # <<>> => 1 \in DOMAIN s /\ Head(s) = s[1]
  OBVIOUS
<1>3. Range(<<>>) = {}
  BY DEF Range
<1> QED
  BY <1>2, <1>3 DEF Range

\* One more list is joined at the end.
LEMMA FlattenAppend ==
  ASSUME NEW S, NEW ss \in Seq(Seq(S)), NEW x \in Seq(S)
  PROVE  FlattenSeq(Append(ss, x)) = FlattenSeq(ss) \o x
<1> DEFINE N == Len(ss)
           tt == Append(ss, x)
<1>1. N \in Nat /\ tt \in Seq(Seq(S)) /\ Len(tt) = N + 1 /\ tt[N + 1] = x /\ \A i \in 1..N : tt[i] = ss[i]
  OBVIOUS
<1> HIDE DEF tt
<1>2. PICK f : Joins(f, tt, S) /\ FlattenSeq(tt) = f[N + 1]
  BY <1>1, FlattenJoins, Zenon
<1>3. PICK g : Joins(g, ss, S) /\ FlattenSeq(ss) = g[N]
  BY FlattenJoins
<1>4. \A n \in 0..N : f[n] = g[n]
  <2> DEFINE T == {n \in 0..N : f[n] = g[n]}
  <2>1. 0 \in T
    BY <1>1, <1>2, <1>3 DEF Joins
  <2>2. ASSUME NEW n \in 1..N, n - 1 \in T PROVE n \in T
    <3>1. n \in 1..Len(tt) /\ tt[n] = ss[n]
      BY <1>1
    <3>2. f[n] = f[n - 1] \o ss[n]
      BY <1>1, <1>2, <3>1, JoinStep
    <3>3. g[n] = g[n - 1] \o ss[n]
      BY <1>3, JoinStep, Zenon
    <3>4. f[n - 1] = g[n - 1] /\ n \in 0..N
      BY <1>1, <2>2
    <3>5. f[n] = g[n]
      <4> HIDE DEF N
      <4> QED
        BY <3>2, <3>3, <3>4
    <3> QED
      BY <3>4, <3>5
  <2>3. \A n \in 0..N : n \in T
    <3> HIDE DEF T
    <3> QED
      BY <1>1, <2>1, <2>2, IntervalInduction, Zenon
  <2> QED
    BY <2>3
<1>5. f[N + 1] = f[(N + 1) - 1] \o tt[N + 1]
  <2>1. N + 1 \in 1..Len(tt)
    BY <1>1
  <2> QED
    BY <1>1, <1>2, <2>1, JoinStep, Zenon
<1>6. (N + 1) - 1 = N /\ N \in 0..N
  BY <1>1
<1>7. f[N + 1] = g[N] \o x
  <2> HIDE DEF N
  <2> QED
    BY <1>1, <1>4, <1>5, <1>6, Zenon
<1> QED
  BY <1>2, <1>3, <1>7 DEF tt

\* Every atom of a text replaced by a text.
Replaced(s, f) == FlattenSeq([i \in DOMAIN s |-> f[s[i]]])

\* Replacing every element by a list gives a list.
LEMMA ReplacedTyped ==
  ASSUME NEW A, NEW B, NEW s \in Seq(A), NEW f \in [A -> Seq(B)]
  PROVE  Replaced(s, f) \in Seq(B) /\ [i \in DOMAIN s |-> f[s[i]]] \in Seq(Seq(B))
<1> DEFINE ss == [i \in DOMAIN s |-> f[s[i]]]
<1>1. Len(s) \in Nat /\ DOMAIN s = 1..Len(s) /\ \A i \in 1..Len(s) : f[s[i]] \in Seq(B)
  OBVIOUS
<1>2. ss \in [1..Len(s) -> Seq(B)]
  BY <1>1
<1>3. ss \in Seq(Seq(B))
  <2> HIDE DEF ss
  <2> QED
    BY <1>1, <1>2, FunctionIsSeq, Zenon
<1>4. Replaced(s, f) = FlattenSeq(ss)
  BY DEF Replaced
<1> HIDE DEF ss
<1>5. FlattenSeq(ss) \in Seq(B)
  BY <1>3, FlattenTyped
<1> QED
  BY <1>3, <1>4, <1>5 DEF ss

\* There is nothing to replace in the empty list.
LEMMA ReplacedEmpty ==
  ASSUME NEW f
  PROVE  Replaced(<<>>, f) = <<>>
<1>1. [i \in DOMAIN <<>> |-> f[<<>>[i]]] = <<>>
  OBVIOUS
<1>2. FlattenSeq(<<>>) = <<>>
  BY DEF FlattenSeq
<1> QED
  BY <1>1, <1>2 DEF Replaced

\* The laws of \o and of replacement, as predicates: the provers then find the lemma a
\* step needs by the name of its law.
Associative(r, s, t) == (r \o s) \o t = r \o (s \o t)
Appends(s, a, f) == Replaced(Append(s, a), f) = Replaced(s, f) \o f[a]
Concats(s, t, f) == Replaced(s \o t, f) = Replaced(s, f) \o Replaced(t, f)
Then(A, f, g) == [a \in A |-> Replaced(f[a], g)]
Composes(A, s, f, g) == Replaced(Replaced(s, f), g) = Replaced(s, Then(A, f, g))

\* Joining is associative.
LEMMA JoinAssociative ==
  ASSUME NEW S, NEW r \in Seq(S), NEW s \in Seq(S), NEW t \in Seq(S)
  PROVE  Associative(r, s, t)
  BY ConcatAssociative DEF Associative

\* The last element's list comes last.
LEMMA ReplacedAppend ==
  ASSUME NEW A, NEW B, NEW s \in Seq(A), NEW a \in A, NEW f \in [A -> Seq(B)]
  PROVE  Appends(s, a, f)
<1> DEFINE t == Append(s, a)
           ss == [i \in DOMAIN s |-> f[s[i]]]
           tt == [i \in DOMAIN t |-> f[t[i]]]
<1>1. ss \in Seq(Seq(B)) /\ f[a] \in Seq(B)
  BY ReplacedTyped, Zenon
<1>2. tt = Append(ss, f[a])
  <2>1. Len(s) \in Nat /\ DOMAIN s = 1..Len(s) /\ DOMAIN t = 1..(Len(s) + 1)
        /\ (\A i \in 1..Len(s) : t[i] = s[i]) /\ t[Len(s) + 1] = a
    OBVIOUS
  <2>2. DOMAIN ss = 1..Len(s) /\ Len(ss) = Len(s)
    <3>1. DOMAIN ss = 1..Len(s)
      BY <2>1
    <3> HIDE DEF ss
    <3> QED
      BY <1>1, <2>1, <3>1
  <2> DEFINE uu == Append(ss, f[a])
  <2>3. DOMAIN uu = 1..(Len(s) + 1) /\ (\A i \in 1..Len(s) : uu[i] = ss[i]) /\ uu[Len(s) + 1] = f[a]
        /\ uu \in Seq(Seq(B))
    <3> HIDE DEF ss
    <3> QED
      BY <1>1, <2>1, <2>2
  <2>4. uu = [i \in DOMAIN uu |-> uu[i]]
    <3> HIDE DEF uu
    <3> QED
      BY <2>3
  <2>5. ASSUME NEW i \in 1..(Len(s) + 1) PROVE tt[i] = uu[i]
    <3>1. tt[i] = f[t[i]]
      BY <2>1
    <3>2. CASE i = Len(s) + 1
      BY <2>1, <2>3, <3>1, <3>2
    <3>3. CASE i # Len(s) + 1
      <4>1. i \in 1..Len(s)
        BY <2>1, <3>3
      <4>2. ss[i] = f[s[i]]
        BY <2>1, <4>1
      <4> HIDE DEF uu, ss, tt, t
      <4> QED
        BY <2>1, <2>3, <3>1, <4>1, <4>2, Zenon
    <3> QED
      BY <3>2, <3>3
  <2> HIDE DEF uu
  <2> QED
    BY <2>1, <2>3, <2>4, <2>5 DEF uu
<1> HIDE DEF ss
<1>3. FlattenSeq(tt) = FlattenSeq(ss) \o f[a]
  BY <1>1, <1>2, FlattenAppend, Zenon
<1> QED
  BY <1>3, Zenon DEF Replaced, Appends, ss

\* One element is replaced by its list.
LEMMA ReplacedOne ==
  ASSUME NEW A, NEW B, NEW a \in A, NEW f \in [A -> Seq(B)]
  PROVE  Replaced(<<a>>, f) = f[a]
<1> DEFINE e == <<>>
<1>1. e \in Seq(A)
  OBVIOUS
<1>2. Append(e, a) = <<a>> /\ f[a] \in Seq(B) /\ <<>> \o f[a] = f[a]
  OBVIOUS
<1>3. Replaced(e, f) = <<>>
  BY ReplacedEmpty
<1> HIDE DEF e
<1>4. Appends(e, a, f)
  BY <1>1, ReplacedAppend
<1> QED
  BY <1>2, <1>3, <1>4 DEF Appends

\* The first n elements of a list.
Prefix(s, n) == [i \in 1..n |-> s[i]]

\* The prefixes of a list, from none of it to all of it.
LEMMA PrefixesGrow ==
  ASSUME NEW A, NEW s \in Seq(A)
  PROVE  /\ Prefix(s, 0) = <<>> /\ Prefix(s, Len(s)) = s
         /\ \A n \in 0..Len(s) : Prefix(s, n) \in Seq(A)
         /\ \A n \in 1..Len(s) : Prefix(s, n) = Append(Prefix(s, n - 1), s[n]) /\ s[n] \in A
<1>1. Len(s) \in Nat /\ DOMAIN s = 1..Len(s) /\ \A i \in 1..Len(s) : s[i] \in A
  OBVIOUS
<1>2. Prefix(s, 0) = <<>> /\ Prefix(s, Len(s)) = s
  BY DEF Prefix
<1>3. ASSUME NEW n \in 0..Len(s) PROVE Prefix(s, n) \in Seq(A) /\ Len(Prefix(s, n)) = n
  <2>1. Prefix(s, n) \in [1..n -> A] /\ n \in Nat
    BY <1>1 DEF Prefix
  <2> QED
    BY <2>1, FunctionIsSeq
<1>4. ASSUME NEW n \in 1..Len(s) PROVE Prefix(s, n) = Append(Prefix(s, n - 1), s[n])
  <2> DEFINE p == Prefix(s, n - 1)
             q == Append(p, s[n])
  <2>1. n - 1 \in 0..Len(s) /\ s[n] \in A
    BY <1>1
  <2>2. p \in Seq(A) /\ Len(p) = n - 1 /\ \A i \in 1..(n - 1) : p[i] = s[i]
    BY <1>3, <2>1 DEF Prefix
  <2> HIDE DEF p
  <2>3. q \in Seq(A) /\ Len(q) = n /\ (\A i \in 1..(n - 1) : q[i] = s[i]) /\ q[n] = s[n]
    BY <2>1, <2>2
  <2> HIDE DEF q
  <2>4. \A i \in 1..n : q[i] = s[i]
    BY <2>1, <2>3
  <2>5. q = [i \in 1..n |-> q[i]]
    BY <2>3
  <2>6. q = Prefix(s, n)
    BY <2>4, <2>5 DEF Prefix
  <2> QED
    BY <2>6 DEF q, p
<1> QED
  BY <1>1, <1>2, <1>3, <1>4

\* A text put together from two.
LEMMA ReplacedConcat ==
  ASSUME NEW A, NEW B, NEW s \in Seq(A), NEW t \in Seq(A), NEW f \in [A -> Seq(B)]
  PROVE  Concats(s, t, f)
<1> DEFINE T == {n \in 0..Len(t) : Replaced(s \o Prefix(t, n), f) = Replaced(s, f) \o Replaced(Prefix(t, n), f)}
<1>1. Len(t) \in Nat
  OBVIOUS
<1>2. /\ Prefix(t, 0) = <<>> /\ Prefix(t, Len(t)) = t
      /\ \A n \in 0..Len(t) : Prefix(t, n) \in Seq(A)
      /\ \A n \in 1..Len(t) : Prefix(t, n) = Append(Prefix(t, n - 1), t[n]) /\ t[n] \in A
  BY PrefixesGrow
<1>3. Replaced(s, f) \in Seq(B)
  BY ReplacedTyped, Zenon
<1>4. 0 \in T
  <2>1. s \o <<>> = s
    OBVIOUS
  <2>2. Replaced(s, f) \o <<>> = Replaced(s, f)
    BY <1>3
  <2>3. Replaced(<<>>, f) = <<>>
    BY ReplacedEmpty
  <2>4. Replaced(s \o Prefix(t, 0), f) = Replaced(s, f) \o Replaced(Prefix(t, 0), f)
    <3>1. Prefix(t, 0) = <<>>
      BY <1>2
    <3> QED
      BY <2>1, <2>2, <2>3, <3>1, Zenon
  <2> QED
    BY <1>1, <2>4
<1>5. ASSUME NEW n \in 1..Len(t), n - 1 \in T PROVE n \in T
  <2> DEFINE p == Prefix(t, n - 1)
             a == t[n]
  <2>1. n - 1 \in 0..Len(t) /\ n \in 0..Len(t)
    BY <1>1
  <2>2. p \in Seq(A) /\ a \in A
    BY <1>2, <2>1
  <2>9. Prefix(t, n) = Append(p, a)
    BY <1>2
  <2>3. Replaced(s \o p, f) = Replaced(s, f) \o Replaced(p, f)
    BY <1>5
  <2> HIDE DEF p, a
  <2>10. s \o p \in Seq(A)
    BY <2>2
  <2>4. s \o Append(p, a) = Append(s \o p, a)
    <3>1. <<a>> \in Seq(A)
      BY <2>2
    <3>2. Append(p, a) = p \o <<a>>
      BY <2>2, AppendIsConcat
    <3>3. Append(s \o p, a) = (s \o p) \o <<a>>
      BY <2>2, <2>10, AppendIsConcat, Zenon
    <3>4. Associative(s, p, <<a>>)
      BY <2>2, <3>1, JoinAssociative, Zenon
    <3> QED
      BY <3>2, <3>3, <3>4, Zenon DEF Associative
  <2>5. Replaced(Append(s \o p, a), f) = Replaced(s \o p, f) \o f[a]
    <3> DEFINE q == s \o p
    <3>1. q \in Seq(A)
      BY <2>10
    <3> HIDE DEF q
    <3>2. Appends(q, a, f)
      BY <2>2, <3>1, ReplacedAppend
    <3> QED
      BY <3>2 DEF q, Appends
  <2>6. Appends(p, a, f)
    BY <2>2, ReplacedAppend
  <2>7. Replaced(p, f) \in Seq(B) /\ f[a] \in Seq(B)
    BY <2>2, ReplacedTyped, Zenon
  <2>8. Associative(Replaced(s, f), Replaced(p, f), f[a])
    BY <1>3, <2>7, JoinAssociative
  <2>11. Replaced(s \o Prefix(t, n), f) = Replaced(s, f) \o Replaced(Prefix(t, n), f)
    BY <2>3, <2>4, <2>5, <2>6, <2>8, <2>9, Zenon DEF Appends, Associative
  <2> QED
    BY <2>1, <2>11
<1>6. \A n \in 0..Len(t) : n \in T
  <2> HIDE DEF T
  <2> QED
    BY <1>1, <1>4, <1>5, IntervalInduction, Zenon
<1>7. Len(t) \in T
  <2> HIDE DEF T
  <2> QED
    BY <1>1, <1>6
<1> QED
  BY <1>2, <1>7 DEF Concats

\* Two replacements in turn are one.
LEMMA ReplacedTwice ==
  ASSUME NEW A, NEW B, NEW C, NEW s \in Seq(A), NEW f \in [A -> Seq(B)], NEW g \in [B -> Seq(C)]
  PROVE  Then(A, f, g) \in [A -> Seq(C)] /\ Composes(A, s, f, g)
<1> DEFINE h == [a \in A |-> Replaced(f[a], g)]
           T == {n \in 0..Len(s) : Replaced(Replaced(Prefix(s, n), f), g) = Replaced(Prefix(s, n), h)}
<1>1. Len(s) \in Nat
  OBVIOUS
<1>2. /\ Prefix(s, 0) = <<>> /\ Prefix(s, Len(s)) = s
      /\ \A n \in 0..Len(s) : Prefix(s, n) \in Seq(A)
      /\ \A n \in 1..Len(s) : Prefix(s, n) = Append(Prefix(s, n - 1), s[n]) /\ s[n] \in A
  BY PrefixesGrow
<1>3. h \in [A -> Seq(C)]
  <2>1. \A a \in A : Replaced(f[a], g) \in Seq(C)
    BY ReplacedTyped, Zenon
  <2> QED
    BY <2>1
<1>4. 0 \in T
  <2>1. Replaced(<<>>, f) = <<>> /\ Replaced(<<>>, g) = <<>> /\ Replaced(<<>>, h) = <<>>
    BY ReplacedEmpty
  <2> HIDE DEF h
  <2> QED
    BY <1>1, <1>2, <2>1
<1>5. ASSUME NEW n \in 1..Len(s), n - 1 \in T PROVE n \in T
  <2> DEFINE p == Prefix(s, n - 1)
             a == s[n]
  <2>1. n - 1 \in 0..Len(s) /\ n \in 0..Len(s)
    BY <1>1
  <2>2. p \in Seq(A) /\ a \in A
    BY <1>2, <2>1
  <2>9. Prefix(s, n) = Append(p, a)
    BY <1>2
  <2>3. Replaced(Replaced(p, f), g) = Replaced(p, h)
    BY <1>5
  <2>4. h[a] = Replaced(f[a], g)
    BY <2>2
  <2> HIDE DEF p, a, h
  <2>5. Appends(p, a, f)
    BY <2>2, ReplacedAppend
  <2>6. Replaced(p, f) \in Seq(B) /\ f[a] \in Seq(B)
    BY <2>2, ReplacedTyped, Zenon
  <2>7. Concats(Replaced(p, f), f[a], g)
    BY <2>6, ReplacedConcat
  <2>8. Appends(p, a, h)
    BY <1>3, <2>2, ReplacedAppend
  <2>10. Replaced(Replaced(Prefix(s, n), f), g) = Replaced(Prefix(s, n), h)
    BY <2>3, <2>4, <2>5, <2>7, <2>8, <2>9, Zenon DEF Appends, Concats
  <2> QED
    BY <2>1, <2>10
<1>6. \A n \in 0..Len(s) : n \in T
  <2> HIDE DEF T
  <2> QED
    BY <1>1, <1>4, <1>5, IntervalInduction, Zenon
<1>7. Len(s) \in T
  <2> HIDE DEF T
  <2> QED
    BY <1>1, <1>6
<1> QED
  BY <1>2, <1>3, <1>7 DEF Then, Composes

\* A text none of whose atoms is replaced stays as it is.
LEMMA ReplacedNone ==
  ASSUME NEW A, NEW s \in Seq(A), NEW f \in [A -> Seq(A)], \A a \in Range(s) : f[a] = <<a>>
  PROVE  Replaced(s, f) = s
<1> DEFINE T == {n \in 0..Len(s) : Replaced(Prefix(s, n), f) = Prefix(s, n)}
<1>1. Len(s) \in Nat
  OBVIOUS
<1>2. /\ Prefix(s, 0) = <<>> /\ Prefix(s, Len(s)) = s
      /\ \A n \in 0..Len(s) : Prefix(s, n) \in Seq(A)
      /\ \A n \in 1..Len(s) : Prefix(s, n) = Append(Prefix(s, n - 1), s[n]) /\ s[n] \in A
  BY PrefixesGrow
<1>3. 0 \in T
  BY <1>1, <1>2, ReplacedEmpty
<1>4. ASSUME NEW n \in 1..Len(s), n - 1 \in T PROVE n \in T
  <2> DEFINE p == Prefix(s, n - 1)
             a == s[n]
  <2>1. n - 1 \in 0..Len(s) /\ n \in 0..Len(s)
    BY <1>1
  <2>2. p \in Seq(A) /\ a \in A
    BY <1>2, <2>1
  <2>9. Prefix(s, n) = Append(p, a)
    BY <1>2
  <2>3. f[a] = <<a>>
    BY DEF Range
  <2>4. Replaced(p, f) = p
    BY <1>4
  <2> HIDE DEF p, a
  <2>5. Appends(p, a, f)
    BY <2>2, ReplacedAppend
  <2>6. Append(p, a) = p \o <<a>>
    BY <2>2, AppendIsConcat
  <2>7. Replaced(Prefix(s, n), f) = Prefix(s, n)
    BY <2>3, <2>4, <2>5, <2>6, <2>9, Zenon DEF Appends
  <2> QED
    BY <2>1, <2>7
<1>5. \A n \in 0..Len(s) : n \in T
  <2> HIDE DEF T
  <2> QED
    BY <1>1, <1>3, <1>4, IntervalInduction, Zenon
<1>6. Len(s) \in T
  <2> HIDE DEF T
  <2> QED
    BY <1>1, <1>5
<1> QED
  BY <1>2, <1>6

\* A replacement of atoms by atoms.
Maps(s, f, h) == Replaced(s, f) = [i \in DOMAIN s |-> h[s[i]]]

\* Replacing every element by a single one is mapping the list.
LEMMA ReplacedMaps ==
  ASSUME NEW A, NEW B, NEW s \in Seq(A), NEW h \in [A -> B], NEW f \in [A -> Seq(B)],
         \A a \in A : f[a] = <<h[a]>>
  PROVE  Maps(s, f, h)
<1> DEFINE m(n) == [i \in 1..n |-> h[s[i]]]
           T == {n \in 0..Len(s) : Replaced(Prefix(s, n), f) = m(n)}
<1>1. Len(s) \in Nat /\ DOMAIN s = 1..Len(s) /\ \A i \in 1..Len(s) : s[i] \in A
  OBVIOUS
<1>2. /\ Prefix(s, 0) = <<>> /\ Prefix(s, Len(s)) = s
      /\ \A n \in 0..Len(s) : Prefix(s, n) \in Seq(A)
      /\ \A n \in 1..Len(s) : Prefix(s, n) = Append(Prefix(s, n - 1), s[n]) /\ s[n] \in A
  BY PrefixesGrow
<1>3. f \in [A -> Seq(B)] /\ \A a \in A : f[a] = <<h[a]>>
  OBVIOUS
<1>4. \A n \in 0..Len(s) : m(n) \in Seq(B) /\ Len(m(n)) = n
  <2>1. ASSUME NEW n \in 0..Len(s) PROVE n \in Nat /\ m(n) \in [1..n -> B]
    BY <1>1
  <2> HIDE DEF m
  <2> QED
    BY <2>1, FunctionIsSeq
<1>5. 0 \in T
  <2>1. m(0) = <<>>
    OBVIOUS
  <2> HIDE DEF m
  <2> QED
    BY <1>1, <1>2, <2>1, ReplacedEmpty
<1>6. ASSUME NEW n \in 1..Len(s), n - 1 \in T PROVE n \in T
  <2> DEFINE p == Prefix(s, n - 1)
             a == s[n]
  <2>1. n - 1 \in 0..Len(s) /\ n \in 0..Len(s)
    BY <1>1
  <2>2. p \in Seq(A) /\ a \in A
    BY <1>2, <2>1
  <2>3. Prefix(s, n) = Append(p, a)
    BY <1>2
  <2>4. Replaced(p, f) = m(n - 1)
    BY <1>6, Zenon
  <2>5. m(n) = m(n - 1) \o <<h[a]>>
    <3> DEFINE r == m(n - 1)
               b == h[a]
               q == Append(r, b)
    <3>1. r \in Seq(B) /\ Len(r) = n - 1 /\ b \in B
      BY <1>4, <2>1, <2>2
    <3>2. \A i \in 1..(n - 1) : r[i] = h[s[i]]
      OBVIOUS
    <3> HIDE DEF r, b
    <3>3. Len(q) = n /\ q \in Seq(B) /\ (\A i \in 1..(n - 1) : q[i] = r[i]) /\ q[n] = b
      BY <2>1, <3>1
    <3>7. q = r \o <<b>>
      BY <3>1, AppendIsConcat
    <3> HIDE DEF q
    <3>4. \A i \in 1..n : q[i] = h[s[i]]
      <4>1. \A i \in 1..n : i = n \/ i \in 1..(n - 1)
        OBVIOUS
      <4> QED
        BY <3>2, <3>3, <4>1 DEF b
    <3>5. q = [i \in 1..n |-> q[i]]
      BY <3>3
    <3>6. q = m(n)
      BY <3>4, <3>5
    <3> QED
      BY <3>6, <3>7 DEF r, b
  <2> HIDE DEF p, a, m
  <2>6. Appends(p, a, f)
    BY <1>3, <2>2, ReplacedAppend
  <2>7. Replaced(Prefix(s, n), f) = m(n)
    BY <1>3, <2>2, <2>3, <2>4, <2>5, <2>6, Zenon DEF Appends
  <2> QED
    BY <2>1, <2>7
<1>7. \A n \in 0..Len(s) : n \in T
  <2> HIDE DEF T
  <2> QED
    BY <1>1, <1>5, <1>6, IntervalInduction, Zenon
<1>8. Len(s) \in T
  <2> HIDE DEF T
  <2> QED
    BY <1>1, <1>7
<1> QED
  BY <1>1, <1>2, <1>8 DEF Maps

-----------------------------------------------------------------------------
\* check_tool_requirements.py

\* Two versions of two numbers are compared by the first, then by the second.
LEMMA BeforeIsLexical ==
  ASSUME NEW a \in Nat, NEW b \in Nat, NEW c \in Nat, NEW d \in Nat
  PROVE  Tools!Before(<<a, b>>, <<c, d>>) <=> a < c \/ (a = c /\ b < d)
<1> DEFINE At(s, i) == IF i \in DOMAIN s THEN s[i] ELSE 0
           u == <<a, b>>
           v == <<c, d>>
<1>1. Tools!Before(u, v) <=> \E i \in 1..4 : /\ At(u, i) < At(v, i)
                                             /\ \A j \in 1..(i - 1) : At(u, j) = At(v, j)
  BY DEF Tools!Before
<1>2. /\ At(u, 1) = a /\ At(u, 2) = b /\ At(u, 3) = 0 /\ At(u, 4) = 0
      /\ At(v, 1) = c /\ At(v, 2) = d /\ At(v, 3) = 0 /\ At(v, 4) = 0
  OBVIOUS
<1> HIDE DEF At, u, v
<1>3. \A i \in 1..4 : i = 1 \/ i = 2 \/ i = 3 \/ i = 4
  OBVIOUS
<1>4. 1 \in 1..4 /\ 2 \in 1..4 /\ 1..(1 - 1) = {} /\ 1..(2 - 1) = {1}
  OBVIOUS
<1>5. ASSUME a < c \/ (a = c /\ b < d)
      PROVE  \E i \in 1..4 : At(u, i) < At(v, i) /\ \A j \in 1..(i - 1) : At(u, j) = At(v, j)
  <2>1. CASE a < c
    BY <1>2, <1>4, <2>1
  <2>2. CASE a = c /\ b < d
    BY <1>2, <1>4, <2>2
  <2> QED
    BY <1>5, <2>1, <2>2
<1>6. ASSUME NEW i \in 1..4, At(u, i) < At(v, i), \A j \in 1..(i - 1) : At(u, j) = At(v, j)
      PROVE  a < c \/ (a = c /\ b < d)
  <2>1. i = 1 \/ i = 2
    BY <1>2, <1>3, <1>6
  <2> QED
    BY <1>2, <1>4, <1>6, <2>1
<1>7. Tools!Before(u, v) <=> a < c \/ (a = c /\ b < d)
  BY <1>1, <1>5, <1>6
<1> QED
  BY <1>7 DEF u, v

VcsRelease == Nat \X Nat \X (0..99) \X (0..99)

FourDigits == {n \in Nat : n < 10000}

\* A number written after the month keeps its order, the shorter coming first.
LEMMA ConcatenatedOrdered ==
  ASSUME NEW m \in Nat, NEW x \in FourDigits, NEW y \in FourDigits
  PROVE  /\ Tools!Concatenated(m, x) \in Nat
         /\ (Tools!Concatenated(m, x) < Tools!Concatenated(m, y) <=> x < y)
<1> DEFINE Weight(n) == IF n < 10 THEN 10 ELSE IF n < 100 THEN 100 ELSE IF n < 1000 THEN 1000 ELSE 10000
<1>1. Tools!Concatenated(m, x) = m * Weight(x) + x /\ Tools!Concatenated(m, y) = m * Weight(y) + y
  BY DEF Tools!Concatenated
<1>2. /\ Weight(x) \in {10, 100, 1000, 10000} /\ Weight(y) \in {10, 100, 1000, 10000}
      /\ x < y => Weight(x) <= Weight(y)
      /\ y < x => Weight(y) <= Weight(x)
      /\ x = y => Weight(x) = Weight(y)
  BY DEF FourDigits
<1> HIDE DEF Weight
<1>3. \A k, l \in {10, 100, 1000, 10000} : k <= l => m * k <= m * l /\ m * k \in Nat /\ m * l \in Nat
  OBVIOUS
<1>4. m * Weight(x) \in Nat /\ m * Weight(y) \in Nat
  BY <1>2, <1>3
<1>5. /\ x < y => m * Weight(x) <= m * Weight(y)
      /\ y < x => m * Weight(y) <= m * Weight(x)
      /\ x = y => m * Weight(x) = m * Weight(y)
  BY <1>2, <1>3
<1> QED
  BY <1>1, <1>4, <1>5 DEF FourDigits

\* Releases of different years, or of one month, are compared as they came out.
LEMMA VcsComparison ==
  ASSUME NEW u \in VcsRelease, NEW v \in VcsRelease, v[1] # u[1] \/ v[2] = u[2]
  PROVE  Tools!Before(Tools!VcsSemver(u), Tools!VcsSemver(v)) <=> Tools!Older(u, v)
<1> DEFINE x == u[3] * 100 + u[4]
           y == v[3] * 100 + v[4]
<1>1. /\ u[1] \in Nat /\ u[2] \in Nat /\ u[3] \in 0..99 /\ u[4] \in 0..99
      /\ v[1] \in Nat /\ v[2] \in Nat /\ v[3] \in 0..99 /\ v[4] \in 0..99
  BY DEF VcsRelease
<1>2. PICK a \in Nat, b \in Nat, c \in 0..99, d \in 0..99 :
             u[1] = a /\ u[2] = b /\ u[3] = c /\ u[4] = d
  BY <1>1, Zenon
<1>3. PICK e \in Nat, f \in Nat, g \in 0..99, h \in 0..99 :
             v[1] = e /\ v[2] = f /\ v[3] = g /\ v[4] = h
  BY <1>1, Zenon
<1>4. x \in FourDigits /\ y \in FourDigits /\ (x < y <=> c < g \/ (c = g /\ d < h))
  <2>1. x = c * 100 + d /\ y = g * 100 + h
    BY <1>2, <1>3
  <2> HIDE DEF x, y
  <2>2. /\ c \in Int /\ 0 <= c /\ c <= 99 /\ d \in Int /\ 0 <= d /\ d <= 99
        /\ g \in Int /\ 0 <= g /\ g <= 99 /\ h \in Int /\ 0 <= h /\ h <= 99
    OBVIOUS
  <2>3. x \in Int /\ 0 <= x /\ x <= 9999 /\ y \in Int /\ 0 <= y /\ y <= 9999
    BY <2>1, <2>2
  <2>4. x < y <=> c < g \/ (c = g /\ d < h)
    BY <2>1, <2>2
  <2>5. x \in FourDigits /\ y \in FourDigits
    BY <2>3 DEF FourDigits
  <2> QED
    BY <2>4, <2>5, Zenon
<1>5. Tools!VcsSemver(u) = <<a, Tools!Concatenated(b, x)>> /\ Tools!VcsSemver(v) = <<e, Tools!Concatenated(f, y)>>
  BY <1>2, <1>3 DEF Tools!VcsSemver
<1> HIDE DEF x, y
<1>6. Tools!Before(Tools!VcsSemver(u), Tools!VcsSemver(v))
        <=> a < e \/ (a = e /\ Tools!Concatenated(b, x) < Tools!Concatenated(f, y))
  <2>1. Tools!Concatenated(b, x) \in Nat /\ Tools!Concatenated(f, y) \in Nat
    BY <1>4, ConcatenatedOrdered, Zenon
  <2> QED
    BY <1>5, <2>1, BeforeIsLexical
<1>7. Tools!Older(u, v) <=> \/ a < e
                            \/ a = e /\ b < f
                            \/ a = e /\ b = f /\ c < g
                            \/ a = e /\ b = f /\ c = g /\ d < h
  <2> DEFINE First(i) == u[i] < v[i] /\ \A j \in 1..(i - 1) : u[j] = v[j]
  <2>1. 1..4 = {1, 2, 3, 4} /\ 1..(1 - 1) = {} /\ 1..(2 - 1) = {1}
        /\ 1..(3 - 1) = {1, 2} /\ 1..(4 - 1) = {1, 2, 3}
    OBVIOUS
  <2>2. First(1) <=> a < e
    BY <1>2, <1>3, <2>1, Zenon
  <2>3. First(2) <=> a = e /\ b < f
    BY <1>2, <1>3, <2>1, Zenon
  <2>4. First(3) <=> a = e /\ b = f /\ c < g
    BY <1>2, <1>3, <2>1, Zenon
  <2>5. First(4) <=> a = e /\ b = f /\ c = g /\ d < h
    BY <1>2, <1>3, <2>1, Zenon
  <2>6. Tools!Older(u, v) <=> \E i \in 1..4 : First(i)
    BY Zenon DEF Tools!Older
  <2>7. Tools!Older(u, v) <=> First(1) \/ First(2) \/ First(3) \/ First(4)
    <3> HIDE DEF First
    <3> QED
      BY <2>1, <2>6, Zenon
  <2> HIDE DEF First
  <2> QED
    BY <2>2, <2>3, <2>4, <2>5, <2>7, Zenon
<1>8. a # e \/ b = f
  BY <1>2, <1>3
<1>9. b = f => (Tools!Concatenated(b, x) < Tools!Concatenated(f, y) <=> x < y)
  <2>1. Tools!Concatenated(b, x) < Tools!Concatenated(b, y) <=> x < y
    BY <1>4, ConcatenatedOrdered, Zenon
  <2> QED
    BY <2>1
<1> QED
  BY <1>4, <1>6, <1>7, <1>8, <1>9

\* An installed VCS is judged by the order of the releases.
LEMMA VcsJudged == Given => VcsOrdered
<1> SUFFICES ASSUME Given, in.kind = "vcs", in.of[1][1] # in.of[2][1] \/ in.of[1][2] = in.of[2][2]
             PROVE  LET Text(v) == [form |-> "vcs", nums |-> v]
                    IN  Tools!check([tool |-> "vcs", min_version |-> Text(in.of[1])],
                                    [returncode |-> 0,
                                     stdout |-> <<Raise, Return([Text(in.of[2]) EXCEPT !.form = "vcs_cruft"])>>])
                          <=> ~Tools!Older(in.of[2], in.of[1])
  BY DEF VcsOrdered
<1> DEFINE Text(v) == [form |-> "vcs", nums |-> v]
           cruft == [form |-> "vcs_cruft", nums |-> in.of[2]]
           req == [tool |-> "vcs", min_version |-> Text(in.of[1])]
           stdout == <<Raise, Return(cruft)>>
           proc == [returncode |-> 0, stdout |-> stdout]
<1>1. in.of[1] \in VcsRelease /\ in.of[2] \in VcsRelease
  BY InputAssumption DEF Given, VcsRelease
<1>2. [Text(in.of[2]) EXCEPT !.form = "vcs_cruft"] = cruft
  OBVIOUS
<1>3. Tools!to_semver("vcs", Text(in.of[1]), TRUE) = Return(Tools!VcsSemver(in.of[1]))
  BY DEF Tools!to_semver, Tools!Return, Return
<1>4. Tools!to_semver("vcs", cruft, FALSE) = Return(Tools!VcsSemver(in.of[2]))
  BY DEF Tools!to_semver, Tools!Return, Return
<1>5. Tools!get_version("vcs", proc) = Return(cruft)
  <2> DEFINE matching == {i \in DOMAIN stdout : ~Raised(stdout[i])}
  <2>1. stdout[1] = Raise /\ stdout[2] = Return(cruft) /\ DOMAIN stdout = {1, 2} /\ stdout # <<>>
    OBVIOUS
  <2>2. Return(cruft) # Raise
    BY DEF Return, Raise
  <2> HIDE DEF stdout, cruft
  <2>3. matching = {2}
    BY <2>1, <2>2 DEF Raised
  <2>4. Min(matching) = 2
    BY <2>3 DEF Min
  <2>5. Tools!parse_version_output("vcs", stdout) = Return(cruft)
    BY <2>1, <2>3, <2>4 DEF Tools!parse_version_output, Tools!Raised, Raised, Tools!Raise, Raise, Tools!Min, Min
  <2> QED
    BY <2>1, <2>5 DEF Tools!get_version
<1>6. \A x : ~Tools!Raised(Return(x)) /\ Tools!Value(Return(x)) = x
  BY DEF Tools!Raised, Return, Tools!Raise, Tools!Value
<1>7. Tools!check(req, proc) <=> ~Tools!Before(Tools!VcsSemver(in.of[2]), Tools!VcsSemver(in.of[1]))
  <2>1. req.tool = "vcs" /\ req.min_version = Text(in.of[1])
    OBVIOUS
  <2> HIDE DEF req, proc, cruft, Text
  <2> QED
    BY <1>3, <1>4, <1>5, <1>6, <2>1, Zenon DEF Tools!check
<1>8. Tools!Before(Tools!VcsSemver(in.of[2]), Tools!VcsSemver(in.of[1])) <=> Tools!Older(in.of[2], in.of[1])
  BY <1>1, VcsComparison, Zenon
<1> QED
  BY <1>2, <1>7, <1>8

-----------------------------------------------------------------------------
\* main's loop over the requirements, for any file.

ExamineState(reqs, named) ==
  [pending_tools : SUBSET named, missing_tools : Seq({reqs[i].tool : i \in 1..Len(reqs)})]

\* The requirements the loop looks at: all but those as needed that are not named.
Needed(req, named) == ~req.as_needed \/ req.tool \in named

\* What the loop knows after n requirements.
ExaminedUpTo(s, n, reqs, named, installed) ==
  /\ s \in ExamineState(reqs, named)
  /\ s.pending_tools = named \ {reqs[i].tool : i \in 1..n}
  /\ s.missing_tools = <<>> <=> \A i \in 1..n : Needed(reqs[i], named)
                                                 => Tools!check(reqs[i], installed[reqs[i].tool])

\* One turn of the loop keeps what is known of the requirements read.
LEMMA ExamineKnows ==
  ASSUME NEW R, NEW reqs \in Seq(R), NEW named, NEW installed,
         \A i, j \in 1..Len(reqs) : reqs[i].tool = reqs[j].tool => i = j,
         NEW n \in 1..Len(reqs), NEW s, ExaminedUpTo(s, n - 1, reqs, named, installed)
  PROVE  ExaminedUpTo(Tools!Examine(s, reqs[n], installed), n, reqs, named, installed)
<1> DEFINE t == Tools!Examine(s, reqs[n], installed)
           tool == reqs[n].tool
           good == Tools!check(reqs[n], installed[tool])
<1>1. n \in Nat /\ \A i : i \in 1..n <=> i \in 1..(n - 1) \/ i = n
  OBVIOUS
<1>2. /\ s.pending_tools \in SUBSET named
      /\ s.missing_tools \in Seq({reqs[i].tool : i \in 1..Len(reqs)})
      /\ s = [pending_tools |-> s.pending_tools, missing_tools |-> s.missing_tools]
  BY DEF ExaminedUpTo, ExamineState
<1>3. tool \in s.pending_tools <=> tool \in named
  BY <1>1 DEF ExaminedUpTo
<1>4. named \ {reqs[i].tool : i \in 1..n} = s.pending_tools \ {tool}
  BY <1>1 DEF ExaminedUpTo
<1>5. Append(s.missing_tools, tool) \in Seq({reqs[i].tool : i \in 1..Len(reqs)})
      /\ Append(s.missing_tools, tool) # <<>>
  BY <1>2
<1>6. /\ t.pending_tools = s.pending_tools \ {tool}
      /\ t.missing_tools = IF Needed(reqs[n], named) /\ ~good THEN Append(s.missing_tools, tool) ELSE s.missing_tools
      /\ t = [pending_tools |-> t.pending_tools, missing_tools |-> t.missing_tools]
  <2>1. CASE reqs[n].as_needed /\ tool \notin s.pending_tools
    <3>1. t = s
      BY <2>1 DEF Tools!Examine
    <3> QED
      BY <1>2, <1>3, <2>1, <3>1 DEF Needed
  <2>2. CASE ~(reqs[n].as_needed /\ tool \notin s.pending_tools) /\ good
    <3>1. t = [s EXCEPT !.pending_tools = s.pending_tools \ {tool}]
      BY <2>2 DEF Tools!Examine
    <3> QED
      BY <1>2, <1>3, <2>2, <3>1, Zenon DEF Needed
  <2>3. CASE ~(reqs[n].as_needed /\ tool \notin s.pending_tools) /\ ~good
    <3>1. t = [pending_tools |-> s.pending_tools \ {tool}, missing_tools |-> Append(s.missing_tools, tool)]
      BY <1>2, <2>3, Zenon DEF Tools!Examine
    <3> QED
      BY <1>3, <2>3, <3>1 DEF Needed
  <2> QED
    BY <2>1, <2>2, <2>3
<1> HIDE DEF t
<1>7. t \in ExamineState(reqs, named)
  BY <1>2, <1>5, <1>6, Zenon DEF ExamineState
<1>8. t.missing_tools = <<>> <=> \A i \in 1..n : Needed(reqs[i], named)
                                                => Tools!check(reqs[i], installed[reqs[i].tool])
  <2>1. s.missing_tools = <<>> <=> \A i \in 1..(n - 1) : Needed(reqs[i], named)
                                                => Tools!check(reqs[i], installed[reqs[i].tool])
    BY DEF ExaminedUpTo
  <2>2. t.missing_tools = <<>> <=> s.missing_tools = <<>> /\ (Needed(reqs[n], named) => good)
    BY <1>5, <1>6
  <2> QED
    BY <1>1, <2>1, <2>2
<1> QED
  BY <1>4, <1>6, <1>7, <1>8 DEF ExaminedUpTo, t

\* A turn of the loop stays within the states of the loop.
LEMMA ExamineTyped ==
  ASSUME NEW R, NEW reqs \in Seq(R), NEW named, NEW installed, NEW n \in 1..Len(reqs),
         NEW s \in ExamineState(reqs, named)
  PROVE  Tools!Examine(s, reqs[n], installed) \in ExamineState(reqs, named)
<1>1. /\ s.pending_tools \in SUBSET named
      /\ s.missing_tools \in Seq({reqs[i].tool : i \in 1..Len(reqs)})
      /\ s = [pending_tools |-> s.pending_tools, missing_tools |-> s.missing_tools]
  BY DEF ExamineState
<1>2. Append(s.missing_tools, reqs[n].tool) \in Seq({reqs[i].tool : i \in 1..Len(reqs)})
  BY <1>1
<1>3. \/ Tools!Examine(s, reqs[n], installed) = s
      \/ Tools!Examine(s, reqs[n], installed) =
           [pending_tools |-> s.pending_tools \ {reqs[n].tool}, missing_tools |-> s.missing_tools]
      \/ Tools!Examine(s, reqs[n], installed) =
           [pending_tools |-> s.pending_tools \ {reqs[n].tool},
            missing_tools |-> Append(s.missing_tools, reqs[n].tool)]
  BY <1>1, Zenon DEF Tools!Examine
<1>4. s.pending_tools \ {reqs[n].tool} \in SUBSET named
  BY <1>1
<1> DEFINE T == Seq({reqs[i].tool : i \in 1..Len(reqs)})
<1>5. \A p \in SUBSET named, m \in T : [pending_tools |-> p, missing_tools |-> m] \in ExamineState(reqs, named)
  BY DEF ExamineState
<1> HIDE DEF T
<1>6. s.missing_tools \in T /\ Append(s.missing_tools, reqs[n].tool) \in T
  BY <1>1, <1>2 DEF T
<1> QED
  BY <1>3, <1>4, <1>5, <1>6, Zenon

\* After the loop it is known of all requirements.
LEMMA ExaminedKnows ==
  ASSUME NEW R, NEW reqs \in Seq(R), NEW named, NEW installed,
         \A i, j \in 1..Len(reqs) : reqs[i].tool = reqs[j].tool => i = j
  PROVE  ExaminedUpTo(Tools!Examined(reqs, named, installed), Len(reqs), reqs, named, installed)
<1> DEFINE N == Len(reqs)
           V == ExamineState(reqs, named)
           begin == [pending_tools |-> named, missing_tools |-> <<>>]
           G == [p \in V \X Nat |-> IF p[2] \in 1..N THEN Tools!Examine(p[1], reqs[p[2]], installed) ELSE p[1]]
           Loop(g) == [n \in 0..N |-> IF n = 0 THEN begin ELSE Tools!Examine(g[n - 1], reqs[n], installed)]
           after == CHOOSE g : g = Loop(g)
           Known == {n \in 0..N : ExaminedUpTo(after[n], n, reqs, named, installed)}
<1>1. N \in Nat
  OBVIOUS
<1>2. begin \in V
  BY DEF ExamineState
<1>3. G \in [V \X Nat -> V]
  <2>1. ASSUME NEW p \in V \X Nat
        PROVE  (IF p[2] \in 1..N THEN Tools!Examine(p[1], reqs[p[2]], installed) ELSE p[1]) \in V
    BY ExamineTyped, Zenon
  <2> QED
    BY <2>1
<1>4. PICK f : Follows(f, N, V, begin, G)
  <2> HIDE DEF G, N, V, begin
  <2> QED
    BY <1>1, <1>2, <1>3, RecursionExists, Zenon
<1>5. f \in [0..N -> V] /\ f[0] = begin /\ \A n \in 1..N : f[n] = G[<<f[n - 1], n>>]
  BY <1>4, Zenon DEF Follows
<1>6. ASSUME NEW n \in 1..N PROVE f[n] = Tools!Examine(f[n - 1], reqs[n], installed)
  <2> HIDE DEF V
  <2>1. f[n - 1] \in V /\ n \in Nat
    BY <1>1, <1>5
  <2>2. G[<<f[n - 1], n>>] = Tools!Examine(f[n - 1], reqs[n], installed)
    BY <2>1
  <2> HIDE DEF G
  <2> QED
    BY <1>5, <2>2
<1>7. f = Loop(f)
  <2> HIDE DEF V, G, begin
  <2> QED
    BY <1>1, <1>5, <1>6
<1>8. after = Loop(after)
  <2> HIDE DEF Loop
  <2> QED
    BY <1>7
<1>9. Tools!Examined(reqs, named, installed) = after[N]
  BY DEF Tools!Examined
<1> HIDE DEF after, G
<1>10. 0 \in Known
  <2>1. after[0] = begin
    BY <1>1, <1>8
  <2>2. ExaminedUpTo(begin, 0, reqs, named, installed)
    BY <1>2 DEF ExaminedUpTo
  <2> QED
    BY <1>1, <2>1, <2>2
<1>11. \A n \in 1..N : n - 1 \in Known => n \in Known
  <2> SUFFICES ASSUME NEW n \in 1..N, n - 1 \in Known PROVE n \in Known
    OBVIOUS
  <2>1. n \in 0..N /\ n # 0
    BY <1>1
  <2>2. after[n] = Tools!Examine(after[n - 1], reqs[n], installed)
    BY <1>8, <2>1
  <2>3. ExaminedUpTo(after[n], n, reqs, named, installed)
    BY <2>2, ExamineKnows
  <2> QED
    BY <2>1, <2>3
<1>12. \A n \in 0..N : n \in Known
  <2> HIDE DEF Known
  <2> QED
    BY <1>1, <1>10, <1>11, IntervalInduction, Zenon
<1> QED
  BY <1>1, <1>9, <1>12

\* The exit status of check_tool_requirements.py says whether the tools will do.
LEMMA ExitJudged == Given => ExitMeansUsable
<1> SUFFICES ASSUME Given, in.kind = "tools"
             PROVE  Tools!main(in.of.file, in.of.named, in.of.installed) = 0
                      <=> Tools!Usable(in.of.file, in.of.named, in.of.installed)
  BY DEF ExitMeansUsable
<1> DEFINE file == in.of.file
           named == in.of.named
           installed == in.of.installed
           Req(i) == Tools!dict_to_tool_req(file[i][1], file[i][2])
           reqs == [i \in DOMAIN file |-> Tools!Value(Req(i))]
<1>1. /\ file \in Seq(Range(file))
      /\ \A i, j \in DOMAIN file : file[i][1] = file[j][1] => i = j
  BY InputAssumption DEF Given
<1>2. DOMAIN file = 1..Len(file) /\ Len(file) \in Nat
  BY <1>1
<1> HIDE DEF file, named, installed
<1>3. Tools!read_tool_requirements(file) =
        IF \E i \in DOMAIN file : Tools!Raised(Req(i)) THEN Tools!Raise ELSE Tools!Return(reqs)
  <2> DEFINE raw == [i \in DOMAIN file |-> Req(i)]
  <2>1. DOMAIN raw = DOMAIN file /\ \A i \in DOMAIN file : raw[i] = Req(i)
    OBVIOUS
  <2>2. [i \in DOMAIN raw |-> Tools!Value(raw[i])] = reqs
    BY <2>1
  <2>3. Tools!read_tool_requirements(file) =
          IF \E i \in DOMAIN raw : Tools!Raised(raw[i]) THEN Tools!Raise
          ELSE Tools!Return([i \in DOMAIN raw |-> Tools!Value(raw[i])])
    BY DEF Tools!read_tool_requirements
  <2> HIDE DEF raw, Req, reqs
  <2> QED
    BY <2>1, <2>2, <2>3
<1>4. CASE \E i \in DOMAIN file : Tools!Raised(Req(i))
  <2>1. Tools!Raised(Tools!read_tool_requirements(file))
    <3> HIDE DEF Req, reqs
    <3> QED
      BY <1>3, <1>4 DEF Tools!Raised
  <2>2. Tools!main(file, named, installed) = 1
    BY <2>1 DEF Tools!main
  <2>3. ~Tools!Usable(file, named, installed)
    BY <1>4 DEF Tools!Usable
  <2> QED
    BY <2>2, <2>3 DEF file, named, installed
<1>5. CASE \A i \in DOMAIN file : ~Tools!Raised(Req(i))
  <2> DEFINE s == Tools!Examined(reqs, named, installed)
             R == {reqs[i] : i \in DOMAIN file}
  <2>1. \A i \in DOMAIN file : reqs[i].tool = file[i][1]
    <3> SUFFICES ASSUME NEW i \in DOMAIN file PROVE reqs[i].tool = file[i][1]
      OBVIOUS
    <3>1. reqs[i] = Tools!Value(Req(i)) /\ ~Tools!Raised(Req(i))
      BY <1>5
    <3> QED
      BY <3>1 DEF Tools!dict_to_tool_req, Tools!Return, Tools!Raise, Tools!Raised, Tools!Value
  <2>2. reqs \in Seq(R) /\ Len(reqs) = Len(file)
    BY <1>2
  <2>3. \A i, j \in 1..Len(reqs) : reqs[i].tool = reqs[j].tool => i = j
    <3>1. 1..Len(reqs) = DOMAIN file
      BY <1>2, <2>2
    <3> HIDE DEF reqs
    <3> QED
      BY <1>1, <2>1, <3>1
  <2>4. Tools!read_tool_requirements(file) = Tools!Return(reqs)
    <3> HIDE DEF Req, reqs
    <3> QED
      BY <1>3, <1>5
  <2> HIDE DEF R
  <2>5. Tools!main(file, named, installed) = 0 <=> s.missing_tools = <<>> /\ s.pending_tools = {}
    <3>1. ~Tools!Raised(Tools!Return(reqs)) /\ Tools!Value(Tools!Return(reqs)) = reqs
      BY DEF Tools!Raised, Tools!Return, Tools!Raise, Tools!Value
    <3> HIDE DEF reqs
    <3> QED
      BY <2>4, <3>1 DEF Tools!main
  <2>6. ExaminedUpTo(s, Len(reqs), reqs, named, installed)
    <3> HIDE DEF reqs
    <3> QED
      BY <2>2, <2>3, ExaminedKnows
  <2>7. Tools!Usable(file, named, installed)
          <=> /\ \A t \in named : \E i \in 1..Len(reqs) : reqs[i].tool = t
              /\ \A i \in 1..Len(reqs) : Needed(reqs[i], named)
                                           => Tools!check(reqs[i], installed[reqs[i].tool])
    <3>1. \A i \in DOMAIN file : reqs[i] = Tools!Value(Tools!dict_to_tool_req(file[i][1], file[i][2]))
      OBVIOUS
    <3>2. {Tools!Value(Tools!dict_to_tool_req(file[i][1], file[i][2])) : i \in DOMAIN file} = R
      BY <3>1 DEF R
    <3>3. \A i \in DOMAIN file : ~Tools!Raised(Tools!dict_to_tool_req(file[i][1], file[i][2]))
      BY <1>5
    <3>4. 1..Len(reqs) = DOMAIN file
      BY <1>2, <2>2
    <3> HIDE DEF reqs
    <3>5. Tools!Usable(file, named, installed)
            <=> /\ \A t \in named : \E r \in R : r.tool = t
                /\ \A r \in R : (~r.as_needed \/ r.tool \in named) => Tools!check(r, installed[r.tool])
      BY <3>2, <3>3, Zenon DEF Tools!Usable
    <3> QED
      BY <3>4, <3>5 DEF R, Needed
  <2> HIDE DEF s, reqs
  <2>8. s.pending_tools = {} <=> \A t \in named : \E i \in 1..Len(reqs) : reqs[i].tool = t
    BY <2>6 DEF ExaminedUpTo
  <2>9. s.missing_tools = <<>> <=> \A i \in 1..Len(reqs) : Needed(reqs[i], named)
                                           => Tools!check(reqs[i], installed[reqs[i].tool])
    BY <2>6 DEF ExaminedUpTo
  <2>10. Tools!main(file, named, installed) = 0 <=> Tools!Usable(file, named, installed)
    BY <2>5, <2>7, <2>8, <2>9
  <2> QED
    BY <2>10 DEF file, named, installed
<1> QED
  BY <1>4, <1>5

\* check_tool_requirements.py: a VCS is accepted exactly when it is no older than the
\* one required, and the exit status is 0 exactly when every tool the build needs is
\* known and recent enough, for every requirements file and every installation.
THEOREM ToolsAreJudged == Spec => []ToolsJudged
<1>1. Given => ToolsJudged
  BY VcsJudged, ExitJudged DEF ToolsJudged
<1> QED
  BY <1>1, InputGiven, PTL

-----------------------------------------------------------------------------
\* sv2v_in_place.py: the two loops that write files.

\* Some turn of the first n has the path.
Reached(paths, n, p) == \E i \in 1..n : paths[i] = p

\* What is known after n files: those of them that are .sv have the text of tmpdir.
CopiedUpTo(d, n, paths, P, T, disk, tmpdir) ==
  /\ d \in [P -> T]
  /\ \A p \in P : d[p] = IF Sv2v!IsSv(p) /\ Reached(paths, n, p) THEN tmpdir[p] ELSE disk[p]

\* And after n more: those of them that are .svh are empty.
SplattedUpTo(d, n, paths, P, T, disk) ==
  /\ d \in [P -> T]
  /\ \A p \in P : d[p] = IF Sv2v!IsSvh(p) /\ Reached(paths, n, p) THEN <<"empty">> ELSE disk[p]

\* One turn of the loop that copies the converted files back.
LEMMA CopiesBack ==
  ASSUME NEW P, NEW paths \in Seq(P), NEW T, NEW disk \in [P -> T], NEW tmpdir \in [P -> T],
         NEW n \in 1..Len(paths), NEW d, CopiedUpTo(d, n - 1, paths, P, T, disk, tmpdir)
  PROVE  CopiedUpTo(Sv2v!CopyBack(d, paths[n], tmpdir[paths[n]]), n, paths, P, T, disk, tmpdir)
<1> DEFINE e == Sv2v!CopyBack(d, paths[n], tmpdir[paths[n]])
<1>1. n \in Nat /\ paths[n] \in P /\ \A i : i \in 1..n <=> i \in 1..(n - 1) \/ i = n
  OBVIOUS
<1>2. \A p : Reached(paths, n, p) <=> Reached(paths, n - 1, p) \/ p = paths[n]
  BY <1>1 DEF Reached
<1>3. e = IF Sv2v!IsSv(paths[n]) THEN [d EXCEPT ![paths[n]] = tmpdir[paths[n]]] ELSE d
  BY DEF Sv2v!CopyBack
<1> HIDE DEF e
<1>4. e \in [P -> T]
  BY <1>1, <1>3 DEF CopiedUpTo
<1>5. \A p \in P : e[p] = IF Sv2v!IsSv(p) /\ Reached(paths, n, p) THEN tmpdir[p] ELSE disk[p]
  <2> SUFFICES ASSUME NEW p \in P
               PROVE  e[p] = IF Sv2v!IsSv(p) /\ Reached(paths, n, p) THEN tmpdir[p] ELSE disk[p]
    OBVIOUS
  <2>1. e[p] = IF Sv2v!IsSv(paths[n]) /\ p = paths[n] THEN tmpdir[p] ELSE d[p]
    BY <1>1, <1>3 DEF CopiedUpTo
  <2> QED
    BY <1>2, <2>1 DEF CopiedUpTo
<1> QED
  BY <1>4, <1>5 DEF e, CopiedUpTo

\* One turn of the loop that empties the headers.
LEMMA Splats ==
  ASSUME NEW P, NEW paths \in Seq(P), NEW T, <<"empty">> \in T, NEW disk \in [P -> T],
         NEW n \in 1..Len(paths), NEW d, SplattedUpTo(d, n - 1, paths, P, T, disk)
  PROVE  SplattedUpTo(Sv2v!Splat(d, paths[n]), n, paths, P, T, disk)
<1> DEFINE e == Sv2v!Splat(d, paths[n])
<1>1. n \in Nat /\ paths[n] \in P /\ \A i : i \in 1..n <=> i \in 1..(n - 1) \/ i = n
  OBVIOUS
<1>2. \A p : Reached(paths, n, p) <=> Reached(paths, n - 1, p) \/ p = paths[n]
  BY <1>1 DEF Reached
<1>3. e = IF Sv2v!IsSvh(paths[n]) THEN [d EXCEPT ![paths[n]] = <<"empty">>] ELSE d
  BY DEF Sv2v!Splat
<1> HIDE DEF e
<1>4. e \in [P -> T]
  BY <1>1, <1>3 DEF SplattedUpTo
<1>5. \A p \in P : e[p] = IF Sv2v!IsSvh(p) /\ Reached(paths, n, p) THEN <<"empty">> ELSE disk[p]
  <2> SUFFICES ASSUME NEW p \in P
               PROVE  e[p] = IF Sv2v!IsSvh(p) /\ Reached(paths, n, p) THEN <<"empty">> ELSE disk[p]
    OBVIOUS
  <2>1. e[p] = IF Sv2v!IsSvh(paths[n]) /\ p = paths[n] THEN <<"empty">> ELSE d[p]
    BY <1>1, <1>3 DEF SplattedUpTo
  <2> QED
    BY <1>2, <2>1 DEF SplattedUpTo
<1> QED
  BY <1>4, <1>5 DEF e, SplattedUpTo

\* Every path of a list is reached by its end.
LEMMA AllReached ==
  ASSUME NEW P, NEW paths \in Seq(P), NEW p \in Range(paths)
  PROVE  Reached(paths, Len(paths), p)
  BY DEF Reached, Range

\* What sv2v makes of a file of the original tree.
NewText(disk, paths, defines, defines_if, p) ==
  Sv2v!Converted(disk, paths, p, Sv2v!FileDefines(defines, defines_if, p))

\* transform, when no conversion fails: every .sv file is converted, the others stay.
AllConverted(disk, paths, D, defines, defines_if, failing) ==
  LET done == Sv2v!transform(disk, paths, defines, defines_if, failing)
      New(p) == NewText(disk, paths, defines, defines_if, p)
  IN  /\ done.failed = FALSE
      /\ done.disk \in [Range(paths) -> D \cup {New(p) : p \in Range(paths)}]
      /\ \A p \in Range(paths) : done.disk[p] = IF Sv2v!IsSv(p) THEN New(p) ELSE disk[p]

\* When no conversion fails, transform converts every file from the original tree.
LEMMA Transforms ==
  ASSUME NEW paths, paths \in Seq(Range(paths)), NEW D, NEW disk \in [Range(paths) -> D],
         NEW defines, NEW defines_if,
         NEW failing, \A p \in Range(paths) : ~(Sv2v!IsSv(p) /\ p \in failing)
  PROVE  AllConverted(disk, paths, D, defines, defines_if, failing)
<1> DEFINE N == Len(paths)
           P == Range(paths)
           New(p) == NewText(disk, paths, defines, defines_if, p)
           T == D \cup {New(p) : p \in P}
           V == [P -> T]
           texts == [p \in P |-> New(p)]
           tmpdir == [i \in DOMAIN paths |-> New(paths[i])]
           G == [q \in V \X Nat |-> IF q[2] \in 1..N THEN Sv2v!CopyBack(q[1], paths[q[2]], texts[paths[q[2]]]) ELSE q[1]]
           Loop(g) == [n \in 0..N |-> IF n = 0 THEN disk ELSE Sv2v!CopyBack(g[n - 1], paths[n], tmpdir[n])]
           after == CHOOSE g : g = Loop(g)
           Known == {n \in 0..N : CopiedUpTo(after[n], n, paths, P, T, disk, texts)}
<1>1. N \in Nat /\ DOMAIN paths = 1..N /\ \A n \in 1..N : paths[n] \in P
  OBVIOUS
<1>2. disk \in V /\ texts \in V
  OBVIOUS
<1>3. \A n \in 1..N : tmpdir[n] = texts[paths[n]]
  BY <1>1
<1>4. \A p \in P : texts[p] = New(p)
  OBVIOUS
<1>5. Sv2v!transform(disk, paths, defines, defines_if, failing) = [failed |-> FALSE, disk |-> after[N]]
  <2>1. ~ \E p \in Sv2v!Range(paths) : Sv2v!IsSv(p) /\ p \in failing
    BY DEF Sv2v!Range, Range
  <2> QED
    BY <2>1, Zenon DEF Sv2v!transform, NewText
<1> HIDE DEF New, T, texts, tmpdir
<1>6. \A d \in V, n \in 1..N : Sv2v!CopyBack(d, paths[n], texts[paths[n]]) \in V
  BY <1>1, <1>2 DEF Sv2v!CopyBack
<1>7. G \in [V \X Nat -> V]
  <2>1. ASSUME NEW q \in V \X Nat
        PROVE  (IF q[2] \in 1..N THEN Sv2v!CopyBack(q[1], paths[q[2]], texts[paths[q[2]]]) ELSE q[1]) \in V
    <3> HIDE DEF V
    <3> QED
      BY <1>6
  <2> QED
    BY <2>1
<1>8. PICK f : Follows(f, N, V, disk, G)
  <2> HIDE DEF G, N, V
  <2> QED
    BY <1>1, <1>2, <1>7, RecursionExists, Zenon
<1>9. f \in [0..N -> V] /\ f[0] = disk /\ \A n \in 1..N : f[n] = G[<<f[n - 1], n>>]
  BY <1>8, Zenon DEF Follows
<1>10. ASSUME NEW n \in 1..N PROVE f[n] = Sv2v!CopyBack(f[n - 1], paths[n], tmpdir[n])
  <2> HIDE DEF V
  <2>1. f[n - 1] \in V /\ n \in Nat
    BY <1>1, <1>9
  <2>2. G[<<f[n - 1], n>>] = Sv2v!CopyBack(f[n - 1], paths[n], tmpdir[n])
    BY <1>3, <2>1
  <2> HIDE DEF G
  <2> QED
    BY <1>9, <2>2
<1>11. f = Loop(f)
  <2> HIDE DEF V, G
  <2> QED
    BY <1>1, <1>9, <1>10
<1>12. after = Loop(after)
  <2> HIDE DEF Loop
  <2> QED
    BY <1>11
<1> HIDE DEF after, G
<1>13. 0 \in Known
  <2>1. after[0] = disk
    BY <1>1, <1>12
  <2>2. \A p : ~Reached(paths, 0, p)
    BY DEF Reached
  <2> QED
    BY <1>1, <1>2, <2>1, <2>2 DEF CopiedUpTo
<1>14. \A n \in 1..N : n - 1 \in Known => n \in Known
  <2> SUFFICES ASSUME NEW n \in 1..N, n - 1 \in Known PROVE n \in Known
    OBVIOUS
  <2>1. n \in 0..N /\ n # 0
    BY <1>1
  <2>2. after[n] = Sv2v!CopyBack(after[n - 1], paths[n], texts[paths[n]])
    BY <1>3, <1>12, <2>1
  <2>3. CopiedUpTo(after[n], n, paths, P, T, disk, texts)
    BY <1>2, <2>2, CopiesBack
  <2> QED
    BY <2>1, <2>3
<1>15. \A n \in 0..N : n \in Known
  <2> HIDE DEF Known
  <2> QED
    BY <1>1, <1>13, <1>14, IntervalInduction, Zenon
<1>16. /\ after[N] \in [P -> T]
       /\ \A p \in P : after[N][p] = IF Sv2v!IsSv(p) THEN New(p) ELSE disk[p]
  BY <1>1, <1>4, <1>15, AllReached DEF CopiedUpTo
<1> QED
  BY <1>5, <1>16 DEF T, New, AllConverted

\* main, when no conversion fails: the headers are emptied after the copying.
HeadersEmptied(disk, paths, defines, defines_if, failing) ==
  LET done == Sv2v!sv2v_in_place(disk, paths, defines, defines_if, failing)
      copied == Sv2v!transform(disk, paths, defines, defines_if, failing).disk
  IN  /\ done.status = 0
      /\ \A p \in Range(paths) : done.disk[p] = IF Sv2v!IsSvh(p) THEN <<"empty">> ELSE copied[p]

\* When transform has not failed, the headers are emptied and nothing else is touched.
LEMMA Sv2vWrites ==
  ASSUME NEW paths, paths \in Seq(Range(paths)), NEW T, <<"empty">> \in T,
         NEW disk, NEW defines, NEW defines_if, NEW failing,
         Sv2v!transform(disk, paths, defines, defines_if, failing).failed = FALSE,
         Sv2v!transform(disk, paths, defines, defines_if, failing).disk \in [Range(paths) -> T]
  PROVE  HeadersEmptied(disk, paths, defines, defines_if, failing)
<1> DEFINE N == Len(paths)
           P == Range(paths)
           copied == Sv2v!transform(disk, paths, defines, defines_if, failing).disk
           V == [P -> T]
           G == [q \in V \X Nat |-> IF q[2] \in 1..N THEN Sv2v!Splat(q[1], paths[q[2]]) ELSE q[1]]
           Loop(g) == [n \in 0..N |-> IF n = 0 THEN copied ELSE Sv2v!Splat(g[n - 1], paths[n])]
           after == CHOOSE g : g = Loop(g)
           Known == {n \in 0..N : SplattedUpTo(after[n], n, paths, P, T, copied)}
<1>1. N \in Nat /\ DOMAIN paths = 1..N /\ \A n \in 1..N : paths[n] \in P
  OBVIOUS
<1>2. copied \in V
  OBVIOUS
<1>3. Sv2v!sv2v_in_place(disk, paths, defines, defines_if, failing) = [status |-> 0, disk |-> after[N]]
  BY Zenon DEF Sv2v!sv2v_in_place
<1>4. \A d \in V, n \in 1..N : Sv2v!Splat(d, paths[n]) \in V
  BY <1>1 DEF Sv2v!Splat
<1>5. G \in [V \X Nat -> V]
  <2>1. ASSUME NEW q \in V \X Nat
        PROVE  (IF q[2] \in 1..N THEN Sv2v!Splat(q[1], paths[q[2]]) ELSE q[1]) \in V
    <3> HIDE DEF V
    <3> QED
      BY <1>4
  <2> QED
    BY <2>1
<1>6. PICK f : Follows(f, N, V, copied, G)
  <2> HIDE DEF G, N, V
  <2> QED
    BY <1>1, <1>2, <1>5, RecursionExists, Zenon
<1>7. f \in [0..N -> V] /\ f[0] = copied /\ \A n \in 1..N : f[n] = G[<<f[n - 1], n>>]
  BY <1>6, Zenon DEF Follows
<1>8. ASSUME NEW n \in 1..N PROVE f[n] = Sv2v!Splat(f[n - 1], paths[n])
  <2> HIDE DEF V
  <2>1. f[n - 1] \in V /\ n \in Nat
    BY <1>1, <1>7
  <2>2. G[<<f[n - 1], n>>] = Sv2v!Splat(f[n - 1], paths[n])
    BY <2>1
  <2> HIDE DEF G
  <2> QED
    BY <1>7, <2>2
<1>9. f = Loop(f)
  <2> HIDE DEF V, G
  <2> QED
    BY <1>1, <1>7, <1>8
<1>10. after = Loop(after)
  <2> HIDE DEF Loop
  <2> QED
    BY <1>9
<1> HIDE DEF after, G
<1>11. 0 \in Known
  <2>1. after[0] = copied
    BY <1>1, <1>10
  <2>2. \A p : ~Reached(paths, 0, p)
    BY DEF Reached
  <2> QED
    BY <1>1, <1>2, <2>1, <2>2 DEF SplattedUpTo
<1>12. \A n \in 1..N : n - 1 \in Known => n \in Known
  <2> SUFFICES ASSUME NEW n \in 1..N, n - 1 \in Known PROVE n \in Known
    OBVIOUS
  <2>1. n \in 0..N /\ n # 0
    BY <1>1
  <2>2. after[n] = Sv2v!Splat(after[n - 1], paths[n])
    BY <1>10, <2>1
  <2>3. SplattedUpTo(after[n], n, paths, P, T, copied)
    BY <1>2, <2>2, Splats
  <2> QED
    BY <2>1, <2>3
<1>13. \A n \in 0..N : n \in Known
  <2> HIDE DEF Known
  <2> QED
    BY <1>1, <1>11, <1>12, IntervalInduction
<1>14. \A p \in P : after[N][p] = IF Sv2v!IsSvh(p) THEN <<"empty">> ELSE copied[p]
  BY <1>1, <1>13, AllReached DEF SplattedUpTo
<1> QED
  BY <1>3, <1>14 DEF HeadersEmptied

\* AllOrNothing, of one list of files.
ConversionOf(disk, paths, defines, defines_if, failing) ==
  LET done == Sv2v!sv2v_in_place(disk, paths, defines, defines_if, failing)
  IN  IF \E p \in Range(paths) : Sv2v!IsSv(p) /\ p \in failing
      THEN done = [status |-> 1, disk |-> disk]
      ELSE /\ done.status = 0
           /\ \A p \in Range(paths) : done.disk[p] =
                IF Sv2v!IsSv(p) THEN NewText(disk, paths, defines, defines_if, p)
                ELSE IF Sv2v!IsSvh(p) THEN <<"empty">> ELSE disk[p]

\* The whole program, when it fails and when it does not.
LEMMA ConversionRight ==
  ASSUME NEW paths, paths \in Seq(Range(paths)), NEW D, NEW disk \in [Range(paths) -> D],
         NEW defines, NEW defines_if, NEW failing
  PROVE  ConversionOf(disk, paths, defines, defines_if, failing)
<1> DEFINE P == Range(paths)
           New(p) == NewText(disk, paths, defines, defines_if, p)
           done == Sv2v!sv2v_in_place(disk, paths, defines, defines_if, failing)
           first == Sv2v!transform(disk, paths, defines, defines_if, failing)
           T == D \cup {New(p) : p \in P}
           E == T \cup {<<"empty">>}
<1>1. ASSUME \E p \in P : Sv2v!IsSv(p) /\ p \in failing
      PROVE  done = [status |-> 1, disk |-> disk]
  <2>1. \E p \in Sv2v!Range(paths) : Sv2v!IsSv(p) /\ p \in failing
    BY <1>1 DEF Sv2v!Range, Range
  <2> HIDE DEF P
  <2>2. first = [failed |-> TRUE, disk |-> disk]
    BY <2>1, Zenon DEF Sv2v!transform
  <2>3. first.failed = TRUE /\ first.disk = disk
    BY <2>2
  <2> QED
    BY <2>3, Zenon DEF Sv2v!sv2v_in_place
<1>2. ASSUME ~ \E p \in P : Sv2v!IsSv(p) /\ p \in failing
      PROVE  /\ done.status = 0
             /\ \A p \in P : done.disk[p] = IF Sv2v!IsSv(p) THEN New(p)
                                             ELSE IF Sv2v!IsSvh(p) THEN <<"empty">> ELSE disk[p]
  <2>1. \A p \in P : ~(Sv2v!IsSv(p) /\ p \in failing)
    BY <1>2
  <2>2. /\ first.failed = FALSE
        /\ first.disk \in [P -> T]
        /\ \A p \in P : first.disk[p] = IF Sv2v!IsSv(p) THEN New(p) ELSE disk[p]
    <3>1. AllConverted(disk, paths, D, defines, defines_if, failing)
      BY <2>1, Transforms
    <3> QED
      BY <3>1, Zenon DEF AllConverted
  <2>3. <<"empty">> \in E /\ first.disk \in [P -> E]
    <3> HIDE DEF P, first, T
    <3> QED
      BY <2>2
  <2>4. /\ done.status = 0
        /\ \A p \in P : done.disk[p] = IF Sv2v!IsSvh(p) THEN <<"empty">> ELSE first.disk[p]
    <3> HIDE DEF E
    <3>1. HeadersEmptied(disk, paths, defines, defines_if, failing)
      BY <2>2, <2>3, Sv2vWrites, Zenon
    <3> QED
      BY <3>1, Zenon DEF HeadersEmptied
  <2>5. \A p \in P : Sv2v!IsSv(p) => ~Sv2v!IsSvh(p)
    BY DEF Sv2v!IsSv, Sv2v!IsSvh
  <2> HIDE DEF done, first, New
  <2> QED
    BY <2>2, <2>4, <2>5
<1> QED
  BY <1>1, <1>2 DEF ConversionOf

\* sv2v_in_place.py: a failed conversion leaves every file alone, and otherwise every
\* .sv file holds the conversion of the original tree, every header is empty and
\* nothing else has changed, for lists of any length and in any order.
THEOREM ConversionIsAllOrNothing == Spec => []AllOrNothing
<1>1. Given => AllOrNothing
  <2> SUFFICES ASSUME Given, in.kind = "sv2v" PROVE AllOrNothing
    BY Zenon DEF AllOrNothing
  <2>1. in.of.paths \in Seq(Range(in.of.paths))
    BY InputAssumption DEF Given
  <2> DEFINE disk == [p \in Range(in.of.paths) |-> <<"original", p>>]
             defines == <<"D">>
             D == {<<"original", p>> : p \in Range(in.of.paths)}
  <2>2. disk \in [Range(in.of.paths) -> D]
    OBVIOUS
  <2>3. ConversionOf(disk, in.of.paths, defines, in.of.defines_if, in.of.failing)
    <3> HIDE DEF disk, defines, D
    <3> QED
      BY <2>1, <2>2, ConversionRight, Zenon
  <2> QED
    BY <2>3, Zenon DEF AllOrNothing, ConversionOf, NewText
<1> QED
  BY <1>1, InputGiven, PTL

-----------------------------------------------------------------------------
(* smt2manip.py.  The lines are the introductions, the conjuncts and the   *)
(* line that opens the assumptions; after n of them the ids to assume and  *)
(* to delete are those of the introductions read so far, and the conjuncts *)
(* written are those of the assertions that are kept.                      *)

\* The ids of the first n assertions that are given the choice c.
Till(asserts, n, step, props, c) ==
  {asserts[i].id : i \in {j \in DOMAIN asserts : j <= n /\ Choice(asserts[j], step, props) = c}}

\* The conjuncts among the lines written, and that none opens the assumptions.
Conjuncts(mapped) == {mapped[i].id : i \in {j \in DOMAIN mapped : mapped[j].kind = "top_a"}}
Unopened(mapped) == \A i \in DOMAIN mapped : mapped[i].kind # "top_u"

SmtLines(A) == A \cup {Conjunct(i) : i \in Nat} \cup {Assumptions}
SmtState(A) == [mapped : Seq(SmtLines(A)), to_assume : Seq(Nat), delete : SUBSET Nat]

ManipulatedUpTo(s, n, asserts, A, step, props) ==
  /\ s \in SmtState(A)
  /\ Range(s.to_assume) = Till(asserts, n, step, props, "assume")
  /\ s.delete = Till(asserts, n, step, props, "delete")
  /\ Unopened(s.mapped)
  /\ Conjuncts(s.mapped) = Till(asserts, n - Len(asserts), step, props, "keep")

\* An assertion is deleted, assumed or kept.
LEMMA ChoiceOfThree ==
  ASSUME NEW a, NEW step, NEW props
  PROVE  Choice(a, step, props) \in {"delete", "assume", "keep"}
  BY DEF Choice

\* The ids of one choice grow by one introduction.
LEMMA TillNext ==
  ASSUME NEW A, NEW asserts \in Seq(A), NEW n \in 1..Len(asserts), NEW step, NEW props, NEW c
  PROVE  Till(asserts, n, step, props, c) =
           IF Choice(asserts[n], step, props) = c
           THEN Till(asserts, n - 1, step, props, c) \cup {asserts[n].id}
           ELSE Till(asserts, n - 1, step, props, c)
<1>1. \A j \in DOMAIN asserts : j <= n <=> (j <= n - 1 \/ j = n)
  OBVIOUS
<1>2. n \in DOMAIN asserts /\ n <= n
  OBVIOUS
<1> QED
  BY <1>1, <1>2, Zenon DEF Till

\* Before the first introduction there is none.
LEMMA TillNone ==
  ASSUME NEW A, NEW asserts \in Seq(A), NEW n \in Int, n <= 0, NEW step, NEW props, NEW c
  PROVE  Till(asserts, n, step, props, c) = {}
  BY DEF Till

\* After the last introduction nothing is added.
LEMMA TillAll ==
  ASSUME NEW A, NEW asserts \in Seq(A), NEW n \in Int, n >= Len(asserts), NEW step, NEW props, NEW c
  PROVE  Till(asserts, n, step, props, c) = Till(asserts, Len(asserts), step, props, c)
  BY DEF Till

\* What a list holds after an element is appended.
LEMMA RangeAppend ==
  ASSUME NEW S, NEW seq \in Seq(S), NEW x \in S
  PROVE  Range(Append(seq, x)) = Range(seq) \cup {x}
<1> DEFINE out == Append(seq, x)
<1>1. /\ DOMAIN out = DOMAIN seq \cup {Len(seq) + 1}
      /\ out[Len(seq) + 1] = x
      /\ \A i \in DOMAIN seq : out[i] = seq[i]
  OBVIOUS
<1> HIDE DEF out
<1>2. Range(out) = Range(seq) \cup {x}
  BY <1>1 DEF Range
<1> QED
  BY <1>2 DEF out

\* A line is a conjunct or it is not; only one line opens the assumptions.
LEMMA ConjunctsAppend ==
  ASSUME NEW L, NEW mapped \in Seq(L), NEW line \in L
  PROVE  /\ Conjuncts(Append(mapped, line)) =
              IF line.kind = "top_a" THEN Conjuncts(mapped) \cup {line.id} ELSE Conjuncts(mapped)
         /\ Unopened(mapped) /\ line.kind # "top_u" => Unopened(Append(mapped, line))
<1> DEFINE out == Append(mapped, line)
<1>1. /\ DOMAIN out = DOMAIN mapped \cup {Len(mapped) + 1}
      /\ out[Len(mapped) + 1] = line
      /\ \A i \in DOMAIN mapped : out[i] = mapped[i]
  OBVIOUS
<1> HIDE DEF out
<1>2. Conjuncts(out) = IF line.kind = "top_a" THEN Conjuncts(mapped) \cup {line.id} ELSE Conjuncts(mapped)
  BY <1>1 DEF Conjuncts
<1>3. Unopened(mapped) /\ line.kind # "top_u" => Unopened(out)
  BY <1>1 DEF Unopened
<1> QED
  BY <1>2, <1>3 DEF out

\* The line that opens the assumptions, and what is written with it.
LEMMA Opened ==
  ASSUME NEW L, NEW mapped \in Seq(L), Unopened(mapped), NEW ids \in Seq(Nat), Assumptions \in L,
         NEW out, out = Append(mapped, Assumptions) \o [i \in DOMAIN ids |-> Conjunct(ids[i])]
  PROVE  ProvedIds(out) = Conjuncts(mapped) /\ AssumedIds(out) = Range(ids)
<1> DEFINE M == Len(mapped)
           cs == [i \in DOMAIN ids |-> Conjunct(ids[i])]
           S == {Conjunct(i) : i \in Nat}
<1>1. M \in Nat /\ Len(ids) \in Nat /\ DOMAIN mapped = 1..M /\ DOMAIN ids = 1..Len(ids)
  OBVIOUS
<1>2. cs \in Seq(S) /\ Len(cs) = Len(ids)
  <2>1. \A i \in DOMAIN ids : ids[i] \in Nat /\ Conjunct(ids[i]) \in S
    OBVIOUS
  <2> HIDE DEF S
  <2>2. cs \in [1..Len(ids) -> S]
    BY <1>1, <2>1
  <2> HIDE DEF cs
  <2> QED
    BY <1>1, <2>2, FunctionIsSeq, Zenon
<1>3. Append(mapped, Assumptions) \in Seq(L) /\ Len(Append(mapped, Assumptions)) = M + 1
  OBVIOUS
<1> HIDE DEF cs, S
<1>4. /\ DOMAIN out = 1..(M + 1 + Len(ids))
      /\ \A i \in 1..(M + 1) : out[i] = Append(mapped, Assumptions)[i]
      /\ \A i \in 1..Len(ids) : out[M + 1 + i] = cs[i]
  <2>1. out = Append(mapped, Assumptions) \o cs
    BY DEF cs
  <2> QED
    BY <1>1, <1>2, <1>3, <2>1
<1>5. \A i \in 1..M : out[i] = mapped[i]
  BY <1>1, <1>4
<1>6. out[M + 1] = Assumptions /\ out[M + 1].kind = "top_u"
  BY <1>1, <1>4 DEF Assumptions
<1>7. \A i \in 1..Len(ids) : out[M + 1 + i].kind = "top_a" /\ out[M + 1 + i].id = ids[i]
  BY <1>1, <1>4 DEF cs, Conjunct
<1>8. \A i \in 1..M : out[i].kind # "top_u"
  BY <1>1, <1>5, Zenon DEF Unopened
<1>9. \A j \in DOMAIN out : (\A k \in 1..j : out[k].kind # "top_u") <=> j \in 1..M
  <2> SUFFICES ASSUME NEW j \in DOMAIN out
               PROVE  (\A k \in 1..j : out[k].kind # "top_u") <=> j \in 1..M
    BY Zenon
  <2> HIDE DEF M
  <2>1. CASE j \in 1..M
    <3>1. \A k \in 1..j : k \in 1..M
      BY <1>1, <2>1
    <3> QED
      BY <1>8, <2>1, <3>1
  <2>2. CASE j \notin 1..M
    <3>1. M + 1 \in 1..j
      BY <1>1, <1>4, <2>2
    <3> QED
      BY <1>6, <2>2, <3>1, Zenon
  <2> QED
    BY <2>1, <2>2, Zenon
<1>10. ProvedIds(out) = Conjuncts(mapped)
  <2>1. \A j \in DOMAIN out :
          (out[j].kind = "top_a" /\ \A k \in 1..j : out[k].kind # "top_u") <=> (j \in DOMAIN mapped /\ mapped[j].kind = "top_a")
    BY <1>1, <1>5, <1>9, Zenon
  <2>2. \A j \in DOMAIN mapped : j \in DOMAIN out /\ out[j] = mapped[j]
    BY <1>1, <1>4, <1>5
  <2>3. ASSUME NEW x PROVE x \in ProvedIds(out) <=> x \in Conjuncts(mapped)
    <3>1. x \in ProvedIds(out) <=>
            \E j \in DOMAIN out : /\ out[j].kind = "top_a" /\ \A k \in 1..j : out[k].kind # "top_u"
                                  /\ x = out[j].id
      BY Zenon DEF ProvedIds
    <3>2. x \in Conjuncts(mapped) <=> \E j \in DOMAIN mapped : mapped[j].kind = "top_a" /\ x = mapped[j].id
      BY Zenon DEF Conjuncts
    <3> QED
      BY <2>1, <2>2, <3>1, <3>2, Zenon
  <2> QED
    BY <2>3, Zenon
<1>11. AssumedIds(out) = Range(ids)
  <2>1. \A j \in DOMAIN out :
          (out[j].kind = "top_a" /\ \E k \in 1..j : out[k].kind = "top_u") <=> j \notin 1..M /\ out[j].kind = "top_a"
    BY <1>9, Zenon
  <2>2. \A j \in DOMAIN out : j \notin 1..M /\ out[j].kind = "top_a" => j - M - 1 \in DOMAIN ids /\ out[j].id = ids[j - M - 1]
    <3> SUFFICES ASSUME NEW j \in DOMAIN out, j \notin 1..M, out[j].kind = "top_a"
                 PROVE  j - M - 1 \in DOMAIN ids /\ out[j].id = ids[j - M - 1]
      BY Zenon
    <3> HIDE DEF M
    <3>1. j # M + 1
      BY <1>6
    <3>2. j - M - 1 \in 1..Len(ids) /\ j = M + 1 + (j - M - 1)
      BY <1>1, <1>4, <3>1
    <3> QED
      BY <1>1, <1>7, <3>2, Zenon
  <2>3. \A i \in DOMAIN ids : /\ M + 1 + i \in DOMAIN out
                              /\ M + 1 + i \notin 1..M
                              /\ out[M + 1 + i].kind = "top_a"
                              /\ out[M + 1 + i].id = ids[i]
    BY <1>1, <1>4, <1>7
  <2> HIDE DEF M
  <2>4. ASSUME NEW x PROVE x \in AssumedIds(out) <=> x \in Range(ids)
    <3>1. x \in AssumedIds(out) <=>
            \E j \in DOMAIN out : /\ out[j].kind = "top_a" /\ \E k \in 1..j : out[k].kind = "top_u"
                                  /\ x = out[j].id
      BY Zenon DEF AssumedIds
    <3>2. x \in Range(ids) <=> \E i \in DOMAIN ids : x = ids[i]
      BY Zenon DEF Range
    <3>3. ASSUME x \in AssumedIds(out) PROVE x \in Range(ids)
      <4>1. PICK j \in DOMAIN out : /\ out[j].kind = "top_a" /\ \E k \in 1..j : out[k].kind = "top_u"
                                    /\ x = out[j].id
        BY <3>1, <3>3, Zenon
      <4>2. j - M - 1 \in DOMAIN ids /\ out[j].id = ids[j - M - 1]
        BY <2>1, <2>2, <4>1, Zenon
      <4> QED
        BY <3>2, <4>1, <4>2, Zenon
    <3>4. ASSUME x \in Range(ids) PROVE x \in AssumedIds(out)
      <4>1. PICK i \in DOMAIN ids : x = ids[i]
        BY <3>2, <3>4, Zenon
      <4> QED
        BY <2>1, <2>3, <3>1, <4>1, Zenon
    <3> QED
      BY <3>3, <3>4
  <2> QED
    BY <2>4, Zenon
<1> QED
  BY <1>10, <1>11

\* The lines, and that each has one of the three kinds.
LEMMA YosysLines ==
  ASSUME NEW A, NEW asserts \in Seq(A), \A a \in A : a.kind = "assert" /\ a.id \in Nat
  PROVE  /\ Yosys(asserts) \in Seq(SmtLines(A))
         /\ Len(Yosys(asserts)) = 2 * Len(asserts) + 1
         /\ \A n \in 1..Len(asserts) : Yosys(asserts)[n] = asserts[n]
         /\ \A n \in (Len(asserts) + 1)..(2 * Len(asserts)) :
              Yosys(asserts)[n] = Conjunct(asserts[n - Len(asserts)].id)
         /\ Yosys(asserts)[2 * Len(asserts) + 1] = Assumptions
<1> DEFINE L == SmtLines(A)
           M == Len(asserts)
           cs == [i \in DOMAIN asserts |-> Conjunct(asserts[i].id)]
           last == <<Assumptions>>
<1>1. M \in Nat /\ DOMAIN asserts = 1..M /\ \A i \in 1..M : asserts[i] \in A /\ asserts[i].id \in Nat
  OBVIOUS
<1>2. asserts \in Seq(L)
  <2>1. A \subseteq L
    BY DEF SmtLines
  <2> HIDE DEF L
  <2> QED
    BY <2>1, SeqMonotonic
<1>3. cs \in Seq(L) /\ Len(cs) = M
  <2>1. \A i \in 1..M : Conjunct(asserts[i].id) \in L
    BY <1>1 DEF SmtLines
  <2> HIDE DEF L
  <2>2. cs \in [1..M -> L]
    BY <1>1, <2>1
  <2> HIDE DEF cs, M
  <2> QED
    BY <1>1, <2>2, FunctionIsSeq
<1>4. \A i \in 1..M : cs[i] = Conjunct(asserts[i].id)
  BY <1>1
<1>5. last \in Seq(L) /\ Len(last) = 1 /\ last[1] = Assumptions
  <2>1. Assumptions \in L
    BY DEF SmtLines
  <2> HIDE DEF L
  <2> QED
    BY <2>1
<1>6. Yosys(asserts) = (asserts \o cs) \o last
  BY DEF Yosys
<1> HIDE DEF L, cs, last
<1>7. /\ asserts \o cs \in Seq(L)
      /\ Len(asserts \o cs) = 2 * M
      /\ \A n \in 1..M : (asserts \o cs)[n] = asserts[n]
      /\ \A n \in (M + 1)..(2 * M) : (asserts \o cs)[n] = cs[n - M]
  BY <1>1, <1>2, <1>3
<1> DEFINE two == asserts \o cs
<1> HIDE DEF two, M
<1>8. /\ two \o last \in Seq(L)
      /\ Len(two \o last) = 2 * M + 1
      /\ \A n \in 1..(2 * M) : (two \o last)[n] = two[n]
      /\ (two \o last)[2 * M + 1] = last[1]
  <2>1. two \in Seq(L) /\ Len(two) = 2 * M /\ 2 * M \in Nat
    BY <1>1, <1>7 DEF two
  <2>2. two \o last \in Seq(L) /\ Len(two \o last) = Len(two) + Len(last)
    BY <1>5, <2>1, ConcatProperties, Zenon
  <2>3. \A n \in 1..Len(two) : (two \o last)[n] = two[n]
    BY <1>5, <2>1, ConcatProperties
  <2>4. (two \o last)[Len(two) + 1] = last[1]
    BY <1>5, <2>1, ConcatProperties
  <2> QED
    BY <1>5, <2>1, <2>2, <2>3, <2>4
<1>9. \A n \in 1..M : (two \o last)[n] = asserts[n]
  BY <1>1, <1>7, <1>8 DEF two
<1>10. \A n \in (M + 1)..(2 * M) : (two \o last)[n] = Conjunct(asserts[n - M].id)
  <2> SUFFICES ASSUME NEW n \in (M + 1)..(2 * M) PROVE (two \o last)[n] = Conjunct(asserts[n - M].id)
    BY Zenon
  <2>1. n \in 1..(2 * M) /\ n - M \in 1..M
    BY <1>1
  <2> QED
    BY <1>4, <1>7, <1>8, <2>1, Zenon DEF two
<1> QED
  BY <1>5, <1>6, <1>8, <1>9, <1>10, Zenon DEF L, M, two

\* Writing lines leaves the two lists of ids alone.
LEMMA NewMapped ==
  ASSUME NEW A, NEW s \in SmtState(A), NEW x \in Seq(SmtLines(A))
  PROVE  /\ [s EXCEPT !.mapped = x] \in SmtState(A)
         /\ [s EXCEPT !.mapped = x].mapped = x
         /\ [s EXCEPT !.mapped = x].to_assume = s.to_assume
         /\ [s EXCEPT !.mapped = x].delete = s.delete
<1> DEFINE L == Seq(SmtLines(A))
<1> HIDE DEF L
<1>1. s \in [mapped : L, to_assume : Seq(Nat), delete : SUBSET Nat] /\ x \in L
  BY DEF SmtState, L
<1>2. [s EXCEPT !.mapped = x] \in [mapped : L, to_assume : Seq(Nat), delete : SUBSET Nat]
  BY <1>1, Zenon
<1> QED
  BY <1>1, <1>2, Zenon DEF SmtState, L

\* One turn of the loop over an introduction.
LEMMA RewritesIntroduction ==
  ASSUME NEW A, NEW asserts \in Seq(A), \A a \in A : a.kind = "assert" /\ a.id \in Nat,
         NEW step, NEW props, NEW n \in 1..Len(asserts),
         NEW s, ManipulatedUpTo(s, n - 1, asserts, A, step, props)
  PROVE  ManipulatedUpTo(Rewrite(s, asserts[n], step, props), n, asserts, A, step, props)
<1> DEFINE line == asserts[n]
           c == Choice(line, step, props)
           L == SmtLines(A)
           t == Rewrite(s, line, step, props)
<1>1. line \in A /\ line.kind = "assert" /\ line.id \in Nat
  OBVIOUS
<1>2. t = [mapped |-> Append(s.mapped, line),
           to_assume |-> IF c = "assume" THEN Append(s.to_assume, line.id) ELSE s.to_assume,
           delete |-> IF c = "delete" THEN s.delete \cup {line.id} ELSE s.delete]
  BY <1>1, Zenon DEF Rewrite
<1>3. s.mapped \in Seq(L) /\ s.to_assume \in Seq(Nat) /\ s.delete \in SUBSET Nat /\ line \in L
  BY <1>1 DEF ManipulatedUpTo, SmtState, SmtLines
<1> HIDE DEF line, c, L, t
<1>4. t \in SmtState(A)
  BY <1>1, <1>2, <1>3 DEF SmtState, L
<1>5. Range(t.to_assume) = Till(asserts, n, step, props, "assume")
  <2>1. Range(Append(s.to_assume, line.id)) = Range(s.to_assume) \cup {line.id}
    BY <1>1, <1>3, RangeAppend
  <2>2. Range(s.to_assume) = Till(asserts, n - 1, step, props, "assume")
    BY DEF ManipulatedUpTo
  <2>3. t.to_assume = IF c = "assume" THEN Append(s.to_assume, line.id) ELSE s.to_assume
    BY <1>2
  <2>4. Till(asserts, n, step, props, "assume") =
          IF c = "assume" THEN Till(asserts, n - 1, step, props, "assume") \cup {line.id}
                          ELSE Till(asserts, n - 1, step, props, "assume")
    BY TillNext DEF c, line
  <2> QED
    BY <2>1, <2>2, <2>3, <2>4, Zenon
<1>6. t.delete = Till(asserts, n, step, props, "delete")
  <2>1. s.delete = Till(asserts, n - 1, step, props, "delete")
    BY DEF ManipulatedUpTo
  <2>2. t.delete = IF c = "delete" THEN s.delete \cup {line.id} ELSE s.delete
    BY <1>2
  <2>3. Till(asserts, n, step, props, "delete") =
          IF c = "delete" THEN Till(asserts, n - 1, step, props, "delete") \cup {line.id}
                          ELSE Till(asserts, n - 1, step, props, "delete")
    BY TillNext DEF c, line
  <2> QED
    BY <2>1, <2>2, <2>3
<1>7. Unopened(t.mapped) /\ Conjuncts(t.mapped) = Conjuncts(s.mapped)
  <2>1. t.mapped = Append(s.mapped, line)
    BY <1>2
  <2>2. Unopened(s.mapped)
    BY DEF ManipulatedUpTo
  <2>3. line.kind # "top_a" /\ line.kind # "top_u"
    BY <1>1
  <2> QED
    BY <1>3, <2>1, <2>2, <2>3, ConjunctsAppend
<1>8. Conjuncts(s.mapped) = Till(asserts, n - Len(asserts), step, props, "keep")
  <2>1. n - Len(asserts) \in Int /\ n - Len(asserts) <= 0 /\ n - 1 - Len(asserts) \in Int /\ n - 1 - Len(asserts) <= 0
    OBVIOUS
  <2>2. Till(asserts, n - Len(asserts), step, props, "keep") = {}
    BY <2>1, TillNone
  <2>3. Till(asserts, n - 1 - Len(asserts), step, props, "keep") = {}
    BY <2>1, TillNone
  <2> QED
    BY <2>2, <2>3, Zenon DEF ManipulatedUpTo
<1> QED
  BY <1>4, <1>5, <1>6, <1>7, <1>8 DEF ManipulatedUpTo, t, line

\* One turn of the loop over a conjunct: the ids are unique, so it is dropped exactly
\* when its own introduction was deleted or assumed.
LEMMA RewritesConjunct ==
  ASSUME NEW A, NEW asserts \in Seq(A), \A a \in A : a.id \in Nat,
         \A i, j \in DOMAIN asserts : asserts[i].id = asserts[j].id => i = j,
         NEW step, NEW props, NEW n \in (Len(asserts) + 1)..(2 * Len(asserts)),
         NEW s, ManipulatedUpTo(s, n - 1, asserts, A, step, props)
  PROVE  ManipulatedUpTo(Rewrite(s, Conjunct(asserts[n - Len(asserts)].id), step, props),
                         n, asserts, A, step, props)
<1> DEFINE M == Len(asserts)
           m == n - M
           id == asserts[m].id
           line == Conjunct(id)
           L == SmtLines(A)
           t == Rewrite(s, line, step, props)
           Of(i, c) == Till(asserts, i, step, props, c)
<1>1. M \in Nat /\ DOMAIN asserts = 1..M /\ m \in 1..M /\ n \in Int /\ n - 1 >= M /\ n >= M
  OBVIOUS
<1>2. id \in Nat /\ line.kind = "top_a" /\ line.id = id /\ line \in L
  BY <1>1 DEF Conjunct, SmtLines
<1>3. s.mapped \in Seq(L) /\ s.to_assume \in Seq(Nat) /\ s.delete \in SUBSET Nat /\ s \in SmtState(A)
  BY DEF ManipulatedUpTo, SmtState
<1>4. \A c : Of(n, c) = Of(M, c) /\ Of(n - 1, c) = Of(M, c)
  BY <1>1, TillAll
<1>5. \A c : id \in Of(M, c) <=> Choice(asserts[m], step, props) = c
  <2> SUFFICES ASSUME NEW c PROVE id \in Of(M, c) <=> Choice(asserts[m], step, props) = c
    OBVIOUS
  <2>1. id \in Of(M, c) <=>
          \E j \in DOMAIN asserts : j <= M /\ Choice(asserts[j], step, props) = c /\ id = asserts[j].id
    BY Zenon DEF Till
  <2>2. m \in DOMAIN asserts /\ m <= M /\ \A j \in DOMAIN asserts : id = asserts[j].id => j = m
    BY <1>1
  <2> HIDE DEF id, m, M
  <2> QED
    BY <2>1, <2>2 DEF id
<1>6. Range(s.to_assume) = Of(M, "assume") /\ s.delete = Of(M, "delete") /\ Unopened(s.mapped)
  BY <1>4 DEF ManipulatedUpTo
<1>7. Conjuncts(s.mapped) = Of(m - 1, "keep")
  <2>1. n - 1 - Len(asserts) = m - 1
    BY <1>1
  <2> QED
    BY <2>1 DEF ManipulatedUpTo
<1>8. Of(m, "keep") = IF Choice(asserts[m], step, props) = "keep"
                      THEN Of(m - 1, "keep") \cup {id} ELSE Of(m - 1, "keep")
  <2>1. m \in 1..Len(asserts)
    BY <1>1
  <2> HIDE DEF m
  <2> QED
    BY <2>1, TillNext
<1>9. (\E i \in DOMAIN s.to_assume : s.to_assume[i] = id) <=> id \in Range(s.to_assume)
  BY DEF Range
<1>10. t = IF id \in s.delete \/ id \in Range(s.to_assume) THEN s ELSE [s EXCEPT !.mapped = Append(@, line)]
  <2> HIDE DEF id, line
  <2>1. line.kind # "assert" /\ line.kind = "top_a" /\ line.id = id
    BY <1>2
  <2> QED
    BY <1>9, <2>1, Zenon DEF Rewrite
<1> HIDE DEF M, m, id, line, L, t, Of
<1>11. CASE id \in s.delete \/ id \in Range(s.to_assume)
  <2>1. t = s
    BY <1>10, <1>11
  <2>2. Of(m, "keep") = Of(m - 1, "keep")
    BY <1>5, <1>6, <1>8, <1>11
  <2>3. ManipulatedUpTo(t, n, asserts, A, step, props)
    BY <1>3, <1>4, <1>6, <1>7, <2>1, <2>2 DEF ManipulatedUpTo, m, M, Of
  <2> QED
    BY <2>3 DEF t, line, id, m, M
<1>12. CASE ~(id \in s.delete \/ id \in Range(s.to_assume))
  <2>1. /\ t.mapped = Append(s.mapped, line) /\ t.to_assume = s.to_assume /\ t.delete = s.delete
        /\ t \in SmtState(A)
    <3> DEFINE x == Append(s.mapped, line)
    <3>1. t = [s EXCEPT !.mapped = x]
      BY <1>10, <1>12, Zenon
    <3>2. x \in Seq(L)
      BY <1>2, <1>3
    <3> HIDE DEF x
    <3>3. /\ [s EXCEPT !.mapped = x] \in SmtState(A)
          /\ [s EXCEPT !.mapped = x].mapped = x
          /\ [s EXCEPT !.mapped = x].to_assume = s.to_assume
          /\ [s EXCEPT !.mapped = x].delete = s.delete
      BY <1>3, <3>2, NewMapped DEF L
    <3> QED
      BY <3>1, <3>3, Zenon DEF x
  <2>2. Of(m, "keep") = Of(m - 1, "keep") \cup {id}
    BY <1>5, <1>6, <1>8, <1>12, ChoiceOfThree
  <2>3. Conjuncts(t.mapped) = Of(m, "keep") /\ Unopened(t.mapped)
    <3>1. line.kind # "top_u"
      BY <1>2
    <3>2. /\ Conjuncts(Append(s.mapped, line)) = Conjuncts(s.mapped) \cup {line.id}
          /\ Unopened(Append(s.mapped, line))
      <4>1. s.mapped \in Seq(L) /\ line \in L /\ line.kind = "top_a" /\ Unopened(s.mapped)
        BY <1>2, <1>3, <1>6
      <4> QED
        BY <3>1, <4>1, ConjunctsAppend
    <3> QED
      BY <1>2, <1>3, <1>6, <1>7, <2>1, <2>2, <3>1, <3>2
  <2>4. ManipulatedUpTo(t, n, asserts, A, step, props)
    BY <1>4, <1>6, <2>1, <2>3 DEF ManipulatedUpTo, m, M, Of
  <2> QED
    BY <2>4 DEF t, line, id, m, M
<1> QED
  BY <1>11, <1>12

\* Every turn gives a state of the loop.
LEMMA RewriteTyped ==
  ASSUME NEW A, \A a \in A : a.kind = "assert" /\ a.id \in Nat, NEW step, NEW props,
         NEW s \in SmtState(A), NEW line \in SmtLines(A)
  PROVE  Rewrite(s, line, step, props) \in SmtState(A)
<1> DEFINE L == SmtLines(A)
           t == Rewrite(s, line, step, props)
<1>1. s.mapped \in Seq(L) /\ s.to_assume \in Seq(Nat) /\ s.delete \in SUBSET Nat
  BY DEF SmtState
<1>2. \/ line.kind = "assert" /\ line.id \in Nat
      \/ line.kind = "top_a"
      \/ line.kind = "top_u"
  BY DEF SmtLines, Conjunct, Assumptions
<1> HIDE DEF L
<1>3. CASE line.kind = "assert"
  <2>1. line.id \in Nat
    BY <1>2, <1>3
  <2> DEFINE c == Choice(line, step, props)
  <2>2. t = [mapped |-> Append(s.mapped, line),
             to_assume |-> IF c = "assume" THEN Append(s.to_assume, line.id) ELSE s.to_assume,
             delete |-> IF c = "delete" THEN s.delete \cup {line.id} ELSE s.delete]
    BY <1>3, Zenon DEF Rewrite
  <2> HIDE DEF c, t
  <2>3. t \in SmtState(A)
    BY <1>1, <2>1, <2>2 DEF SmtState, L
  <2> QED
    BY <2>3 DEF t
<1>4. CASE line.kind = "top_a"
  <2>1. line.kind # "assert"
    BY <1>4
  <2>2. t = s \/ t = [s EXCEPT !.mapped = Append(s.mapped, line)]
    BY <1>4, <2>1, Zenon DEF Rewrite
  <2> HIDE DEF t
  <2>3. t \in SmtState(A)
    <3>1. Append(s.mapped, line) \in Seq(L)
      BY <1>1 DEF L
    <3> QED
      BY <2>2, <3>1, NewMapped DEF L
  <2> QED
    BY <2>3 DEF t
<1>5. CASE line.kind = "top_u"
  <2>1. line.kind # "assert" /\ line.kind # "top_a"
    BY <1>5
  <2> DEFINE cs == [i \in DOMAIN s.to_assume |-> Conjunct(s.to_assume[i])]
  <2>2. t = [s EXCEPT !.mapped = Append(s.mapped, line) \o cs]
    BY <1>5, <2>1, Zenon DEF Rewrite
  <2>3. cs \in Seq(L)
    <3>1. \A i \in DOMAIN s.to_assume : Conjunct(s.to_assume[i]) \in L
      BY <1>1 DEF L, SmtLines
    <3>2. Len(s.to_assume) \in Nat /\ DOMAIN s.to_assume = 1..Len(s.to_assume)
      BY <1>1
    <3>3. cs \in [1..Len(s.to_assume) -> L]
      BY <3>1, <3>2
    <3> HIDE DEF cs
    <3> QED
      BY <3>2, <3>3, FunctionIsSeq
  <2> HIDE DEF t, cs
  <2>4. Append(s.mapped, line) \o cs \in Seq(L)
    <3>1. Append(s.mapped, line) \in Seq(L)
      BY <1>1 DEF L
    <3> QED
      BY <2>3, <3>1, ConcatProperties
  <2>5. t \in SmtState(A)
    BY <2>2, <2>4, NewMapped, Zenon DEF L
  <2> QED
    BY <2>5 DEF t
<1> QED
  BY <1>2, <1>3, <1>4, <1>5

\* smt2manip, on what yosys writes: the conjuncts that stay are those of the kept
\* assertions, and those after the assumptions' line are the assumed ones.
LEMMA Manipulates ==
  ASSUME NEW A, NEW asserts \in Seq(A), \A a \in A : a.kind = "assert" /\ a.id \in Nat,
         \A i, j \in DOMAIN asserts : asserts[i].id = asserts[j].id => i = j,
         NEW step, NEW props
  PROVE  /\ ProvedIds(smt2manip(Yosys(asserts), step, props))
              = Till(asserts, Len(asserts), step, props, "keep")
         /\ AssumedIds(smt2manip(Yosys(asserts), step, props))
              = Till(asserts, Len(asserts), step, props, "assume")
<1> DEFINE M == Len(asserts)
           lines == Yosys(asserts)
           N == Len(lines)
           L == SmtLines(A)
           V == SmtState(A)
           G == [q \in V \X Nat |-> IF q[2] \in 1..N THEN Rewrite(q[1], lines[q[2]], step, props) ELSE q[1]]
           Loop(g) == [n \in 0..N |-> IF n = 0 THEN Unread
                                      ELSE Rewrite(g[n - 1], lines[n], step, props)]
           after == CHOOSE g : g = Loop(g)
           Known == {n \in 0..(2 * M) : ManipulatedUpTo(after[n], n, asserts, A, step, props)}
<1>1. /\ lines \in Seq(L)
      /\ N = 2 * M + 1
      /\ \A n \in 1..M : lines[n] = asserts[n]
      /\ \A n \in (M + 1)..(2 * M) : lines[n] = Conjunct(asserts[n - M].id)
      /\ lines[2 * M + 1] = Assumptions
  BY YosysLines, Zenon
<1>2. smt2manip(lines, step, props) = after[N].mapped
  BY Zenon DEF smt2manip
<1> HIDE DEF lines
<1>3. M \in Nat /\ N \in Nat /\ 2 * M \in Nat /\ \A n \in 1..N : lines[n] \in L
  BY <1>1
<1>4. Unread \in V
  BY DEF Unread, SmtState
<1>5. \A s \in V, n \in 1..N : Rewrite(s, lines[n], step, props) \in V
  BY <1>3, RewriteTyped
<1> HIDE DEF V, N, L, M
<1>6. G \in [V \X Nat -> V]
  <2>1. ASSUME NEW q \in V \X Nat
        PROVE  (IF q[2] \in 1..N THEN Rewrite(q[1], lines[q[2]], step, props) ELSE q[1]) \in V
    BY <1>5
  <2> QED
    BY <2>1
<1>7. PICK f : Follows(f, N, V, Unread, G)
  <2> HIDE DEF G
  <2> QED
    BY <1>3, <1>4, <1>6, RecursionExists, Zenon
<1>8. f \in [0..N -> V] /\ f[0] = Unread /\ \A n \in 1..N : f[n] = G[<<f[n - 1], n>>]
  BY <1>7, Zenon DEF Follows
<1>9. ASSUME NEW n \in 1..N PROVE f[n] = Rewrite(f[n - 1], lines[n], step, props)
  <2>1. f[n - 1] \in V /\ n \in Nat
    BY <1>3, <1>8
  <2>2. G[<<f[n - 1], n>>] = Rewrite(f[n - 1], lines[n], step, props)
    BY <2>1
  <2> HIDE DEF G
  <2> QED
    BY <1>8, <2>2
<1>10. f = Loop(f)
  <2> HIDE DEF G
  <2> QED
    BY <1>3, <1>8, <1>9
<1>11. after = Loop(after)
  <2> HIDE DEF Loop
  <2> QED
    BY <1>10
<1> HIDE DEF after, G
<1>12. after[0] = Unread /\ \A n \in 1..N : after[n] = Rewrite(after[n - 1], lines[n], step, props)
  BY <1>3, <1>11
<1>13. 0 \in Known
  <2>1. 0 \in Int /\ 0 <= 0 /\ 0 - Len(asserts) \in Int /\ 0 - Len(asserts) <= 0 /\ 0 \in 0..(2 * M)
    BY <1>3
  <2>2. \A c : Till(asserts, 0, step, props, c) = {} /\ Till(asserts, 0 - Len(asserts), step, props, c) = {}
    BY <2>1, TillNone
  <2>3. /\ Range(Unread.to_assume) = {} /\ Unread.delete = {}
        /\ Unopened(Unread.mapped) /\ Conjuncts(Unread.mapped) = {}
    BY DEF Unread, Range, Unopened, Conjuncts
  <2>4. ManipulatedUpTo(Unread, 0, asserts, A, step, props)
    BY <1>4, <2>2, <2>3 DEF ManipulatedUpTo, V
  <2> QED
    BY <1>12, <2>1, <2>4
<1>14. \A n \in 1..(2 * M) : n - 1 \in Known => n \in Known
  <2> SUFFICES ASSUME NEW n \in 1..(2 * M), n - 1 \in Known PROVE n \in Known
    OBVIOUS
  <2>1. n \in 0..(2 * M) /\ n \in 1..N /\ (n \in 1..M \/ n \in (M + 1)..(2 * M))
    BY <1>1, <1>3
  <2>2. ManipulatedUpTo(after[n - 1], n - 1, asserts, A, step, props)
    OBVIOUS
  <2>3. CASE n \in 1..M
    <3>1. after[n] = Rewrite(after[n - 1], asserts[n], step, props)
      BY <1>1, <1>12, <2>1, <2>3
    <3>2. n \in 1..Len(asserts)
      BY <2>3 DEF M
    <3>3. ManipulatedUpTo(after[n], n, asserts, A, step, props)
      BY <2>2, <3>1, <3>2, RewritesIntroduction
    <3> QED
      BY <2>1, <3>3
  <2>4. CASE n \in (M + 1)..(2 * M)
    <3>1. after[n] = Rewrite(after[n - 1], Conjunct(asserts[n - Len(asserts)].id), step, props)
      BY <1>1, <1>12, <2>1, <2>4 DEF M
    <3>2. n \in (Len(asserts) + 1)..(2 * Len(asserts))
      BY <2>4 DEF M
    <3>3. \A a \in A : a.id \in Nat
      OBVIOUS
    <3>4. ManipulatedUpTo(after[n], n, asserts, A, step, props)
      BY <2>2, <3>1, <3>2, <3>3, RewritesConjunct
    <3> QED
      BY <2>1, <3>4
  <2> QED
    BY <2>1, <2>3, <2>4
<1>15. ManipulatedUpTo(after[2 * M], 2 * M, asserts, A, step, props)
  <2>1. \A n \in 0..(2 * M) : n \in Known
    <3> DEFINE W == 2 * M
    <3>1. W \in Nat
      BY <1>3
    <3> HIDE DEF Known, W
    <3>2. \A n \in 0..W : n \in Known
      BY <1>13, <1>14, <3>1, IntervalInduction, Zenon DEF W
    <3> QED
      BY <3>2 DEF W
  <2> QED
    BY <1>3, <2>1
<1> DEFINE s == after[2 * M]
           ids == s.to_assume
           out == after[N].mapped
<1>16. s \in V /\ Range(ids) = Till(asserts, M, step, props, "assume") /\ Unopened(s.mapped)
       /\ Conjuncts(s.mapped) = Till(asserts, M, step, props, "keep")
  <2>1. 2 * M \in Int /\ 2 * M >= Len(asserts) /\ 2 * M - Len(asserts) = M
    BY <1>3 DEF M
  <2>2. Till(asserts, 2 * M, step, props, "assume") = Till(asserts, M, step, props, "assume")
    BY <2>1, TillAll DEF M
  <2> QED
    BY <1>15, <2>1, <2>2 DEF ManipulatedUpTo, V
<1>17. s.mapped \in Seq(L) /\ ids \in Seq(Nat) /\ Assumptions \in L
  BY <1>16 DEF V, SmtState, L, SmtLines
<1>18. out = Append(s.mapped, Assumptions) \o [i \in DOMAIN ids |-> Conjunct(ids[i])]
  <2>1. N \in 1..N /\ N - 1 = 2 * M /\ lines[N] = Assumptions
    BY <1>1, <1>3
  <2>2. after[N] = Rewrite(s, Assumptions, step, props)
    BY <1>12, <2>1
  <2>3. Assumptions.kind = "top_u" /\ Assumptions.kind # "assert" /\ Assumptions.kind # "top_a"
    BY DEF Assumptions
  <2> HIDE DEF s
  <2> DEFINE x == Append(s.mapped, Assumptions) \o [i \in DOMAIN ids |-> Conjunct(ids[i])]
  <2>4. Rewrite(s, Assumptions, step, props) = [s EXCEPT !.mapped = x]
    BY <2>3, Zenon DEF Rewrite
  <2>5. s \in [mapped : Seq(L), to_assume : Seq(Nat), delete : SUBSET Nat]
    BY <1>16 DEF V, SmtState, L
  <2> HIDE DEF x
  <2>6. [s EXCEPT !.mapped = x].mapped = x
    BY <2>5
  <2> QED
    BY <2>2, <2>4, <2>6, Zenon DEF x
<1> HIDE DEF s, ids, out
<1>19. ProvedIds(out) = Conjuncts(s.mapped) /\ AssumedIds(out) = Range(ids)
  BY <1>16, <1>17, <1>18, Opened, Zenon
<1> QED
  BY <1>2, <1>16, <1>19 DEF out, lines, M

\* smt2manip.py: the solver is left to prove the chosen properties of the step and
\* assumes exactly the properties of the earlier steps, for any number of assertions
\* and of steps.
THEOREM ProofStepsIsolated == Spec => []StepIsolated
<1>1. Given => StepIsolated
  <2> SUFFICES ASSUME Given, in.kind = "smt2" PROVE StepIsolated
    BY DEF StepIsolated
  <2> DEFINE asserts == in.of.asserts
             step == in.of.step
             props == in.of.props
             A == [kind : {"assert"}, id : Nat, step : Nat,
                   name : {a.name : a \in Range(asserts)}, cover : BOOLEAN]
             manipulated == smt2manip(Yosys(asserts), step, props)
             M == Len(asserts)
  <2>1. /\ asserts \in Seq(A)
        /\ \A i, j \in DOMAIN asserts : asserts[i].id = asserts[j].id => i = j
        /\ step \in Nat
    BY InputAssumption, Zenon DEF Given
  <2>2. \A a \in A : a.kind = "assert" /\ a.id \in Nat /\ a.step \in Nat /\ a.cover \in BOOLEAN
    OBVIOUS
  <2> HIDE DEF asserts, step, props, A
  <2>3. /\ ProvedIds(manipulated) = Till(asserts, M, step, props, "keep")
        /\ AssumedIds(manipulated) = Till(asserts, M, step, props, "assume")
    BY <2>1, <2>2, Manipulates
  <2>4. ASSUME NEW j \in DOMAIN asserts
        PROVE  /\ j <= M
               /\ Choice(asserts[j], step, props) = "keep" <=>
                    asserts[j].step = step /\ ~asserts[j].cover /\ (props = {} \/ asserts[j].name \in props)
               /\ Choice(asserts[j], step, props) = "assume" <=> asserts[j].step < step /\ ~asserts[j].cover
    <3>1. j <= M /\ asserts[j] \in A
      BY <2>1
    <3>2. asserts[j].step \in Nat /\ asserts[j].cover \in BOOLEAN
      BY <2>2, <3>1
    <3> QED
      BY <2>1, <3>1, <3>2 DEF Choice
  <2>5. Till(asserts, M, step, props, "keep") =
          {asserts[i].id : i \in {j \in DOMAIN asserts :
             asserts[j].step = step /\ ~asserts[j].cover /\ (props = {} \/ asserts[j].name \in props)}}
    BY <2>4 DEF Till
  <2>6. Till(asserts, M, step, props, "assume") =
          {asserts[i].id : i \in {j \in DOMAIN asserts : asserts[j].step < step /\ ~asserts[j].cover}}
    BY <2>4 DEF Till
  <2> QED
    BY <2>3, <2>5, <2>6, Zenon DEF StepIsolated, asserts, step, props
<1> QED
  BY <1>1, InputGiven, PTL

-----------------------------------------------------------------------------
(* aig-manip select.  After n names the bads up to b are those of the      *)
(* chosen assertions among the first n, the bads after them are those of   *)
(* the assertions still to come, in order, and the constraints are the     *)
(* first n's assertions of earlier steps.                                  *)

Literals == Nat \X BOOLEAN
SelectState == [bads : Seq(Literals), constraints : Seq(Literals), b : Nat]

IsChosen(a, step, props) == a.step = step /\ (props = {} \/ a.name \in props)
IsAssumed(a, step) == a.step < step /\ ~a.cover

\* The bads that stay and the constraints of the first n assertions.
StaysUpTo(x, n, asserts, step, props) ==
  \E i \in 1..n : IsChosen(asserts[i], step, props) /\ x = <<asserts[i].id, asserts[i].cover>>
AssumedUpTo(x, n, asserts, step) ==
  \E i \in 1..n : IsAssumed(asserts[i], step) /\ x = <<asserts[i].id, TRUE>>

SelectedUpTo(s, n, asserts, step, props) ==
  /\ s \in SelectState
  /\ s.b <= n
  /\ Len(s.bads) = s.b + (Len(asserts) - n)
  /\ \A k \in 1..(Len(asserts) - n) : s.bads[s.b + k] = <<asserts[n + k].id, FALSE>>
  /\ \A x : (\E k \in 1..s.b : s.bads[k] = x) <=> StaysUpTo(x, n, asserts, step, props)
  /\ \A x : x \in Range(s.constraints) <=> AssumedUpTo(x, n, asserts, step)

\* What is left of a sequence when an element is removed.
LEMMA ElementRemoved ==
  ASSUME NEW S, NEW seq \in Seq(S), NEW i \in 1..Len(seq)
  PROVE  /\ RemoveAt(seq, i) \in Seq(S)
         /\ Len(RemoveAt(seq, i)) = Len(seq) - 1
         /\ \A k \in 1..(Len(seq) - 1) : RemoveAt(seq, i)[k] = IF k < i THEN seq[k] ELSE seq[k + 1]
<1> DEFINE left == SubSeq(seq, 1, i - 1)
           right == SubSeq(seq, i + 1, Len(seq))
<1>1. left \in Seq(S) /\ Len(left) = i - 1 /\ \A k \in 1..(i - 1) : left[k] = seq[k]
  OBVIOUS
<1>2. right \in Seq(S) /\ Len(right) = Len(seq) - i /\ \A k \in 1..(Len(seq) - i) : right[k] = seq[i + k]
  OBVIOUS
<1>3. RemoveAt(seq, i) = left \o right
  BY DEF RemoveAt
<1> HIDE DEF left, right
<1>4. left \o right \in Seq(S) /\ Len(left \o right) = Len(seq) - 1
  <2>1. left \o right \in Seq(S) /\ Len(left \o right) = Len(left) + Len(right)
    BY <1>1, <1>2, ConcatProperties, Zenon
  <2>2. Len(seq) \in Nat /\ (i - 1) + (Len(seq) - i) = Len(seq) - 1
    OBVIOUS
  <2> QED
    BY <1>1, <1>2, <2>1, <2>2
<1>5. ASSUME NEW k \in 1..(Len(seq) - 1), k < i PROVE (left \o right)[k] = seq[k]
  BY <1>1, <1>2, <1>5
<1>6. ASSUME NEW k \in 1..(Len(seq) - 1), ~(k < i) PROVE (left \o right)[k] = seq[k + 1]
  <2>1. (left \o right)[k] = right[k - (i - 1)]
    BY <1>1, <1>2, <1>6
  <2>2. k - (i - 1) \in 1..(Len(seq) - i) /\ i + (k - (i - 1)) = k + 1
    BY <1>6
  <2> QED
    BY <1>2, <2>1, <2>2
<1> QED
  BY <1>3, <1>4, <1>5, <1>6

\* One more name: what stays and what is assumed grow by its assertion, if at all.
LEMMA OneMoreName ==
  ASSUME NEW asserts, NEW n \in Nat \ {0}, NEW step, NEW props, NEW x
  PROVE  /\ StaysUpTo(x, n, asserts, step, props) <=>
              \/ StaysUpTo(x, n - 1, asserts, step, props)
              \/ IsChosen(asserts[n], step, props) /\ x = <<asserts[n].id, asserts[n].cover>>
         /\ AssumedUpTo(x, n, asserts, step) <=>
              \/ AssumedUpTo(x, n - 1, asserts, step)
              \/ IsAssumed(asserts[n], step) /\ x = <<asserts[n].id, TRUE>>
<1>1. \A i : i \in 1..n <=> i \in 1..(n - 1) \/ i = n
  OBVIOUS
<1> QED
  BY <1>1, Zenon DEF StaysUpTo, AssumedUpTo

\* The next element, counted from before the turn and from after it.
LEMMA IndexShift ==
  ASSUME NEW r \in Nat, NEW n \in Nat, NEW k \in 1..r
  PROVE  k + 1 \in 1..(r + 1) /\ (n - 1) + (k + 1) = n + k
OBVIOUS

LEMMA SumShift ==
  ASSUME NEW r \in Nat, NEW m \in Nat, NEW k \in 1..r
  PROVE  m + (k + 1) = (m + 1) + k /\ m + (k + 1) = (m + k) + 1
OBVIOUS

\* One turn of the loop over the names.
LEMMA TurnSelects ==
  ASSUME NEW A, NEW asserts \in Seq(A),
         \A a \in A : a.id \in Nat /\ a.step \in Nat /\ a.cover \in BOOLEAN,
         NEW step \in Nat, NEW props, NEW n \in 1..Len(asserts),
         NEW s, SelectedUpTo(s, n - 1, asserts, step, props)
  PROVE  SelectedUpTo(Turn(s, asserts[n], step, props), n, asserts, step, props)
<1> DEFINE M == Len(asserts)
           a == asserts[n]
           b == s.b + 1
           bad == s.bads[b]
           t == Turn(s, a, step, props)
           L == Literals
<1>1. /\ M \in Nat /\ n \in Nat /\ n - 1 \in Nat /\ M - n \in Nat /\ M - (n - 1) = (M - n) + 1
      /\ a \in A /\ a.id \in Nat /\ a.step \in Nat /\ a.cover \in BOOLEAN
  OBVIOUS
<1>2. /\ s.bads \in Seq(L) /\ s.constraints \in Seq(L) /\ s.b \in Nat /\ s.b <= n - 1
      /\ s = [bads |-> s.bads, constraints |-> s.constraints, b |-> s.b]
      /\ Len(s.bads) = s.b + (M - n) + 1
      /\ b \in 1..Len(s.bads)
  BY <1>1 DEF SelectedUpTo, SelectState
<1>3. \A k \in 1..((M - n) + 1) : s.bads[s.b + k] = <<asserts[(n - 1) + k].id, FALSE>>
  BY <1>1 DEF SelectedUpTo
<1>4. bad = <<a.id, FALSE>> /\ Not(bad) = <<a.id, TRUE>>
  <2>1. 1 \in 1..((M - n) + 1) /\ (n - 1) + 1 = n
    BY <1>1
  <2>2. bad = <<asserts[(n - 1) + 1].id, FALSE>>
    BY <1>3, <2>1
  <2>3. bad = <<a.id, FALSE>>
    BY <2>1, <2>2
  <2>4. bad[1] = a.id /\ bad[2] = FALSE
    BY <2>3
  <2> HIDE DEF bad
  <2>5. Not(bad) = <<a.id, TRUE>>
    BY <2>4 DEF Not
  <2> QED
    BY <2>3, <2>5
<1>5. /\ \A x : (\E k \in 1..s.b : s.bads[k] = x) <=> StaysUpTo(x, n - 1, asserts, step, props)
      /\ \A x : x \in Range(s.constraints) <=> AssumedUpTo(x, n - 1, asserts, step)
  BY Zenon DEF SelectedUpTo
<1>6. <<a.id, FALSE>> \in L /\ <<a.id, TRUE>> \in L /\ <<a.id, a.cover>> \in L
  BY <1>1 DEF Literals
<1>9. /\ s.b \in Nat /\ M \in Int /\ n \in Nat /\ M - n \in Nat /\ s.b <= n - 1
      /\ Len(s.bads) = s.b + (M - n) + 1
  BY <1>1, <1>2
<1>10. \A x :
        /\ StaysUpTo(x, n, asserts, step, props) <=>
              StaysUpTo(x, n - 1, asserts, step, props) \/ (IsChosen(a, step, props) /\ x = <<a.id, a.cover>>)
        /\ AssumedUpTo(x, n, asserts, step) <=>
              AssumedUpTo(x, n - 1, asserts, step) \/ (IsAssumed(a, step) /\ x = <<a.id, TRUE>>)
  <2>1. n \in Nat \ {0}
    OBVIOUS
  <2> QED
    BY <2>1, OneMoreName, Zenon
<1> HIDE DEF M, a, bad, L
<1>7. CASE IsChosen(a, step, props)
  <2> DEFINE lit == <<a.id, a.cover>>
             bads == [s.bads EXCEPT ![b] = lit]
  <2>1. (IF a.cover THEN Not(bad) ELSE bad) = lit
    BY <1>1, <1>4
  <2>2. t = [bads |-> bads, constraints |-> s.constraints, b |-> b]
    <3>1. t = [s EXCEPT !.bads[b] = IF a.cover THEN Not(bad) ELSE bad, !.b = b]
      BY <1>7 DEF Turn, IsChosen, bad
    <3> QED
      BY <1>2, <2>1, <3>1
  <2>3. bads \in Seq(L) /\ Len(bads) = Len(s.bads) /\ bads[b] = lit
        /\ \A k \in 1..Len(s.bads) : k # b => bads[k] = s.bads[k]
    BY <1>2, <1>6
  <2> HIDE DEF bads, lit, t
  <2>4. t \in SelectState /\ t.b <= n /\ Len(t.bads) = t.b + (M - n)
    <3>1. t.bads = bads /\ t.b = b /\ b \in Nat /\ b <= n /\ Len(bads) = b + (M - n)
      <4>1. t.bads = bads /\ t.b = b
        BY <2>2
      <4>2. b \in Nat /\ b <= n /\ Len(s.bads) = b + (M - n)
        BY <1>9
      <4> QED
        BY <2>3, <4>1, <4>2
    <3>2. t \in SelectState
      BY <1>2, <2>2, <2>3, <3>1 DEF SelectState, L
    <3> QED
      BY <3>1, <3>2
  <2>5. ASSUME NEW k \in 1..(M - n) PROVE t.bads[t.b + k] = <<asserts[n + k].id, FALSE>>
    <3>1. k + 1 \in 1..((M - n) + 1) /\ s.b + (k + 1) = b + k /\ (n - 1) + (k + 1) = n + k
      <4>2. k + 1 \in 1..((M - n) + 1) /\ (n - 1) + (k + 1) = n + k
        BY <1>9, IndexShift, Zenon
      <4>3. s.b + (k + 1) = (s.b + 1) + k /\ s.b + (k + 1) = (s.b + k) + 1
        BY <1>9, SumShift, Zenon
      <4> QED
        BY <4>2, <4>3
    <3>2. b + k \in 1..Len(s.bads) /\ b + k # b
      BY <1>9
    <3>3. bads[b + k] = s.bads[b + k]
      BY <2>3, <3>2
    <3>4. s.bads[s.b + (k + 1)] = <<asserts[(n - 1) + (k + 1)].id, FALSE>>
      BY <1>3, <3>1
    <3> QED
      BY <2>2, <3>1, <3>3, <3>4
  <2>6. ASSUME NEW x PROVE (\E k \in 1..t.b : t.bads[k] = x) <=> StaysUpTo(x, n, asserts, step, props)
    <3>1. \A k : k \in 1..b <=> k \in 1..s.b \/ k = b
      BY <1>2
    <3>2. \A k \in 1..s.b : bads[k] = s.bads[k]
      BY <1>2, <2>3
    <3>3. (\E k \in 1..b : bads[k] = x) <=> (\E k \in 1..s.b : s.bads[k] = x) \/ lit = x
      BY <2>3, <3>1, <3>2
    <3>4. StaysUpTo(x, n, asserts, step, props) <=> StaysUpTo(x, n - 1, asserts, step, props) \/ x = lit
      BY <1>7, <1>10, Zenon DEF lit
    <3> QED
      BY <1>5, <2>2, <3>3, <3>4
  <2>7. ASSUME NEW x PROVE x \in Range(t.constraints) <=> AssumedUpTo(x, n, asserts, step)
    <3>1. ~IsAssumed(a, step)
      BY <1>1, <1>7 DEF IsChosen, IsAssumed
    <3> QED
      <4>1. AssumedUpTo(x, n, asserts, step) <=> AssumedUpTo(x, n - 1, asserts, step)
        BY <1>10, <3>1, Zenon
      <4>2. t.constraints = s.constraints
        BY <2>2
      <4> QED
        BY <1>5, <4>1, <4>2, Zenon
  <2> QED
    BY <2>4, <2>5, <2>6, <2>7 DEF SelectedUpTo, t, M, a
<1>8. CASE ~IsChosen(a, step, props)
  <2> DEFINE bads == RemoveAt(s.bads, b)
             cons == IF a.cover \/ a.step >= step THEN s.constraints ELSE Append(s.constraints, Not(bad))
  <2>1. t = [bads |-> bads, constraints |-> cons, b |-> s.b]
    <3>1. t = [s EXCEPT !.bads = bads,
                        !.constraints = IF a.cover \/ a.step >= step THEN @ ELSE Append(@, Not(bad))]
      BY <1>8 DEF Turn, IsChosen, bad
    <3> HIDE DEF bads
    <3> QED
      BY <1>2, <3>1
  <2>2. /\ bads \in Seq(L) /\ Len(bads) = Len(s.bads) - 1
        /\ \A k \in 1..(Len(s.bads) - 1) : bads[k] = IF k < b THEN s.bads[k] ELSE s.bads[k + 1]
    BY <1>2, ElementRemoved, Zenon
  <2>3. (a.cover \/ a.step >= step) <=> ~IsAssumed(a, step)
    BY <1>1 DEF IsAssumed
  <2>4. cons \in Seq(L) /\ \A x : x \in Range(cons) <=>
          x \in Range(s.constraints) \/ (IsAssumed(a, step) /\ x = <<a.id, TRUE>>)
    <3>1. CASE IsAssumed(a, step)
      <4>1. cons = Append(s.constraints, <<a.id, TRUE>>)
        BY <1>4, <2>3, <3>1
      <4> DEFINE lit == <<a.id, TRUE>>
      <4>5. s.constraints \in Seq(L) /\ lit \in L /\ cons = Append(s.constraints, lit)
        BY <1>2, <1>6, <4>1, Zenon
      <4> HIDE DEF lit, cons
      <4>2. Range(cons) = Range(s.constraints) \cup {lit}
        BY <4>5, RangeAppend
      <4>3. cons \in Seq(L)
        BY <4>5
      <4>6. \A x : x \in Range(cons) <=> x \in Range(s.constraints) \/ x = lit
        BY <4>2, Zenon
      <4> QED
        BY <3>1, <4>3, <4>6, Zenon DEF lit, cons
    <3>2. CASE ~IsAssumed(a, step)
      BY <1>2, <2>3, <3>2
    <3> QED
      BY <3>1, <3>2
  <2> HIDE DEF bads, cons, t
  <2>5. t \in SelectState /\ t.b <= n /\ Len(t.bads) = t.b + (M - n)
    <3>1. t.bads = bads /\ t.b = s.b /\ s.b <= n /\ Len(bads) = s.b + (M - n)
      BY <1>9, <2>1, <2>2
    <3>2. t \in SelectState
      BY <1>2, <2>1, <2>2, <2>4 DEF SelectState, L
    <3> QED
      BY <3>1, <3>2
  <2>6. ASSUME NEW k \in 1..(M - n) PROVE t.bads[t.b + k] = <<asserts[n + k].id, FALSE>>
    <3>1. k + 1 \in 1..((M - n) + 1) /\ s.b + (k + 1) = (s.b + k) + 1 /\ (n - 1) + (k + 1) = n + k
      <4>2. k + 1 \in 1..((M - n) + 1) /\ (n - 1) + (k + 1) = n + k
        BY <1>9, IndexShift, Zenon
      <4>3. s.b + (k + 1) = (s.b + 1) + k /\ s.b + (k + 1) = (s.b + k) + 1
        BY <1>9, SumShift, Zenon
      <4> QED
        BY <4>2, <4>3
    <3>2. s.b + k \in 1..(Len(s.bads) - 1) /\ ~(s.b + k < b)
      BY <1>9
    <3>3. bads[s.b + k] = s.bads[(s.b + k) + 1]
      BY <2>2, <3>2
    <3>4. s.bads[s.b + (k + 1)] = <<asserts[(n - 1) + (k + 1)].id, FALSE>>
      BY <1>3, <3>1
    <3> QED
      BY <2>1, <3>1, <3>3, <3>4
  <2>7. ASSUME NEW x PROVE (\E k \in 1..t.b : t.bads[k] = x) <=> StaysUpTo(x, n, asserts, step, props)
    <3>1. \A k \in 1..s.b : bads[k] = s.bads[k]
      <4>1. \A k \in 1..s.b : k \in 1..(Len(s.bads) - 1) /\ k < b
        BY <1>9
      <4> QED
        BY <2>2, <4>1
    <3>2. StaysUpTo(x, n, asserts, step, props) <=> StaysUpTo(x, n - 1, asserts, step, props)
      BY <1>8, <1>10, Zenon
    <3> QED
      BY <1>5, <2>1, <3>1, <3>2
  <2>8. ASSUME NEW x PROVE x \in Range(t.constraints) <=> AssumedUpTo(x, n, asserts, step)
    <3>1. t.constraints = cons
      BY <2>1
    <3> QED
      BY <1>5, <1>10, <2>4, <3>1, Zenon
  <2> QED
    BY <2>5, <2>6, <2>7, <2>8 DEF SelectedUpTo, t, M, a
<1> QED
  BY <1>7, <1>8

\* A turn keeps the types, whatever is left of the bads.
LEMMA SelectLoops ==
  ASSUME NEW A, NEW asserts \in Seq(A),
         \A a \in A : a.id \in Nat /\ a.step \in Nat /\ a.cover \in BOOLEAN,
         NEW step \in Nat, NEW props
  PROVE  SelectedUpTo(select(asserts, step, props), Len(asserts), asserts, step, props)
<1> DEFINE M == Len(asserts)
           start == [bads |-> Bads(asserts), constraints |-> <<>>, b |-> 0]
           V == SelectState
           Does(s, n) == SelectedUpTo(s, n - 1, asserts, step, props)
           G == [q \in V \X Nat |-> IF q[2] \in 1..M /\ Does(q[1], q[2])
                                    THEN Turn(q[1], asserts[q[2]], step, props) ELSE q[1]]
           Loop(g) == [n \in 0..M |-> IF n = 0 THEN start ELSE Turn(g[n - 1], asserts[n], step, props)]
           after == CHOOSE g : g = Loop(g)
<1>1. M \in Nat /\ DOMAIN asserts = 1..M /\ \A i \in 1..M : asserts[i] \in A
  OBVIOUS
<1>2. select(asserts, step, props) = after[M]
  BY Zenon DEF select
<1>3. SelectedUpTo(start, 0, asserts, step, props)
  <2>1. Bads(asserts) \in Seq(Literals) /\ Len(Bads(asserts)) = M
        /\ \A k \in 1..M : Bads(asserts)[k] = <<asserts[k].id, FALSE>>
    <3> DEFINE bs == Bads(asserts)
    <3>1. bs = [i \in 1..M |-> <<asserts[i].id, FALSE>>]
      BY <1>1 DEF Bads
    <3>4. \A i \in 1..M : <<asserts[i].id, FALSE>> \in Literals
      BY <1>1 DEF Literals
    <3>2. bs \in [1..M -> Literals]
      BY <3>1, <3>4
    <3> HIDE DEF bs, M
    <3>3. bs \in Seq(Literals) /\ Len(bs) = M
      BY <1>1, <3>2, FunctionIsSeq
    <3> QED
      BY <3>1, <3>3 DEF bs
  <2>2. start \in SelectState
    BY <2>1 DEF SelectState
  <2>3. Range(start.constraints) = {}
    BY DEF Range
  <2>4. \A x : ~StaysUpTo(x, 0, asserts, step, props) /\ ~AssumedUpTo(x, 0, asserts, step)
    BY DEF StaysUpTo, AssumedUpTo
  <2>5. start.b = 0 /\ start.bads = Bads(asserts)
    OBVIOUS
  <2> HIDE DEF start
  <2>6. \A k \in 1..(M - 0) : start.bads[start.b + k] = <<asserts[0 + k].id, FALSE>>
    <3>1. M - 0 = M /\ \A k \in 1..M : start.b + k = k /\ 0 + k = k
      BY <1>1, <2>5
    <3> QED
      BY <2>1, <2>5, <3>1
  <2>7. ~\E k \in 1..start.b : TRUE
    BY <2>5
  <2>8. Len(start.bads) = start.b + (M - 0) /\ start.b <= 0
    BY <1>1, <2>1, <2>5
  <2> QED
    BY <2>2, <2>3, <2>4, <2>6, <2>7, <2>8 DEF SelectedUpTo
<1>4. ASSUME NEW s, NEW n \in 1..M, Does(s, n)
      PROVE  SelectedUpTo(Turn(s, asserts[n], step, props), n, asserts, step, props)
  BY <1>4, TurnSelects
<1> HIDE DEF start, M
<1>5. start \in V /\ \A s, n : SelectedUpTo(s, n, asserts, step, props) => s \in V
  BY <1>3 DEF SelectedUpTo
<1> HIDE DEF V, Does
<1>6. G \in [V \X Nat -> V]
  <2>1. ASSUME NEW q \in V \X Nat
        PROVE  (IF q[2] \in 1..M /\ Does(q[1], q[2])
                THEN Turn(q[1], asserts[q[2]], step, props) ELSE q[1]) \in V
    BY <1>4, <1>5
  <2> QED
    BY <2>1
<1>7. PICK f : Follows(f, M, V, start, G)
  <2> HIDE DEF G
  <2> QED
    BY <1>1, <1>5, <1>6, RecursionExists, Zenon
<1>8. f \in [0..M -> V] /\ f[0] = start /\ \A n \in 1..M : f[n] = G[<<f[n - 1], n>>]
  BY <1>7, Zenon DEF Follows
<1> DEFINE Known == {n \in 0..M : SelectedUpTo(f[n], n, asserts, step, props)}
<1>9. ASSUME NEW n \in 1..M, n - 1 \in Known
      PROVE  f[n] = Turn(f[n - 1], asserts[n], step, props) /\ n \in Known
  <2>1. f[n - 1] \in V /\ n \in Nat /\ n \in 0..M /\ n - 1 \in 0..M
    BY <1>1, <1>8
  <2>2. Does(f[n - 1], n)
    BY <1>9 DEF Does
  <2>3. G[<<f[n - 1], n>>] = Turn(f[n - 1], asserts[n], step, props)
    BY <2>1, <2>2
  <2> HIDE DEF G
  <2>4. f[n] = Turn(f[n - 1], asserts[n], step, props)
    BY <1>8, <2>3
  <2>5. SelectedUpTo(f[n], n, asserts, step, props)
    BY <1>4, <2>2, <2>4
  <2> QED
    BY <2>1, <2>4, <2>5
<1>10. \A n \in 0..M : n \in Known
  <2>1. 0 \in Known
    BY <1>1, <1>3, <1>8
  <2> HIDE DEF Known
  <2> QED
    BY <1>1, <1>9, <2>1, IntervalInduction, Zenon
<1>11. f = Loop(f)
  <2>1. \A n \in 1..M : f[n] = Turn(f[n - 1], asserts[n], step, props)
    <3>1. \A n \in 1..M : n - 1 \in 0..M
      BY <1>1
    <3> HIDE DEF Known
    <3> QED
      BY <1>9, <1>10, <3>1
  <2> HIDE DEF G, Known
  <2> QED
    BY <1>1, <1>8, <2>1
<1>12. after = Loop(after)
  <2> HIDE DEF Loop
  <2> QED
    BY <1>11
<1> HIDE DEF after, G
<1>13. after[0] = start /\ \A n \in 1..M : after[n] = Turn(after[n - 1], asserts[n], step, props)
  BY <1>1, <1>12
<1> DEFINE Same == {n \in 0..M : SelectedUpTo(after[n], n, asserts, step, props)}
<1>14. \A n \in 0..M : n \in Same
  <2>1. 0 \in Same
    BY <1>1, <1>3, <1>13
  <2>2. ASSUME NEW n \in 1..M, n - 1 \in Same PROVE n \in Same
    <3>1. n \in 0..M /\ Does(after[n - 1], n)
      BY <1>1, <2>2 DEF Does
    <3> QED
      BY <1>4, <1>13, <3>1
  <2> HIDE DEF Same
  <2> QED
    BY <1>1, <2>1, <2>2, IntervalInduction, Zenon
<1> QED
  BY <1>1, <1>2, <1>14 DEF M

\* aig-manip select: for any number of assertions and of steps, an engine is given the
\* chosen properties of the step, and assumes exactly the properties of the earlier steps.
THEOREM SelectionIsolates == Spec => []SelectIsolated
<1>1. Given => SelectIsolated
  <2> SUFFICES ASSUME Given, in.kind = "smt2" PROVE SelectIsolated
    BY DEF SelectIsolated
  <2> DEFINE asserts == in.of.asserts
             step == in.of.step
             props == in.of.props
             A == [kind : {"assert"}, id : Nat, step : Nat,
                   name : {a.name : a \in Range(asserts)}, cover : BOOLEAN]
             s == select(asserts, step, props)
             M == Len(asserts)
  <2>1. asserts \in Seq(A) /\ step \in Nat
    BY InputAssumption, Zenon DEF Given
  <2>2. \A a \in A : a.id \in Nat /\ a.step \in Nat /\ a.cover \in BOOLEAN
    OBVIOUS
  <2> HIDE DEF asserts, step, props, A
  <2>3. SelectedUpTo(s, M, asserts, step, props)
    BY <2>1, <2>2, SelectLoops
  <2> HIDE DEF s
  <2>4. M \in Nat /\ DOMAIN asserts = 1..M
    BY <2>1
  <2>5. s.bads \in Seq(Literals) /\ s.b \in Nat /\ Len(s.bads) = s.b
    BY <2>3, <2>4 DEF SelectedUpTo, SelectState
  <2>6. DOMAIN s.bads = 1..s.b
    BY <2>5
  <2>7. \A a : a \in Range(asserts) <=> \E i \in 1..M : a = asserts[i]
    BY <2>4 DEF Range
  <2>8. \A x : x \in Range(s.bads) <=> StaysUpTo(x, M, asserts, step, props)
    BY <2>3, <2>6 DEF SelectedUpTo, Range
  <2>9. \A x : x \in Range(s.constraints) <=> AssumedUpTo(x, M, asserts, step)
    BY <2>3 DEF SelectedUpTo
  <2> HIDE DEF M
  <2>10. Range(s.bads) =
           {<<a.id, a.cover>> : a \in {x \in Range(asserts) :
              x.step = step /\ (props = {} \/ x.name \in props)}}
    BY <2>7, <2>8 DEF StaysUpTo, IsChosen
  <2>11. Range(s.constraints) = {<<a.id, TRUE>> : a \in {x \in Range(asserts) : x.step < step /\ ~x.cover}}
    <3> DEFINE Earlier == {x \in Range(asserts) : x.step < step /\ ~x.cover}
    <3>1. \A a : a \in Earlier <=> \E i \in 1..M : a = asserts[i] /\ IsAssumed(a, step)
      BY <2>7, Zenon DEF IsAssumed
    <3>2. \A x : x \in Range(s.constraints) <=> \E a \in Earlier : x = <<a.id, TRUE>>
      BY <2>9, <3>1, Zenon DEF AssumedUpTo
    <3> HIDE DEF Earlier
    <3>3. Range(s.constraints) = {<<a.id, TRUE>> : a \in Earlier}
      BY <3>2
    <3> QED
      BY <3>3 DEF Earlier
  <2> QED
    BY <2>10, <2>11, Zenon DEF SelectIsolated, s, asserts, step, props
<1> QED
  BY <1>1, InputGiven, PTL

-----------------------------------------------------------------------------
\* ibex_config.py

\* The fields of a configuration: eighteen, each named once, of one of three types.
LEMMA Fields ==
  /\ DOMAIN known_fields = 1..18 /\ Len(known_fields) = 18
  /\ \A i, j \in 1..18 : known_fields[i][1] = known_fields[j][1] => i = j
  /\ \A i \in 1..18 : known_fields[i][2] \in {"bool", "int", "str"}
  /\ known_fields[1] = <<"RV32E", "bool">> /\ known_fields[2] = <<"RV32M", "str">>
  /\ known_fields[3] = <<"RV32B", "str">>
<1>1. DOMAIN known_fields = 1..18 /\ Len(known_fields) = 18
  BY DEF known_fields
<1>2. known_fields[1] = <<"RV32E", "bool">> /\ known_fields[2] = <<"RV32M", "str">> /\ known_fields[3] = <<"RV32B", "str">>
  BY DEF known_fields
<1>3. \A i \in 1..18 : i = 1 \/ i = 2 \/ i = 3 \/ i = 4 \/ i = 5 \/ i = 6 \/ i = 7 \/ i = 8 \/ i = 9
        \/ i = 10 \/ i = 11 \/ i = 12 \/ i = 13 \/ i = 14 \/ i = 15 \/ i = 16 \/ i = 17 \/ i = 18
  OBVIOUS
<1> DEFINE Place(name) ==
      CASE name = "RV32E" -> 1 [] name = "RV32M" -> 2 [] name = "RV32B" -> 3 [] name = "RV32ZC" -> 4
        [] name = "RegFile" -> 5 [] name = "BranchTargetALU" -> 6 [] name = "WritebackStage" -> 7
        [] name = "ICache" -> 8 [] name = "ICacheECC" -> 9 [] name = "ICacheScramble" -> 10
        [] name = "BranchPredictor" -> 11 [] name = "DbgTriggerEn" -> 12 [] name = "SecureIbex" -> 13
        [] name = "PMPEnable" -> 14 [] name = "PMPGranularity" -> 15 [] name = "PMPNumRegions" -> 16
        [] name = "MHPMCounterNum" -> 17 [] name = "MHPMCounterWidth" -> 18
<1>4. ASSUME NEW i \in 1..18
      PROVE  /\ known_fields[i][2] \in {"bool", "int", "str"}
             /\ Place(known_fields[i][1]) = i
  BY <1>3 DEF known_fields
<1>5. ASSUME NEW i \in 1..18, NEW j \in 1..18, known_fields[i][1] = known_fields[j][1]
      PROVE  i = j
  <2> HIDE DEF Place
  <2> QED
    BY <1>4, <1>5, Zenon
<1> QED
  BY <1>1, <1>2, <1>4, <1>5, Zenon

\* A yaml value is read exactly when it has the type of its field.
LEMMA ReadWhenTyped ==
  ASSUME NEW type \in {"bool", "int", "str"}, NEW v \in YamlValue
  PROVE  Readable(type, v) <=> Typed(type, v)
<1>1. CASE type = "bool"
  <2>1. Readable(type, v) <=> read_bool(v)
    BY <1>1 DEF Readable
  <2>2. Typed(type, v) <=> v \in {"bool", "int"} \X {0, 1}
    BY <1>1 DEF Typed
  <2> QED
    BY <2>1, <2>2 DEF read_bool, isinstance, YamlValue
<1>2. CASE type = "int"
  BY <1>2 DEF Readable, Typed, read_int, isinstance, YamlValue
<1>3. CASE type = "str"
  BY <1>3 DEF Readable, Typed, read_str, isinstance, YamlValue
<1> QED
  BY <1>1, <1>2, <1>3

\* Exactly the well-formed files are read, and the configuration is the one asked for.
LEMMA ParsesWellFormed ==
  ASSUME NEW file, NEW name, \A c \in DOMAIN file : \A k \in DOMAIN file[c] : file[c][k] \in YamlValue
  PROVE  /\ Raised(parse_config(name, file)) <=> ~WellFormed(file, name)
         /\ WellFormed(file, name) => parse_config(name, file) = Return(file[name])
<1>1. ASSUME NEW c \in DOMAIN file
      PROVE  /\ Raised(Config(file[c])) <=>
                  ~(/\ DOMAIN file[c] = known_keys
                    /\ \A i \in DOMAIN known_fields :
                         Typed(known_fields[i][2], file[c][known_fields[i][1]]))
             /\ ~Raised(Config(file[c])) => Config(file[c]) = Return(file[c])
  <2>1. CASE DOMAIN file[c] # known_keys
    BY <2>1 DEF Config, Raised, Raise, Return
  <2>2. CASE DOMAIN file[c] = known_keys
    <3>1. ASSUME NEW i \in DOMAIN known_fields
          PROVE  Readable(known_fields[i][2], file[c][known_fields[i][1]])
                   <=> Typed(known_fields[i][2], file[c][known_fields[i][1]])
      <4>1. known_fields[i][1] \in DOMAIN file[c] /\ known_fields[i][2] \in {"bool", "int", "str"}
        BY <2>2, Fields DEF known_keys
      <4> QED
        BY <4>1, ReadWhenTyped
    <3>2. Raised(Config(file[c])) <=>
            ~\A i \in DOMAIN known_fields : Readable(known_fields[i][2], file[c][known_fields[i][1]])
      BY <2>2 DEF Config, Raised, Raise, Return
    <3>3. ~Raised(Config(file[c])) => Config(file[c]) = Return(file[c])
      BY DEF Config, Raised
    <3> QED
      BY <2>2, <3>1, <3>2, <3>3
  <2> QED
    BY <2>1, <2>2
<1> DEFINE good == \A c \in DOMAIN file : ~Raised(Config(file[c]))
<1>2. WellFormed(file, name) <=> good /\ name \in DOMAIN file
  BY <1>1 DEF WellFormed
<1>3. Raised(parse_config(name, file)) <=> ~(good /\ name \in DOMAIN file)
  BY DEF parse_config, Raised, Raise
<1>4. WellFormed(file, name) => parse_config(name, file) = Return(file[name])
  BY <1>1, <1>2 DEF parse_config
<1> QED
  BY <1>2, <1>3, <1>4

\* The two stages of a simulator set the options P and Q.
Shares(file, name, simulator, P, Q) ==
  /\ P \cap Q = {} /\ P \cup Q = {"param", "define"}
  /\ get_x_opts(file, name, simulator, "compile") = Return(SimOpts(file[name], P))
  /\ \/ get_x_opts(file, name, simulator, "sim") = Return(SimOpts(file[name], Q))
     \/ Q = {} /\ get_x_opts(file, name, simulator, "sim") = Return(<<>>)
  /\ simulator = "xlm" => Q = {}

\* What the two stages of a simulator set, together: everything, and nothing twice.
LEMMA StagesShare ==
  ASSUME NEW file, NEW name, NEW simulator \in DOMAIN SIM_CFGS,
         \A c \in DOMAIN file : \A k \in DOMAIN file[c] : file[c][k] \in YamlValue
  PROVE  /\ ~WellFormed(file, name) => Raised(get_x_opts(file, name, simulator, "compile"))
         /\ WellFormed(file, name) =>
              \E P, Q : Shares(file, name, simulator, P, Q)
<1> DEFINE config == parse_config(name, file)
<1>1. simulator \in {"vcs", "xlm", "dsim"} \/ simulator \in {"riviera", "questa"}
  BY DEF SIM_CFGS
<1>2. /\ Raised(config) <=> ~WellFormed(file, name)
      /\ WellFormed(file, name) => config = Return(file[name]) /\ Value(config) = file[name]
  BY ParsesWellFormed DEF Return, Value
<1> HIDE DEF config
<1>3. CASE simulator \in {"vcs", "xlm", "dsim"}
  <2>1. SIM_CFGS[simulator] = {"compile"} /\ "compile" # "sim"
    BY <1>3 DEF SIM_CFGS
  <2>2. output_type(simulator, "compile") = <<simulator, "">>
    BY <2>1 DEF output_type
  <2>3. <<simulator, "">> \in DOMAIN outputters /\ outputters[<<simulator, "">>] = {"param", "define"}
    BY <1>3 DEF outputters
  <2>4. get_x_opts(file, name, simulator, "sim") = Return(<<>>)
    BY <2>1 DEF get_x_opts
  <2>5. get_x_opts(file, name, simulator, "compile") =
          IF Raised(config) THEN Raise ELSE Return(SimOpts(Value(config), {"param", "define"}))
    BY <2>1, <2>2, <2>3 DEF get_x_opts, config
  <2>6. ~WellFormed(file, name) => Raised(get_x_opts(file, name, simulator, "compile"))
    BY <1>2, <2>5 DEF Raised
  <2>7. ASSUME WellFormed(file, name)
        PROVE  get_x_opts(file, name, simulator, "compile") = Return(SimOpts(file[name], {"param", "define"}))
    BY <1>2, <2>5, <2>7
  <2>8. WellFormed(file, name) => Shares(file, name, simulator, {"param", "define"}, {})
    BY <2>4, <2>7 DEF Shares
  <2> QED
    BY <2>6, <2>8
<1>4. CASE simulator \in {"riviera", "questa"}
  <2>1. SIM_CFGS[simulator] = {"compile", "sim"} /\ "compile" \in SIM_CFGS[simulator]
        /\ "sim" \in SIM_CFGS[simulator] /\ simulator # "xlm"
    BY <1>4 DEF SIM_CFGS
  <2>2. \A stage \in {"compile", "sim"} : output_type(simulator, stage) = <<simulator, stage>>
    BY <2>1 DEF output_type
  <2>3. /\ <<simulator, "sim">> \in DOMAIN outputters /\ outputters[<<simulator, "sim">>] = {"param"}
        /\ <<simulator, "compile">> \in DOMAIN outputters /\ outputters[<<simulator, "compile">>] = {"define"}
    BY <1>4 DEF outputters
  <2>4. get_x_opts(file, name, simulator, "compile") =
          IF Raised(config) THEN Raise ELSE Return(SimOpts(Value(config), {"define"}))
    BY <2>1, <2>2, <2>3 DEF get_x_opts, config
  <2>5. get_x_opts(file, name, simulator, "sim") =
          IF Raised(config) THEN Raise ELSE Return(SimOpts(Value(config), {"param"}))
    BY <2>1, <2>2, <2>3, Zenon DEF get_x_opts, config
  <2>6. ~WellFormed(file, name) => Raised(get_x_opts(file, name, simulator, "compile"))
    BY <1>2, <2>4 DEF Raised
  <2>7. ASSUME WellFormed(file, name)
        PROVE  /\ get_x_opts(file, name, simulator, "compile") = Return(SimOpts(file[name], {"define"}))
               /\ get_x_opts(file, name, simulator, "sim") = Return(SimOpts(file[name], {"param"}))
    BY <1>2, <2>4, <2>5, <2>7
  <2>8. WellFormed(file, name) => Shares(file, name, simulator, {"define"}, {"param"})
    BY <2>1, <2>7 DEF Shares
  <2> QED
    BY <2>6, <2>8
<1> QED
  BY <1>1, <1>3, <1>4

\* The options of a configuration, before those of a stage are kept.
Options(config) == [i \in 1..18 |-> Option(config, known_fields[i])]

\* There is one option for each of the fields, in their order.
LEMMA OptionsListed ==
  ASSUME NEW config
  PROVE  LET all == Options(config) IN
         /\ all \in Seq(Range(all)) /\ DOMAIN all = 1..18 /\ Len(all) = 18 /\ IsInjective(all)
         /\ \A i \in 1..18 : all[i].fld = known_fields[i][1] /\ all[i].set \in {"param", "define"}
         /\ \A i \in 1..18 : all[i].val = IF known_fields[i][2] = "str" THEN config[known_fields[i][1]]
                                           ELSE AsInt(config[known_fields[i][1]])
         /\ \A sets : SimOpts(config, sets) = Keep(all, {o \in Range(all) : o.set \in sets})
<1> DEFINE all == Options(config)
<1>1. DOMAIN all = 1..18
  BY DEF Options
<1>2. ASSUME NEW i \in 1..18
      PROVE  /\ all[i].fld = known_fields[i][1] /\ all[i].set \in {"param", "define"}
             /\ all[i].val = IF known_fields[i][2] = "str" THEN config[known_fields[i][1]]
                             ELSE AsInt(config[known_fields[i][1]])
  BY DEF Options, Option
<1>3. all \in [1..18 -> Range(all)]
  <2>1. all = [i \in 1..18 |-> all[i]]
    BY DEF Options
  <2> QED
    BY <1>1, <2>1 DEF Range
<1>4. all \in Seq(Range(all)) /\ Len(all) = 18
  <2> HIDE DEF all
  <2> QED
    BY <1>3, FunctionIsSeq, Zenon
<1>5. IsInjective(all)
  <2> HIDE DEF all
  <2> QED
    BY <1>1, <1>2, Fields DEF IsInjective
<1>6. \A sets : SimOpts(config, sets) = Keep(all, {o \in Range(all) : o.set \in sets})
  BY Fields DEF SimOpts, Options
<1> HIDE DEF all
<1>7. /\ all \in Seq(Range(all)) /\ DOMAIN all = 1..18 /\ Len(all) = 18 /\ IsInjective(all)
      /\ \A i \in 1..18 : all[i].fld = known_fields[i][1] /\ all[i].set \in {"param", "define"}
      /\ \A i \in 1..18 : all[i].val = IF known_fields[i][2] = "str" THEN config[known_fields[i][1]]
                                        ELSE AsInt(config[known_fields[i][1]])
  BY <1>1, <1>2, <1>4, <1>5
<1> QED
  BY <1>6, <1>7 DEF all

\* Two stages that share the options have all of them between them, each once.
LEMMA StagesComplete ==
  ASSUME NEW config, NEW P, NEW Q, P \cap Q = {}, P \cup Q = {"param", "define"}
  PROVE  LET opts == SimOpts(config, P) \o SimOpts(config, Q) IN
         /\ opts \in Seq(Range(Options(config))) /\ SimOpts(config, P) \in Seq(Range(Options(config)))
         /\ Len(opts) = 18
         /\ \A x : x \in Range(opts) <=> x \in Range(Options(config))
         /\ Q = {} => SimOpts(config, Q) = <<>>
<1> DEFINE all == Options(config)
           R == Range(all)
           A == {o \in R : o.set \in P}
           B == {o \in R : o.set \in Q}
           a == Keep(all, A)
           b == Keep(all, B)
<1>1. /\ all \in Seq(R) /\ DOMAIN all = 1..18 /\ Len(all) = 18 /\ IsInjective(all)
      /\ \A i \in 1..18 : all[i].set \in {"param", "define"}
      /\ SimOpts(config, P) = a /\ SimOpts(config, Q) = b
  BY OptionsListed
<1>2. \A x \in R : x.set \in {"param", "define"}
  BY <1>1, Zenon DEF Range
<1>3. R \cap A = A /\ R \cap B = B /\ A \cap B = {} /\ \A x : x \in R <=> x \in A \/ x \in B
  BY <1>2
<1> HIDE DEF all, A, B
<1>4. a \in Seq(A) /\ IsInjective(a) /\ \A x : x \in Range(a) <=> x \in R /\ x \in A
  BY <1>1, <1>3, Keeps, KeepDistinct, Zenon
<1>5. b \in Seq(B) /\ IsInjective(b) /\ \A x : x \in Range(b) <=> x \in R /\ x \in B
  BY <1>1, <1>3, Keeps, KeepDistinct, Zenon
<1> HIDE DEF a, b
<1>6. a \in Seq(R) /\ b \in Seq(R)
  <2>1. A \subseteq R /\ B \subseteq R
    BY DEF A, B
  <2> HIDE DEF R
  <2> QED
    BY <1>4, <1>5, <2>1
<1>7. IsInjective(a \o b)
  BY <1>3, <1>4, <1>5, <1>6, DistinctJoin
<1>8. \A x : x \in Range(a \o b) <=> x \in R
  BY <1>3, <1>4, <1>5, <1>6, RangeJoin
<1>9. a \o b \in Seq(R)
  <2> HIDE DEF R
  <2> QED
    BY <1>6
<1>10. Range(a \o b) = R
  BY <1>8
<1>11. Len(a \o b) = 18
  BY <1>1, <1>7, <1>9, <1>10, DistinctCount, Zenon
<1>12. Q = {} => b = <<>>
  <2>1. Q = {} => Range(b) = {}
    BY <1>5 DEF B
  <2> QED
    BY <1>5, <2>1, EmptyRange
<1> QED
  BY <1>1, <1>6, <1>8, <1>9, <1>11, <1>12 DEF all

\* An option has the value of its field.
LEMMA OptionEqual ==
  ASSUME NEW file, NEW name, WellFormed(file, name), NEW i \in 1..18
  PROVE  /\ Options(file[name])[i].fld = FusesocOpts(file[name])[i].fld
         /\ Equal(Options(file[name])[i].val, FusesocOpts(file[name])[i].val)
<1> DEFINE config == file[name]
           f == known_fields[i]
<1>1. FusesocOpts(config)[i] = [fld |-> f[1], val |-> config[f[1]]]
  BY Fields DEF FusesocOpts
<1>2. /\ Options(config)[i].fld = f[1]
      /\ Options(config)[i].val = IF f[2] = "str" THEN config[f[1]] ELSE AsInt(config[f[1]])
  BY OptionsListed, Zenon
<1>3. Typed(f[2], config[f[1]]) /\ f[2] \in {"bool", "int", "str"}
  BY Fields DEF WellFormed
<1> HIDE DEF config, f
<1>4. Equal(Options(config)[i].val, config[f[1]])
  <2>1. CASE f[2] = "str"
    BY <1>2, <2>1 DEF Equal
  <2>2. CASE f[2] # "str"
    <3>1. config[f[1]][1] # "str"
      BY <1>3, <2>2, Zenon DEF Typed
    <3> QED
      BY <1>2, <2>2, <3>1 DEF Equal, AsInt
  <2> QED
    BY <2>1, <2>2
<1> QED
  BY <1>1, <1>2, <1>4 DEF config

\* The files of an input.
LEMMA FilesGiven ==
  ASSUME Given, in.kind = "config"
  PROVE  \A c \in DOMAIN in.of.file : \A k \in DOMAIN in.of.file[c] : in.of.file[c][k] \in YamlValue
  BY InputAssumption DEF Given

\* ibex_config.py: the options of a simulator's stages set every field once.
LEMMA AllOptionsSet == Given => OptionsComplete
<1> SUFFICES ASSUME Given, in.kind = "config" PROVE OptionsComplete
  BY DEF OptionsComplete
<1> DEFINE file == in.of.file
           name == in.of.name
           good == WellFormed(file, name)
           config == parse_config(name, file)
           Compile(s) == get_x_opts(file, name, s, "compile")
           Sim(s) == get_x_opts(file, name, s, "sim")
<1>1. \A c \in DOMAIN file : \A k \in DOMAIN file[c] : file[c][k] \in YamlValue
  BY FilesGiven
<1>2. (Raised(config) <=> ~good) /\ (good => config = Return(file[name]) /\ Value(config) = file[name])
  BY <1>1, ParsesWellFormed DEF Return, Value
<1>3. ASSUME NEW s \in DOMAIN SIM_CFGS
      PROVE  LET opts == Value(Compile(s)) \o Value(Sim(s))
                 fusesoc == FusesocOpts(Value(config))
             IN  /\ good <=> ~Raised(Compile(s)) /\ ~Raised(Sim(s))
                 /\ good => /\ Len(opts) = Len(known_fields)
                            /\ \A i \in DOMAIN fusesoc : \E j \in DOMAIN opts :
                                 /\ opts[j].fld = fusesoc[i].fld
                                 /\ Equal(opts[j].val, fusesoc[i].val)
  <2>1. CASE ~good
    BY <1>1, <2>1, StagesShare
  <2>2. CASE good
    <3> DEFINE c == file[name]
    <3>1. PICK P, Q : Shares(file, name, s, P, Q)
      BY <1>1, <2>2, StagesShare
    <3> DEFINE opts == SimOpts(c, P) \o SimOpts(c, Q)
    <3>2. /\ opts \in Seq(Range(Options(c))) /\ Len(opts) = 18
          /\ \A x : x \in Range(opts) <=> x \in Range(Options(c))
          /\ Q = {} => SimOpts(c, Q) = <<>>
      BY <3>1, StagesComplete DEF Shares
    <3>3. Sim(s) = Return(SimOpts(c, Q)) /\ Compile(s) = Return(SimOpts(c, P))
      BY <3>1, <3>2 DEF Shares
    <3>4. /\ ~Raised(Compile(s)) /\ ~Raised(Sim(s))
          /\ Value(Compile(s)) = SimOpts(c, P) /\ Value(Sim(s)) = SimOpts(c, Q)
      BY <3>3 DEF Raised, Raise, Return, Value
    <3>5. Value(Compile(s)) \o Value(Sim(s)) = opts
      BY <3>4
    <3>6. DOMAIN FusesocOpts(c) = 1..18
      BY Fields DEF FusesocOpts
    <3> HIDE DEF opts, c
    <3>7. ASSUME NEW i \in DOMAIN FusesocOpts(c)
          PROVE  \E j \in DOMAIN opts : /\ opts[j].fld = FusesocOpts(c)[i].fld
                                        /\ Equal(opts[j].val, FusesocOpts(c)[i].val)
      <4>1. Options(c)[i] \in Range(Options(c))
        BY <3>6, <3>7, OptionsListed, Zenon DEF Range
      <4>2. PICK j \in DOMAIN opts : opts[j] = Options(c)[i]
        BY <3>2, <4>1, Zenon DEF Range
      <4> QED
        BY <2>2, <3>6, <4>2, OptionEqual, Zenon DEF c
    <3>8. Value(config) = c /\ Len(known_fields) = 18
      BY <1>2, <2>2, Fields DEF c
    <3> HIDE DEF good, config, Compile, Sim
    <3> QED
      BY <2>2, <3>2, <3>4, <3>5, <3>7, <3>8
  <2> QED
    BY <2>1, <2>2
<1> HIDE DEF config, good
<1> QED
  BY <1>2, <1>3 DEF OptionsComplete, config, good

\* The one option of a field.
LEMMA OptionOf ==
  ASSUME NEW config, NEW opts, \A x : x \in Range(opts) <=> x \in Range(Options(config)), NEW i \in 1..18
  PROVE  (CHOOSE o \in Range(opts) : o.fld = known_fields[i][1]) = Options(config)[i]
<1> DEFINE all == Options(config)
<1>1. DOMAIN all = 1..18 /\ \A j \in 1..18 : all[j].fld = known_fields[j][1]
  BY OptionsListed
<1> HIDE DEF all
<1>2. all[i] \in Range(opts) /\ all[i].fld = known_fields[i][1]
  BY <1>1, Zenon DEF Range, all
<1>3. ASSUME NEW o \in Range(opts), o.fld = known_fields[i][1] PROVE o = all[i]
  <2>1. PICK j \in 1..18 : o = all[j]
    BY <1>1 DEF Range, all
  <2> QED
    BY <1>1, <1>3, <2>1, Fields
<1> QED
  BY <1>2, <1>3 DEF all

\* ibex_cmd.py and the testbench derive the same ISA.
LEMMA IsasAgree == Given => IsaInSync
<1> DEFINE file == in.of.file
           name == in.of.name
           config == parse_config(name, file)
           c == Value(config)
           isas == get_isas_for_config(c)
           opts == Value(get_x_opts(file, name, "xlm", "compile"))
           params == [f \in known_keys |-> (CHOOSE o \in Range(opts) : o.fld = f).val]
<1> SUFFICES ASSUME Given, in.kind = "config", ~Raised(config)
             PROVE  /\ Raised(isas) <=> params["RV32B"][2] \notin 0..3
                    /\ ~Raised(isas) => /\ Value(isas).iss = get_isa_string(params)
                                        /\ Value(isas).toolchain[3] <=> Value(isas).iss[3] # <<>>
  BY DEF IsaInSync
<1>1. \A d \in DOMAIN file : \A k \in DOMAIN file[d] : file[d][k] \in YamlValue
  BY FilesGiven
<1>2. WellFormed(file, name) /\ c = file[name]
  BY <1>1, ParsesWellFormed DEF Return, Value
<1>3. \A x : x \in Range(opts) <=> x \in Range(Options(c))
  <2>1. "xlm" \in DOMAIN SIM_CFGS
    BY DEF SIM_CFGS
  <2>2. PICK P, Q : Shares(file, name, "xlm", P, Q)
    BY <1>1, <1>2, <2>1, StagesShare, Zenon
  <2>3. Q = {} /\ opts = SimOpts(c, P)
    BY <1>2, <2>2 DEF Shares, Return, Value
  <2> HIDE DEF opts, c
  <2>4. /\ \A x : x \in Range(SimOpts(c, P) \o SimOpts(c, Q)) <=> x \in Range(Options(c))
        /\ Q = {} => SimOpts(c, Q) = <<>>
    BY <2>2, StagesComplete, Zenon DEF Shares
  <2>5. SimOpts(c, P) \in Seq(Range(Options(c)))
    BY <2>2, StagesComplete, Zenon DEF Shares
  <2>6. SimOpts(c, P) \o <<>> = SimOpts(c, P)
    BY <2>5
  <2> QED
    BY <2>3, <2>4, <2>6, Zenon
<1>4. /\ params["RV32E"] = AsInt(c["RV32E"]) /\ params["RV32M"] = c["RV32M"] /\ params["RV32B"] = c["RV32B"]
  <2>1. ASSUME NEW i \in 1..18
        PROVE  params[known_fields[i][1]] =
                 IF known_fields[i][2] = "str" THEN c[known_fields[i][1]] ELSE AsInt(c[known_fields[i][1]])
    <3>1. known_fields[i][1] \in known_keys
      BY Fields DEF known_keys
    <3>2. (CHOOSE o \in Range(opts) : o.fld = known_fields[i][1]) = Options(c)[i]
      BY <1>3, OptionOf, Zenon
    <3> QED
      BY <3>1, <3>2, OptionsListed, Zenon
  <2> HIDE DEF params, c
  <2>2. 1 \in 1..18 /\ 2 \in 1..18 /\ 3 \in 1..18
    OBVIOUS
  <2> QED
    BY <2>1, <2>2, Fields
<1>5. c["RV32M"] \in YamlValue /\ c["RV32B"] \in YamlValue /\ c["RV32B"][1] = "str" /\ c["RV32B"][2] \in Int
  <2>1. DOMAIN c = known_keys
    BY <1>2 DEF WellFormed
  <2>2. "RV32M" \in known_keys /\ "RV32B" \in known_keys
    BY Fields DEF known_keys
  <2>3. Typed("str", c["RV32B"])
    BY <1>2, Fields DEF WellFormed
  <2>4. name \in DOMAIN file
    BY <1>2 DEF WellFormed
  <2>5. c["RV32M"] \in YamlValue /\ c["RV32B"] \in YamlValue
    BY <1>1, <1>2, <2>1, <2>2, <2>4
  <2> QED
    BY <2>3, <2>5 DEF YamlValue, Typed
<1> DEFINE b == c["RV32B"]
<1>6. b = <<"str", b[2]>>
  BY <1>5 DEF YamlValue
<1>7. /\ DOMAIN bitmanip_mapping = {<<"str", 0>>, <<"str", 1>>, <<"str", 2>>, <<"str", 3>>}
      /\ b \in DOMAIN bitmanip_mapping <=> b[2] \in 0..3
  <2>1. DOMAIN bitmanip_mapping = {<<"str", 0>>, <<"str", 1>>, <<"str", 2>>, <<"str", 3>>}
    BY DEF bitmanip_mapping, RV32BNone, RV32BBalanced, RV32BOTEarlGrey, RV32BFull
  <2>2. b[2] \in 0..3 <=> b[2] = 0 \/ b[2] = 1 \/ b[2] = 2 \/ b[2] = 3
    BY <1>5
  <2> HIDE DEF b
  <2> QED
    BY <1>6, <2>1, <2>2
<1>8. Raised(isas) <=> b \notin DOMAIN bitmanip_mapping
  BY DEF get_isas_for_config, Raised, Raise, Return
<1>9. ASSUME ~Raised(isas)
      PROVE  /\ Value(isas).iss = get_isa_string(params)
             /\ Value(isas).toolchain[3] <=> Value(isas).iss[3] # <<>>
  <2>1. /\ Value(isas).iss = <<c["RV32E"][2] # 0, c["RV32M"] # RV32MNone, bitmanip_mapping[b]>>
        /\ Value(isas).toolchain = <<c["RV32E"][2] # 0, c["RV32M"] # RV32MNone, b # RV32BNone>>
    BY <1>8, <1>9 DEF get_isas_for_config, Return, Value
  <2>2. params["RV32E"][2] = c["RV32E"][2]
    <3> HIDE DEF params, c
    <3> QED
      BY <1>4 DEF AsInt
  <2>3. b \in {RV32BNone, RV32BBalanced, RV32BOTEarlGrey, RV32BFull}
    BY <1>8, <1>9 DEF bitmanip_mapping
  <2> DEFINE Named(v) ==
        CASE v = RV32BNone -> <<>>
          [] v = RV32BBalanced -> <<"Zba", "Zbb", "Zbs", "XZbf", "XZbt">>
          [] v = RV32BOTEarlGrey -> <<"Zba", "Zbb", "Zbc", "Zbs", "XZbf", "XZbp", "XZbr", "XZbt">>
          [] v = RV32BFull -> <<"Zba", "Zbb", "Zbc", "Zbs", "XZbe", "XZbf", "XZbp", "XZbr", "XZbt">>
  <2>4. bitmanip_mapping[b] = Named(b)
    BY <2>3 DEF bitmanip_mapping
  <2>5. get_isa_string(params) = <<c["RV32E"][2] # 0, c["RV32M"] # RV32MNone, Named(b)>>
    BY <1>4, <2>2, Zenon DEF get_isa_string
  <2>6. Named(b) # <<>> <=> b # RV32BNone
    BY <2>3 DEF RV32BNone, RV32BBalanced, RV32BOTEarlGrey, RV32BFull
  <2> HIDE DEF Named, b, params, c, isas
  <2>7. Value(isas).iss = get_isa_string(params)
    BY <2>1, <2>4, <2>5, Zenon
  <2>8. Value(isas).toolchain[3] <=> b # RV32BNone
    <3>1. \A x, y : \A z \in BOOLEAN : <<x, y, z>>[3] = z
      OBVIOUS
    <3>2. Value(isas).toolchain[3] = (b # RV32BNone)
      BY <2>1, <3>1, Zenon
    <3> QED
      BY <3>2, Zenon
  <2>9. Value(isas).iss[3] = Named(b)
    BY <2>1, <2>4
  <2> QED
    BY <2>6, <2>7, <2>8, <2>9
<1> QED
  BY <1>4, <1>7, <1>8, <1>9

\* One configuration reaches the simulator, the toolchain, the instruction-set simulator
\* and the testbench, for any file of configurations.
THEOREM ConfigReachesAll == Spec => []ConfigConsistent
  BY InputGiven, AllOptionsSet, IsasAgree, PTL DEF ConfigConsistent

-----------------------------------------------------------------------------
\* metadata.py and ibex_cmd.py

\* The entries of a testlist.
Entries(T, P) == [test : T, iterations : Nat, rtl_params : P]

\* A test is in the list once.
Named(list) == \A i, j \in DOMAIN list : list[i].test = list[j].test => i = j

\* An entry whose count is overridden by n, when there is one.
Counted(e, n) == [e EXCEPT !.iterations = IF n = 0 THEN e.iterations ELSE n]

\* A list of the tests W asks for, with their counts.
Chosen(list, W, n) ==
  /\ Named(list)
  /\ \A x : x \in Range(list) <=> \E e \in W : e.iterations > 0 /\ x = Counted(e, n)

\* Overriding an entry's count changes nothing else of it.
LEMMA CountedEntry ==
  ASSUME NEW T, NEW P, NEW e \in Entries(T, P), NEW n \in Nat
  PROVE  /\ Counted(e, n) \in Entries(T, P) /\ Counted(e, n).test = e.test
         /\ Counted(e, n).rtl_params = e.rtl_params
         /\ Counted(e, n).iterations = IF n = 0 THEN e.iterations ELSE n
         /\ n = 0 => Counted(e, n) = e
         /\ n # 0 => Counted(e, n) = [e EXCEPT !.iterations = n]
  BY DEF Counted, Entries

\* A list that keeps some of the tests has each of them once.
LEMMA NamedKept ==
  ASSUME NEW S, NEW list \in Seq(S), Named(list), NEW A
  PROVE  Named(Keep(list, A))
<1>1. IsInjective(list)
  BY DEF Named, IsInjective
<1>2. IsInjective(Keep(list, A)) /\ \A x \in Range(Keep(list, A)) : x \in Range(list)
  BY <1>1, Keeps, KeepDistinct, Zenon
<1> DEFINE kept == Keep(list, A)
<1> HIDE DEF kept
<1>3. \A x, y \in Range(list) : x.test = y.test => x = y
  BY DEF Named, Range
<1>4. \A i \in DOMAIN kept : kept[i] \in Range(list)
  BY <1>2, Zenon DEF Range, kept
<1>5. ASSUME NEW i \in DOMAIN kept, NEW j \in DOMAIN kept, kept[i].test = kept[j].test PROVE i = j
  <2>1. kept[i] = kept[j]
    BY <1>3, <1>4, <1>5
  <2> QED
    BY <1>2, <2>1 DEF IsInjective, kept
<1> QED
  BY <1>5 DEF Named, kept

\* The tests that are matched, their counts overridden, and those of no iterations left out.
LEMMA ListChosen ==
  ASSUME NEW T, NEW P, NEW list \in Seq(Entries(T, P)), Named(list), NEW A, NEW n \in Nat,
         NEW over, over = [i \in DOMAIN Keep(list, A) |->
                             IF Keep(list, A)[i].iterations > 0 THEN Counted(Keep(list, A)[i], n)
                             ELSE Keep(list, A)[i]]
  PROVE  Iterated(over) \in Seq(Entries(T, P)) /\ Chosen(Iterated(over), Range(list) \cap A, n)
<1> DEFINE E == Entries(T, P)
           m == Keep(list, A)
           B == {e \in Range(over) : e.iterations > 0}
<1>1. m \in Seq(E \cap A) /\ (\A x : x \in Range(m) <=> x \in Range(list) /\ x \in A) /\ Named(m)
  BY Keeps, NamedKept
<1>2. m \in Seq(E) /\ DOMAIN m = 1..Len(m) /\ Len(m) \in Nat /\ \A i \in 1..Len(m) : m[i] \in E
  <2> HIDE DEF E, m
  <2>1. E \cap A \subseteq E
    OBVIOUS
  <2> QED
    BY <1>1, <2>1
<1> HIDE DEF m
<1>3. ASSUME NEW i \in 1..Len(m)
      PROVE  /\ over[i] \in E /\ over[i].test = m[i].test
             /\ over[i].iterations > 0 <=> m[i].iterations > 0
             /\ m[i].iterations > 0 => over[i] = Counted(m[i], n)
  <2>1. over[i] = IF m[i].iterations > 0 THEN Counted(m[i], n) ELSE m[i]
    BY <1>2 DEF m
  <2>2. m[i] \in E /\ m[i].iterations \in Nat
    BY <1>2 DEF Entries
  <2> QED
    BY <2>1, <2>2, CountedEntry
<1>4. over \in Seq(E) /\ Named(over)
  <2>1. over = [i \in 1..Len(m) |-> over[i]]
    BY <1>2 DEF m
  <2>2. over \in [1..Len(m) -> E]
    BY <1>3, <2>1
  <2>3. over \in Seq(E)
    <3> HIDE DEF E
    <3> QED
      BY <1>2, <2>2, FunctionIsSeq
  <2>4. Named(over)
    BY <1>1, <1>2, <1>3 DEF Named, m
  <2> QED
    BY <2>3, <2>4
<1>5. /\ Iterated(over) \in Seq(E \cap B) /\ Named(Iterated(over))
      /\ \A x : x \in Range(Iterated(over)) <=> x \in Range(over) /\ x \in B
  <2> HIDE DEF B, E
  <2>1. Iterated(over) = Keep(over, B)
    BY DEF Iterated, B
  <2>2. Named(Keep(over, B))
    BY <1>4, NamedKept
  <2>3. Keep(over, B) \in Seq(E \cap B) /\ \A x : x \in Range(Keep(over, B)) <=> x \in Range(over) /\ x \in B
    BY <1>4, Keeps, Zenon
  <2> QED
    BY <2>1, <2>2, <2>3
<1>6. Iterated(over) \in Seq(E)
  <2> HIDE DEF E, B
  <2> QED
    BY <1>5
<1>7. ASSUME NEW x
      PROVE  x \in Range(Iterated(over)) <=> \E e \in Range(list) \cap A : e.iterations > 0 /\ x = Counted(e, n)
  <2>1. x \in Range(Iterated(over)) <=> \E i \in 1..Len(m) : x = over[i] /\ over[i].iterations > 0
    <3>1. DOMAIN over = 1..Len(m)
      BY <1>2 DEF m
    <3> QED
      BY <1>5, <3>1, Zenon DEF Range
  <2>2. x \in Range(Iterated(over)) <=> \E i \in 1..Len(m) : m[i].iterations > 0 /\ x = Counted(m[i], n)
    BY <1>3, <2>1, Zenon
  <2>3. (\A i \in 1..Len(m) : m[i] \in Range(list) \cap A)
        /\ \A e \in Range(list) \cap A : \E i \in 1..Len(m) : m[i] = e
    BY <1>1, <1>2, Zenon DEF Range, m
  <2> HIDE DEF m
  <2> QED
    BY <2>2, <2>3
<1> QED
  BY <1>5, <1>6, <1>7 DEF Chosen

\* A test of at most one parameter, which the configuration has, is kept if that allows it.
LEMMA FilterKeeps ==
  ASSUME NEW cfg, NEW S, NEW list \in Seq(S),
         \A e \in Range(list) : ~Raised(e.rtl_params) =>
           LET first == Value(e.rtl_params)[1] IN e.rtl_params = Return(<<first>>) /\ first[1] \in DOMAIN cfg
  PROVE  filter_tests_by_config(cfg, list) = Return(Keep(list, {t \in Range(list) : Compatible(cfg, t)}))
<1> DEFINE A == {t \in Range(list) : Compatible(cfg, t)}
<1>1. ASSUME NEW i \in DOMAIN list
      PROVE  Accepted(cfg, list[i]) = Return(IF list[i] \in A THEN <<list[i]>> ELSE <<>>)
  <2> DEFINE t == list[i]
             params == Value(t.rtl_params)
             bad == {k \in DOMAIN params : params[k][1] \notin DOMAIN cfg \/ ~Allows(cfg, params[k])}
             stop == IF bad = {} THEN Len(params) + 1 ELSE Min(bad)
  <2>1. t \in Range(list)
    BY DEF Range
  <2>2. Accepted(cfg, t) = IF Raised(t.rtl_params) THEN Return(<<t>>)
                           ELSE IF bad # {} /\ params[stop][1] \notin DOMAIN cfg THEN Raise
                           ELSE Return([k \in 1..(stop - 1) |-> t])
    BY DEF Accepted
  <2>3. CASE Raised(t.rtl_params)
    BY <2>1, <2>2, <2>3 DEF Compatible
  <2>4. CASE ~Raised(t.rtl_params)
    <3> DEFINE p == params[1]
    <3>1. t.rtl_params = Return(<<p>>) /\ p[1] \in DOMAIN cfg
      BY <2>1, <2>4
    <3> HIDE DEF p
    <3>2. params = <<p>>
      BY <3>1 DEF Return, Value
    <3>3. DOMAIN params = {1} /\ Len(params) = 1 /\ params[1] = p
      <4> HIDE DEF params
      <4> QED
        BY <3>2
    <3>4. Compatible(cfg, t) <=> Allows(cfg, p)
      BY <2>4, <3>1, <3>3 DEF Compatible
    <3>5. CASE Allows(cfg, p)
      <4>1. bad = {}
        <5> HIDE DEF params
        <5> QED
          BY <3>1, <3>3, <3>5
      <4>2. stop = 2
        <5> HIDE DEF bad, params
        <5> QED
          BY <3>3, <4>1
      <4>3. [k \in 1..(stop - 1) |-> t] = <<t>>
        <5> HIDE DEF stop, t
        <5> QED
          BY <4>2
      <4> HIDE DEF bad, stop, t
      <4> QED
        BY <2>1, <2>2, <2>4, <3>4, <3>5, <4>1, <4>3, Zenon DEF t
    <3>6. CASE ~Allows(cfg, p)
      <4>1. bad = {1}
        <5> HIDE DEF params
        <5> QED
          BY <3>1, <3>3, <3>6
      <4>2. stop = 1
        <5> HIDE DEF bad, params
        <5>1. Min({1}) = 1
          BY DEF Min
        <5> QED
          BY <4>1, <5>1
      <4>3. [k \in 1..(stop - 1) |-> t] = <<>>
        <5> HIDE DEF stop, t
        <5> QED
          BY <4>2
      <4>4. params[stop][1] \in DOMAIN cfg
        <5> HIDE DEF params, stop
        <5> QED
          BY <3>1, <3>3, <4>2
      <4> HIDE DEF bad, stop, t, params
      <4> QED
        BY <2>1, <2>2, <2>4, <3>4, <3>6, <4>3, <4>4, Zenon DEF t
    <3> QED
      BY <3>5, <3>6
  <2> QED
    BY <2>3, <2>4
<1> DEFINE kept == [i \in DOMAIN list |-> Accepted(cfg, list[i])]
<1>2. \A i \in DOMAIN list : ~Raised(kept[i]) /\ Value(kept[i]) = IF list[i] \in A THEN <<list[i]>> ELSE <<>>
  <2> HIDE DEF A
  <2> QED
    BY <1>1 DEF Raised, Raise, Return, Value
<1>3. filter_tests_by_config(cfg, list) = Return(FlattenSeq([i \in DOMAIN list |-> Value(kept[i])]))
  BY <1>2 DEF filter_tests_by_config
<1>4. [i \in DOMAIN list |-> Value(kept[i])] = [i \in DOMAIN list |-> IF list[i] \in A THEN <<list[i]>> ELSE <<>>]
  <2> HIDE DEF kept, A
  <2> QED
    BY <1>2
<1> QED
  BY <1>3, <1>4 DEF Keep
\* The count the command line gives, 0 when it gives none.
CountGiven(iterations) == IF Raised(iterations) THEN 0 ELSE Value(iterations)

\* The tests of a list that TEST names.
Asked(list, test, any) == {e \in Range(list) : test \cap (any \cup {e.test}) # {}}

\* The entries of the riscv-dv testlist that TEST asks for, with their counts.
LEMMA RiscvdvChosen ==
  ASSUME NEW T, NEW P, NEW list \in Seq(Entries(T, P)), Named(list), NEW md, CountGiven(md.iterations) \in Nat
  PROVE  LET chosen == process_riscvdv_testlist(md, list) IN
         /\ chosen \in Seq(Entries(T, P))
         /\ Chosen(chosen, Asked(list, md.test, {"all", "all_riscvdv"}), CountGiven(md.iterations))
<1> DEFINE n == CountGiven(md.iterations)
           all == md.test \cap {"all_riscvdv", "all"} # {}
           A == {e \in Range(list) : all \/ e.test \in md.test}
           m == Keep(list, A)
           Override(e) == IF n > 0 /\ e.iterations > 0 THEN [e EXCEPT !.iterations = n] ELSE e
           over == [i \in DOMAIN m |-> Override(m[i])]
<1>1. process_riscvdv_testlist(md, list) = Iterated(over)
  BY DEF process_riscvdv_testlist, process_regression_list, CountGiven
<1>2. Range(list) \cap A = Asked(list, md.test, {"all", "all_riscvdv"})
  BY DEF Asked
<1>3. m \in Seq(Entries(T, P) \cap A)
  BY Keeps
<1>4. \A i \in DOMAIN m : m[i] \in Entries(T, P)
  <2> HIDE DEF m, A
  <2> QED
    BY <1>3
<1> HIDE DEF m, A
<1>5. ASSUME NEW e \in Entries(T, P) PROVE Override(e) = IF e.iterations > 0 THEN Counted(e, n) ELSE e
  <2>1. n \in Nat
    OBVIOUS
  <2> HIDE DEF n
  <2> QED
    BY <2>1, CountedEntry
<1> HIDE DEF Override, n
<1>6. over = [i \in DOMAIN m |-> IF m[i].iterations > 0 THEN Counted(m[i], n) ELSE m[i]]
  BY <1>4, <1>5
<1>7. n \in Nat
  BY DEF n
<1> HIDE DEF over
<1>8. Iterated(over) \in Seq(Entries(T, P)) /\ Chosen(Iterated(over), Range(list) \cap A, n)
  BY <1>6, <1>7, ListChosen DEF m
<1> QED
  BY <1>1, <1>2, <1>8, Zenon DEF n

\* The entries of the directed testlist that TEST asks for, with their counts.
LEMMA DirectedChosen ==
  ASSUME NEW T, NEW P, NEW list \in Seq(Entries(T, P)), Named(list), NEW md, CountGiven(md.iterations) \in Nat,
         \A e \in Range(list) : e.iterations > 0, ~Raised(md.iterations) => Value(md.iterations) # 0
  PROVE  LET chosen == process_directed_testlist(md, list) IN
         /\ chosen \in Seq(Entries(T, P))
         /\ Chosen(chosen, Asked(list, md.test, {"all_directed"}), CountGiven(md.iterations))
<1> DEFINE n == CountGiven(md.iterations)
           A == {e \in Range(list) : md.test \cap {"all_directed", e.test} # {}}
           m == Keep(list, A)
           Override(e) == IF Raised(md.iterations) THEN e ELSE [e EXCEPT !.iterations = Value(md.iterations)]
           over == [i \in DOMAIN m |-> Override(m[i])]
<1>1. process_directed_testlist(md, list) = Iterated(over)
  BY DEF process_directed_testlist
<1>2. Range(list) \cap A = Asked(list, md.test, {"all_directed"})
  <2>1. \A e : {"all_directed", e.test} = {"all_directed"} \cup {e.test}
    OBVIOUS
  <2> QED
    BY <2>1 DEF Asked
<1>3. m \in Seq(Entries(T, P) \cap A)
  BY Keeps
<1>4. \A i \in DOMAIN m : m[i] \in Entries(T, P) /\ m[i].iterations > 0
  <2>1. \A e \in A : e.iterations > 0
    OBVIOUS
  <2> HIDE DEF m, A
  <2> QED
    BY <1>3, <2>1
<1> HIDE DEF m, A
<1>5. ASSUME NEW e \in Entries(T, P), e.iterations > 0
      PROVE  Override(e) = IF e.iterations > 0 THEN Counted(e, n) ELSE e
  <2>1. n \in Nat
    OBVIOUS
  <2>2. (Raised(md.iterations) => n = 0) /\ (~Raised(md.iterations) => n = Value(md.iterations) /\ n # 0)
    BY DEF CountGiven
  <2> HIDE DEF n
  <2> QED
    BY <1>5, <2>1, <2>2, CountedEntry
<1> HIDE DEF Override, n
<1>6. over = [i \in DOMAIN m |-> IF m[i].iterations > 0 THEN Counted(m[i], n) ELSE m[i]]
  BY <1>4, <1>5
<1>7. n \in Nat
  BY DEF n
<1> HIDE DEF over
<1>8. Iterated(over) \in Seq(Entries(T, P)) /\ Chosen(Iterated(over), Range(list) \cap A, n)
  BY <1>6, <1>7, ListChosen, Zenon DEF m
<1> QED
  BY <1>1, <1>2, <1>8, Zenon DEF n

\* The filter leaves the chosen tests that the core can run.
LEMMA FilterChosen ==
  ASSUME NEW T, NEW P, NEW list \in Seq(Entries(T, P)), NEW n \in Nat, NEW W \in SUBSET Entries(T, P),
         Chosen(list, W, n), NEW cfg,
         \A e \in W : ~Raised(e.rtl_params) =>
           LET first == Value(e.rtl_params)[1] IN e.rtl_params = Return(<<first>>) /\ first[1] \in DOMAIN cfg
  PROVE  LET kept == filter_tests_by_config(cfg, list) IN
         /\ ~Raised(kept) /\ Value(kept) \in Seq(Entries(T, P))
         /\ Chosen(Value(kept), {e \in W : Compatible(cfg, e)}, n)
         /\ list = <<>> => Value(kept) = <<>>
<1> DEFINE E == Entries(T, P)
           A == {t \in Range(list) : Compatible(cfg, t)}
           kept == Keep(list, A)
<1>1. \A e \in W : Counted(e, n).rtl_params = e.rtl_params
  BY CountedEntry
<1>2. \A x \in Range(list) : \E e \in W : x.rtl_params = e.rtl_params
  BY <1>1 DEF Chosen
<1>3. filter_tests_by_config(cfg, list) = Return(kept)
  <2>1. \A x \in Range(list) : ~Raised(x.rtl_params) =>
           LET first == Value(x.rtl_params)[1] IN x.rtl_params = Return(<<first>>) /\ first[1] \in DOMAIN cfg
    BY <1>2
  <2> QED
    BY <2>1, FilterKeeps
<1>4. kept \in Seq(E \cap A) /\ \A x : x \in Range(kept) <=> x \in Range(list) /\ x \in A
  BY Keeps
<1>5. Named(kept)
  BY NamedKept DEF Chosen
<1>6. \A e \in W : Compatible(cfg, Counted(e, n)) <=> Compatible(cfg, e)
  BY <1>1 DEF Compatible
<1> HIDE DEF kept
<1>7. Chosen(kept, {e \in W : Compatible(cfg, e)}, n)
  BY <1>4, <1>5, <1>6 DEF Chosen
<1>8. kept \in Seq(E)
  <2> HIDE DEF E, A
  <2> QED
    BY <1>4
<1>9. list = <<>> => kept = <<>>
  <2> HIDE DEF E
  <2>1. list = <<>> => Range(list) = {}
    BY EmptyRange, Zenon
  <2>2. list = <<>> => Range(kept) = {}
    BY <1>4, <2>1
  <2> QED
    BY <1>8, <2>2, EmptyRange
<1>10. ~Raised(Return(kept)) /\ Value(Return(kept)) = kept
  BY DEF Raised, Raise, Return, Value
<1> QED
  BY <1>3, <1>7, <1>8, <1>9, <1>10
\* A test that is created for an entry of a list.
Created(x, list, seed, type) ==
  \E e \in Range(list) : \E n \in seed..(seed + e.iterations - 1) : x = <<e.test, n, type>>

\* The entries of a list, as <<test, count, type>>.
Counts(list, type) == [i \in DOMAIN list |-> <<list[i].test, list[i].iterations, type>>]

\* A count is listed for each entry, in the order of the list.
LEMMA CountsListed ==
  ASSUME NEW T, NEW P, NEW list \in Seq(Entries(T, P)), Named(list), NEW type
  PROVE  LET c == Counts(list, type) IN
         /\ c \in Seq(T \X Nat \X {type}) /\ Len(c) = Len(list) /\ IsInjective(c)
         /\ \A y, z \in Range(c) : y[1] = z[1] => y = z
         /\ \A y : y \in Range(c) <=> \E e \in Range(list) : y = <<e.test, e.iterations, type>>
<1> DEFINE c == Counts(list, type)
           C == T \X Nat \X {type}
<1>1. Len(list) \in Nat /\ DOMAIN list = 1..Len(list) /\ \A i \in 1..Len(list) : list[i] \in Entries(T, P)
  OBVIOUS
<1>2. \A i \in 1..Len(list) : list[i].test \in T /\ list[i].iterations \in Nat
  BY <1>1 DEF Entries
<1>3. /\ DOMAIN c = 1..Len(list)
      /\ \A i \in 1..Len(list) : /\ c[i] = <<list[i].test, list[i].iterations, type>>
                                 /\ c[i][1] = list[i].test /\ c[i] \in C
      /\ c \in [1..Len(list) -> C]
  BY <1>1, <1>2 DEF Counts
<1>4. c \in Seq(C) /\ Len(c) = Len(list)
  <2> HIDE DEF C, c
  <2> QED
    BY <1>1, <1>3, FunctionIsSeq
<1> HIDE DEF c
<1>5. \A i, j \in 1..Len(list) : c[i][1] = c[j][1] => i = j
  BY <1>1, <1>3 DEF Named
<1>6. IsInjective(c)
  BY <1>3, <1>5 DEF IsInjective
<1>7. \A y, z \in Range(c) : y[1] = z[1] => y = z
  BY <1>3, <1>5 DEF Range
<1>8. \A y : y \in Range(c) <=> \E e \in Range(list) : y = <<e.test, e.iterations, type>>
  BY <1>1, <1>3 DEF Range
<1> QED
  BY <1>4, <1>6, <1>7, <1>8 DEF c

\* A test with its count, or one of its seeds, and its type.
Numbered(N) == N \X Nat \X {"RISCVDV", "DIRECTED"}

\* A test of a type has one count.
Apart(counts) == \A y, z \in Range(counts) : y[1] = z[1] /\ y[3] = z[3] => y = z

\* The tests created are the seeds of the counts.
Seeds(tds, seed, counts) ==
  \A x : x \in Range(tds) <=>
    \E y \in Range(counts) : \E n \in seed..(seed + y[2] - 1) : x = <<y[1], n, y[3]>>

\* Every seed of every entry is created, once.
LEMMA CreatesEach ==
  ASSUME NEW N, NEW counts \in Seq(Numbered(N)), IsInjective(counts), Apart(counts), NEW seed \in Nat
  PROVE  /\ tds_list(seed, counts) \in Seq(Numbered(N)) /\ IsInjective(tds_list(seed, counts))
         /\ Seeds(tds_list(seed, counts), seed, counts)
<1> DEFINE S == Numbered(N)
           L == Len(counts)
           One(y) == [k \in 1..y[2] |-> <<y[1], seed + k - 1, y[3]>>]
           ss == [i \in DOMAIN counts |-> One(counts[i])]
<1>1. L \in Nat /\ DOMAIN counts = 1..L /\ \A i \in 1..L : counts[i] \in S
  OBVIOUS
<1>2. ASSUME NEW y \in S
      PROVE  /\ One(y) \in Seq(S) /\ IsInjective(One(y))
             /\ \A x : x \in Range(One(y)) <=> \E n \in seed..(seed + y[2] - 1) : x = <<y[1], n, y[3]>>
             /\ \A x \in Range(One(y)) : x[1] = y[1] /\ x[3] = y[3]
  <2> DEFINE l == One(y)
  <2>1. y[1] \in N /\ y[2] \in Nat /\ y[3] \in {"RISCVDV", "DIRECTED"}
    BY DEF Numbered
  <2>2. /\ DOMAIN l = 1..y[2] /\ l \in [1..y[2] -> S]
        /\ \A k \in 1..y[2] : l[k] = <<y[1], seed + k - 1, y[3]>> /\ seed + k - 1 \in seed..(seed + y[2] - 1)
    BY <2>1 DEF Numbered
  <2>3. l \in Seq(S)
    <3> HIDE DEF S, l
    <3> QED
      BY <2>1, <2>2, FunctionIsSeq
  <2> HIDE DEF l
  <2>4. \A k \in 1..y[2] : l[k][2] = seed + k - 1 /\ l[k][1] = y[1] /\ l[k][3] = y[3]
    BY <2>2
  <2>5. IsInjective(l)
    BY <2>1, <2>2, <2>4 DEF IsInjective
  <2>6. ASSUME NEW n \in seed..(seed + y[2] - 1)
        PROVE  n - seed + 1 \in 1..y[2] /\ seed + (n - seed + 1) - 1 = n
    BY <2>1
  <2>7. \A x : x \in Range(l) <=> \E n \in seed..(seed + y[2] - 1) : x = <<y[1], n, y[3]>>
    <3>1. ASSUME NEW x \in Range(l) PROVE \E n \in seed..(seed + y[2] - 1) : x = <<y[1], n, y[3]>>
      <4>1. PICK k \in 1..y[2] : x = l[k]
        BY <2>2 DEF Range
      <4> QED
        BY <2>2, <4>1
    <3>2. ASSUME NEW n \in seed..(seed + y[2] - 1) PROVE <<y[1], n, y[3]>> \in Range(l)
      <4>1. l[n - seed + 1] = <<y[1], n, y[3]>> /\ n - seed + 1 \in DOMAIN l
        BY <2>2, <2>6
      <4> QED
        BY <4>1 DEF Range
    <3> QED
      BY <3>1, <3>2
  <2>8. \A x \in Range(l) : x[1] = y[1] /\ x[3] = y[3]
    BY <2>2, <2>4 DEF Range
  <2> QED
    BY <2>3, <2>5, <2>7, <2>8 DEF l
<1>3. tds_list(seed, counts) = FlattenSeq(ss)
  BY DEF tds_list
<1> HIDE DEF One
<1>4. ss \in [1..L -> Seq(S)] /\ \A i \in 1..L : ss[i] = One(counts[i])
  BY <1>1, <1>2
<1> HIDE DEF S, ss, L
<1>5. ss \in Seq(Seq(S)) /\ Len(ss) = L
  BY <1>1, <1>4, FunctionIsSeq
<1>6. FlattenSeq(ss) \in Seq(S)
  BY <1>5, FlattenTyped
<1>7. IsInjective(FlattenSeq(ss))
  <2>1. \A i \in 1..L : IsInjective(ss[i])
    BY <1>1, <1>2, <1>4
  <2>2. ASSUME NEW i \in 1..L, NEW j \in 1..L, NEW x \in Range(ss[i]), x \in Range(ss[j]) PROVE i = j
    <3>1. x[1] = counts[i][1] /\ x[3] = counts[i][3] /\ x[1] = counts[j][1] /\ x[3] = counts[j][3]
      BY <1>1, <1>2, <1>4, <2>2
    <3>2. counts[i] \in Range(counts) /\ counts[j] \in Range(counts)
      BY <1>1 DEF Range
    <3>3. counts[i] = counts[j]
      BY <3>1, <3>2, Zenon DEF Apart
    <3> QED
      BY <1>1, <3>3 DEF IsInjective
  <2> QED
    BY <1>5, <2>1, <2>2, FlattenDistinct, Zenon
<1>8. ASSUME NEW x
      PROVE  x \in Range(FlattenSeq(ss)) <=>
               \E y \in Range(counts) : \E n \in seed..(seed + y[2] - 1) : x = <<y[1], n, y[3]>>
  <2>1. x \in Range(FlattenSeq(ss)) <=> \E i \in 1..L : x \in Range(ss[i])
    BY <1>5, FlattenRange, Zenon
  <2>2. x \in Range(FlattenSeq(ss)) <=>
          \E i \in 1..L : \E n \in seed..(seed + counts[i][2] - 1) : x = <<counts[i][1], n, counts[i][3]>>
    BY <1>1, <1>2, <1>4, <2>1
  <2>3. (\A i \in 1..L : counts[i] \in Range(counts)) /\ \A y \in Range(counts) : \E i \in 1..L : counts[i] = y
    BY <1>1 DEF Range
  <2> QED
    BY <2>2, <2>3
<1> QED
  BY <1>3, <1>6, <1>7, <1>8 DEF S, Seeds

\* The tests that are created are those of the two lists.
CreatesAll(tds, counts, R, D, seed) ==
  /\ IsInjective(tds) /\ \E S : tds \in Seq(S)
  /\ \A x : x \in Range(tds) <=> Created(x, R, seed, "RISCVDV") \/ Created(x, D, seed, "DIRECTED")
  /\ counts = <<>> <=> R = <<>> /\ D = <<>>

\* The tests created of both testlists: each seed of each entry, once.
LEMMA CreatesBoth ==
  ASSUME NEW T, NEW P, NEW R \in Seq(Entries(T, P)), Named(R),
         NEW U, NEW Q, NEW D \in Seq(Entries(U, Q)), Named(D), NEW seed \in Nat
  PROVE  LET counts == Counts(R, "RISCVDV") \o Counts(D, "DIRECTED")
         IN  CreatesAll(tds_list(seed, counts), counts, R, D, seed)
<1> DEFINE r == Counts(R, "RISCVDV")
           d == Counts(D, "DIRECTED")
           N == T \cup U
           C == Numbered(N)
           counts == r \o d
           tds == tds_list(seed, counts)
<1>1. /\ r \in Seq(T \X Nat \X {"RISCVDV"}) /\ Len(r) = Len(R) /\ IsInjective(r)
      /\ \A y, z \in Range(r) : y[1] = z[1] => y = z
      /\ \A y : y \in Range(r) <=> \E e \in Range(R) : y = <<e.test, e.iterations, "RISCVDV">>
  BY CountsListed
<1>2. /\ d \in Seq(U \X Nat \X {"DIRECTED"}) /\ Len(d) = Len(D) /\ IsInjective(d)
      /\ \A y, z \in Range(d) : y[1] = z[1] => y = z
      /\ \A y : y \in Range(d) <=> \E e \in Range(D) : y = <<e.test, e.iterations, "DIRECTED">>
  BY CountsListed
<1> HIDE DEF r, d
<1>3. r \in Seq(C) /\ d \in Seq(C)
  <2>1. T \X Nat \X {"RISCVDV"} \subseteq C /\ U \X Nat \X {"DIRECTED"} \subseteq C
    BY DEF Numbered
  <2> HIDE DEF C
  <2> QED
    BY <1>1, <1>2, <2>1
<1>4. (\A y \in Range(r) : y[3] = "RISCVDV") /\ (\A y \in Range(d) : y[3] = "DIRECTED")
  BY <1>1, <1>2
<1>5. IsInjective(counts)
  <2>1. \A y \in Range(r) : y \notin Range(d)
    BY <1>4
  <2> HIDE DEF C
  <2> QED
    BY <1>1, <1>2, <1>3, <2>1, DistinctJoin
<1>6. \A y : y \in Range(counts) <=> y \in Range(r) \/ y \in Range(d)
  <2> HIDE DEF C
  <2> QED
    BY <1>3, RangeJoin
<1>7. counts \in Seq(C)
  <2> HIDE DEF C
  <2> QED
    BY <1>3
<1>8. Apart(counts)
  BY <1>1, <1>2, <1>4, <1>6 DEF Apart
<1> HIDE DEF counts
<1>9. tds \in Seq(C) /\ IsInjective(tds) /\ Seeds(tds, seed, counts)
  <2> HIDE DEF N
  <2> QED
    BY <1>5, <1>7, <1>8, CreatesEach, Zenon
<1> HIDE DEF tds
<1>10. ASSUME NEW x
       PROVE  x \in Range(tds) <=> Created(x, R, seed, "RISCVDV") \/ Created(x, D, seed, "DIRECTED")
  <2>1. (\E y \in Range(r) : \E n \in seed..(seed + y[2] - 1) : x = <<y[1], n, y[3]>>)
          <=> Created(x, R, seed, "RISCVDV")
    <3>1. ASSUME NEW e \in Range(R)
          PROVE  LET y == <<e.test, e.iterations, "RISCVDV">> IN
                 y \in Range(r) /\ y[1] = e.test /\ y[2] = e.iterations /\ y[3] = "RISCVDV"
      BY <1>1
    <3>2. ASSUME NEW y \in Range(r)
          PROVE  \E e \in Range(R) : y[1] = e.test /\ y[2] = e.iterations /\ y[3] = "RISCVDV"
      <4>1. PICK e \in Range(R) : y = <<e.test, e.iterations, "RISCVDV">>
        BY <1>1
      <4> QED
        BY <4>1
    <3>3. ASSUME NEW y \in Range(r), NEW n \in seed..(seed + y[2] - 1), x = <<y[1], n, y[3]>>
          PROVE  Created(x, R, seed, "RISCVDV")
      BY <3>2, <3>3 DEF Created
    <3>4. ASSUME Created(x, R, seed, "RISCVDV")
          PROVE  \E y \in Range(r) : \E n \in seed..(seed + y[2] - 1) : x = <<y[1], n, y[3]>>
      <4>1. PICK e \in Range(R) : \E n \in seed..(seed + e.iterations - 1) : x = <<e.test, n, "RISCVDV">>
        BY <3>4 DEF Created
      <4> DEFINE y == <<e.test, e.iterations, "RISCVDV">>
      <4>2. y \in Range(r) /\ y[1] = e.test /\ y[2] = e.iterations /\ y[3] = "RISCVDV"
        BY <3>1
      <4> HIDE DEF y
      <4> QED
        BY <4>1, <4>2
    <3> QED
      BY <3>3, <3>4
  <2>2. (\E y \in Range(d) : \E n \in seed..(seed + y[2] - 1) : x = <<y[1], n, y[3]>>)
          <=> Created(x, D, seed, "DIRECTED")
    <3>1. ASSUME NEW e \in Range(D)
          PROVE  LET y == <<e.test, e.iterations, "DIRECTED">> IN
                 y \in Range(d) /\ y[1] = e.test /\ y[2] = e.iterations /\ y[3] = "DIRECTED"
      BY <1>2
    <3>2. ASSUME NEW y \in Range(d)
          PROVE  \E e \in Range(D) : y[1] = e.test /\ y[2] = e.iterations /\ y[3] = "DIRECTED"
      <4>1. PICK e \in Range(D) : y = <<e.test, e.iterations, "DIRECTED">>
        BY <1>2
      <4> QED
        BY <4>1
    <3>3. ASSUME NEW y \in Range(d), NEW n \in seed..(seed + y[2] - 1), x = <<y[1], n, y[3]>>
          PROVE  Created(x, D, seed, "DIRECTED")
      BY <3>2, <3>3 DEF Created
    <3>4. ASSUME Created(x, D, seed, "DIRECTED")
          PROVE  \E y \in Range(d) : \E n \in seed..(seed + y[2] - 1) : x = <<y[1], n, y[3]>>
      <4>1. PICK e \in Range(D) : \E n \in seed..(seed + e.iterations - 1) : x = <<e.test, n, "DIRECTED">>
        BY <3>4 DEF Created
      <4> DEFINE y == <<e.test, e.iterations, "DIRECTED">>
      <4>2. y \in Range(d) /\ y[1] = e.test /\ y[2] = e.iterations /\ y[3] = "DIRECTED"
        BY <3>1
      <4> HIDE DEF y
      <4> QED
        BY <4>1, <4>2
    <3> QED
      BY <3>3, <3>4
  <2> QED
    BY <1>6, <1>9, <2>1, <2>2 DEF Seeds
<1>11. counts = <<>> <=> R = <<>> /\ D = <<>>
  <2>1. Len(counts) = Len(r) + Len(d) /\ Len(r) \in Nat /\ Len(d) \in Nat /\ Len(R) \in Nat /\ Len(D) \in Nat
    <3> HIDE DEF C
    <3> QED
      BY <1>3 DEF counts
  <2>2. (counts = <<>> <=> Len(counts) = 0) /\ (R = <<>> <=> Len(R) = 0) /\ (D = <<>> <=> Len(D) = 0)
    <3> HIDE DEF C
    <3> QED
      BY <1>7
  <2> QED
    BY <1>1, <1>2, <2>1, <2>2
<1> QED
  BY <1>9, <1>10, <1>11 DEF tds, counts, r, d, CreatesAll
\* What is wanted of one of the two lists, from a first seed and with a given count.
WantedOf(list, test, cfg, any, first, n, type) ==
  UNION {{<<list[i].test, s, type>> : s \in first..(first + (IF n = 0 THEN list[i].iterations ELSE n) - 1)} :
           i \in {j \in DOMAIN list : /\ list[j].iterations > 0
                                      /\ Compatible(cfg, list[j])
                                      /\ test \cap (any \cup {list[j].test}) # {}}}

\* The list has what is wanted.
Yields(chosen, wanted, first, type) ==
  /\ \A x : x \in wanted <=> Created(x, chosen, first, type)
  /\ chosen = <<>> <=> wanted = {}

\* It is what is created of that list.
LEMMA CreatesWanted ==
  ASSUME NEW T, NEW P, NEW list \in Seq(Entries(T, P)), NEW test, NEW cfg, NEW any, NEW first \in Nat,
         NEW n \in Nat, NEW type, NEW chosen \in Seq(Entries(T, P)),
         Chosen(chosen, {e \in Asked(list, test, any) : Compatible(cfg, e)}, n)
  PROVE  Yields(chosen, WantedOf(list, test, cfg, any, first, n, type), first, type)
<1> DEFINE W == {e \in Asked(list, test, any) : Compatible(cfg, e) /\ e.iterations > 0}
           Runs(e) == IF n = 0 THEN e.iterations ELSE n
           wanted == WantedOf(list, test, cfg, any, first, n, type)
<1>1. W \subseteq Entries(T, P)
  <2>1. Range(list) \subseteq Entries(T, P)
    BY DEF Range
  <2> QED
    BY <2>1 DEF Asked
<1>2. ASSUME NEW e \in W PROVE Runs(e) \in Nat /\ Runs(e) > 0 /\ e.test = Counted(e, n).test
                               /\ Counted(e, n).iterations = Runs(e)
  <2>1. e \in Entries(T, P) /\ e.iterations \in Nat /\ e.iterations > 0
    BY <1>1 DEF Entries
  <2> QED
    BY <2>1, CountedEntry
<1>3. \A x : x \in Range(chosen) <=> \E e \in W : x = Counted(e, n)
  BY DEF Chosen
<1>4. ASSUME NEW x
      PROVE  x \in wanted <=> \E e \in W : \E s \in first..(first + Runs(e) - 1) : x = <<e.test, s, type>>
  <2>1. x \in wanted <=> \E i \in DOMAIN list :
          /\ list[i].iterations > 0 /\ Compatible(cfg, list[i]) /\ test \cap (any \cup {list[i].test}) # {}
          /\ \E s \in first..(first + Runs(list[i]) - 1) : x = <<list[i].test, s, type>>
    <3> DEFINE Made(i) == {<<list[i].test, s, type>> : s \in first..(first + Runs(list[i]) - 1)}
               Is(i) == list[i].iterations > 0 /\ Compatible(cfg, list[i]) /\ test \cap (any \cup {list[i].test}) # {}
    <3>1. wanted = UNION {Made(i) : i \in {j \in DOMAIN list : Is(j)}}
      BY Zenon DEF WantedOf
    <3>2. \A i : x \in Made(i) <=> \E s \in first..(first + Runs(list[i]) - 1) : x = <<list[i].test, s, type>>
      OBVIOUS
    <3> HIDE DEF Made, Is, wanted
    <3>3. x \in wanted <=> \E i \in DOMAIN list : Is(i) /\ x \in Made(i)
      BY <3>1
    <3> QED
      BY <3>2, <3>3 DEF Is
  <2>2. \A e : e \in W <=> \E i \in DOMAIN list :
          /\ e = list[i] /\ list[i].iterations > 0 /\ Compatible(cfg, list[i])
          /\ test \cap (any \cup {list[i].test}) # {}
    BY DEF Asked, Range
  <2> HIDE DEF W, Runs, wanted
  <2> QED
    BY <2>1, <2>2
<1>5. ASSUME NEW x
      PROVE  Created(x, chosen, first, type)
               <=> \E e \in W : \E s \in first..(first + Runs(e) - 1) : x = <<e.test, s, type>>
  <2> HIDE DEF W, Runs
  <2>1. ASSUME Created(x, chosen, first, type)
        PROVE  \E e \in W : \E s \in first..(first + Runs(e) - 1) : x = <<e.test, s, type>>
    <3>1. PICK y \in Range(chosen) : \E s \in first..(first + y.iterations - 1) : x = <<y.test, s, type>>
      BY <2>1 DEF Created
    <3>2. PICK e \in W : y = Counted(e, n)
      BY <1>3
    <3> QED
      BY <1>2, <3>1, <3>2, Zenon
  <2>2. ASSUME NEW e \in W, NEW s \in first..(first + Runs(e) - 1), x = <<e.test, s, type>>
        PROVE  Created(x, chosen, first, type)
    <3>1. Counted(e, n) \in Range(chosen)
      BY <1>3
    <3> QED
      BY <1>2, <2>2, <3>1 DEF Created
  <2> QED
    BY <2>1, <2>2
<1>6. chosen = <<>> <=> wanted = {}
  <2>1. chosen = <<>> <=> Range(chosen) = {}
    BY EmptyRange
  <2>2. Range(chosen) = {} <=> W = {}
    BY <1>3, Zenon
  <2> HIDE DEF W, Runs, wanted
  <2>3. ASSUME NEW e \in W PROVE first \in first..(first + Runs(e) - 1)
    BY <1>2
  <2> QED
    BY <1>4, <2>1, <2>2, <2>3, Zenon
<1> QED
  BY <1>4, <1>5, <1>6 DEF Yields

\* The number the command line gives.
LEMMA NumberGiven ==
  ASSUME NEW arg, Number(arg), arg # Return(Raise), ~Raised(arg)
  PROVE  arg = Return(Return(Value(Value(arg)))) /\ Value(Value(arg)) \in Nat /\ ~Raised(Value(arg))
<1>1. arg \notin {Raise, Return(Raise)}
  BY DEF Raised
<1> DEFINE n == Value(Value(arg))
<1>2. arg = Return(Return(n)) /\ n \in Nat
  BY <1>1 DEF Number
<1> HIDE DEF n
<1>3. Value(arg) = <<n>>
  BY <1>2 DEF Return, Value
<1> QED
  BY <1>2, <1>3 DEF n, Raised, Raise

\* metadata.py: the tests created are those wanted.
LEMMA SelectsExactly == Given => SelectionExact
<1> SUFFICES ASSUME Given, in.kind = "regression",
                    "all" \in in.of.args.test => "all_directed" \in in.of.args.test
             PROVE  SelectionExact
  BY DEF SelectionExact
<1> DEFINE args == in.of.args
           cfg == in.of.cfg
           R == in.of.riscvdv
           D == in.of.directed
           md == arg_list_initializer(args)
           v == Value(md)
           tds == create_metadata(args, cfg, R, D)
           wanted == Wanted(args, cfg, R, D)
           refused == args.seed = Return(Raise) \/ args.iterations = Return(Return(0))
<1>1. /\ Testlist(R, cfg) /\ Testlist(D, cfg) /\ \A e \in Range(D) : e.iterations > 0
      /\ Number(args.seed) /\ Number(args.iterations) /\ cfg["RV32B"] \in DOMAIN bitmanip_mapping
  <2>1. Regression(in.of)
    BY InputAssumption DEF Given
  <2> QED
    BY <2>1 DEF Regression
<1>4. "all" \in args.test => "all_directed" \in args.test
  OBVIOUS
<1> HIDE DEF args, cfg, R, D
<1>2. ASSUME refused PROVE Raised(tds)
  <2>1. CASE args.seed = Return(Raise)
    BY <2>1 DEF create_metadata, arg_list_initializer, Raised
  <2>2. CASE args.seed # Return(Raise)
    <3>1. args.iterations = Return(Return(0))
      BY <1>2, <2>2
    <3>2. ~Raised(md) /\ v.iterations = Value(args.iterations)
      <4>1. ~Raised(args.iterations)
        BY <3>1 DEF Raised, Raise, Return
      <4> QED
        BY <2>2, <4>1 DEF arg_list_initializer, Raised, Raise, Return, Value
    <3>3. v.iterations = Return(0)
      BY <3>1, <3>2 DEF Return, Value
    <3>4. BadArguments(v)
      <4> HIDE DEF v
      <4> QED
        BY <3>3 DEF BadArguments, Raised, Raise, Return, Value
    <3> QED
      BY <3>2, <3>4 DEF create_metadata, Raised
  <2> QED
    BY <2>1, <2>2
<1>3. ASSUME ~refused
      PROVE  /\ Raised(tds) <=> wanted = {}
             /\ ~Raised(tds) => Range(Value(tds)) = wanted /\ Len(Value(tds)) = Cardinality(wanted)
  <2> DEFINE first == IF Raised(args.seed) THEN 1 ELSE Value(Value(args.seed))
             n == IF Raised(args.iterations) \/ args.iterations = Return(Raise) THEN 0
                  ELSE Value(Value(args.iterations))
  <2>1. /\ ~Raised(md) /\ v.test = args.test /\ v.seed = first
        /\ v.iterations = IF Raised(args.iterations) THEN Raise ELSE Value(args.iterations)
    BY <1>3 DEF arg_list_initializer, Raised, Raise, Return, Value
  <2>2. first \in Nat
    BY <1>1, <1>3, NumberGiven
  <2>3. n \in Nat /\ CountGiven(v.iterations) = n /\ (~Raised(v.iterations) => Value(v.iterations) = n /\ n # 0)
    <3>1. CASE Raised(args.iterations)
      BY <2>1, <3>1 DEF CountGiven, Raised
    <3>2. CASE args.iterations = Return(Raise)
      <4>1. v.iterations = Raise
        BY <2>1, <3>2 DEF Return, Value, Raised, Raise
      <4> QED
        BY <3>2, <4>1 DEF CountGiven, Raised
    <3>3. CASE ~Raised(args.iterations) /\ args.iterations # Return(Raise)
      <4>1. /\ args.iterations = Return(Return(Value(Value(args.iterations))))
            /\ Value(Value(args.iterations)) \in Nat /\ ~Raised(Value(args.iterations))
        BY <1>1, <3>3, NumberGiven
      <4>2. n = Value(Value(args.iterations)) /\ v.iterations = Value(args.iterations)
        BY <2>1, <3>3
      <4>3. n # 0
        BY <1>3, <4>1, <4>2
      <4> HIDE DEF n, v
      <4> QED
        BY <4>1, <4>2, <4>3 DEF CountGiven
    <3> QED
      BY <3>1, <3>2, <3>3
  <2>4. ~BadArguments(v)
    <3> HIDE DEF n, v
    <3> QED
      BY <2>3 DEF BadArguments
  <2>5. ~Raised(get_isas_for_config(cfg))
    BY <1>1 DEF get_isas_for_config, Raised, Raise, Return
  <2> DEFINE T == {e.test : e \in Range(R)}
             P == {e.rtl_params : e \in Range(R)}
             U == {e.test : e \in Range(D)}
             Q == {e.rtl_params : e \in Range(D)}
             rm == process_riscvdv_testlist(v, R)
             dm == process_directed_testlist(v, D)
             rf == filter_tests_by_config(cfg, rm)
             df == filter_tests_by_config(cfg, dm)
             A == Asked(R, args.test, {"all", "all_riscvdv"})
             B == Asked(D, args.test, {"all_directed"})
  <2>6. R \in Seq(Entries(T, P)) /\ Named(R) /\ D \in Seq(Entries(U, Q)) /\ Named(D)
    BY <1>1 DEF Testlist, Entries, Named
  <2>7. A \in SUBSET Entries(T, P) /\ B \in SUBSET Entries(U, Q)
    <3>1. Range(R) \subseteq Entries(T, P) /\ Range(D) \subseteq Entries(U, Q)
      <4> HIDE DEF T, P, U, Q
      <4> QED
        BY <2>6 DEF Range
    <3> QED
      BY <3>1 DEF Asked
  <2>8. \A e \in A \cup B : ~Raised(e.rtl_params) =>
          LET one == Value(e.rtl_params)[1] IN e.rtl_params = Return(<<one>>) /\ one[1] \in DOMAIN cfg
    BY <1>1 DEF Testlist, Asked
  <2> HIDE DEF T, P, U, Q, n, first, v, md, tds, wanted
  <2>9. rm \in Seq(Entries(T, P)) /\ Chosen(rm, A, n)
    BY <2>1, <2>3, <2>6, RiscvdvChosen
  <2>10. dm \in Seq(Entries(U, Q)) /\ Chosen(dm, B, n)
    BY <1>1, <2>1, <2>3, <2>6, DirectedChosen
  <2> HIDE DEF A, B, rm, dm
  <2>11. /\ ~Raised(rf) /\ Value(rf) \in Seq(Entries(T, P)) /\ (rm = <<>> => Value(rf) = <<>>)
         /\ Chosen(Value(rf), {e \in A : Compatible(cfg, e)}, n)
    BY <2>3, <2>7, <2>8, <2>9, FilterChosen
  <2>12. /\ ~Raised(df) /\ Value(df) \in Seq(Entries(U, Q)) /\ (dm = <<>> => Value(df) = <<>>)
         /\ Chosen(Value(df), {e \in B : Compatible(cfg, e)}, n)
    BY <2>3, <2>7, <2>8, <2>10, FilterChosen
  <2> HIDE DEF rf, df
  <2> DEFINE r == Value(rf)
             d == Value(df)
             counts == Counts(r, "RISCVDV") \o Counts(d, "DIRECTED")
             list == tds_list(first, counts)
             wr == WantedOf(R, args.test, cfg, {"all", "all_riscvdv"}, first, n, "RISCVDV")
             wd == WantedOf(D, args.test, cfg, {"all_directed"}, first, n, "DIRECTED")
  <2>13. Yields(r, wr, first, "RISCVDV")
    BY <2>2, <2>3, <2>6, <2>11, CreatesWanted DEF A
  <2>14. Yields(d, wd, first, "DIRECTED")
    BY <2>2, <2>3, <2>6, <2>12, CreatesWanted DEF B
  <2>15. /\ IsInjective(list) /\ \E S : list \in Seq(S)
         /\ \A x : x \in Range(list) <=> Created(x, r, first, "RISCVDV") \/ Created(x, d, first, "DIRECTED")
         /\ counts = <<>> <=> r = <<>> /\ d = <<>>
    <3> HIDE DEF r, d
    <3>1. r \in Seq(Entries(T, P)) /\ Named(r) /\ d \in Seq(Entries(U, Q)) /\ Named(d)
      BY <2>11, <2>12 DEF Chosen, r, d
    <3>2. CreatesAll(list, counts, r, d, first)
      BY <2>2, <3>1, CreatesBoth
    <3> QED
      BY <3>2 DEF CreatesAll
  <2>16. wanted = wr \cup wd
    <3>1. ASSUME NEW e
          PROVE  (IF Raised(args.iterations) \/ args.iterations = Return(Raise)
                  THEN e.iterations ELSE Value(Value(args.iterations)))
                 = IF n = 0 THEN e.iterations ELSE n
      <4>1. ~(Raised(args.iterations) \/ args.iterations = Return(Raise)) => n # 0
        <5>1. ASSUME ~Raised(args.iterations), args.iterations # Return(Raise) PROVE n # 0
          <6>1. args.iterations = Return(Return(Value(Value(args.iterations))))
            BY <1>1, <5>1, NumberGiven
          <6> QED
            BY <1>3, <5>1, <6>1 DEF n
        <5> QED
          BY <5>1
      <4> QED
        BY <4>1 DEF n
    <3>2. \A e : args.test \cap ({"all", "all_directed"} \cup {e}) # {}
                  <=> args.test \cap ({"all_directed"} \cup {e}) # {}
      BY <1>4
    <3>3. wd = WantedOf(D, args.test, cfg, {"all", "all_directed"}, first, n, "DIRECTED")
      BY <3>2, Zenon DEF WantedOf
    <3> QED
      BY <3>1, <3>3 DEF wanted, Wanted, WantedOf, first
  <2>17. tds = IF (rm = <<>> /\ dm = <<>>) \/ counts = <<>> THEN Raise ELSE Return(list)
    <3>1. get_tests_and_counts(v, cfg, R, D) = IF rm = <<>> /\ dm = <<>> THEN Raise ELSE Return(counts)
      BY <2>11, <2>12 DEF get_tests_and_counts, rf, df, rm, dm, Counts
    <3> HIDE DEF counts
    <3> QED
      BY <2>1, <2>4, <2>5, <3>1 DEF tds, create_metadata, v, md, Raised, Raise, Return, Value
  <2> HIDE DEF counts, list, wr, wd, r, d
  <2>18. counts = <<>> <=> wanted = {}
    BY <2>13, <2>14, <2>15, <2>16 DEF Yields
  <2>19. (rm = <<>> /\ dm = <<>>) => counts = <<>>
    BY <2>11, <2>12, <2>15 DEF r, d
  <2>20. Raised(tds) <=> counts = <<>>
    BY <2>17, <2>19 DEF Raised, Raise, Return
  <2>21. ~Raised(tds) => Value(tds) = list
    BY <2>17 DEF Raised, Return, Value
  <2>22. Range(list) = wanted
    BY <2>13, <2>14, <2>15, <2>16 DEF Yields
  <2>23. Len(list) = Cardinality(wanted)
    BY <2>15, <2>22, DistinctCount
  <2> QED
    BY <2>18, <2>20, <2>21, <2>22, <2>23
<1> HIDE DEF tds, wanted, refused
<1> QED
  BY <1>2, <1>3 DEF SelectionExact, tds, wanted, refused, args, cfg, R, D

\* The first parameter of a test decides about it.
LEMMA FirstDecides == Given => FilterByFirst
<1> DEFINE cfg == in.of.cfg
           t == in.of.test
           params == Value(t.rtl_params)
           kept == filter_tests_by_config(cfg, <<t>>)
<1> SUFFICES ASSUME Given, in.kind = "filter", ~Raised(kept)
             PROVE  /\ Value(kept) # <<>> => Raised(t.rtl_params) \/ Allows(cfg, params[1])
                    /\ Compatible(cfg, t) => Value(kept) # <<>> \/ t.rtl_params = Return(<<>>)
  BY DEF FilterByFirst
<1> DEFINE one == [i \in DOMAIN <<t>> |-> Accepted(cfg, <<t>>[i])]
           a == Accepted(cfg, t)
<1>1. DOMAIN one = 1..1 /\ one[1] = a /\ 1 \in DOMAIN one
  OBVIOUS
<1>2. ~Raised(a) /\ kept = Return(FlattenSeq([i \in DOMAIN one |-> Value(one[i])]))
  <2>1. kept = IF \E i \in DOMAIN one : Raised(one[i]) THEN Raise
               ELSE Return(FlattenSeq([i \in DOMAIN one |-> Value(one[i])]))
    BY DEF filter_tests_by_config
  <2> HIDE DEF one, kept, a
  <2> QED
    BY <1>1, <2>1 DEF Raised
<1> DEFINE ss == [i \in DOMAIN one |-> Value(one[i])]
<1>3. DOMAIN ss = 1..1 /\ ss[1] = Value(a) /\ ss = [i \in 1..1 |-> Value(a)]
  <2> HIDE DEF one, a
  <2>1. \A i \in 1..1 : i = 1
    OBVIOUS
  <2> QED
    BY <1>1, <2>1
<1>4. Value(kept) = FlattenSeq(ss)
  BY <1>2 DEF Return, Value
<1> HIDE DEF ss, kept, one
<1> DEFINE bad == {i \in DOMAIN params : params[i][1] \notin DOMAIN cfg \/ ~Allows(cfg, params[i])}
           stop == IF bad = {} THEN Len(params) + 1 ELSE Min(bad)
<1>5. a = IF Raised(t.rtl_params) THEN Return(<<t>>)
          ELSE IF bad # {} /\ params[stop][1] \notin DOMAIN cfg THEN Raise
          ELSE Return([i \in 1..(stop - 1) |-> t])
  BY DEF Accepted
<1>6. ~Raised(t.rtl_params) => t.rtl_params = Return(params) /\ params \in Seq(Range(params))
  BY InputAssumption DEF Given
<1> HIDE DEF a, t, params, cfg
<1>7. ASSUME NEW l, l = Value(a), l \in Seq({t}) PROVE FlattenSeq(ss) = <<>> <=> l = <<>>
  <2>1. ss \in [1..1 -> Seq({t})]
    BY <1>3, <1>7
  <2>2. ss \in Seq(Seq({t})) /\ Len(ss) = 1
    BY <2>1, FunctionIsSeq, Zenon
  <2>3. FlattenSeq(ss) \in Seq({t})
    BY <2>2, FlattenTyped
  <2>4. ASSUME NEW x PROVE x \in Range(FlattenSeq(ss)) <=> x \in Range(l)
    <3>1. (\A i \in 1..1 : i = 1) /\ 1 \in 1..1
      OBVIOUS
    <3>2. x \in Range(FlattenSeq(ss)) <=> \E i \in 1..1 : x \in Range(ss[i])
      BY <2>2, FlattenRange, Zenon
    <3> QED
      BY <1>3, <1>7, <3>1, <3>2
  <2>5. Range(FlattenSeq(ss)) = Range(l)
    BY <2>4, Zenon
  <2> QED
    BY <1>7, <2>3, <2>5, EmptyRange
<1>8. CASE Raised(t.rtl_params)
  <2>1. Value(a) = <<t>> /\ <<t>> \in Seq({t}) /\ <<t>> # <<>>
    BY <1>5, <1>8 DEF Return, Value
  <2> QED
    BY <1>4, <1>7, <1>8, <2>1, Zenon
<1>9. CASE ~Raised(t.rtl_params)
  <2>1. a = Return([i \in 1..(stop - 1) |-> t])
    <3> HIDE DEF bad, stop
    <3> QED
      BY <1>2, <1>5, <1>9 DEF Raised
  <2> DEFINE l == [i \in 1..(stop - 1) |-> t]
  <2>2. Value(a) = l
    BY <2>1 DEF Return, Value
  <2>3. Len(params) \in Nat /\ DOMAIN params = 1..Len(params)
    BY <1>6, <1>9
  <2>4. bad \subseteq 1..Len(params)
    BY <2>3
  <2>5. bad # {} => stop \in bad /\ \A i \in bad : stop <= i
    <3> DEFINE m == CHOOSE k \in bad : \A i \in bad : k <= i
    <3>1. bad # {} => \E k \in bad : \A i \in bad : k <= i
      <4> HIDE DEF bad
      <4>1. ASSUME bad # {}
            PROVE  \E k \in bad : \A i \in bad : k <= i
        BY <2>3, <2>4, <4>1, LeastElement
      <4> QED
        BY <4>1
    <3>2. Min(bad) = m
      BY DEF Min
    <3> HIDE DEF bad
    <3> QED
      BY <3>1, <3>2
  <2>6. stop \in 1..(Len(params) + 1)
    <3> HIDE DEF bad, stop
    <3>1. bad = {} => stop = Len(params) + 1
      BY DEF stop
    <3>2. bad # {} => stop \in 1..Len(params)
      BY <2>4, <2>5, Zenon
    <3> QED
      BY <2>3, <3>1, <3>2
  <2>7. stop - 1 \in Nat /\ l \in [1..(stop - 1) -> {t}]
    <3> HIDE DEF stop
    <3> QED
      BY <2>3, <2>6
  <2>8. l \in Seq({t}) /\ Len(l) = stop - 1
    <3> HIDE DEF stop, l
    <3> QED
      BY <2>7, FunctionIsSeq
  <2>9. FlattenSeq(ss) = <<>> <=> stop = 1
    <3>1. FlattenSeq(ss) = <<>> <=> l = <<>>
      <4> HIDE DEF l
      <4> QED
        BY <1>7, <2>2, <2>8
    <3>2. l = <<>> <=> Len(l) = 0
      <4>1. ASSUME NEW S, NEW s \in Seq(S) PROVE s = <<>> <=> Len(s) = 0
        OBVIOUS
      <4> HIDE DEF l, stop
      <4> QED
        BY <2>8, <4>1, Zenon
    <3> HIDE DEF l, stop
    <3> QED
      BY <2>3, <2>6, <2>8, <3>1, <3>2
  <2>10. ASSUME stop # 1 PROVE Allows(cfg, params[1])
    <3>1. 1 \in 1..Len(params)
      <4>1. bad = {} => stop = Len(params) + 1
        OBVIOUS
      <4> HIDE DEF bad, stop
      <4> QED
        BY <2>3, <2>4, <2>5, <2>6, <2>10, <4>1
    <3>2. 1 \notin bad
      <4> HIDE DEF bad, stop
      <4> QED
        BY <2>3, <2>5, <2>6, <2>10
    <3> QED
      BY <2>3, <3>1, <3>2
  <2>11. ASSUME Compatible(cfg, t) PROVE stop # 1 \/ t.rtl_params = Return(<<>>)
    <3>1. bad = {}
      BY <1>9, <2>11 DEF Compatible, params
    <3>2. stop = Len(params) + 1
      BY <3>1
    <3>3. Len(params) = 0 => params = <<>>
      BY <1>6, <1>9
    <3> HIDE DEF stop, bad
    <3> QED
      BY <1>6, <1>9, <2>3, <3>2, <3>3
  <2> HIDE DEF stop, bad
  <2> QED
    BY <1>4, <2>9, <2>10, <2>11
<1> QED
  BY <1>8, <1>9

\* A regression runs the tests it is asked for and its core can run, each seed once, for
\* testlists of any length; the first parameter of a test decides about it.
THEOREM SelectionIsRight == Spec => []SelectionRight
  BY InputGiven, SelectsExactly, FirstDecides, PTL DEF SelectionRight

-----------------------------------------------------------------------------
\* riscvdv_interface.py

Atoms == {"lit", "par"} \X STRING

\* Atoms and what one parameter makes of them, and the first n of a dictionary.
One(name, text) == [a \in Atoms |-> IF a = <<"par", name>> THEN text ELSE <<a>>]

By(dict, n) ==
  [a \in Atoms |-> IF \E i \in 1..n : a = <<"par", dict[i][1]>>
                   THEN dict[CHOOSE i \in 1..n : a = <<"par", dict[i][1]>>][2] ELSE <<a>>]

\* subst_opt replaces each atom by itself or by the text.
LEMMA SubstOptReplaces ==
  ASSUME NEW string \in Seq(Atoms), NEW name, NEW text \in Seq(Atoms)
  PROVE  /\ One(name, text) \in [Atoms -> Seq(Atoms)]
         /\ subst_opt(string, name, text) = Replaced(string, One(name, text))
<1>1. \A a \in Atoms : <<a>> \in Seq(Atoms)
  OBVIOUS
<1>2. One(name, text) \in [Atoms -> Seq(Atoms)]
  BY <1>1 DEF One
<1>3. \A i \in DOMAIN string : string[i] \in Atoms
  OBVIOUS
<1>4. \A a \in Atoms : One(name, text)[a] = IF a = <<"par", name>> THEN text ELSE <<a>>
  BY DEF One
<1>5. [i \in DOMAIN string |-> One(name, text)[string[i]]]
        = [i \in DOMAIN string |-> IF string[i] = <<"par", name>> THEN text ELSE <<string[i]>>]
  BY <1>3, <1>4, Zenon
<1> QED
  BY <1>2, <1>5, Zenon DEF subst_opt, Replaced

\* The entries of a dictionary.
LEMMA DictionaryGives ==
  ASSUME NEW dict, Dictionary(dict)
  PROVE  /\ Len(dict) \in Nat /\ DOMAIN dict = 1..Len(dict)
         /\ \A i \in 1..Len(dict) : dict[i][1] \in STRING /\ dict[i][2] \in Seq(Atoms)
         /\ \A i, j \in 1..Len(dict) : dict[i][1] = dict[j][1] => i = j
         /\ \A i, j \in 1..Len(dict) : \A a \in Range(dict[j][2]) : a # <<"par", dict[i][1]>>
<1>1. dict \in Seq(STRING \X CommandText)
  BY DEF Dictionary
<1>2. Len(dict) \in Nat /\ DOMAIN dict = 1..Len(dict) /\ \A i \in 1..Len(dict) : dict[i] \in STRING \X CommandText
  BY <1>1
<1>3. \A i \in 1..Len(dict) : dict[i][1] \in STRING /\ dict[i][2] \in Seq(Atoms)
  BY <1>2 DEF CommandText, Atoms
<1>4. \A i, j \in 1..Len(dict) : dict[i][1] = dict[j][1] => i = j
  BY <1>2, Zenon DEF Dictionary
<1>5. ASSUME NEW i \in 1..Len(dict), NEW j \in 1..Len(dict), NEW a \in Range(dict[j][2]), a = <<"par", dict[i][1]>>
      PROVE  FALSE
  <2>1. dict[i][1] \notin Parameters(dict[j][2])
    BY <1>2 DEF Dictionary
  <2>2. PICK k \in DOMAIN dict[j][2] : dict[j][2][k] = a
    BY DEF Range
  <2>3. dict[j][2][k][1] = "par" /\ dict[j][2][k][2] = dict[i][1]
    BY <1>5, <2>2
  <2> QED
    BY <2>1, <2>2, <2>3 DEF Parameters
<1> QED
  BY <1>2, <1>3, <1>4, <1>5

\* An atom is one of the keys, or stays.
LEMMA ByGives ==
  ASSUME NEW dict, Dictionary(dict), NEW n \in 0..Len(dict)
  PROVE  /\ By(dict, n) \in [Atoms -> Seq(Atoms)]
         /\ \A i \in 1..n : <<"par", dict[i][1]>> \in Atoms /\ By(dict, n)[<<"par", dict[i][1]>>] = dict[i][2]
         /\ \A a \in Atoms : (\A i \in 1..n : a # <<"par", dict[i][1]>>) => By(dict, n)[a] = <<a>>
<1>1. /\ Len(dict) \in Nat
      /\ \A i \in 1..Len(dict) : dict[i][1] \in STRING /\ dict[i][2] \in Seq(Atoms)
      /\ \A i, j \in 1..Len(dict) : dict[i][1] = dict[j][1] => i = j
  BY DictionaryGives
<1>2. \A i \in 1..n : i \in 1..Len(dict)
  BY <1>1
<1>3. ASSUME NEW i \in 1..n PROVE (CHOOSE j \in 1..n : <<"par", dict[i][1]>> = <<"par", dict[j][1]>>) = i
  <2>1. \A j \in 1..n : <<"par", dict[i][1]>> = <<"par", dict[j][1]>> => j = i
    BY <1>1, <1>2
  <2> QED
    BY <2>1
<1>4. ASSUME NEW i \in 1..n
      PROVE  <<"par", dict[i][1]>> \in Atoms /\ By(dict, n)[<<"par", dict[i][1]>>] = dict[i][2]
  <2> DEFINE a == <<"par", dict[i][1]>>
  <2>1. a \in Atoms
    BY <1>1, <1>2 DEF Atoms
  <2>2. By(dict, n)[a] = dict[CHOOSE j \in 1..n : a = <<"par", dict[j][1]>>][2]
    <3>1. \E j \in 1..n : a = <<"par", dict[j][1]>>
      OBVIOUS
    <3> HIDE DEF a
    <3> QED
      BY <2>1, <3>1, Zenon DEF By
  <2> QED
    BY <1>3, <2>1, <2>2, Zenon
<1>5. ASSUME NEW a \in Atoms, \A i \in 1..n : a # <<"par", dict[i][1]>> PROVE By(dict, n)[a] = <<a>>
  BY <1>5 DEF By
<1>6. ASSUME NEW a \in Atoms PROVE By(dict, n)[a] \in Seq(Atoms)
  <2>1. CASE \E i \in 1..n : a = <<"par", dict[i][1]>>
    BY <1>1, <1>2, <1>4, <2>1
  <2>2. CASE \A i \in 1..n : a # <<"par", dict[i][1]>>
    <3>1. <<a>> \in Seq(Atoms)
      OBVIOUS
    <3> QED
      BY <1>5, <2>2, <3>1, Zenon
  <2> QED
    BY <2>1, <2>2
<1>7. By(dict, n) \in [Atoms -> Seq(Atoms)]
  <2>1. By(dict, n) = [a \in Atoms |-> By(dict, n)[a]]
    BY DEF By
  <2> QED
    BY <1>6, <2>1
<1> QED
  BY <1>4, <1>5, <1>7

\* One key more.
LEMMA ByNext ==
  ASSUME NEW dict, Dictionary(dict), NEW n \in 1..Len(dict), NEW a \in Atoms
  PROVE  Replaced(By(dict, n - 1)[a], One(dict[n][1], dict[n][2])) = By(dict, n)[a]
<1> DEFINE f == By(dict, n - 1)
           g == One(dict[n][1], dict[n][2])
           h == By(dict, n)
<1>1. /\ Len(dict) \in Nat
      /\ \A i \in 1..Len(dict) : dict[i][1] \in STRING /\ dict[i][2] \in Seq(Atoms)
      /\ \A i, j \in 1..Len(dict) : dict[i][1] = dict[j][1] => i = j
      /\ \A i, j \in 1..Len(dict) : \A b \in Range(dict[j][2]) : b # <<"par", dict[i][1]>>
  BY DictionaryGives
<1>2. n - 1 \in 0..Len(dict) /\ n \in 0..Len(dict) /\ n \in 1..n /\ \A i : i \in 1..n <=> i \in 1..(n - 1) \/ i = n
  BY <1>1
<1>3. /\ f \in [Atoms -> Seq(Atoms)]
      /\ \A i \in 1..(n - 1) : f[<<"par", dict[i][1]>>] = dict[i][2]
      /\ (\A i \in 1..(n - 1) : a # <<"par", dict[i][1]>>) => f[a] = <<a>>
  BY <1>2, ByGives, Zenon
<1>4. /\ h \in [Atoms -> Seq(Atoms)]
      /\ \A i \in 1..n : h[<<"par", dict[i][1]>>] = dict[i][2]
      /\ (\A i \in 1..n : a # <<"par", dict[i][1]>>) => h[a] = <<a>>
  BY <1>2, ByGives, Zenon
<1>5. g \in [Atoms -> Seq(Atoms)]
  <2>1. <<>> \in Seq(Atoms)
    OBVIOUS
  <2> QED
    BY <1>1, <2>1, SubstOptReplaces
<1>6. \A b \in Atoms : g[b] = IF b = <<"par", dict[n][1]>> THEN dict[n][2] ELSE <<b>>
  BY DEF One
<1> HIDE DEF f, g, h
<1>7. CASE \E i \in 1..(n - 1) : a = <<"par", dict[i][1]>>
  <2>1. PICK i \in 1..(n - 1) : a = <<"par", dict[i][1]>>
    BY <1>7
  <2>2. f[a] = dict[i][2] /\ h[a] = dict[i][2] /\ i \in 1..Len(dict)
    BY <1>1, <1>2, <1>3, <1>4, <2>1
  <2>3. \A b \in Range(dict[i][2]) : b \in Atoms /\ g[b] = <<b>>
    <3>1. dict[i][2] \in Seq(Atoms)
      BY <1>1, <2>2
    <3>2. \A b \in Range(dict[i][2]) : b \in Atoms
      BY <3>1 DEF Range
    <3> QED
      BY <1>1, <1>6, <2>2, <3>2, Zenon
  <2>4. dict[i][2] \in Seq(Atoms)
    BY <1>1, <2>2
  <2>5. Replaced(dict[i][2], g) = dict[i][2]
    BY <1>5, <2>3, <2>4, ReplacedNone, Zenon
  <2> QED
    BY <2>2, <2>5 DEF f, g, h
<1>8. CASE \A i \in 1..(n - 1) : a # <<"par", dict[i][1]>>
  <2>1. f[a] = <<a>>
    BY <1>3, <1>8
  <2>2. Replaced(<<a>>, g) = g[a]
    BY <1>5, ReplacedOne
  <2>3. g[a] = h[a]
    <3>1. CASE a = <<"par", dict[n][1]>>
      BY <1>2, <1>4, <1>6, <3>1, Zenon
    <3>2. CASE a # <<"par", dict[n][1]>>
      <4>1. \A i \in 1..n : a # <<"par", dict[i][1]>>
        BY <1>2, <1>8, <3>2
      <4> QED
        BY <1>4, <1>6, <3>2, <4>1, Zenon
    <3> QED
      BY <3>1, <3>2
  <2> QED
    BY <2>1, <2>2, <2>3 DEF f, g, h
<1> QED
  BY <1>7, <1>8

\* The dictionary is substituted as if all of its keys were at once.
LEMMA SubstDictReplaces ==
  ASSUME NEW dict, Dictionary(dict), NEW string \in Seq(Atoms)
  PROVE  subst_dict(string, dict) = Replaced(string, By(dict, Len(dict)))
<1> DEFINE N == Len(dict)
           Loop(g) == [n \in 0..N |-> IF n = 0 THEN string ELSE subst_opt(g[n - 1], dict[n][1], dict[n][2])]
           done == CHOOSE g : g = Loop(g)
           h == [n \in 0..N |-> Replaced(string, By(dict, n))]
<1>1. N \in Nat /\ \A i \in 1..N : dict[i][2] \in Seq(Atoms)
  BY DictionaryGives
<1>2. subst_dict(string, dict) = done[N]
  BY Zenon DEF subst_dict
<1>3. \A n \in 0..N : h[n] = Replaced(string, By(dict, n))
  OBVIOUS
<1>4. h[0] = string
  <2>1. 0 \in 0..N
    BY <1>1
  <2>2. By(dict, 0) \in [Atoms -> Seq(Atoms)] /\ \A a \in Atoms : By(dict, 0)[a] = <<a>>
    BY <2>1, ByGives
  <2>3. \A a \in Range(string) : a \in Atoms
    BY DEF Range
  <2>4. Replaced(string, By(dict, 0)) = string
    BY <2>2, <2>3, ReplacedNone, Zenon
  <2> QED
    BY <1>3, <2>1, <2>4
<1> HIDE DEF h
<1>5. ASSUME NEW n \in 1..N PROVE h[n] = subst_opt(h[n - 1], dict[n][1], dict[n][2])
  <2> DEFINE f == By(dict, n - 1)
             g == One(dict[n][1], dict[n][2])
             r == Replaced(string, f)
  <2>1. n - 1 \in 0..N /\ n \in 0..N
    BY <1>1
  <2>2. f \in [Atoms -> Seq(Atoms)] /\ By(dict, n) \in [Atoms -> Seq(Atoms)]
    BY <2>1, ByGives
  <2>3. r \in Seq(Atoms)
    BY <2>2, ReplacedTyped, Zenon
  <2> HIDE DEF r
  <2>4. g \in [Atoms -> Seq(Atoms)] /\ subst_opt(r, dict[n][1], dict[n][2]) = Replaced(r, g)
    BY <1>1, <2>3, SubstOptReplaces
  <2>5. Then(Atoms, f, g) = By(dict, n)
    <3>1. \A a \in Atoms : Replaced(f[a], g) = By(dict, n)[a]
      BY ByNext
    <3> HIDE DEF f, g
    <3> QED
      BY <2>2, <3>1 DEF Then
  <2> HIDE DEF f, g
  <2>6. Composes(Atoms, string, f, g)
    BY <2>2, <2>4, ReplacedTwice, Zenon
  <2>7. h[n - 1] = r /\ h[n] = Replaced(string, By(dict, n))
    BY <1>3, <2>1 DEF r, f
  <2> QED
    BY <2>4, <2>5, <2>6, <2>7 DEF r, Composes
<1>6. h = Loop(h)
  <2>1. h = [n \in 0..N |-> h[n]]
    BY DEF h
  <2>2. \A n \in 0..N : h[n] = IF n = 0 THEN string ELSE subst_opt(h[n - 1], dict[n][1], dict[n][2])
    <3>1. \A n \in 0..N : n # 0 => n \in 1..N
      BY <1>1
    <3> QED
      BY <1>4, <1>5, <3>1
  <2> QED
    BY <2>1, <2>2, Zenon
<1>7. done = Loop(done)
  <2> HIDE DEF Loop
  <2> QED
    BY <1>6
<1> HIDE DEF done
<1> DEFINE T == {n \in 0..N : done[n] = h[n]}
<1>8. 0 \in T
  BY <1>1, <1>4, <1>7
<1>9. ASSUME NEW n \in 1..N, n - 1 \in T PROVE n \in T
  <2>1. n \in 0..N /\ n # 0
    BY <1>1
  <2>2. done[n] = subst_opt(done[n - 1], dict[n][1], dict[n][2])
    BY <1>7, <2>1, Zenon
  <2> QED
    BY <1>5, <1>9, <2>1, <2>2
<1>10. \A n \in 0..N : n \in T
  <2> HIDE DEF T
  <2> QED
    BY <1>1, <1>8, <1>9, IntervalInduction, Zenon
<1>11. N \in 0..N
  BY <1>1
<1> QED
  BY <1>2, <1>3, <1>10, <1>11

\* What is found under a name in a list of pairs.
Lookup(dict, name) == Keep(dict, {kv \in Range(dict) : kv[1] = name})

\* A dictionary has one entry for a key it has, and none for another.
LEMMA LookupFinds ==
  ASSUME NEW dict, dict \in Seq(Range(dict)), NEW name, \A i, j \in DOMAIN dict : dict[i][1] = dict[j][1] => i = j
  PROVE  /\ \A i \in DOMAIN dict : dict[i][1] = name => Lookup(dict, name) # <<>> /\ Head(Lookup(dict, name)) = dict[i]
         /\ (\A i \in DOMAIN dict : dict[i][1] # name) => Lookup(dict, name) = <<>>
<1> DEFINE S == Range(dict)
           A == {kv \in S : kv[1] = name}
           found == Keep(dict, A)
<1>1. found \in Seq(S \cap A) /\ \A x : x \in Range(found) <=> x \in Range(dict) /\ x \in A
  <2> HIDE DEF A
  <2> QED
    BY Keeps
<1>2. Lookup(dict, name) = found
  BY DEF Lookup
<1> HIDE DEF found
<1>3. (found = <<>> <=> Range(found) = {}) /\ (found # <<>> => Head(found) \in Range(found))
  <2> HIDE DEF A, S
  <2> QED
    BY <1>1, EmptyRange
<1>4. ASSUME NEW i \in DOMAIN dict, dict[i][1] = name PROVE found # <<>> /\ Head(found) = dict[i]
  <2>1. dict[i] \in Range(dict)
    BY DEF Range
  <2>2. dict[i] \in Range(found)
    BY <1>1, <1>4, <2>1
  <2>3. Head(found) \in Range(dict) /\ Head(found)[1] = name
    BY <1>1, <1>3, <2>2
  <2>4. PICK j \in DOMAIN dict : dict[j] = Head(found)
    BY <2>3 DEF Range
  <2> QED
    BY <1>3, <1>4, <2>2, <2>3, <2>4
<1>5. ASSUME \A i \in DOMAIN dict : dict[i][1] # name PROVE found = <<>>
  <2>1. \A x \in Range(dict) : x \notin A
    BY <1>5 DEF Range
  <2> QED
    BY <1>1, <1>3, <2>1
<1> QED
  BY <1>2, <1>4, <1>5

\* Every atom that is a parameter of the dictionary, and what it stands for; the other
\* atoms.
Stands(dict, a, text) == a[1] = "par" /\ Lookup(dict, a[2]) # <<>> /\ Head(Lookup(dict, a[2]))[2] = text
Free(dict, a) == ~(a[1] = "par" /\ Lookup(dict, a[2]) # <<>>)

\* A parameter stands for its entry's text, and any other atom for itself.
LEMMA AtomStands ==
  ASSUME NEW dict, dict \in Seq(Range(dict)), \A i, j \in DOMAIN dict : dict[i][1] = dict[j][1] => i = j, NEW a \in Atoms
  PROVE  /\ \A i \in DOMAIN dict : a = <<"par", dict[i][1]>> => Stands(dict, a, dict[i][2])
         /\ (\A i \in DOMAIN dict : a # <<"par", dict[i][1]>>) => Free(dict, a)
<1>1. ASSUME NEW i \in DOMAIN dict, a = <<"par", dict[i][1]>> PROVE Stands(dict, a, dict[i][2])
  <2>1. a[1] = "par" /\ a[2] = dict[i][1]
    BY <1>1
  <2>2. Lookup(dict, a[2]) # <<>> /\ Head(Lookup(dict, a[2])) = dict[i]
    BY <2>1, LookupFinds
  <2> QED
    BY <2>1, <2>2 DEF Stands
<1>2. ASSUME \A i \in DOMAIN dict : a # <<"par", dict[i][1]>>, a[1] = "par" PROVE Lookup(dict, a[2]) = <<>>
  <2>1. a = <<a[1], a[2]>>
    BY DEF Atoms
  <2>2. \A i \in DOMAIN dict : dict[i][1] # a[2]
    BY <1>2, <2>1
  <2> QED
    BY <2>2, LookupFinds
<1> QED
  BY <1>1, <1>2 DEF Free

\* A dictionary is a list of its entries.
LEMMA DictionaryLists ==
  ASSUME NEW dict, Dictionary(dict)
  PROVE  dict \in Seq(Range(dict)) /\ \A i, j \in DOMAIN dict : dict[i][1] = dict[j][1] => i = j
<1>1. dict \in Seq(STRING \X CommandText)
  BY DEF Dictionary
<1>2. Len(dict) \in Nat /\ dict \in [1..Len(dict) -> Range(dict)]
  BY <1>1 DEF Range
<1> QED
  BY <1>2, FunctionIsSeq, Zenon DEF Dictionary

\* The dictionaries that are substituted: the environment, and the simulator's options.
EnvSet(entry) == [i \in DOMAIN entry.env_var |-> <<entry.env_var[i][1], Value(entry.env_var[i][2])>>]
Enabled(opts, enables) ==
  [i \in DOMAIN opts |-> <<opts[i][1], IF opts[i][1] \in enables THEN opts[i][2] ELSE <<>> >>]

\* All of a dictionary.
All(dict) == By(dict, Len(dict))

\* All the entries of a dictionary at once, as a function on atoms.
LEMMA AllGives ==
  ASSUME NEW dict, Dictionary(dict)
  PROVE  /\ All(dict) \in [Atoms -> Seq(Atoms)]
         /\ \A i \in DOMAIN dict : <<"par", dict[i][1]>> \in Atoms /\ All(dict)[<<"par", dict[i][1]>>] = dict[i][2]
         /\ \A a \in Atoms : (\A i \in DOMAIN dict : a # <<"par", dict[i][1]>>) => All(dict)[a] = <<a>>
<1>1. Len(dict) \in Nat /\ DOMAIN dict = 1..Len(dict)
  BY DictionaryGives
<1>2. Len(dict) \in 0..Len(dict)
  BY <1>1
<1> DEFINE N == Len(dict)
<1>3. N \in 0..Len(dict) /\ DOMAIN dict = 1..N
  BY <1>1, <1>2
<1>4. All(dict) = By(dict, N)
  BY DEF All
<1> HIDE DEF N
<1>5. /\ By(dict, N) \in [Atoms -> Seq(Atoms)]
      /\ \A i \in 1..N : <<"par", dict[i][1]>> \in Atoms /\ By(dict, N)[<<"par", dict[i][1]>>] = dict[i][2]
      /\ \A a \in Atoms : (\A i \in 1..N : a # <<"par", dict[i][1]>>) => By(dict, N)[a] = <<a>>
  BY <1>3, ByGives
<1> QED
  BY <1>3, <1>4, <1>5, Zenon

\* Emptying the options that are not enabled leaves a dictionary.
LEMMA EnabledDictionary ==
  ASSUME NEW opts, Dictionary(opts), NEW enables
  PROVE  Dictionary(Enabled(opts, enables)) /\ DOMAIN Enabled(opts, enables) = DOMAIN opts
<1> DEFINE dict == Enabled(opts, enables)
<1>1. /\ Len(opts) \in Nat /\ DOMAIN opts = 1..Len(opts)
      /\ \A i \in 1..Len(opts) : opts[i][1] \in STRING /\ opts[i][2] \in CommandText
      /\ \A i, j \in 1..Len(opts) : opts[i][1] = opts[j][1] => i = j
  BY DictionaryGives DEF CommandText, Atoms
<1>2. DOMAIN dict = 1..Len(opts)
  BY <1>1 DEF Enabled
<1>3. <<>> \in CommandText /\ Parameters(<<>>) = {}
  BY DEF CommandText, Parameters
<1>4. ASSUME NEW i \in 1..Len(opts)
      PROVE  /\ dict[i] \in STRING \X CommandText /\ dict[i][1] = opts[i][1]
             /\ dict[i][2] = opts[i][2] \/ dict[i][2] = <<>>
  <2>1. dict[i] = <<opts[i][1], IF opts[i][1] \in enables THEN opts[i][2] ELSE <<>> >>
    BY <1>1 DEF Enabled
  <2> QED
    BY <1>1, <1>3, <2>1
<1> HIDE DEF dict
<1>5. dict \in Seq(STRING \X CommandText)
  <2>1. dict = [i \in 1..Len(opts) |-> dict[i]]
    BY <1>1 DEF dict, Enabled
  <2>2. dict \in [1..Len(opts) -> STRING \X CommandText]
    BY <1>4, <2>1
  <2> QED
    BY <1>1, <2>2, FunctionIsSeq
<1>6. \A i, j \in 1..Len(opts) : dict[i][1] \notin Parameters(dict[j][2])
  <2>1. \A i, j \in 1..Len(opts) : opts[i][1] \notin Parameters(opts[j][2])
    BY <1>1 DEF Dictionary
  <2> QED
    BY <1>3, <1>4, <2>1
<1>7. \A i, j \in 1..Len(opts) : dict[i][1] = dict[j][1] => i = j
  BY <1>1, <1>4
<1>8. Dictionary(dict)
  BY <1>2, <1>5, <1>6, <1>7 DEF Dictionary
<1> QED
  BY <1>1, <1>2, <1>8 DEF dict

\* What Meaning makes of an atom.
EnvOf(entry, a) ==
  IF a[1] = "par" /\ Lookup(entry.env_var, a[2]) # <<>> /\ ~Raised(Head(Lookup(entry.env_var, a[2]))[2])
  THEN Value(Head(Lookup(entry.env_var, a[2]))[2]) ELSE <<a>>
UserOf(entry, user, a) ==
  IF a[1] = "par" /\ Lookup(user, a[2]) # <<>>
  THEN LET s == Head(Lookup(user, a[2]))[2] IN FlattenSeq([i \in DOMAIN s |-> EnvOf(entry, s[i])])
  ELSE EnvOf(entry, a)
OptOf(entry, enables, user, a) ==
  IF a[1] = "par" /\ Lookup(entry.opts, a[2]) # <<>>
  THEN IF a[2] \in enables
       THEN LET s == Head(Lookup(entry.opts, a[2]))[2] IN FlattenSeq([i \in DOMAIN s |-> UserOf(entry, user, s[i])])
       ELSE <<>>
  ELSE UserOf(entry, user, a)

\* The meaning of a text is that of its atoms, joined.
LEMMA MeaningOf ==
  ASSUME NEW text, NEW entry, NEW enables, NEW user
  PROVE  Meaning(text, entry, enables, user)
           = FlattenSeq([i \in DOMAIN text |-> OptOf(entry, enables, user, text[i])])
  BY Zenon DEF Meaning, OptOf, UserOf, EnvOf, Lookup

\* A text's replacement, atom by atom.
LEMMA AtomByAtom ==
  ASSUME NEW s \in Seq(Atoms), NEW f
  PROVE  /\ Replaced(s, f) = FlattenSeq([i \in DOMAIN s |-> f[s[i]]])
         /\ \A i \in DOMAIN s : s[i] \in Atoms
  BY DEF Replaced

\* What a complete environment is.
Complete(entry) == /\ entry.env_var \in Seq(Range(entry.env_var)) /\ Dictionary(EnvSet(entry))
                   /\ \A i \in DOMAIN EnvSet(entry) :
                        entry.env_var[i] = <<EnvSet(entry)[i][1], Return(EnvSet(entry)[i][2])>>

\* What the environment makes of an atom.
LEMMA EnvMeans ==
  ASSUME NEW entry, Complete(entry), NEW a \in Atoms
  PROVE  EnvOf(entry, a) = All(EnvSet(entry))[a]
<1> DEFINE env == entry.env_var
           set == EnvSet(entry)
<1>1. DOMAIN set = DOMAIN env
  BY DEF EnvSet
<1>2. \A i \in DOMAIN env : env[i] = <<set[i][1], Return(set[i][2])>>
  BY <1>1 DEF Complete
<1>3. \A i \in DOMAIN env : env[i][1] = set[i][1] /\ Value(env[i][2]) = set[i][2] /\ ~Raised(env[i][2])
  BY <1>2 DEF Return, Value, Raised, Raise
<1>4. \A i, j \in DOMAIN env : env[i][1] = env[j][1] => i = j
  BY <1>1, <1>3, DictionaryLists DEF Complete
<1>5. /\ \A i \in DOMAIN set : All(set)[<<"par", set[i][1]>>] = set[i][2]
      /\ (\A i \in DOMAIN set : a # <<"par", set[i][1]>>) => All(set)[a] = <<a>>
  BY AllGives DEF Complete
<1>6. /\ \A i \in DOMAIN env : a = <<"par", env[i][1]>> => Stands(env, a, env[i][2])
      /\ (\A i \in DOMAIN env : a # <<"par", env[i][1]>>) => Free(env, a)
  <2>1. env \in Seq(Range(env))
    BY DEF Complete
  <2> HIDE DEF env
  <2> QED
    BY <1>4, <2>1, AtomStands
<1>7. CASE \E i \in DOMAIN env : a = <<"par", env[i][1]>>
  <2>1. PICK i \in DOMAIN env : a = <<"par", env[i][1]>>
    BY <1>7
  <2>2. Stands(env, a, env[i][2])
    BY <1>6, <2>1
  <2>3. EnvOf(entry, a) = Value(env[i][2])
    BY <1>3, <2>1, <2>2 DEF EnvOf, Stands
  <2> QED
    BY <1>1, <1>3, <1>5, <2>1, <2>3
<1>8. CASE \A i \in DOMAIN env : a # <<"par", env[i][1]>>
  <2>1. EnvOf(entry, a) = <<a>>
    BY <1>6, <1>8 DEF EnvOf, Free
  <2>2. All(set)[a] = <<a>>
    BY <1>1, <1>3, <1>5, <1>8
  <2> QED
    BY <2>1, <2>2
<1> QED
  BY <1>7, <1>8

\* What the user's options, then the environment, make of an atom.
LEMMA UserMeans ==
  ASSUME NEW entry, Complete(entry), NEW user, Dictionary(user), NEW a \in Atoms
  PROVE  UserOf(entry, user, a) = Then(Atoms, All(user), All(EnvSet(entry)))[a]
<1> DEFINE E == All(EnvSet(entry))
           U == All(user)
<1>1. E \in [Atoms -> Seq(Atoms)]
  BY AllGives DEF Complete
<1>2. /\ U \in [Atoms -> Seq(Atoms)]
      /\ \A i \in DOMAIN user : U[<<"par", user[i][1]>>] = user[i][2]
      /\ (\A i \in DOMAIN user : a # <<"par", user[i][1]>>) => U[a] = <<a>>
  BY AllGives
<1>3. /\ \A i \in DOMAIN user : a = <<"par", user[i][1]>> => Stands(user, a, user[i][2])
      /\ (\A i \in DOMAIN user : a # <<"par", user[i][1]>>) => Free(user, a)
  BY DictionaryLists, AtomStands
<1>4. \A b \in Atoms : EnvOf(entry, b) = E[b]
  BY EnvMeans
<1>5. Then(Atoms, U, E)[a] = Replaced(U[a], E)
  BY DEF Then
<1> HIDE DEF E, U
<1>6. CASE \E i \in DOMAIN user : a = <<"par", user[i][1]>>
  <2>1. PICK i \in DOMAIN user : a = <<"par", user[i][1]>>
    BY <1>6
  <2> DEFINE s == user[i][2]
  <2>2. U[a] = s /\ s \in Seq(Atoms)
    BY <1>2, <2>1
  <2>3. UserOf(entry, user, a) = FlattenSeq([k \in DOMAIN s |-> EnvOf(entry, s[k])])
    BY <1>3, <2>1 DEF UserOf, Stands
  <2> HIDE DEF s
  <2>4. Replaced(s, E) = FlattenSeq([k \in DOMAIN s |-> E[s[k]]]) /\ \A k \in DOMAIN s : s[k] \in Atoms
    BY <2>2, AtomByAtom
  <2>5. [k \in DOMAIN s |-> EnvOf(entry, s[k])] = [k \in DOMAIN s |-> E[s[k]]]
    BY <1>4, <2>4
  <2> QED
    BY <1>5, <2>2, <2>3, <2>4, <2>5 DEF E, U
<1>7. CASE \A i \in DOMAIN user : a # <<"par", user[i][1]>>
  <2>1. UserOf(entry, user, a) = E[a]
    BY <1>3, <1>4, <1>7 DEF UserOf, Free
  <2>2. U[a] = <<a>>
    BY <1>2, <1>7
  <2>3. Replaced(<<a>>, E) = E[a]
    BY <1>1, ReplacedOne
  <2> QED
    BY <1>5, <2>1, <2>2, <2>3 DEF E, U
<1> QED
  BY <1>6, <1>7

\* What the simulator's options, then the user's, then the environment make of it.
LEMMA OptMeans ==
  ASSUME NEW entry, Complete(entry), Dictionary(entry.opts), NEW enables,
         NEW user, Dictionary(user), NEW a \in Atoms
  PROVE  OptOf(entry, enables, user, a)
           = Then(Atoms, Then(Atoms, All(Enabled(entry.opts, enables)), All(user)), All(EnvSet(entry)))[a]
<1> DEFINE E == All(EnvSet(entry))
           U == All(user)
           opts == entry.opts
           dict == Enabled(opts, enables)
           O == All(dict)
           V == Then(Atoms, U, E)
<1>1. E \in [Atoms -> Seq(Atoms)] /\ U \in [Atoms -> Seq(Atoms)]
  BY AllGives DEF Complete
<1>2. Dictionary(dict) /\ DOMAIN dict = DOMAIN opts
  BY EnabledDictionary
<1>3. \A i \in DOMAIN opts : dict[i] = <<opts[i][1], IF opts[i][1] \in enables THEN opts[i][2] ELSE <<>> >>
  BY DEF Enabled
<1>4. \A b \in Atoms : UserOf(entry, user, b) = V[b]
  BY UserMeans
<1> HIDE DEF E, U, dict
<1>5. /\ O \in [Atoms -> Seq(Atoms)]
      /\ \A i \in DOMAIN dict : O[<<"par", dict[i][1]>>] = dict[i][2]
      /\ (\A i \in DOMAIN dict : a # <<"par", dict[i][1]>>) => O[a] = <<a>>
  BY <1>2, AllGives
<1>6. /\ \A i \in DOMAIN opts : a = <<"par", opts[i][1]>> => Stands(opts, a, opts[i][2])
      /\ (\A i \in DOMAIN opts : a # <<"par", opts[i][1]>>) => Free(opts, a)
  <2> HIDE DEF opts
  <2>1. Dictionary(opts)
    BY DEF opts
  <2> QED
    BY <2>1, DictionaryLists, AtomStands, Zenon
<1> HIDE DEF O
<1>7. Then(Atoms, Then(Atoms, O, U), E)[a] = Replaced(Replaced(O[a], U), E)
  BY DEF Then
<1>8. \A b \in Atoms : V[b] = Replaced(U[b], E)
  BY DEF Then
<1>9. CASE \E i \in DOMAIN opts : a = <<"par", opts[i][1]>>
  <2>1. PICK i \in DOMAIN opts : a = <<"par", opts[i][1]>>
    BY <1>9
  <2>2. O[a] = (IF opts[i][1] \in enables THEN opts[i][2] ELSE <<>>) /\ a[2] = opts[i][1]
    <3>1. dict[i][1] = opts[i][1] /\ dict[i][2] = (IF opts[i][1] \in enables THEN opts[i][2] ELSE <<>>)
      BY <1>3
    <3> QED
      BY <1>2, <1>5, <2>1, <3>1
  <2>3. Stands(opts, a, opts[i][2])
    BY <1>6, <2>1
  <2>4. CASE a[2] \in enables
    <3> DEFINE s == opts[i][2]
    <3>1. O[a] = s /\ s \in Seq(Atoms)
      <4>1. O[a] = s
        BY <2>2, <2>4
      <4>2. O[a] \in Seq(Atoms)
        BY <1>5
      <4> QED
        BY <4>1, <4>2
    <3>2. OptOf(entry, enables, user, a) = FlattenSeq([k \in DOMAIN s |-> UserOf(entry, user, s[k])])
      BY <2>3, <2>4 DEF OptOf, Stands
    <3> HIDE DEF s, V
    <3>3. Replaced(s, V) = FlattenSeq([k \in DOMAIN s |-> V[s[k]]]) /\ \A k \in DOMAIN s : s[k] \in Atoms
      BY <3>1, AtomByAtom
    <3>4. [k \in DOMAIN s |-> UserOf(entry, user, s[k])] = [k \in DOMAIN s |-> V[s[k]]]
      BY <1>4, <3>3
    <3>5. Composes(Atoms, s, U, E)
      BY <1>1, <3>1, ReplacedTwice
    <3>6. Replaced(Replaced(s, U), E) = Replaced(s, V)
      BY <3>5 DEF Composes, V
    <3> QED
      BY <1>7, <3>1, <3>2, <3>3, <3>4, <3>6, Zenon DEF E, U, O, dict
  <2>5. CASE a[2] \notin enables
    <3>1. OptOf(entry, enables, user, a) = <<>>
      BY <2>3, <2>5 DEF OptOf, Stands
    <3>2. O[a] = <<>>
      BY <2>2, <2>5
    <3>3. Replaced(Replaced(<<>>, U), E) = <<>>
      BY ReplacedEmpty
    <3> QED
      BY <1>7, <3>1, <3>2, <3>3 DEF E, U, O, dict
  <2> QED
    BY <2>4, <2>5
<1>10. CASE \A i \in DOMAIN opts : a # <<"par", opts[i][1]>>
  <2>1. OptOf(entry, enables, user, a) = V[a]
    BY <1>4, <1>6, <1>10 DEF OptOf, Free
  <2>2. O[a] = <<a>>
    <3>1. \A i \in DOMAIN opts : dict[i][1] = opts[i][1]
      BY <1>3
    <3> QED
      BY <1>2, <1>5, <1>10, <3>1, Zenon
  <2>3. Replaced(<<a>>, U) = U[a]
    BY <1>1, ReplacedOne
  <2> QED
    BY <1>7, <1>8, <2>1, <2>2, <2>3 DEF E, U, O, dict
<1> QED
  BY <1>9, <1>10

\* The three substitutions in turn say what the text means.
LEMMA SubstitutedMeans ==
  ASSUME NEW entry, Complete(entry), Dictionary(entry.opts), NEW enables,
         NEW user, Dictionary(user), NEW text \in Seq(Atoms)
  PROVE  subst_dict(Filled(text, entry.opts, enables, user), EnvSet(entry)) = Meaning(text, entry, enables, user)
<1> DEFINE E == All(EnvSet(entry))
           U == All(user)
           dict == Enabled(entry.opts, enables)
           O == All(dict)
           W == Then(Atoms, Then(Atoms, O, U), E)
           r == Replaced(text, O)
           s == Replaced(r, U)
<1>1. Dictionary(dict)
  BY EnabledDictionary
<1>2. E \in [Atoms -> Seq(Atoms)] /\ U \in [Atoms -> Seq(Atoms)]
  BY AllGives DEF Complete
<1>3. Filled(text, entry.opts, enables, user) = subst_dict(subst_dict(text, dict), user)
  BY Zenon DEF Filled, Enabled
<1>4. \A a \in Atoms : OptOf(entry, enables, user, a) = W[a]
  BY OptMeans
<1> HIDE DEF dict
<1>5. O \in [Atoms -> Seq(Atoms)] /\ subst_dict(text, dict) = r
  BY <1>1, AllGives, SubstDictReplaces DEF All
<1> HIDE DEF E, U, O
<1>6. r \in Seq(Atoms)
  BY <1>5, ReplacedTyped, Zenon
<1> HIDE DEF r
<1>7. subst_dict(r, user) = s
  BY <1>6, SubstDictReplaces DEF All, U
<1>8. s \in Seq(Atoms)
  BY <1>2, <1>6, ReplacedTyped, Zenon
<1> HIDE DEF s
<1>9. subst_dict(s, EnvSet(entry)) = Replaced(s, E)
  BY <1>8, SubstDictReplaces DEF All, E, Complete
<1>10. Then(Atoms, O, U) \in [Atoms -> Seq(Atoms)] /\ Composes(Atoms, text, O, U)
  BY <1>2, <1>5, ReplacedTwice, Zenon
<1>11. Composes(Atoms, text, Then(Atoms, O, U), E)
  BY <1>2, <1>10, ReplacedTwice, Zenon
<1>12. Replaced(s, E) = Replaced(text, W)
  BY <1>10, <1>11 DEF s, r, Composes
<1> HIDE DEF W
<1>13. Replaced(text, W) = FlattenSeq([i \in DOMAIN text |-> W[text[i]]]) /\ \A i \in DOMAIN text : text[i] \in Atoms
  BY AtomByAtom
<1>14. [i \in DOMAIN text |-> OptOf(entry, enables, user, text[i])] = [i \in DOMAIN text |-> W[text[i]]]
  BY <1>4, <1>13
<1> QED
  BY <1>3, <1>5, <1>7, <1>9, <1>12, <1>13, <1>14, MeaningOf, Zenon

\* The simulator's entry is the one that is there.
LEMMA EntryFound ==
  ASSUME NEW entry
  PROVE  LET found == Keep(<<entry>>, {e \in Range(<<entry>>) : e.tool = entry.tool})
         IN  found # <<>> /\ Head(found) = entry
<1> DEFINE list == <<entry>>
           A == {e \in Range(list) : e.tool = entry.tool}
           S == {entry}
<1>1. list \in Seq(S) /\ \A x : x \in Range(list) <=> x = entry
  BY DEF Range
<1>2. entry \in A /\ \A x \in A : x = entry
  BY <1>1
<1> HIDE DEF list, A
<1>3. Keep(list, A) \in Seq(S \cap A) /\ \A x : x \in Range(Keep(list, A)) <=> x \in Range(list) /\ x \in A
  BY <1>1, Keeps
<1>4. (Keep(list, A) = <<>> <=> Range(Keep(list, A)) = {}) /\ (Keep(list, A) # <<>> => Head(Keep(list, A)) \in Range(Keep(list, A)))
  BY <1>3, EmptyRange
<1>5. entry \in Range(Keep(list, A))
  BY <1>1, <1>2, <1>3
<1>6. Keep(list, A) # <<>> /\ Head(Keep(list, A)) = entry
  BY <1>2, <1>3, <1>4, <1>5
<1> QED
  BY <1>6 DEF list, A

\* One command: refused, or what it means.
LEMMA CommandGiven ==
  ASSUME NEW entry, NEW enables, NEW user, Command(entry, user), NEW text \in CommandText
  PROVE  LET env == \A i \in DOMAIN entry.env_var : ~Raised(entry.env_var[i][2])
             meant == Meaning(text, entry, enables, user)
             given == get_tool_cmd(text, entry, enables, user)
         IN  IF env /\ Parameters(meant) = {} THEN given = Return(meant) ELSE given = Raise
<1> DEFINE env == \A i \in DOMAIN entry.env_var : ~Raised(entry.env_var[i][2])
           meant == Meaning(text, entry, enables, user)
           filled == Filled(text, entry.opts, enables, user)
           done == subst_env_vars(filled, entry.env_var)
           given == get_tool_cmd(text, entry, enables, user)
<1>1. given = IF Raised(done) THEN Raise ELSE IF Parameters(Value(done)) # {} THEN Raise ELSE done
  BY Zenon DEF get_tool_cmd
<1>2. CASE ~env
  <2>1. done = Raise
    BY <1>2 DEF subst_env_vars
  <2> QED
    BY <1>1, <1>2, <2>1 DEF Raised
<1>3. CASE env
  <2>1. done = Return(subst_dict(filled, EnvSet(entry)))
    BY <1>3, Zenon DEF subst_env_vars, EnvSet
  <2>2. Complete(entry) /\ Dictionary(entry.opts) /\ Dictionary(user)
    BY <1>3, Zenon DEF Command, Complete, EnvSet
  <2>3. text \in Seq(Atoms)
    BY DEF CommandText, Atoms
  <2>4. subst_dict(filled, EnvSet(entry)) = meant
    BY <2>2, <2>3, SubstitutedMeans
  <2> HIDE DEF filled, done, given, meant
  <2>5. done = Return(meant)
    BY <2>1, <2>4
  <2>6. ~Raised(done) /\ Value(done) = meant
    BY <2>5 DEF Raised, Raise, Return, Value
  <2>7. IF Parameters(meant) = {} THEN given = Return(meant) ELSE given = Raise
    BY <1>1, <2>5, <2>6
  <2> QED
    BY <1>3, <2>7 DEF given, meant
<1> QED
  BY <1>2, <1>3

\* A list of commands: given when each of them is.
LEMMA CommandsGiven ==
  ASSUME NEW entry, NEW enables, NEW user, Command(entry, user)
  PROVE  LET cmd == entry.cmd
             done == get_tool_cmds(<<entry>>, entry.tool, enables, user)
             env == \A i \in DOMAIN entry.env_var : ~Raised(entry.env_var[i][2])
             meant == [i \in DOMAIN cmd |-> Meaning(cmd[i], entry, enables, user)]
         IN  IF (cmd # <<>> => env) /\ \A i \in DOMAIN cmd : Parameters(meant[i]) = {}
             THEN done = Return(meant) ELSE Raised(done)
<1> DEFINE cmd == entry.cmd
           env == \A i \in DOMAIN entry.env_var : ~Raised(entry.env_var[i][2])
           Meant(i) == Meaning(cmd[i], entry, enables, user)
           meant == [i \in DOMAIN cmd |-> Meant(i)]
           given == [i \in DOMAIN cmd |-> get_tool_cmd(cmd[i], entry, enables, user)]
           done == get_tool_cmds(<<entry>>, entry.tool, enables, user)
           found == Keep(<<entry>>, {e \in Range(<<entry>>) : e.tool = entry.tool})
<1>1. found # <<>> /\ Head(found) = entry
  BY EntryFound
<1>2. done = IF \E i \in DOMAIN given : Raised(given[i]) THEN Raise
             ELSE Return([i \in DOMAIN given |-> Value(given[i])])
  <2>1. done = IF found = <<>> THEN Raise
               ELSE LET g == [i \in DOMAIN Head(found).cmd |->
                                get_tool_cmd(Head(found).cmd[i], Head(found), enables, user)]
                    IN  IF \E i \in DOMAIN g : Raised(g[i]) THEN Raise ELSE Return([i \in DOMAIN g |-> Value(g[i])])
    BY Zenon DEF get_tool_cmds
  <2> HIDE DEF found
  <2> QED
    BY <1>1, <2>1, Zenon
<1>3. cmd \in Seq(CommandText)
  BY DEF Command
<1>4. DOMAIN cmd = 1..Len(cmd) /\ Len(cmd) \in Nat /\ \A i \in DOMAIN cmd : cmd[i] \in CommandText
  BY <1>3
<1>5. ASSUME NEW i \in DOMAIN cmd
      PROVE  IF env /\ Parameters(Meant(i)) = {} THEN given[i] = Return(Meant(i)) ELSE given[i] = Raise
  <2>1. cmd[i] \in CommandText
    BY <1>4
  <2>2. given[i] = get_tool_cmd(cmd[i], entry, enables, user)
    OBVIOUS
  <2> DEFINE text == cmd[i]
  <2>3. text \in CommandText
    BY <2>1
  <2> HIDE DEF text, cmd, given
  <2>4. IF env /\ Parameters(Meaning(text, entry, enables, user)) = {}
        THEN get_tool_cmd(text, entry, enables, user) = Return(Meaning(text, entry, enables, user))
        ELSE get_tool_cmd(text, entry, enables, user) = Raise
    BY <2>3, CommandGiven, Zenon
  <2> QED
    BY <2>2, <2>4 DEF text
<1>6. DOMAIN given = DOMAIN cmd /\ DOMAIN meant = DOMAIN cmd /\ \A i \in DOMAIN cmd : meant[i] = Meant(i)
  OBVIOUS
<1>7. CASE (cmd # <<>> => env) /\ \A i \in DOMAIN cmd : Parameters(Meant(i)) = {}
  <2>1. \A i \in DOMAIN cmd : env
    BY <1>3, <1>7
  <2>2. \A i \in DOMAIN cmd : given[i] = Return(Meant(i))
    BY <1>5, <1>7, <2>1, Zenon
  <2>3. \A i \in DOMAIN cmd : ~Raised(given[i]) /\ Value(given[i]) = Meant(i)
    <3>1. \A x : ~Raised(Return(x)) /\ Value(Return(x)) = x
      BY DEF Raised, Raise, Return, Value
    <3> HIDE DEF given, Meant
    <3> QED
      BY <2>2, <3>1
  <2>4. [i \in DOMAIN given |-> Value(given[i])] = meant
    BY <1>6, <2>3
  <2> HIDE DEF given, meant, done, cmd
  <2>5. done = Return(meant)
    BY <1>2, <1>6, <2>3, <2>4
  <2> QED
    BY <1>6, <1>7, <2>5, Zenon DEF done, meant, cmd
<1>8. CASE ~((cmd # <<>> => env) /\ \A i \in DOMAIN cmd : Parameters(Meant(i)) = {})
  <2>1. \E i \in DOMAIN cmd : ~(env /\ Parameters(Meant(i)) = {})
    <3>1. cmd # <<>> => 1 \in DOMAIN cmd
      BY <1>3
    <3> QED
      BY <1>8, <3>1, Zenon
  <2>2. \E i \in DOMAIN given : Raised(given[i])
    BY <1>5, <1>6, <2>1 DEF Raised
  <2>3. Raised(done)
    BY <1>2, <2>2 DEF Raised
  <2> HIDE DEF given, meant, done, cmd
  <2> QED
    BY <1>6, <1>8, <2>3, Zenon DEF done, meant, cmd
<1> QED
  BY <1>7, <1>8, Zenon

\* riscvdv_interface.get_tool_cmds: substituting one dictionary after the other gives,
\* for every command list, options and environment, the commands the templates mean or
\* none, and always the commands when none of them is left with a parameter and the
\* variables of the environment are set.
THEOREM CommandsMean == Spec => []CommandMeant
<1>1. Given => CommandMeant
  <2> SUFFICES ASSUME Given, in.kind = "command" PROVE CommandMeant
    BY Zenon DEF CommandMeant
  <2>1. Command(in.of.entry, in.of.user)
    BY InputAssumption DEF Given
  <2> DEFINE entry == in.of.entry
             enables == in.of.enables
             user == in.of.user
  <2> HIDE DEF entry, enables, user
  <2>2. LET cmd == entry.cmd
            done == get_tool_cmds(<<entry>>, entry.tool, enables, user)
            env == \A i \in DOMAIN entry.env_var : ~Raised(entry.env_var[i][2])
            meant == [i \in DOMAIN cmd |-> Meaning(cmd[i], entry, enables, user)]
        IN  IF (cmd # <<>> => env) /\ \A i \in DOMAIN cmd : Parameters(meant[i]) = {}
            THEN done = Return(meant) ELSE Raised(done)
    <3>1. Command(entry, user)
      BY <2>1 DEF entry, user
    <3> QED
      BY <3>1, CommandsGiven, Zenon
  <2> DEFINE env == \A i \in DOMAIN in.of.entry.env_var : ~Raised(in.of.entry.env_var[i][2])
  <2>3. IF (in.of.entry.cmd # <<>> => env) /\ AllMeant
        THEN CommandsDone = Return(CommandsMeant) ELSE Raised(CommandsDone)
    <3>1. AllMeant <=> \A i \in DOMAIN in.of.entry.cmd : Parameters(CommandsMeant[i]) = {}
      BY DEF AllMeant, CommandsMeant
    <3> QED
      BY <2>2, <3>1, Zenon DEF CommandsDone, CommandsMeant, entry, enables, user
  <2>4. ~Raised(Return(CommandsMeant))
    BY DEF Raised, Raise, Return
  <2> HIDE DEF env
  <2> QED
    BY <2>3, <2>4, Zenon DEF CommandMeant, env
<1> QED
  BY <1>1, InputGiven, PTL

-----------------------------------------------------------------------------
\* gen_testlist.py and directed_test_schema.py

Groups == {"rv32mi", "rv32ui", "rv32i_m/I", "outputs"}
Extension(group) == IF group = "outputs" THEN ".c" ELSE ".S"
SuiteOf(group) == CASE group = "outputs" -> "epmp-tests" [] group = "rv32i_m/I" -> "riscv-arch-tests"
                    [] OTHER -> "riscv-tests"
ConfigNames == {"riscv-tests", "riscv-arch-tests", "epmp-tests"}

\* The entries a suite can give, and those of a generated list.
SuiteTests(disk) ==
  {Test(p[1], <<p[2], p[1], Extension(p[2])>>, SuiteOf(p[2])) :
     p \in {file.stem : file \in UNION {Range(disk[g]) : g \in Groups}} \X Groups}
ListTests(disk) == Range(Handwritten) \cup SuiteTests(disk)
ListEntries(disk) == Range(Configs) \cup ListTests(disk)

\* What the directories are.
Vendored(disk) ==
  /\ \A g \in Groups : disk[g] \in Seq(Range(disk[g]))
  /\ \A g, h \in Groups : \A e \in Range(disk[g]), f \in Range(disk[h]) :
       e.ext = Extension(g) /\ f.ext = Extension(h) /\ e.stem = f.stem => g = h
  /\ \A g \in Groups : \A e \in Range(disk[g]) : e.ext = Extension(g) =>
       \A t \in Range(Handwritten) : t.test # e.stem
  /\ Groups \subseteq DOMAIN disk

\* What is known of directories like the vendored ones.
LEMMA DirectoriesGive ==
  ASSUME NEW disk, Directories(disk)
  PROVE  Vendored(disk)
<1>1. Groups \subseteq DOMAIN disk /\ \A g \in Groups : disk[g] \in Seq(Range(disk[g]))
  BY DEF Directories, Groups
<1>2. ASSUME NEW g \in Groups, NEW h \in Groups, NEW e \in Range(disk[g]), NEW f \in Range(disk[h]),
             e.ext = Extension(g), f.ext = Extension(h), e.stem = f.stem
      PROVE  g = h
  BY <1>2 DEF Directories, Groups, Extension
<1>3. ASSUME NEW g \in Groups, NEW e \in Range(disk[g]), e.ext = Extension(g), NEW t \in Range(Handwritten)
      PROVE  t.test # e.stem
  <2>1. PICK i \in DOMAIN Handwritten : t = Handwritten[i]
    BY DEF Range
  <2> QED
    BY <1>3, <2>1 DEF Directories, Groups, Extension
<1> QED
  BY <1>1, <1>2, <1>3 DEF Vendored

\* A configuration, and a test.
LEMMA ConfigFields ==
  /\ \A e \in Range(Configs) : /\ ~IsTest(e) /\ DConfig \subseteq DOMAIN e /\ e.config \in ConfigNames
                               /\ e.timeout_s = 300
  /\ \A e, f \in Range(Configs) : e.config = f.config => e = f
  /\ \A c \in ConfigNames : \E e \in Range(Configs) : e.config = c
<1> DEFINE a == Configuration("riscv-tests", "link.ld")
           b == Configuration("riscv-arch-tests", "link.ld")
           c == Configuration("epmp-tests", "mseccfg_test.ld")
<1>1. Range(Configs) = {a, b, c}
  <2>1. DOMAIN Configs = 1..3 /\ Configs[1] = a /\ Configs[2] = b /\ Configs[3] = c
    BY DEF Configs
  <2>2. 1..3 = {1, 2, 3}
    OBVIOUS
  <2> HIDE DEF a, b, c
  <2> QED
    BY <2>1, <2>2 DEF Range
<1>2. \A n, l : LET e == Configuration(n, l)
                IN  DOMAIN e = DConfig /\ e.config = n /\ e.timeout_s = 300
  BY DEF Configuration, DConfig
<1>3. \A e : DOMAIN e = DConfig => ~IsTest(e)
  BY DEF IsTest, DConfig
<1>4. a.config = "riscv-tests" /\ b.config = "riscv-arch-tests" /\ c.config = "epmp-tests"
  BY <1>2
<1>5. \A e \in {a, b, c} : DOMAIN e = DConfig /\ e.timeout_s = 300
  BY <1>2
<1> HIDE DEF a, b, c
<1> QED
  BY <1>1, <1>3, <1>4, <1>5 DEF ConfigNames

TestKeys == {"test", "desc", "iterations", "test_srcs", "config"}

\* The fields of an entry of the list.
LEMMA TestFields ==
  ASSUME NEW n, NEW s, NEW c
  PROVE  /\ DOMAIN Test(n, s, c) = TestKeys /\ Test(n, s, c).test = n /\ Test(n, s, c).test_srcs = s
         /\ Test(n, s, c).config = c /\ Test(n, s, c).iterations = 1
  BY DEF Test, TestKeys

\* The handwritten tests.
LEMMA HandwrittenFields ==
  /\ \A e \in Range(Handwritten) : /\ TestKeys \subseteq DOMAIN e /\ "timeout_s" \notin DOMAIN e
                                   /\ e.iterations = 1 /\ e.config \in ConfigNames
  /\ \A e, f \in Range(Handwritten) : e.test = f.test => e = f
<1> DEFINE a == Test("empty", <<"own", "empty", ".S">>, "riscv-tests")
           m == Test("mcounteren_lock_test", <<"own", "lock", ".S">>, "riscv-tests")
           p == Test("pmp_mseccfg_test", <<"own", "mseccfg", ".S">>, "riscv-tests")
           b == With(m, "rtl_test", "lock")
           c == With(p, "gcc_opts", "PMP_REGION")
<1>1. Range(Handwritten) = {a, b, c}
  <2>1. DOMAIN Handwritten = 1..3 /\ Handwritten[1] = a /\ Handwritten[2] = b /\ Handwritten[3] = c
    BY DEF Handwritten
  <2>2. 1..3 = {1, 2, 3}
    OBVIOUS
  <2> HIDE DEF a, b, c
  <2> QED
    BY <2>1, <2>2 DEF Range
<1>2. \A t, k, v : DOMAIN t = TestKeys /\ k \in {"rtl_test", "gcc_opts"} =>
        LET e == With(t, k, v)
        IN  /\ TestKeys \subseteq DOMAIN e /\ "timeout_s" \notin DOMAIN e
            /\ e.iterations = t.iterations /\ e.config = t.config /\ e.test = t.test
  BY DEF With, TestKeys
<1>3. \A t \in {a, m, p} : DOMAIN t = TestKeys /\ t.iterations = 1 /\ t.config = "riscv-tests"
  BY TestFields
<1>4. a.test = "empty" /\ m.test = "mcounteren_lock_test" /\ p.test = "pmp_mseccfg_test"
  BY TestFields
<1> HIDE DEF a, m, p
<1>5. \A e \in {a, b, c} : /\ TestKeys \subseteq DOMAIN e /\ "timeout_s" \notin DOMAIN e
                           /\ e.iterations = 1 /\ e.config = "riscv-tests"
  <2>1. "timeout_s" \notin TestKeys
    BY DEF TestKeys
  <2> QED
    BY <1>2, <1>3, <2>1
<1>6. b.test = "mcounteren_lock_test" /\ c.test = "pmp_mseccfg_test"
  BY <1>2, <1>3, <1>4
<1> HIDE DEF b, c
<1> QED
  BY <1>1, <1>4, <1>5, <1>6 DEF ConfigNames

\* The tests of a list.
LEMMA ListTestFields ==
  ASSUME NEW disk, NEW e \in ListTests(disk)
  PROVE  /\ IsTest(e) /\ TestKeys \subseteq DOMAIN e /\ "timeout_s" \notin DOMAIN e
         /\ e.iterations = 1 /\ e.config \in ConfigNames
<1>1. CASE e \in Range(Handwritten)
  BY <1>1, HandwrittenFields DEF IsTest, TestKeys
<1>2. CASE e \in SuiteTests(disk)
  <2>1. PICK n, g : e = Test(n, <<g, n, Extension(g)>>, SuiteOf(g))
    BY <1>2, Zenon DEF SuiteTests
  <2>2. SuiteOf(g) \in ConfigNames
    BY DEF SuiteOf, ConfigNames
  <2> QED
    BY <2>1, <2>2, TestFields DEF IsTest, TestKeys
<1> QED
  BY <1>1, <1>2 DEF ListTests

\* The file of a suite's test.
LEMMA SuiteTestFile ==
  ASSUME NEW disk, Vendored(disk), NEW e \in SuiteTests(disk), Exists(e.test_srcs, disk)
  PROVE  \E g \in Groups : /\ e = Test(e.test, <<g, e.test, Extension(g)>>, SuiteOf(g))
                           /\ \E file \in Range(disk[g]) : file.stem = e.test /\ file.ext = Extension(g)
<1>1. PICK n, g : g \in Groups /\ e = Test(n, <<g, n, Extension(g)>>, SuiteOf(g))
  BY Zenon DEF SuiteTests
<1>2. e.test = n /\ e.test_srcs = <<g, n, Extension(g)>>
  BY <1>1, TestFields
<1>3. g \in DOMAIN disk
  BY <1>1 DEF Vendored
<1>4. PICK i \in DOMAIN disk[g] : disk[g][i].stem = n /\ disk[g][i].ext = Extension(g)
  BY <1>2, <1>3 DEF Exists
<1>5. disk[g][i] \in Range(disk[g])
  BY DEF Range
<1> QED
  BY <1>1, <1>2, <1>4, <1>5

\* Two tests of one name, with sources that exist, are one.
LEMMA TestsNamed ==
  ASSUME NEW disk, Vendored(disk), NEW e \in ListTests(disk), NEW f \in ListTests(disk),
         Exists(e.test_srcs, disk), Exists(f.test_srcs, disk), e.test = f.test
  PROVE  e = f
<1>1. CASE e \in SuiteTests(disk) /\ f \in SuiteTests(disk)
  <2>1. PICK g \in Groups : /\ e = Test(e.test, <<g, e.test, Extension(g)>>, SuiteOf(g))
                            /\ \E file \in Range(disk[g]) : file.stem = e.test /\ file.ext = Extension(g)
    BY <1>1, SuiteTestFile
  <2>2. PICK h \in Groups : /\ f = Test(f.test, <<h, f.test, Extension(h)>>, SuiteOf(h))
                            /\ \E file \in Range(disk[h]) : file.stem = f.test /\ file.ext = Extension(h)
    BY <1>1, SuiteTestFile
  <2>3. g = h
    BY <2>1, <2>2 DEF Vendored
  <2> QED
    BY <2>1, <2>2, <2>3
<1>2. ASSUME NEW s \in SuiteTests(disk), Exists(s.test_srcs, disk), NEW t \in Range(Handwritten) PROVE s.test # t.test
  <2>1. PICK g \in Groups : \E file \in Range(disk[g]) : file.stem = s.test /\ file.ext = Extension(g)
    BY <1>2, SuiteTestFile, Zenon
  <2> QED
    BY <2>1 DEF Vendored
<1>3. CASE e \in Range(Handwritten) /\ f \in Range(Handwritten)
  BY <1>3, HandwrittenFields
<1> QED
  BY <1>1, <1>2, <1>3 DEF ListTests

\* What a suite adds.
LEMMA SuiteAdds ==
  ASSUME NEW disk, Vendored(disk), NEW tests \in Seq(Groups), NEW name, NEW extension,
         \A g \in Range(tests) : SuiteOf(g) = name /\ Extension(g) = extension
  PROVE  append_directed_testlist(tests, disk, name, extension) \in Seq(SuiteTests(disk))
<1> DEFINE Listed(g) == Keep(disk[g], {file \in Range(disk[g]) : extension \in file.greps})
           TestsIn(g) == [i \in DOMAIN Listed(g) |->
                            Test(Listed(g)[i].stem, <<g, Listed(g)[i].stem, extension>>, name)]
           ss == [k \in DOMAIN tests |-> TestsIn(tests[k])]
<1>1. ASSUME NEW g \in Groups, SuiteOf(g) = name, Extension(g) = extension
      PROVE  TestsIn(g) \in Seq(SuiteTests(disk))
  <2> DEFINE A == {file \in Range(disk[g]) : extension \in file.greps}
             list == Keep(disk[g], A)
             S == Range(disk[g])
  <2>1. disk[g] \in Seq(S)
    BY DEF Vendored
  <2>2. list \in Seq(S \cap A)
    <3> HIDE DEF A, S
    <3> QED
      BY <2>1, Keeps
  <2> HIDE DEF list
  <2>3. Len(list) \in Nat /\ DOMAIN list = 1..Len(list) /\ \A i \in 1..Len(list) : list[i] \in S
    BY <2>2
  <2>4. ASSUME NEW i \in 1..Len(list)
        PROVE  Test(list[i].stem, <<g, list[i].stem, extension>>, name) \in SuiteTests(disk)
    <3> DEFINE F == {file.stem : file \in UNION {Range(disk[h]) : h \in Groups}}
               n == list[i].stem
    <3>1. n \in F
      BY <2>3
    <3> HIDE DEF n
    <3>2. <<n, g>> \in F \X Groups /\ <<n, g>>[1] = n /\ <<n, g>>[2] = g
      BY <3>1
    <3>3. \E p \in F \X Groups : Test(n, <<g, n, extension>>, name)
                                   = Test(p[1], <<p[2], p[1], Extension(p[2])>>, SuiteOf(p[2]))
      <4> HIDE DEF F
      <4> QED
        BY <1>1, <3>2, Zenon
    <3> QED
      BY <3>3, Zenon DEF SuiteTests, n
  <2>5. [i \in 1..Len(list) |-> Test(list[i].stem, <<g, list[i].stem, extension>>, name)]
          \in [1..Len(list) -> SuiteTests(disk)]
    BY <2>4
  <2>6. TestsIn(g) = [i \in 1..Len(list) |-> Test(list[i].stem, <<g, list[i].stem, extension>>, name)]
    BY <2>3 DEF list
  <2> HIDE DEF TestsIn
  <2> QED
    BY <2>3, <2>5, <2>6, FunctionIsSeq
<1>2. append_directed_testlist(tests, disk, name, extension) = FlattenSeq(ss)
  BY Zenon DEF append_directed_testlist
<1> HIDE DEF TestsIn
<1>3. Len(tests) \in Nat /\ DOMAIN tests = 1..Len(tests) /\ \A k \in DOMAIN tests : tests[k] \in Groups /\ tests[k] \in Range(tests)
  BY DEF Range
<1>4. ss \in [1..Len(tests) -> Seq(SuiteTests(disk))]
  <2>1. \A k \in 1..Len(tests) : TestsIn(tests[k]) \in Seq(SuiteTests(disk))
    BY <1>1, <1>3
  <2> QED
    BY <1>3, <2>1
<1>5. ss \in Seq(Seq(SuiteTests(disk)))
  <2> HIDE DEF ss
  <2> QED
    BY <1>3, <1>4, FunctionIsSeq
<1> HIDE DEF ss
<1> QED
  BY <1>2, <1>5, FlattenTyped

\* What is in a generated list.
LEMMA ListWritten ==
  ASSUME NEW add_tests, NEW disk, Vendored(disk)
  PROVE  LET yaml == gen_testlist(add_tests, disk)
         IN  /\ yaml \in Seq(ListEntries(disk))
             /\ \A c \in Range(Configs) : c \in Range(yaml)
<1> DEFINE S == ListEntries(disk)
           Suite(name, tests, extension) ==
             IF name \in add_tests \/ add_tests = {"all"}
             THEN append_directed_testlist(tests, disk, name, extension) ELSE <<>>
           a == Suite("riscv-tests", <<"rv32mi", "rv32ui">>, ".S")
           b == Suite("riscv-arch-tests", <<"rv32i_m/I">>, ".S")
           c == Suite("epmp-tests", <<"outputs">>, ".c")
<1>1. gen_testlist(add_tests, disk) = (((Configs \o Handwritten) \o a) \o b) \o c
  BY DEF gen_testlist
<1>2. \A s \in Seq(SuiteTests(disk)) : s \in Seq(S)
  BY DEF ListEntries, ListTests
<1>3. <<>> \in Seq(S)
  OBVIOUS
<1>4. ASSUME NEW tests \in Seq(Groups), NEW name, NEW extension,
             \A g \in Range(tests) : SuiteOf(g) = name /\ Extension(g) = extension
      PROVE  Suite(name, tests, extension) \in Seq(S)
  <2>1. append_directed_testlist(tests, disk, name, extension) \in Seq(SuiteTests(disk))
    BY <1>4, SuiteAdds
  <2> HIDE DEF S
  <2> QED
    BY <1>2, <1>3, <2>1
<1>5. a \in Seq(S)
  <2> DEFINE ts == <<"rv32mi", "rv32ui">>
  <2>1. ts \in Seq(Groups) /\ \A g \in Range(ts) : g \in {"rv32mi", "rv32ui"}
    BY DEF Groups, Range
  <2>2. \A g \in Range(ts) : SuiteOf(g) = "riscv-tests" /\ Extension(g) = ".S"
    BY <2>1 DEF SuiteOf, Extension
  <2> HIDE DEF ts, Suite, S
  <2>3. Suite("riscv-tests", ts, ".S") \in Seq(S)
    BY <1>4, <2>1, <2>2
  <2> QED
    BY <2>3 DEF ts
<1>6. b \in Seq(S)
  <2> DEFINE ts == <<"rv32i_m/I">>
  <2>1. ts \in Seq(Groups) /\ \A g \in Range(ts) : g = "rv32i_m/I"
    BY DEF Groups, Range
  <2>2. \A g \in Range(ts) : SuiteOf(g) = "riscv-arch-tests" /\ Extension(g) = ".S"
    BY <2>1 DEF SuiteOf, Extension
  <2> HIDE DEF ts, Suite, S
  <2>3. Suite("riscv-arch-tests", ts, ".S") \in Seq(S)
    BY <1>4, <2>1, <2>2
  <2> QED
    BY <2>3 DEF ts
<1>7. c \in Seq(S)
  <2> DEFINE ts == <<"outputs">>
  <2>1. ts \in Seq(Groups) /\ \A g \in Range(ts) : g = "outputs"
    BY DEF Groups, Range
  <2>2. \A g \in Range(ts) : SuiteOf(g) = "epmp-tests" /\ Extension(g) = ".c"
    BY <2>1 DEF SuiteOf, Extension
  <2> HIDE DEF ts, Suite, S
  <2>3. Suite("epmp-tests", ts, ".c") \in Seq(S)
    BY <1>4, <2>1, <2>2
  <2> QED
    BY <2>3 DEF ts
<1> HIDE DEF a, b, c
<1>8. Configs \in Seq(S) /\ Handwritten \in Seq(S)
  <2>1. Len(Configs) = 3 /\ Len(Handwritten) = 3 /\ DOMAIN Configs = 1..3 /\ DOMAIN Handwritten = 1..3
    BY DEF Configs, Handwritten
  <2>2. Configs \in [1..3 -> S]
    <3>1. Configs = [i \in 1..3 |-> Configs[i]]
      BY DEF Configs
    <3> QED
      BY <2>1, <3>1 DEF ListEntries, Range
  <2>3. Handwritten \in [1..3 -> S]
    <3>1. Handwritten = [i \in 1..3 |-> Handwritten[i]]
      BY DEF Handwritten
    <3> QED
      BY <2>1, <3>1 DEF ListEntries, ListTests, Range
  <2> HIDE DEF S
  <2> QED
    BY <2>2, <2>3, FunctionIsSeq, Zenon
<1> HIDE DEF S
<1> DEFINE u == Configs \o Handwritten
           v == u \o a
           w == v \o b
<1>9. u \in Seq(S) /\ v \in Seq(S) /\ w \in Seq(S) /\ w \o c \in Seq(S)
  BY <1>5, <1>6, <1>7, <1>8
<1>10. ASSUME NEW x \in Range(Configs) PROVE x \in Range(w \o c)
  <2>1. x \in Range(u)
    BY <1>8, RangeJoin
  <2> HIDE DEF u
  <2>2. x \in Range(v)
    BY <1>5, <1>9, <2>1, RangeJoin
  <2> HIDE DEF v
  <2>3. x \in Range(w)
    BY <1>6, <1>9, <2>2, RangeJoin
  <2> HIDE DEF w
  <2> QED
    BY <1>7, <1>9, <2>3, RangeJoin
<1> QED
  BY <1>1, <1>9, <1>10 DEF S

\* The configuration a test names.
ConfigOf(t) == CHOOSE c \in Range(Configs) : c.config = t.config

\* Every configuration a test names is there, and once.
LEMMA ConfigFound ==
  ASSUME NEW t, t.config \in ConfigNames
  PROVE  /\ ConfigOf(t) \in Range(Configs) /\ ConfigOf(t).config = t.config
         /\ \A c \in Range(Configs) : c.config = t.config => c = ConfigOf(t)
<1>1. \E c \in Range(Configs) : c.config = t.config
  BY ConfigFields
<1>2. ConfigOf(t) \in Range(Configs) /\ ConfigOf(t).config = t.config
  BY <1>1 DEF ConfigOf
<1> QED
  BY <1>2, ConfigFields

\* A test with what its configuration gives it.
LEMMA JoinedFields ==
  ASSUME NEW disk, NEW t \in ListTests(disk)
  PROVE  LET j == Joined(ConfigOf(t), t)
         IN  /\ DTest \subseteq DOMAIN j /\ j.iterations > 0 /\ j.timeout_s > 0 /\ j.test = t.test
             /\ j.config = t.config /\ j.test_srcs = t.test_srcs
             /\ \A k \in DTest : j[k] = IF k \in DOMAIN t THEN t[k] ELSE ConfigOf(t)[k]
<1> DEFINE c == ConfigOf(t)
           j == Joined(c, t)
<1>1. TestKeys \subseteq DOMAIN t /\ "timeout_s" \notin DOMAIN t /\ t.iterations = 1 /\ t.config \in ConfigNames
  BY ListTestFields
<1>2. DConfig \subseteq DOMAIN c /\ c.timeout_s = 300
  BY <1>1, ConfigFound, ConfigFields
<1> HIDE DEF c
<1>3. DTest \subseteq DOMAIN c \cup DOMAIN t
  BY <1>1, <1>2 DEF DTest, TestKeys
<1>4. \A k \in DTest : j[k] = IF k \in DOMAIN t THEN t[k] ELSE c[k]
  BY <1>3 DEF Joined
<1>5. DOMAIN j = DOMAIN c \cup DOMAIN t
  BY DEF Joined
<1> HIDE DEF j
<1>6. "iterations" \in DTest /\ "timeout_s" \in DTest /\ "test" \in DTest /\ "config" \in DTest /\ "test_srcs" \in DTest
  BY DEF DTest, DConfig
<1>7. "iterations" \in DOMAIN t /\ "test" \in DOMAIN t /\ "config" \in DOMAIN t /\ "test_srcs" \in DOMAIN t
  BY <1>1 DEF TestKeys
<1>8. j.iterations = 1 /\ j.timeout_s = 300 /\ j.test = t.test /\ j.config = t.config /\ j.test_srcs = t.test_srcs
  BY <1>1, <1>2, <1>4, <1>6, <1>7
<1>9. j.iterations > 0 /\ j.timeout_s > 0
  BY <1>8
<1> QED
  BY <1>3, <1>4, <1>5, <1>8, <1>9 DEF j, c

\* The list as it is read: every test joined with its configuration.
Reads(model, tests, disk) ==
  model = IF \A i \in DOMAIN tests : Exists(tests[i].test_srcs, disk)
          THEN Return([i \in DOMAIN tests |-> Joined(ConfigOf(tests[i]), tests[i])]) ELSE Raise

\* Reading a list finds its tests, and the configuration of each.
LEMMA ListRead ==
  ASSUME NEW disk, NEW yaml \in Seq(ListEntries(disk)), \A c \in Range(Configs) : c \in Range(yaml)
  PROVE  \E tests \in Seq(ListTests(disk)) :
           /\ \A e : e \in Range(tests) <=> e \in Range(yaml) /\ IsTest(e)
           /\ Reads(import_model(yaml, disk), tests, disk)
<1> DEFINE S == ListEntries(disk)
           A == {e \in Range(yaml) : ~IsTest(e)}
           B == {e \in Range(yaml) : IsTest(e)}
           configs == Keep(yaml, A)
           tests == Keep(yaml, B)
           Matching(t) == Keep(configs, {c \in Range(configs) : c.config = t.config})
           joined == [i \in DOMAIN tests |-> Joined(Head(Matching(tests[i])), tests[i])]
<1>1. import_model(yaml, disk) = IF \E i \in DOMAIN tests : Matching(tests[i]) = <<>> THEN Raise
                                 ELSE IF ~Valid(configs, joined, disk) THEN Raise ELSE Return(joined)
  BY Zenon DEF import_model
<1>2. /\ configs \in Seq(S \cap A) /\ \A x : x \in Range(configs) <=> x \in Range(yaml) /\ x \in A
      /\ tests \in Seq(S \cap B) /\ \A x : x \in Range(tests) <=> x \in Range(yaml) /\ x \in B
  <2> HIDE DEF A, B
  <2> QED
    BY Keeps
<1>3. \A x \in Range(yaml) : x \in S
  BY DEF Range
<1>4. \A x : x \in Range(configs) <=> x \in Range(Configs)
  <2>1. \A x \in Range(configs) : x \in Range(Configs)
    BY <1>2, <1>3, ListTestFields DEF ListEntries
  <2>2. \A x \in Range(Configs) : x \in Range(configs)
    BY <1>2, ConfigFields
  <2> QED
    BY <2>1, <2>2
<1>5. \A x \in S \cap B : x \in ListTests(disk)
  BY ConfigFields DEF ListEntries
<1>6. tests \in Seq(ListTests(disk)) /\ \A e : e \in Range(tests) <=> e \in Range(yaml) /\ IsTest(e)
  <2>1. S \cap B \subseteq ListTests(disk)
    BY <1>5
  <2>2. \A s, T, U : s \in Seq(T) /\ T \subseteq U => s \in Seq(U)
    OBVIOUS
  <2>3. tests \in Seq(ListTests(disk))
    <3> HIDE DEF tests, S, B
    <3> QED
      BY <1>2, <2>1, <2>2
  <2> QED
    BY <1>2, <2>3
<1>7. configs \in Seq(Range(configs))
  <2>1. Len(configs) \in Nat /\ configs \in [1..Len(configs) -> Range(configs)]
    <3> HIDE DEF configs, S, A
    <3> QED
      BY <1>2 DEF Range
  <2> HIDE DEF configs
  <2> QED
    BY <2>1, FunctionIsSeq
<1> HIDE DEF tests, configs, A, B, S
<1>8. ASSUME NEW i \in DOMAIN tests
      PROVE  tests[i] \in ListTests(disk) /\ Matching(tests[i]) # <<>> /\ Head(Matching(tests[i])) = ConfigOf(tests[i])
  <2> DEFINE t == tests[i]
             M == {c \in Range(configs) : c.config = t.config}
             R == Range(configs)
             found == Keep(configs, M)
  <2>1. t \in ListTests(disk)
    BY <1>6
  <2>2. t.config \in ConfigNames
    BY <2>1, ListTestFields
  <2>3. \A c : c \in M <=> c = ConfigOf(t)
    BY <1>4, <2>2, ConfigFound
  <2>4. found \in Seq(R \cap M) /\ \A x : x \in Range(found) <=> x \in Range(configs) /\ x \in M
    <3> HIDE DEF M, t
    <3> QED
      BY <1>7, Keeps
  <2>5. \A x \in M : x \in Range(configs)
    OBVIOUS
  <2> HIDE DEF found, M, R, t
  <2>6. (found = <<>> <=> Range(found) = {}) /\ (found # <<>> => Head(found) \in Range(found))
    BY <2>4, EmptyRange
  <2>7. ConfigOf(t) \in Range(found) /\ \A x \in Range(found) : x = ConfigOf(t)
    BY <2>3, <2>4, <2>5
  <2>8. found # <<>> /\ Head(found) = ConfigOf(t)
    BY <2>6, <2>7
  <2> QED
    BY <2>1, <2>8 DEF found, M, t
<1> HIDE DEF Matching
<1>9. joined = [i \in DOMAIN tests |-> Joined(ConfigOf(tests[i]), tests[i])]
  BY <1>8
<1> HIDE DEF joined
<1>10. DOMAIN joined = DOMAIN tests /\ \A i \in DOMAIN tests : joined[i] = Joined(ConfigOf(tests[i]), tests[i])
  BY <1>9
<1>11. \A i \in DOMAIN configs : DConfig \subseteq DOMAIN configs[i]
  <2>1. \A i \in DOMAIN configs : configs[i] \in Range(Configs)
    BY <1>4 DEF Range
  <2> QED
    BY <2>1, ConfigFields
<1>12. ASSUME NEW i \in DOMAIN tests
       PROVE  /\ DTest \subseteq DOMAIN joined[i] /\ joined[i].iterations > 0 /\ joined[i].timeout_s > 0
              /\ \E c \in DOMAIN configs : configs[c].config = joined[i].config
              /\ joined[i].test_srcs = tests[i].test_srcs
  <2>1. tests[i] \in ListTests(disk)
    BY <1>8
  <2> DEFINE t == tests[i]
             j == Joined(ConfigOf(t), t)
  <2>2. joined[i] = j /\ t \in ListTests(disk)
    BY <1>10, <2>1
  <2> HIDE DEF t
  <2>3. DTest \subseteq DOMAIN j /\ j.iterations > 0 /\ j.timeout_s > 0 /\ j.config = t.config /\ j.test_srcs = t.test_srcs
    BY <2>2, JoinedFields
  <2>4. ConfigOf(t) \in Range(configs) /\ ConfigOf(t).config = t.config
    BY <1>4, <2>2, ConfigFound, ListTestFields
  <2>5. \E c \in DOMAIN configs : configs[c].config = t.config
    BY <2>4 DEF Range
  <2> HIDE DEF j
  <2> QED
    BY <2>2, <2>3, <2>5 DEF t
<1>13. Valid(configs, joined, disk) <=> \A i \in DOMAIN tests : Exists(tests[i].test_srcs, disk)
  BY <1>10, <1>11, <1>12 DEF Valid
<1>14. Reads(import_model(yaml, disk), tests, disk)
  <2>1. \A i \in DOMAIN tests : Matching(tests[i]) # <<>>
    BY <1>8
  <2> QED
    BY <1>1, <1>9, <1>13, <2>1 DEF Reads
<1> QED
  BY <1>6, <1>14

\* What is stored with a test is its own entry.
LEMMA DataFound ==
  ASSUME NEW disk, Vendored(disk), NEW tests \in Seq(ListTests(disk)),
         \A i \in DOMAIN tests : Exists(tests[i].test_srcs, disk), NEW t \in Range(tests)
  PROVE  directed_data([i \in DOMAIN tests |-> Joined(ConfigOf(tests[i]), tests[i])], t.test) = Joined(ConfigOf(t), t)
<1> DEFINE model == [i \in DOMAIN tests |-> Joined(ConfigOf(tests[i]), tests[i])]
           R == Range(model)
           M == {e \in R : e.test = t.test}
           found == Keep(model, M)
<1>1. DOMAIN tests = 1..Len(tests) /\ Len(tests) \in Nat /\ \A i \in DOMAIN tests : tests[i] \in ListTests(disk)
  OBVIOUS
<1>2. \A i \in DOMAIN tests : model[i] = Joined(ConfigOf(tests[i]), tests[i]) /\ model[i].test = tests[i].test
  <2>1. \A i \in DOMAIN tests : Joined(ConfigOf(tests[i]), tests[i]).test = tests[i].test
    BY <1>1, JoinedFields
  <2> QED
    BY <2>1
<1>3. DOMAIN model = 1..Len(tests)
  BY <1>1
<1>4. model \in Seq(R)
  <2>1. model = [i \in 1..Len(tests) |-> model[i]]
    BY <1>1
  <2> HIDE DEF model
  <2>2. model \in [1..Len(tests) -> R]
    BY <1>3, <2>1 DEF Range
  <2> HIDE DEF R
  <2> QED
    BY <1>1, <2>2, FunctionIsSeq
<1> HIDE DEF model
<1>5. found \in Seq(R \cap M) /\ \A x : x \in Range(found) <=> x \in R /\ x \in M
  <2> HIDE DEF M
  <2> QED
    BY <1>4, Keeps
<1> HIDE DEF found
<1>6. (found = <<>> <=> Range(found) = {}) /\ (found # <<>> => Head(found) \in Range(found))
  <2> HIDE DEF R, M
  <2> QED
    BY <1>5, EmptyRange
<1>7. PICK i \in DOMAIN tests : tests[i] = t
  BY DEF Range
<1>8. model[i] \in Range(found)
  BY <1>1, <1>2, <1>3, <1>5, <1>7, Zenon DEF Range
<1>9. Head(found) \in R /\ Head(found).test = t.test
  BY <1>5, <1>6, <1>8
<1>10. PICK j \in DOMAIN tests : Head(found) = model[j]
  BY <1>1, <1>3, <1>9 DEF Range
<1>11. tests[j] = t
  <2>1. tests[j].test = t.test /\ tests[j] \in ListTests(disk) /\ t \in ListTests(disk)
    BY <1>1, <1>2, <1>7, <1>9, <1>10
  <2>2. Exists(tests[j].test_srcs, disk) /\ Exists(t.test_srcs, disk)
    BY <1>7
  <2> QED
    BY <2>1, <2>2, TestsNamed
<1>12. Head(found) = Joined(ConfigOf(t), t)
  BY <1>2, <1>10, <1>11
<1>13. directed_data(model, t.test) = Head(found)
  BY Zenon DEF directed_data, found
<1> QED
  BY <1>12, <1>13 DEF model

\* gen_testlist.py and directed_test_schema.py: whatever is in the directories of the
\* suites, a generated list is read back exactly when every entry is a test, and every
\* test then gets its own settings and those of its configuration.
THEOREM ListsRead == Spec => []GeneratedListReads
<1>1. Given => GeneratedListReads
  <2> SUFFICES ASSUME Given, in.kind = "suite" PROVE GeneratedListReads
    BY DEF GeneratedListReads
  <2> DEFINE disk == in.of.disk
             yaml == gen_testlist(in.of.add_tests, disk)
             model == import_model(yaml, disk)
             T == {yaml[i] : i \in {j \in DOMAIN yaml : IsTest(yaml[j])}}
  <2>1. Vendored(disk)
    BY InputAssumption, DirectoriesGive DEF Given
  <2>2. yaml \in Seq(ListEntries(disk)) /\ \A c \in Range(Configs) : c \in Range(yaml)
    BY <2>1, ListWritten
  <2> HIDE DEF disk, yaml
  <2>3. PICK tests \in Seq(ListTests(disk)) :
          /\ \A e : e \in Range(tests) <=> e \in Range(yaml) /\ IsTest(e)
          /\ Reads(model, tests, disk)
    BY <2>2, ListRead
  <2> HIDE DEF model
  <2>4. \A e : e \in T <=> e \in Range(tests)
    BY <2>3, Zenon DEF Range
  <2> HIDE DEF T
  <2> DEFINE joined == [i \in DOMAIN tests |-> Joined(ConfigOf(tests[i]), tests[i])]
  <2> HIDE DEF joined
  <2>5. model = IF \A i \in DOMAIN tests : Exists(tests[i].test_srcs, disk) THEN Return(joined) ELSE Raise
    BY <2>3 DEF Reads, joined
  <2>6. \A x : ~Raised(Return(x)) /\ Value(Return(x)) = x
    BY DEF Raised, Raise, Return, Value
  <2>7. ~Raised(model) <=> \A i \in DOMAIN tests : Exists(tests[i].test_srcs, disk)
    BY <2>5, <2>6 DEF Raised
  <2>8. ~Raised(model) <=> \A t \in T : Exists(t.test_srcs, disk)
    BY <2>4, <2>7 DEF Range
  <2>9. ASSUME ~Raised(model), NEW t \in T, NEW k \in DTest
        PROVE  directed_data(Value(model), t.test)[k] = IF k \in DOMAIN t THEN t[k] ELSE ConfigOf(t)[k]
    <3>1. t \in Range(tests) /\ t \in ListTests(disk)
      BY <2>3, <2>4 DEF Range
    <3>2. Value(model) = joined
      BY <2>5, <2>6, <2>7, <2>9
    <3>3. directed_data(joined, t.test) = Joined(ConfigOf(t), t)
      BY <2>1, <2>3, <2>7, <2>9, <3>1, DataFound DEF joined
    <3>4. Joined(ConfigOf(t), t)[k] = IF k \in DOMAIN t THEN t[k] ELSE ConfigOf(t)[k]
      BY <3>1, JoinedFields
    <3> QED
      BY <3>2, <3>3, <3>4
  <2> QED
    BY <2>8, <2>9 DEF GeneratedListReads, T, model, yaml, disk, ConfigOf
<1> QED
  BY <1>1, InputGiven, PTL

-----------------------------------------------------------------------------
\* conductor.py, split_by_prefixes

\* A list is one of its own elements.
LEMMA OwnRange ==
  ASSUME NEW S, NEW s \in Seq(S)
  PROVE  /\ s \in Seq(Range(s)) /\ Len(s) \in Nat /\ DOMAIN s = 1..Len(s)
         /\ \A i \in DOMAIN s : s[i] \in Range(s) /\ s[i] \in S
         /\ \A x \in Range(s) : x \in S /\ \E i \in DOMAIN s : s[i] = x
<1>1. Len(s) \in Nat /\ DOMAIN s = 1..Len(s) /\ s \in [1..Len(s) -> Range(s)]
  BY DEF Range
<1>2. s \in Seq(Range(s))
  BY <1>1, FunctionIsSeq
<1>3. \A i \in DOMAIN s : s[i] \in Range(s) /\ s[i] \in S
  BY DEF Range
<1>4. \A x \in Range(s) : \E i \in DOMAIN s : s[i] = x
  BY DEF Range
<1> QED
  BY <1>1, <1>2, <1>3, <1>4

\* What a property is, and the call that is given it after n chunks.
Chunks(names) == UNION {Range(p[1]) : p \in Range(names)}
IsProperty(p, names) == p[1] \in Seq(Chunks(names)) /\ Len(p[1]) \in Nat /\ Len(p[1]) > 0
On(p, pre) == Len(p[1]) > Len(pre) /\ Taken(p[1], Len(pre)) = pre

\* What is known of a list of properties.
LEMMA PropertiesGiven ==
  ASSUME NEW names, PropertyList(names)
  PROVE  /\ names \in Seq(Range(names)) /\ Len(names) \in Nat /\ DOMAIN names = 1..Len(names)
         /\ \A p \in Range(names) : IsProperty(p, names)
         /\ \A p, q \in Range(names) : p[2] = q[2] => p = q
         /\ IsInjective(names)
<1> DEFINE S == (Seq(Chunks(names)) \ {<<>>}) \X {p[2] : p \in Range(names)}
<1>1. names \in Seq(S) /\ \A i, j \in DOMAIN names : names[i][2] = names[j][2] => i = j
  BY DEF PropertyList, Chunks
<1>2. \A p \in S : p[1] \in Seq(Chunks(names)) /\ p[1] # <<>>
  OBVIOUS
<1> HIDE DEF S
<1>3. /\ names \in Seq(Range(names)) /\ Len(names) \in Nat /\ DOMAIN names = 1..Len(names)
      /\ \A x \in Range(names) : x \in S /\ \E i \in DOMAIN names : names[i] = x
  BY <1>1, OwnRange
<1>4. \A p \in Range(names) : IsProperty(p, names)
  <2>1. \A s \in Seq(Chunks(names)) : s # <<>> => Len(s) \in Nat /\ Len(s) > 0
    OBVIOUS
  <2> QED
    BY <1>2, <1>3, <2>1 DEF IsProperty
<1>5. \A p, q \in Range(names) : p[2] = q[2] => p = q
  BY <1>1, <1>3
<1>6. IsInjective(names)
  BY <1>1 DEF IsInjective
<1> QED
  BY <1>3, <1>4, <1>5, <1>6

\* The chunks taken off.
LEMMA TakenGives ==
  ASSUME NEW C, NEW c \in Seq(C), NEW n \in 0..Len(c)
  PROVE  /\ Taken(c, n) \in Seq(C) /\ Len(Taken(c, n)) = n
         /\ \A k \in 1..n : Taken(c, n)[k] = c[k]
<1>1. n \in Nat /\ Taken(c, n) \in [1..n -> C]
  BY DEF Taken
<1>2. \A k \in 1..n : Taken(c, n)[k] = c[k]
  BY DEF Taken
<1> QED
  BY <1>1, <1>2, FunctionIsSeq

\* One chunk more.
LEMMA TakenNext ==
  ASSUME NEW C, NEW c \in Seq(C), NEW n \in 0..(Len(c) - 1)
  PROVE  Taken(c, n + 1) = Append(Taken(c, n), c[n + 1])
<1>1. n + 1 \in 1..Len(c) /\ n \in Nat /\ (n + 1) - 1 = n
  OBVIOUS
<1>2. Prefix(c, n + 1) = Append(Prefix(c, (n + 1) - 1), c[n + 1])
  BY <1>1, PrefixesGrow
<1>3. \A m : Taken(c, m) = Prefix(c, m)
  BY DEF Taken, Prefix
<1> QED
  BY <1>1, <1>2, <1>3

\* More chunks say more.
LEMMA TakenLess ==
  ASSUME NEW n \in Nat, NEW c, NEW d, Taken(c, n + 1) = Taken(d, n + 1)
  PROVE  Taken(c, n) = Taken(d, n)
<1>1. \A k \in 1..n : k \in 1..(n + 1)
  OBVIOUS
<1>2. \A k \in 1..(n + 1) : c[k] = d[k]
  BY DEF Taken
<1> QED
  BY <1>1, <1>2 DEF Taken

\* The keys of buckets: each of the next chunks once.
LEMMA HeadsGive ==
  ASSUME NEW P, NEW props \in Seq(P), NEW n \in Nat
  PROVE  LET heads == Heads(props, n)
         IN  /\ heads \in Seq(Range(heads)) /\ IsInjective(heads)
             /\ \A x : x \in Range(heads) <=> \E p \in Range(props) : Len(p[1]) > n + 1 /\ x = p[1][n + 1]
<1> DEFINE A == {p \in Range(props) : Len(p[1]) > n + 1}
           firsts == Keep(props, A)
           Key(i) == firsts[i][1][n + 1]
           new == {i \in DOMAIN firsts : \A j \in 1..(i - 1) : Key(j) # Key(i)}
           all == [i \in DOMAIN firsts |-> i]
           idx == Keep(all, new)
           heads == [i \in DOMAIN idx |-> Key(idx[i])]
<1>1. Heads(props, n) = heads
  BY Zenon DEF Heads
<1>2. firsts \in Seq(P \cap A) /\ \A x : x \in Range(firsts) <=> x \in Range(props) /\ x \in A
  <2> HIDE DEF A
  <2> QED
    BY Keeps
<1> HIDE DEF firsts
<1>3. /\ Len(firsts) \in Nat /\ DOMAIN firsts = 1..Len(firsts)
      /\ (\A i \in DOMAIN firsts : firsts[i] \in Range(firsts))
      /\ \A x \in Range(firsts) : \E i \in DOMAIN firsts : firsts[i] = x
  <2> HIDE DEF A
  <2> QED
    BY <1>2, OwnRange
<1>4. all \in Seq(Nat) /\ IsInjective(all) /\ \A x : x \in Range(all) <=> x \in DOMAIN firsts
  <2>1. all \in [1..Len(firsts) -> Nat]
    BY <1>3
  <2>2. IsInjective(all)
    BY DEF IsInjective
  <2>3. \A x : x \in Range(all) <=> x \in DOMAIN firsts
    BY DEF Range
  <2> HIDE DEF all
  <2> QED
    BY <1>3, <2>1, <2>2, <2>3, FunctionIsSeq
<1>5. /\ idx \in Seq(Nat \cap new) /\ IsInjective(idx)
      /\ \A x : x \in Range(idx) <=> x \in Range(all) /\ x \in new
  <2> HIDE DEF all, new
  <2> QED
    BY <1>4, Keeps, KeepDistinct
<1> HIDE DEF idx
<1>6. /\ Len(idx) \in Nat /\ DOMAIN idx = 1..Len(idx) /\ (\A i \in DOMAIN idx : idx[i] \in new)
      /\ \A x \in Range(idx) : \E i \in DOMAIN idx : idx[i] = x
  <2> HIDE DEF new
  <2>1. /\ Len(idx) \in Nat /\ DOMAIN idx = 1..Len(idx) /\ (\A i \in DOMAIN idx : idx[i] \in Nat \cap new)
        /\ \A x \in Range(idx) : \E i \in DOMAIN idx : idx[i] = x
    BY <1>5, OwnRange
  <2> QED
    BY <2>1
<1>7. DOMAIN heads = 1..Len(idx) /\ \A i \in DOMAIN idx : heads[i] = Key(idx[i])
  BY <1>6
<1>8. heads \in Seq(Range(heads))
  <2>1. heads = [i \in 1..Len(idx) |-> heads[i]]
    BY <1>6
  <2> HIDE DEF heads
  <2>2. heads \in [1..Len(idx) -> Range(heads)]
    BY <1>6, <1>7, <2>1 DEF Range
  <2> QED
    BY <1>6, <2>2, FunctionIsSeq
<1>9. \A i, j \in new : Key(i) = Key(j) => i = j
  <2> SUFFICES ASSUME NEW i \in new, NEW j \in new, Key(i) = Key(j), i < j PROVE FALSE
    BY <1>3
  <2>1. i \in 1..(j - 1)
    BY <1>3
  <2> QED
    BY <2>1
<1>10. ASSUME NEW i \in DOMAIN firsts PROVE \E j \in new : Key(j) = Key(i)
  <2> DEFINE U == {j \in DOMAIN firsts : Key(j) = Key(i)}
  <2>1. U \in SUBSET Nat /\ U # {}
    BY <1>3
  <2>2. PICK j \in U : \A k \in U : j <= k
    <3> HIDE DEF U
    <3> QED
      BY <2>1, LeastElement
  <2>3. ASSUME NEW k \in 1..(j - 1), Key(k) = Key(j) PROVE FALSE
    <3>1. k \in U
      BY <1>3, <2>2, <2>3
    <3>2. j <= k
      BY <2>2, <3>1
    <3> QED
      BY <1>3, <2>2, <3>2
  <2>4. j \in new
    BY <2>2, <2>3
  <2> QED
    BY <2>2, <2>4
<1> HIDE DEF heads, Key
<1>11. IsInjective(heads)
  BY <1>5, <1>6, <1>7, <1>9 DEF IsInjective
<1>12. ASSUME NEW x PROVE x \in Range(heads) <=> \E p \in Range(props) : Len(p[1]) > n + 1 /\ x = p[1][n + 1]
  <2>1. ASSUME x \in Range(heads) PROVE \E p \in Range(props) : Len(p[1]) > n + 1 /\ x = p[1][n + 1]
    <3>1. PICK i \in DOMAIN idx : x = Key(idx[i])
      BY <1>6, <1>7, <2>1 DEF Range
    <3>2. idx[i] \in DOMAIN firsts
      BY <1>6
    <3>3. firsts[idx[i]] \in Range(props) /\ firsts[idx[i]] \in A
      BY <1>2, <1>3, <3>2
    <3> QED
      BY <3>1, <3>3 DEF Key
  <2>2. ASSUME NEW p \in Range(props), Len(p[1]) > n + 1, x = p[1][n + 1] PROVE x \in Range(heads)
    <3>1. p \in Range(firsts)
      BY <1>2, <2>2
    <3>2. PICK i \in DOMAIN firsts : firsts[i] = p
      BY <1>3, <3>1
    <3>3. PICK j \in new : Key(j) = Key(i)
      BY <1>10
    <3>4. j \in Range(idx)
      BY <1>4, <1>5, Zenon
    <3>5. PICK k \in DOMAIN idx : idx[k] = j
      BY <1>6, <3>4
    <3>6. heads[k] = x /\ k \in DOMAIN heads
      BY <1>6, <1>7, <2>2, <3>2, <3>3, <3>5 DEF Key
    <3> QED
      BY <3>6 DEF Range
  <2> QED
    BY <2>1, <2>2
<1> QED
  BY <1>1, <1>8, <1>11, <1>12

\* The parts of a call: the properties that are done, and the keys.
Done(names, pre) == LET props == Bucket(names, pre)
                    IN  Keep(props, {p \in Range(props) : Len(p[1]) = Len(pre) + 1})
Keys(names, pre) == Heads(Bucket(names, pre), Len(pre))

\* Where a property is after n chunks: a leaf, or in the call of those chunks.
At(p, n) == IF Len(p[1]) <= n THEN <<"prop", p[2]>> ELSE <<"call", Taken(p[1], n)>>
Labels(names) == {<<"prop", p[2]>> : p \in Range(names)} \cup {<<"call", c>> : c \in Calls(names)}

\* What group makes of a call, its calls by their names.
Leafs(names, pre) == [i \in DOMAIN Done(names, pre) |-> <<"prop", Done(names, pre)[i][2]>>]
Below(names, pre) == [i \in DOMAIN Keys(names, pre) |-> <<"call", Append(pre, Keys(names, pre)[i])>>]
Children(names, pre) == Leafs(names, pre) \o Below(names, pre)

\* A call of group is named by chunks.
LEMMA CallsGiven ==
  ASSUME NEW names, PropertyList(names), NEW pre \in Calls(names)
  PROVE  pre \in Seq(Chunks(names)) /\ Len(pre) \in Nat
<1>1. \A p \in Range(names) : IsProperty(p, names)
  BY PropertiesGiven
<1>2. CASE pre = <<>>
  BY <1>2
<1>3. CASE pre # <<>>
  <2>1. PICK p \in Range(names) : \E n \in 0..(Len(p[1]) - 1) : pre = Taken(p[1], n)
    BY <1>3 DEF Calls
  <2>2. PICK n \in 0..(Len(p[1]) - 1) : pre = Taken(p[1], n)
    BY <2>1
  <2>3. n \in 0..Len(p[1]) /\ p[1] \in Seq(Chunks(names))
    BY <1>1, <2>2 DEF IsProperty
  <2>4. Taken(p[1], n) \in Seq(Chunks(names))
    BY <2>3, TakenGives
  <2> QED
    BY <2>2, <2>4
<1> QED
  BY <1>2, <1>3

\* A property that has more than n chunks is in a call, and one with more than one more
\* is in a call below.
LEMMA CallOf ==
  ASSUME NEW names, PropertyList(names), NEW p \in Range(names), NEW n \in Nat, Len(p[1]) > n
  PROVE  Taken(p[1], n) \in Calls(names) /\ Len(Taken(p[1], n)) = n
<1>1. IsProperty(p, names)
  BY PropertiesGiven
<1>2. n \in 0..(Len(p[1]) - 1) /\ n \in 0..Len(p[1])
  BY <1>1 DEF IsProperty
<1>3. Len(Taken(p[1], n)) = n
  BY <1>1, <1>2, TakenGives DEF IsProperty
<1> QED
  BY <1>2, <1>3 DEF Calls

\* A bucket holds the properties that go on after its chunks, once each.
LEMMA BucketGives ==
  ASSUME NEW names, PropertyList(names), NEW pre
  PROVE  LET props == Bucket(names, pre)
         IN  /\ props \in Seq(Range(names)) /\ IsInjective(props)
             /\ \A p : p \in Range(props) <=> p \in Range(names) /\ On(p, pre)
<1> DEFINE A == {p \in Range(names) : Len(p[1]) > Len(pre) /\ Taken(p[1], Len(pre)) = pre}
           R == Range(names)
<1>1. names \in Seq(R) /\ IsInjective(names)
  BY PropertiesGiven
<1>2. Bucket(names, pre) = Keep(names, A)
  BY DEF Bucket
<1>3. \A p : p \in A <=> p \in R /\ On(p, pre)
  BY DEF On
<1> HIDE DEF A, R
<1>4. /\ Keep(names, A) \in Seq(R \cap A) /\ IsInjective(Keep(names, A))
      /\ \A x : x \in Range(Keep(names, A)) <=> x \in Range(names) /\ x \in A
  BY <1>1, Keeps, KeepDistinct
<1>5. Keep(names, A) \in Seq(R)
  BY <1>4
<1> QED
  BY <1>2, <1>3, <1>4, <1>5 DEF R

\* The properties that a call of group is done with.
LEMMA LeafsGive ==
  ASSUME NEW names, PropertyList(names), NEW pre \in Calls(names)
  PROVE  /\ Leafs(names, pre) \in Seq(Labels(names)) /\ IsInjective(Leafs(names, pre))
         /\ \A x : x \in Range(Leafs(names, pre)) <=>
              \E p \in Range(names) : On(p, pre) /\ Len(p[1]) = Len(pre) + 1 /\ x = <<"prop", p[2]>>
<1> DEFINE props == Bucket(names, pre)
           A == {p \in Range(props) : Len(p[1]) = Len(pre) + 1}
           R == Range(names)
           done == Keep(props, A)
           l == [i \in DOMAIN done |-> <<"prop", done[i][2]>>]
<1>1. props \in Seq(R) /\ IsInjective(props) /\ \A p : p \in Range(props) <=> p \in Range(names) /\ On(p, pre)
  BY BucketGives
<1>2. Leafs(names, pre) = l
  BY Zenon DEF Leafs, Done
<1> HIDE DEF props
<1>3. done \in Seq(R \cap A) /\ IsInjective(done) /\ \A x : x \in Range(done) <=> x \in Range(props) /\ x \in A
  <2> HIDE DEF R, A
  <2> QED
    BY <1>1, Keeps, KeepDistinct
<1> HIDE DEF done
<1>4. /\ Len(done) \in Nat /\ DOMAIN done = 1..Len(done) /\ (\A i \in DOMAIN done : done[i] \in Range(done))
      /\ \A x \in Range(done) : \E i \in DOMAIN done : done[i] = x
  <2> HIDE DEF R, A
  <2> QED
    BY <1>3, OwnRange
<1>5. \A i \in DOMAIN done : done[i] \in R /\ On(done[i], pre) /\ Len(done[i][1]) = Len(pre) + 1
  BY <1>1, <1>3, <1>4
<1>6. DOMAIN l = 1..Len(done) /\ \A i \in DOMAIN done : l[i] = <<"prop", done[i][2]>>
  BY <1>4
<1>7. l \in Seq(Labels(names))
  <2>1. l = [i \in 1..Len(done) |-> l[i]]
    BY <1>4
  <2>2. \A i \in 1..Len(done) : l[i] \in Labels(names)
    BY <1>4, <1>5, <1>6 DEF Labels
  <2> HIDE DEF l
  <2>3. l \in [1..Len(done) -> Labels(names)]
    BY <2>1, <2>2
  <2> QED
    BY <1>4, <2>3, FunctionIsSeq
<1> HIDE DEF l
<1>8. IsInjective(l)
  <2> SUFFICES ASSUME NEW i \in DOMAIN done, NEW j \in DOMAIN done, l[i] = l[j] PROVE i = j
    BY <1>4, <1>6 DEF IsInjective
  <2>1. done[i][2] = done[j][2]
    BY <1>6
  <2>2. done[i] = done[j]
    BY <1>5, <2>1, PropertiesGiven
  <2> QED
    BY <1>3, <2>2 DEF IsInjective
<1>9. ASSUME NEW x
      PROVE  x \in Range(l) <=>
               \E p \in Range(names) : On(p, pre) /\ Len(p[1]) = Len(pre) + 1 /\ x = <<"prop", p[2]>>
  <2>1. ASSUME x \in Range(l)
        PROVE  \E p \in Range(names) : On(p, pre) /\ Len(p[1]) = Len(pre) + 1 /\ x = <<"prop", p[2]>>
    <3>1. PICK i \in DOMAIN done : x = l[i]
      BY <1>4, <1>6, <2>1 DEF Range
    <3> QED
      BY <1>5, <1>6, <3>1
  <2>2. ASSUME NEW p \in Range(names), On(p, pre), Len(p[1]) = Len(pre) + 1, x = <<"prop", p[2]>>
        PROVE  x \in Range(l)
    <3>1. p \in Range(done)
      BY <1>1, <1>3, <2>2
    <3>2. PICK i \in DOMAIN done : done[i] = p
      BY <1>4, <3>1
    <3>3. l[i] = x /\ i \in DOMAIN l
      BY <1>4, <1>6, <2>2, <3>2
    <3> QED
      BY <3>3 DEF Range
  <2> QED
    BY <2>1, <2>2
<1> QED
  BY <1>2, <1>7, <1>8, <1>9

\* The next chunks of a call of group are distinct, and those of its properties.
LEMMA KeysGive ==
  ASSUME NEW names, PropertyList(names), NEW pre \in Calls(names)
  PROVE  /\ Len(Keys(names, pre)) \in Nat /\ DOMAIN Keys(names, pre) = 1..Len(Keys(names, pre))
         /\ IsInjective(Keys(names, pre))
         /\ \A x : x \in Range(Keys(names, pre)) <=>
              \E p \in Range(names) : /\ On(p, pre) /\ Len(p[1]) > Len(pre) + 1
                                      /\ x = p[1][Len(pre) + 1] /\ Append(pre, x) = Taken(p[1], Len(pre) + 1)
<1> DEFINE props == Bucket(names, pre)
           keys == Keys(names, pre)
           n == Len(pre)
<1>1. props \in Seq(Range(names)) /\ \A p : p \in Range(props) <=> p \in Range(names) /\ On(p, pre)
  BY BucketGives
<1>2. n \in Nat
  BY CallsGiven
<1>3. keys = Heads(props, n)
  BY DEF Keys
<1> HIDE DEF props, keys, n
<1>4. /\ keys \in Seq(Range(keys)) /\ IsInjective(keys)
      /\ \A x : x \in Range(keys) <=> \E p \in Range(props) : Len(p[1]) > n + 1 /\ x = p[1][n + 1]
  <2>1. props \in Seq(Range(names))
    BY <1>1
  <2>2. LET heads == Heads(props, n)
        IN  /\ heads \in Seq(Range(heads)) /\ IsInjective(heads)
            /\ \A x : x \in Range(heads) <=> \E p \in Range(props) : Len(p[1]) > n + 1 /\ x = p[1][n + 1]
    <3> DEFINE R == Range(names)
    <3>1. props \in Seq(R)
      BY <2>1
    <3> HIDE DEF R
    <3> QED
      BY <1>2, <3>1, HeadsGive, Zenon
  <2> QED
    BY <1>3, <2>2
<1>5. ASSUME NEW p \in Range(names), On(p, pre), Len(p[1]) > n + 1
      PROVE  Append(pre, p[1][n + 1]) = Taken(p[1], n + 1)
  <2>1. IsProperty(p, names)
    BY PropertiesGiven
  <2>2. p[1] \in Seq(Chunks(names)) /\ n \in 0..(Len(p[1]) - 1)
    BY <1>2, <1>5, <2>1 DEF IsProperty
  <2>3. Taken(p[1], n + 1) = Append(Taken(p[1], n), p[1][n + 1])
    BY <2>2, TakenNext
  <2> QED
    BY <1>5, <2>3 DEF On, n
<1>6. Len(keys) \in Nat /\ DOMAIN keys = 1..Len(keys)
  BY <1>4
<1>7. \A x : x \in Range(keys) <=>
        \E p \in Range(names) : /\ On(p, pre) /\ Len(p[1]) > n + 1
                                /\ x = p[1][n + 1] /\ Append(pre, x) = Taken(p[1], n + 1)
  BY <1>1, <1>4, <1>5
<1> QED
  BY <1>4, <1>6, <1>7 DEF keys, n

\* The calls of group made by a call of group.
LEMMA BelowGive ==
  ASSUME NEW names, PropertyList(names), NEW pre \in Calls(names)
  PROVE  /\ Below(names, pre) \in Seq(Labels(names)) /\ IsInjective(Below(names, pre))
         /\ \A i \in DOMAIN Keys(names, pre) : Append(pre, Keys(names, pre)[i]) \in Calls(names)
         /\ \A x : x \in Range(Below(names, pre)) <=>
              \E p \in Range(names) : /\ On(p, pre) /\ Len(p[1]) > Len(pre) + 1
                                      /\ x = <<"call", Taken(p[1], Len(pre) + 1)>>
<1> DEFINE keys == Keys(names, pre)
           n == Len(pre)
           l == [i \in DOMAIN keys |-> <<"call", Append(pre, keys[i])>>]
<1>1. n \in Nat /\ n + 1 \in Nat /\ pre \in Seq(Chunks(names))
  BY CallsGiven
<1>2. Below(names, pre) = l
  BY Zenon DEF Below
<1>3. /\ Len(keys) \in Nat /\ DOMAIN keys = 1..Len(keys) /\ IsInjective(keys)
      /\ \A x : x \in Range(keys) <=>
           \E p \in Range(names) : /\ On(p, pre) /\ Len(p[1]) > n + 1
                                   /\ x = p[1][n + 1] /\ Append(pre, x) = Taken(p[1], n + 1)
  BY KeysGive
<1> HIDE DEF keys, n
<1>4. ASSUME NEW i \in DOMAIN keys
      PROVE  \E p \in Range(names) : /\ On(p, pre) /\ Len(p[1]) > n + 1 /\ keys[i] = p[1][n + 1]
                                     /\ Append(pre, keys[i]) = Taken(p[1], n + 1)
  <2>1. keys[i] \in Range(keys)
    BY DEF Range
  <2> QED
    BY <1>3, <2>1
<1>5. \A i \in DOMAIN keys : Append(pre, keys[i]) \in Calls(names)
  BY <1>1, <1>4, CallOf, Zenon
<1>6. DOMAIN l = 1..Len(keys) /\ \A i \in DOMAIN keys : l[i] = <<"call", Append(pre, keys[i])>>
  BY <1>3
<1>7. l \in Seq(Labels(names))
  <2>1. l = [i \in 1..Len(keys) |-> l[i]]
    BY <1>3
  <2>2. \A i \in 1..Len(keys) : l[i] \in Labels(names)
    BY <1>3, <1>5, <1>6, Zenon DEF Labels
  <2> HIDE DEF l
  <2>3. l \in [1..Len(keys) -> Labels(names)]
    BY <2>1, <2>2
  <2> QED
    BY <1>3, <2>3, FunctionIsSeq
<1> HIDE DEF l
<1>8. IsInjective(l)
  <2> SUFFICES ASSUME NEW i \in DOMAIN keys, NEW j \in DOMAIN keys, l[i] = l[j] PROVE i = j
    BY <1>3, <1>6 DEF IsInjective
  <2>1. Append(pre, keys[i]) = Append(pre, keys[j])
    BY <1>6
  <2>2. PICK p \in Range(names) : On(p, pre) /\ Len(p[1]) > n + 1 /\ keys[i] = p[1][n + 1] /\ Append(pre, keys[i]) = Taken(p[1], n + 1)
    BY <1>4
  <2>3. PICK q \in Range(names) : On(q, pre) /\ Len(q[1]) > n + 1 /\ keys[j] = q[1][n + 1] /\ Append(pre, keys[j]) = Taken(q[1], n + 1)
    BY <1>4
  <2>4. Taken(p[1], n + 1)[n + 1] = p[1][n + 1] /\ Taken(q[1], n + 1)[n + 1] = q[1][n + 1]
    BY <1>1 DEF Taken
  <2>5. keys[i] = keys[j]
    BY <2>1, <2>2, <2>3, <2>4
  <2> QED
    BY <1>3, <2>5 DEF IsInjective
<1>9. ASSUME NEW x
      PROVE  x \in Range(l) <=>
               \E p \in Range(names) : On(p, pre) /\ Len(p[1]) > n + 1 /\ x = <<"call", Taken(p[1], n + 1)>>
  <2>1. ASSUME x \in Range(l)
        PROVE  \E p \in Range(names) : On(p, pre) /\ Len(p[1]) > n + 1 /\ x = <<"call", Taken(p[1], n + 1)>>
    <3>1. PICK i \in DOMAIN keys : x = l[i]
      BY <1>3, <1>6, <2>1 DEF Range
    <3> QED
      BY <1>4, <1>6, <3>1, Zenon
  <2>2. ASSUME NEW p \in Range(names), On(p, pre), Len(p[1]) > n + 1, x = <<"call", Taken(p[1], n + 1)>>
        PROVE  x \in Range(l)
    <3> DEFINE k == p[1][n + 1]
    <3>1. IsProperty(p, names)
      BY PropertiesGiven
    <3>2. p[1] \in Seq(Chunks(names)) /\ n \in 0..(Len(p[1]) - 1)
      BY <1>1, <2>2, <3>1 DEF IsProperty
    <3>3. Taken(p[1], n + 1) = Append(pre, k)
      BY <2>2, <3>2, TakenNext DEF On, n
    <3>4. k \in Range(keys)
      BY <1>3, <2>2, <3>3
    <3>5. PICK i \in DOMAIN keys : keys[i] = k
      BY <3>4 DEF Range
    <3>6. l[i] = x /\ i \in DOMAIN l
      BY <1>3, <1>6, <2>2, <3>3, <3>5, Zenon
    <3> QED
      BY <3>6 DEF Range
  <2> QED
    BY <2>1, <2>2
<1> QED
  BY <1>2, <1>5, <1>7, <1>8, <1>9 DEF keys, n

\* A call is split into its properties, each in one place.
LEMMA ChildrenGive ==
  ASSUME NEW names, PropertyList(names), NEW pre \in Calls(names)
  PROVE  /\ Children(names, pre) \in Seq(Labels(names)) /\ IsInjective(Children(names, pre))
         /\ \A x : x \in Range(Children(names, pre)) <=>
              \E p \in Range(names) : On(p, pre) /\ x = At(p, Len(pre) + 1)
<1> DEFINE n == Len(pre)
           S == Labels(names)
           a == Leafs(names, pre)
           b == Below(names, pre)
<1>1. n \in Nat /\ \A p \in Range(names) : Len(p[1]) \in Nat
  BY CallsGiven, PropertiesGiven DEF IsProperty
<1>2. /\ a \in Seq(S) /\ IsInjective(a)
      /\ \A x : x \in Range(a) <=> \E p \in Range(names) : On(p, pre) /\ Len(p[1]) = n + 1 /\ x = <<"prop", p[2]>>
  BY LeafsGive
<1>3. /\ b \in Seq(S) /\ IsInjective(b)
      /\ \A x : x \in Range(b) <=>
           \E p \in Range(names) : On(p, pre) /\ Len(p[1]) > n + 1 /\ x = <<"call", Taken(p[1], n + 1)>>
  BY BelowGive
<1>4. Children(names, pre) = a \o b
  BY DEF Children
<1>5. \A p \in Range(names) : On(p, pre) => Len(p[1]) > n
  BY DEF On
<1> HIDE DEF n, S, a, b
<1>6. \A x \in Range(a) : x \notin Range(b)
  <2>1. \A x \in Range(a) : x[1] = "prop"
    BY <1>2
  <2>2. \A x \in Range(b) : x[1] = "call"
    BY <1>3
  <2> QED
    BY <2>1, <2>2
<1>7. IsInjective(a \o b) /\ a \o b \in Seq(S)
  BY <1>2, <1>3, <1>6, DistinctJoin
<1>8. ASSUME NEW x PROVE x \in Range(a \o b) <=> \E p \in Range(names) : On(p, pre) /\ x = At(p, n + 1)
  <2>1. x \in Range(a \o b) <=> x \in Range(a) \/ x \in Range(b)
    BY <1>2, <1>3, RangeJoin
  <2>2. \A p \in Range(names) : On(p, pre) =>
          At(p, n + 1) = IF Len(p[1]) = n + 1 THEN <<"prop", p[2]>> ELSE <<"call", Taken(p[1], n + 1)>>
    BY <1>1, <1>5 DEF At
  <2>3. \A p \in Range(names) : On(p, pre) => Len(p[1]) = n + 1 \/ Len(p[1]) > n + 1
    BY <1>1, <1>5
  <2>4. \A p \in Range(names) : Len(p[1]) > n + 1 => Len(p[1]) # n + 1
    BY <1>1
  <2>5. ASSUME x \in Range(a \o b) PROVE \E p \in Range(names) : On(p, pre) /\ x = At(p, n + 1)
    <3>1. CASE x \in Range(a)
      BY <1>2, <2>2, <3>1, Zenon
    <3>2. CASE x \in Range(b)
      <4>1. PICK p \in Range(names) : On(p, pre) /\ Len(p[1]) > n + 1 /\ x = <<"call", Taken(p[1], n + 1)>>
        BY <1>3, <3>2
      <4> QED
        BY <2>2, <2>4, <4>1, Zenon
    <3> QED
      BY <2>1, <2>5, <3>1, <3>2
  <2>6. ASSUME NEW p \in Range(names), On(p, pre), x = At(p, n + 1) PROVE x \in Range(a \o b)
    <3>1. CASE Len(p[1]) = n + 1
      BY <1>2, <2>1, <2>2, <2>6, <3>1, Zenon
    <3>2. CASE Len(p[1]) # n + 1
      <4>1. x = <<"call", Taken(p[1], n + 1)>>
        BY <2>2, <2>6, <3>2, Zenon
      <4>2. Len(p[1]) > n + 1
        BY <2>3, <2>6, <3>2
      <4>3. x \in Range(b)
        BY <1>3, <2>6, <4>1, <4>2
      <4> QED
        BY <2>1, <4>3
    <3> QED
      BY <3>1, <3>2
  <2> QED
    BY <2>5, <2>6
<1> QED
  BY <1>4, <1>7, <1>8 DEF n, S

\* The places of the properties after n chunks, each once.
Level(names, lab, n) ==
  /\ lab \in Seq(Labels(names)) /\ IsInjective(lab)
  /\ \A x : x \in Range(lab) <=> \E p \in Range(names) : x = At(p, n)

Expand(names) == [l \in Labels(names) |-> IF l[1] = "prop" THEN <<l>> ELSE Children(names, l[2])]

\* What the first call of group puts into its list.
LEMMA LevelFirst ==
  ASSUME NEW names, PropertyList(names)
  PROVE  <<>> \in Calls(names) /\ Level(names, Children(names, <<>>), 1)
<1> DEFINE e == <<>>
<1>1. e \in Calls(names) /\ Len(e) = 0
  BY DEF Calls
<1>2. \A p \in Range(names) : On(p, e)
  <2>1. \A p \in Range(names) : Len(p[1]) > 0
    BY PropertiesGiven DEF IsProperty
  <2>2. \A c : Taken(c, 0) = <<>>
    BY DEF Taken
  <2> QED
    BY <2>1, <2>2 DEF On
<1>4. 0 + 1 = 1
  OBVIOUS
<1> HIDE DEF e
<1>3. /\ Children(names, e) \in Seq(Labels(names)) /\ IsInjective(Children(names, e))
      /\ \A x : x \in Range(Children(names, e)) <=> \E p \in Range(names) : On(p, e) /\ x = At(p, Len(e) + 1)
  BY <1>1, ChildrenGive
<1>5. Level(names, Children(names, e), 1)
  BY <1>1, <1>2, <1>3, <1>4 DEF Level
<1> QED
  BY <1>1, <1>5 DEF e

\* What opening a group once gives, for properties and for groups.
LEMMA LabelsOpen ==
  ASSUME NEW names, PropertyList(names)
  PROVE  /\ Expand(names) \in [Labels(names) -> Seq(Labels(names))]
         /\ \A l \in Labels(names) : IsInjective(Expand(names)[l])
         /\ \A p \in Range(names) : \A n \in Nat : At(p, n) \in Labels(names)
<1>1. ASSUME NEW l \in Labels(names)
      PROVE  /\ Expand(names)[l] \in Seq(Labels(names)) /\ IsInjective(Expand(names)[l])
  <2>1. Expand(names)[l] = IF l[1] = "prop" THEN <<l>> ELSE Children(names, l[2])
    BY DEF Expand
  <2>2. CASE l[1] = "prop"
    <3>1. <<l>> \in Seq(Labels(names)) /\ IsInjective(<<l>>)
      BY DEF IsInjective
    <3> QED
      BY <2>1, <2>2, <3>1
  <2>3. CASE l[1] # "prop"
    <3>1. l[2] \in Calls(names)
      BY <2>3 DEF Labels
    <3> QED
      BY <2>1, <2>3, <3>1, ChildrenGive
  <2> QED
    BY <2>2, <2>3
<1>2. Expand(names) \in [Labels(names) -> Seq(Labels(names))]
  <2>1. Expand(names) = [l \in Labels(names) |-> Expand(names)[l]]
    BY DEF Expand
  <2> QED
    BY <1>1, <2>1
<1>3. ASSUME NEW p \in Range(names), NEW n \in Nat PROVE At(p, n) \in Labels(names)
  <2>1. Len(p[1]) \in Nat
    BY PropertiesGiven DEF IsProperty
  <2>2. Len(p[1]) <= n \/ Len(p[1]) > n
    BY <2>1
  <2>3. CASE Len(p[1]) <= n
    BY <2>3 DEF At, Labels
  <2>4. CASE ~(Len(p[1]) <= n)
    <3>1. Taken(p[1], n) \in Calls(names)
      BY <2>2, <2>4, CallOf
    <3> QED
      BY <2>4, <3>1 DEF At, Labels
  <2> QED
    BY <2>3, <2>4
<1> QED
  BY <1>1, <1>2, <1>3

\* What is opened in the place of a property.
LEMMA PlacesOpened ==
  ASSUME NEW names, PropertyList(names), NEW p \in Range(names), NEW n \in Nat
  PROVE  \A x : x \in Range(Expand(names)[At(p, n)]) <=>
           \E q \in Range(names) : At(q, n) = At(p, n) /\ x = At(q, n + 1)
<1> DEFINE l == At(p, n)
<1>1. l \in Labels(names)
  BY LabelsOpen
<1>2. Expand(names)[l] = IF l[1] = "prop" THEN <<l>> ELSE Children(names, l[2])
  BY <1>1 DEF Expand
<1>3. \A q \in Range(names) : Len(q[1]) \in Nat
  BY PropertiesGiven DEF IsProperty
<1>4. \A q \in Range(names) : ~(Len(q[1]) <= n) <=> Len(q[1]) > n
  BY <1>3
<1>5. CASE Len(p[1]) <= n
  <2>1. l = <<"prop", p[2]>>
    BY <1>5 DEF At
  <2>2. \A q \in Range(names) : At(q, n) = l => q = p
    <3> SUFFICES ASSUME NEW q \in Range(names), At(q, n) = l PROVE q = p
      OBVIOUS
    <3>1. At(q, n)[1] = "prop"
      BY <2>1
    <3>2. At(q, n) = <<"prop", q[2]>>
      BY <3>1 DEF At
    <3>3. q[2] = p[2]
      BY <2>1, <3>2
    <3> QED
      BY <3>3, PropertiesGiven
  <2>3. Len(p[1]) <= n + 1
    BY <1>3, <1>5
  <2>4. At(p, n + 1) = l
    BY <2>1, <2>3 DEF At
  <2>5. Range(Expand(names)[l]) = {l}
    BY <1>2, <2>1 DEF Range
  <2> HIDE DEF l
  <2>6. \A x : x \in Range(Expand(names)[l]) <=> \E q \in Range(names) : At(q, n) = l /\ x = At(q, n + 1)
    BY <2>2, <2>4, <2>5 DEF l
  <2> QED
    BY <2>6 DEF l
<1>6. CASE ~(Len(p[1]) <= n)
  <2> DEFINE c == Taken(p[1], n)
  <2>1. l = <<"call", c>>
    BY <1>6 DEF At
  <2>2. c \in Calls(names) /\ Len(c) = n
    BY <1>4, <1>6, CallOf
  <2>3. Expand(names)[l] = Children(names, c)
    BY <1>2, <2>1
  <2>4. \A q \in Range(names) : On(q, c) <=> At(q, n) = l
    <3> SUFFICES ASSUME NEW q \in Range(names) PROVE On(q, c) <=> At(q, n) = l
      OBVIOUS
    <3> HIDE DEF l, c
    <3>1. CASE Len(q[1]) <= n
      <4>1. ~On(q, c)
        BY <1>4, <2>2, <3>1 DEF On
      <4>2. At(q, n)[1] = "prop" /\ l[1] = "call"
        BY <2>1, <3>1 DEF At
      <4> QED
        BY <4>1, <4>2
    <3>2. CASE ~(Len(q[1]) <= n)
      <4>1. At(q, n) = <<"call", Taken(q[1], n)>>
        BY <3>2 DEF At
      <4>2. On(q, c) <=> Taken(q[1], n) = c
        BY <1>4, <2>2, <3>2 DEF On
      <4> QED
        BY <2>1, <4>1, <4>2
    <3> QED
      BY <3>1, <3>2
  <2> HIDE DEF c, l
  <2>5. \A x : x \in Range(Children(names, c)) <=> \E q \in Range(names) : On(q, c) /\ x = At(q, n + 1)
    BY <2>2, ChildrenGive
  <2> QED
    BY <2>3, <2>4, <2>5 DEF l
<1> QED
  BY <1>5, <1>6

\* Where two properties are in one place, they were.
LEMMA WereTogether ==
  ASSUME NEW names, PropertyList(names), NEW p \in Range(names), NEW q \in Range(names), NEW n \in Nat,
         At(p, n + 1) = At(q, n + 1)
  PROVE  At(p, n) = At(q, n)
<1>1. Len(p[1]) \in Nat /\ Len(q[1]) \in Nat
  BY PropertiesGiven DEF IsProperty
<1>2. CASE Len(p[1]) <= n + 1 \/ Len(q[1]) <= n + 1
  <2>1. At(p, n + 1)[1] = "prop" /\ At(q, n + 1)[1] = "prop"
    BY <1>2 DEF At
  <2>2. At(p, n + 1) = <<"prop", p[2]>> /\ At(q, n + 1) = <<"prop", q[2]>>
    BY <2>1 DEF At
  <2>3. p[2] = q[2]
    BY <2>2
  <2> QED
    BY <2>3, PropertiesGiven
<1>3. CASE ~(Len(p[1]) <= n + 1) /\ ~(Len(q[1]) <= n + 1)
  <2>1. Taken(p[1], n + 1) = Taken(q[1], n + 1)
    BY <1>3 DEF At
  <2>2. Taken(p[1], n) = Taken(q[1], n)
    BY <2>1, TakenLess
  <2>3. ~(Len(p[1]) <= n) /\ ~(Len(q[1]) <= n)
    BY <1>1, <1>3
  <2> QED
    BY <2>2, <2>3 DEF At
<1> QED
  BY <1>2, <1>3

\* The next level: a chunk more.
LEMMA LevelNext ==
  ASSUME NEW names, PropertyList(names), NEW n \in Nat, NEW lab, Level(names, lab, n)
  PROVE  Level(names, Replaced(lab, Expand(names)), n + 1)
<1> DEFINE S == Labels(names)
           f == Expand(names)
           ss == [i \in DOMAIN lab |-> f[lab[i]]]
           next == FlattenSeq(ss)
<1>1. /\ f \in [S -> Seq(S)] /\ (\A l \in S : IsInjective(f[l]))
      /\ \A p \in Range(names) : At(p, n) \in S
  BY LabelsOpen
<1>2. lab \in Seq(S) /\ IsInjective(lab) /\ \A x : x \in Range(lab) <=> \E p \in Range(names) : x = At(p, n)
  BY DEF Level
<1>3. \A p \in Range(names) : \A x : x \in Range(f[At(p, n)]) <=>
        \E q \in Range(names) : At(q, n) = At(p, n) /\ x = At(q, n + 1)
  BY PlacesOpened
<1>4. Replaced(lab, f) = next
  BY DEF Replaced
<1> HIDE DEF S, f
<1>5. /\ Len(lab) \in Nat /\ DOMAIN lab = 1..Len(lab)
      /\ \A i \in DOMAIN lab : lab[i] \in S /\ \E p \in Range(names) : lab[i] = At(p, n)
  BY <1>2, OwnRange
<1>6. ss \in Seq(Seq(S)) /\ Len(ss) = Len(lab) /\ \A i \in 1..Len(lab) : ss[i] = f[lab[i]]
  <2>1. ss \in Seq(Seq(S))
    <3>1. f \in [S -> Seq(S)]
      BY <1>1
    <3>2. lab \in Seq(S)
      BY <1>2
    <3> QED
      BY <3>1, <3>2, ReplacedTyped
  <2>2. DOMAIN ss = 1..Len(lab) /\ \A i \in 1..Len(lab) : ss[i] = f[lab[i]]
    BY <1>5
  <2> HIDE DEF ss
  <2> QED
    BY <1>5, <2>1, <2>2
<1> HIDE DEF ss
<1>7. next \in Seq(S)
  BY <1>6, FlattenTyped
<1>8. \A i \in 1..Len(ss) : IsInjective(ss[i])
  BY <1>1, <1>5, <1>6, Zenon
<1>9. ASSUME NEW i \in 1..Len(ss), NEW j \in 1..Len(ss), NEW x \in Range(ss[i]), x \in Range(ss[j])
      PROVE  i = j
  <2>1. PICK a \in Range(names) : lab[i] = At(a, n)
    BY <1>5, <1>6
  <2>2. PICK b \in Range(names) : lab[j] = At(b, n)
    BY <1>5, <1>6, Zenon
  <2>3. x \in Range(f[At(a, n)]) /\ x \in Range(f[At(b, n)])
    BY <1>6, <1>9, <2>1, <2>2
  <2>4. PICK r \in Range(names) : At(r, n) = At(a, n) /\ x = At(r, n + 1)
    <3>1. \A y : y \in Range(f[At(a, n)]) <=> \E q \in Range(names) : At(q, n) = At(a, n) /\ y = At(q, n + 1)
      BY <1>3, Zenon
    <3> QED
      BY <2>3, <3>1
  <2>5. PICK t \in Range(names) : At(t, n) = At(b, n) /\ x = At(t, n + 1)
    <3>1. \A y : y \in Range(f[At(b, n)]) <=> \E q \in Range(names) : At(q, n) = At(b, n) /\ y = At(q, n + 1)
      BY <1>3, Zenon
    <3> QED
      BY <2>3, <3>1
  <2>6. At(r, n) = At(t, n)
    BY <2>4, <2>5, WereTogether
  <2>7. lab[i] = lab[j]
    BY <2>1, <2>2, <2>4, <2>5, <2>6
  <2> QED
    BY <1>2, <1>5, <1>6, <2>7, Zenon DEF IsInjective
<1>10. IsInjective(next)
  BY <1>6, <1>8, <1>9, FlattenDistinct, Zenon
<1>11. ASSUME NEW x PROVE x \in Range(next) <=> \E p \in Range(names) : x = At(p, n + 1)
  <2>1. x \in Range(next) <=> \E i \in 1..Len(ss) : x \in Range(ss[i])
    BY <1>6, FlattenRange
  <2>2. ASSUME NEW i \in 1..Len(ss), x \in Range(ss[i]) PROVE \E p \in Range(names) : x = At(p, n + 1)
    <3>1. PICK p \in Range(names) : lab[i] = At(p, n)
      BY <1>5, <1>6
    <3>2. x \in Range(f[At(p, n)])
      BY <1>6, <2>2, <3>1
    <3> QED
      BY <1>3, <3>2, Zenon
  <2>3. ASSUME NEW p \in Range(names), x = At(p, n + 1) PROVE \E i \in 1..Len(ss) : x \in Range(ss[i])
    <3>1. At(p, n) \in Range(lab)
      BY <1>2
    <3>2. PICK i \in DOMAIN lab : lab[i] = At(p, n)
      BY <3>1 DEF Range
    <3>3. x \in Range(f[At(p, n)])
      BY <1>3, <2>3, Zenon
    <3> QED
      BY <1>5, <1>6, <3>2, <3>3
  <2> QED
    BY <2>1, <2>2, <2>3
<1> HIDE DEF next
<1> QED
  BY <1>4, <1>7, <1>10, <1>11 DEF Level, S, f

\* The longest name.
Depth(names) == Max({0} \cup {Len(names[i][1]) : i \in DOMAIN names})

\* No name has more chunks than the depth.
LEMMA DepthGives ==
  ASSUME NEW names, PropertyList(names)
  PROVE  Depth(names) \in Nat /\ \A p \in Range(names) : Len(p[1]) <= Depth(names)
<1> DEFINE N == Len(names)
           S == {0} \cup {Len(names[i][1]) : i \in DOMAIN names}
           T == {n \in 0..N : \E m \in Nat : \A i \in 1..n : Len(names[i][1]) <= m}
<1>1. /\ N \in Nat /\ DOMAIN names = 1..N
      /\ \A i \in 1..N : names[i] \in Range(names) /\ Len(names[i][1]) \in Nat
  <2>1. N \in Nat /\ DOMAIN names = 1..N /\ \A p \in Range(names) : Len(p[1]) \in Nat
    BY PropertiesGiven DEF IsProperty
  <2> QED
    BY <2>1 DEF Range
<1> HIDE DEF N
<1>2. 0 \in T
  BY <1>1
<1>3. ASSUME NEW n \in 1..N, n - 1 \in T PROVE n \in T
  <2>1. PICK m \in Nat : \A i \in 1..(n - 1) : Len(names[i][1]) <= m
    BY <1>3
  <2> DEFINE k == Len(names[n][1])
  <2>2. k \in Nat
    BY <1>1
  <2>3. \A i \in 1..n : i = n \/ i \in 1..(n - 1)
    BY <1>1
  <2>4. \A i \in 1..n : Len(names[i][1]) \in Nat
    BY <1>1
  <2>5. \A i \in 1..n : Len(names[i][1]) <= m + k
    BY <2>1, <2>2, <2>3, <2>4
  <2>6. m + k \in Nat /\ n \in 0..N
    BY <1>1, <2>1, <2>2
  <2> HIDE DEF k
  <2> QED
    BY <2>5, <2>6, Zenon
<1>4. \A n \in 0..N : n \in T
  <2> HIDE DEF T
  <2> QED
    BY <1>1, <1>2, <1>3, IntervalInduction, Zenon
<1>5. N \in T
  <2> HIDE DEF T
  <2> QED
    BY <1>1, <1>4
<1> DEFINE U == {m \in Nat : \A s \in S : s <= m}
<1>6. S \subseteq Nat /\ 0 \in S
  BY <1>1
<1>7. U \in SUBSET Nat /\ U # {}
  <2>1. PICK m \in Nat : \A i \in 1..N : Len(names[i][1]) <= m
    BY <1>5
  <2>2. m \in U
    BY <1>1, <2>1
  <2> QED
    BY <2>2, Zenon
<1>8. PICK m \in U : \A k \in U : m <= k
  <2> HIDE DEF U
  <2> QED
    BY <1>7, LeastElement
<1>9. m \in S
  <2> HIDE DEF S
  <2>1. CASE m = 0
    BY <1>6, <2>1
  <2>2. CASE m # 0
    <3>1. m - 1 \in Nat /\ m - 1 \notin U
      BY <1>8, <2>2
    <3>2. PICK s \in S : ~(s <= m - 1)
      BY <3>1
    <3>3. s = m
      BY <1>6, <1>8, <3>2
    <3> QED
      BY <3>3
  <2> QED
    BY <2>1, <2>2
<1>10. \E x \in S : \A y \in S : x >= y
  <2> HIDE DEF S
  <2> QED
    BY <1>6, <1>8, <1>9
<1>11. Depth(names) \in S /\ \A y \in S : Depth(names) >= y
  BY <1>10 DEF Depth, Max
<1>12. \A p \in Range(names) : Len(p[1]) \in S
  BY DEF Range
<1> HIDE DEF S
<1> QED
  BY <1>6, <1>11, <1>12, Zenon

\* One call of group, g being the calls below.
Body(names, g, pre) ==
  Leafs(names, pre) \o [i \in DOMAIN Keys(names, pre) |-> <<"group", g[Append(pre, Keys(names, pre)[i])]>>]

\* A call of group makes calls with one chunk more.
LEMMA CallBelow ==
  ASSUME NEW names, PropertyList(names), NEW pre \in Calls(names), NEW i \in DOMAIN Keys(names, pre)
  PROVE  /\ Append(pre, Keys(names, pre)[i]) \in Calls(names)
         /\ Len(Append(pre, Keys(names, pre)[i])) = Len(pre) + 1
<1> DEFINE k == Keys(names, pre)[i]
           n == Len(pre)
<1>1. k \in Range(Keys(names, pre))
  BY DEF Range
<1>2. n \in Nat /\ n + 1 \in Nat
  BY CallsGiven
<1>3. PICK p \in Range(names) : On(p, pre) /\ Len(p[1]) > n + 1 /\ Append(pre, k) = Taken(p[1], n + 1)
  BY <1>1, KeysGive
<1> HIDE DEF k, n
<1>4. Taken(p[1], n + 1) \in Calls(names) /\ Len(Taken(p[1], n + 1)) = n + 1
  BY <1>2, <1>3, CallOf
<1> QED
  BY <1>3, <1>4 DEF k, n

\* The recursion is well defined: the calls below have a chunk more.
LEMMA GroupExists ==
  ASSUME NEW names, PropertyList(names)
  PROVE  \E g : g = [pre \in Calls(names) |-> Body(names, g, pre)]
<1> DEFINE D == Depth(names)
           C(n) == {pre \in Calls(names) : Len(pre) > D - n}
           Solves(g, n) == DOMAIN g = C(n) /\ \A pre \in C(n) : g[pre] = Body(names, g, pre)
           T == {n \in 0..(D + 1) : \E g : Solves(g, n)}
<1>1. D \in Nat /\ \A p \in Range(names) : Len(p[1]) <= D /\ Len(p[1]) \in Nat
  BY DepthGives, PropertiesGiven DEF IsProperty
<1> HIDE DEF D
<1>2. \A pre \in Calls(names) : Len(pre) \in Nat /\ Len(pre) <= D
  <2> SUFFICES ASSUME NEW pre \in Calls(names) PROVE Len(pre) \in Nat /\ Len(pre) <= D
    OBVIOUS
  <2>1. Len(pre) \in Nat
    BY CallsGiven
  <2>2. CASE pre = <<>>
    BY <1>1, <2>2
  <2>3. CASE pre # <<>>
    <3>1. PICK p \in Range(names) : \E n \in 0..(Len(p[1]) - 1) : pre = Taken(p[1], n)
      BY <2>3 DEF Calls
    <3>2. PICK n \in 0..(Len(p[1]) - 1) : pre = Taken(p[1], n)
      BY <3>1
    <3>3. n \in Nat /\ Len(p[1]) > n
      BY <1>1, <3>2
    <3>4. Len(pre) = n
      BY <3>2, <3>3, CallOf
    <3> QED
      BY <1>1, <2>1, <3>3, <3>4
  <2> QED
    BY <2>1, <2>2, <2>3
<1>3. 0 \in T
  <2>1. C(0) = {}
    BY <1>1, <1>2
  <2> DEFINE g == [pre \in C(0) |-> pre]
  <2>2. Solves(g, 0)
    BY <2>1
  <2> HIDE DEF Solves, g
  <2> QED
    BY <1>1, <2>2
<1>4. ASSUME NEW n \in 1..(D + 1), n - 1 \in T PROVE n \in T
  <2>1. PICK g : Solves(g, n - 1)
    BY <1>4, Zenon
  <2>2. DOMAIN g = C(n - 1) /\ \A pre \in C(n - 1) : g[pre] = Body(names, g, pre)
    BY <2>1
  <2>3. n \in Nat /\ n - 1 \in Nat /\ n \in 0..(D + 1)
    BY <1>1
  <2>4. \A pre \in C(n - 1) : pre \in C(n)
    BY <1>1, <1>2, <2>3
  <2> DEFINE h == [pre \in C(n) |-> IF pre \in C(n - 1) THEN g[pre] ELSE Body(names, g, pre)]
  <2>5. \A pre \in C(n - 1) : h[pre] = g[pre]
    BY <2>4
  <2>6. \A pre \in C(n) : h[pre] = Body(names, g, pre)
    BY <2>2
  <2>7. ASSUME NEW pre \in C(n) PROVE Body(names, h, pre) = Body(names, g, pre)
    <3> DEFINE keys == Keys(names, pre)
    <3>1. \A i \in DOMAIN keys : Append(pre, keys[i]) \in C(n - 1)
      <4> SUFFICES ASSUME NEW i \in DOMAIN keys PROVE Append(pre, keys[i]) \in C(n - 1)
        OBVIOUS
      <4>1. Append(pre, keys[i]) \in Calls(names) /\ Len(Append(pre, keys[i])) = Len(pre) + 1
        BY CallBelow
      <4>2. Len(pre) \in Nat /\ Len(pre) > D - n
        BY <1>2
      <4>3. Len(pre) + 1 > D - (n - 1)
        BY <1>1, <2>3, <4>2
      <4> HIDE DEF keys
      <4> QED
        BY <4>1, <4>3
    <3> HIDE DEF keys, h, C
    <3>2. [i \in DOMAIN keys |-> <<"group", h[Append(pre, keys[i])]>>]
            = [i \in DOMAIN keys |-> <<"group", g[Append(pre, keys[i])]>>]
      BY <2>5, <3>1
    <3> QED
      BY <3>2, Zenon DEF Body, keys
  <2>8. DOMAIN h = C(n)
    OBVIOUS
  <2> HIDE DEF h, C
  <2>9. Solves(h, n)
    BY <2>6, <2>7, <2>8
  <2> HIDE DEF Solves
  <2> QED
    BY <2>3, <2>9
<1>5. \A n \in 0..(D + 1) : n \in T
  <2>1. D + 1 \in Nat
    BY <1>1
  <2> HIDE DEF T
  <2> QED
    BY <1>3, <1>4, <2>1, IntervalInduction
<1>6. D + 1 \in T
  <2>1. D + 1 \in 0..(D + 1)
    BY <1>1
  <2> HIDE DEF T
  <2> QED
    BY <1>5, <2>1
<1>7. PICK g : Solves(g, D + 1)
  BY <1>6, Zenon
<1>8. C(D + 1) = Calls(names)
  BY <1>1, <1>2
<1>9. DOMAIN g = Calls(names) /\ \A pre \in Calls(names) : g[pre] = Body(names, g, pre)
  <2> HIDE DEF C
  <2> QED
    BY <1>7, <1>8
<1> DEFINE h == [pre \in Calls(names) |-> g[pre]]
<1>10. \A pre \in Calls(names) : h[pre] = g[pre]
  OBVIOUS
<1>11. ASSUME NEW pre \in Calls(names) PROVE Body(names, h, pre) = Body(names, g, pre)
  <2> DEFINE keys == Keys(names, pre)
  <2>1. \A i \in DOMAIN keys : Append(pre, keys[i]) \in Calls(names)
    BY CallBelow
  <2> HIDE DEF keys, h
  <2>2. [i \in DOMAIN keys |-> <<"group", h[Append(pre, keys[i])]>>]
          = [i \in DOMAIN keys |-> <<"group", g[Append(pre, keys[i])]>>]
    BY <1>10, <2>1
  <2> QED
    BY <2>2, Zenon DEF Body, keys
<1>12. h = [pre \in Calls(names) |-> Body(names, h, pre)]
  <2>1. \A pre \in Calls(names) : g[pre] = Body(names, h, pre)
    BY <1>9, <1>11
  <2>2. h = [pre \in Calls(names) |-> g[pre]]
    OBVIOUS
  <2> HIDE DEF h
  <2> QED
    BY <2>1, <2>2
<1> QED
  BY <1>12

\* The tree is what group makes of no chunks.
Grows(names, g) == g = [pre \in Calls(names) |-> Body(names, g, pre)]

\* split_by_prefixes is the recursion of group.
LEMMA SplitGrows ==
  ASSUME NEW names, PropertyList(names)
  PROVE  \E g : Grows(names, g) /\ split_by_prefixes(names) = g[<<>>]
<1> DEFINE Loop(g) == [pre \in Calls(names) |->
             LET props == Bucket(names, pre)
                 done == Keep(props, {p \in Range(props) : Len(p[1]) = Len(pre) + 1})
                 heads == Heads(props, Len(pre))
             IN  [i \in DOMAIN done |-> <<"prop", done[i][2]>>]
                 \o [i \in DOMAIN heads |-> <<"group", g[Append(pre, heads[i])]>>]]
           group == CHOOSE g : g = Loop(g)
<1>1. split_by_prefixes(names) = group[<<>>]
  BY Zenon DEF split_by_prefixes
<1>2. \A g : Loop(g) = [pre \in Calls(names) |-> Body(names, g, pre)]
  BY Zenon DEF Body, Leafs, Done, Keys
<1>3. \E g : g = Loop(g)
  <2> HIDE DEF Loop
  <2> QED
    BY <1>2, GroupExists
<1>4. group = Loop(group)
  <2> HIDE DEF Loop
  <2> QED
    BY <1>3
<1> HIDE DEF Loop, group
<1>5. Grows(names, group)
  BY <1>2, <1>4 DEF Grows
<1> QED
  BY <1>1, <1>5

\* The tree of a place, the trees, and what a tree is opened to.
TreeOf(names, g) == [l \in Labels(names) |-> IF l[1] = "prop" THEN l ELSE <<"group", g[l[2]]>>]
Trees(names, g) == {TreeOf(names, g)[l] : l \in Labels(names)}
Grown(names, g) == [l \in Labels(names) |-> <<TreeOf(names, g)[l]>>]
OpenOf(names, g) == [t \in Trees(names, g) |-> IF t[1] = "prop" THEN <<t>> ELSE t[2]]

\* The tree of a property or of a call of group.
LEMMA TreesGrown ==
  ASSUME NEW names, NEW g
  PROVE  /\ TreeOf(names, g) \in [Labels(names) -> Trees(names, g)]
         /\ \A l \in Labels(names) : /\ Grown(names, g)[l] = <<TreeOf(names, g)[l]>>
                                     /\ TreeOf(names, g)[l] = IF l[1] = "prop" THEN l ELSE <<"group", g[l[2]]>>
         /\ Grown(names, g) \in [Labels(names) -> Seq(Trees(names, g))]
<1>1. TreeOf(names, g) \in [Labels(names) -> Trees(names, g)]
  <2>1. TreeOf(names, g) = [l \in Labels(names) |-> TreeOf(names, g)[l]]
    BY DEF TreeOf
  <2> QED
    BY <2>1 DEF Trees
<1>2. \A l \in Labels(names) : /\ Grown(names, g)[l] = <<TreeOf(names, g)[l]>>
                               /\ TreeOf(names, g)[l] = IF l[1] = "prop" THEN l ELSE <<"group", g[l[2]]>>
  BY DEF Grown, TreeOf
<1>3. \A t \in Trees(names, g) : <<t>> \in Seq(Trees(names, g))
  OBVIOUS
<1>4. Grown(names, g) \in [Labels(names) -> Seq(Trees(names, g))]
  BY <1>1, <1>3 DEF Grown
<1> QED
  BY <1>1, <1>2, <1>4

\* The trees of places.
LEMMA GrownMaps ==
  ASSUME NEW names, NEW g, NEW s \in Seq(Labels(names))
  PROVE  Replaced(s, Grown(names, g)) = [i \in DOMAIN s |-> TreeOf(names, g)[s[i]]]
<1> DEFINE A == Labels(names)
           B == Trees(names, g)
           h == TreeOf(names, g)
           f == Grown(names, g)
<1>1. h \in [A -> B] /\ f \in [A -> Seq(B)] /\ (\A a \in A : f[a] = <<h[a]>>) /\ s \in Seq(A)
  BY TreesGrown, Zenon
<1> HIDE DEF A, B, h, f
<1>2. Maps(s, f, h)
  BY <1>1, ReplacedMaps, Zenon
<1> QED
  BY <1>2 DEF Maps, f, h

\* A tree is those of the places its call is split into.
LEMMA GroupGrows ==
  ASSUME NEW names, PropertyList(names), NEW g, Grows(names, g), NEW pre \in Calls(names)
  PROVE  g[pre] = Replaced(Children(names, pre), Grown(names, g))
<1> DEFINE A == Labels(names)
           B == Trees(names, g)
           h == TreeOf(names, g)
           f == Grown(names, g)
           a == Leafs(names, pre)
           b == Below(names, pre)
           keys == Keys(names, pre)
           c == [i \in DOMAIN keys |-> <<"group", g[Append(pre, keys[i])]>>]
<1>1. g[pre] = a \o c
  BY Zenon DEF Grows, Body
<1>2. a \in Seq(A) /\ \A x \in Range(a) : x[1] = "prop"
  BY LeafsGive
<1>3. b \in Seq(A) /\ DOMAIN b = DOMAIN keys /\ \A i \in DOMAIN keys : b[i] = <<"call", Append(pre, keys[i])>>
  BY BelowGive DEF Below
<1>4. f \in [A -> Seq(B)] /\ \A l \in A : h[l] = IF l[1] = "prop" THEN l ELSE <<"group", g[l[2]]>>
  BY TreesGrown
<1>5. Replaced(a, f) = [i \in DOMAIN a |-> h[a[i]]] /\ Replaced(b, f) = [i \in DOMAIN b |-> h[b[i]]]
  BY <1>2, <1>3, GrownMaps
<1>6. Children(names, pre) = a \o b
  BY DEF Children
<1> HIDE DEF A, B, h, f, a, b, keys
<1>7. \A i \in DOMAIN a : a[i] \in A /\ a[i] \in Range(a)
  BY <1>2, OwnRange
<1>8. a = [i \in DOMAIN a |-> a[i]]
  BY <1>2
<1>9. Replaced(a, f) = a
  <2>1. \A i \in DOMAIN a : h[a[i]] = a[i]
    BY <1>2, <1>4, <1>7, Zenon
  <2>2. [i \in DOMAIN a |-> h[a[i]]] = [i \in DOMAIN a |-> a[i]]
    BY <2>1
  <2> QED
    BY <1>5, <1>8, <2>2
<1>10. Replaced(b, f) = c
  <2>1. \A i \in DOMAIN keys : b[i] \in A /\ b[i][1] # "prop" /\ b[i][2] = Append(pre, keys[i])
    BY <1>3
  <2>2. \A i \in DOMAIN keys : h[b[i]] = <<"group", g[Append(pre, keys[i])]>>
    BY <1>4, <2>1, Zenon
  <2> QED
    BY <1>3, <1>5, <2>2
<1>11. f \in [A -> Seq(B)] /\ a \in Seq(A) /\ b \in Seq(A)
  BY <1>2, <1>3, <1>4
<1> HIDE DEF c
<1>12. Concats(a, b, f)
  BY <1>11, ReplacedConcat
<1>13. Replaced(a \o b, f) = a \o c
  BY <1>9, <1>10, <1>12 DEF Concats
<1> QED
  BY <1>1, <1>6, <1>13 DEF f

\* Opening a tree gives the trees of what its call of group holds.
LEMMA TreesOpen ==
  ASSUME NEW names, PropertyList(names), NEW g, Grows(names, g)
  PROVE  /\ OpenOf(names, g) \in [Trees(names, g) -> Seq(Trees(names, g))]
         /\ \A l \in Labels(names) : OpenOf(names, g)[TreeOf(names, g)[l]] =
              IF l[1] = "prop" THEN <<l>> ELSE Replaced(Children(names, l[2]), Grown(names, g))
<1> DEFINE A == Labels(names)
           B == Trees(names, g)
           h == TreeOf(names, g)
           f == Grown(names, g)
           o == OpenOf(names, g)
<1>1. /\ f \in [A -> Seq(B)] /\ h \in [A -> B]
      /\ \A l \in A : h[l] = IF l[1] = "prop" THEN l ELSE <<"group", g[l[2]]>>
  BY TreesGrown
<1>2. \A t \in B : o[t] = (IF t[1] = "prop" THEN <<t>> ELSE t[2]) /\ \E l \in A : t = h[l]
  BY DEF OpenOf, Trees
<1>3. ASSUME NEW l \in A PROVE o[h[l]] = IF l[1] = "prop" THEN <<l>> ELSE Replaced(Children(names, l[2]), f)
  <2> HIDE DEF A, B, h, f, o
  <2>1. h[l] \in B
    BY <1>1
  <2>2. CASE l[1] = "prop"
    BY <1>1, <1>2, <2>1, <2>2, Zenon
  <2>3. CASE l[1] # "prop"
    <3>1. l[2] \in Calls(names)
      BY <2>3 DEF A, Labels
    <3>2. h[l] = <<"group", g[l[2]]>>
      BY <1>1, <2>3
    <3>4. h[l][1] # "prop" /\ h[l][2] = g[l[2]]
      BY <3>2
    <3>5. o[h[l]] = h[l][2]
      BY <1>2, <2>1, <3>4, Zenon
    <3>3. o[h[l]] = g[l[2]]
      BY <3>4, <3>5
    <3> QED
      BY <2>3, <3>1, <3>3, GroupGrows DEF f
  <2> QED
    BY <2>2, <2>3
<1>4. ASSUME NEW t \in B PROVE o[t] \in Seq(B)
  <2>1. PICK l \in A : t = h[l]
    BY <1>2, Zenon
  <2> HIDE DEF A, B, h, f, o
  <2>2. o[t] = IF l[1] = "prop" THEN <<l>> ELSE Replaced(Children(names, l[2]), f)
    BY <1>3, <2>1
  <2>3. CASE l[1] = "prop"
    <3>1. t = l
      BY <1>1, <2>1, <2>3
    <3>2. <<t>> \in Seq(B)
      OBVIOUS
    <3> QED
      BY <2>2, <2>3, <3>1, <3>2
  <2>4. CASE l[1] # "prop"
    <3>1. l[2] \in Calls(names)
      BY <2>4 DEF A, Labels
    <3>2. Children(names, l[2]) \in Seq(A)
      BY <3>1, ChildrenGive DEF A
    <3>3. f \in [A -> Seq(B)]
      BY <1>1
    <3>4. Replaced(Children(names, l[2]), f) \in Seq(B)
      BY <3>2, <3>3, ReplacedTyped, Zenon
    <3> QED
      BY <2>2, <2>4, <3>4
  <2> QED
    BY <2>3, <2>4
<1>5. o = [t \in B |-> o[t]]
  BY DEF OpenOf
<1>6. o \in [B -> Seq(B)]
  <2> HIDE DEF A, B, h, f, o
  <2> QED
    BY <1>4, <1>5
<1> QED
  BY <1>3, <1>6

\* The trees of a level are opened to those of the next.
LEMMA LevelOpens ==
  ASSUME NEW names, PropertyList(names), NEW g, Grows(names, g), NEW lab \in Seq(Labels(names))
  PROVE  Replaced(Replaced(lab, Grown(names, g)), OpenOf(names, g))
           = Replaced(Replaced(lab, Expand(names)), Grown(names, g))
<1> DEFINE A == Labels(names)
           B == Trees(names, g)
           h == TreeOf(names, g)
           f == Grown(names, g)
           o == OpenOf(names, g)
           e == Expand(names)
<1>1. f \in [A -> Seq(B)] /\ o \in [B -> Seq(B)] /\ e \in [A -> Seq(A)] /\ lab \in Seq(A)
  BY TreesGrown, TreesOpen, LabelsOpen
<1>2. \A l \in A : f[l] = <<h[l]>> /\ h[l] \in B /\ h[l] = IF l[1] = "prop" THEN l ELSE <<"group", g[l[2]]>>
  BY TreesGrown
<1>3. \A l \in A : o[h[l]] = IF l[1] = "prop" THEN <<l>> ELSE Replaced(Children(names, l[2]), f)
  BY TreesOpen
<1>4. \A l \in A : e[l] = IF l[1] = "prop" THEN <<l>> ELSE Children(names, l[2])
  BY DEF Expand
<1> HIDE DEF A, B, h, f, o, e
<1>5. ASSUME NEW l \in A PROVE Replaced(f[l], o) = Replaced(e[l], f)
  <2>1. h[l] \in B
    BY <1>2, Zenon
  <2>2. Replaced(<<h[l]>>, o) = o[h[l]]
    BY <1>1, <2>1, ReplacedOne
  <2>3. Replaced(<<l>>, f) = f[l]
    BY <1>1, ReplacedOne
  <2>4. CASE l[1] = "prop"
    BY <1>2, <1>3, <1>4, <2>2, <2>3, <2>4, Zenon
  <2>5. CASE l[1] # "prop"
    BY <1>2, <1>3, <1>4, <2>2, <2>5, Zenon
  <2> QED
    BY <2>4, <2>5
<1>6. Then(A, f, o) = Then(A, e, f)
  BY <1>5 DEF Then
<1>7. Composes(A, lab, f, o)
  BY <1>1, ReplacedTwice, Zenon
<1>8. Composes(A, lab, e, f)
  BY <1>1, ReplacedTwice, Zenon
<1> QED
  BY <1>6, <1>7, <1>8 DEF Composes, f, o, e

\* Opening trees, as Leaves does, is to replace each by what it is opened to.
OpenAll(ts) == FlattenSeq([i \in DOMAIN ts |-> IF ts[i][1] = "prop" THEN <<ts[i]>> ELSE ts[i][2]])

\* Opening every tree of a list is replacing each by what it holds.
LEMMA OpenReplaces ==
  ASSUME NEW names, NEW g, NEW ts \in Seq(Trees(names, g))
  PROVE  OpenAll(ts) = Replaced(ts, OpenOf(names, g))
<1> DEFINE B == Trees(names, g)
           o == OpenOf(names, g)
<1>1. \A t \in B : o[t] = IF t[1] = "prop" THEN <<t>> ELSE t[2]
  BY DEF OpenOf
<1>2. \A i \in DOMAIN ts : ts[i] \in B
  OBVIOUS
<1> HIDE DEF B, o
<1>3. [i \in DOMAIN ts |-> IF ts[i][1] = "prop" THEN <<ts[i]>> ELSE ts[i][2]] = [i \in DOMAIN ts |-> o[ts[i]]]
  BY <1>1, <1>2
<1> QED
  BY <1>3, Zenon DEF OpenAll, Replaced, o

\* The trees after n levels are opened.
Opens(f, ts, V, D) == /\ f \in [0..D -> V]
                      /\ f[0] = ts
                      /\ \A n \in 1..D : f[n] = OpenAll(f[n - 1])

\* The leaves are what is left when the trees are opened to their depth.
LEMMA LeavesOpen ==
  ASSUME NEW names, PropertyList(names), NEW g, Grows(names, g), NEW ts \in Seq(Trees(names, g)), NEW D \in Nat
  PROVE  \E f : Opens(f, ts, Seq(Trees(names, g)), D) /\ Leaves(ts, D) = [i \in DOMAIN f[D] |-> f[D][i][2]]
<1> DEFINE V == Seq(Trees(names, g))
           G == [p \in V \X Nat |-> OpenAll(p[1])]
<1>1. ASSUME NEW x \in V PROVE OpenAll(x) \in V
  <2> DEFINE B == Trees(names, g)
             o == OpenOf(names, g)
  <2>1. o \in [B -> Seq(B)] /\ x \in Seq(B)
    BY TreesOpen
  <2>2. OpenAll(x) = Replaced(x, o)
    BY OpenReplaces
  <2> HIDE DEF B, o
  <2>3. Replaced(x, o) \in Seq(B)
    BY <2>1, ReplacedTyped, Zenon
  <2> QED
    BY <2>2, <2>3 DEF B
<1>2. ts \in V
  OBVIOUS
<1> HIDE DEF V
<1>3. G \in [V \X Nat -> V]
  BY <1>1
<1>4. PICK f : Follows(f, D, V, ts, G)
  <2> HIDE DEF G
  <2> QED
    BY <1>2, <1>3, RecursionExists, Zenon
<1>5. f \in [0..D -> V] /\ f[0] = ts /\ \A n \in 1..D : f[n] = G[<<f[n - 1], n>>]
  BY <1>4, Zenon DEF Follows
<1>6. ASSUME NEW n \in 1..D PROVE f[n] = OpenAll(f[n - 1])
  <2>1. n - 1 \in 0..D /\ n \in Nat
    OBVIOUS
  <2>2. f[n - 1] \in V
    <3> HIDE DEF G
    <3> QED
      BY <1>5, <2>1
  <2>3. G[<<f[n - 1], n>>] = OpenAll(f[n - 1])
    BY <2>1, <2>2
  <2> HIDE DEF G
  <2> QED
    BY <1>5, <2>3
<1>7. Opens(f, ts, V, D)
  BY <1>5, <1>6 DEF Opens
<1> DEFINE Loop(h) == [n \in 0..D |-> IF n = 0 THEN ts ELSE OpenAll(h[n - 1])]
           opened == CHOOSE h : h = Loop(h)
<1>8. Leaves(ts, D) = [i \in DOMAIN opened[D] |-> opened[D][i][2]]
  BY Zenon DEF Leaves, OpenAll
<1>9. f = Loop(f)
  <2>1. f = [n \in 0..D |-> f[n]]
    BY <1>5
  <2>2. ASSUME NEW n \in 0..D PROVE f[n] = IF n = 0 THEN ts ELSE OpenAll(f[n - 1])
    <3>1. n = 0 \/ n \in 1..D
      OBVIOUS
    <3> QED
      BY <1>5, <1>6, <3>1
  <2> HIDE DEF G
  <2> QED
    BY <2>1, <2>2
<1>10. opened = Loop(opened)
  <2> HIDE DEF Loop
  <2> QED
    BY <1>9
<1>11. opened = f
  <2> DEFINE T == {n \in 0..D : opened[n] = f[n]}
  <2>1. DOMAIN opened = 0..D /\ opened = [n \in 0..D |-> opened[n]]
    <3>1. \A h : DOMAIN Loop(h) = 0..D /\ Loop(h) = [n \in 0..D |-> Loop(h)[n]]
      OBVIOUS
    <3> HIDE DEF opened, Loop
    <3> QED
      BY <1>10, <3>1
  <2>2. \A n \in 0..D : opened[n] = IF n = 0 THEN ts ELSE OpenAll(opened[n - 1])
    <3>1. \A h : \A n \in 0..D : Loop(h)[n] = IF n = 0 THEN ts ELSE OpenAll(h[n - 1])
      OBVIOUS
    <3> HIDE DEF opened, Loop
    <3> QED
      BY <1>10, <3>1
  <2> HIDE DEF opened
  <2>3. 0 \in T
    BY <1>5, <2>2
  <2>4. ASSUME NEW n \in 1..D, n - 1 \in T PROVE n \in T
    <3>1. n \in 0..D /\ n # 0 /\ opened[n - 1] = f[n - 1]
      BY <2>4
    <3> QED
      BY <1>6, <2>2, <3>1
  <2>5. \A n \in 0..D : n \in T
    <3> HIDE DEF T
    <3> QED
      BY <2>3, <2>4, IntervalInduction, Zenon
  <2> QED
    BY <1>5, <2>1, <2>5
<1> HIDE DEF opened
<1>12. Leaves(ts, D) = [i \in DOMAIN f[D] |-> f[D][i][2]]
  BY <1>8, <1>11
<1> QED
  BY <1>7, <1>12 DEF V

\* After n levels the trees are those of the places of level n + 1.
LEMMA LevelsOpen ==
  ASSUME NEW names, PropertyList(names), NEW g, Grows(names, g), NEW D \in Nat, NEW f,
         Opens(f, g[<<>>], Seq(Trees(names, g)), D)
  PROVE  \E lab : Level(names, lab, D + 1) /\ f[D] = Replaced(lab, Grown(names, g))
<1> DEFINE Good(n) == \E lab : Level(names, lab, n + 1) /\ f[n] = Replaced(lab, Grown(names, g))
           T == {n \in 0..D : Good(n)}
<1>1. 0 \in T
  <2> DEFINE lab == Children(names, <<>>)
  <2>1. <<>> \in Calls(names) /\ Level(names, lab, 1) /\ 0 + 1 = 1
    BY LevelFirst
  <2>2. f[0] = Replaced(lab, Grown(names, g))
    BY <2>1, GroupGrows DEF Opens
  <2> HIDE DEF lab
  <2>3. Good(0)
    BY <2>1, <2>2
  <2> QED
    BY <2>3
<1>2. ASSUME NEW n \in 1..D, n - 1 \in T PROVE n \in T
  <2>1. n \in Nat /\ n \in 0..D /\ (n - 1) + 1 = n /\ n - 1 \in 0..D
    OBVIOUS
  <2>2. PICK lab : Level(names, lab, n) /\ f[n - 1] = Replaced(lab, Grown(names, g))
    BY <1>2, <2>1
  <2>3. f[n] = OpenAll(f[n - 1]) /\ f[n - 1] \in Seq(Trees(names, g))
    BY <2>1 DEF Opens
  <2>4. OpenAll(f[n - 1]) = Replaced(f[n - 1], OpenOf(names, g))
    BY <2>3, OpenReplaces
  <2>5. lab \in Seq(Labels(names))
    BY <2>2 DEF Level
  <2> DEFINE next == Replaced(lab, Expand(names))
  <2>6. f[n] = Replaced(next, Grown(names, g))
    BY <2>2, <2>3, <2>4, <2>5, LevelOpens
  <2>7. Level(names, next, n + 1)
    BY <2>1, <2>2, LevelNext, Zenon
  <2> HIDE DEF next
  <2>8. Good(n)
    BY <2>6, <2>7
  <2> QED
    BY <2>1, <2>8
<1>3. \A n \in 0..D : n \in T
  <2> HIDE DEF T
  <2> QED
    BY <1>1, <1>2, IntervalInduction
<1>4. D \in T
  <2> HIDE DEF T
  <2> QED
    BY <1>3
<1> QED
  BY <1>4

\* The last level has every property, once.
LEMMA LastLevel ==
  ASSUME NEW names, PropertyList(names), NEW n \in Nat, \A p \in Range(names) : Len(p[1]) <= n,
         NEW lab, Level(names, lab, n)
  PROVE  /\ Len(lab) = Len(names)
         /\ lab \in Seq(Labels(names)) /\ \A x : x \in Range(lab) <=> \E p \in Range(names) : x = <<"prop", p[2]>>
<1> DEFINE own == [i \in DOMAIN names |-> <<"prop", names[i][2]>>]
           S == Labels(names)
           N == Len(names)
<1>1. \A p \in Range(names) : At(p, n) = <<"prop", p[2]>>
  BY DEF At
<1>2. lab \in Seq(S) /\ IsInjective(lab) /\ \A x : x \in Range(lab) <=> \E p \in Range(names) : x = At(p, n)
  BY DEF Level
<1>3. /\ N \in Nat /\ DOMAIN names = 1..N
      /\ (\A p, q \in Range(names) : p[2] = q[2] => p = q) /\ IsInjective(names) /\ names \in Seq(Range(names))
  BY PropertiesGiven
<1>4. /\ \A i \in 1..N : names[i] \in Range(names)
      /\ \A p \in Range(names) : \E i \in 1..N : names[i] = p
  BY <1>3 DEF Range
<1>5. \A p \in Range(names) : <<"prop", p[2]>> \in S
  BY DEF Labels
<1>6. own \in [1..N -> S] /\ \A i \in 1..N : own[i] = <<"prop", names[i][2]>>
  BY <1>3, <1>4, <1>5
<1> HIDE DEF own, S, N
<1>7. own \in Seq(S) /\ Len(own) = N /\ DOMAIN own = 1..N
  BY <1>3, <1>6, FunctionIsSeq
<1>8. IsInjective(own)
  <2>1. ASSUME NEW i \in 1..N, NEW j \in 1..N, own[i] = own[j] PROVE i = j
    <3>1. names[i][2] = names[j][2]
      BY <1>6, <2>1
    <3>2. names[i] = names[j]
      BY <1>3, <1>4, <3>1
    <3> QED
      BY <1>3, <3>2 DEF IsInjective
  <2> QED
    BY <1>7, <2>1 DEF IsInjective
<1>9. \A x : x \in Range(own) <=> \E p \in Range(names) : x = <<"prop", p[2]>>
  <2>1. ASSUME NEW x \in Range(own) PROVE \E p \in Range(names) : x = <<"prop", p[2]>>
    <3>1. PICK i \in 1..N : x = own[i]
      BY <1>7 DEF Range
    <3> QED
      BY <1>4, <1>6, <3>1
  <2>2. ASSUME NEW p \in Range(names) PROVE <<"prop", p[2]>> \in Range(own)
    <3>1. PICK i \in 1..N : names[i] = p
      BY <1>4
    <3>2. own[i] = <<"prop", p[2]>> /\ i \in DOMAIN own
      BY <1>6, <1>7, <3>1
    <3> QED
      BY <3>2 DEF Range
  <2> QED
    BY <2>1, <2>2
<1>10. Range(own) = Range(lab)
  <2>1. \A x : x \in Range(lab) <=> x \in Range(own)
    BY <1>1, <1>2, <1>9
  <2> QED
    BY <2>1, Zenon
<1>11. Cardinality(Range(own)) = N /\ Cardinality(Range(lab)) = Len(lab)
  BY <1>2, <1>7, <1>8, DistinctCount
<1> QED
  BY <1>1, <1>2, <1>10, <1>11 DEF N, S

\* The leaves of the tree are the properties, each once.
LEMMA TreeHolds ==
  ASSUME NEW names, PropertyList(names)
  PROVE  LET leaves == Leaves(split_by_prefixes(names), Depth(names))
         IN  /\ Len(leaves) = Len(names)
             /\ Range(leaves) = {names[i][2] : i \in DOMAIN names}
<1> DEFINE D == Depth(names)
<1>1. PICK g : Grows(names, g) /\ split_by_prefixes(names) = g[<<>>]
  BY SplitGrows
<1> DEFINE B == Trees(names, g)
           A == Labels(names)
           h == TreeOf(names, g)
           ts == g[<<>>]
<1>2. D \in Nat /\ \A p \in Range(names) : Len(p[1]) \in Nat /\ Len(p[1]) <= D
  BY DepthGives, PropertiesGiven DEF IsProperty
<1>3. ts \in Seq(B)
  <2>1. <<>> \in Calls(names)
    BY LevelFirst
  <2> DEFINE c == Children(names, <<>>)
             r == Grown(names, g)
  <2>2. ts = Replaced(c, r)
    BY <1>1, <2>1, GroupGrows
  <2>3. c \in Seq(A) /\ r \in [A -> Seq(B)]
    BY <2>1, ChildrenGive, TreesGrown
  <2> HIDE DEF A, B, c, r, ts
  <2> QED
    BY <2>2, <2>3, ReplacedTyped, Zenon
<1>4. PICK f : Opens(f, ts, Seq(B), D) /\ Leaves(ts, D) = [i \in DOMAIN f[D] |-> f[D][i][2]]
  <2> HIDE DEF D, ts
  <2> QED
    BY <1>1, <1>2, <1>3, LeavesOpen
<1>5. PICK lab : Level(names, lab, D + 1) /\ f[D] = Replaced(lab, Grown(names, g))
  <2> HIDE DEF D
  <2> QED
    BY <1>1, <1>2, <1>4, LevelsOpen
<1>6. /\ Len(lab) = Len(names) /\ lab \in Seq(A)
      /\ \A x : x \in Range(lab) <=> \E p \in Range(names) : x = <<"prop", p[2]>>
  <2> DEFINE n == D + 1
  <2>1. n \in Nat /\ (\A p \in Range(names) : Len(p[1]) <= n) /\ Level(names, lab, n)
    BY <1>2, <1>5
  <2> HIDE DEF n, D
  <2> QED
    BY <2>1, LastLevel
<1>7. f[D] = [i \in DOMAIN lab |-> h[lab[i]]]
  BY <1>5, <1>6, GrownMaps
<1>8. \A l \in A : h[l] = IF l[1] = "prop" THEN l ELSE <<"group", g[l[2]]>>
  BY TreesGrown
<1>9. /\ Len(lab) \in Nat /\ DOMAIN lab = 1..Len(lab)
      /\ (\A i \in DOMAIN lab : lab[i] \in A /\ lab[i] \in Range(lab))
      /\ \A x \in Range(lab) : \E i \in DOMAIN lab : lab[i] = x
  BY <1>6, OwnRange
<1> DEFINE leaves == Leaves(ts, D)
<1> HIDE DEF A, B, h, ts, D, leaves
<1>10. \A i \in DOMAIN lab : lab[i][1] = "prop"
  BY <1>6, <1>9
<1>11. DOMAIN f[D] = DOMAIN lab /\ \A i \in DOMAIN lab : f[D][i] = lab[i]
  BY <1>7, <1>8, <1>9, <1>10, Zenon
<1>12. leaves = [i \in 1..Len(names) |-> lab[i][2]]
  <2>1. leaves = [i \in DOMAIN f[D] |-> f[D][i][2]]
    BY <1>4 DEF leaves
  <2>2. DOMAIN lab = 1..Len(names)
    BY <1>6, <1>9
  <2> QED
    BY <1>11, <2>1, <2>2
<1>13. Len(names) \in Nat /\ DOMAIN names = 1..Len(names)
  BY PropertiesGiven
<1>14. Len(leaves) = Len(names) /\ DOMAIN leaves = 1..Len(names)
  <2> DEFINE L == Len(names)
             all == {lab[i][2] : i \in 1..L}
  <2>1. L \in Nat /\ leaves \in [1..L -> all]
    BY <1>12, <1>13
  <2> HIDE DEF L, all
  <2>2. Len(leaves) = L /\ DOMAIN leaves = 1..L
    BY <2>1, FunctionIsSeq
  <2> QED
    BY <2>2 DEF L
<1>15. \A i \in 1..Len(names) : leaves[i] = lab[i][2]
  BY <1>12
<1>16. Range(leaves) = {names[i][2] : i \in DOMAIN names}
  <2>1. ASSUME NEW x \in Range(leaves) PROVE \E i \in DOMAIN names : x = names[i][2]
    <3>1. PICK i \in 1..Len(names) : x = lab[i][2]
      BY <1>14, <1>15 DEF Range
    <3>2. lab[i] \in Range(lab)
      BY <1>6, <1>9
    <3>3. PICK p \in Range(names) : lab[i] = <<"prop", p[2]>>
      BY <1>6, <3>2
    <3>4. x = p[2]
      BY <3>1, <3>3
    <3> QED
      BY <3>4 DEF Range
  <2>2. ASSUME NEW i \in DOMAIN names PROVE names[i][2] \in Range(leaves)
    <3>1. names[i] \in Range(names)
      BY DEF Range
    <3>2. PICK j \in DOMAIN lab : lab[j] = <<"prop", names[i][2]>>
      BY <1>6, <1>9, <3>1, Zenon
    <3>3. j \in 1..Len(names) /\ lab[j][2] = names[i][2]
      BY <1>6, <1>9, <3>2
    <3>4. leaves[j] = names[i][2] /\ j \in DOMAIN leaves
      BY <1>14, <1>15, <3>3
    <3> QED
      BY <3>4 DEF Range
  <2> QED
    BY <2>1, <2>2
<1> QED
  BY <1>1, <1>14, <1>16, Zenon DEF leaves, ts, D

\* conductor.py: the tree has every property once.
LEMMA TreeKept == Given => TreeKeepsProperties
<1> SUFFICES ASSUME Given, in.kind = "tree" PROVE TreeKeepsProperties
  BY DEF TreeKeepsProperties
<1>1. PropertyList(in.of)
  BY InputAssumption DEF Given
<1> QED
  BY <1>1, TreeHolds, Zenon DEF TreeKeepsProperties, Depth

\* aig-manip, smt2manip.py and conductor.py: engine and solver assume what earlier steps
\* have proved and nothing else, and the tree the strategies are built on has every
\* property once, for any list of properties.
THEOREM ProofInputsAreSound == Spec => []ProofInputsSound
  BY InputGiven, TreeKept, ProofStepsIsolated, SelectionIsolates, PTL DEF ProofInputsSound

-----------------------------------------------------------------------------
\* report_lib/util.py

\* Lists of which only the first has elements.
LEMMA FirstOnly ==
  ASSUME NEW S, NEW ss \in Seq(Seq(S)), Len(ss) # 0, \A i \in 2..Len(ss) : ss[i] = <<>>
  PROVE  FlattenSeq(ss) = ss[1]
<1> DEFINE N == Len(ss)
<1>1. N \in Nat /\ N # 0 /\ ss[1] \in Seq(S)
  OBVIOUS
<1>2. PICK f : Joins(f, ss, S) /\ FlattenSeq(ss) = f[N]
  BY FlattenJoins
<1> DEFINE T == {n \in 0..N : n # 0 => f[n] = ss[1]}
<1>3. 0 \in T
  BY <1>1
<1>4. ASSUME NEW n \in 1..N, n - 1 \in T PROVE n \in T
  <2>1. f[n] = f[n - 1] \o ss[n] /\ f[0] = <<>>
    BY <1>2, JoinStep, Zenon DEF Joins
  <2>2. CASE n = 1
    <3>1. f[n - 1] = <<>> /\ ss[n] = ss[1] /\ <<>> \o ss[1] = ss[1]
      BY <1>1, <2>1, <2>2
    <3> QED
      BY <2>1, <3>1
  <2>3. CASE n # 1
    <3>1. f[n - 1] = ss[1] /\ ss[n] = <<>>
      BY <1>1, <1>4, <2>3
    <3> QED
      BY <1>1, <2>1, <3>1
  <2> QED
    BY <2>2, <2>3
<1>5. \A n \in 0..N : n \in T
  <2> HIDE DEF T, N
  <2> QED
    BY <1>1, <1>3, <1>4, IntervalInduction, Zenon
<1> QED
  BY <1>1, <1>2, <1>5

\* To keep some elements is to replace the others by nothing.
Keeper(S, A) == [x \in S |-> IF x \in A THEN <<x>> ELSE <<>>]

\* Filtering a list is replacing each element by itself or by nothing.
LEMMA KeepReplaces ==
  ASSUME NEW S, NEW list \in Seq(S), NEW A
  PROVE  /\ Keep(list, A) = Replaced(list, Keeper(S, A))
         /\ Keeper(S, A) \in [S -> Seq(S)]
<1> DEFINE k == Keeper(S, A)
<1>1. \A x \in S : k[x] = IF x \in A THEN <<x>> ELSE <<>>
  BY DEF Keeper
<1>2. \A x \in S : <<x>> \in Seq(S) /\ <<>> \in Seq(S)
  OBVIOUS
<1>3. k \in [S -> Seq(S)]
  BY <1>2 DEF Keeper
<1>4. \A i \in DOMAIN list : list[i] \in S
  OBVIOUS
<1> HIDE DEF k
<1>5. [i \in DOMAIN list |-> IF list[i] \in A THEN <<list[i]>> ELSE <<>>] = [i \in DOMAIN list |-> k[list[i]]]
  BY <1>1, <1>4
<1> QED
  BY <1>3, <1>5, Zenon DEF Keep, Replaced, k

\* Elements are kept by what they are mapped to, before or after the mapping.
Mapped(s, h) == [i \in DOMAIN s |-> h[s[i]]]

KeptMapped(s, h, K, H) == Keep(Mapped(s, h), K) = Mapped(Keep(s, H), h)

\* Filtering and mapping may change places.
LEMMA KeepMaps ==
  ASSUME NEW A, NEW B, NEW s \in Seq(A), NEW h \in [A -> B], NEW K, NEW H,
         \A x \in A : x \in H <=> h[x] \in K
  PROVE  KeptMapped(s, h, K, H)
<1> DEFINE one == [x \in A |-> <<h[x]>>]
           p == Keeper(A, H)
           q == Keeper(B, K)
           t == Mapped(s, h)
           r == Keep(s, H)
<1>1. one \in [A -> Seq(B)] /\ \A x \in A : one[x] = <<h[x]>>
  <2>1. \A x \in A : <<h[x]>> \in Seq(B)
    OBVIOUS
  <2> QED
    BY <2>1
<1>2. p \in [A -> Seq(A)] /\ r = Replaced(s, p)
  BY KeepReplaces
<1>3. r \in Seq(A)
  <2> HIDE DEF p, r
  <2> QED
    BY <1>2, ReplacedTyped, Zenon
<1>4. \A x \in A : p[x] = IF x \in H THEN <<x>> ELSE <<>>
  BY DEF Keeper
<1>5. \A x \in B : q[x] = IF x \in K THEN <<x>> ELSE <<>>
  BY DEF Keeper
<1>6. t \in Seq(B)
  <2>1. Len(s) \in Nat /\ t \in [1..Len(s) -> B]
    BY DEF Mapped
  <2> HIDE DEF t
  <2> QED
    BY <2>1, FunctionIsSeq
<1> HIDE DEF one, r, t
<1>7. q \in [B -> Seq(B)] /\ Keep(t, K) = Replaced(t, q)
  BY <1>6, KeepReplaces
<1> HIDE DEF p, q
<1>8. Maps(s, one, h)
  BY <1>1, ReplacedMaps, Zenon
<1>9. Maps(r, one, h)
  BY <1>1, <1>3, ReplacedMaps, Zenon
<1>10. Composes(A, s, one, q)
  BY <1>1, <1>7, ReplacedTwice, Zenon
<1>11. Composes(A, s, p, one)
  BY <1>1, <1>2, ReplacedTwice
<1>12. ASSUME NEW x \in A PROVE Replaced(one[x], q) = Replaced(p[x], one)
  <2>1. h[x] \in B /\ one[x] = <<h[x]>>
    BY <1>1
  <2>2. Replaced(<<h[x]>>, q) = q[h[x]]
    BY <1>7, <2>1, ReplacedOne
  <2>3. Replaced(<<x>>, one) = one[x]
    BY <1>1, ReplacedOne
  <2>4. Replaced(<<>>, one) = <<>>
    BY ReplacedEmpty
  <2> QED
    BY <1>4, <1>5, <2>1, <2>2, <2>3, <2>4
<1>13. Then(A, one, q) = Then(A, p, one)
  BY <1>12 DEF Then
<1>14. t = Replaced(s, one)
  BY <1>8 DEF Maps, Mapped, t
<1>15. Mapped(r, h) = Replaced(r, one)
  BY <1>9 DEF Maps, Mapped
<1>16. Replaced(t, q) = Replaced(r, one)
  BY <1>2, <1>10, <1>11, <1>13, <1>14 DEF Composes
<1> QED
  BY <1>7, <1>15, <1>16 DEF KeptMapped, r, t

\* Two lines before the others.
LEMMA TwoBefore ==
  ASSUME NEW S, NEW s \in Seq(S), Len(s) = 2, NEW t \in Seq(S), NEW N, Len(t) = N
  PROVE  /\ s \o t \in Seq(S) /\ Len(s \o t) = N + 2 /\ N \in Nat
         /\ \A i \in 1..(N + 2) : (s \o t)[i] = IF i <= 2 THEN s[i] ELSE t[i - 2]
<1> DEFINE b == s \o t
<1>1. /\ b \in Seq(S) /\ Len(b) = Len(s) + Len(t)
      /\ \A i \in 1..(Len(s) + Len(t)) : b[i] = IF i <= Len(s) THEN s[i] ELSE t[i - Len(s)]
  BY ConcatProperties, Zenon
<1>2. N \in Nat /\ Len(s) + Len(t) = N + 2
  OBVIOUS
<1> HIDE DEF b
<1> QED
  BY <1>1, <1>2 DEF b

\* All but the first two lines.
LEMMA LinesBelow ==
  ASSUME NEW N \in Nat
  PROVE  Keep([i \in 1..(N + 2) |-> i], 3..(N + 2)) = [n \in 1..N |-> n + 2]
<1> DEFINE A == 3..(N + 2)
           k == Keeper(Nat, A)
           r == [n \in 1..N |-> n + 2]
           all == [i \in 1..(N + 2) |-> i]
           two == Append(<<1>>, 2)
<1>1. r \in Seq(Nat) /\ Len(r) = N /\ DOMAIN r = 1..N
  <2>1. r \in [1..N -> Nat]
    OBVIOUS
  <2> HIDE DEF r
  <2> QED
    BY <2>1, FunctionIsSeq
<1>2. all \in Seq(Nat) /\ Len(all) = N + 2 /\ DOMAIN all = 1..(N + 2)
  <2>1. all \in [1..(N + 2) -> Nat] /\ N + 2 \in Nat
    OBVIOUS
  <2> HIDE DEF all
  <2> QED
    BY <2>1, FunctionIsSeq
<1>3. two \in Seq(Nat) /\ <<1>> \in Seq(Nat) /\ Len(two) = 2 /\ two[1] = 1 /\ two[2] = 2
  OBVIOUS
<1>4. all = two \o r
  <2> DEFINE b == two \o r
  <2>1. \A i \in 1..N : r[i] = i + 2
    OBVIOUS
  <2> HIDE DEF r, two
  <2>2. b \in Seq(Nat) /\ DOMAIN b = 1..(N + 2) /\ b[1] = 1 /\ b[2] = 2 /\ \A i \in 3..(N + 2) : b[i] = r[i - 2]
    <3>1. b \in Seq(Nat) /\ Len(b) = N + 2 /\ \A i \in 1..(N + 2) : b[i] = IF i <= 2 THEN two[i] ELSE r[i - 2]
      BY <1>1, <1>3, TwoBefore
    <3> HIDE DEF b
    <3> QED
      BY <1>3, <3>1
  <2> HIDE DEF b
  <2>3. \A i \in 1..(N + 2) : b[i] = i
    <3>1. \A i \in 1..(N + 2) : i = 1 \/ i = 2 \/ (i \in 3..(N + 2) /\ i - 2 \in 1..N /\ (i - 2) + 2 = i)
      OBVIOUS
    <3> QED
      BY <2>1, <2>2, <3>1
  <2>4. b = [i \in 1..(N + 2) |-> b[i]]
    BY <2>2
  <2> QED
    BY <2>3, <2>4 DEF b
<1>5. k \in [Nat -> Seq(Nat)] /\ Keep(all, A) = Replaced(all, k)
  <2> HIDE DEF all, A
  <2> QED
    BY <1>2, KeepReplaces
<1>6. k[1] = <<>> /\ k[2] = <<>>
  BY DEF Keeper
<1>7. \A a \in Range(r) : k[a] = <<a>>
  <2>1. ASSUME NEW a \in Range(r) PROVE a \in A /\ a \in Nat
    BY DEF Range
  <2>2. \A a \in Nat : a \in A => k[a] = <<a>>
    BY DEF Keeper
  <2> HIDE DEF r, A, k
  <2> QED
    BY <2>1, <2>2
<1> DEFINE M == Nat
           x == 1
           y == 2
           s == <<x>>
<1>13. /\ x \in M /\ y \in M /\ s \in Seq(M) /\ r \in Seq(M) /\ two \in Seq(M)
       /\ k \in [M -> Seq(M)] /\ Append(s, y) = two
  BY <1>1, <1>3, <1>5
<1>14. k[x] = <<>> /\ k[y] = <<>>
  BY <1>6
<1> HIDE DEF k, r, A, two, M, x, y
<1>8. Replaced(r, k) = r
  BY <1>7, <1>13, ReplacedNone, Zenon
<1>9. Replaced(two, k) = <<>>
  <2>1. Replaced(s, k) = k[x]
    BY <1>13, ReplacedOne
  <2> HIDE DEF s
  <2>2. Appends(s, y, k)
    BY <1>13, ReplacedAppend
  <2>3. Replaced(two, k) = <<>> \o <<>>
    BY <1>13, <1>14, <2>1, <2>2 DEF Appends
  <2> QED
    BY <2>3
<1>10. Concats(two, r, k)
  BY <1>13, ReplacedConcat
<1>11. <<>> \o r = r
  BY <1>1
<1>12. Keep(all, A) = r
  BY <1>4, <1>5, <1>8, <1>9, <1>10, <1>11, Zenon DEF Concats
<1> QED
  BY <1>12 DEF A, r

\* The lines of a table.
LEMMA TableGiven ==
  ASSUME NEW columns, NEW rows, IsTable(columns, rows)
  PROVE  LET lines == Table(columns, rows)
         IN  /\ Len(rows) \in Nat /\ DOMAIN rows = 1..Len(rows)
             /\ Len(lines) = Len(rows) + 2 /\ DOMAIN lines = 1..(Len(rows) + 2)
             /\ lines[1] = Header(columns) /\ lines[2] = Separator
             /\ \A i \in 1..Len(rows) : lines[i + 2] = Row(FALSE, rows[i][1], rows[i][2])
<1> DEFINE N == Len(rows)
           top == <<Header(columns), Separator>>
           below == [i \in DOMAIN rows |-> Row(FALSE, rows[i][1], rows[i][2])]
           S == {Header(columns), Separator} \cup {below[i] : i \in DOMAIN rows}
           lines == top \o below
<1>1. N \in Nat /\ DOMAIN rows = 1..N
  BY DEF IsTable
<1>2. below \in [1..N -> S] /\ \A i \in 1..N : below[i] = Row(FALSE, rows[i][1], rows[i][2])
  BY <1>1, Zenon
<1>3. top \in Seq(S) /\ Len(top) = 2 /\ top[1] = Header(columns) /\ top[2] = Separator
  OBVIOUS
<1>4. Table(columns, rows) = lines
  BY DEF Table
<1> HIDE DEF below, S, N, top
<1>5. below \in Seq(S) /\ Len(below) = N
  BY <1>1, <1>2, FunctionIsSeq
<1>6. lines \in Seq(S) /\ Len(lines) = N + 2 /\ \A i \in 1..(N + 2) : lines[i] = IF i <= 2 THEN top[i] ELSE below[i - 2]
  BY <1>3, <1>5, TwoBefore
<1> HIDE DEF lines
<1>7. DOMAIN lines = 1..(N + 2) /\ lines[1] = top[1] /\ lines[2] = top[2]
  BY <1>1, <1>6
<1>8. ASSUME NEW i \in 1..N PROVE lines[i + 2] = below[i]
  <2>1. i + 2 \in 1..(N + 2) /\ ~(i + 2 <= 2) /\ (i + 2) - 2 = i
    BY <1>1
  <2> QED
    BY <1>6, <2>1
<1> QED
  BY <1>1, <1>2, <1>3, <1>4, <1>6, <1>7, <1>8, Zenon DEF N

\* The rows of a module, and the last of them.
RowsOf(rows, m) == {i \in DOMAIN rows : rows[i][1] = m}
LastOf(rows, m) == CHOOSE i \in RowsOf(rows, m) : \A j \in RowsOf(rows, m) : j <= i

\* A set of positions has a last one.
LEMMA LastExists ==
  ASSUME NEW N \in Nat, NEW R \in SUBSET (1..N), R # {}
  PROVE  \E i \in R : \A j \in R : j <= i
<1> DEFINE S == {N - i : i \in R}
<1>1. S \in SUBSET Nat /\ S # {}
  <2>1. ASSUME NEW x \in S PROVE x \in Nat
    <3>1. PICK i \in R : x = N - i
      OBVIOUS
    <3>2. i \in 1..N
      BY Zenon
    <3> QED
      BY <3>1, <3>2
  <2>2. PICK i \in R : TRUE
    BY Zenon
  <2>3. N - i \in S
    OBVIOUS
  <2> HIDE DEF S
  <2> QED
    BY <2>1, <2>3
<1>2. PICK m \in S : \A k \in S : m <= k
  <2> HIDE DEF S
  <2> QED
    BY <1>1, LeastElement
<1>3. PICK i \in R : m = N - i
  BY <1>2
<1>4. ASSUME NEW j \in R PROVE j <= i
  <2>1. N - i <= N - j
    BY <1>2, <1>3, Zenon
  <2> QED
    BY <2>1
<1> QED
  BY <1>4

\* The cells of a row, under their columns.
Under(columns, cells, labelled) ==
  LET valued == {i \in DOMAIN cells : ~Raised(cells[i])}
  IN  /\ DOMAIN cells \subseteq DOMAIN columns
      /\ DOMAIN labelled = {columns[i] : i \in valued}
      /\ \A i \in valued : labelled[columns[i]] = Value(cells[i])

\* A row's cells are labelled with the columns they are under.
LEMMA CellsLabelled ==
  ASSUME NEW columns, NEW rows, IsTable(columns, rows), NEW m, NEW r \in DOMAIN rows,
         Len(rows[r][2]) <= Len(columns)
  PROVE  Under(columns, rows[r][2], Labelled(<<m>> \o rows[r][2], columns))
<1> DEFINE cells == rows[r][2]
           words == <<m>> \o cells
           valued == {i \in DOMAIN cells : ~Raised(cells[i])}
           S == {m} \cup Range(cells)
           N == Len(cells)
<1>1. cells \in Seq(Range(cells)) /\ columns \in Seq(Range(columns))
  <2>1. columns \in Seq({columns[i][1] : i \in DOMAIN columns} \X {"covered", "average"})
    BY DEF IsTable
  <2>2. columns \in Seq(Range(columns))
    <3>1. Len(columns) \in Nat /\ columns \in [1..Len(columns) -> Range(columns)]
      BY <2>1 DEF Range
    <3> QED
      BY <3>1, FunctionIsSeq
  <2> QED
    BY <2>2 DEF IsTable
<1>2. \A i, j \in DOMAIN columns : columns[i] = columns[j] => i = j
  BY DEF IsTable
<1>3. N \in Nat /\ DOMAIN cells = 1..N /\ DOMAIN columns = 1..Len(columns) /\ Len(columns) \in Nat /\ N <= Len(columns)
  BY <1>1
<1> HIDE DEF cells
<1>4. Len(words) = N + 1 /\ \A i \in 1..N : words[i + 1] = cells[i] /\ words[1 + i] = cells[i]
  <2> DEFINE one == <<m>>
             w == one \o cells
  <2>1. one \in Seq(S) /\ cells \in Seq(S) /\ Len(one) = 1
    <3>1. cells \in [1..N -> S]
      BY <1>1, <1>3
    <3>2. cells \in Seq(S)
      <4> HIDE DEF S, N
      <4> QED
        BY <1>3, <3>1, FunctionIsSeq
    <3> QED
      BY <3>2
  <2> HIDE DEF one, S
  <2>2. w \in Seq(S) /\ Len(w) = 1 + N /\ \A i \in 1..(1 + N) : w[i] = IF i <= 1 THEN one[i] ELSE cells[i - 1]
    BY <2>1, ConcatProperties
  <2> HIDE DEF w
  <2>3. ASSUME NEW i \in 1..N PROVE w[i + 1] = cells[i] /\ w[1 + i] = cells[i]
    <3>1. i + 1 \in 1..(1 + N) /\ ~(i + 1 <= 1) /\ (i + 1) - 1 = i /\ i + 1 = 1 + i
      BY <1>3
    <3> QED
      BY <2>2, <3>1
  <2>4. Len(w) = N + 1
    BY <1>3, <2>2
  <2> QED
    BY <2>3, <2>4 DEF w, one
<1> HIDE DEF words
<1> DEFINE own == {i \in 1..(Len(words) - 1) : ~Raised(words[i + 1])}
           At1(x) == {i \in own : columns[i] = x}
           Pick(x) == CHOOSE i \in At1(x) : \A j \in At1(x) : j <= i
<1>5. Labelled(words, columns) = [x \in {columns[i] : i \in own} |-> Value(words[1 + Pick(x)])]
  BY Zenon DEF Labelled
<1>6. own = valued
  BY <1>3, <1>4
<1>7. valued \subseteq 1..N /\ valued \subseteq DOMAIN columns
  BY <1>3
<1>8. ASSUME NEW i \in valued PROVE Pick(columns[i]) = i
  <2> HIDE DEF valued, own
  <2>1. \A j : j \in At1(columns[i]) <=> j = i
    BY <1>2, <1>6, <1>7
  <2>2. i \in Nat
    BY <1>7
  <2> HIDE DEF At1
  <2>3. \E j \in At1(columns[i]) : \A k \in At1(columns[i]) : k <= j
    BY <2>1, <2>2
  <2>4. Pick(columns[i]) \in At1(columns[i])
    BY <2>3
  <2> HIDE DEF Pick
  <2> QED
    BY <2>1, <2>4
<1> HIDE DEF Pick, own, valued
<1>9. /\ DOMAIN Labelled(words, columns) = {columns[i] : i \in valued}
      /\ \A i \in valued : Labelled(words, columns)[columns[i]] = Value(words[1 + Pick(columns[i])])
  BY <1>5, <1>6
<1>10. ASSUME NEW i \in valued PROVE Labelled(words, columns)[columns[i]] = Value(cells[i])
  <2>1. i \in 1..N
    BY <1>7
  <2>2. words[1 + i] = cells[i]
    BY <1>4, <2>1
  <2>3. Labelled(words, columns)[columns[i]] = Value(words[1 + i])
    BY <1>8, <1>9
  <2> QED
    BY <2>2, <2>3
<1>11. DOMAIN cells \subseteq DOMAIN columns
  BY <1>3
<1> QED
  BY <1>9, <1>10, <1>11, Zenon DEF Under, words, cells, valued

\* The words of a row.
LEMMA WordsGive ==
  ASSUME NEW m, NEW cells, cells \in Seq(Range(cells))
  PROVE  LET words == <<m>> \o cells
         IN  Len(cells) \in Nat /\ Len(words) - 1 = Len(cells) /\ words[1] = m /\ words # <<>>
<1> DEFINE S == {m} \cup Range(cells)
           one == <<m>>
           w == one \o cells
           N == Len(cells)
<1>1. N \in Nat /\ cells \in [1..N -> S]
  OBVIOUS
<1>2. one \in Seq(S) /\ Len(one) = 1 /\ one[1] = m
  OBVIOUS
<1> HIDE DEF S, one
<1>3. cells \in Seq(S)
  BY <1>1, FunctionIsSeq
<1>4. /\ w \in Seq(S) /\ Len(w) = Len(one) + Len(cells)
      /\ \A i \in 1..(Len(one) + Len(cells)) : w[i] = IF i <= Len(one) THEN one[i] ELSE cells[i - Len(one)]
  BY <1>2, <1>3, ConcatProperties, Zenon
<1> HIDE DEF w
<1>5. Len(w) = N + 1 /\ w[1] = m
  <2>1. 1 \in 1..(Len(one) + Len(cells))
    BY <1>1, <1>2
  <2> QED
    BY <1>1, <1>2, <1>4, <2>1
<1>6. w # <<>>
  BY <1>1, <1>5
<1> QED
  BY <1>1, <1>5, <1>6 DEF w, one

\* What is read of a table.
Parsed(columns, rows, parsed) ==
  /\ Raised(parsed) <=> \E i \in DOMAIN rows : Len(rows[i][2]) > Len(columns)
  /\ ~Raised(parsed) =>
       /\ DOMAIN Value(parsed).of = {rows[i][1] : i \in DOMAIN rows}
       /\ \A i \in DOMAIN rows : Value(parsed).of[rows[i][1]] =
            Labelled(<<rows[i][1]>> \o rows[LastOf(rows, rows[i][1])][2], columns)
       /\ (\A i, j \in DOMAIN rows : rows[i][1] = rows[j][1] => i = j) =>
            Value(parsed).modules = [i \in DOMAIN rows |-> rows[i][1]]

\* A table is read row by row, and refused when a row is too long.
LEMMA TableParsed ==
  ASSUME NEW columns, NEW rows, IsTable(columns, rows)
  PROVE  Parsed(columns, rows, parse_xcelium_cov_report(Table(columns, rows)))
<1> DEFINE lines == Table(columns, rows)
           N == Len(rows)
           named == {i \in DOMAIN lines : lines[i].name}
           info == FlattenSeq([i \in DOMAIN lines |-> lines[i].columns])
           start == 2 + CHOOSE i \in named : \A j \in named : j <= i
           below == {i \in start..Len(lines) : lines[i].words # <<>>}
           Mod(i) == lines[i].words[1]
           firsts == {i \in below : \A j \in below : Mod(j) = Mod(i) => i <= j}
           added == Keep([i \in DOMAIN lines |-> i], firsts)
           Latest(module) == CHOOSE i \in below : /\ Mod(i) = module
                                                  /\ \A j \in below : Mod(j) = module => j <= i
           modules == [n \in DOMAIN added |-> Mod(added[n])]
           of == [module \in {Mod(i) : i \in below} |-> Labelled(lines[Latest(module)].words, info)]
           parsed == parse_xcelium_cov_report(lines)
<1>1. parsed = IF named = {} THEN Raise
               ELSE IF \E i \in below : Len(lines[i].words) - 1 > Len(info) THEN Raise
               ELSE Return([modules |-> modules, of |-> of])
  BY Zenon DEF parse_xcelium_cov_report
<1>2. /\ N \in Nat /\ DOMAIN rows = 1..N /\ Len(lines) = N + 2 /\ DOMAIN lines = 1..(N + 2)
      /\ lines[1] = Header(columns) /\ lines[2] = Separator
      /\ \A i \in 1..N : lines[i + 2] = Row(FALSE, rows[i][1], rows[i][2])
  BY TableGiven, Zenon
<1> HIDE DEF lines, N
<1>3. /\ lines[1].name = TRUE /\ lines[1].columns = columns
      /\ lines[2].name = FALSE /\ lines[2].columns = <<>>
  BY <1>2 DEF Header, Separator
<1>4. \A i \in 1..N : /\ lines[i + 2].name = FALSE /\ lines[i + 2].columns = <<>>
                      /\ lines[i + 2].words = <<rows[i][1]>> \o rows[i][2]
  <2>1. \A m, c : /\ Row(FALSE, m, c).name = FALSE /\ Row(FALSE, m, c).columns = <<>>
                  /\ Row(FALSE, m, c).words = <<m>> \o c
    BY Zenon DEF Row
  <2>2. ASSUME NEW i \in 1..N
        PROVE  /\ lines[i + 2].name = FALSE /\ lines[i + 2].columns = <<>>
               /\ lines[i + 2].words = <<rows[i][1]>> \o rows[i][2]
    <3>1. lines[i + 2] = Row(FALSE, rows[i][1], rows[i][2])
      BY <1>2, Zenon
    <3> QED
      BY <2>1, <3>1, Zenon
  <2> QED
    BY <2>2, Zenon
<1>5. \A i \in 3..(N + 2) : i - 2 \in 1..N /\ (i - 2) + 2 = i
  BY <1>2
<1>6. \A i \in 3..(N + 2) : /\ lines[i].name = FALSE /\ lines[i].columns = <<>>
                            /\ lines[i].words = <<rows[i - 2][1]>> \o rows[i - 2][2]
  BY <1>4, <1>5
<1>7. \A i \in 3..(N + 2) : /\ Len(rows[i - 2][2]) \in Nat /\ Len(lines[i].words) - 1 = Len(rows[i - 2][2])
                            /\ lines[i].words[1] = rows[i - 2][1] /\ lines[i].words # <<>>
  <2> SUFFICES ASSUME NEW i \in 3..(N + 2)
               PROVE  /\ Len(rows[i - 2][2]) \in Nat /\ Len(lines[i].words) - 1 = Len(rows[i - 2][2])
                      /\ lines[i].words[1] = rows[i - 2][1] /\ lines[i].words # <<>>
    OBVIOUS
  <2> DEFINE cells == rows[i - 2][2]
             m == rows[i - 2][1]
             words == <<m>> \o cells
  <2>1. lines[i].words = words
    BY <1>6, Zenon
  <2>2. i - 2 \in DOMAIN rows
    BY <1>2, <1>5
  <2>3. cells \in Seq(Range(cells))
    BY <2>2 DEF IsTable
  <2>4. Len(cells) \in Nat /\ Len(words) - 1 = Len(cells) /\ words[1] = m /\ words # <<>>
    <3> HIDE DEF cells, m
    <3> QED
      BY <2>3, WordsGive, Zenon
  <2> HIDE DEF words
  <2> QED
    BY <2>1, <2>4
<1>8. named = {1}
  <2>1. \A i \in 1..(N + 2) : i = 1 \/ i = 2 \/ i \in 3..(N + 2)
    BY <1>2
  <2>2. 1 \in DOMAIN lines
    BY <1>2
  <2>3. \A i \in DOMAIN lines : lines[i].name <=> i = 1
    BY <1>2, <1>3, <1>6, <2>1, Zenon
  <2> QED
    BY <2>2, <2>3
<1>9. start = 3
  <2>1. (CHOOSE i \in {1} : \A j \in {1} : j <= i) = 1
    OBVIOUS
  <2> HIDE DEF named
  <2> QED
    BY <1>8, <2>1
<1>10. below = 3..(N + 2)
  <2> HIDE DEF start
  <2> QED
    BY <1>2, <1>7, <1>9
<1>11. info = columns
  <2> DEFINE C == Range(columns)
             ss == [i \in DOMAIN lines |-> lines[i].columns]
             L == N + 2
  <2>1. columns \in Seq(C)
    <3>1. columns \in Seq({columns[i][1] : i \in DOMAIN columns} \X {"covered", "average"})
      BY DEF IsTable
    <3>2. Len(columns) \in Nat /\ columns \in [1..Len(columns) -> C]
      BY <3>1 DEF Range
    <3> QED
      BY <3>2, FunctionIsSeq
  <2> HIDE DEF C
  <2>2. L \in Nat /\ L # 0 /\ DOMAIN ss = 1..L /\ (\A i \in 1..L : ss[i] = lines[i].columns) /\ 1 \in 1..L
    BY <1>2
  <2>3. ss[1] = columns /\ \A i \in 2..L : ss[i] = <<>>
    <3>1. \A i \in 2..L : i \in 1..L /\ (i = 2 \/ i \in 3..(N + 2))
      BY <1>2
    <3> HIDE DEF L, ss
    <3> QED
      BY <1>3, <1>6, <2>2, <3>1, Zenon
  <2>4. \A i \in 1..L : ss[i] \in Seq(C)
    <3>1. \A i \in 1..L : i = 1 \/ i \in 2..L
      BY <2>2
    <3>2. <<>> \in Seq(C)
      OBVIOUS
    <3> HIDE DEF L, ss
    <3> QED
      BY <2>1, <2>3, <3>1, <3>2, Zenon
  <2>5. ss = [i \in DOMAIN ss |-> ss[i]]
    OBVIOUS
  <2> HIDE DEF L, ss
  <2>6. ss \in [1..L -> Seq(C)]
    BY <2>2, <2>4, <2>5
  <2>7. ss \in Seq(Seq(C)) /\ Len(ss) = L
    BY <2>2, <2>6, FunctionIsSeq
  <2>8. FlattenSeq(ss) = ss[1]
    BY <2>2, <2>3, <2>7, FirstOnly
  <2> QED
    BY <2>3, <2>8 DEF ss
<1> HIDE DEF named, info, start, below
<1>12. parsed = IF \E i \in below : Len(lines[i].words) - 1 > Len(info) THEN Raise
                ELSE Return([modules |-> modules, of |-> of])
  <2>1. named # {}
    BY <1>8
  <2> HIDE DEF parsed, modules, of
  <2> QED
    BY <1>1, <2>1
<1>13. (\E i \in below : Len(lines[i].words) - 1 > Len(info)) <=> \E i \in DOMAIN rows : Len(rows[i][2]) > Len(columns)
  <2>1. ASSUME NEW i \in below, Len(lines[i].words) - 1 > Len(info)
        PROVE  \E k \in DOMAIN rows : Len(rows[k][2]) > Len(columns)
    <3>1. i \in 3..(N + 2) /\ i - 2 \in DOMAIN rows
      BY <1>2, <1>5, <1>10
    <3> QED
      BY <1>7, <1>11, <2>1, <3>1, Zenon
  <2>2. ASSUME NEW k \in DOMAIN rows, Len(rows[k][2]) > Len(columns)
        PROVE  \E i \in below : Len(lines[i].words) - 1 > Len(info)
    <3>1. k + 2 \in 3..(N + 2) /\ (k + 2) - 2 = k
      BY <1>2
    <3>2. k + 2 \in below
      BY <1>10, <3>1
    <3>3. Len(lines[k + 2].words) - 1 = Len(rows[k][2])
      BY <1>7, <3>1
    <3> QED
      BY <1>11, <2>2, <3>2, <3>3
  <2> QED
    BY <2>1, <2>2
<1>14. Raised(parsed) <=> \E i \in DOMAIN rows : Len(rows[i][2]) > Len(columns)
  <2>1. Return([modules |-> modules, of |-> of]) # Raise
    BY DEF Return, Raise
  <2> HIDE DEF parsed, modules, of
  <2> QED
    BY <1>12, <1>13, <2>1 DEF Raised
<1>15. ASSUME ~Raised(parsed) PROVE Value(parsed).of = of /\ Value(parsed).modules = modules
  <2>1. parsed = Return([modules |-> modules, of |-> of])
    <3> HIDE DEF parsed, modules, of
    <3> QED
      BY <1>12, <1>15 DEF Raised
  <2> HIDE DEF parsed, modules, of
  <2> QED
    BY <2>1 DEF Return, Value
<1>16. \A i \in below : Mod(i) = rows[i - 2][1]
  BY <1>7, <1>10
<1>17. DOMAIN of = {rows[i][1] : i \in DOMAIN rows}
  <2>1. DOMAIN of = {Mod(i) : i \in below}
    OBVIOUS
  <2>2. ASSUME NEW i \in below PROVE Mod(i) \in {rows[k][1] : k \in DOMAIN rows}
    <3>1. i - 2 \in DOMAIN rows
      BY <1>2, <1>5, <1>10
    <3> QED
      BY <1>16, <3>1
  <2>3. ASSUME NEW k \in DOMAIN rows PROVE rows[k][1] \in {Mod(i) : i \in below}
    <3>1. k + 2 \in below /\ (k + 2) - 2 = k
      BY <1>2, <1>10
    <3>2. Mod(k + 2) = rows[k][1]
      BY <1>16, <3>1
    <3> HIDE DEF Mod
    <3> QED
      BY <3>1, <3>2
  <2> HIDE DEF of, Mod
  <2> QED
    BY <2>1, <2>2, <2>3
<1>18. ASSUME NEW k \in DOMAIN rows
       PROVE  of[rows[k][1]] = Labelled(<<rows[k][1]>> \o rows[LastOf(rows, rows[k][1])][2], columns)
  <2> DEFINE m == rows[k][1]
             R == RowsOf(rows, m)
             e == LastOf(rows, m)
             l == Latest(m)
  <2>1. R \in SUBSET (1..N) /\ k \in R /\ \A i \in R : rows[i][1] = m
    BY <1>2 DEF RowsOf
  <2>2. \E i \in R : \A j \in R : j <= i
    <3> HIDE DEF R
    <3> QED
      BY <1>2, <2>1, LastExists, Zenon
  <2>3. e \in R /\ \A j \in R : j <= e
    <3> DEFINE Ends(i) == i \in R /\ \A j \in R : j <= i
    <3>1. e = CHOOSE i \in R : \A j \in R : j <= i
      BY DEF LastOf
    <3> HIDE DEF R, e
    <3> QED
      BY <2>2, <3>1
  <2>4. \A i : i \in below /\ Mod(i) = m <=> i \in 3..(N + 2) /\ i - 2 \in R
    <3>1. \A i \in 3..(N + 2) : i - 2 \in R <=> rows[i - 2][1] = m
      BY <1>2, <1>5 DEF RowsOf
    <3> HIDE DEF R, m, Mod
    <3> QED
      BY <1>10, <1>16, <3>1
  <2> HIDE DEF R, e, m
  <2>5. e \in 1..N /\ e + 2 \in 3..(N + 2) /\ (e + 2) - 2 = e /\ e \in Int
    BY <1>2, <2>1, <2>3
  <2>6. e + 2 \in below /\ Mod(e + 2) = m
    <3> HIDE DEF Mod
    <3> QED
      BY <2>3, <2>4, <2>5
  <2>7. ASSUME NEW j \in below, Mod(j) = m PROVE j <= e + 2
    <3>1. j \in 3..(N + 2) /\ j - 2 \in R
      <4> HIDE DEF Mod
      <4> QED
        BY <2>4, <2>7
    <3>2. j - 2 <= e
      BY <2>3, <3>1
    <3> QED
      BY <1>2, <2>5, <3>1, <3>2
  <2> HIDE DEF Mod
  <2>8. l \in below /\ Mod(l) = m /\ \A j \in below : Mod(j) = m => j <= l
    <3>1. \E i \in below : Mod(i) = m /\ \A j \in below : Mod(j) = m => j <= i
      BY <2>6, <2>7
    <3> QED
      BY <3>1
  <2> HIDE DEF l
  <2>9. l = e + 2
    <3>1. l <= e + 2 /\ e + 2 <= l
      BY <2>6, <2>7, <2>8
    <3>2. l \in Int
      BY <1>2, <1>10, <2>8
    <3> QED
      BY <2>5, <3>1, <3>2
  <2>10. m \in {Mod(i) : i \in below}
    BY <2>6
  <2>11. of[m] = Labelled(lines[l].words, info)
    BY <2>10 DEF l
  <2>12. lines[e + 2].words = <<m>> \o rows[e][2]
    <3>1. rows[e][1] = m
      BY <2>1, <2>3
    <3> QED
      BY <1>4, <2>5, <3>1
  <2> HIDE DEF of
  <2> QED
    BY <1>11, <2>9, <2>11, <2>12, Zenon DEF m, e
<1>19. ASSUME \A i, j \in DOMAIN rows : rows[i][1] = rows[j][1] => i = j
       PROVE  modules = [i \in DOMAIN rows |-> rows[i][1]]
  <2>1. firsts = 3..(N + 2)
    <3>1. ASSUME NEW i \in below, NEW j \in below, Mod(j) = Mod(i) PROVE i <= j
      <4>1. i \in 3..(N + 2) /\ j \in 3..(N + 2) /\ i - 2 \in DOMAIN rows /\ j - 2 \in DOMAIN rows
        BY <1>2, <1>5, <1>10
      <4>2. rows[i - 2][1] = rows[j - 2][1]
        <5> HIDE DEF Mod
        <5> QED
          BY <1>16, <3>1
      <4>3. i - 2 = j - 2
        BY <1>19, <4>1, <4>2
      <4> QED
        BY <1>2, <4>1, <4>3
    <3> HIDE DEF Mod
    <3>2. firsts = below
      BY <3>1
    <3> QED
      BY <1>10, <3>2
  <2>2. added = [n \in 1..N |-> n + 2]
    <3>1. [i \in DOMAIN lines |-> i] = [i \in 1..(N + 2) |-> i]
      BY <1>2
    <3>2. Keep([i \in 1..(N + 2) |-> i], 3..(N + 2)) = [n \in 1..N |-> n + 2]
      BY <1>2, LinesBelow, Zenon
    <3> HIDE DEF firsts
    <3> QED
      BY <2>1, <3>1, <3>2, Zenon
  <2> HIDE DEF added, Mod
  <2>3. DOMAIN added = 1..N /\ \A n \in 1..N : added[n] = n + 2
    BY <2>2
  <2>4. \A n \in 1..N : Mod(n + 2) = rows[n][1]
    <3>1. \A n \in 1..N : n + 2 \in below /\ (n + 2) - 2 = n
      BY <1>2, <1>10
    <3> QED
      BY <1>16, <3>1
  <2>5. \A n \in 1..N : Mod(added[n]) = rows[n][1]
    BY <2>3, <2>4
  <2> QED
    BY <1>2, <2>3, <2>5
<1> HIDE DEF parsed, of, modules
<1>20. /\ Raised(parsed) <=> \E i \in DOMAIN rows : Len(rows[i][2]) > Len(columns)
       /\ ~Raised(parsed) =>
            /\ DOMAIN Value(parsed).of = {rows[i][1] : i \in DOMAIN rows}
            /\ \A i \in DOMAIN rows : Value(parsed).of[rows[i][1]] =
                 Labelled(<<rows[i][1]>> \o rows[LastOf(rows, rows[i][1])][2], columns)
            /\ (\A i, j \in DOMAIN rows : rows[i][1] = rows[j][1] => i = j) =>
                 Value(parsed).modules = [i \in DOMAIN rows |-> rows[i][1]]
  BY <1>14, <1>15, <1>17, <1>18, <1>19, Zenon
<1> QED
  BY <1>20, Zenon DEF Parsed, parsed, lines

\* The cells of a report are read under their columns' names.
LastCells(rows, m) == IF RowsOf(rows, m) = {} THEN <<>> ELSE rows[LastOf(rows, m)][2]

Shows(columns, d, last) ==
  LET top == IF "ibex_top" \in DOMAIN d THEN d["ibex_top"] ELSE <<>>
      metrics == {m \in IBEX_COVERAGE_METRICS : Covered(m) \in DOMAIN top}
      shown == {i \in DOMAIN last : /\ columns[i] \in {Covered(m) : m \in IBEX_COVERAGE_METRICS}
                                    /\ ~Raised(last[i])}
  IN  /\ metrics = {columns[i][1] : i \in shown}
      /\ \A i \in shown : Covered(columns[i][1]) = columns[i] /\ top[columns[i]] = Value(last[i])

\* The metrics shown are those of ibex_top's last row.
LEMMA MetricsRead ==
  ASSUME NEW columns, NEW rows, IsTable(columns, rows),
         \A i \in DOMAIN rows : ~(Len(rows[i][2]) > Len(columns)), NEW d,
         DOMAIN d = {rows[i][1] : i \in DOMAIN rows},
         \A i \in DOMAIN rows : d[rows[i][1]] =
           Labelled(<<rows[i][1]>> \o rows[LastOf(rows, rows[i][1])][2], columns)
  PROVE  Shows(columns, d, LastCells(rows, "ibex_top"))
<1> DEFINE m == "ibex_top"
           top == IF m \in DOMAIN d THEN d[m] ELSE <<>>
           metrics == {x \in IBEX_COVERAGE_METRICS : Covered(x) \in DOMAIN top}
           R == RowsOf(rows, m)
           e == LastOf(rows, m)
           last == IF R = {} THEN <<>> ELSE rows[e][2]
           covered == {Covered(x) : x \in IBEX_COVERAGE_METRICS}
           valued == {i \in DOMAIN last : ~Raised(last[i])}
           shown == {i \in DOMAIN last : columns[i] \in covered /\ ~Raised(last[i])}
<1>1. DOMAIN top = {columns[i] : i \in valued} /\ \A i \in valued : top[columns[i]] = Value(last[i])
  <2>1. CASE R = {}
    <3>1. m \notin DOMAIN d
      BY <2>1 DEF RowsOf
    <3>2. top = <<>> /\ last = <<>>
      BY <2>1, <3>1
    <3> QED
      BY <3>2
  <2>2. CASE R # {}
    <3>1. Len(rows) \in Nat /\ DOMAIN rows = 1..Len(rows)
      BY DEF IsTable
    <3>2. R \in SUBSET (1..Len(rows)) /\ \A i \in R : i \in DOMAIN rows /\ rows[i][1] = m
      BY <3>1 DEF RowsOf
    <3>3. \E i \in R : \A j \in R : j <= i
      <4> HIDE DEF R
      <4> QED
        BY <2>2, <3>1, <3>2, LastExists, Zenon
    <3>4. e \in R
      <4>1. e = CHOOSE i \in R : \A j \in R : j <= i
        BY DEF LastOf
      <4> HIDE DEF R, e
      <4> QED
        BY <3>3, <4>1
    <3>5. e \in DOMAIN rows /\ rows[e][1] = m
      BY <3>2, <3>4
    <3>6. m \in DOMAIN d /\ d[m] = Labelled(<<m>> \o rows[e][2], columns)
      <4> HIDE DEF m
      <4>1. d[rows[e][1]] = Labelled(<<rows[e][1]>> \o rows[LastOf(rows, rows[e][1])][2], columns)
        BY <3>5
      <4>2. d[m] = Labelled(<<m>> \o rows[LastOf(rows, m)][2], columns)
        BY <3>5, <4>1, Zenon
      <4> QED
        BY <3>5, <4>2
    <3>7. Len(rows[e][2]) \in Nat /\ Len(columns) \in Nat /\ Len(rows[e][2]) <= Len(columns)
      <4>1. Len(rows[e][2]) \in Nat /\ Len(columns) \in Nat
        BY <3>5 DEF IsTable
      <4> QED
        BY <3>5, <4>1
    <3>8. last = rows[e][2] /\ top = d[m]
      BY <2>2, <3>6
    <3>9. Under(columns, last, top)
      <4> DEFINE labelled == Labelled(<<m>> \o rows[e][2], columns)
      <4>1. Under(columns, rows[e][2], labelled)
        <5> HIDE DEF e, m
        <5> QED
          BY <3>5, <3>7, CellsLabelled
      <4> HIDE DEF labelled, last, top, e, m
      <4> QED
        BY <3>6, <3>8, <4>1 DEF labelled
    <3> HIDE DEF top, last, e, m
    <3> QED
      BY <3>9 DEF Under
  <2> QED
    BY <2>1, <2>2
<1>2. \A x : Covered(x)[1] = x
  BY DEF Covered
<1>3. shown = {i \in valued : columns[i] \in covered}
  OBVIOUS
<1> HIDE DEF top, last, valued, shown
<1>4. \A i \in shown : \E x \in IBEX_COVERAGE_METRICS : columns[i] = Covered(x)
  BY <1>3
<1>5. \A i \in shown : Covered(columns[i][1]) = columns[i] /\ columns[i][1] \in IBEX_COVERAGE_METRICS
  BY <1>2, <1>4
<1>6. metrics = {columns[i][1] : i \in shown}
  <2>1. ASSUME NEW x \in metrics PROVE \E i \in shown : x = columns[i][1]
    <3>1. x \in IBEX_COVERAGE_METRICS /\ Covered(x) \in DOMAIN top
      OBVIOUS
    <3>2. PICK i \in valued : Covered(x) = columns[i]
      BY <1>1, <3>1
    <3>3. i \in shown
      BY <1>3, <3>1, <3>2
    <3> QED
      BY <1>2, <3>2, <3>3
  <2>2. ASSUME NEW i \in shown PROVE columns[i][1] \in metrics
    <3>1. i \in valued
      BY <1>3
    <3>2. columns[i] \in DOMAIN top
      BY <1>1, <3>1
    <3> QED
      BY <1>5, <3>2
  <2> HIDE DEF metrics
  <2> QED
    BY <2>1, <2>2
<1>7. \A i \in shown : top[columns[i]] = Value(last[i])
  BY <1>1, <1>3
<1> QED
  BY <1>5, <1>6, <1>7, Zenon DEF Shows, LastCells, m, top, metrics, R, e, last, covered, valued, shown

\* The covergroup report is a table that is read.
CgRows(cg) == [i \in DOMAIN cg |-> <<cg[i][1], <<Return(<<cg[i][2]>>)>> >>]
Distinct(cg) == cg \in Seq(Range(cg)) /\ \A i, j \in DOMAIN cg : cg[i][1] = cg[j][1] => i = j

\* The covergroup report is a table of one column.
LEMMA CovergroupsGiven ==
  ASSUME NEW cg, Distinct(cg)
  PROVE  /\ Len(cg) \in Nat /\ DOMAIN cg = 1..Len(cg) /\ DOMAIN CgRows(cg) = 1..Len(cg)
         /\ \A i \in 1..Len(cg) : CgRows(cg)[i] = <<cg[i][1], <<Return(<<cg[i][2]>>)>> >>
         /\ IsTable(<<CovergroupAverage>>, CgRows(cg))
         /\ \A i \in 1..Len(cg) : Len(CgRows(cg)[i][2]) = 1
         /\ CovergroupTable(cg) = Table(<<CovergroupAverage>>, CgRows(cg))
<1> DEFINE N == Len(cg)
           rows == CgRows(cg)
           columns == <<CovergroupAverage>>
<1>1. N \in Nat /\ DOMAIN cg = 1..N
  BY DEF Distinct
<1>2. DOMAIN rows = 1..N /\ \A i \in 1..N : rows[i] = <<cg[i][1], <<Return(<<cg[i][2]>>)>> >>
  BY <1>1 DEF CgRows
<1>3. rows \in Seq(Range(rows))
  <2>1. rows = [i \in 1..N |-> rows[i]]
    BY <1>1 DEF CgRows
  <2> HIDE DEF rows, N
  <2>2. rows \in [1..N -> Range(rows)]
    BY <1>2, <2>1 DEF Range
  <2> QED
    BY <1>1, <2>2, FunctionIsSeq
<1> HIDE DEF rows, N
<1>4. ASSUME NEW i \in 1..N PROVE Len(rows[i][2]) = 1 /\ rows[i][2] \in Seq(Range(rows[i][2]))
  <2> DEFINE x == Return(<<cg[i][2]>>)
             s == <<x>>
  <2>1. rows[i][2] = s
    BY <1>2
  <2> HIDE DEF x
  <2>2. s \in Seq(Range(s)) /\ Len(s) = 1
    BY DEF Range
  <2> HIDE DEF s
  <2> QED
    BY <2>1, <2>2
<1>5. columns \in Seq({columns[i][1] : i \in DOMAIN columns} \X {"covered", "average"})
  <2>1. DOMAIN columns = 1..1 /\ columns[1] = CovergroupAverage
    OBVIOUS
  <2>2. CovergroupAverage \in {CovergroupAverage[1]} \X {"covered", "average"}
    BY DEF CovergroupAverage
  <2> DEFINE F == {columns[i][1] : i \in DOMAIN columns} \X {"covered", "average"}
             a == CovergroupAverage
  <2>3. a \in F
    BY <2>1, <2>2
  <2>4. <<a>> \in Seq(F)
    <3> HIDE DEF F, a
    <3> QED
      BY <2>3
  <2> QED
    BY <2>4
<1>6. \A i, j \in DOMAIN columns : columns[i] = columns[j] => i = j
  OBVIOUS
<1>7. IsTable(columns, rows)
  <2> HIDE DEF columns
  <2> QED
    BY <1>2, <1>3, <1>4, <1>5, <1>6 DEF IsTable
<1>8. CovergroupTable(cg) = Table(columns, rows)
  BY Zenon DEF CovergroupTable, CgRows, rows
<1> QED
  BY <1>1, <1>2, <1>4, <1>7, <1>8, Zenon DEF rows, N

\* It is read as the modules and their averages, in order.
LEMMA CovergroupsRead ==
  ASSUME NEW cg, Distinct(cg)
  PROVE  LET d == parse_xcelium_cov_report(CovergroupTable(cg))
             name == [c \in Range(cg) |-> c[1]]
         IN  /\ ~Raised(d) /\ Value(d).modules = Mapped(cg, name)
             /\ DOMAIN Value(d).of = {c[1] : c \in Range(cg)}
             /\ \A c \in Range(cg) : /\ CovergroupAverage \in DOMAIN Value(d).of[c[1]]
                                     /\ Value(d).of[c[1]][CovergroupAverage] = <<c[2]>>
<1> DEFINE N == Len(cg)
           rows == CgRows(cg)
           columns == <<CovergroupAverage>>
           d == parse_xcelium_cov_report(CovergroupTable(cg))
           name == [c \in Range(cg) |-> c[1]]
<1>1. /\ N \in Nat /\ DOMAIN cg = 1..N /\ DOMAIN rows = 1..N
      /\ \A i \in 1..N : rows[i] = <<cg[i][1], <<Return(<<cg[i][2]>>)>> >>
      /\ \A i \in 1..N : Len(rows[i][2]) = 1
  BY CovergroupsGiven
<1>2. IsTable(columns, rows) /\ CovergroupTable(cg) = Table(columns, rows)
  BY CovergroupsGiven
<1>3. Len(columns) = 1 /\ DOMAIN columns = 1..1 /\ columns[1] = CovergroupAverage
  OBVIOUS
<1>4. \A i, j \in 1..N : cg[i][1] = cg[j][1] => i = j
  BY <1>1 DEF Distinct
<1>5. \A x \in Range(cg) : \E i \in 1..N : x = cg[i]
  BY <1>1 DEF Range
<1>6. \A i \in 1..N : cg[i] \in Range(cg)
  BY <1>1 DEF Range
<1> HIDE DEF columns, rows, N
<1>7. \A i \in 1..N : rows[i][1] = cg[i][1] /\ rows[i][2] = <<Return(<<cg[i][2]>>)>>
  <2>1. \A x, y : <<x, y>>[1] = x /\ <<x, y>>[2] = y
    OBVIOUS
  <2> QED
    BY <1>1, <2>1
<1>8. Parsed(columns, rows, d)
  BY <1>2, TableParsed
<1> HIDE DEF d
<1>15. N \in Nat /\ DOMAIN cg = 1..N /\ DOMAIN rows = 1..N
  BY <1>1
<1>16. \A i \in 1..N : ~(Len(rows[i][2]) > Len(columns)) /\ Len(rows[i][2]) <= Len(columns)
  <2>1. ~(1 > 1) /\ 1 <= 1
    OBVIOUS
  <2> QED
    BY <1>1, <1>3, <2>1, Zenon
<1>9. ~Raised(d)
  BY <1>8, <1>15, <1>16 DEF Parsed
<1>10. \A i, j \in DOMAIN rows : rows[i][1] = rows[j][1] => i = j
  BY <1>1, <1>4, <1>7, Zenon
<1>11. Value(d).modules = [i \in DOMAIN rows |-> rows[i][1]]
  BY <1>8, <1>9, <1>10, Zenon DEF Parsed
<1>12. Value(d).modules = Mapped(cg, name)
  <2>1. \A i \in 1..N : name[cg[i]] = cg[i][1]
    BY <1>6
  <2> HIDE DEF name
  <2> QED
    BY <1>7, <1>11, <1>15, <2>1 DEF Mapped
<1>13. DOMAIN Value(d).of = {c[1] : c \in Range(cg)}
  <2>1. DOMAIN Value(d).of = {rows[i][1] : i \in 1..N}
    BY <1>8, <1>9, <1>15, Zenon DEF Parsed
  <2>2. {rows[i][1] : i \in 1..N} = {c[1] : c \in Range(cg)}
    <3>1. ASSUME NEW i \in 1..N PROVE rows[i][1] \in {c[1] : c \in Range(cg)}
      <4>1. rows[i][1] = cg[i][1] /\ cg[i] \in Range(cg)
        BY <1>6, <1>7, Zenon
      <4> QED
        BY <4>1
    <3>2. ASSUME NEW c \in Range(cg) PROVE c[1] \in {rows[i][1] : i \in 1..N}
      <4>1. PICK i \in 1..N : c = cg[i]
        BY <1>5
      <4>2. rows[i][1] = c[1]
        BY <1>7, <4>1, Zenon
      <4> QED
        BY <4>2
    <3> QED
      BY <3>1, <3>2
  <2> QED
    BY <2>1, <2>2, Zenon
<1>14. ASSUME NEW c \in Range(cg)
       PROVE  /\ CovergroupAverage \in DOMAIN Value(d).of[c[1]]
              /\ Value(d).of[c[1]][CovergroupAverage] = <<c[2]>>
  <2>1. PICK i \in 1..N : c = cg[i]
    BY <1>5
  <2>2. LastOf(rows, c[1]) = i
    <3> DEFINE R == RowsOf(rows, c[1])
    <3>1. \A j : j \in R <=> j = i
      BY <1>4, <1>7, <1>15, <2>1, Zenon DEF RowsOf
    <3>2. LastOf(rows, c[1]) = CHOOSE k \in R : \A j \in R : j <= k
      BY DEF LastOf
    <3> HIDE DEF R
    <3>4. i <= i
      BY <1>15
    <3>3. \E k \in R : \A j \in R : j <= k
      BY <3>1, <3>4
    <3> QED
      BY <3>1, <3>2, <3>3
  <2> DEFINE labelled == Labelled(<<c[1]>> \o rows[i][2], columns)
             cells == rows[i][2]
  <2>3. Value(d).of[c[1]] = labelled
    <3>1. i \in DOMAIN rows /\ rows[i][1] = c[1]
      BY <1>1, <1>7, <2>1, Zenon
    <3>2. Value(d).of[rows[i][1]] = Labelled(<<rows[i][1]>> \o rows[LastOf(rows, rows[i][1])][2], columns)
      BY <1>8, <1>9, <3>1 DEF Parsed
    <3> QED
      BY <2>2, <3>1, <3>2, Zenon
  <2>4. Under(columns, cells, labelled)
    <3>1. i \in DOMAIN rows /\ Len(rows[i][2]) <= Len(columns)
      BY <1>15, <1>16
    <3> QED
      BY <1>2, <3>1, CellsLabelled
  <2>5. cells = <<Return(<<c[2]>>)>>
    BY <1>7, <2>1
  <2>6. 1 \in DOMAIN cells /\ cells[1] = Return(<<c[2]>>) /\ ~Raised(cells[1]) /\ Value(cells[1]) = <<c[2]>>
    <3> DEFINE r == Return(<<c[2]>>)
    <3>1. r # Raise /\ Value(r) = <<c[2]>>
      BY DEF Return, Raise, Value
    <3> HIDE DEF r, cells
    <3> QED
      BY <2>5, <3>1 DEF Raised, r
  <2> HIDE DEF labelled, cells
  <2>7. columns[1] \in DOMAIN labelled /\ labelled[columns[1]] = Value(cells[1])
    BY <2>4, <2>6 DEF Under
  <2> QED
    BY <1>3, <2>3, <2>6, <2>7
<1> QED
  BY <1>9, <1>12, <1>13, <1>14, Zenon DEF d

\* The mean is that of the covergroups that count.
LEMMA MeanRead ==
  ASSUME NEW cg, Distinct(cg)
  PROVE  LET d == parse_xcelium_cov_report(CovergroupTable(cg))
             counted == Keep(cg, {c \in Range(cg) : c[1] \notin COVERGROUP_IGNORE})
         IN  /\ ~Raised(d)
             /\ calc_cg_average(Value(d)) =
                  IF counted = <<>> THEN Raise
                  ELSE Return(<<Total([i \in DOMAIN counted |-> counted[i][2]]), 100 * Len(counted)>>)
<1> DEFINE d == parse_xcelium_cov_report(CovergroupTable(cg))
           A == Range(cg)
           name == [c \in A |-> c[1]]
           H == {c \in A : c[1] \notin COVERGROUP_IGNORE}
           counted == Keep(cg, H)
           data == Value(d).of
           K == {m \in DOMAIN data \ COVERGROUP_IGNORE : CovergroupAverage \in DOMAIN data[m]}
           kept == Keep(Value(d).modules, K)
           B == {c[1] : c \in A}
<1>1. /\ ~Raised(d) /\ Value(d).modules = Mapped(cg, name)
      /\ DOMAIN data = {c[1] : c \in A}
      /\ \A c \in A : CovergroupAverage \in DOMAIN data[c[1]] /\ data[c[1]][CovergroupAverage] = <<c[2]>>
  BY CovergroupsRead, Zenon
<1>2. calc_cg_average(Value(d)) =
        IF kept = <<>> THEN Raise
        ELSE Return(<<Total([i \in DOMAIN kept |-> data[kept[i]][CovergroupAverage][1]]), 100 * Len(kept)>>)
  BY Zenon DEF calc_cg_average
<1>3. cg \in Seq(A)
  BY DEF Distinct
<1>4. name \in [A -> B] /\ \A c \in A : name[c] = c[1]
  OBVIOUS
<1>5. \A c \in A : c \in H <=> name[c] \in K
  <2>1. \A c \in A : c[1] \in DOMAIN data
    BY <1>1
  <2> QED
    BY <1>1, <1>4, <2>1
<1> HIDE DEF d, A, name, H, K, B
<1>6. KeptMapped(cg, name, K, H)
  BY <1>3, <1>4, <1>5, KeepMaps
<1>7. counted \in Seq(A \cap H)
  BY <1>3, Keeps
<1>8. Len(counted) \in Nat /\ DOMAIN counted = 1..Len(counted) /\ \A i \in DOMAIN counted : counted[i] \in A
  <2> HIDE DEF counted
  <2> QED
    BY <1>7
<1>9. kept = Mapped(counted, name)
  BY <1>1, <1>6 DEF KeptMapped
<1> HIDE DEF counted, kept
<1>10. DOMAIN kept = DOMAIN counted /\ \A i \in DOMAIN counted : kept[i] = counted[i][1]
  BY <1>4, <1>8, <1>9 DEF Mapped
<1>11. Len(kept) = Len(counted)
  <2>1. kept \in [1..Len(counted) -> B]
    <3>1. \A i \in DOMAIN counted : name[counted[i]] \in B
      BY <1>4, <1>8
    <3> QED
      BY <1>8, <1>9, <3>1 DEF Mapped
  <2> QED
    BY <1>8, <2>1, FunctionIsSeq
<1>12. kept = <<>> <=> counted = <<>>
  <2>1. kept = <<>> <=> DOMAIN kept = {}
    BY <1>9 DEF Mapped
  <2>2. counted = <<>> <=> DOMAIN counted = {}
    BY <1>7
  <2> QED
    BY <1>10, <2>1, <2>2
<1>13. [i \in DOMAIN kept |-> data[kept[i]][CovergroupAverage][1]] = [i \in DOMAIN counted |-> counted[i][2]]
  <2>1. ASSUME NEW i \in DOMAIN counted PROVE data[kept[i]][CovergroupAverage][1] = counted[i][2]
    <3>1. data[kept[i]][CovergroupAverage] = <<counted[i][2]>>
      <4> HIDE DEF data
      <4> QED
        BY <1>1, <1>8, <1>10
    <3> HIDE DEF data
    <3> QED
      BY <3>1
  <2> HIDE DEF data
  <2> QED
    BY <1>10, <2>1
<1>14. calc_cg_average(Value(d)) =
         IF counted = <<>> THEN Raise
         ELSE Return(<<Total([i \in DOMAIN counted |-> counted[i][2]]), 100 * Len(counted)>>)
  <2> HIDE DEF data
  <2> QED
    BY <1>2, <1>11, <1>12, <1>13, Zenon
<1> QED
  BY <1>1, <1>14, Zenon DEF d, counted, H, A

\* report_lib/util.py: the summary is that of the two reports.
LEMMA SummaryRead == Given => CoverageByColumn
<1> SUFFICES ASSUME Given, in.kind = "coverage" PROVE CoverageByColumn
  BY Zenon DEF CoverageByColumn
<1> DEFINE columns == in.of.columns
           rows == in.of.rows
           cov == parse_xcelium_cov_report(Table(columns, rows))
           cg == parse_xcelium_cov_report(CovergroupTable(in.of.cg))
           d == Value(cov).of
           summary == create_cov_summary_dict(in.of.log, Table(columns, rows), CovergroupTable(in.of.cg))
           ibex == {i \in DOMAIN rows : rows[i][1] = "ibex_top"}
           last == IF ibex = {} THEN <<>> ELSE rows[CHOOSE i \in ibex : \A j \in ibex : j <= i][2]
           shown == {i \in DOMAIN last : /\ columns[i] \in {Covered(m) : m \in IBEX_COVERAGE_METRICS}
                                         /\ ~Raised(last[i])}
           counted == Keep(in.of.cg, {c \in Range(in.of.cg) : c[1] \notin COVERGROUP_IGNORE})
           mean == IF counted = <<>> THEN Raise
                   ELSE Return(<<Total([i \in DOMAIN counted |-> counted[i][2]]), 100 * Len(counted)>>)
           top == IF "ibex_top" \in DOMAIN d THEN d["ibex_top"] ELSE <<>>
           metrics == {m \in IBEX_COVERAGE_METRICS : Covered(m) \in DOMAIN top}
           shows == [m \in metrics |-> top[Covered(m)]]
           long == \E i \in DOMAIN rows : Len(rows[i][2]) > Len(columns)
           zero == \E i \in shown : Value(last[i])[2] = 0
<1>1. IsTable(columns, rows) /\ Distinct(in.of.cg)
  BY InputAssumption DEF Given, Distinct
<1>12. summary = IF ~in.of.log THEN Return(Raise)
                 ELSE IF Raised(cov) \/ Raised(cg) THEN Raise
                 ELSE IF \E m \in metrics : top[Covered(m)][2] = 0 THEN Raise
                 ELSE Return([metrics |-> shows, covergroup |-> calc_cg_average(Value(cg))])
  BY Zenon DEF create_cov_summary_dict
<1>13. CASE ~in.of.log
  <2>1. summary = Return(Raise)
    BY <1>12, <1>13, Zenon
  <2> QED
    BY <1>13, <2>1, Zenon DEF CoverageByColumn
<1>14. SUFFICES ASSUME in.of.log PROVE CoverageByColumn
  BY <1>13, Zenon
<1>2. summary = IF Raised(cov) \/ Raised(cg) THEN Raise
                ELSE IF \E m \in metrics : top[Covered(m)][2] = 0 THEN Raise
                ELSE Return([metrics |-> shows, covergroup |-> calc_cg_average(Value(cg))])
  BY <1>12, <1>14, Zenon
<1>3. ~Raised(cg) /\ calc_cg_average(Value(cg)) = mean
  BY <1>1, MeanRead, Zenon
<1>4. Parsed(columns, rows, cov)
  BY <1>1, TableParsed
<1>5. last = LastCells(rows, "ibex_top")
  BY Zenon DEF LastCells, RowsOf, LastOf
<1>6. ASSUME ~long
      PROVE  /\ metrics = {columns[i][1] : i \in shown}
             /\ \A i \in shown : Covered(columns[i][1]) = columns[i] /\ top[columns[i]] = Value(last[i])
  <2>1. ~Raised(cov)
    <3> HIDE DEF cov
    <3> QED
      BY <1>4, <1>6, Zenon DEF Parsed
  <2>2. /\ \A i \in DOMAIN rows : ~(Len(rows[i][2]) > Len(columns))
        /\ DOMAIN d = {rows[i][1] : i \in DOMAIN rows}
        /\ \A i \in DOMAIN rows : d[rows[i][1]] =
             Labelled(<<rows[i][1]>> \o rows[LastOf(rows, rows[i][1])][2], columns)
    <3> HIDE DEF cov
    <3> QED
      BY <1>4, <1>6, <2>1, Zenon DEF Parsed
  <2>3. Shows(columns, d, LastCells(rows, "ibex_top"))
    <3> HIDE DEF d, columns, rows
    <3> QED
      BY <1>1, <2>2, MetricsRead
  <2>4. Shows(columns, d, last)
    BY <1>5, <2>3, Zenon
  <2> HIDE DEF d, last
  <2> QED
    BY <2>4, Zenon DEF Shows
<1>7. Raised(cov) <=> long
  <2> HIDE DEF cov
  <2> QED
    BY <1>4, Zenon DEF Parsed
<1> HIDE DEF summary, cov, cg, d, last, shown, counted, mean, top
<1>8. ASSUME ~long PROVE (\E m \in metrics : top[Covered(m)][2] = 0) <=> zero
  <2>1. ASSUME NEW m \in metrics, top[Covered(m)][2] = 0 PROVE zero
    <3>1. PICK i \in shown : m = columns[i][1]
      BY <1>6, <1>8
    <3>2. Covered(m) = columns[i] /\ top[columns[i]] = Value(last[i])
      BY <1>6, <1>8, <3>1
    <3> QED
      BY <2>1, <3>2
  <2>2. ASSUME NEW i \in shown, Value(last[i])[2] = 0 PROVE \E m \in metrics : top[Covered(m)][2] = 0
    <3>1. columns[i][1] \in metrics
      BY <1>6, <1>8
    <3>2. Covered(columns[i][1]) = columns[i] /\ top[columns[i]] = Value(last[i])
      BY <1>6, <1>8
    <3> QED
      BY <2>2, <3>1, <3>2
  <2> QED
    BY <2>1, <2>2
<1>9. Return([metrics |-> shows, covergroup |-> calc_cg_average(Value(cg))]) # Raise
  BY DEF Return, Raise
<1> HIDE DEF long, zero
<1>10. Raised(summary) <=> long \/ zero
  <2> HIDE DEF metrics, shows
  <2>1. Raised(Raise)
    BY DEF Raised
  <2> QED
    BY <1>2, <1>3, <1>7, <1>8, <1>9, <2>1 DEF Raised
<1>11. ASSUME ~Raised(summary)
       PROVE  /\ DOMAIN Value(summary).metrics = {columns[i][1] : i \in shown}
              /\ \A i \in shown : Value(summary).metrics[columns[i][1]] = Value(last[i])
              /\ Value(summary).covergroup = mean
  <2>1. ~long /\ ~zero
    BY <1>10, <1>11
  <2>2. summary = Return([metrics |-> shows, covergroup |-> mean])
    <3> HIDE DEF metrics, shows
    <3> QED
      BY <1>2, <1>3, <1>7, <1>8, <2>1
  <2>3. Value(summary).metrics = shows /\ Value(summary).covergroup = mean
    <3> HIDE DEF shows
    <3> QED
      BY <2>2 DEF Value, Return
  <2>4. DOMAIN shows = metrics /\ \A m \in metrics : shows[m] = top[Covered(m)]
    OBVIOUS
  <2>5. /\ metrics = {columns[i][1] : i \in shown}
        /\ \A i \in shown : Covered(columns[i][1]) = columns[i] /\ top[columns[i]] = Value(last[i])
    BY <1>6, <2>1
  <2> HIDE DEF metrics, shows
  <2>6. ASSUME NEW i \in shown PROVE shows[columns[i][1]] = Value(last[i])
    <3>1. columns[i][1] \in metrics
      BY <2>5
    <3> QED
      BY <2>4, <2>5, <3>1
  <2> QED
    BY <2>3, <2>4, <2>5, <2>6
<1> QED
  BY <1>10, <1>11, <1>14, Zenon DEF CoverageByColumn, summary, last, shown, counted, mean, long, zero

\* report_lib/util.py: the coverage summary has ibex_top's last cells under their columns'
\* names and the mean of the covergroups that count, for tables of any size; with a report
\* it is refused exactly when a row has a cell too many or a metric has nothing to cover.
THEOREM CoverageRead == Spec => []CoverageByColumn
  BY InputGiven, SummaryRead, PTL
=============================================================================
