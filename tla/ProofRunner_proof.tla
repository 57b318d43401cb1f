-------------------------- MODULE ProofRunner_proof --------------------------
(* The process runner loses no process and leaves none behind, for every set *)
(* of commands, every memory size and every order of growth, exit, timeout,  *)
(* cancellation and preemption.                                              *)
EXTENDS ProofRunner, SequenceTheorems, TLAPS

-----------------------------------------------------------------------------
\* Sequences: what the four list operations of the runner do, first to the
\* entries, then to the set of entries.

LEMMA FrontSeq == ASSUME NEW S, NEW s \in Seq(S), s # <<>>
                  PROVE  /\ Front(s) \in Seq(S)
                         /\ Len(Front(s)) = Len(s) - 1
                         /\ \A i \in 1..(Len(s) - 1) : Front(s)[i] = s[i]
                         /\ Last(s) = s[Len(s)] /\ Last(s) \in S
                         /\ Len(s) \in Nat \ {0}
<1>1. Len(s) \in Nat \ {0}
  BY EmptySeq
<1>2. Front(s) = SubSeq(s, 1, Len(s) - 1) /\ Last(s) = s[Len(s)]
  BY DEF Front, Last
<1>3. \A i \in 1..(Len(s) - 1) : s[i] \in S
  BY <1>1
<1> DEFINE n == Len(s) - 1
           f == SubSeq(s, 1, n)
<1>4. n \in Nat /\ \A i \in 1..n : s[i] \in S
  BY <1>1, <1>3
<1> HIDE DEF n
<1>5. /\ f \in Seq(S)
      /\ Len(f) = IF 1 <= n THEN n - 1 + 1 ELSE 0
      /\ \A i \in 1..(n - 1 + 1) : f[i] = s[1 + i - 1]
  BY <1>4, SubSeqProperties
<1> HIDE DEF f
<1>6. Len(f) = n /\ \A i \in 1..n : f[i] = s[i]
  BY <1>4, <1>5
<1>7. Front(s) = f
  BY <1>2 DEF f, n
<1>8. Last(s) \in S
  BY <1>1, <1>2
<1> QED BY <1>1, <1>2, <1>5, <1>6, <1>7, <1>8 DEF n

LEMMA RemoveSeq == ASSUME NEW S, NEW s \in Seq(S), NEW k \in 1..Len(s)
                   PROVE  /\ RemoveAt(s, k) \in Seq(S)
                          /\ Len(RemoveAt(s, k)) = Len(s) - 1
                          /\ \A i \in 1..(k - 1) : RemoveAt(s, k)[i] = s[i]
                          /\ \A i \in k..(Len(s) - 1) : RemoveAt(s, k)[i] = s[i + 1]
<1> DEFINE a == SubSeq(s, 1, k - 1)
           b == SubSeq(s, k + 1, Len(s))
<1>1. a \in Seq(S) /\ Len(a) = k - 1 /\ \A i \in 1..(k - 1) : a[i] = s[i]
  OBVIOUS
<1>2. b \in Seq(S) /\ Len(b) = Len(s) - k /\ \A i \in 1..(Len(s) - k) : b[i] = s[i + k]
  OBVIOUS
<1>3. RemoveAt(s, k) = a \o b
  BY DEF RemoveAt
<1> HIDE DEF a, b
<1>4. /\ a \o b \in Seq(S)
      /\ Len(a \o b) = Len(s) - 1
      /\ \A i \in 1..(Len(s) - 1) : (a \o b)[i] = IF i <= k - 1 THEN a[i] ELSE b[i - (k - 1)]
  <2>1. /\ a \o b \in Seq(S)
        /\ Len(a \o b) = Len(a) + Len(b)
        /\ \A i \in 1..(Len(a) + Len(b)) :
             (a \o b)[i] = IF i <= Len(a) THEN a[i] ELSE b[i - Len(a)]
    BY <1>1, <1>2, ConcatProperties
  <2>2. Len(a) + Len(b) = Len(s) - 1 /\ Len(a) = k - 1
    BY <1>1, <1>2
  <2> QED BY <2>1, <2>2
<1>5. \A i \in 1..(k - 1) : (a \o b)[i] = s[i]
  BY <1>1, <1>4
<1>6. ASSUME NEW i \in k..(Len(s) - 1) PROVE (a \o b)[i] = s[i + 1]
  <2>1. (a \o b)[i] = b[i - (k - 1)]
    BY <1>4
  <2> QED BY <2>1, <1>2
<1> QED BY <1>3, <1>4, <1>5, <1>6

LEMMA ElemsIn == ASSUME NEW S, NEW s \in Seq(S) PROVE Elems(s) \subseteq S
  BY DEF Elems

LEMMA FrontElems == ASSUME NEW S, NEW s \in Seq(S), s # <<>>, NoRepeat(s)
                    PROVE  /\ Front(s) \in Seq(S) /\ NoRepeat(Front(s))
                           /\ Elems(Front(s)) = Elems(s) \ {Last(s)}
                           /\ Last(s) \in Elems(s)
                           /\ Len(Front(s)) = Len(s) - 1
  BY FrontSeq DEF Elems, NoRepeat

LEMMA AppendElems == ASSUME NEW S, NEW s \in Seq(S), NEW q \in S,
                            q \notin Elems(s), NoRepeat(s)
                     PROVE  /\ Append(s, q) \in Seq(S) /\ NoRepeat(Append(s, q))
                            /\ Elems(Append(s, q)) = Elems(s) \cup {q}
                            /\ Len(Append(s, q)) = Len(s) + 1
<1>1. /\ Append(s, q) \in Seq(S) /\ Len(Append(s, q)) = Len(s) + 1 /\ Len(s) \in Nat
      /\ \A i \in 1..Len(s) : Append(s, q)[i] = s[i]
      /\ Append(s, q)[Len(s) + 1] = q
  OBVIOUS
<1> QED BY <1>1 DEF Elems, NoRepeat

LEMMA ConsElems == ASSUME NEW S, NEW s \in Seq(S), NEW q \in S,
                          q \notin Elems(s), NoRepeat(s)
                   PROVE  /\ <<q>> \o s \in Seq(S) /\ NoRepeat(<<q>> \o s)
                          /\ Elems(<<q>> \o s) = Elems(s) \cup {q}
<1> DEFINE c == <<q>> \o s
<1>1. /\ c \in Seq(S) /\ Len(c) = Len(s) + 1 /\ Len(s) \in Nat
      /\ \A i \in 1..Len(s) : c[i + 1] = s[i]
      /\ c[1] = q
  OBVIOUS
<1>2. \A i \in 1..Len(c) : i = 1 \/ (i - 1 \in 1..Len(s) /\ c[i] = s[i - 1])
  BY <1>1
<1> HIDE DEF c
<1>3. \A i \in 2..Len(c) : i - 1 \in 1..Len(s) /\ c[i] = s[i - 1] /\ c[i] # q
  BY <1>1, <1>2 DEF Elems
<1>4. NoRepeat(c)
  BY <1>1, <1>2, <1>3 DEF NoRepeat
<1>5. Elems(c) = Elems(s) \cup {q}
  <2>1. Elems(c) \subseteq Elems(s) \cup {q}
    BY <1>1, <1>2 DEF Elems
  <2>2. Elems(s) \cup {q} \subseteq Elems(c)
    BY <1>1 DEF Elems
  <2> QED BY <2>1, <2>2
<1> QED BY <1>1, <1>4, <1>5 DEF c

LEMMA RemoveElems == ASSUME NEW S, NEW s \in Seq(S), NEW k \in 1..Len(s), NoRepeat(s)
                     PROVE  /\ RemoveAt(s, k) \in Seq(S) /\ NoRepeat(RemoveAt(s, k))
                            /\ Elems(RemoveAt(s, k)) = Elems(s) \ {s[k]}
                            /\ s[k] \in Elems(s)
                            /\ Len(RemoveAt(s, k)) = Len(s) - 1
<1> DEFINE r == RemoveAt(s, k)
<1>1. /\ r \in Seq(S) /\ Len(r) = Len(s) - 1 /\ Len(s) \in Nat
      /\ \A i \in 1..(k - 1) : r[i] = s[i]
      /\ \A i \in k..(Len(s) - 1) : r[i] = s[i + 1]
  BY RemoveSeq
<1> HIDE DEF r
<1>2. \A i \in 1..Len(r) : \/ i < k /\ r[i] = s[i] /\ i \in 1..Len(s)
                           \/ i >= k /\ r[i] = s[i + 1] /\ i + 1 \in 1..Len(s)
  BY <1>1
<1> DEFINE from(i) == IF i < k THEN i ELSE i + 1
<1>a. \A i \in 1..Len(r) : from(i) \in 1..Len(s) /\ from(i) # k /\ r[i] = s[from(i)]
  BY <1>1, <1>2
<1>b. \A i, j \in 1..Len(r) : from(i) = from(j) => i = j
  BY <1>1
<1>c. \A i, j \in 1..Len(s) : s[i] = s[j] => i = j
  BY DEF NoRepeat
<1>d. DOMAIN r = 1..Len(r) /\ DOMAIN s = 1..Len(s)
  BY <1>1
<1> HIDE DEF from
<1>3. NoRepeat(r)
  BY <1>a, <1>b, <1>c, <1>d DEF NoRepeat
<1>4. Elems(r) \subseteq Elems(s) \ {s[k]}
  BY <1>a, <1>c, <1>d DEF Elems
<1>5. Elems(s) \ {s[k]} \subseteq Elems(r)
  <2>1. ASSUME NEW j \in 1..Len(s), j # k PROVE s[j] \in Elems(r)
    <3>1. CASE j < k
      BY <3>1, <1>1 DEF Elems
    <3>2. CASE j > k
      <4>1. j - 1 \in k..(Len(s) - 1) /\ j - 1 \in 1..Len(r) /\ r[j - 1] = s[j]
        BY <3>2, <1>1
      <4> QED BY <4>1, <1>1 DEF Elems
    <3> QED BY <2>1, <3>1, <3>2
  <2> QED BY <2>1 DEF Elems
<1>6. s[k] \in Elems(s)
  BY DEF Elems
<1> QED BY <1>1, <1>3, <1>4, <1>5, <1>6 DEF r

-----------------------------------------------------------------------------
\* NoneLost and NoOrphan hold together or not at all: that a popped process is
\* in neither list any more needs NoRepeat, that its operating system process
\* was the only one needs NoneLost, and that the branch for "UNINTERESTED"
\* resolves nothing needs KillsOnlyCancelled.
IInv == TypeOK /\ NoneLost /\ NoOrphan /\ KillsOnlyCancelled

USE DEF Kills, Futures

LEMMA InitOK == Init => IInv
  BY RunnerAssumption DEF Init, IInv, TypeOK, NoneLost, NoOrphan, KillsOnlyCancelled, Elems,
     NoRepeat

LEMMA ShellOK == ASSUME IInv, NEW q \in Procs, Shell(q) PROVE IInv'
<1> USE DEF IInv, Shell, osvars
<1>1. q \notin Elems(pending) /\ q \notin Elems(running)
  BY DEF NoneLost
<1>2. /\ pending' \in Seq(Procs) /\ NoRepeat(pending')
      /\ Elems(pending') = Elems(pending) \cup {q}
  BY <1>1, ConsElems DEF TypeOK, NoneLost, append
<1>3. TypeOK'
  BY <1>2 DEF TypeOK
<1>4. NoneLost'
  BY <1>1, <1>2 DEF NoneLost, TypeOK
<1>5. NoOrphan' /\ KillsOnlyCancelled'
  BY DEF NoOrphan, KillsOnlyCancelled, TypeOK
<1> QED BY <1>3, <1>4, <1>5

LEMMA CancelOK == ASSUME IInv, NEW q \in Procs, Cancel(q) PROVE IInv'
  BY DEF IInv, Cancel, osvars, TypeOK, NoneLost, NoOrphan, KillsOnlyCancelled

LEMMA OsOK == ASSUME IInv, NEW q \in Procs, Grow(q) \/ Exit(q) \/ Expire(q) PROVE IInv'
<1> USE DEF IInv, pvars
<1>1. CASE Grow(q)
  BY <1>1, RunnerAssumption DEF Grow, TypeOK, NoneLost, NoOrphan, KillsOnlyCancelled
<1>2. CASE Exit(q)
  BY <1>2 DEF Exit, TypeOK, NoneLost, NoOrphan, KillsOnlyCancelled
<1>3. CASE Expire(q)
  BY <1>3 DEF Expire, TypeOK, NoneLost, NoOrphan, KillsOnlyCancelled
<1> QED BY <1>1, <1>2, <1>3

LEMMA PollPreemptOK == ASSUME IInv, PollPreempt PROVE IInv'
<1> DEFINE last == Last(running)
<1> USE DEF IInv, PollPreempt, Preempting, Gone
<1>1. /\ running' \in Seq(Procs) /\ NoRepeat(running')
      /\ Elems(running') = Elems(running) \ {last}
      /\ last \in Elems(running)
      /\ Len(running') = Len(running) - 1
  <2>1. running \in Seq(Procs) /\ running # <<>> /\ NoRepeat(running)
    BY DEF TypeOK, NoneLost
  <2> QED BY <2>1, FrontElems
<1>2. last \in Procs /\ last \notin Elems(pending)
  BY <1>1, ElemsIn DEF TypeOK, NoneLost
<1>3. /\ pending' \in Seq(Procs) /\ NoRepeat(pending')
      /\ Elems(pending') = Elems(pending) \cup {last}
  BY <1>2, AppendElems DEF TypeOK, NoneLost, Requeue
<1>4. TypeOK'
  <2>1. Observed(last) \in Nat /\ Learned(last) \in Nat
    BY <1>2 DEF Observed, Learned, Larger, TypeOK
  <2> QED BY <1>1, <1>2, <1>3, <2>1 DEF TypeOK
<1>8. /\ proc' = [proc EXCEPT ![last] = "none"] /\ kill_' = [kill_ EXCEPT ![last] = "none"]
      /\ future' = future
  OBVIOUS
<1>9. Len(running) \in Nat
  BY DEF TypeOK
<1> HIDE DEF last, PollPreempt, Gone, Preempting
<1>5. NoneLost'
  BY <1>1, <1>2, <1>3, <1>8 DEF NoneLost, TypeOK
<1>6. NoOrphan'
  <2>1. Len(running') <= MAX_RUNNING
    BY <1>1, <1>2, <1>8, <1>9, RunnerAssumption DEF NoOrphan
  <2>2. ASSUME NEW x \in Procs PROVE proc'[x] # "none" <=> x \in Elems(running')
    BY <1>1, <1>2, <1>8 DEF NoOrphan, TypeOK
  <2>3. \A x \in Procs : (proc[x] # "none" <=> x \in Elems(running))'
    BY <2>2
  <2> QED BY <2>1, <2>3 DEF NoOrphan
<1>7. KillsOnlyCancelled'
  BY <1>2, <1>8 DEF KillsOnlyCancelled, TypeOK
<1> QED BY <1>4, <1>5, <1>6, <1>7

LEMMA PollStartOK == ASSUME IInv, PollStart PROVE IInv'
<1> DEFINE last == Last(pending)
<1> USE DEF IInv, PollStart, Starting
<1>1. /\ pending' \in Seq(Procs) /\ NoRepeat(pending')
      /\ Elems(pending') = Elems(pending) \ {last}
      /\ last \in Elems(pending)
  BY FrontElems DEF TypeOK, NoneLost
<1>2. last \in Procs /\ last \notin Elems(running)
  BY <1>1, ElemsIn DEF TypeOK, NoneLost
<1>3. /\ running' \in Seq(Procs) /\ NoRepeat(running')
      /\ Elems(running') = Elems(running) \cup {last}
      /\ Len(running') = Len(running) + 1
  BY <1>2, AppendElems DEF TypeOK, NoneLost
<1>4. TypeOK'
  BY <1>1, <1>2, <1>3 DEF TypeOK
<1>5. /\ proc' = [proc EXCEPT ![last] = "live"] /\ UNCHANGED <<kill_, future>>
      /\ Len(running) < MAX_RUNNING
  OBVIOUS
<1>9. Len(running) \in Nat
  BY DEF TypeOK
<1> HIDE DEF last, PollStart, Starting
<1>6. NoneLost'
  BY <1>1, <1>2, <1>3, <1>5 DEF NoneLost, TypeOK
<1>7. NoOrphan'
  <2>1. Len(running') <= MAX_RUNNING
    BY <1>2, <1>3, <1>5, <1>9, RunnerAssumption DEF NoOrphan
  <2>2. ASSUME NEW x \in Procs PROVE proc'[x] # "none" <=> x \in Elems(running')
    BY <1>2, <1>3, <1>5 DEF NoOrphan, TypeOK
  <2>3. \A x \in Procs : (proc[x] # "none" <=> x \in Elems(running))'
    BY <2>2
  <2> QED BY <2>1, <2>3 DEF NoOrphan
<1>8. KillsOnlyCancelled'
  BY <1>5 DEF KillsOnlyCancelled
<1> QED BY <1>4, <1>6, <1>7, <1>8

LEMMA PollReapOK == ASSUME IInv, PollReap PROVE IInv'
<1> DEFINE q == running[p]
<1> USE DEF IInv, PollReap, Gone
<1>1. p \in 1..Len(running) /\ q \in Procs
  BY DEF TypeOK
<1>2. /\ running' \in Seq(Procs) /\ NoRepeat(running')
      /\ Elems(running') = Elems(running) \ {q}
      /\ q \in Elems(running)
      /\ Len(running') = Len(running) - 1
  BY <1>1, RemoveElems DEF TypeOK, NoneLost
<1>3. /\ proc' = [proc EXCEPT ![q] = "none"] /\ UNCHANGED <<kill_, pending>>
      /\ q \notin Elems(pending)
      /\ future[q] \in {"waiting", "cancelled"}
  BY <1>1, <1>2 DEF NoneLost
<1>4. \/ future[q] = "cancelled" /\ future' = future
      \/ future[q] # "cancelled" /\ \E r \in {"OK", "TIMEOUT"} : future' = [future EXCEPT ![q] = r]
  <2>1. CASE future[q] = "cancelled"
    BY <2>1 DEF Resolved
  <2>2. CASE future[q] = "waiting"
    <3>1. kill_[q] = "none"
      BY <1>1, <2>2 DEF KillsOnlyCancelled, TypeOK
    <3> QED BY <2>2, <3>1 DEF Resolved, Outcome
  <2> QED BY <1>3, <2>1, <2>2
<1>5. TypeOK'
  <2>1. Observed(q) \in Nat
    BY <1>1 DEF Observed, Larger, TypeOK
  <2>2. future' \in [Procs -> Futures]
    BY <1>1, <1>4 DEF TypeOK
  <2> QED BY <1>1, <1>2, <2>1, <2>2 DEF TypeOK
<1>9. Len(running) \in Nat
  BY DEF TypeOK
<1> HIDE DEF q, PollReap, Gone
<1>6. NoneLost'
  BY <1>1, <1>2, <1>3, <1>4 DEF NoneLost, TypeOK
<1>7. NoOrphan'
  <2>1. Len(running') <= MAX_RUNNING
    BY <1>1, <1>2, <1>3, <1>9, RunnerAssumption DEF NoOrphan
  <2>2. ASSUME NEW x \in Procs PROVE proc'[x] # "none" <=> x \in Elems(running')
    BY <1>1, <1>2, <1>3 DEF NoOrphan, TypeOK
  <2>3. \A x \in Procs : (proc[x] # "none" <=> x \in Elems(running))'
    BY <2>2
  <2> QED BY <2>1, <2>3 DEF NoOrphan
<1>8. KillsOnlyCancelled'
  <2>1. CASE future[q] = "cancelled" /\ future' = future
    BY <2>1, <1>3 DEF KillsOnlyCancelled
  <2>2. CASE future[q] # "cancelled"
    BY <1>1, <1>3, <1>4, <2>2 DEF KillsOnlyCancelled, TypeOK
  <2> QED BY <1>3, <1>4, <2>1, <2>2
<1> QED BY <1>5, <1>6, <1>7, <1>8

LEMMA PollElseOK ==
  ASSUME IInv,
         \/ PollBegin \/ PollPreempted \/ PollStarted \/ PollKeep \/ PollEnd
         \/ UNCHANGED vars
  PROVE  IInv'
<1>1. UNCHANGED <<pending, running, kill_, expected_memory, future, proc, rss, late, args>>
  BY DEF PollBegin, PollPreempted, PollStarted, PollKeep, PollEnd, pvars, osvars, vars
<1>2. max_memory' \in [Procs -> Nat] /\ p' \in Nat \ {0}
      /\ phase' \in {"idle", "preempt", "start", "reap"}
  <2>1. CASE PollKeep
    <3>1. running[p] \in Procs
      BY <2>1 DEF PollKeep, IInv, TypeOK
    <3>2. Observed(running[p]) \in Nat
      BY <3>1 DEF IInv, TypeOK, Observed, Larger
    <3> QED BY <2>1, <3>2 DEF IInv, TypeOK, PollKeep
  <2>2. CASE ~PollKeep
    BY <2>2 DEF IInv, TypeOK, PollBegin, PollPreempted, PollStarted, PollEnd, pvars, vars
  <2> QED BY <2>1, <2>2
<1> QED BY <1>1, <1>2 DEF IInv, TypeOK, NoneLost, NoOrphan, KillsOnlyCancelled

LEMMA StepOK == IInv /\ [Next]_vars => IInv'
  BY ShellOK, CancelOK, OsOK, PollPreemptOK, PollStartOK, PollReapOK, PollElseOK DEF Next, Poll

LEMMA InvHolds == Spec => []IInv
  BY InitOK, StepOK, PTL DEF Spec

\* Every field of the runner keeps its type, and no future is ever given the
\* result "UNINTERESTED" of Process.poll (conductor.py 199-205).
THEOREM RunnerTyped == Spec => []TypeOK
<1>1. IInv => TypeOK
  BY DEF IInv
<1> QED BY <1>1, InvHolds, PTL

\* No process whose future is awaited is lost, duplicated or kept after its
\* answer, whatever the runner preempts and restarts (conductor.py 249-273).
THEOREM NoProcessLost == Spec => []NoneLost
<1>1. IInv => NoneLost
  BY DEF IInv
<1> QED BY <1>1, InvHolds, PTL

\* The operating system runs exactly the processes of running, at most
\* MAX_RUNNING of them (conductor.py 156-216, 249-273).
THEOREM NoProcessOrphaned == Spec => []NoOrphan
<1>1. IInv => NoOrphan
  BY DEF IInv
<1> QED BY <1>1, InvHolds, PTL

-----------------------------------------------------------------------------
\* The line of processes, running ones first and then the pending ones from the
\* last to the first, is left alone by a preemption and by a start.

LEMMA LineEntries ==
  ASSUME NEW S, NEW r \in Seq(S), NEW w \in Seq(S)
  PROVE  /\ r \o Reverse(w) \in Seq(S)
         /\ Len(r \o Reverse(w)) = Len(r) + Len(w)
         /\ \A i \in 1..(Len(r) + Len(w)) :
              (r \o Reverse(w))[i] =
                IF i <= Len(r) THEN r[i] ELSE w[(Len(w) - (i - Len(r))) + 1]
<1> DEFINE v == Reverse(w)
<1>0. Len(w) \in Nat /\ Len(r) \in Nat
  OBVIOUS
<1>1. v = [i \in 1..Len(w) |-> w[(Len(w) - i) + 1]]
  BY DEF Reverse
<1>2. v \in Seq(S) /\ Len(v) = Len(w)
  <2>1. \A i \in 1..Len(w) : w[(Len(w) - i) + 1] \in S
    BY <1>0
  <2>2. v \in [1..Len(w) -> S]
    BY <1>1, <2>1
  <2> QED BY <1>0, <2>2, SeqDef
<1>3. \A i \in 1..Len(w) : v[i] = w[(Len(w) - i) + 1]
  BY <1>1
<1> HIDE DEF v
<1>4. /\ r \o v \in Seq(S)
      /\ Len(r \o v) = Len(r) + Len(v)
      /\ \A i \in 1..(Len(r) + Len(v)) :
           (r \o v)[i] = IF i <= Len(r) THEN r[i] ELSE v[i - Len(r)]
  BY <1>2, ConcatProperties
<1>5. ASSUME NEW i \in 1..(Len(r) + Len(w)), i > Len(r)
      PROVE  (r \o v)[i] = w[(Len(w) - (i - Len(r))) + 1]
  <2>1. i - Len(r) \in 1..Len(w)
    BY <1>0, <1>5
  <2>2. (r \o v)[i] = v[i - Len(r)]
    BY <1>0, <1>2, <1>4, <1>5
  <2> QED BY <2>1, <2>2, <1>3
<1>6. ASSUME NEW i \in 1..(Len(r) + Len(w)), i <= Len(r) PROVE (r \o v)[i] = r[i]
  BY <1>0, <1>2, <1>4, <1>6
<1>7. ASSUME NEW i \in 1..(Len(r) + Len(w))
      PROVE (r \o v)[i] = IF i <= Len(r) THEN r[i] ELSE w[(Len(w) - (i - Len(r))) + 1]
  <2>1. CASE i <= Len(r)
    BY <2>1, <1>6
  <2>2. CASE ~(i <= Len(r))
    <3>1. i > Len(r)
      BY <1>0, <2>2
    <3> QED BY <2>2, <3>1, <1>5
  <2> QED BY <2>1, <2>2
<1>8. r \o v \in Seq(S) /\ Len(r \o v) = Len(r) + Len(w)
  BY <1>2, <1>4
<1> QED BY <1>7, <1>8 DEF v

LEMMA LineShell ==
  ASSUME NEW S, NEW r \in Seq(S), NEW w \in Seq(S), NEW q \in S
  PROVE  r \o Reverse(<<q>> \o w) = Append(r \o Reverse(w), q)
<1> DEFINE w1 == <<q>> \o w
           a == r \o Reverse(w1)
           c == r \o Reverse(w)
           b == Append(c, q)
<1>1. /\ w1 \in Seq(S) /\ Len(w1) = Len(w) + 1 /\ w1[1] = q
      /\ \A i \in 1..Len(w) : w1[i + 1] = w[i]
      /\ Len(w) \in Nat /\ Len(r) \in Nat
  OBVIOUS
<1> HIDE DEF w1
<1>2. /\ a \in Seq(S) /\ Len(a) = Len(r) + Len(w1)
      /\ \A i \in 1..(Len(r) + Len(w1)) :
           a[i] = IF i <= Len(r) THEN r[i] ELSE w1[(Len(w1) - (i - Len(r))) + 1]
  BY <1>1, LineEntries
<1>3. /\ c \in Seq(S) /\ Len(c) = Len(r) + Len(w)
      /\ \A i \in 1..(Len(r) + Len(w)) :
           c[i] = IF i <= Len(r) THEN r[i] ELSE w[(Len(w) - (i - Len(r))) + 1]
  BY LineEntries
<1> HIDE DEF a, c
<1>4. /\ b \in Seq(S) /\ Len(b) = Len(c) + 1 /\ b[Len(c) + 1] = q
      /\ \A i \in 1..Len(c) : b[i] = c[i]
  <2>1. c \in Seq(S)
    BY <1>3
  <2> QED BY <2>1, AppendProperties
<1> HIDE DEF b
<1>5. ASSUME NEW i \in 1..Len(a) PROVE a[i] = b[i]
  <2>1. CASE i <= Len(r)
    <3>1. i \in 1..(Len(r) + Len(w1)) /\ i \in 1..(Len(r) + Len(w)) /\ i \in 1..Len(c)
      BY <1>1, <1>2, <1>3, <2>1
    <3>2. a[i] = r[i] /\ c[i] = r[i] /\ b[i] = c[i]
      BY <1>2, <1>3, <1>4, <2>1, <3>1
    <3> QED BY <3>2
  <2>2. CASE i > Len(r) /\ i <= Len(r) + Len(w)
    <3>1. (Len(w) - (i - Len(r))) + 1 \in 1..Len(w)
      BY <1>1, <2>2
    <3>2. a[i] = w1[((Len(w) - (i - Len(r))) + 1) + 1]
      BY <1>1, <1>2, <2>2
    <3>3. b[i] = w[(Len(w) - (i - Len(r))) + 1]
      BY <1>1, <1>3, <1>4, <2>2
    <3> QED BY <1>1, <3>1, <3>2, <3>3
  <2>3. CASE i = Len(r) + Len(w) + 1
    <3>1. b[i] = q
      BY <1>3, <1>4, <2>3
    <3>2. ~(i <= Len(r)) /\ (Len(w1) - (i - Len(r))) + 1 = 1
      BY <1>1, <2>3
    <3>3. a[i] = w1[(Len(w1) - (i - Len(r))) + 1]
      BY <1>2, <3>2
    <3> QED BY <1>1, <3>1, <3>2, <3>3
  <2>4. i \in Nat /\ i <= Len(r) + Len(w) + 1
    BY <1>1, <1>2
  <2> QED BY <1>1, <2>1, <2>2, <2>3, <2>4
<1>6. Len(a) = Len(b)
  BY <1>1, <1>2, <1>3, <1>4
<1>7. a = b
  BY <1>2, <1>4, <1>5, <1>6, SeqEqual
<1> QED BY <1>7 DEF a, b, c, w1

LEMMA LinePreempt ==
  ASSUME NEW S, NEW r \in Seq(S), NEW w \in Seq(S), r # <<>>
  PROVE  Front(r) \o Reverse(Append(w, Last(r))) = r \o Reverse(w)
<1> DEFINE r1 == Front(r)
           w1 == Append(w, Last(r))
           a == r1 \o Reverse(w1)
           b == r \o Reverse(w)
<1>1. /\ r1 \in Seq(S) /\ Len(r1) = Len(r) - 1 /\ Len(r) \in Nat \ {0}
      /\ \A i \in 1..(Len(r) - 1) : r1[i] = r[i]
      /\ Last(r) = r[Len(r)] /\ Last(r) \in S
  BY FrontSeq
<1>2. /\ w1 \in Seq(S) /\ Len(w1) = Len(w) + 1 /\ w1[Len(w) + 1] = Last(r)
      /\ \A i \in 1..Len(w) : w1[i] = w[i]
      /\ Len(w) \in Nat
  BY <1>1, AppendProperties
<1> HIDE DEF r1, w1
<1>3. /\ a \in Seq(S) /\ Len(a) = Len(r1) + Len(w1)
      /\ \A i \in 1..(Len(r1) + Len(w1)) :
           a[i] = IF i <= Len(r1) THEN r1[i] ELSE w1[(Len(w1) - (i - Len(r1))) + 1]
  BY <1>1, <1>2, LineEntries
<1>4. /\ b \in Seq(S) /\ Len(b) = Len(r) + Len(w)
      /\ \A i \in 1..(Len(r) + Len(w)) :
           b[i] = IF i <= Len(r) THEN r[i] ELSE w[(Len(w) - (i - Len(r))) + 1]
  BY LineEntries
<1> HIDE DEF a, b
<1>5. ASSUME NEW i \in 1..Len(a) PROVE a[i] = b[i]
  <2>1. CASE i < Len(r)
    BY <1>1, <1>2, <1>3, <1>4, <2>1
  <2>2. CASE i = Len(r)
    <3>1. ~(i <= Len(r1)) /\ (Len(w1) - (i - Len(r1))) + 1 = Len(w) + 1
      BY <1>1, <1>2, <2>2
    <3>2. a[i] = w1[(Len(w1) - (i - Len(r1))) + 1]
      BY <1>3, <3>1
    <3>3. i \in 1..(Len(r) + Len(w)) /\ i <= Len(r)
      BY <1>1, <1>2, <2>2
    <3>4. b[i] = r[i]
      BY <1>4, <3>3
    <3> QED BY <1>1, <1>2, <2>2, <3>1, <3>2, <3>4
  <2>3. CASE i > Len(r)
    <3>1. (Len(w) - (i - Len(r))) + 1 \in 1..Len(w)
      BY <1>1, <1>2, <1>3, <2>3
    <3>2. a[i] = w1[(Len(w1) - (i - Len(r1))) + 1]
      BY <1>1, <1>2, <1>3, <2>3
    <3>3. (Len(w1) - (i - Len(r1))) + 1 = (Len(w) - (i - Len(r))) + 1
      BY <1>1, <1>2, <1>3
    <3>4. b[i] = w[(Len(w) - (i - Len(r))) + 1]
      BY <1>1, <1>2, <1>3, <1>4, <2>3
    <3> QED BY <1>2, <3>1, <3>2, <3>3, <3>4
  <2> QED BY <1>1, <1>3, <2>1, <2>2, <2>3
<1>6. Len(a) = Len(b)
  BY <1>1, <1>2, <1>3, <1>4
<1>7. a = b
  BY <1>3, <1>4, <1>5, <1>6, SeqEqual
<1> QED BY <1>7 DEF a, b, r1, w1

LEMMA LineStart ==
  ASSUME NEW S, NEW r \in Seq(S), NEW w \in Seq(S), w # <<>>
  PROVE  Append(r, Last(w)) \o Reverse(Front(w)) = r \o Reverse(w)
<1> DEFINE w1 == Front(w)
           r1 == Append(r, Last(w))
<1>1. /\ w1 \in Seq(S) /\ Len(w1) = Len(w) - 1 /\ Len(w) \in Nat \ {0}
      /\ \A i \in 1..(Len(w) - 1) : w1[i] = w[i]
      /\ Last(w) = w[Len(w)] /\ Last(w) \in S
  BY FrontSeq
<1>2. /\ r1 \in Seq(S) /\ Len(r1) = Len(r) + 1 /\ r1[Len(r) + 1] = Last(w)
      /\ \A i \in 1..Len(r) : r1[i] = r[i]
      /\ Len(r) \in Nat
  BY <1>1, AppendProperties
<1>3. Front(r1) = r
  <2>1. r1 # <<>>
    BY <1>2
  <2> HIDE DEF r1
  <2>2. /\ Front(r1) \in Seq(S) /\ Len(Front(r1)) = Len(r1) - 1
        /\ \A i \in 1..(Len(r1) - 1) : Front(r1)[i] = r1[i]
    BY <1>2, <2>1, FrontSeq
  <2>3. Len(Front(r1)) = Len(r) /\ \A i \in 1..Len(Front(r1)) : Front(r1)[i] = r[i]
    BY <1>2, <2>2
  <2> QED BY <2>2, <2>3, SeqEqual
<1>4. Append(w1, Last(w)) = w
  <2> HIDE DEF w1
  <2> DEFINE u == Append(w1, Last(w))
  <2>1. /\ u \in Seq(S) /\ Len(u) = Len(w1) + 1 /\ u[Len(w1) + 1] = Last(w)
        /\ \A i \in 1..Len(w1) : u[i] = w1[i]
    BY <1>1, AppendProperties
  <2> HIDE DEF u
  <2>2. Len(u) = Len(w) /\ \A i \in 1..Len(u) : u[i] = w[i]
    BY <1>1, <2>1
  <2>3. u = w
    BY <2>1, <2>2, SeqEqual
  <2> QED BY <2>3 DEF u
<1>5. Last(r1) = Last(w)
  BY <1>2, FrontSeq DEF Last
<1>6. r1 # <<>>
  BY <1>2
<1> HIDE DEF r1, w1
<1>7. Front(r1) \o Reverse(Append(w1, Last(r1))) = r1 \o Reverse(w1)
  BY <1>1, <1>2, <1>6, LinePreempt
<1>8. r \o Reverse(w) = r1 \o Reverse(w1)
  BY <1>3, <1>4, <1>5, <1>7
<1> QED BY <1>8 DEF r1, w1

LEMMA LineReap ==
  ASSUME NEW S, NEW r \in Seq(S), NEW w \in Seq(S), NEW k \in 1..Len(r)
  PROVE  /\ RemoveAt(r, k) \o Reverse(w) = RemoveAt(r \o Reverse(w), k)
         /\ (r \o Reverse(w))[k] = r[k]
<1> DEFINE r1 == RemoveAt(r, k)
           a == r1 \o Reverse(w)
           c == r \o Reverse(w)
           b == RemoveAt(c, k)
<1>1. /\ r1 \in Seq(S) /\ Len(r1) = Len(r) - 1 /\ Len(r) \in Nat /\ Len(w) \in Nat
      /\ \A i \in 1..(k - 1) : r1[i] = r[i]
      /\ \A i \in k..(Len(r) - 1) : r1[i] = r[i + 1]
  BY RemoveSeq
<1> HIDE DEF r1
<1>2. /\ a \in Seq(S) /\ Len(a) = Len(r1) + Len(w)
      /\ \A i \in 1..(Len(r1) + Len(w)) :
           a[i] = IF i <= Len(r1) THEN r1[i] ELSE w[(Len(w) - (i - Len(r1))) + 1]
  BY <1>1, LineEntries
<1>3. /\ c \in Seq(S) /\ Len(c) = Len(r) + Len(w)
      /\ \A i \in 1..(Len(r) + Len(w)) :
           c[i] = IF i <= Len(r) THEN r[i] ELSE w[(Len(w) - (i - Len(r))) + 1]
  BY LineEntries
<1> HIDE DEF a, c
<1>4. k \in 1..Len(c)
  BY <1>1, <1>3
<1>5. /\ b \in Seq(S) /\ Len(b) = Len(c) - 1
      /\ \A i \in 1..(k - 1) : b[i] = c[i]
      /\ \A i \in k..(Len(c) - 1) : b[i] = c[i + 1]
  BY <1>3, <1>4, RemoveSeq
<1> HIDE DEF b
<1>6. ASSUME NEW i \in 1..Len(a) PROVE a[i] = b[i]
  <2>1. CASE i < k
    BY <1>1, <1>2, <1>3, <1>5, <2>1
  <2>2. CASE i >= k /\ i < Len(r)
    <3>1. /\ i \in 1..(Len(r1) + Len(w)) /\ i <= Len(r1) /\ i \in k..(Len(r) - 1)
          /\ i + 1 \in 1..(Len(r) + Len(w)) /\ i + 1 <= Len(r) /\ i \in k..(Len(c) - 1)
      BY <1>1, <1>2, <1>3, <2>2
    <3>2. a[i] = r1[i]
      BY <1>2, <3>1
    <3>3. r1[i] = r[i + 1]
      BY <1>1, <3>1
    <3>4. b[i] = c[i + 1]
      BY <1>5, <3>1
    <3>5. c[i + 1] = r[i + 1]
      BY <1>3, <3>1
    <3> QED BY <3>2, <3>3, <3>4, <3>5
  <2>3. CASE i >= Len(r)
    <3>1. a[i] = w[(Len(w) - (i - Len(r1))) + 1]
      BY <1>1, <1>2, <2>3
    <3>0. /\ i \in k..(Len(c) - 1)
          /\ i + 1 \in 1..(Len(r) + Len(w)) /\ ~(i + 1 <= Len(r))
      BY <1>1, <1>2, <1>3, <2>3
    <3>2. b[i] = c[i + 1]
      BY <1>5, <3>0
    <3>3. c[i + 1] = w[(Len(w) - ((i + 1) - Len(r))) + 1]
      BY <1>3, <3>0
    <3>4. (Len(w) - ((i + 1) - Len(r))) + 1 = (Len(w) - (i - Len(r1))) + 1
      BY <1>1, <1>2
    <3> QED BY <3>1, <3>2, <3>3, <3>4
  <2> QED BY <1>1, <1>2, <2>1, <2>2, <2>3
<1>7. Len(a) = Len(b)
  BY <1>1, <1>2, <1>3, <1>5
<1>8. a = b
  BY <1>2, <1>5, <1>6, <1>7, SeqEqual
<1>9. c[k] = r[k]
  BY <1>1, <1>3
<1> QED BY <1>8, <1>9 DEF a, b, c, r1

LEMMA LineInit == Init => Line!Init
<1> SUFFICES ASSUME Init PROVE Line!Init
  OBVIOUS
<1>1. Reverse(<<>>) = <<>>
  BY DEF Reverse
<1>2. running \o Reverse(pending) = <<>>
  BY <1>1 DEF Init
<1> QED BY <1>2 DEF Init, Line!Init

LEMMA LineStep == IInv /\ IInv' /\ [Next]_vars
                    => [Line!Next]_<<running \o Reverse(pending), Len(running), future>>
<1> SUFFICES ASSUME IInv, IInv', [Next]_vars
             PROVE  [Line!Next]_<<running \o Reverse(pending), Len(running), future>>
  OBVIOUS
<1> DEFINE line == running \o Reverse(pending)
<1>0. pending \in Seq(Procs) /\ running \in Seq(Procs) /\ Len(running) \in Nat
      /\ Len(pending) \in Nat
  BY DEF IInv, TypeOK
<1>1. CASE \E q \in Procs : Shell(q)
  <2>1. PICK q \in Procs : Shell(q)
    BY <1>1
  <2>2. line' = Append(line, q)
    <3>1. running' = running /\ pending' = <<q>> \o pending
      BY <2>1 DEF Shell, append
    <3>2. line' = running \o Reverse(<<q>> \o pending)
      BY <3>1
    <3>3. running \o Reverse(<<q>> \o pending) = Append(line, q)
      BY <1>0, LineShell
    <3> QED BY <3>2, <3>3
  <2>3. Line!Join(q)
    BY <2>1, <2>2 DEF Line!Join, Shell
  <2> QED BY <2>3 DEF Line!Next
<1>2. CASE \E q \in Procs : Cancel(q)
  BY <1>2 DEF Cancel, Line!Next, Line!Abandon
<1>3. CASE \E q \in Procs : Grow(q) \/ Exit(q) \/ Expire(q)
  BY <1>3 DEF Grow, Exit, Expire, pvars
<1>4. CASE PollPreempt
  <2>1. running # <<>> /\ Len(running) > 1 /\ Len(running') = Len(running) - 1
        /\ future' = future
    <3>1. Len(running) > 1
      BY <1>4 DEF PollPreempt, Preempting
    <3>2. running # <<>>
      BY <3>1
    <3> QED BY <1>0, <1>4, <3>1, <3>2, FrontSeq DEF PollPreempt
  <2>2. line' = line
    <3>1. running' = Front(running) /\ pending' = Append(pending, Last(running))
      BY <1>4 DEF PollPreempt, Requeue
    <3> QED BY <1>0, <2>1, <3>1, LinePreempt
  <2>3. Line!Preempt
    BY <2>1, <2>2 DEF Line!Preempt
  <2> QED BY <2>3 DEF Line!Next
<1>5. CASE PollStart
  <2>1. /\ pending # <<>> /\ Len(running) < MAX_RUNNING /\ future' = future
        /\ running' = Append(running, Last(pending)) /\ pending' = Front(pending)
    BY <1>5 DEF PollStart, Starting
  <2>2. Len(running') = Len(running) + 1 /\ Len(running) < Len(line)
    <3>1. Len(pending) > 0 /\ Last(pending) \in Procs
      BY <1>0, <2>1, FrontSeq
    <3>2. Len(line) = Len(running) + Len(pending)
      BY <1>0, LineEntries
    <3>3. Len(running') = Len(running) + 1
      BY <1>0, <2>1, <3>1, AppendProperties
    <3> HIDE DEF line
    <3> QED BY <1>0, <3>1, <3>2, <3>3
  <2>3. line' = line
    BY <1>0, <2>1, LineStart
  <2>4. Line!Admit
    BY <2>1, <2>2, <2>3 DEF Line!Admit
  <2> QED BY <2>4 DEF Line!Next
<1>6. CASE PollReap
  <2> DEFINE q == running[p]
  <2>1. p \in 1..Len(running) /\ q \in Procs /\ q \in Elems(running)
    <3>1. p \in 1..Len(running)
      BY <1>0, <1>6 DEF PollReap, IInv, TypeOK
    <3> QED BY <1>0, <3>1 DEF Elems
  <2>2. /\ running' = RemoveAt(running, p) /\ pending' = pending
        /\ Len(running') = Len(running) - 1
    BY <1>0, <1>6, <2>1, RemoveSeq DEF PollReap
  <2>3. line' = RemoveAt(line, p) /\ line[p] = q
    BY <1>0, <2>1, <2>2, LineReap
  <2>4. IF future[q] = "waiting"
        THEN \E r \in {"OK", "TIMEOUT"} : future' = [future EXCEPT ![q] = r]
        ELSE UNCHANGED future
    <3>1. CASE future[q] = "waiting"
      <4>1. kill_[q] = "none"
        BY <2>1, <3>1 DEF IInv, KillsOnlyCancelled, TypeOK
      <4> QED BY <1>6, <3>1, <4>1 DEF PollReap, Outcome, Resolved
    <3>2. CASE future[q] # "waiting"
      <4>1. future[q] = "cancelled"
        BY <2>1, <3>2 DEF IInv, NoneLost
      <4> QED BY <1>6, <4>1 DEF PollReap, Resolved
    <3> QED BY <3>1, <3>2
  <2>5. Line!Leave(p)
    <3>1. IF future[line[p]] = "waiting"
          THEN \E r \in {"OK", "TIMEOUT"} : future' = [future EXCEPT ![line[p]] = r]
          ELSE UNCHANGED future
      <4> HIDE DEF line, q
      <4> QED BY <2>3, <2>4
    <3>2. line' = RemoveAt(line, p) /\ Len(running)' = Len(running) - 1
      BY <2>2, <2>3
    <3>3. /\ (running \o Reverse(pending))' = RemoveAt(running \o Reverse(pending), p)
          /\ Len(running)' = Len(running) - 1
          /\ IF future[(running \o Reverse(pending))[p]] = "waiting"
             THEN \E r \in {"OK", "TIMEOUT"} :
                    future' = [future EXCEPT ![(running \o Reverse(pending))[p]] = r]
             ELSE UNCHANGED future
      BY <3>1, <3>2
    <3> HIDE DEF line, q
    <3>4. RemoveAt(running \o Reverse(pending), p) = Line!RemoveAt(running \o Reverse(pending), p)
      BY DEF RemoveAt, Line!RemoveAt
    <3> QED BY <3>3, <3>4 DEF Line!Leave
  <2> QED BY <2>1, <2>5 DEF Line!Next
<1>7. CASE \/ PollBegin \/ PollPreempted \/ PollStarted \/ PollKeep \/ PollEnd
           \/ UNCHANGED vars
  BY <1>7 DEF PollBegin, PollPreempted, PollStarted, PollKeep, PollEnd, pvars, vars
<1> QED BY <1>1, <1>2, <1>3, <1>4, <1>5, <1>6, <1>7 DEF Next, Poll

\* The runner serves its processes as one line, oldest first: it never
\* preempts the oldest, and a preempted process keeps its place
\* (conductor.py 235-236, 249-273).
THEOREM RunnerServesOldestFirst == Spec => OldestFirst
<1>1. IInv /\ IInv' /\ [Next]_vars
        => [Line!Next]_<<running \o Reverse(pending), Len(running), future>>
  BY LineStep
<1> QED BY <1>1, LineInit, InvHolds, PTL DEF Spec, OldestFirst, Line!Spec
=============================================================================
