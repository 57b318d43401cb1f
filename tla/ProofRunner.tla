----------------------------- MODULE ProofRunner -----------------------------
(***************************************************************************)
(* Process management of dv/formal/conductor.py: shell(), Process,         *)
(* ProcessFuture and ProcessRunner.  The runner's poll() is one callback   *)
(* of the event loop, so coroutines run only between two polls (phase      *)
(* "idle"); the operating system's processes grow, exit and outlive their  *)
(* timeouts at any time, also between two statements of poll().            *)
(* Memory is counted in units; wall-clock time is the flag late.           *)
(***************************************************************************)
EXTENDS Naturals, Sequences, FiniteSets, FiniteSetsExt, SequencesExt

CONSTANTS Procs,                 \* the shell commands that may be asked for
          MAX_RUNNING,           \* CPUs less two
          GLOBAL_MEMORY_BUFFER,  \* 5 GB
          MIN_RESERVE,           \* the 3 GB every start and kill counts for
          TotalMem,              \* memory available to the flow
          MaxMemArgs,            \* --max-mem (0: no limit)
          Sizes,                 \* the resident sizes a command may grow to
          Expected,              \* expected_memory its caller passes
          HasTimeout             \* the commands given a timeout

ASSUME RunnerAssumption ==
  /\ MAX_RUNNING \in Nat \ {0}
  /\ GLOBAL_MEMORY_BUFFER \in Nat /\ MIN_RESERVE \in Nat /\ TotalMem \in Nat
  /\ MaxMemArgs \subseteq Nat
  /\ Sizes \in [Procs -> SUBSET Nat] /\ Expected \in [Procs -> Nat]
  /\ HasTimeout \subseteq Procs

VARIABLES pending, running,                \* ProcessRunner
          kill_, max_memory, expected_memory, future,  \* Process
          proc, rss, late,                 \* its operating system process
          phase, free, p,                  \* where poll() is, and its locals
          args                             \* --max-mem and --no-kill

pvars == <<kill_, max_memory, expected_memory, future>>
osvars == <<proc, rss, late>>
vars == <<pending, running, pvars, osvars, phase, free, p, args>>

Init == /\ pending = <<>>
        /\ running = <<>>
        /\ kill_ = [q \in Procs |-> "none"]
        /\ max_memory = [q \in Procs |-> 0]
        /\ expected_memory = Expected
        /\ future = [q \in Procs |-> "new"]
        /\ proc = [q \in Procs |-> "none"]
        /\ rss = [q \in Procs |-> 0]
        /\ late = [q \in Procs |-> FALSE]
        /\ phase = "idle"
        /\ free = 0
        /\ p = 1
        /\ args \in [max_mem : MaxMemArgs, no_kill : BOOLEAN]

Larger(a, b) == IF a > b THEN a ELSE b
Smaller(a, b) == IF a < b THEN a ELSE b
Minus(a, b) == IF a > b THEN a - b ELSE 0

-----------------------------------------------------------------------------
\* shell(): a Process is created and put at the front of pending.
append(q) == <<q>> \o pending

Shell(q) == /\ phase = "idle"
            /\ future[q] = "new"
            /\ pending' = append(q)
            /\ future' = [future EXCEPT ![q] = "waiting"]
            /\ UNCHANGED <<running, kill_, max_memory, expected_memory, osvars,
                           phase, free, p, args>>

\* ProcessFuture.cancel(): the coroutine that awaits the future is cancelled.
Cancel(q) == /\ phase = "idle"
             /\ future[q] = "waiting"
             /\ kill_' = [kill_ EXCEPT ![q] = "kill"]
             /\ future' = [future EXCEPT ![q] = "cancelled"]
             /\ UNCHANGED <<pending, running, max_memory, expected_memory, osvars,
                            phase, free, p, args>>

-----------------------------------------------------------------------------
\* The operating system.
Grow(q) == /\ proc[q] = "live"
           /\ \E m \in Sizes[q] : m > rss[q] /\ rss' = [rss EXCEPT ![q] = m]
           /\ UNCHANGED <<pending, running, pvars, proc, late, phase, free, p, args>>

Exit(q) == /\ proc[q] = "live"
           /\ proc' = [proc EXCEPT ![q] = "exited"]
           /\ rss' = [rss EXCEPT ![q] = 0]
           /\ UNCHANGED <<pending, running, pvars, late, phase, free, p, args>>

Expire(q) == /\ proc[q] # "none"
             /\ q \in HasTimeout
             /\ ~late[q]
             /\ late' = [late EXCEPT ![q] = TRUE]
             /\ UNCHANGED <<pending, running, pvars, proc, rss, phase, free, p, args>>

-----------------------------------------------------------------------------
global_memory_free ==
  Minus(TotalMem, MapThenSumSet(LAMBDA q : rss[q], Procs))

children_used_mem ==
  MapThenSumSet(LAMBDA i : max_memory[running[i]], DOMAIN running)

mem_avail ==
  IF args.max_mem = 0 THEN global_memory_free
  ELSE Smaller(global_memory_free, Minus(args.max_mem, children_used_mem))

\* The peak poll() records for q.
Observed(q) == Larger(rss[q], max_memory[q])

\* The operating system process of q is gone: killed, or reaped after its exit.
Gone(q) == /\ proc' = [proc EXCEPT ![q] = "none"]
           /\ rss' = [rss EXCEPT ![q] = 0]
           /\ late' = [late EXCEPT ![q] = FALSE]

PollBegin == /\ phase = "idle"
             /\ phase' = "preempt"
             /\ free' = mem_avail
             /\ UNCHANGED <<pending, running, pvars, osvars, p, args>>

Preempting == /\ ~args.no_kill
              /\ free < GLOBAL_MEMORY_BUFFER
              /\ Len(running) > 1

Requeue_Forgotten(q) == pending
Requeue_AtFront(q) == <<q>> \o pending

\* A preempted process is the next one to be started again.
Requeue(q) == Append(pending, q)

Learned_Added(q) == expected_memory[q] + Observed(q)

\* What a preempted process is expected to need when it is started again.
Learned(q) == Larger(expected_memory[q], Observed(q))

\* One turn of the first loop: pop the youngest, kill_restart(), poll(), requeue.
\* kill_restart() overwrites a "kill" left there by a cancelled future.
PollPreempt ==
  LET last == Last(running) IN
  /\ phase = "preempt"
  /\ Preempting
  /\ running' = Front(running)
  /\ free' = free + Larger(max_memory[last], MIN_RESERVE)
  /\ max_memory' = [max_memory EXCEPT ![last] = Observed(last)]
  /\ expected_memory' = [expected_memory EXCEPT ![last] = Learned(last)]
  /\ kill_' = [kill_ EXCEPT ![last] = "none"]
  /\ Gone(last)
  /\ pending' = Requeue(last)
  /\ UNCHANGED <<future, phase, p, args>>

PollPreempted == /\ phase = "preempt"
                 /\ ~Preempting
                 /\ phase' = "start"
                 /\ UNCHANGED <<pending, running, pvars, osvars, free, p, args>>

Starting_Unlimited == /\ pending # <<>>
                      /\ free > expected_memory[Last(pending)] + GLOBAL_MEMORY_BUFFER

\* Only the oldest pending process is looked at.
Starting == /\ Len(running) < MAX_RUNNING
            /\ pending # <<>>
            /\ free > expected_memory[Last(pending)] + GLOBAL_MEMORY_BUFFER

Reserve(q) == Minus(free, Larger(expected_memory[q], MIN_RESERVE))

\* One turn of the second loop.  start() leaves kill_ alone.
PollStart ==
  LET last == Last(pending) IN
  /\ phase = "start"
  /\ Starting
  /\ pending' = Front(pending)
  /\ running' = Append(running, last)
  /\ proc' = [proc EXCEPT ![last] = "live"]
  /\ max_memory' = [max_memory EXCEPT ![last] = 0]
  /\ free' = Reserve(last)
  /\ UNCHANGED <<kill_, expected_memory, future, rss, late, phase, p, args>>

PollStarted == /\ phase = "start"
               /\ ~Starting
               /\ phase' = "reap"
               /\ p' = 1
               /\ UNCHANGED <<pending, running, pvars, osvars, free, args>>

\* What Process.poll() decides outside the preemption loop, where kill_ is
\* never "restart": the order of the tests is the code's.
Outcome(q) == IF proc[q] = "exited" /\ kill_[q] = "none" THEN "OK"
              ELSE IF late[q] THEN "TIMEOUT"
              ELSE IF kill_[q] = "kill" THEN "UNINTERESTED"
              ELSE "running"

Resolved_Always(q) == TRUE

\* The future gets a result only when nobody has cancelled it.
Resolved(q) == future[q] # "cancelled"

\* One turn of the third loop, for a process that poll() reports finished.
PollReap ==
  LET q == running[p] IN
  /\ phase = "reap"
  /\ p <= Len(running)
  /\ Outcome(q) # "running"
  /\ max_memory' = [max_memory EXCEPT ![q] = Observed(q)]
  /\ future' = IF Resolved(q) THEN [future EXCEPT ![q] = Outcome(q)] ELSE future
  /\ Gone(q)
  /\ running' = RemoveAt(running, p)
  /\ UNCHANGED <<pending, kill_, expected_memory, phase, free, p, args>>

PollKeep ==
  LET q == running[p] IN
  /\ phase = "reap"
  /\ p <= Len(running)
  /\ Outcome(q) = "running"
  /\ max_memory' = [max_memory EXCEPT ![q] = Observed(q)]
  /\ p' = p + 1
  /\ UNCHANGED <<pending, running, kill_, expected_memory, future, osvars,
                 phase, free, args>>

PollEnd == /\ phase = "reap"
           /\ p > Len(running)
           /\ phase' = "idle"
           /\ p' = 1
           /\ free' = 0
           /\ UNCHANGED <<pending, running, pvars, osvars, args>>

Poll == \/ PollBegin \/ PollPreempt \/ PollPreempted \/ PollStart \/ PollStarted
        \/ PollReap \/ PollKeep \/ PollEnd

Next == \/ \E q \in Procs : Shell(q) \/ Cancel(q) \/ Grow(q) \/ Exit(q) \/ Expire(q)
        \/ Poll

\* poll() schedules itself again with call_later for as long as the event loop
\* runs, and every command eventually exits if it is left alone.
Fairness == WF_vars(Poll) /\ \A q \in Procs : WF_vars(Exit(q))

Spec == Init /\ [][Next]_vars /\ Fairness

-----------------------------------------------------------------------------
Kills == {"none", "kill"}
Futures == {"new", "waiting", "cancelled", "OK", "TIMEOUT"}

\* The types of the runner's fields; a future never holds "UNINTERESTED", the
\* result the code has a branch for: only a cancelled future is killed that way.
TypeOK == /\ pending \in Seq(Procs) /\ running \in Seq(Procs)
          /\ kill_ \in [Procs -> Kills]
          /\ max_memory \in [Procs -> Nat] /\ expected_memory \in [Procs -> Nat]
          /\ future \in [Procs -> Futures]
          /\ proc \in [Procs -> {"none", "live", "exited"}]
          /\ rss \in [Procs -> Nat] /\ late \in [Procs -> BOOLEAN]
          /\ phase \in {"idle", "preempt", "start", "reap"}
          /\ p \in Nat \ {0}
          /\ args \in [max_mem : MaxMemArgs, no_kill : BOOLEAN]

Elems(s) == {s[i] : i \in DOMAIN s}

NoRepeat(s) == \A i, j \in DOMAIN s : s[i] = s[j] => i = j

\* A process whose future is awaited is in exactly one of the two lists, once,
\* through every preemption, restart and cancellation; a process in neither has
\* its future resolved (or cancelled).  A lost process would leave its
\* coroutine waiting for ever.
NoneLost == /\ NoRepeat(pending)
            /\ NoRepeat(running)
            /\ Elems(pending) \cap Elems(running) = {}
            /\ \A q \in Procs : /\ future[q] = "waiting" => q \in Elems(pending) \cup Elems(running)
                                /\ q \in Elems(pending) \cup Elems(running)
                                     => future[q] \in {"waiting", "cancelled"}

\* The operating system runs exactly the processes in running: none is left
\* behind by a kill, a timeout or a restart, none that is polled was never
\* started (the assertion that opens Process.poll), and never more than
\* MAX_RUNNING of them.
NoOrphan == /\ \A q \in Procs : proc[q] # "none" <=> q \in Elems(running)
            /\ Len(running) <= MAX_RUNNING

\* A request to kill is only ever made of a process nobody awaits.
KillsOnlyCancelled == \A q \in Procs : kill_[q] = "kill" => future[q] = "cancelled"

\* Every command that is asked for is eventually answered or given up by its
\* caller, and one given up eventually leaves the runner: preemption and the
\* head-of-line rule of the start loop starve nobody, as long as each command
\* fits in memory alone.
EachAnswered == \A q \in Procs : future[q] = "waiting" ~> future[q] # "waiting"
EachDropped ==
  \A q \in Procs : future[q] = "cancelled" ~> q \notin Elems(pending) \cup Elems(running)
EachSettled == EachAnswered /\ EachDropped

\* The runner implements one line served oldest first: preemption takes the
\* youngest running process and gives it back its place at the front of the
\* waiting ones, and the oldest is never preempted.
Line == INSTANCE ProcessLine
          WITH line <- running \o Reverse(pending), admitted <- Len(running)
OldestFirst == Line!Spec
=============================================================================
