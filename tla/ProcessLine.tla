----------------------------- MODULE ProcessLine -----------------------------
(***************************************************************************)
(* What the process runner of the formal flow promises the coroutines that *)
(* await a shell command: processes stand in one line in the order they    *)
(* were asked for, the front of the line is running, a process leaves the  *)
(* line once, and its future is resolved at most once.                     *)
(***************************************************************************)
EXTENDS Naturals, Sequences, SequencesExt

CONSTANTS Procs, MAX_RUNNING

VARIABLES line,       \* every process not yet dropped, oldest first
          admitted,   \* how many of them, from the front, are running
          future

Init == /\ line = <<>>
        /\ admitted = 0
        /\ future = [p \in Procs |-> "new"]

Join(p) == /\ future[p] = "new"
           /\ line' = Append(line, p)
           /\ future' = [future EXCEPT ![p] = "waiting"]
           /\ UNCHANGED admitted

Abandon(p) == /\ future[p] = "waiting"
              /\ future' = [future EXCEPT ![p] = "cancelled"]
              /\ UNCHANGED <<line, admitted>>

Admit == /\ admitted < Len(line)
         /\ admitted < MAX_RUNNING
         /\ admitted' = admitted + 1
         /\ UNCHANGED <<line, future>>

\* The youngest running process goes back to waiting, never the oldest.
Preempt == /\ admitted > 1
           /\ admitted' = admitted - 1
           /\ UNCHANGED <<line, future>>

Leave(i) == /\ line' = RemoveAt(line, i)
            /\ admitted' = admitted - 1
            /\ IF future[line[i]] = "waiting"
               THEN \E r \in {"OK", "TIMEOUT"} : future' = [future EXCEPT ![line[i]] = r]
               ELSE UNCHANGED future

Next == \/ \E p \in Procs : Join(p) \/ Abandon(p)
        \/ Admit
        \/ Preempt
        \/ \E i \in 1..admitted : Leave(i)

Spec == Init /\ [][Next]_<<line, admitted, future>>
=============================================================================
