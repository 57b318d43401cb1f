------------------------------ MODULE ProofModes ------------------------------
(***************************************************************************)
(* The modes of dv/formal/conductor.py: how a run selects properties,      *)
(* loads, extends and stores the proof strategies of each step, runs them, *)
(* and which exit code it ends with.  Runs follow one another; between two *)
(* runs the design may be edited, and a run may be interrupted anywhere.   *)
(*                                                                         *)
(* A strategy file holds a list of proof entries; an entry is a step and   *)
(* the properties it proves as one block.  A property is known to an entry *)
(* by its name alone.  aig-manip selects from the present design what an   *)
(* entry asks for, and the proof engine, which is external, is given what  *)
(* is selected: it answers UNSAT only for properties that follow from the  *)
(* earlier steps (Inductive) and SAT only for others, and may fail to      *)
(* answer.                                                                 *)
(***************************************************************************)
EXTENDS Integers, FiniteSets

CONSTANTS Props,          \* property names, _Cover names left out
          SKIPPED_PROPS,
          Versions,       \* the designs build/all.aig is built from
          Exists,         \* the properties of a design
          StepOf,         \* the proof step each of them belongs to
          MaxStep,        \* the last step of a design, _Cover names counted
          Inductive,      \* the properties that can be proved in their step
          ArgSets,        \* the command lines considered
          Strategies0     \* the strategy files the repository starts with

\* What a proof run answers, and what is left of a strategy file.
Codes == {"UNSAT", "SAT", "UNDETERMINED", "KILLED"}
Steps == UNION {0..MaxStep[v] : v \in Versions}
Entries == [step : Nat, props : (SUBSET Props) \ {{}}]
Absent == [state |-> "absent", proofs |-> {}]
Corrupt == [state |-> "corrupt", proofs |-> {}]
File(entries) == [state |-> "ok", proofs |-> entries]
Files == [state : {"absent", "corrupt", "ok"}, proofs : SUBSET Entries]

ArgType == [mode : {"prove", "explore", "bmc", "info"}, properties : SUBSET Props,
            missing : BOOLEAN, start : Nat, fresh : BOOLEAN, hard : BOOLEAN,
            no_store : BOOLEAN, by_step : BOOLEAN, check_complete : BOOLEAN]

ASSUME ModesAssumption ==
  /\ MaxStep \in [Versions -> Nat]
  /\ Exists \in [Versions -> SUBSET Props]
  /\ Inductive \in [Versions -> SUBSET Props]
  /\ \A v \in Versions : /\ Inductive[v] \subseteq Exists[v]
                         /\ StepOf[v] \in [Exists[v] -> 0..MaxStep[v]]
  /\ ArgSets \subseteq ArgType
  /\ Strategies0 \in [Steps -> Files]
  /\ \A s \in Steps : /\ Strategies0[s].state # "ok" => Strategies0[s].proofs = {}
                      /\ \A e \in Strategies0[s].proofs : e.step = s

VARIABLES ver, strategies,                   \* the working directory
          args, phase, exit_code, selected,  \* one run
          step, strategy, todo, all_strategies, has_errors,
          loaded, saved, seen                \* history

files == <<strategies, saved>>
locals == <<step, strategy, todo, all_strategies, has_errors, loaded>>
vars == <<ver, files, args, phase, exit_code, selected, locals, seen>>

\* loaded is what the current step's file was when it was loaded, saved what each
\* file held when it was last complete, seen the designs worked on so far.
Init == /\ ver \in Versions
        /\ strategies = Strategies0
        /\ saved = [s \in Steps |-> Strategies0[s].proofs]
        /\ args \in ArgSets
        /\ phase = "idle"
        /\ exit_code = "none"
        /\ selected = {}
        /\ step = 0
        /\ strategy = {}
        /\ todo = {}
        /\ all_strategies = {}
        /\ has_errors = FALSE
        /\ loaded = Absent
        /\ seen = {ver}

\* The run is over and its variables are gone; args and selected are kept to
\* say what the exit code is about.
Ends(code) == /\ phase' = "idle"
              /\ exit_code' = code
              /\ step' = 0 /\ strategy' = {} /\ todo' = {}
              /\ all_strategies' = {} /\ has_errors' = FALSE /\ loaded' = Absent
              /\ UNCHANGED <<ver, files, args, selected, seen>>

-----------------------------------------------------------------------------
\* The design is rebuilt; nothing in strategies/ records for which design a
\* proof was found.
Edit(v) == /\ phase = "idle"
           /\ v # ver
           /\ ver' = v
           /\ exit_code' = "none"
           /\ selected' = {}
           /\ seen' = seen \cup {v}
           /\ UNCHANGED <<files, args, phase, locals>>

Launch(a) == /\ phase = "idle"
             /\ args' = a
             /\ phase' = "select"
             /\ exit_code' = "none"
             /\ selected' = {}
             /\ UNCHANGED <<ver, files, locals, seen>>

\* An interrupt or a failed assertion ends the run wherever it is.
Crash == Ends("crash")

Interrupt == phase # "idle" /\ Crash

-----------------------------------------------------------------------------
\* load_strategy: a missing, unreadable or (with --fresh) ignored file is None.
load_strategy(s) == IF args.fresh THEN Absent ELSE strategies[s]
IsNone(file) == file.state # "ok"

Covered(entries) == UNION {e.props : e \in entries}

missing_from(entries, props) == props \ Covered(entries)

by_step(s) == {q \in selected : StepOf[ver][q] = s}

\* main(): the properties the run is about.
Chosen ==
  LET names == Exists[ver]
      gaps(s) == IF IsNone(load_strategy(s)) THEN {}
                 ELSE missing_from(load_strategy(s).proofs, {q \in names : StepOf[ver][q] = s})
  IN  IF args.missing THEN args.properties \cup UNION {gaps(s) : s \in Steps}
      ELSE IF args.properties = {} THEN names ELSE args.properties

Select ==
  /\ phase = "select"
  /\ IF args.properties \subseteq Exists[ver]
     THEN /\ selected' = Chosen \ SKIPPED_PROPS
          /\ phase' = args.mode
          /\ UNCHANGED <<ver, files, args, exit_code, locals, seen>>
     ELSE Ends("1")

-----------------------------------------------------------------------------
\* aig-manip select: the properties of the entry the design has in the entry's
\* step.  That one is missing, or belongs to another step, is no error.
Kept(e) == {q \in e.props \cap Exists[ver] : StepOf[ver][q] = e.step}

\* What the external engine may answer for the design aig-manip left of an entry.
EngineAnswers(e) ==
  {"UNDETERMINED", "KILLED"} \cup (IF Kept(e) \subseteq Inductive[ver] THEN {"UNSAT"} ELSE {"SAT"})

\* prove_mode, one turn of the loop over the steps.  With --by-step the strategy
\* is run here and its results only logged.
ProveStep ==
  /\ phase = "prove"
  /\ step <= MaxStep[ver]
  /\ step' = step + 1
  /\ LET found == load_strategy(step)
     IN  all_strategies' = IF step < args.start \/ IsNone(found) THEN all_strategies
                           ELSE all_strategies \cup found.proofs
  /\ UNCHANGED <<ver, files, args, phase, exit_code, selected, strategy, todo, has_errors,
                 loaded, seen>>

uncovered == missing_from(all_strategies, selected)

\* After the loop: --check-complete, and with --by-step there is nothing left.
ProveComplete ==
  /\ phase = "prove"
  /\ step > MaxStep[ver]
  /\ IF args.check_complete /\ uncovered # {} THEN Ends("1")
     ELSE IF args.by_step THEN Ends("0")
     ELSE /\ phase' = "run"
          /\ todo' = all_strategies
          /\ UNCHANGED <<ver, files, args, exit_code, selected, step, strategy,
                         all_strategies, has_errors, loaded, seen>>

Failed_OnlyBySat(code) == code = "SAT"
Failed(code) == code # "UNSAT"

\* run_strategy for everything: the proofs end in any order.
ProveOne(e) ==
  /\ phase = "run"
  /\ e \in todo
  /\ \E code \in EngineAnswers(e) : has_errors' = (has_errors \/ Failed(code))
  /\ todo' = todo \ {e}
  /\ UNCHANGED <<ver, files, args, phase, exit_code, selected, step, strategy, all_strategies,
                 loaded, seen>>

ProveJudge == /\ phase = "run"
              /\ todo = {}
              /\ Ends(IF has_errors THEN "1" ELSE "0")

-----------------------------------------------------------------------------
ExploreStep ==
  /\ phase = "explore"
  /\ step <= MaxStep[ver]
  /\ IF step < args.start
     THEN /\ step' = step + 1
          /\ UNCHANGED <<phase, loaded, strategy, todo>>
     ELSE LET found == load_strategy(step)
              not_done == missing_from(found.proofs, by_step(step))
          IN  /\ loaded' = found
              /\ strategy' = found.proofs
              /\ todo' = {[step |-> step, props |-> {q}] : q \in not_done}
              /\ phase' = IF not_done = {} THEN "rerun" ELSE "build"
              /\ UNCHANGED step
  /\ UNCHANGED <<ver, files, args, exit_code, selected, all_strategies, has_errors, seen>>

Proven_AnyVerdict(code) == code \in {"UNSAT", "SAT"}

\* build_strategy_rec for one property: only a proof extends the strategy.
Proven(code) == code = "UNSAT"

\* race(): every wrapper awaits the coroutine the loop variable names last, so
\* with two or more tasks the second wrapper raises and the exception ends the run.
RaceRaises(tasks) == tasks > 1

\* Two engines race for a property, or two ways to split a block; --hard uses one
\* engine and no split.
Racers == IF args.hard THEN 1 ELSE 2

BuildOne(e) ==
  /\ phase = "build"
  /\ e \in todo
  /\ IF RaceRaises(Racers) THEN Ends("raised")
     ELSE /\ \E code \in EngineAnswers(e) :
               strategy' = strategy \cup (IF Proven(code) THEN {e} ELSE {})
          /\ todo' = todo \ {e}
          /\ UNCHANGED <<ver, files, args, phase, exit_code, selected, step,
                         all_strategies, has_errors, loaded, seen>>

Built == /\ phase = "build"
         /\ todo = {}
         /\ phase' = IF args.no_store THEN "rerun" ELSE "store"
         /\ UNCHANGED <<ver, files, args, exit_code, selected, locals, seen>>

\* store_strategy: opening the file for writing empties it; an exception while
\* it is opened or written is logged and ignored.
StoreOpen ==
  /\ phase = "store"
  /\ \/ strategies' = [strategies EXCEPT ![step] = Corrupt] /\ phase' = "dump"
     \/ strategies' = strategies /\ phase' = "rerun"
  /\ UNCHANGED <<ver, saved, args, exit_code, selected, locals, seen>>

Dumped_OnlyNew == strategy \ loaded.proofs
Dumped == strategy

StoreDump ==
  /\ phase = "dump"
  /\ phase' = "rerun"
  /\ \/ /\ strategies' = [strategies EXCEPT ![step] = File(Dumped)]
        /\ saved' = [saved EXCEPT ![step] = Dumped]
     \/ UNCHANGED files
  /\ UNCHANGED <<ver, args, exit_code, selected, locals, seen>>

\* explore_mode: the step's strategy may be run again; its results are only logged.
Rerun ==
  /\ phase = "rerun"
  /\ step' = step + 1
  /\ phase' = "explore"
  /\ UNCHANGED <<ver, files, args, exit_code, selected, strategy, todo, all_strategies,
                 has_errors, loaded, seen>>

\* Nothing is said of what was not proved: the exit code is 0.
ExploreEnd == /\ phase = "explore"
              /\ step > MaxStep[ver]
              /\ Ends("0")

-----------------------------------------------------------------------------
\* bmc_mode goes on for ever when it is given more than one property, info_mode
\* only prints.
Bmc == /\ phase = "bmc"
       /\ Cardinality(selected) < 2
       /\ Ends("0")

Info == /\ phase = "info"
        /\ Ends("0")

-----------------------------------------------------------------------------
Run == \/ Select \/ ProveStep \/ ProveComplete \/ ProveJudge
       \/ ExploreStep \/ Built \/ StoreOpen \/ StoreDump \/ Rerun \/ ExploreEnd
       \/ Bmc \/ Info
       \/ \E e \in todo : ProveOne(e) \/ BuildOne(e)

Next == \/ \E v \in Versions : Edit(v)
        \/ \E a \in ArgSets : Launch(a)
        \/ Interrupt
        \/ Run

Spec == Init /\ [][Next]_vars

-----------------------------------------------------------------------------
Phases == {"idle", "select", "prove", "run", "explore", "build", "store", "dump", "rerun",
           "bmc", "info"}

\* The types of a run's state and of the strategy files it works on.
TypeOK == /\ ver \in seen /\ seen \subseteq Versions
          /\ strategies \in [Steps -> Files]
          /\ saved \in [Steps -> SUBSET Entries]
          /\ args \in ArgSets /\ phase \in Phases
          /\ exit_code \in {"none", "0", "1", "raised", "crash"}
          /\ selected \subseteq Exists[ver] /\ step \in Nat
          /\ strategy \subseteq Entries /\ todo \subseteq Entries
          /\ all_strategies \subseteq Entries
          /\ has_errors \in BOOLEAN
          /\ loaded \in Files

\* The run has ended well after looking for gaps and at the answers.  (With
\* --by-step the answers are never looked at.)
CheckedComplete == /\ args.mode = "prove" /\ args.check_complete /\ ~args.by_step
                   /\ exit_code = "0"

\* A stored proof of one of the files from --start on names q under one of the steps.
Named(q, steps) == \E s \in Steps : \E e \in strategies[s].proofs :
                     s >= args.start /\ q \in e.props /\ e.step \in steps

\* A run in prove mode with --check-complete that ends with 0 found every selected
\* property named by a stored proof, and has proved again, on the design it ran on,
\* every one that is named under its own step: whatever strategies earlier runs left,
\* for whichever design, whatever file was torn and whatever was killed on the way.
ProveIsSound ==
  CheckedComplete => \A q \in selected :
    /\ Named(q, Nat)
    /\ Named(q, {StepOf[ver][q]}) => q \in Inductive[ver]

\* The help of --check-complete says that such a run fails if there are unskipped
\* properties without proofs (conductor.py 542).  It does not: a property that was
\* moved to another step is covered by the name in an entry that no longer selects it.
CompleteMeansProved == CheckedComplete => selected \subseteq Inductive[ver]

\* Every entry of a strategy file was there from the start or was proved for a
\* design that was being worked on: nothing an engine refuted, gave up on or was
\* killed over is ever stored.
Earned(e) == \/ \E s \in Steps : e \in Strategies0[s].proofs
             \/ \E v \in seen : \A q \in e.props :
                  q \in Inductive[v] /\ StepOf[v][q] = e.step
StrategiesEarned == \A s \in Steps : \A e \in strategies[s].proofs : Earned(e)

\* Storing the proofs of a step keeps the ones already stored, over any number
\* of runs and interrupted writes, unless --fresh asks to forget them or the file
\* could not be read when the step was loaded.
StoreKeepsProofs ==
  [][\A s \in Steps : saved[s] \subseteq saved'[s] \/ args.fresh \/ IsNone(loaded)]_vars
=============================================================================
