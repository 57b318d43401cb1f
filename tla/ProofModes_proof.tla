--------------------------- MODULE ProofModes_proof ---------------------------
(* A complete run of conductor.py that ends with 0 has proved every selected   *)
(* property whose stored proof is under its own step, and stored strategies are *)
(* earned and kept: for every set of properties, every number of steps and      *)
(* designs, and every sequence of runs, edits and interruptions.                *)
EXTENDS ProofModes, TLAPS

Exploring == {"build", "store", "dump", "rerun"}

\* Which mode a phase belongs to, and where the loop over the steps is.
PhaseOK == /\ phase # "idle" => exit_code = "none"
           /\ phase \in {"prove", "run"} => args.mode = "prove"
           /\ phase \in {"explore"} \cup Exploring => args.mode = "explore"
           /\ phase \in {"bmc", "info"} => args.mode # "prove"
           /\ phase \in Exploring => step \in Steps

\* A file that cannot be read offers no proofs, and the entries of a file belong to
\* the step the file is named for.
Filed == \A s \in Steps : /\ strategies[s].state # "ok" => strategies[s].proofs = {}
                          /\ \A e \in strategies[s].proofs : e.step = s

\* What prove_mode has gathered comes from the files from --start on, and leaves
\* none of them out.
Gathered ==
  phase \in {"prove", "run"} =>
    /\ args.fresh => all_strategies = {}
    /\ \A e \in all_strategies : \E s \in Steps : s >= args.start /\ e \in strategies[s].proofs
    /\ ~args.fresh => \A s \in Steps :
         args.start <= s /\ s < step => strategies[s].proofs \subseteq all_strategies

\* While the proofs run: what is covered, and that those already finished without
\* an error are proved.
ProvedSoFar ==
  phase = "run" =>
    /\ ~args.by_step /\ step > MaxStep[ver]
    /\ args.check_complete => selected \subseteq Covered(all_strategies)
    /\ ~has_errors => \A e \in all_strategies \ todo : Kept(e) \subseteq Inductive[ver]

AtStart == phase \in {"idle", "select"} => step = 0 /\ all_strategies = {}

\* What is being built is for the step at hand, and was earned.
WorkEarned == \A e \in strategy : Earned(e)

WorkFiled ==
  /\ phase \in Exploring => \A e \in strategy : e.step = step
  /\ phase = "build" => \A e \in todo : \E q \in Exists[ver] :
       e = [step |-> step, props |-> {q}] /\ StepOf[ver][q] = step

\* A file that can be read is the last one saved, and the strategy at hand
\* contains what was saved for its step.
KeepsOK == /\ \A s \in Steps : strategies[s].state = "ok" => strategies[s].proofs = saved[s]
           /\ phase \in Exploring /\ ~IsNone(loaded) => saved[step] \subseteq strategy

IInv == /\ TypeOK /\ ProveIsSound /\ StrategiesEarned
        /\ PhaseOK /\ Filed /\ AtStart /\ Gathered /\ ProvedSoFar
        /\ WorkEarned /\ WorkFiled /\ KeepsOK

FileFacts == /\ Absent \in Files /\ Corrupt \in Files
             /\ \A E \in SUBSET Entries : File(E) \in Files

LEMMA FilesOK == FileFacts
  BY DEF FileFacts, Files, Absent, Corrupt, File

LEMMA FileFields ==
  /\ IsNone(Absent)
  /\ Absent.proofs = {} /\ Corrupt.proofs = {} /\ Corrupt.state = "corrupt"
  /\ \A E : File(E).state = "ok" /\ File(E).proofs = E
  /\ \A f \in Files : f.proofs \subseteq Entries
  BY DEF Absent, Corrupt, File, IsNone, Files

\* The steps of the present design are among the steps that have a file.
LEMMA StepsOK == ASSUME TypeOK
                 PROVE  /\ MaxStep[ver] \in Nat
                        /\ \A s \in Nat : s <= MaxStep[ver] => s \in Steps
                        /\ Steps \subseteq Nat
                        /\ Exists[ver] \subseteq Props /\ Inductive[ver] \subseteq Exists[ver]
                        /\ StepOf[ver] \in [Exists[ver] -> 0..MaxStep[ver]]
<1>1. ver \in Versions
  BY DEF TypeOK
<1>2. MaxStep[ver] \in Nat
  BY <1>1, ModesAssumption
<1>3. \A v \in Versions : 0..MaxStep[v] \subseteq Nat
  BY ModesAssumption
<1> QED BY <1>1, <1>2, <1>3, ModesAssumption DEF Steps

LEMMA LoadOK == ASSUME TypeOK, NEW s \in Steps
                PROVE  /\ load_strategy(s) \in Files
                       /\ load_strategy(s).proofs \subseteq Entries
                       /\ \/ load_strategy(s) = Absent /\ args.fresh
                          \/ load_strategy(s) = strategies[s] /\ ~args.fresh
  BY FilesOK DEF TypeOK, load_strategy, FileFacts, Files

LEMMA FiledIs ==
  ASSUME Filed, NEW s \in Steps
  PROVE  /\ strategies[s].state # "ok" => strategies[s].proofs = {}
         /\ \A e \in strategies[s].proofs : e.step = s
  BY Zenon DEF Filed

LEMMA InitOK == Init => IInv
<1> SUFFICES ASSUME Init PROVE IInv
  OBVIOUS
<1>1. TypeOK
  BY ModesAssumption, FilesOK, FileFields DEF Init, TypeOK, Phases, FileFacts
<1>2. StrategiesEarned
  BY DEF Init, StrategiesEarned, Earned
<1>3. Filed
  BY ModesAssumption DEF Init, Filed
<1> QED BY <1>1, <1>2, <1>3, FileFields
    DEF Init, IInv, ProveIsSound, CheckedComplete, PhaseOK, Gathered, ProvedSoFar, WorkEarned,
        WorkFiled, KeepsOK, Exploring, AtStart

\* What ProveIsSound asks of a run that ends well.
Sound == \A q \in selected : /\ Named(q, Nat)
                             /\ Named(q, {StepOf[ver][q]}) => q \in Inductive[ver]

\* Whatever ends a run leaves the files alone and nothing to prove about locals.
LEMMA EndsOK == ASSUME IInv, NEW code \in {"0", "1", "raised", "crash"}, Ends(code),
                       code = "0" /\ args.mode = "prove" /\ args.check_complete /\ ~args.by_step
                         => Sound
                PROVE  IInv'
<1>0. /\ phase' = "idle" /\ exit_code' = code /\ step' = 0 /\ strategy' = {} /\ todo' = {}
      /\ all_strategies' = {} /\ has_errors' = FALSE /\ loaded' = Absent
      /\ UNCHANGED <<ver, strategies, saved, args, selected, seen>>
  BY DEF Ends, files
<1>1. TypeOK'
  BY <1>0, FilesOK DEF IInv, TypeOK, FileFacts, Phases
<1>2. ProveIsSound'
  BY <1>0 DEF ProveIsSound, CheckedComplete, Sound, Named
<1>3. StrategiesEarned' /\ Filed'
  BY <1>0 DEF IInv, StrategiesEarned, Earned, Filed
<1>4. PhaseOK' /\ Gathered' /\ ProvedSoFar' /\ WorkEarned' /\ WorkFiled' /\ KeepsOK' /\ AtStart'
  BY <1>0, FileFields
  DEF IInv, AtStart, PhaseOK, Gathered, ProvedSoFar, WorkEarned, WorkFiled, KeepsOK, Exploring
<1> QED BY <1>1, <1>2, <1>3, <1>4 DEF IInv

LEMMA CrashOK == ASSUME IInv, Crash PROVE IInv'
  BY EndsOK DEF Crash

\* Between two runs there is nothing at hand.
LEMMA IdleOK == ASSUME IInv, phase = "idle", TypeOK', exit_code' = "none",
                       phase' \in {"idle", "select"}, seen \subseteq seen',
                       UNCHANGED <<strategies, saved, step, strategy, todo, all_strategies,
                                   has_errors, loaded>>
                PROVE  IInv'
<1>1. ProveIsSound'
  BY DEF ProveIsSound, CheckedComplete
<1>2. StrategiesEarned' /\ WorkEarned' /\ Filed'
  BY DEF IInv, StrategiesEarned, WorkEarned, Earned, Filed
<1>3. PhaseOK' /\ Gathered' /\ ProvedSoFar' /\ WorkFiled' /\ KeepsOK' /\ AtStart'
  BY DEF IInv, AtStart, PhaseOK, Gathered, ProvedSoFar, WorkFiled, KeepsOK, Exploring
<1> QED BY <1>1, <1>2, <1>3 DEF IInv

LEMMA EditOK == ASSUME IInv, NEW v \in Versions, Edit(v) PROVE IInv'
<1>1. TypeOK'
  BY DEF IInv, TypeOK, Edit, files, locals
<1> QED BY <1>1, IdleOK DEF Edit, files, locals

LEMMA LaunchOK == ASSUME IInv, NEW a \in ArgSets, Launch(a) PROVE IInv'
<1>1. TypeOK'
  BY DEF IInv, TypeOK, Launch, files, locals, Phases
<1> QED BY <1>1, IdleOK DEF Launch, files, locals

\* A step that changes neither the design, nor the files, nor what ProveIsSound
\* and Earned speak of.
LEMMA QuietOK == ASSUME IInv, UNCHANGED <<ver, files, args, exit_code, selected, seen>>
                 PROVE  /\ ProveIsSound' /\ StrategiesEarned' /\ Filed'
                        /\ strategy' = strategy => WorkEarned'
                        /\ \A s \in Steps : strategies'[s].state = "ok"
                                             => strategies'[s].proofs = saved'[s]
                        /\ \A e : Earned(e)' <=> Earned(e)
<1> USE DEF IInv, files
<1>1. ProveIsSound'
  BY DEF ProveIsSound, CheckedComplete, Named
<1>2. \A e : Earned(e)' <=> Earned(e)
  BY DEF Earned
<1>3. StrategiesEarned' /\ Filed' /\ (strategy' = strategy => WorkEarned')
  BY <1>2 DEF StrategiesEarned, WorkEarned, Filed
<1> QED BY <1>1, <1>2, <1>3 DEF KeepsOK

LEMMA SelectOK == ASSUME IInv, Select PROVE IInv'
<1>1. CASE args.properties \subseteq Exists[ver]
  <2>0. /\ phase = "select" /\ phase' = args.mode /\ selected' = Chosen \ SKIPPED_PROPS
        /\ UNCHANGED <<ver, strategies, saved, args, exit_code, step, strategy, todo,
                       all_strategies, has_errors, loaded, seen>>
    BY <1>1 DEF Select, files, locals
  <2>1. Chosen \subseteq Exists[ver]
    BY <1>1 DEF Chosen, missing_from
  <2>2. args.mode \in {"prove", "explore", "bmc", "info"} /\ args.start \in Nat
    BY ModesAssumption DEF IInv, TypeOK, ArgType
  <2>3. TypeOK'
    BY <2>0, <2>1, <2>2 DEF IInv, TypeOK, Phases
  <2>4. exit_code = "none"
    BY <2>0 DEF IInv, PhaseOK
  <2>5. ProveIsSound'
    BY <2>0, <2>4 DEF ProveIsSound, CheckedComplete
  <2>6. StrategiesEarned' /\ WorkEarned' /\ Filed'
    BY <2>0 DEF IInv, StrategiesEarned, WorkEarned, Earned, Filed
  <2>7. step = 0 /\ all_strategies = {}
    BY <2>0 DEF IInv, AtStart
  <2>8. Gathered'
    BY <2>0, <2>2, <2>7, StepsOK DEF Gathered, IInv
  <2>9. PhaseOK' /\ ProvedSoFar' /\ WorkFiled' /\ KeepsOK' /\ AtStart'
    BY <2>0, <2>2, <2>4
    DEF IInv, PhaseOK, ProvedSoFar, WorkFiled, KeepsOK, Exploring, AtStart
  <2> QED BY <2>3, <2>5, <2>6, <2>8, <2>9 DEF IInv
<1>2. CASE ~(args.properties \subseteq Exists[ver])
  BY <1>2, EndsOK DEF Select
<1> QED BY <1>1, <1>2

LEMMA ProveStepOK == ASSUME IInv, ProveStep PROVE IInv'
<1> DEFINE found == load_strategy(step)
<1>1. /\ phase = "prove" /\ step <= MaxStep[ver] /\ step' = step + 1 /\ step \in Nat
      /\ all_strategies' = IF step < args.start \/ IsNone(found) THEN all_strategies
                           ELSE all_strategies \cup found.proofs
      /\ UNCHANGED <<ver, files, args, phase, exit_code, selected, strategy, todo, has_errors,
                     loaded, seen>>
  BY DEF ProveStep, IInv, TypeOK
<1>2. step \in Steps /\ Steps \subseteq Nat
  BY <1>1, StepsOK DEF IInv
<1>3. /\ found.proofs \subseteq Entries
      /\ \/ found = Absent /\ args.fresh
         \/ found = strategies[step] /\ ~args.fresh
  BY <1>2, LoadOK DEF IInv
<1>4. args.start \in Nat
  BY ModesAssumption DEF IInv, TypeOK, ArgType
<1> HIDE DEF found
<1>5. TypeOK'
  BY <1>1, <1>3 DEF IInv, TypeOK, files
<1>6. ProveIsSound' /\ StrategiesEarned' /\ WorkEarned' /\ Filed'
  BY <1>1, QuietOK
<1>7. Gathered'
  <2>1. args.fresh => all_strategies' = {}
    BY <1>1, <1>3, FileFields DEF IInv, Gathered
  <2>2. ASSUME NEW e \in all_strategies'
        PROVE  \E s \in Steps : s >= args.start /\ e \in strategies[s].proofs
    <3>1. CASE e \in all_strategies
      BY <1>1, <3>1 DEF IInv, Gathered
    <3>2. CASE e \notin all_strategies
      <4>1. ~(step < args.start) /\ e \in found.proofs /\ ~IsNone(found)
        BY <1>1, <3>2
      <4>2. e \in strategies[step].proofs
        BY <4>1, <1>3, FileFields
      <4> QED BY <4>1, <4>2, <1>1, <1>2, <1>4
    <3> QED BY <3>1, <3>2
  <2>3. ASSUME ~args.fresh, NEW s \in Steps, args.start <= s, s < step + 1
        PROVE  strategies[s].proofs \subseteq all_strategies'
    <3>1. CASE s < step
      BY <1>1, <2>3, <3>1 DEF IInv, Gathered
    <3>2. CASE s = step
      <4>1. found = strategies[s]
        BY <1>3, <2>3, <3>2
      <4>2. IsNone(found) => found.proofs = {}
        BY <4>1 DEF IInv, Filed, IsNone
      <4> QED BY <1>1, <1>2, <1>4, <2>3, <3>2, <4>1, <4>2
    <3> QED BY <1>1, <1>2, <2>3, <3>1, <3>2
  <2> QED BY <1>1, <2>1, <2>2, <2>3 DEF Gathered, files
<1>8. PhaseOK' /\ ProvedSoFar' /\ WorkFiled' /\ KeepsOK' /\ AtStart'
  BY <1>1, QuietOK
  DEF IInv, PhaseOK, ProvedSoFar, WorkFiled, KeepsOK, Exploring, files, AtStart
<1> QED BY <1>5, <1>6, <1>7, <1>8 DEF IInv

LEMMA ProveCompleteOK == ASSUME IInv, ProveComplete PROVE IInv'
<1>1. CASE args.check_complete /\ uncovered # {}
  BY <1>1, EndsOK DEF ProveComplete
<1>2. CASE ~(args.check_complete /\ uncovered # {}) /\ args.by_step
  BY <1>2, EndsOK DEF ProveComplete
<1>3. CASE ~(args.check_complete /\ uncovered # {}) /\ ~args.by_step
  <2>1. /\ phase = "prove" /\ step > MaxStep[ver] /\ phase' = "run" /\ todo' = all_strategies
        /\ UNCHANGED <<ver, files, args, exit_code, selected, step, strategy, all_strategies,
                       has_errors, loaded, seen>>
    BY <1>3 DEF ProveComplete
  <2>2. TypeOK'
    BY <2>1 DEF IInv, TypeOK, files, Phases
  <2>3. ProveIsSound' /\ StrategiesEarned' /\ WorkEarned' /\ Filed'
    BY <2>1, QuietOK
  <2>4. ProvedSoFar'
    BY <1>3, <2>1 DEF ProvedSoFar, uncovered, missing_from, Covered
  <2>5. Gathered'
    BY <2>1 DEF IInv, Gathered, files
  <2>6. PhaseOK' /\ WorkFiled' /\ KeepsOK' /\ AtStart'
    BY <2>1, QuietOK DEF IInv, PhaseOK, WorkFiled, KeepsOK, Exploring, files, AtStart
  <2> QED BY <2>2, <2>3, <2>4, <2>5, <2>6 DEF IInv
<1> QED BY <1>1, <1>2, <1>3

LEMMA ProveOneOK == ASSUME IInv, NEW e \in todo, ProveOne(e) PROVE IInv'
<1>1. PICK code \in EngineAnswers(e) : has_errors' = (has_errors \/ Failed(code))
  BY DEF ProveOne
<1>2. /\ phase = "run" /\ todo' = todo \ {e}
      /\ UNCHANGED <<ver, files, args, phase, exit_code, selected, step, strategy,
                     all_strategies, loaded, seen>>
  BY DEF ProveOne
<1>3. ~has_errors' => ~has_errors /\ Kept(e) \subseteq Inductive[ver]
  BY <1>1 DEF EngineAnswers, Failed
<1>4. TypeOK'
  BY <1>1, <1>2 DEF IInv, TypeOK, files, Failed
<1>5. ProveIsSound' /\ StrategiesEarned' /\ WorkEarned' /\ Filed'
  BY <1>2, QuietOK
<1>6. ProvedSoFar'
  <2>1. \A x : Kept(x)' = Kept(x)
    BY <1>2 DEF Kept
  <2> QED BY <1>2, <1>3, <2>1 DEF IInv, ProvedSoFar
<1>7. Gathered'
  BY <1>2 DEF IInv, Gathered, files
<1>8. PhaseOK' /\ WorkFiled' /\ KeepsOK' /\ AtStart'
  BY <1>2, QuietOK DEF IInv, PhaseOK, WorkFiled, KeepsOK, Exploring, files, AtStart
<1> QED BY <1>4, <1>5, <1>6, <1>7, <1>8 DEF IInv

\* All proofs have ended without an error: an entry that names a property under its
\* own step has been run, and kept it.
LEMMA ProveJudgeOK == ASSUME IInv, ProveJudge PROVE IInv'
<1>1. CASE has_errors
  BY <1>1, EndsOK DEF ProveJudge
<1>2. CASE ~has_errors
  <2>1. ASSUME args.check_complete PROVE Sound
    <3>0. /\ phase = "run" /\ todo = {} /\ step > MaxStep[ver] /\ step \in Nat
          /\ selected \subseteq Covered(all_strategies)
      BY <2>1 DEF ProveJudge, IInv, ProvedSoFar, TypeOK
    <3>1. \A x \in all_strategies : Kept(x) \subseteq Inductive[ver]
      BY <1>2, <3>0 DEF IInv, ProvedSoFar
    <3>2. SUFFICES ASSUME NEW q \in selected
                   PROVE  /\ Named(q, Nat)
                          /\ Named(q, {StepOf[ver][q]}) => q \in Inductive[ver]
      BY DEF Sound
    <3>3. PICK x \in all_strategies : q \in x.props
      BY <3>0 DEF Covered
    <3>4. x \in Entries /\ q \in Exists[ver]
      BY DEF IInv, TypeOK
    <3>5. PICK s \in Steps : s >= args.start /\ x \in strategies[s].proofs
      BY <3>0 DEF IInv, Gathered
    <3>6. Named(q, Nat)
      BY <3>3, <3>4, <3>5 DEF Named, Entries
    <3>7. ASSUME Named(q, {StepOf[ver][q]}) PROVE q \in Inductive[ver]
      <4>1. PICK t \in Steps : \E y \in strategies[t].proofs :
              t >= args.start /\ q \in y.props /\ y.step = StepOf[ver][q]
        BY <3>7 DEF Named
      <4>a. PICK y \in strategies[t].proofs :
              t >= args.start /\ q \in y.props /\ y.step = StepOf[ver][q]
        BY <4>1
      <4>2. y.step = t
        BY <4>1, <4>a, FiledIs DEF IInv
      <4>3. StepOf[ver][q] \in 0..MaxStep[ver] /\ MaxStep[ver] \in Nat
        BY <3>4, StepsOK DEF IInv
      <4>4. ~args.fresh
        BY <3>0, <3>3 DEF IInv, Gathered
      <4>5. t < step
        BY <3>0, <4>a, <4>2, <4>3
      <4>6. t \in Nat /\ args.start \in Nat
        BY <4>a, <4>2, <4>3, ModesAssumption DEF IInv, TypeOK, ArgType
      <4>7. y \in all_strategies
        BY <3>0, <4>a, <4>4, <4>5, <4>6 DEF IInv, Gathered
      <4>8. q \in Kept(y)
        BY <3>4, <4>a DEF Kept
      <4> QED BY <3>1, <4>7, <4>8
    <3> QED BY <3>6, <3>7
  <2> QED BY <1>2, <2>1, EndsOK DEF ProveJudge
<1> QED BY <1>1, <1>2

LEMMA ExploreStepOK == ASSUME IInv, ExploreStep PROVE IInv'
<1>0. /\ phase = "explore" /\ step <= MaxStep[ver] /\ step \in Nat
      /\ UNCHANGED <<ver, files, args, exit_code, selected, all_strategies, has_errors, seen>>
  BY DEF ExploreStep, IInv, TypeOK
<1>a. step \in Steps
  BY <1>0, StepsOK DEF IInv
<1>1. CASE step < args.start
  <2>1. step' = step + 1 /\ UNCHANGED <<phase, loaded, strategy, todo>>
    BY <1>1 DEF ExploreStep
  <2>2. TypeOK'
    BY <1>0, <2>1 DEF IInv, TypeOK, files
  <2>3. ProveIsSound' /\ StrategiesEarned' /\ WorkEarned' /\ Filed'
    BY <1>0, <2>1, QuietOK
  <2>4. PhaseOK' /\ Gathered' /\ ProvedSoFar' /\ WorkFiled' /\ KeepsOK' /\ AtStart'
    BY <1>0, <2>1, QuietOK
    DEF IInv, PhaseOK, Gathered, ProvedSoFar, WorkFiled, KeepsOK, Exploring, files, AtStart
  <2> QED BY <2>2, <2>3, <2>4 DEF IInv
<1>2. CASE ~(step < args.start)
  <2> DEFINE found == load_strategy(step)
             not_done == missing_from(found.proofs, by_step(step))
  <2>1. /\ loaded' = found /\ strategy' = found.proofs
        /\ todo' = {[step |-> step, props |-> {q}] : q \in not_done}
        /\ phase' \in {"rerun", "build"} /\ step' = step
    BY <1>2 DEF ExploreStep
  <2>2. /\ found \in Files /\ found.proofs \subseteq Entries
        /\ found = Absent \/ found = strategies[step]
    BY <1>a, LoadOK DEF IInv
  <2>3. \A q \in not_done : q \in Exists[ver] /\ q \in Props /\ StepOf[ver][q] = step
    <3>1. selected \subseteq Exists[ver] /\ Exists[ver] \subseteq Props
      BY StepsOK DEF IInv, TypeOK
    <3> QED BY <3>1 DEF missing_from, by_step
  <2> HIDE DEF found, not_done
  <2>t. todo' \subseteq Entries
    <3>1. \A q \in not_done : {q} \in (SUBSET Props) \ {{}}
      BY <2>3
    <3>2. \A q \in not_done : [step |-> step, props |-> {q}] \in Entries
      BY <1>0, <3>1 DEF Entries
    <3> QED BY <2>1, <3>2
  <2>4. TypeOK'
    BY <1>0, <2>1, <2>2, <2>t DEF IInv, TypeOK, files, Phases
  <2>5. ProveIsSound' /\ StrategiesEarned' /\ Filed'
    BY <1>0, QuietOK
  <2>6. WorkEarned'
    <3>1. \A e \in found.proofs : Earned(e)
      BY <1>a, <2>2, FileFields DEF IInv, StrategiesEarned
    <3> QED BY <1>0, <2>1, <3>1, QuietOK DEF WorkEarned
  <2>w. WorkFiled'
    <3>1. \A e \in found.proofs : e.step = step
      BY <1>a, <2>2, FileFields, FiledIs DEF IInv
    <3> QED BY <1>0, <2>1, <2>3, <3>1 DEF WorkFiled
  <2>7. PhaseOK' /\ Gathered' /\ ProvedSoFar' /\ AtStart'
    BY <1>0, <1>a, <2>1 DEF IInv, PhaseOK, Gathered, ProvedSoFar, Exploring, AtStart
  <2>8. KeepsOK'
    <3>1. ~IsNone(found) => found.proofs = saved[step]
      BY <1>a, <2>2, FileFields DEF IInv, KeepsOK, IsNone
    <3>2. IsNone(loaded)' <=> IsNone(found)
      BY <2>1 DEF IsNone
    <3>3. \A s \in Steps : strategies'[s].state = "ok" => strategies'[s].proofs = saved'[s]
      BY <1>0, QuietOK
    <3> QED BY <1>0, <2>1, <3>1, <3>2, <3>3 DEF KeepsOK, files
  <2> QED BY <2>4, <2>5, <2>6, <2>w, <2>7, <2>8 DEF IInv
<1> QED BY <1>1, <1>2

\* A proof found for one property of the step is a proof of that property, because
\* the design has it in that step.
LEMMA BuildOneOK == ASSUME IInv, NEW e \in todo, BuildOne(e) PROVE IInv'
<1>1. CASE RaceRaises(Racers)
  BY <1>1, EndsOK DEF BuildOne
<1>2. CASE ~RaceRaises(Racers)
  <2>1. PICK code \in EngineAnswers(e) :
          strategy' = strategy \cup (IF Proven(code) THEN {e} ELSE {})
    BY <1>2 DEF BuildOne
  <2>2. /\ phase = "build" /\ todo' = todo \ {e}
        /\ UNCHANGED <<ver, files, args, phase, exit_code, selected, step, all_strategies,
                       has_errors, loaded, seen>>
    BY <1>2 DEF BuildOne
  <2>3. ver \in seen /\ e \in Entries
    BY DEF IInv, TypeOK
  <2>4. PICK q \in Exists[ver] : e = [step |-> step, props |-> {q}] /\ StepOf[ver][q] = step
    BY <2>2 DEF IInv, WorkFiled
  <2>5. Proven(code) => Earned(e)
    <3>1. e.step = step /\ e.props = {q} /\ q \in Kept(e)
      BY <2>4 DEF Kept
    <3>2. Proven(code) => q \in Inductive[ver]
      BY <2>1, <3>1 DEF EngineAnswers, Proven
    <3> QED BY <2>3, <2>4, <3>1, <3>2 DEF Earned
  <2>6. TypeOK'
    BY <2>1, <2>2, <2>3 DEF IInv, TypeOK, files
  <2>7. ProveIsSound' /\ StrategiesEarned' /\ Filed'
    BY <2>2, QuietOK
  <2>8. WorkEarned'
    BY <2>1, <2>2, <2>5, QuietOK DEF IInv, WorkEarned
  <2>9. WorkFiled'
    BY <2>1, <2>2, <2>4 DEF IInv, WorkFiled, Exploring
  <2>10. PhaseOK' /\ Gathered' /\ ProvedSoFar' /\ AtStart'
    BY <2>2 DEF IInv, PhaseOK, Gathered, ProvedSoFar, Exploring, AtStart
  <2>11. KeepsOK'
    BY <2>1, <2>2, QuietOK DEF IInv, KeepsOK, Exploring, IsNone, files
  <2> QED BY <2>6, <2>7, <2>8, <2>9, <2>10, <2>11 DEF IInv
<1> QED BY <1>1, <1>2

LEMMA BuiltOK == ASSUME IInv, Built PROVE IInv'
<1>1. /\ phase = "build" /\ phase' \in {"rerun", "store"}
      /\ UNCHANGED <<ver, files, args, exit_code, selected, locals, seen>>
  BY DEF Built
<1>2. TypeOK'
  BY <1>1 DEF IInv, TypeOK, files, locals, Phases
<1>3. ProveIsSound' /\ StrategiesEarned' /\ WorkEarned' /\ Filed'
  BY <1>1, QuietOK DEF locals
<1>4. PhaseOK' /\ Gathered' /\ ProvedSoFar' /\ WorkFiled' /\ AtStart'
  BY <1>1
  DEF IInv, PhaseOK, Gathered, ProvedSoFar, WorkFiled, Exploring, locals, AtStart
<1>5. KeepsOK'
  BY <1>1, QuietOK DEF IInv, KeepsOK, Exploring, IsNone, files, locals
<1> QED BY <1>2, <1>3, <1>4, <1>5 DEF IInv

LEMMA RerunOK == ASSUME IInv, Rerun PROVE IInv'
<1>1. /\ phase = "rerun" /\ phase' = "explore" /\ step' = step + 1
      /\ UNCHANGED <<ver, files, args, exit_code, selected, strategy, todo, all_strategies,
                     has_errors, loaded, seen>>
  BY DEF Rerun
<1>2. TypeOK'
  BY <1>1 DEF IInv, TypeOK, files, Phases
<1>3. ProveIsSound' /\ StrategiesEarned' /\ WorkEarned' /\ Filed'
  BY <1>1, QuietOK
<1>4. PhaseOK' /\ Gathered' /\ ProvedSoFar' /\ WorkFiled' /\ KeepsOK' /\ AtStart'
  BY <1>1, QuietOK
  DEF IInv, PhaseOK, Gathered, ProvedSoFar, WorkFiled, KeepsOK, Exploring, files, AtStart
<1> QED BY <1>2, <1>3, <1>4 DEF IInv

LEMMA StoreOK == ASSUME IInv, StoreOpen \/ StoreDump PROVE IInv'
<1>0. /\ phase \in {"store", "dump"} /\ phase' \in {"dump", "rerun"} /\ step \in Steps
      /\ UNCHANGED <<ver, args, exit_code, selected, step, strategy, todo, all_strategies,
                     has_errors, loaded, seen>>
  BY DEF StoreOpen, StoreDump, locals, files, IInv, PhaseOK, Exploring
<1>1. \/ UNCHANGED <<strategies, saved>>
      \/ strategies' = [strategies EXCEPT ![step] = Corrupt] /\ saved' = saved
      \/ /\ strategies' = [strategies EXCEPT ![step] = File(strategy)]
         /\ saved' = [saved EXCEPT ![step] = strategy]
  BY DEF StoreOpen, StoreDump, Dumped, files
<1>2. TypeOK'
  BY <1>0, <1>1, FilesOK DEF IInv, TypeOK, Phases, FileFacts
<1>3. exit_code = "none"
  BY <1>0 DEF IInv, PhaseOK
<1>4. ProveIsSound' /\ WorkEarned' /\ WorkFiled' /\ ProvedSoFar' /\ PhaseOK' /\ Gathered'
      /\ AtStart'
  BY <1>0, <1>3
  DEF IInv, ProveIsSound, CheckedComplete, WorkEarned, WorkFiled, Earned, ProvedSoFar, PhaseOK,
      Gathered, Exploring, AtStart
<1>5. \A s \in Steps : \/ strategies'[s] = strategies[s] \/ strategies'[s] = Corrupt
                       \/ s = step /\ strategies'[s] = File(strategy)
  BY <1>0, <1>1 DEF IInv, TypeOK
<1>6. ASSUME NEW s \in Steps PROVE \A e \in strategies'[s].proofs : Earned(e)'
  <2>1. \A e : Earned(e)' <=> Earned(e)
    BY <1>0 DEF Earned
  <2> QED BY <2>1, <1>5, FileFields DEF IInv, StrategiesEarned, WorkEarned
<1>7. StrategiesEarned'
  BY <1>6 DEF StrategiesEarned
<1>8. Filed'
  <2>1. \A e \in strategy : e.step = step
    BY <1>0 DEF IInv, WorkFiled, Exploring
  <2> SUFFICES ASSUME NEW s \in Steps
               PROVE  /\ strategies'[s].state # "ok" => strategies'[s].proofs = {}
                      /\ \A e \in strategies'[s].proofs : e.step = s
    BY DEF Filed
  <2>2. CASE strategies'[s] = strategies[s]
    BY <2>2, FiledIs DEF IInv
  <2>3. CASE strategies'[s] = Corrupt
    BY <2>3, FileFields
  <2>4. CASE s = step /\ strategies'[s] = File(strategy)
    BY <2>1, <2>4, FileFields
  <2> QED BY <1>5, <2>2, <2>3, <2>4
<1>9. ASSUME NEW s \in Steps
      PROVE  strategies'[s].state = "ok" => strategies'[s].proofs = saved'[s]
  BY <1>0, <1>1, FileFields DEF IInv, TypeOK, KeepsOK
<1>10. ~IsNone(loaded)' => saved'[step'] \subseteq strategy'
  BY <1>0, <1>1 DEF IInv, TypeOK, KeepsOK, Exploring, IsNone
<1>11. KeepsOK'
  BY <1>9, <1>10 DEF KeepsOK
<1> QED BY <1>2, <1>4, <1>7, <1>8, <1>11 DEF IInv

LEMMA OtherEndsOK == ASSUME IInv, ExploreEnd \/ Bmc \/ Info PROVE IInv'
<1>1. args.mode # "prove"
  BY DEF ExploreEnd, Bmc, Info, IInv, PhaseOK
<1> QED BY <1>1, EndsOK DEF ExploreEnd, Bmc, Info

LEMMA StutterOK == ASSUME IInv, UNCHANGED vars PROVE IInv'
<1>1. UNCHANGED <<ver, files, args, phase, exit_code, selected, step, strategy, todo,
                  all_strategies, has_errors, loaded, seen>>
  BY DEF vars, locals
<1>2. TypeOK'
  BY <1>1 DEF IInv, TypeOK, files
<1>3. ProveIsSound' /\ StrategiesEarned' /\ WorkEarned' /\ Filed'
  BY <1>1, QuietOK
<1>4. PhaseOK' /\ Gathered' /\ WorkFiled' /\ KeepsOK' /\ AtStart'
  BY <1>1 DEF IInv, PhaseOK, Gathered, WorkFiled, KeepsOK, IsNone, files, AtStart
<1>5. ProvedSoFar'
  BY <1>1 DEF IInv, ProvedSoFar, Kept
<1> QED BY <1>2, <1>3, <1>4, <1>5 DEF IInv

LEMMA StepOK == IInv /\ [Next]_vars => IInv'
  BY EditOK, LaunchOK, CrashOK, SelectOK, ProveStepOK, ProveCompleteOK, ProveOneOK,
     ProveJudgeOK, ExploreStepOK, BuildOneOK, BuiltOK, StoreOK, RerunOK, OtherEndsOK, StutterOK
     DEF Next, Run, Interrupt

LEMMA InvHolds == Spec => []IInv
  BY InitOK, StepOK, PTL DEF Spec

\* A prove run with --check-complete (and without --by-step) that exits with 0
\* found a stored proof for every property it selected, and has proved those whose
\* stored proof is under their own step, on the design it ran on
\* (conductor.py 627-674, 723-788; aig-manip/src/main.rs 113-167).
THEOREM ProveModeSound == Spec => []ProveIsSound
<1>1. IInv => ProveIsSound
  BY DEF IInv
<1> QED BY <1>1, InvHolds, PTL

\* Nothing is stored in a strategy file that was not proved (conductor.py
\* 393-428, 574-586, 676-698).
THEOREM StoredProofsEarned == Spec => []StrategiesEarned
<1>1. IInv => StrategiesEarned
  BY DEF IInv
<1> QED BY <1>1, InvHolds, PTL

\* Storing a strategy never forgets proofs that could be read, over any number
\* of interrupted runs (conductor.py 555-586, 676-698).
THEOREM StoringKeepsProofs == Spec => StoreKeepsProofs
<1> DEFINE Keeps == \A s \in Steps : saved[s] \subseteq saved'[s] \/ args.fresh \/ IsNone(loaded)
<1>1. IInv /\ [Next]_vars => [Keeps]_vars
  <2> SUFFICES ASSUME IInv, Next PROVE Keeps
    OBVIOUS
  <2>1. CASE StoreDump
    <3>1. phase = "dump" /\ (saved' = saved \/ saved' = [saved EXCEPT ![step] = strategy])
      BY <2>1 DEF StoreDump, Dumped, files
    <3> QED BY <3>1 DEF IInv, TypeOK, KeepsOK, Exploring
  <2>2. CASE ~StoreDump
    <3>1. saved' = saved
      BY <2>2 DEF Next, Run, Edit, Launch, Interrupt, Crash, Ends, Select, ProveStep,
         ProveComplete, ProveOne, ProveJudge, ExploreStep, BuildOne, Built, StoreOpen, Rerun,
         ExploreEnd, Bmc, Info, files
    <3> QED BY <3>1
  <2> QED BY <2>1, <2>2
<1> QED BY <1>1, InvHolds, PTL DEF Spec, StoreKeepsProofs
=============================================================================
