----------------------------- MODULE MCProofModes -----------------------------
(* Two steps; the first has a block of two proved together in the repository.   *)
(* In the second design a is gone, c is false and e has moved to the first step, *)
(* where it cannot be proved; d is skipped.                                      *)
EXTENDS ProofModes, TLC
CONSTANTS a, b, c, d, e, v1, v2
MCExists == (v1 :> {a, b, c, d, e}) @@ (v2 :> {b, c, d, e})
MCStepOf == (v1 :> ((a :> 0) @@ (b :> 0) @@ (c :> 1) @@ (d :> 1) @@ (e :> 1)))
         @@ (v2 :> ((b :> 0) @@ (c :> 1) @@ (d :> 1) @@ (e :> 0)))
MCMaxStep == (v1 :> 1) @@ (v2 :> 1)
MCInductive == (v1 :> {a, b, c, e}) @@ (v2 :> {b})
MCStrategies0 == (0 :> File({[step |-> 0, props |-> {a, b}]})) @@ (1 :> Absent)

Prove == [mode |-> "prove", properties |-> {}, missing |-> FALSE, start |-> 0,
          fresh |-> FALSE, hard |-> FALSE, no_store |-> FALSE, by_step |-> FALSE,
          check_complete |-> TRUE]
Explore == [Prove EXCEPT !.mode = "explore", !.hard = TRUE]
MCArgSets == {Prove, [Prove EXCEPT !.by_step = TRUE], [Prove EXCEPT !.start = 1],
              [Prove EXCEPT !.properties = {a, c}], [Prove EXCEPT !.properties = {b, e}],
              Explore, [Explore EXCEPT !.fresh = TRUE],
              [Explore EXCEPT !.hard = FALSE], [Explore EXCEPT !.missing = TRUE],
              [Explore EXCEPT !.no_store = TRUE, !.start = 1],
              [Prove EXCEPT !.mode = "bmc"], [Prove EXCEPT !.mode = "bmc", !.properties = {a}],
              [Prove EXCEPT !.mode = "info"]}
=============================================================================
