SPECIFICATION Spec
CONSTANTS
  a = a  b = b  c = c  d = d  e = e  v1 = v1  v2 = v2
  Props = {a, b, c, d, e}
  SKIPPED_PROPS = {d}
  Versions = {v1, v2}
  Exists <- MCExists
  StepOf <- MCStepOf
  MaxStep <- MCMaxStep
  Inductive <- MCInductive
  ArgSets <- MCArgSets
  Strategies0 <- MCStrategies0
INVARIANT CompleteMeansProved
