SPECIFICATION Spec
CONSTANTS
  Files = {}
  VcsVersions = {}
  Requirements = {}
  Regressions <- MCRegressions
  Filters = {}
  Suites = {}
  Commands = {}
  Conversions = {}
  Proofs = {}
  PropertyLists = {}
  CovReports = {}
  Logs = {}
INVARIANT AllMeansAll
CHECK_DEADLOCK FALSE
