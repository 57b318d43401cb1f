SPECIFICATION Spec
CONSTANTS
  Files <- MCFiles
  VcsVersions <- MCVcsVersions
  Requirements <- MCRequirements
  Regressions <- MCRegressions
  Filters <- MCFilters
  Suites <- MCSuites
  Commands <- MCCommands
  Conversions <- MCConversions
  Proofs <- MCProofs
  PropertyLists <- MCPropertyLists
  CovReports <- MCCovReports
  Logs <- MCLogs
INVARIANTS
  ConfigConsistent
  ToolsJudged
  SelectionRight
  GeneratedListReads
  CommandMeant
  AllOrNothing
  ProofInputsSound
  CoverageByColumn
  LogVerdictDeserved
CHECK_DEADLOCK FALSE
