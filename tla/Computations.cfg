SPECIFICATION Spec
CONSTANTS
  MaxResults = 4
  MaxTrace = 3
  MaxLines = 4
  Limit = 3
INVARIANTS
  StatisticsAddUp
  ScoresAreFair
  ModelsAreRanked
  ComparisonsAgree
  TokensAgree
  TracesAreAttributed
  LinesAreUnderstood
  SettingsResolve
CHECK_DEADLOCK FALSE
