\* Every payload spec of the bound with good and bad configurations, and every pair of a
\* run and its re-run, either of them killed while it writes.
SPECIFICATION RowsSpec
CONSTANTS
  Configs <- MCConfigs
  Lists <- MCLists
  Derived <- MCDerived
  RowSets <- MCRowSets
  QuotesLoneCR = {"first"}
INVARIANTS
  RowsAreAccepted
  BenignIsIntact
  RoundTrip
  EqualMeansReproduced
  EqualMeansSameSummary
CHECK_DEADLOCK FALSE
