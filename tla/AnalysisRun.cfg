CONSTANTS
  r1 = r1
  r2 = r2
  text = text
  binary = binary
  withNul = withNul
  Nothing = Nothing
  AsRead <- MCAsRead
  None = None
  LogNames = {l1, l2, l3}
  MaxRuns = 2
  Texts <- MCTexts
  Binary <- binary
  Requests <- MCRequests
  ChildTools <- MCChildTools
  Procs <- MCProcs
  Disk <- MCDisk
  JsonNames <- MCJsonNames
  AnalyzerPrints <- MCAnalyzerPrints
  Loads <- AllLoads
SYMMETRY LogSymmetry
SPECIFICATION Spec
INVARIANTS
  TypeOK
  SourcesRight
  DependenciesFiltered
  ArgumentsReachAnalyzer
  LogIsOwn
  OutputsComplete
  NothingLeftBehind
  PeerStreamIntact
  FailuresContained
  SummaryIsTrue
