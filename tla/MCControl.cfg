CONSTANTS
  c1 = c1
  nan = nan
  NotANumber = nan
  RuleIds = {r1, r2}
  Channels = {c1}
  Definitions <- MCDefinitions
  Results <- MCResults
  MaxPuts = 2
  MaxDeletes = 1
  MaxTrouble = 1
  Admins = {a, b}
  Rates = {0, 2}
  Retentions = {7, 8}
  Base <- MCBase
  Requests = {q1, q2}
  MostEvents = 1
  DailyEvents = 2
  Midnight = 1
  MaxApplies = 2
  MaxClock = 1
  MaxBoots = 1
  Editors = {a, b}
  Workers = {w}
  PipelineIds = {1, 2, 3}
  Pipes <- MCPipes
  SavedBefore <- MCSavedBefore
  Arrivals <- MCArrivals
  PipeTexts <- MCPipeTexts
  Captured <- MCCaptured
  Printed <- MCPrinted
  TimeIn <- MCTimeIn
  LevelIn <- MCLevelIn
  MaxEdits = 2
  MaxReloadFails = 1
  Observers = {o1, o2}
  Scrapers = {s}
  LabelSets = {l}
  Bounds <- MCBounds
  Samples = {1, 2, 5}
  MaxObserves = 2
SPECIFICATION ControlSpec
INVARIANTS ControlTypeOK ToldOnceAndTruly NeitherOverwrites UpdatesAgree OverrunBounded SavedTakesEffect ComesOutWhole ScrapeCoherent
PROPERTIES DueIsEvaluated
CHECK_DEADLOCK FALSE
