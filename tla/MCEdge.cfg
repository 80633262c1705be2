CONSTANTS
  c1 = c1
  c2 = c2
  Events = {1, 2, 3}
  Wanted = {1, 3}
  Stamp <- MCStamp
  Streams = {c1}
  Buffer = 1
  Limit = 2
  MaxDrops = 1
  MaxConnects = 2
  LogIds = {1, 2, 3}
  LogTime <- MCLogTime
  Hits = {1, 2, 3}
  OldRows <- MCOldRows
  OldIndexes <- MCOldIndexes
  Latest = 3
  PageSize = 1
  ReadConns = 2
  ExportSlots = 1
  Exporters = {c1, c2}
  MaxRestarts = 1
  Texts <- MCTexts
  ByteOrder <- MCByteOrder
  Lower <- MCLower
  GoNumber <- MCGoNumber
  SqlNumber <- MCSqlNumber
  SqlLower <- MCSqlLower
  Folded <- MCFolded
  Globs <- MCGlobs
  Regexes <- MCRegexes
  Printed <- MCPrinted
  FilterOps <- MCFilterOps
  Values <- MCValues
  Tokens <- MCTokens
  GoTokens <- MCGoTokens
  SqlTokens <- MCSqlTokens
  Beginning <- MCBeginning
  Terms <- MCTerms
  FullTexts <- MCFullTexts
  Written <- MCWritten
  Asked <- MCAsked
  QueryNow = 9
  Conns = {c1, c2}
  Messages <- MCMessages
  Framings = {"octets", "newline"}
  Cuts = {3}
  Numerals <- MCNumerals
  Priorities <- MCPriorities
  Stamps <- MCStamps
  MaxFrame = 60
  MaxConns = 1
  MaxSent = 2
  Exports <- MCExports
  MaxBody = 2
  ServiceKeys <- MCServiceKeys
  HostKeys <- MCHostKeys
  OtlpNow = 9
  QueueSize = 2
  ClientBatch = 2
  MaxSends = 3
  Kinds = {"plain", "malformed", "unencodable"}
SPECIFICATION EdgeSpec
INVARIANTS EdgeTypeOK EachShownOnce ClosedOnceUnsent SearchIsExact QueryMeansOneThing ArrivesAsSent AnswerCounts ClientAccounts
PROPERTIES NobodyWaits
CHECK_DEADLOCK FALSE
