SPECIFICATION PartSpec
CONSTANTS
  Models = {m1, m2}
  BaseModels = {m1}
  Callers = {c1}
  Loop = loop
  Nobody = nobody
  FetcherModes = {TRUE, FALSE}
  RefreshInterval = 7
  BackoffBase = 2
  BackoffMax = 8
  Width = 5
  Tables <- ManualTables
  Parts = {"gpt", "4o", "mini", "max", "claude"}
  Files <- StaticFiles
  Entries <- CatalogEntries
  Queries <- LookedUp
  TokenCounts <- Tokens
  BodySizes = {0, 7}
  Million = 2
  Grain = 2
  MaxUSDPer1M = 2
  MoneyWidth = 7
  MaxEntries = 2
  PriceFiles <- StaticPrices
  KeyFiles <- CallerKeys
  LimitFlags = {0, 3}
  Settings <- StoredRows
  EditedRows <- PriceEdits
  MaxStarts = 2
  Nil = nil
  MaxVersion = 1
  MaxFails = 4
  Absent = absent
  Unpriced = unpriced
  Bad = bad
  None = none
  Failures = {"open", "seed", "settings"}
  Responses <- Bodies
  PromptEstimate = 6
  BufferCap = 6
  MaxChunk = 4
INVARIANTS KindIsHonest DelayIsSane StopMeansQuiet LookupIsExact CatalogIsExact ChargeIsExact PriceBookIsKept ChunkingIsInvisible
PROPERTIES NeverOlder StopCompletes ServesAsConfigured UsageIsKept
