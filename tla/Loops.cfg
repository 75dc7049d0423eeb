\* Each of the loops by itself.
SPECIFICATION Spec
CONSTANTS
  Parts = {"remotes", "bisect", "revisions", "textmerge", "worktree", "blobs",
           "crawler", "receiver"}
  Copies = {c1, c2}
  Served = sv
  Syncers = {c2}
  Graph <- Fork
  Names = {1, 2}
  Large = {3}
  Oversized <- MCOversized
  Targets = {"dir", "stream", "session", "udp"}
  MaxFaults = 1
  MaxDials = 2
  MaxPushes = 2
  ParentList <- Line
  IdOrder <- LineIds
  MaxMarks = 1
  MaxScriptErrors = 1
  MaxBisects = 2
  Workers = {"w1", "w2"}
  Urls = {1, 2, 3}
  SeedUrls <- MCSeeds
  HostOf <- MCHost
  LinksOf <- MCLinks
  BodyOn <- MCBody
  Disallowed = {3}
  Configs <- MCConfigs
  MaxDepth_ = 1
  Delay = 1
  StaleDays = 0
  LastDay_ = 1
  MaxRuns = 3
  MaxCrawls = 2
  MaxFaults_ = 1
  Tolerance = 1
  LastMinute = 2
  MaxWaits = 2
  MaxPosts = 2
  RevIds <- MCIds
  Digits = {0, 1}
  IdLen = 6
  MinLen = 2
  HeadText <- MCHeadText
  RefNames <- MCRefNames
  Subjects <- MCSubjects
  MaxRevs = 4
  Bases <- MCBases
  Sides <- MCSides
  TreeFiles <- MCPaths
  HiddenNames = {".h"}
  Contents = {1, 2}
  RuleFiles <- MCRules
  Orders <- MCOrders
  MaxTreeSteps = 4
  FileTexts <- MCTexts
  MaxBlobEdits = 1
  MaxBlobAdds = 2
  MaxBundleFaults = 1
INVARIANTS
  EditsMergeByLine
  FilesAreKept
  CommandsMeanTheirCommits
  StoresAreWhole
  CorpusIsRight
  WaitsResolveOnce
PROPERTIES
  NothingIsClobbered
  LoopsEnd
CHECK_DEADLOCK FALSE
