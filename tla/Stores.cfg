\* Each of the stores by itself; where two processes share one, they are p1 and p2.
SPECIFICATION Spec
CONSTANTS
  Parts = {"secrets", "keystore", "pass", "seal", "mmr", "provenance", "stamps", "canary"}
  p1 = p1
  p2 = p2
  f1 = f1
  f2 = f2
  Operators = {p1, p2}
  Schemes <- MCSchemes
  Passphrases = {1, 2}
  MaxSeeds = 2
  MaxCommands = 3
  Users = {p1, p2}
  IdNames = {1, 2}
  IdPasses = {1, 2}
  MaxIdSeeds = 2
  MaxIdCommands = 4
  Runners = {p1, p2}
  Entries = {"e"}
  Suites <- MCSuites
  MasterPhrases = {"p", "q"}
  TokenFiles = {"t"}
  Challenges = {"a", "b"}
  Ttl = 2
  RenewBelow = 2
  MaxUses = 1
  MaxTime = 2
  MaxPassCommands = 3
  Signers_ = {"k1", "k2"}
  SealFiles = {f1, f2}
  Plaintexts <- MCPlain
  SealPasses = {"p"}
  Tiers = {1, 2}
  MaxSeals = 2
  MaxDamage = 1
  Data_ <- MCData
  Appenders = {p1, p2}
  MaxLeaves = 6
  MaxAppends = 5
  Writers = {p1, p2}
  Signers = {"alice", "bob"}
  Bodies = {1, 2}
  RequiredK = 2
  Skew = 1
  LastTime = 1
  MaxProvCommands = 3
  MaxMishaps = 2
  FileNames = {"f", "g"}
  Texts <- MCStampTexts
  MaxStampCommands = 4
  SourceFiles <- MCSources
  FirstTrees <- MCTrees
  Plans <- MCPlans
  NumCanaries = 3
  Publishers = {p1, p2}
  MaxCanarySteps = 4
  MaxChanges = 2
INVARIANTS
  SecretsAreKept
  IdentitiesAreKept
  UsedUpStaysUsedUp
  SealsAreExact
  ProofsAreExact
  VerdictsAreRight
  RecordsHold
SYMMETRY StoreSymmetry
CHECK_DEADLOCK FALSE
