SPECIFICATION MCSpec
CONSTANTS
  credited = t1
  reviewed = t2
  Customers = {t1, t2}
  Accounts = {t1, t2}
  Names = {"present", "former", "other"}
  Transactions = {t1, t2}
  NoCustomer = NoCustomer
  Workers = {}
  Requests = {r1, r2}
  OwnerOf <- TheOwner
  InitialAccount <- NoAccounts
  InitialTier <- TierOne
  InitialName <- NamedOtherwise
  ActiveCustomers = {t1, t2}
  StatusChanges <- Closing
  TierChanges <- NoChange
  NameChanges <- NamedFormer
  Recipient <- TheRecipient
  Amount <- TheAmount
  MatchingNames <- TheMatch
  MaxAttempts = 1
  MaxStalls = 0
  MaxResolutions = 2
  Seeders = {s1, s2}
  Scenarios <- TheScenarios
  Demo <- TheDemo
  Resolutions = {"approve-credit", "mark-duplicate"}
  MaxRuns = 3
SYMMETRY Symmetric
CHECK_DEADLOCK FALSE
INVARIANTS
  SeedComplete
  ManualCreditTraceable
PROPERTIES
  SeedIdempotent
  SeedKeepsResolutions
