SPECIFICATION WatchedSpec
CONSTANTS
  Customers = {c1}
  Accounts = {a1}
  Names = {"maiden", "married"}
  Clients = {k1, k2}
  OwnerOf <- TheOwner
  InitialAccount <- AccountsUnopened
  InitialTier <- TierOne
  InitialName <- NamedMaiden
  ActiveCustomers = {c1}
  StatusChanges <- AnyStatus
  TierChanges <- AnyTier
  NameChanges <- AnyName
  MaxRequests = 4
CHECK_DEADLOCK FALSE
INVARIANTS
  HistoryReplays
PROPERTIES
  ImplementsDirectory
