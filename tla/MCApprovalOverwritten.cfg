SPECIFICATION Spec
CONSTANTS
  Customers = {c1}
  Accounts = {a1}
  Names = {"maiden", "married"}
  Transactions = {t1}
  NoCustomer = NoCustomer
  Workers = {w1}
  Requests = {r1, r2}
  OwnerOf <- TheOwner
  InitialAccount <- AccountsOpen
  InitialTier <- TierOne
  InitialName <- NamedMarried
  ActiveCustomers = {c1}
  StatusChanges <- NoChange
  TierChanges <- NoChange
  NameChanges <- NoChange
  Recipient <- TheRecipient
  Amount <- TheAmount
  MatchingNames <- TheMatch
  MaxAttempts = 1
  MaxStalls = 0
  MaxResolutions = 3
CHECK_DEADLOCK FALSE
INVARIANT
  ApprovedIsReconciled
