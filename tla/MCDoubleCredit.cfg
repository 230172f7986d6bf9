SPECIFICATION Spec
CONSTANTS
  Customers = {c1}
  Accounts = {a1}
  Names = {"maiden", "married"}
  Transactions = {t1}
  NoCustomer = NoCustomer
  Workers = {w1, w2}
  Requests = {r1}
  OwnerOf <- TheOwner
  InitialAccount <- AccountsOpen
  InitialTier <- TierOne
  InitialName <- NamedMarried
  ActiveCustomers = {c1}
  StatusChanges <- Closing
  TierChanges <- Raising
  NameChanges <- NoChange
  Recipient <- TheRecipient
  Amount <- TheAmount
  MatchingNames <- TheMatch
  MaxAttempts = 2
  MaxStalls = 1
  MaxResolutions = 1
SYMMETRY Symmetric
CHECK_DEADLOCK FALSE
INVARIANT
  AtMostOneCredit
