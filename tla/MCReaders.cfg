SPECIFICATION WatchedSpec
CONSTANTS
  Customers = {c1}
  Accounts = {a1}
  Names = {"maiden", "married"}
  Transactions = {t1}
  NoCustomer = NoCustomer
  Workers = {w1, w2}
  Readers = {q1}
  Kinds = {"status", "simulation"}
  Requests = {}
  OwnerOf <- TheOwner
  InitialAccount <- AccountsOpen
  InitialTier <- TierTwo
  InitialName <- NamedMarried
  ActiveCustomers = {c1}
  StatusChanges <- Closing
  TierChanges <- NoChange
  NameChanges <- NoChange
  Recipient <- TheRecipient
  Amount <- TheAmount
  MatchingNames <- TheMatch
  MaxAttempts = 2
  MaxStalls = 1
  MaxResolutions = 1
CHECK_DEADLOCK FALSE
INVARIANT
  AnswersHoldTogether
PROPERTIES
  BarredStaysUncredited
  QueuedIsSettled
