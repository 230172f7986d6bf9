SPECIFICATION WatchedSpec
CONSTANTS
  Customers = {c1, c2}
  Accounts = {a1, a2}
  Names = {n1}
  Transactions = {t1}
  NoCustomer = NoCustomer
  OwnerOf <- TheOwner
  InitialAccount <- TheAccountUnopened
  InitialTier <- TierOne
  InitialName <- OneName
  ActiveCustomers = {c1, c2}
  StatusChanges <- OpenedAndClosed
  TierChanges <- NoChange
  NameChanges <- NoChange
  Recipient <- TheRecipient
  Amount <- TheAmount
  MatchingNames <- TheMatch
  MaxAttempts = 1
  MaxStalls = 0
  Events = {e1}
  TransactionOf <- TheTransaction
  SecretConfigured = TRUE
  Headers <- StaleOrForeign
  Handlers = {h1}
  Verifiers = {v1}
  MaxDeliveries = 2
  Workers = {w1}
  Requests = {r1}
  MaxResolutions = 1
CHECK_DEADLOCK FALSE
INVARIANTS
  CreditGoesToOwner
  CreditHasOrigin
PROPERTIES
  KnownOwnerIsPaid
  AcceptedIsSettled
