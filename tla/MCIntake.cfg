SPECIFICATION FairWebhookSpec
CONSTANTS
  Customers = {c1}
  Accounts = {a1}
  Names = {n1}
  Transactions = {t1}
  NoCustomer = NoCustomer
  OwnerOf <- TheOwner
  InitialAccount <- AccountsOpen
  InitialTier <- TierOne
  InitialName <- OneName
  ActiveCustomers = {c1}
  StatusChanges <- NoChange
  TierChanges <- NoChange
  NameChanges <- NoChange
  Recipient <- TheRecipient
  Amount <- TheAmount
  MatchingNames <- TheMatch
  MaxAttempts = 2
  MaxStalls = 1
  Events = {e1, e2}
  TransactionOf <- TheTransaction
  SecretConfigured = TRUE
  Headers <- SignedOrNot
  Handlers = {h1, h2}
  Verifiers = {v1, v2}
  MaxDeliveries = 2
CHECK_DEADLOCK FALSE
PROPERTIES
  JobsAddedOnce
  VerificationEnds
