SPECIFICATION UpsetSpec
CONSTANTS
  Customers = {c1}
  Accounts = {a1}
  Names = {"maiden", "married"}
  Transactions = {t1}
  NoCustomer = NoCustomer
  Workers = {w1, w2}
  Requests = {r1}
  OwnerOf <- TheOwner
  InitialAccount <- AccountsUnopened
  InitialTier <- TierOne
  InitialName <- NamedMarried
  ActiveCustomers = {c1}
  StatusChanges <- OpenOrClose
  TierChanges <- Raising
  NameChanges <- NoChange
  Recipient <- TheRecipient
  Amount <- TheAmount
  MatchingNames <- TheMatch
  MaxAttempts = 1
  MaxStalls = 1
  MaxResolutions = 1
SYMMETRY Symmetric
CHECK_DEADLOCK FALSE
INVARIANTS
  TypeOK
  ReconciledIsCredited
  NoticesAreTrue
  CompletedIsSettled
  ApprovedIsCredited
  OneCreditEach
  CaseMatchesDecision
PROPERTIES
  CreditFollowsDecision
  ImplementsSettlement
