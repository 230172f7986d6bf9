-------------------------- MODULE MCReconciliation ---------------------------
(* Small instances of Reconciliation for TLC.                                   *)
EXTENDS Reconciliation, TLC

\* One account per customer, and every payment goes to the first account.
TheOwner == [a \in Accounts |-> CHOOSE c \in Customers : TRUE]
TheRecipient == [t \in Transactions |-> CHOOSE a \in Accounts : TRUE]

\* Above the limit of TIER_1, within that of TIER_2.
TheAmount == [t \in Transactions |-> 60000]

\* The sender is known under one name.
TheMatch == [t \in Transactions |-> {"married"}]

AccountsOpen == [a \in Accounts |-> "ACTIVE"]
AccountsUnopened == [a \in Accounts |-> NoStatus]
TierTwo == [c \in Customers |-> "TIER_2"]
TierOne == [c \in Customers |-> "TIER_1"]
NamedMarried == [c \in Customers |-> "married"]

OpenOrClose == Accounts \X {"ACTIVE", "CLOSED"}
Closing == Accounts \X {"CLOSED"}
Raising == Customers \X {"TIER_2"}
NoChange == {}

Symmetric == Permutations(Workers) \cup Permutations(Requests)
=============================================================================
