------------------------------ MODULE Directory ------------------------------
(* The customer and virtual-account rows the reconciler reads, and the          *)
(* administrator's changes to them while payments are being reconciled.  Each   *)
(* change is the one write of its handler that the reconciler can see, but for  *)
(* a rename, which has two.                                                     *)
EXTENDS Scoring

CONSTANTS Customers, Accounts, Names,
          OwnerOf,           \* the customer an account belongs to
          InitialAccount,    \* account status at the start, NoStatus: not created yet
          InitialTier, InitialName,
          ActiveCustomers,   \* the customers whose status is ACTIVE; no handler changes it
          StatusChanges,     \* the changes administrators make: pairs of account and status,
          TierChanges,       \* of customer and tier,
          NameChanges        \* and of customer and name

ASSUME OwnerAssumption == OwnerOf \in [Accounts -> Customers]
ASSUME InitialDirectoryAssumption ==
  /\ InitialAccount \in [Accounts -> AccountStatuses \cup {NoStatus}]
  /\ InitialTier \in [Customers -> Tiers]
  /\ InitialName \in [Customers -> Names]
  /\ ActiveCustomers \subseteq Customers
ASSUME ChangesAssumption ==
  /\ StatusChanges \subseteq Accounts \X {"ACTIVE", "CLOSED", "RESTRICTED"}
  /\ TierChanges \subseteq Customers \X Tiers
  /\ NameChanges \subseteq Customers \X Names

VARIABLES account,    \* virtual_accounts.status
          tier,       \* customers.kyc_tier
          fullName,   \* customers.full_name
          unrecorded, \* renames whose history row is not written yet
          approved    \* names of history rows with allowPreviousValueForMatching

directoryVars == <<account, tier, fullName, unrecorded, approved>>

DirectoryTypeOK ==
  /\ account \in [Accounts -> AccountStatuses \cup {NoStatus}]
  /\ tier \in [Customers -> Tiers]
  /\ fullName \in [Customers -> Names]
  /\ unrecorded \subseteq Customers \X Names
  /\ approved \in [Customers -> SUBSET Names]

\* The history row a customer is created with never allows matching.
DirectoryInit ==
  /\ account = InitialAccount
  /\ tier = InitialTier
  /\ fullName = InitialName
  /\ unrecorded = {}
  /\ approved = [c \in Customers |-> {}]

OpenAccount(a) ==
  /\ <<a, "ACTIVE">> \in StatusChanges
  /\ account[a] = NoStatus
  /\ account' = [account EXCEPT ![a] = "ACTIVE"]
  /\ UNCHANGED <<tier, fullName, unrecorded, approved>>

\* Any status may be overwritten, a CLOSED one included; none is ever set back to ACTIVE.
SetStatus(a, status) ==
  /\ <<a, status>> \in StatusChanges /\ status # "ACTIVE"
  /\ account[a] # NoStatus
  /\ account' = [account EXCEPT ![a] = status]
  /\ UNCHANGED <<tier, fullName, unrecorded, approved>>

SetTier(c, newTier) ==
  /\ <<c, newTier>> \in TierChanges
  /\ tier' = [tier EXCEPT ![c] = newTier]
  /\ UNCHANGED <<account, fullName, unrecorded, approved>>

Rename(c, name) ==
  /\ <<c, name>> \in NameChanges
  /\ fullName' = [fullName EXCEPT ![c] = name]
  /\ unrecorded' = unrecorded \cup {<<c, name>>}
  /\ UNCHANGED <<account, tier, approved>>

\* The history row carries the flag next to the NEW name.  Another request may be about to
\* record the same rename.
RecordRename(c, name) ==
  /\ <<c, name>> \in unrecorded
  /\ unrecorded' \in {unrecorded, unrecorded \ {<<c, name>>}}
  /\ approved' \in {approved, [approved EXCEPT ![c] = @ \cup {name}]}
  /\ UNCHANGED <<account, tier, fullName>>

\* The handler failed between the two writes.
LoseRename(c, name) ==
  /\ <<c, name>> \in unrecorded
  /\ unrecorded' = unrecorded \ {<<c, name>>}
  /\ UNCHANGED <<account, tier, fullName, approved>>

\* Every change but the writing of a history row.
EditsNext ==
  \/ \E a \in Accounts : OpenAccount(a) \/ \E s \in {"CLOSED", "RESTRICTED"} : SetStatus(a, s)
  \/ \E c \in Customers : \E newTier \in Tiers : SetTier(c, newTier)
  \/ \E c \in Customers, name \in Names : Rename(c, name) \/ LoseRename(c, name)

DirectoryNext == EditsNext \/ \E c \in Customers, name \in Names : RecordRename(c, name)

=============================================================================
