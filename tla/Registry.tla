------------------------------ MODULE Registry -------------------------------
(* CustomersService and VirtualAccountsService: the requests that write the     *)
(* customer and account rows, with the history, event and audit rows that go    *)
(* with each change.  A handler reads, writes the row, then its history, then   *)
(* its audit entry, with other handlers between any two of its statements.      *)
(* Registry implements Directory, which is what the reconciler sees of it.      *)
EXTENDS Scoring, Sequences

CONSTANTS Customers, Accounts, Names, OwnerOf, InitialName,
          InitialAccount, InitialTier, ActiveCustomers,
          StatusChanges, TierChanges, NameChanges,   \* what the callers ask for
          Clients,       \* concurrent requests
          MaxRequests    \* bound on the requests received

ASSUME RegistryAssumption ==
  /\ OwnerOf \in [Accounts -> Customers]
  /\ InitialAccount \in [Accounts -> AccountStatuses \cup {NoStatus}]
  /\ InitialTier \in [Customers -> Tiers] /\ InitialName \in [Customers -> Names]
  /\ StatusChanges \subseteq Accounts \X {"ACTIVE", "CLOSED", "RESTRICTED"}
  /\ TierChanges \subseteq Customers \X Tiers
  /\ NameChanges \subseteq Customers \X Names
  /\ MaxRequests \in Nat

VARIABLES account, tier, fullName,   \* as in Directory
          registered,      \* the customers that have a row
          issued,          \* the accounts the provider has created
          history,         \* the rows of customer_identity_history, in order
          tierHistory,     \* the rows of kyc_tier_history, in order
          accountEvents,   \* virtual_account_events: pairs of account and status
          audit,           \* audit_logs: the requests whose change is logged
          step, request,   \* a client's next statement and its request
          was,             \* the value its handler read before the change
          received         \* requests so far

rows == <<account, tier, fullName, registered, issued>>
records == <<history, tierHistory, accountEvents, audit>>
clientVars == <<step, request, was, received>>
registryVars == <<rows, records, clientVars>>

\* The requests by the method that serves them.  Renames may state whether the name is to be
\* matched; the columns of the other fields are not modelled, for nobody reads them.
Request(method, subject, field, value, allow) ==
  [method |-> method, subject |-> subject, field |-> field, value |-> value, allow |-> allow]

NoRequest == Request("none", "none", "none", "none", "unset")

Registrations == {Request("create", c, "fullName", InitialName[c], "no") : c \in Customers}
IdentityUpdates ==
  {Request("updateIdentity", change[1], field, change[2], allow) :
     change \in NameChanges, field \in {"fullName", "email"}, allow \in {"yes", "no", "unset"}}
TierUpdates ==
  {Request("updateKycTier", change[1], "kycTier", change[2], "no") : change \in TierChanges}
StatusUpdates ==
  {Request("setStatus", change[1], "status", change[2], "no") :
     change \in {s \in StatusChanges : s[2] # "ACTIVE"}}
AccountRequests ==
  {Request("createAccount", change[1], "status", "ACTIVE", "no") :
     change \in {s \in StatusChanges : s[2] = "ACTIVE"}}

Requests == Registrations \cup IdentityUpdates \cup TierUpdates \cup StatusUpdates \cup AccountRequests

IdentityRows == [customer : Customers, field : {"fullName", "email"},
                 old : Names \cup {"none"}, new : Names, allow : BOOLEAN]
TierRows == [customer : Customers, old : Tiers, new : Tiers]

RegistryTypeOK ==
  /\ account \in [Accounts -> AccountStatuses \cup {NoStatus}]
  /\ tier \in [Customers -> Tiers]
  /\ fullName \in [Customers -> Names]
  /\ registered \subseteq Customers /\ issued \subseteq Accounts
  /\ history \in Seq(IdentityRows)
  /\ tierHistory \in Seq(TierRows)
  /\ accountEvents \subseteq Accounts \X {"ACTIVE", "CLOSED", "RESTRICTED"}
  /\ audit \subseteq Requests
  /\ step \in [Clients -> {"idle", "provider", "write", "record", "audit"}]
  /\ request \in [Clients -> Requests \cup {NoRequest}]
  /\ was \in [Clients -> Names \cup Tiers \cup {"none"}]
  /\ received \in 0..MaxRequests

RegistryInit ==
  /\ account = InitialAccount /\ tier = InitialTier /\ fullName = InitialName
  /\ registered = {} /\ issued = {}
  /\ history = << >> /\ tierHistory = << >>
  /\ accountEvents = {} /\ audit = {}
  /\ step = [k \in Clients |-> "idle"]
  /\ request = [k \in Clients |-> NoRequest]
  /\ was = [k \in Clients |-> "none"]
  /\ received = 0

-----------------------------------------------------------------------------
Step(k, here, there) == step[k] = here /\ step' = [step EXCEPT ![k] = there]

\* Whether the row the method reads first is there; create() reads none.
Found(q) == CASE q.method = "create" -> TRUE
              [] q.method \in {"updateIdentity", "updateKycTier"} -> q.subject \in registered
              [] q.method = "createAccount" -> OwnerOf[q.subject] \in registered
              [] q.method = "setStatus" -> account[q.subject] # NoStatus

\* The value the history row will give as the old one.
OldValue(q) == CASE q.method = "updateIdentity" /\ q.field = "fullName" -> fullName[q.subject]
                 [] q.method = "updateKycTier" -> tier[q.subject]
                 [] OTHER -> "none"

\* A request arrives and its handler reads; without the row it is answered 404.
Receive(k, q) ==
  /\ received < MaxRequests /\ Found(q)
  /\ Step(k, "idle", IF q.method = "createAccount" THEN "provider" ELSE "write")
  /\ request' = [request EXCEPT ![k] = q]
  /\ was' = [was EXCEPT ![k] = OldValue(q)]
  /\ received' = received + 1
  /\ UNCHANGED <<rows, records>>

\* The provider creates the account, or returns the one it has for this customer.
CreateAtProvider(k) ==
  /\ Step(k, "provider", "write")
  /\ issued' = issued \cup {request[k].subject}
  /\ UNCHANGED <<account, tier, fullName, registered, records, request, was, received>>

\* The unique account number: when the row exists the insert throws (Abort).
InsertAccount(a) == account[a] = NoStatus /\ account' = [account EXCEPT ![a] = "ACTIVE"]

\* The one write of the row.  Registering inserts it, and throws when the external reference
\* exists.
Write(k) ==
  LET q == request[k] IN
  /\ Step(k, "write", "record")
  /\ \/ /\ q.method = "create" /\ q.subject \notin registered
        /\ registered' = registered \cup {q.subject}
        /\ UNCHANGED <<account, tier, fullName>>
     \/ /\ q.method = "updateIdentity"
        /\ fullName' = IF q.field = "fullName" THEN [fullName EXCEPT ![q.subject] = q.value]
                                               ELSE fullName
        /\ UNCHANGED <<account, tier, registered>>
     \/ /\ q.method = "updateKycTier"
        /\ tier' = [tier EXCEPT ![q.subject] = q.value]
        /\ UNCHANGED <<account, fullName, registered>>
     \/ /\ q.method = "createAccount" /\ InsertAccount(q.subject)
        /\ UNCHANGED <<tier, fullName, registered>>
     \/ /\ q.method = "setStatus"
        /\ account' = [account EXCEPT ![q.subject] = q.value]
        /\ UNCHANGED <<tier, fullName, registered>>
  /\ UNCHANGED <<issued, records, request, was, received>>

\* The flag of a history row, which for a name is set unless the caller says no.
AllowsMatching(q) == q.allow = "yes" \/ (q.allow = "unset" /\ q.field = "fullName")

\* Slip: old and new value exchanged.
IdentityRowReversed(q, old) ==
  [customer |-> q.subject, field |-> q.field, allow |-> AllowsMatching(q),
   old |-> q.value, new |-> IF old = "none" THEN q.value ELSE old]

IdentityRow(q, old) == [customer |-> q.subject, field |-> q.field, allow |-> AllowsMatching(q),
                        old |-> old, new |-> q.value]

\* Slip: the old value as it is by now.
TierRowLate(q, old) == [customer |-> q.subject, old |-> tier[q.subject], new |-> q.value]

TierRow(q, old) == [customer |-> q.subject, old |-> old, new |-> q.value]

\* The history row of the change, or the account's event.
Record(k) ==
  LET q == request[k] IN
  /\ Step(k, "record", "audit")
  /\ \/ /\ q.method \in {"create", "updateIdentity"}
        /\ history' = Append(history, IdentityRow(q, was[k]))
        /\ UNCHANGED <<tierHistory, accountEvents>>
     \/ /\ q.method = "updateKycTier"
        /\ tierHistory' = Append(tierHistory, TierRow(q, was[k]))
        /\ UNCHANGED <<history, accountEvents>>
     \/ /\ q.method \in {"createAccount", "setStatus"}
        /\ accountEvents' = accountEvents \cup {<<q.subject, q.value>>}
        /\ UNCHANGED <<history, tierHistory>>
  /\ UNCHANGED <<rows, audit, request, was, received>>

\* What a handler leaves behind.
End(k) == /\ request' = [request EXCEPT ![k] = NoRequest]
          /\ was' = [was EXCEPT ![k] = "none"]
          /\ UNCHANGED received

Audit(k) ==
  /\ Step(k, "audit", "idle")
  /\ audit' = audit \cup {request[k]}
  /\ End(k)
  /\ UNCHANGED <<rows, history, tierHistory, accountEvents>>

\* A statement throws, the provider refuses, or the process dies.
Abort(k) ==
  /\ step[k] # "idle"
  /\ step' = [step EXCEPT ![k] = "idle"]
  /\ End(k)
  /\ UNCHANGED <<rows, records>>

RegistryNext ==
  \E k \in Clients :
    \/ \E q \in Requests : Receive(k, q)
    \/ CreateAtProvider(k) \/ Write(k) \/ Record(k) \/ Audit(k) \/ Abort(k)

RegistrySpec == RegistryInit /\ [][RegistryNext]_registryVars

-----------------------------------------------------------------------------
(* Registry implements Directory.                                               *)
ApprovedNames(c) ==
  {history[i].new : i \in {j \in DOMAIN history :
     history[j].customer = c /\ history[j].field = "fullName" /\ history[j].allow}}

RenamesUnderWay ==
  {<<request[k].subject, request[k].value>> : k \in {j \in Clients :
     /\ step[j] = "record"
     /\ request[j].method = "updateIdentity" /\ request[j].field = "fullName"}}

Visible == INSTANCE Directory WITH approved <- [c \in Customers |-> ApprovedNames(c)],
                                   unrecorded <- RenamesUnderWay

\* Through any interleaving and any failure of these handlers, what the reconciler reads
\* changes only as Directory says; its properties there hold with these handlers too.
ImplementsDirectory ==
  Visible!DirectoryInit /\ [][Visible!DirectoryNext]_(Visible!directoryVars)

NamedIn(c) == {i \in DOMAIN history : history[i].customer = c /\ history[i].field = "fullName"}
TieredIn(c) == {i \in DOMAIN tierHistory : tierHistory[i].customer = c}

\* Each of these rows begins where the one before it ended, and the last one ends with a value.
Chained(table, these) ==
  \A i, j \in these : i < j /\ (\A between \in these : between <= i \/ j <= between)
                        => table[j].old = table[i].new
EndsWith(table, these, value) ==
  \E i \in these : (\A j \in these : j <= i) /\ table[i].new = value

\* The rows tell how the customer came by the present name and tier (README: "history-first
\* tables").
HistoryTells(c) ==
  /\ Chained(history, NamedIn(c)) /\ Chained(tierHistory, TieredIn(c))
  /\ c \in registered => EndsWith(history, NamedIn(c), fullName[c])
  /\ IF TieredIn(c) = {} THEN tier[c] = InitialTier[c]
                         ELSE EndsWith(tierHistory, TieredIn(c), tier[c])
=============================================================================
