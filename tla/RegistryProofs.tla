---------------------------- MODULE RegistryProofs -----------------------------
(* Registry implements Directory, for any number of customers, accounts, names  *)
(* and concurrent requests, and any changes they ask for: what the reconciler   *)
(* may assume of the directory is what these handlers do, whatever they         *)
(* interleave and wherever they stop.                                           *)
EXTENDS MCRegistry, TLAPS

Methods == {"create", "updateIdentity", "updateKycTier", "setStatus", "createAccount"}

\* What a request of each method asks for.
LEMMA RequestsAsk ==
  ASSUME NEW q \in Requests
  PROVE  /\ q.method \in Methods
         /\ q.method \in {"create", "updateIdentity"}
              => /\ q.subject \in Customers /\ q.value \in Names
                 /\ q.field \in {"fullName", "email"}
         /\ q.method = "create" => q.allow = "no"
         /\ q.method = "updateIdentity" => <<q.subject, q.value>> \in NameChanges
         /\ q.method = "updateKycTier"
              => /\ q.subject \in Customers /\ q.value \in Tiers
                 /\ <<q.subject, q.value>> \in TierChanges
         /\ q.method = "setStatus"
              => /\ q.subject \in Accounts /\ q.value \in {"CLOSED", "RESTRICTED"}
                 /\ <<q.subject, q.value>> \in StatusChanges
         /\ q.method = "createAccount"
              => /\ q.subject \in Accounts /\ q.value = "ACTIVE"
                 /\ <<q.subject, q.value>> \in StatusChanges
<1>. USE RegistryAssumption DEF Methods, Request
<1>1. CASE q \in Registrations
  BY <1>1 DEF Registrations
<1>2. CASE q \in IdentityUpdates
  <2>1. PICK change \in NameChanges, field \in {"fullName", "email"}, allow \in {"yes", "no", "unset"} :
          q = Request("updateIdentity", change[1], field, change[2], allow)
    BY <1>2 DEF IdentityUpdates
  <2>2. change[1] \in Customers /\ change[2] \in Names /\ change = <<change[1], change[2]>>
    OBVIOUS
  <2>. QED BY <2>1, <2>2
<1>3. CASE q \in TierUpdates
  <2>1. PICK change \in TierChanges : q = Request("updateKycTier", change[1], "kycTier", change[2], "no")
    BY <1>3 DEF TierUpdates
  <2>2. change[1] \in Customers /\ change[2] \in Tiers /\ change = <<change[1], change[2]>>
    OBVIOUS
  <2>. QED BY <2>1, <2>2
<1>4. CASE q \in StatusUpdates
  <2>1. PICK change \in StatusChanges :
          /\ change[2] # "ACTIVE"
          /\ q = Request("setStatus", change[1], "status", change[2], "no")
    BY <1>4 DEF StatusUpdates
  <2>2. /\ change[1] \in Accounts /\ change[2] \in {"CLOSED", "RESTRICTED"}
        /\ change = <<change[1], change[2]>>
    BY <2>1
  <2>. QED BY <2>1, <2>2
<1>5. CASE q \in AccountRequests
  <2>1. PICK change \in StatusChanges :
          /\ change[2] = "ACTIVE"
          /\ q = Request("createAccount", change[1], "status", "ACTIVE", "no")
    BY <1>5 DEF AccountRequests
  <2>2. change[1] \in Accounts /\ change = <<change[1], change[2]>>
    OBVIOUS
  <2>. QED BY <2>1, <2>2
<1>. QED BY <1>1, <1>2, <1>3, <1>4, <1>5 DEF Requests

LEMMA CreateAsks ==
  ASSUME NEW q \in Requests, q.method = "create"
  PROVE  q.value = InitialName[q.subject] /\ q.field = "fullName"
<1>1. CASE q \in Registrations
  BY <1>1 DEF Registrations, Request
<1>2. CASE q \notin Registrations
  BY <1>2 DEF Requests, IdentityUpdates, TierUpdates, StatusUpdates, AccountRequests, Request
<1>. QED BY <1>1, <1>2

-----------------------------------------------------------------------------
\* A handler at work has a request, has read a value of the column it is to change, and, if
\* it is to set a status, has found the account there.
Handles(k) ==
  step[k] # "idle" =>
    /\ request[k] \in Requests
    /\ request[k].method \in {"create", "updateIdentity"} => was[k] \in Names \cup {"none"}
    /\ request[k].method = "updateKycTier" => was[k] \in Tiers
    /\ request[k].method = "setStatus" => account[request[k].subject] # NoStatus
    /\ request[k].method = "createAccount" \/ step[k] # "provider"

RegistryInv == RegistryTypeOK /\ \A k \in Clients : Handles(k)

LEMMA RegistryInvInit == RegistryInit => RegistryInv
<1>. SUFFICES ASSUME RegistryInit PROVE RegistryInv
  OBVIOUS
<1>. USE RegistryAssumption DEF RegistryInit
<1>1. RegistryTypeOK
  BY DEF RegistryTypeOK
<1>. QED BY <1>1 DEF RegistryInv, Handles

\* The rows written for a request are rows.
LEMMA RowsType ==
  ASSUME RegistryInv, NEW k \in Clients, step[k] # "idle"
  PROVE  /\ request[k].method \in {"create", "updateIdentity"}
              => IdentityRow(request[k], was[k]) \in IdentityRows
         /\ request[k].method = "updateKycTier" => TierRow(request[k], was[k]) \in TierRows
<1>1. AllowsMatching(request[k]) \in BOOLEAN
  BY DEF AllowsMatching
<1>. QED BY <1>1, RequestsAsk DEF RegistryInv, Handles, IdentityRow, IdentityRows, TierRow, TierRows

LEMMA ReceiveInv ==
  ASSUME RegistryInv, NEW k \in Clients, NEW q \in Requests, Receive(k, q)
  PROVE  RegistryInv'
<1>. USE RegistryAssumption DEF RegistryInv, RegistryTypeOK, Receive, Step, rows, records
<1>1. /\ OldValue(q) \in Names \cup Tiers \cup {"none"}
      /\ q.method \in {"create", "updateIdentity"} => OldValue(q) \in Names \cup {"none"}
      /\ q.method = "updateKycTier" => OldValue(q) \in Tiers
  BY RequestsAsk DEF OldValue
<1>2. q.method = "setStatus" => account[q.subject] # NoStatus
  BY DEF Found
<1>3. received + 1 \in 0..MaxRequests
  OBVIOUS
<1>4. /\ request'[k] = q /\ was'[k] = OldValue(q)
      /\ step'[k] = IF q.method = "createAccount" THEN "provider" ELSE "write"
  OBVIOUS
<1>5. Handles(k)'
  BY <1>1, <1>2, <1>4 DEF Handles
<1>6. \A j \in Clients : j # k => Handles(j)'
  BY DEF Handles
<1>. QED BY <1>1, <1>3, <1>5, <1>6

\* No handler takes an account's row away.
LEMMA OthersHandle ==
  ASSUME RegistryInv, NEW k \in Clients,
         step'[k] = step[k] \/ (step'[k] # "idle" /\ step[k] # "idle" /\ step'[k] # "provider"),
         request'[k] = request[k], was'[k] = was[k],
         \A a \in Accounts : account[a] # NoStatus => account'[a] # NoStatus
  PROVE  Handles(k)'
  BY RequestsAsk DEF RegistryInv, Handles

LEMMA WriteInv ==
  ASSUME RegistryInv, NEW k \in Clients, Write(k)
  PROVE  RegistryInv'
<1>. DEFINE q == request[k]
<1>. USE DEF RegistryInv, Write, Step, records
<1>1. q \in Requests
  BY DEF Handles, RegistryTypeOK
<1>2. /\ account' \in [Accounts -> AccountStatuses \cup {NoStatus}]
      /\ \A a \in Accounts : account[a] # NoStatus => account'[a] # NoStatus
  <2>1. \/ account' = account
        \/ /\ q.subject \in Accounts
           /\ \E s \in {"ACTIVE", "CLOSED", "RESTRICTED"} : account' = [account EXCEPT ![q.subject] = s]
    BY <1>1, RequestsAsk DEF InsertAccount
  <2>2. CASE account' = account
    BY <2>2 DEF RegistryTypeOK
  <2>3. ASSUME NEW a \in Accounts, NEW s \in {"ACTIVE", "CLOSED", "RESTRICTED"},
               account' = [account EXCEPT ![a] = s]
        PROVE  /\ account' \in [Accounts -> AccountStatuses \cup {NoStatus}]
               /\ \A b \in Accounts : account[b] # NoStatus => account'[b] # NoStatus
    BY <2>3 DEF RegistryTypeOK, AccountStatuses, NoStatus
  <2>. QED BY <2>1, <2>2, <2>3
<1>3. tier' \in [Customers -> Tiers] /\ fullName' \in [Customers -> Names]
      /\ registered' \subseteq Customers
  BY <1>1, RequestsAsk DEF RegistryTypeOK
<1>4. RegistryTypeOK'
  BY <1>2, <1>3 DEF RegistryTypeOK
<1>5. \A j \in Clients : step'[j] = step[j] \/ (j = k /\ step[j] = "write" /\ step'[j] = "record")
  BY DEF RegistryTypeOK
<1>6. request' = request /\ was' = was
  OBVIOUS
<1>7. \A j \in Clients : Handles(j)'
  BY <1>2, <1>5, <1>6, OthersHandle
<1>. QED BY <1>4, <1>7

LEMMA RecordInv ==
  ASSUME RegistryInv, NEW k \in Clients, Record(k)
  PROVE  RegistryInv'
<1>. DEFINE q == request[k]
<1>. USE DEF RegistryInv, Record, Step, rows
<1>1. q \in Requests
  BY DEF Handles, RegistryTypeOK
<1>2. /\ \/ history' = history
         \/ \E r \in IdentityRows : history' = Append(history, r)
      /\ \/ tierHistory' = tierHistory
         \/ \E r \in TierRows : tierHistory' = Append(tierHistory, r)
  BY RowsType
<1>3. \/ accountEvents' = accountEvents
      \/ \E e \in Accounts \X {"ACTIVE", "CLOSED", "RESTRICTED"} : accountEvents' = accountEvents \cup {e}
  <2>1. CASE q.method \in {"createAccount", "setStatus"}
    <3>1. <<q.subject, q.value>> \in Accounts \X {"ACTIVE", "CLOSED", "RESTRICTED"}
      BY <1>1, <2>1, RequestsAsk
    <3>. QED BY <2>1, <3>1
  <2>2. CASE q.method \notin {"createAccount", "setStatus"}
    BY <2>2
  <2>. QED BY <2>1, <2>2
<1>. HIDE DEF Record, RegistryInv
<1>4. /\ step[k] = "record" /\ step' = [step EXCEPT ![k] = "audit"]
      /\ UNCHANGED <<account, tier, fullName, registered, issued, audit, request, was, received>>
  BY DEF Record
<1>5. history' \in Seq(IdentityRows) /\ tierHistory' \in Seq(TierRows)
  <2>1. history \in Seq(IdentityRows) /\ tierHistory \in Seq(TierRows)
    BY DEF RegistryInv, RegistryTypeOK
  <2>2. history' \in Seq(IdentityRows)
    BY <1>2, <2>1
  <2>3. tierHistory' \in Seq(TierRows)
    BY <1>2, <2>1
  <2>. QED BY <2>2, <2>3
<1>6. RegistryTypeOK'
  BY <1>3, <1>4, <1>5 DEF RegistryInv, RegistryTypeOK
<1>7. \A j \in Clients : step'[j] = step[j] \/ (j = k /\ step[j] = "record" /\ step'[j] = "audit")
  BY <1>4 DEF RegistryInv, RegistryTypeOK
<1>8. \A j \in Clients : Handles(j)'
  BY <1>4, <1>7, OthersHandle
<1>. QED BY <1>6, <1>8 DEF RegistryInv

LEMMA EndInv ==
  ASSUME RegistryInv, NEW k \in Clients, Audit(k) \/ Abort(k)
  PROVE  RegistryInv'
<1>. USE DEF RegistryInv, Audit, Abort, End, Step, rows, records
<1>1. step[k] # "idle" /\ request[k] \in Requests
  BY DEF Handles
<1>2. /\ step' = [step EXCEPT ![k] = "idle"] /\ request' = [request EXCEPT ![k] = NoRequest]
      /\ was' = [was EXCEPT ![k] = "none"]
      /\ audit' = audit \/ audit' = audit \cup {request[k]}
      /\ UNCHANGED <<rows, history, tierHistory, accountEvents, received>>
  OBVIOUS
<1>. HIDE DEF Audit, Abort, RegistryInv
<1>3. RegistryTypeOK'
  BY <1>1, <1>2 DEF RegistryInv, RegistryTypeOK
<1>4. \A j \in Clients : Handles(j)'
  BY <1>2 DEF RegistryInv, RegistryTypeOK, Handles
<1>. QED BY <1>3, <1>4 DEF RegistryInv

LEMMA CreateInv ==
  ASSUME RegistryInv, NEW k \in Clients, CreateAtProvider(k)
  PROVE  RegistryInv'
<1>. USE DEF RegistryInv, CreateAtProvider, Step, records
<1>1. request[k] \in Requests /\ request[k].method = "createAccount"
  BY DEF Handles, RegistryTypeOK
<1>2. RegistryTypeOK'
  BY <1>1, RequestsAsk DEF RegistryTypeOK
<1>3. \A j \in Clients : step'[j] = step[j] \/ (j = k /\ step[j] = "provider" /\ step'[j] = "write")
  BY DEF RegistryTypeOK
<1>. QED BY <1>2, <1>3, OthersHandle

LEMMA RegistryInvariant == RegistrySpec => []RegistryInv
<1>1. RegistryInv /\ RegistryNext => RegistryInv'
  BY ReceiveInv, WriteInv, RecordInv, EndInv, CreateInv DEF RegistryNext
<1>2. RegistryInv /\ UNCHANGED registryVars => RegistryInv'
  BY DEF RegistryInv, RegistryTypeOK, Handles, registryVars, rows, records, clientVars
<1>. QED BY <1>1, <1>2, RegistryInvInit, PTL DEF RegistrySpec

\* The rows of the customers and the accounts, and what goes with them, keep their types.
THEOREM RegistryTyped == RegistrySpec => []RegistryTypeOK
  BY RegistryInvariant, PTL DEF RegistryInv

-----------------------------------------------------------------------------
(* The refinement.  A write of a row is the step of Directory that the request  *)
(* asks for; a name's history row is its RecordRename; a rename that stops in   *)
(* between is LoseRename, unless another one like it is under way; everything   *)
(* else is invisible.                                                           *)

approvedRows == [c \in Customers |-> ApprovedNames(c)]

LEMMA StartsAsDirectory == RegistryInit => Visible!DirectoryInit
<1>. SUFFICES ASSUME RegistryInit PROVE Visible!DirectoryInit
  OBVIOUS
<1>1. RenamesUnderWay = {}
  BY DEF RegistryInit, RenamesUnderWay
<1>2. \A c : ApprovedNames(c) = {}
  BY DEF RegistryInit, ApprovedNames
<1>. QED BY <1>1, <1>2 DEF Visible!DirectoryInit, RegistryInit

\* Renaming and waiting for the history row to be written.
Renaming(k) == /\ step[k] = "record"
               /\ request[k].method = "updateIdentity" /\ request[k].field = "fullName"

LEMMA RenamesAre == RenamesUnderWay = {<<request[k].subject, request[k].value>> : k \in {j \in Clients : Renaming(j)}}
  BY DEF RenamesUnderWay, Renaming

\* A step that leaves the others alone and is not about a rename of k's leaves those under way
\* as they are; one that ends k's rename takes that one away, or nothing.
LEMMA RenamesStay ==
  ASSUME NEW k \in Clients,
         \A j \in Clients : j # k => step'[j] = step[j] /\ request'[j] = request[j],
         ~Renaming(k), ~Renaming(k)'
  PROVE  RenamesUnderWay' = RenamesUnderWay
<1>1. \A j \in Clients : Renaming(j)' <=> Renaming(j)
  BY DEF Renaming
<1>2. \A j \in Clients : Renaming(j) => request'[j] = request[j]
  OBVIOUS
<1>. QED BY <1>1, <1>2 DEF RenamesUnderWay, Renaming

LEMMA RenameEnds ==
  ASSUME NEW k \in Clients,
         \A j \in Clients : j # k => step'[j] = step[j] /\ request'[j] = request[j],
         Renaming(k), ~Renaming(k)'
  PROVE  LET r == <<request[k].subject, request[k].value>>
         IN /\ r \in RenamesUnderWay
            /\ RenamesUnderWay' \in {RenamesUnderWay, RenamesUnderWay \ {r}}
<1>. DEFINE r == <<request[k].subject, request[k].value>>
            Rest == {<<request[j].subject, request[j].value>> :
                       j \in {i \in Clients : i # k /\ Renaming(i)}}
<1>1. r \in RenamesUnderWay
  BY RenamesAre
<1>2. RenamesUnderWay' = Rest
  BY DEF RenamesUnderWay, Renaming
<1>3. RenamesUnderWay = Rest \cup {r}
  BY RenamesAre
<1>4. Rest \in {Rest \cup {r}, (Rest \cup {r}) \ {r}}
  <2>. HIDE DEF r, Rest
  <2>1. CASE r \in Rest
    BY <2>1
  <2>2. CASE r \notin Rest
    BY <2>2
  <2>. QED BY <2>1, <2>2
<1>. QED BY <1>1, <1>2, <1>3, <1>4

LEMMA RenameBegins ==
  ASSUME NEW k \in Clients,
         \A j \in Clients : j # k => step'[j] = step[j],
         request' = request, ~Renaming(k), Renaming(k)'
  PROVE  RenamesUnderWay' = RenamesUnderWay \cup {<<request[k].subject, request[k].value>>}
<1>. DEFINE r == <<request[k].subject, request[k].value>>
            Of(j) == <<request[j].subject, request[j].value>>
<1>1. RenamesUnderWay = {Of(j) : j \in {i \in Clients : i # k /\ Renaming(i)}}
  BY RenamesAre
<1>2. RenamesUnderWay' = {Of(j) : j \in {i \in Clients : i = k \/ (i # k /\ Renaming(i))}}
  BY DEF RenamesUnderWay, Renaming
<1>. QED BY <1>1, <1>2

\* A new history row approves its name if it allows so, and no other.
LEMMA ApprovedGrows ==
  ASSUME RegistryInv, NEW row \in IdentityRows, history' = Append(history, row)
  PROVE  approvedRows' =
           IF row.field = "fullName" /\ row.allow
           THEN [approvedRows EXCEPT ![row.customer] = @ \cup {row.new}]
           ELSE approvedRows
<1>1. history \in Seq(IdentityRows)
  BY DEF RegistryInv, RegistryTypeOK
<1>2. /\ Len(history) \in Nat /\ DOMAIN history = 1..Len(history)
      /\ DOMAIN history' = 1..(Len(history) + 1)
      /\ \A i \in 1..Len(history) : history'[i] = history[i]
      /\ history'[Len(history) + 1] = row
  BY <1>1
<1>. DEFINE Matching(c) == {j \in DOMAIN history :
                              history[j].customer = c /\ history[j].field = "fullName" /\ history[j].allow}
            New(c) == IF row.customer = c /\ row.field = "fullName" /\ row.allow
                      THEN {row.new} ELSE {}
<1>3. \A c \in Customers : ApprovedNames(c)' = ApprovedNames(c) \cup New(c)
  <2>. SUFFICES ASSUME NEW c \in Customers, NEW x
                PROVE  x \in ApprovedNames(c)' <=> x \in ApprovedNames(c) \/ x \in New(c)
    OBVIOUS
  <2>1. x \in ApprovedNames(c)' <=>
          \E i \in 1..(Len(history) + 1) :
            /\ history'[i].customer = c /\ history'[i].field = "fullName" /\ history'[i].allow
            /\ x = history'[i].new
    BY <1>2 DEF ApprovedNames
  <2>2. x \in ApprovedNames(c) <=>
          \E i \in 1..Len(history) :
            /\ history[i].customer = c /\ history[i].field = "fullName" /\ history[i].allow
            /\ x = history[i].new
    BY <1>2 DEF ApprovedNames
  <2>3. x \in New(c) <=> /\ row.customer = c /\ row.field = "fullName" /\ row.allow
                         /\ x = row.new
    OBVIOUS
  <2>4. \A i \in 1..(Len(history) + 1) : i \in 1..Len(history) \/ i = Len(history) + 1
    BY <1>2
  <2>5. \A i \in 1..Len(history) : i \in 1..(Len(history) + 1)
    BY <1>2
  <2>6. Len(history) + 1 \in 1..(Len(history) + 1)
    BY <1>2
  <2>. HIDE DEF New
  <2>. QED BY <1>2, <2>1, <2>2, <2>3, <2>4, <2>5, <2>6
<1>4. row.customer \in Customers
  BY DEF IdentityRows
<1>. QED BY <1>3, <1>4 DEF approvedRows

LEMMA ApprovedStays ==
  ASSUME history' = history
  PROVE  approvedRows' = approvedRows
  BY DEF approvedRows, ApprovedNames

-----------------------------------------------------------------------------
LEMMA OnlyOwn ==
  ASSUME RegistryInv, NEW k \in Clients,
         Write(k) \/ Record(k) \/ Audit(k) \/ Abort(k) \/ CreateAtProvider(k)
         \/ \E q \in Requests : Receive(k, q)
  PROVE  \A j \in Clients : j # k => step'[j] = step[j] /\ request'[j] = request[j]
  BY DEF RegistryInv, RegistryTypeOK, Write, Record, Audit, Abort, CreateAtProvider, Receive, Step, End

LEMMA ReceiveInvisible ==
  ASSUME RegistryInv, NEW k \in Clients,
         CreateAtProvider(k) \/ \E q \in Requests : Receive(k, q)
  PROVE  UNCHANGED Visible!directoryVars
<1>1. ~Renaming(k) /\ ~Renaming(k)'
  BY DEF RegistryInv, RegistryTypeOK, CreateAtProvider, Receive, Step, Renaming
<1>2. RenamesUnderWay' = RenamesUnderWay
  BY <1>1, OnlyOwn, RenamesStay
<1>3. approvedRows' = approvedRows
  BY ApprovedStays DEF CreateAtProvider, Receive, records
<1>. QED BY <1>2, <1>3 DEF Visible!directoryVars, approvedRows, CreateAtProvider, Receive, rows

LEMMA WriteVisible ==
  ASSUME RegistryInv, NEW k \in Clients, Write(k)
  PROVE  [Visible!DirectoryNext]_(Visible!directoryVars)
<1>. DEFINE q == request[k]
<1>1. q \in Requests /\ (q.method = "setStatus" => account[q.subject] # NoStatus)
  BY DEF RegistryInv, Handles, Write, Step
<1>2. request' = request /\ step'[k] = "record" /\ step[k] = "write"
  BY DEF Write, Step, RegistryInv, RegistryTypeOK
<1>3. approvedRows' = approvedRows
  BY ApprovedStays DEF Write, records
<1>4. \A j \in Clients : j # k => step'[j] = step[j] /\ request'[j] = request[j]
  BY OnlyOwn
<1>5. ~Renaming(k) /\ (Renaming(k)' <=> q.method = "updateIdentity" /\ q.field = "fullName")
  BY <1>2 DEF Renaming
<1>6. CASE q.method = "updateIdentity" /\ q.field = "fullName"
  <2>1. RenamesUnderWay' = RenamesUnderWay \cup {<<q.subject, q.value>>}
    BY <1>2, <1>4, <1>5, <1>6, RenameBegins
  <2>2. fullName' = [fullName EXCEPT ![q.subject] = q.value] /\ UNCHANGED <<account, tier>>
    BY <1>6 DEF Write
  <2>3. <<q.subject, q.value>> \in NameChanges /\ q.subject \in Customers /\ q.value \in Names
    BY <1>1, <1>6, RequestsAsk
  <2>4. Visible!Rename(q.subject, q.value)
    BY <1>3, <2>1, <2>2, <2>3 DEF Visible!Rename, approvedRows
  <2>. QED BY <2>3, <2>4 DEF Visible!DirectoryNext, Visible!EditsNext
<1>7. CASE ~(q.method = "updateIdentity" /\ q.field = "fullName")
  <2>1. RenamesUnderWay' = RenamesUnderWay
    BY <1>4, <1>5, <1>7, RenamesStay
  <2>2. CASE q.method \in {"create", "updateIdentity"}
    <3>1. UNCHANGED <<account, tier, fullName>>
      BY <1>7, <2>2 DEF Write
    <3>. QED BY <1>3, <2>1, <3>1 DEF Visible!directoryVars, approvedRows
  <2>3. CASE q.method = "updateKycTier"
    <3>1. Visible!SetTier(q.subject, q.value)
      BY <1>1, <1>3, <2>1, <2>3, RequestsAsk DEF Write, Visible!SetTier, approvedRows
    <3>. QED BY <1>1, <2>3, <3>1, RequestsAsk DEF Visible!DirectoryNext, Visible!EditsNext, Visible!Tiers, Tiers
  <2>4. CASE q.method = "createAccount"
    <3>1. Visible!OpenAccount(q.subject)
      BY <1>1, <1>3, <2>1, <2>4, RequestsAsk
         DEF Write, InsertAccount, Visible!OpenAccount, approvedRows, Visible!NoStatus, NoStatus
    <3>. QED BY <1>1, <2>4, <3>1, RequestsAsk DEF Visible!DirectoryNext, Visible!EditsNext
  <2>5. CASE q.method = "setStatus"
    <3>1. Visible!SetStatus(q.subject, q.value)
      BY <1>1, <1>3, <2>1, <2>5, RequestsAsk
         DEF Write, Visible!SetStatus, approvedRows, Visible!NoStatus, NoStatus
    <3>. QED BY <1>1, <2>5, <3>1, RequestsAsk DEF Visible!DirectoryNext, Visible!EditsNext
  <2>. QED BY <1>1, <2>2, <2>3, <2>4, <2>5, RequestsAsk DEF Methods
<1>. QED BY <1>6, <1>7

LEMMA RecordVisible ==
  ASSUME RegistryInv, NEW k \in Clients, Record(k)
  PROVE  [Visible!DirectoryNext]_(Visible!directoryVars)
<1>. DEFINE q == request[k]
            row == IdentityRow(q, was[k])
<1>1. q \in Requests /\ step[k] = "record" /\ step'[k] = "audit"
  BY DEF RegistryInv, RegistryTypeOK, Handles, Record, Step
<1>2. UNCHANGED <<account, tier, fullName>>
  BY DEF Record, rows
<1>3. \A j \in Clients : j # k => step'[j] = step[j] /\ request'[j] = request[j]
  BY OnlyOwn
<1>4. ~Renaming(k)' /\ (Renaming(k) <=> q.method = "updateIdentity" /\ q.field = "fullName")
  BY <1>1 DEF Renaming
<1>5. q.method \in {"create", "updateIdentity"} =>
        /\ row \in IdentityRows /\ history' = Append(history, row)
        /\ row.field = q.field /\ row.customer = q.subject /\ row.new = q.value
        /\ q.method = "create" => ~row.allow
  BY <1>1, RowsType, RequestsAsk DEF Record, IdentityRow, AllowsMatching
<1>. HIDE DEF row
<1>6. CASE Renaming(k)
  <2>1. /\ <<q.subject, q.value>> \in RenamesUnderWay
        /\ RenamesUnderWay' \in {RenamesUnderWay, RenamesUnderWay \ {<<q.subject, q.value>>}}
    BY <1>3, <1>4, <1>6, RenameEnds
  <2>2. approvedRows' \in {approvedRows, [approvedRows EXCEPT ![q.subject] = @ \cup {q.value}]}
    BY <1>4, <1>5, <1>6, ApprovedGrows
  <2>3. Visible!RecordRename(q.subject, q.value)
    BY <1>2, <2>1, <2>2 DEF Visible!RecordRename, approvedRows
  <2>4. q.subject \in Customers /\ q.value \in Names
    BY <1>1, <1>4, <1>6, RequestsAsk
  <2>. QED BY <2>3, <2>4 DEF Visible!DirectoryNext, Visible!EditsNext
<1>7. CASE ~Renaming(k)
  <2>1. RenamesUnderWay' = RenamesUnderWay
    BY <1>3, <1>4, <1>7, RenamesStay
  <2>2. approvedRows' = approvedRows
    <3>1. CASE q.method \in {"create", "updateIdentity"}
      BY <1>4, <1>5, <1>7, <3>1, ApprovedGrows
    <3>2. CASE q.method \notin {"create", "updateIdentity"}
      BY <3>2, ApprovedStays DEF Record
    <3>. QED BY <3>1, <3>2
  <2>. QED BY <1>2, <2>1, <2>2 DEF Visible!directoryVars, approvedRows
<1>. QED BY <1>6, <1>7

LEMMA EndVisible ==
  ASSUME RegistryInv, NEW k \in Clients, Audit(k) \/ Abort(k)
  PROVE  [Visible!DirectoryNext]_(Visible!directoryVars)
<1>. DEFINE q == request[k]
<1>1. q \in Requests /\ step'[k] = "idle"
  BY DEF RegistryInv, RegistryTypeOK, Handles, Audit, Abort, Step
<1>2. UNCHANGED <<account, tier, fullName, history>>
  BY DEF Audit, Abort, rows, records
<1>3. \A j \in Clients : j # k => step'[j] = step[j] /\ request'[j] = request[j]
  BY OnlyOwn
<1>4. ~Renaming(k)'
  BY <1>1 DEF Renaming
<1>5. approvedRows' = approvedRows
  BY <1>2, ApprovedStays
<1>6. CASE Renaming(k)
  <2>1. /\ <<q.subject, q.value>> \in RenamesUnderWay
        /\ RenamesUnderWay' \in {RenamesUnderWay, RenamesUnderWay \ {<<q.subject, q.value>>}}
    BY <1>3, <1>4, <1>6, RenameEnds
  <2>2. q.subject \in Customers /\ q.value \in Names
    BY <1>1, <1>6, RequestsAsk DEF Renaming
  <2>3. CASE RenamesUnderWay' = RenamesUnderWay
    BY <1>2, <1>5, <2>3 DEF Visible!directoryVars, approvedRows
  <2>4. CASE RenamesUnderWay' = RenamesUnderWay \ {<<q.subject, q.value>>}
    <3>1. Visible!LoseRename(q.subject, q.value)
      BY <1>2, <1>5, <2>1, <2>4 DEF Visible!LoseRename, approvedRows
    <3>. QED BY <2>2, <3>1 DEF Visible!DirectoryNext, Visible!EditsNext
  <2>. QED BY <2>1, <2>3, <2>4
<1>7. CASE ~Renaming(k)
  <2>1. RenamesUnderWay' = RenamesUnderWay
    BY <1>3, <1>4, <1>7, RenamesStay
  <2>. QED BY <1>2, <1>5, <2>1 DEF Visible!directoryVars, approvedRows
<1>. QED BY <1>6, <1>7

LEMMA StutterInvisible ==
  ASSUME UNCHANGED registryVars
  PROVE  UNCHANGED Visible!directoryVars
<1>. USE DEF registryVars, rows, records, clientVars
<1>1. RenamesUnderWay' = RenamesUnderWay
  BY DEF RenamesUnderWay
<1>2. approvedRows' = approvedRows
  BY ApprovedStays
<1>. QED BY <1>1, <1>2 DEF Visible!directoryVars, approvedRows

\* What the reconciler reads changes only as Directory says, whoever asks for what at the same
\* time and whatever stops half-way (customers.service.ts, virtual-accounts.service.ts).
THEOREM RegistryImplements == RegistrySpec => ImplementsDirectory
<1>1. RegistryInv /\ [RegistryNext]_registryVars => [Visible!DirectoryNext]_(Visible!directoryVars)
  <2>1. RegistryInv /\ RegistryNext => [Visible!DirectoryNext]_(Visible!directoryVars)
    BY ReceiveInvisible, WriteVisible, RecordVisible, EndVisible DEF RegistryNext
  <2>2. UNCHANGED registryVars => UNCHANGED Visible!directoryVars
    BY StutterInvisible
  <2>. QED BY <2>1, <2>2
<1>2. RegistryInit => Visible!DirectoryInit
  BY StartsAsDirectory
<1>. QED BY <1>1, <1>2, RegistryInvariant, PTL DEF RegistrySpec, ImplementsDirectory

-----------------------------------------------------------------------------
(* The histories.  While requests come one after the other and none fails, what *)
(* a handler has read is what the rows of its customer end with, until it has   *)
(* written the next one.                                                        *)

Alone == \A j, k \in Clients : step[j] # "idle" /\ step[k] # "idle" => j = k

NamesTold(c) ==
  /\ Chained(history, NamedIn(c))
  /\ IF c \in registered THEN EndsWith(history, NamedIn(c), fullName[c])
                         ELSE NamedIn(c) = {} /\ fullName[c] = InitialName[c]

TiersTold(c) ==
  /\ Chained(tierHistory, TieredIn(c))
  /\ IF TieredIn(c) = {} THEN tier[c] = InitialTier[c] ELSE EndsWith(tierHistory, TieredIn(c), tier[c])

\* The row a handler has still to write.
NameOwed(k, c) == /\ step[k] = "record" /\ request[k].subject = c
                  /\ request[k].method \in {"create", "updateIdentity"}
                  /\ request[k].field = "fullName"
TierOwed(k, c) == /\ step[k] = "record" /\ request[k].subject = c
                  /\ request[k].method = "updateKycTier"

\* What a handler has read is what the rows end with, and, once it has written, what it is to
\* record is what the column holds.
ReadsLast(k) ==
  /\ step[k] = "write" /\ request[k].method \in {"updateIdentity", "updateKycTier"}
       => request[k].subject \in registered /\ was[k] = OldValue(request[k])
  /\ \A c \in Customers : NameOwed(k, c) =>
       /\ Chained(history, NamedIn(c))
       /\ c \in registered /\ fullName[c] = request[k].value
       /\ IF request[k].method = "create" THEN NamedIn(c) = {}
                                          ELSE EndsWith(history, NamedIn(c), was[k])
  /\ \A c \in Customers : TierOwed(k, c) =>
       /\ Chained(tierHistory, TieredIn(c))
       /\ tier[c] = request[k].value
       /\ TieredIn(c) = {} \/ EndsWith(tierHistory, TieredIn(c), was[k])

StoryInv ==
  ~upset =>
    /\ Alone
    /\ \A k \in Clients : ReadsLast(k)
    /\ \A c \in Customers : /\ NamesTold(c) \/ \E k \in Clients : NameOwed(k, c)
                            /\ TiersTold(c) \/ \E k \in Clients : TierOwed(k, c)

\* What one more row does to the rows it follows, and to others.
LEMMA OneMoreRow ==
  ASSUME NEW table, NEW longer, NEW row, NEW n \in Nat, NEW these \in SUBSET (1..n),
         longer[n + 1] = row, \A i \in 1..n : longer[i] = table[i]
  PROVE  /\ Chained(table, these) => Chained(longer, these)
         /\ \A value : EndsWith(table, these, value) => EndsWith(longer, these, value)
         /\ EndsWith(longer, these \cup {n + 1}, row.new)
         /\ Chained(table, these) /\ (these = {} \/ EndsWith(table, these, row.old))
              => Chained(longer, these \cup {n + 1})
<1>1. \A i \in these : i \in Nat /\ i <= n /\ longer[i] = table[i]
  OBVIOUS
<1>2. Chained(table, these) => Chained(longer, these)
  BY <1>1 DEF Chained
<1>3. ASSUME NEW value, EndsWith(table, these, value) PROVE EndsWith(longer, these, value)
  BY <1>1, <1>3 DEF EndsWith
<1>4. EndsWith(longer, these \cup {n + 1}, row.new)
  BY <1>1 DEF EndsWith
<1>5. ASSUME Chained(table, these), these = {} \/ EndsWith(table, these, row.old)
      PROVE  Chained(longer, these \cup {n + 1})
  <2>. SUFFICES ASSUME NEW i \in these \cup {n + 1}, NEW j \in these \cup {n + 1}, i < j,
                       \A between \in these \cup {n + 1} : between <= i \/ j <= between
                PROVE  longer[j].old = longer[i].new
    BY DEF Chained
  <2>1. i \in these
    BY <1>1
  <2>2. CASE j \in these
    BY <1>1, <1>5, <2>1, <2>2 DEF Chained
  <2>3. CASE j = n + 1
    <3>1. PICK last \in these : (\A other \in these : other <= last) /\ table[last].new = row.old
      BY <1>5, <2>1 DEF EndsWith
    <3>2. last <= i /\ i <= last
      BY <1>1, <2>1, <2>3, <3>1
    <3>3. last = i
      <4>1. last \in Nat /\ i \in Nat
        BY <1>1, <2>1, <3>1
      <4>. QED BY <3>2, <4>1
    <3>. QED BY <1>1, <2>1, <2>3, <3>1, <3>3
  <2>. QED BY <2>2, <2>3
<1>. QED BY <1>2, <1>3, <1>4, <1>5

LEMMA NamesGrow ==
  ASSUME RegistryInv, NEW row \in IdentityRows, history' = Append(history, row), NEW c \in Customers
  PROVE  IF row.customer = c /\ row.field = "fullName"
         THEN /\ EndsWith(history', NamedIn(c)', row.new)
              /\ Chained(history, NamedIn(c))
                   /\ (NamedIn(c) = {} \/ EndsWith(history, NamedIn(c), row.old))
                   => Chained(history', NamedIn(c)')
         ELSE /\ NamedIn(c)' = NamedIn(c)
              /\ Chained(history, NamedIn(c)) => Chained(history', NamedIn(c)')
              /\ \A value : EndsWith(history, NamedIn(c), value)
                              => EndsWith(history', NamedIn(c)', value)
<1>1. PICK n, old, new, these : /\ n = Len(history) /\ old = history /\ new = history'
                                /\ these = NamedIn(c)
  OBVIOUS
<1>2. /\ old \in Seq(IdentityRows) /\ new = Append(old, row) /\ n = Len(old)
      /\ these \subseteq DOMAIN old
  BY <1>1 DEF RegistryInv, RegistryTypeOK, NamedIn
<1>3. /\ n \in Nat /\ DOMAIN new = 1..(n + 1) /\ DOMAIN old = 1..n
      /\ new[n + 1] = row /\ \A i \in 1..n : new[i] = old[i]
      /\ Chained(old, these) => Chained(new, these)
      /\ \A value : EndsWith(old, these, value) => EndsWith(new, these, value)
      /\ EndsWith(new, these \cup {n + 1}, row.new)
      /\ Chained(old, these) /\ (these = {} \/ EndsWith(old, these, row.old))
           => Chained(new, these \cup {n + 1})
  <2>1. /\ n \in Nat /\ DOMAIN new = 1..(n + 1) /\ DOMAIN old = 1..n
        /\ new[n + 1] = row /\ \A i \in 1..n : new[i] = old[i]
    BY <1>2
  <2>. QED BY <1>2, <2>1, OneMoreRow, ZenonT(60)
<1>4. NamedIn(c)' = IF row.customer = c /\ row.field = "fullName" THEN these \cup {n + 1} ELSE these
  <2>1. these = {i \in 1..n : old[i].customer = c /\ old[i].field = "fullName"}
    BY <1>1, <1>3 DEF NamedIn
  <2>2. NamedIn(c)' = {i \in 1..(n + 1) : new[i].customer = c /\ new[i].field = "fullName"}
    BY <1>1, <1>3 DEF NamedIn
  <2>3. 1..(n + 1) = 1..n \cup {n + 1}
    BY <1>3
  <2>. QED BY <1>3, <2>1, <2>2, <2>3
<1>. QED BY <1>1, <1>3, <1>4

LEMMA TiersGrow ==
  ASSUME RegistryInv, NEW row \in TierRows, tierHistory' = Append(tierHistory, row), NEW c \in Customers
  PROVE  IF row.customer = c
         THEN /\ EndsWith(tierHistory', TieredIn(c)', row.new)
              /\ TieredIn(c)' # {}
              /\ Chained(tierHistory, TieredIn(c))
                   /\ (TieredIn(c) = {} \/ EndsWith(tierHistory, TieredIn(c), row.old))
                   => Chained(tierHistory', TieredIn(c)')
         ELSE /\ TieredIn(c)' = TieredIn(c)
              /\ Chained(tierHistory, TieredIn(c)) => Chained(tierHistory', TieredIn(c)')
              /\ \A value : EndsWith(tierHistory, TieredIn(c), value)
                              => EndsWith(tierHistory', TieredIn(c)', value)
<1>1. PICK n, old, new, these : /\ n = Len(tierHistory) /\ old = tierHistory /\ new = tierHistory'
                                /\ these = TieredIn(c)
  OBVIOUS
<1>2. /\ old \in Seq(TierRows) /\ new = Append(old, row) /\ n = Len(old)
      /\ these \subseteq DOMAIN old
  BY <1>1 DEF RegistryInv, RegistryTypeOK, TieredIn
<1>3. /\ n \in Nat /\ DOMAIN new = 1..(n + 1) /\ DOMAIN old = 1..n
      /\ new[n + 1] = row /\ \A i \in 1..n : new[i] = old[i]
      /\ Chained(old, these) => Chained(new, these)
      /\ \A value : EndsWith(old, these, value) => EndsWith(new, these, value)
      /\ EndsWith(new, these \cup {n + 1}, row.new)
      /\ Chained(old, these) /\ (these = {} \/ EndsWith(old, these, row.old))
           => Chained(new, these \cup {n + 1})
  <2>1. /\ n \in Nat /\ DOMAIN new = 1..(n + 1) /\ DOMAIN old = 1..n
        /\ new[n + 1] = row /\ \A i \in 1..n : new[i] = old[i]
    BY <1>2
  <2>. QED BY <1>2, <2>1, OneMoreRow, ZenonT(60)
<1>4. TieredIn(c)' = IF row.customer = c THEN these \cup {n + 1} ELSE these
  <2>1. these = {i \in 1..n : old[i].customer = c}
    BY <1>1, <1>3 DEF TieredIn
  <2>2. TieredIn(c)' = {i \in 1..(n + 1) : new[i].customer = c}
    BY <1>1, <1>3 DEF TieredIn
  <2>3. 1..(n + 1) = 1..n \cup {n + 1}
    BY <1>3
  <2>. QED BY <1>3, <2>1, <2>2, <2>3
<1>5. these \cup {n + 1} # {}
  OBVIOUS
<1>. QED BY <1>1, <1>3, <1>4, <1>5

\* With the only handler at work before its write, or after its last row, everything is told.
LEMMA NothingOwed ==
  ASSUME RegistryInv, StoryInv, ~upset,
         \A j \in Clients : step[j] # "record"
  PROVE  \A c \in Customers : NamesTold(c) /\ TiersTold(c)
  BY DEF StoryInv, NameOwed, TierOwed

LEMMA StoryStays ==
  ASSUME RegistryInv, StoryInv, ~upset, Alone', \A j \in Clients : step[j] # "record",
         \A j \in Clients : step'[j] # "record",
         \A j \in Clients : step'[j] = "write" /\ request'[j].method \in {"updateIdentity", "updateKycTier"}
           => request'[j].subject \in registered /\ was'[j] = OldValue(request'[j]),
         UNCHANGED <<tier, fullName, registered, history, tierHistory>>
  PROVE  StoryInv'
<1>1. \A c \in Customers : NamesTold(c)' /\ TiersTold(c)'
  <2>. SUFFICES ASSUME NEW c \in Customers PROVE NamesTold(c)' /\ TiersTold(c)'
    OBVIOUS
  <2>1. NamesTold(c) /\ TiersTold(c)
    BY NothingOwed
  <2>2. NamedIn(c)' = NamedIn(c) /\ TieredIn(c)' = TieredIn(c)
    BY DEF NamedIn, TieredIn
  <2>. QED BY <2>1, <2>2 DEF NamesTold, TiersTold
<1>2. ASSUME NEW j \in Clients PROVE ReadsLast(j)'
  <2>1. \A c \in Customers : ~NameOwed(j, c)' /\ ~TierOwed(j, c)'
    BY DEF NameOwed, TierOwed
  <2>2. step'[j] = "write" /\ request'[j].method \in {"updateIdentity", "updateKycTier"}
          => request'[j].subject \in registered' /\ was'[j] = OldValue(request[j])'
    BY DEF OldValue
  <2>. QED BY <2>1, <2>2 DEF ReadsLast
<1>. QED BY <1>1, <1>2 DEF StoryInv

\* The next step of the one at work is its own.
LEMMA OneAtWork ==
  ASSUME RegistryInv, StoryInv, ~upset, NEW k \in Clients, step[k] # "idle"
  PROVE  \A j \in Clients : j # k => step[j] = "idle"
  BY DEF StoryInv, Alone

LEMMA ReceiveStory ==
  ASSUME RegistryInv, StoryInv, ~upset, Alone', NEW k \in Clients, NEW q \in Requests, Receive(k, q)
  PROVE  StoryInv'
<1>1. /\ step'[k] \in {"provider", "write"} /\ request'[k] = q /\ was'[k] = OldValue(q)
      /\ \A j \in Clients : j # k => step'[j] = step[j]
      /\ UNCHANGED <<tier, fullName, registered, history, tierHistory>>
  BY DEF RegistryInv, RegistryTypeOK, Receive, Step, rows, records
<1>2. \A j \in Clients : j # k => step[j] = "idle"
  BY <1>1 DEF Alone
<1>3. step[k] = "idle"
  BY DEF Receive, Step
<1>4. q.method \in {"updateIdentity", "updateKycTier"} => q.subject \in registered
  BY DEF Receive, Found
<1>. QED BY <1>1, <1>2, <1>3, <1>4, StoryStays

LEMMA CreateStory ==
  ASSUME RegistryInv, StoryInv, ~upset, Alone', NEW k \in Clients, CreateAtProvider(k)
  PROVE  StoryInv'
<1>1. /\ step[k] = "provider" /\ step'[k] = "write" /\ request' = request /\ was' = was
      /\ \A j \in Clients : j # k => step'[j] = step[j]
      /\ UNCHANGED <<tier, fullName, registered, history, tierHistory>>
  BY DEF RegistryInv, RegistryTypeOK, CreateAtProvider, Step, records
<1>2. \A j \in Clients : j # k => step[j] = "idle"
  BY <1>1, OneAtWork
<1>3. request[k].method = "createAccount"
  BY <1>1 DEF RegistryInv, Handles
<1>. QED BY <1>1, <1>2, <1>3, StoryStays

LEMMA AuditStory ==
  ASSUME RegistryInv, StoryInv, ~upset, Alone', NEW k \in Clients, Audit(k)
  PROVE  StoryInv'
<1>1. /\ step[k] = "audit" /\ step'[k] = "idle"
      /\ \A j \in Clients : j # k => step'[j] = step[j]
      /\ UNCHANGED <<tier, fullName, registered, history, tierHistory>>
  BY DEF RegistryInv, RegistryTypeOK, Audit, Step, rows
<1>2. \A j \in Clients : j # k => step[j] = "idle"
  BY <1>1, OneAtWork
<1>. QED BY <1>1, <1>2, StoryStays

LEMMA WriteStory ==
  ASSUME RegistryInv, StoryInv, ~upset, Alone', NEW k \in Clients, Write(k)
  PROVE  StoryInv'
<1>. DEFINE q == request[k]
<1>1. /\ step[k] = "write" /\ step'[k] = "record" /\ request' = request /\ was' = was
      /\ \A j \in Clients : j # k => step'[j] = step[j]
      /\ UNCHANGED <<history, tierHistory>>
      /\ q \in Requests
  BY DEF RegistryInv, RegistryTypeOK, Handles, Write, Step, records
<1>2. \A j \in Clients : j # k => step[j] = "idle" /\ step'[j] = "idle"
  BY <1>1, OneAtWork
<1>3. \A c \in Customers : NamesTold(c) /\ TiersTold(c)
  BY <1>1, <1>2, NothingOwed
<1>4. \A c \in Customers : NamedIn(c)' = NamedIn(c) /\ TieredIn(c)' = TieredIn(c)
  BY <1>1 DEF NamedIn, TieredIn
<1>5. ReadsLast(k)
  BY DEF StoryInv
<1>6. q.method = "create" => q.value = InitialName[q.subject] /\ q.field = "fullName"
  BY <1>1, CreateAsks
<1>7. \A c \in Customers :
        /\ NameOwed(k, c)' <=> /\ q.subject = c /\ q.method \in {"create", "updateIdentity"}
                               /\ q.field = "fullName"
        /\ TierOwed(k, c)' <=> q.subject = c /\ q.method = "updateKycTier"
  BY <1>1 DEF NameOwed, TierOwed
<1>8. ASSUME NEW c \in Customers PROVE NamesTold(c)' \/ NameOwed(k, c)'
  <2>1. CASE ~NameOwed(k, c)'
    <3>1. fullName'[c] = fullName[c] /\ (c \in registered' <=> c \in registered)
      BY <1>1, <1>6, <1>7, <2>1, RequestsAsk DEF Write, RegistryInv, RegistryTypeOK
    <3>. QED BY <1>1, <1>3, <1>4, <3>1 DEF NamesTold
  <2>. QED BY <2>1
<1>9. ASSUME NEW c \in Customers PROVE TiersTold(c)' \/ TierOwed(k, c)'
  <2>1. CASE ~TierOwed(k, c)'
    <3>1. tier'[c] = tier[c]
      BY <1>1, <1>7, <2>1, RequestsAsk DEF Write, RegistryInv, RegistryTypeOK
    <3>. QED BY <1>1, <1>3, <1>4, <3>1 DEF TiersTold
  <2>. QED BY <2>1
<1>10. ReadsLast(k)'
  <2>1. ASSUME NEW c \in Customers, NameOwed(k, c)'
        PROVE  /\ Chained(history', NamedIn(c)')
               /\ c \in registered' /\ fullName'[c] = q.value
               /\ IF q.method = "create" THEN NamedIn(c)' = {}
                                         ELSE EndsWith(history', NamedIn(c)', was[k])
    <3>1. CASE q.method = "create"
      <4>1. c \notin registered /\ registered' = registered \cup {c} /\ fullName' = fullName
        BY <1>7, <2>1, <3>1 DEF Write
      <4>. QED BY <1>1, <1>3, <1>4, <1>6, <1>7, <2>1, <3>1, <4>1 DEF NamesTold
    <3>2. CASE q.method = "updateIdentity"
      <4>1. c \in registered /\ was[k] = fullName[c]
        BY <1>1, <1>5, <1>7, <2>1, <3>2 DEF ReadsLast, OldValue
      <4>2. registered' = registered /\ fullName' = [fullName EXCEPT ![c] = q.value]
        BY <1>7, <2>1, <3>2 DEF Write
      <4>3. fullName'[c] = q.value
        BY <4>2 DEF RegistryInv, RegistryTypeOK
      <4>. QED BY <1>1, <1>3, <1>4, <3>2, <4>1, <4>2, <4>3 DEF NamesTold
    <3>. QED BY <1>7, <2>1, <3>1, <3>2
  <2>2. ASSUME NEW c \in Customers, TierOwed(k, c)'
        PROVE  /\ Chained(tierHistory', TieredIn(c)')
               /\ tier'[c] = q.value
               /\ TieredIn(c)' = {} \/ EndsWith(tierHistory', TieredIn(c)', was[k])
    <3>1. was[k] = tier[c]
      BY <1>1, <1>5, <1>7, <2>2 DEF ReadsLast, OldValue
    <3>2. tier' = [tier EXCEPT ![c] = q.value]
      BY <1>7, <2>2 DEF Write
    <3>3. tier'[c] = q.value
      BY <3>2 DEF RegistryInv, RegistryTypeOK
    <3>. QED BY <1>1, <1>3, <1>4, <3>1, <3>3 DEF TiersTold
  <2>. QED BY <1>1, <2>1, <2>2 DEF ReadsLast
<1>11. ASSUME NEW j \in Clients, j # k PROVE ReadsLast(j)'
  BY <1>2, <1>11 DEF ReadsLast, NameOwed, TierOwed
<1>. QED BY <1>8, <1>9, <1>10, <1>11 DEF StoryInv

LEMMA RecordStory ==
  ASSUME RegistryInv, StoryInv, ~upset, Alone', NEW k \in Clients, Record(k)
  PROVE  StoryInv'
<1>. DEFINE q == request[k]
<1>1. /\ step[k] = "record" /\ step'[k] = "audit"
      /\ \A j \in Clients : j # k => step'[j] = step[j]
      /\ UNCHANGED <<tier, fullName, registered>>
      /\ q \in Requests
  BY DEF RegistryInv, RegistryTypeOK, Handles, Record, Step, rows
<1>2. \A j \in Clients : j # k => step[j] = "idle" /\ step'[j] = "idle"
  BY <1>1, OneAtWork
<1>3. ReadsLast(k)
  BY DEF StoryInv
<1>4. \A c \in Customers : /\ NamesTold(c) \/ NameOwed(k, c)
                           /\ TiersTold(c) \/ TierOwed(k, c)
  BY <1>2 DEF StoryInv, NameOwed, TierOwed
<1>5. ASSUME NEW c \in Customers PROVE NamesTold(c)'
  <2>1. CASE q.method \in {"create", "updateIdentity"}
    <3>1. PICK row : row = IdentityRow(q, was[k])
      OBVIOUS
    <3>2. /\ row \in IdentityRows /\ history' = Append(history, row)
          /\ row.customer = q.subject /\ row.field = q.field /\ row.old = was[k] /\ row.new = q.value
      BY <1>1, <2>1, <3>1, RowsType DEF Record, IdentityRow
    <3>3. NameOwed(k, c) <=> row.customer = c /\ row.field = "fullName"
      BY <1>1, <2>1, <3>2 DEF NameOwed
    <3>4. CASE NameOwed(k, c)
      <4>1. /\ Chained(history, NamedIn(c)) /\ c \in registered /\ fullName[c] = q.value
            /\ NamedIn(c) = {} \/ EndsWith(history, NamedIn(c), was[k])
        BY <1>3, <3>4 DEF ReadsLast
      <4>2. EndsWith(history', NamedIn(c)', q.value) /\ Chained(history', NamedIn(c)')
        BY <3>2, <3>3, <3>4, <4>1, NamesGrow
      <4>. QED BY <1>1, <4>1, <4>2 DEF NamesTold
    <3>5. CASE ~NameOwed(k, c)
      <4>1. /\ NamedIn(c)' = NamedIn(c)
            /\ Chained(history, NamedIn(c)) => Chained(history', NamedIn(c)')
            /\ \A value : EndsWith(history, NamedIn(c), value) => EndsWith(history', NamedIn(c)', value)
        BY <3>2, <3>3, <3>5, NamesGrow
      <4>. QED BY <1>1, <1>4, <3>5, <4>1 DEF NamesTold
    <3>. QED BY <3>4, <3>5
  <2>2. CASE q.method \notin {"create", "updateIdentity"}
    <3>1. history' = history /\ ~NameOwed(k, c)
      BY <2>2 DEF Record, NameOwed
    <3>. QED BY <1>1, <1>4, <3>1 DEF NamesTold, NamedIn
  <2>. QED BY <2>1, <2>2
<1>6. ASSUME NEW c \in Customers PROVE TiersTold(c)'
  <2>1. CASE q.method = "updateKycTier"
    <3>1. PICK row : row = TierRow(q, was[k])
      OBVIOUS
    <3>2. /\ row \in TierRows /\ tierHistory' = Append(tierHistory, row)
          /\ row.customer = q.subject /\ row.old = was[k] /\ row.new = q.value
      BY <1>1, <2>1, <3>1, RowsType DEF Record, TierRow
    <3>3. TierOwed(k, c) <=> row.customer = c
      BY <1>1, <2>1, <3>2 DEF TierOwed
    <3>4. CASE TierOwed(k, c)
      <4>1. /\ Chained(tierHistory, TieredIn(c)) /\ tier[c] = q.value
            /\ TieredIn(c) = {} \/ EndsWith(tierHistory, TieredIn(c), was[k])
        BY <1>3, <3>4 DEF ReadsLast
      <4>2. /\ EndsWith(tierHistory', TieredIn(c)', q.value) /\ Chained(tierHistory', TieredIn(c)')
            /\ TieredIn(c)' # {}
        BY <3>2, <3>3, <3>4, <4>1, TiersGrow
      <4>. QED BY <1>1, <4>1, <4>2 DEF TiersTold
    <3>5. CASE ~TierOwed(k, c)
      <4>1. /\ TieredIn(c)' = TieredIn(c)
            /\ Chained(tierHistory, TieredIn(c)) => Chained(tierHistory', TieredIn(c)')
            /\ \A value : EndsWith(tierHistory, TieredIn(c), value)
                            => EndsWith(tierHistory', TieredIn(c)', value)
        BY <3>2, <3>3, <3>5, TiersGrow
      <4>. QED BY <1>1, <1>4, <3>5, <4>1 DEF TiersTold
    <3>. QED BY <3>4, <3>5
  <2>2. CASE q.method # "updateKycTier"
    <3>1. tierHistory' = tierHistory /\ ~TierOwed(k, c)
      BY <2>2 DEF Record, TierOwed
    <3>. QED BY <1>1, <1>4, <3>1 DEF TiersTold, TieredIn
  <2>. QED BY <2>1, <2>2
<1>7. ASSUME NEW j \in Clients PROVE ReadsLast(j)'
  <2>1. step'[j] \notin {"write", "record"}
    BY <1>1, <1>2
  <2>. QED BY <2>1 DEF ReadsLast, NameOwed, TierOwed
<1>. QED BY <1>5, <1>6, <1>7 DEF StoryInv

LEMMA StoryInvariant == WatchedSpec => []StoryInv
<1>1. WatchedSpec => RegistrySpec
  <2>1. WatchedInit => RegistryInit
    BY DEF WatchedInit
  <2>2. [WatchedNext]_<<registryVars, upset>> => [RegistryNext]_registryVars
    BY DEF WatchedNext
  <2>. QED BY <2>1, <2>2, PTL DEF WatchedSpec, RegistrySpec
<1>2. WatchedInit => StoryInv
  <2>. SUFFICES ASSUME WatchedInit PROVE StoryInv
    OBVIOUS
  <2>1. \A c \in Customers : NamedIn(c) = {} /\ TieredIn(c) = {}
    BY DEF WatchedInit, RegistryInit, NamedIn, TieredIn
  <2>2. \A c \in Customers : NamesTold(c) /\ TiersTold(c)
    BY <2>1 DEF WatchedInit, RegistryInit, NamesTold, TiersTold, Chained
  <2>3. \A k \in Clients : step[k] = "idle"
    BY DEF WatchedInit, RegistryInit
  <2>. QED BY <2>2, <2>3 DEF StoryInv, Alone, ReadsLast, NameOwed, TierOwed
<1>3. RegistryInv /\ StoryInv /\ [WatchedNext]_<<registryVars, upset>> => StoryInv'
  <2>. SUFFICES ASSUME RegistryInv, StoryInv, [WatchedNext]_<<registryVars, upset>> PROVE StoryInv'
    OBVIOUS
  <2>1. CASE WatchedNext
    <3>. SUFFICES ASSUME ~upset' PROVE StoryInv'
      BY DEF StoryInv
    <3>1. ~upset /\ Alone' /\ RegistryNext /\ \A k \in Clients : ~Abort(k)
      BY <2>1 DEF WatchedNext, Alone
    <3>. QED BY <3>1, ReceiveStory, CreateStory, WriteStory, RecordStory, AuditStory DEF RegistryNext
  <2>2. CASE UNCHANGED <<registryVars, upset>>
    <3>1. /\ UNCHANGED <<step, request, was, tier, fullName, registered, history, tierHistory, upset>>
      BY <2>2 DEF registryVars, rows, records, clientVars
    <3>2. Alone' = Alone
      BY <3>1 DEF Alone
    <3>3. ASSUME NEW c \in Customers PROVE NamedIn(c)' = NamedIn(c) /\ TieredIn(c)' = TieredIn(c)
      BY <3>1 DEF NamedIn, TieredIn
    <3>4. ASSUME NEW c \in Customers
          PROVE  /\ NamesTold(c) => NamesTold(c)'
                 /\ TiersTold(c) => TiersTold(c)'
                 /\ \A k \in Clients : /\ NameOwed(k, c)' = NameOwed(k, c)
                                      /\ TierOwed(k, c)' = TierOwed(k, c)
      BY <3>1, <3>3 DEF NamesTold, TiersTold, NameOwed, TierOwed
    <3>5. ASSUME NEW k \in Clients, ReadsLast(k) PROVE ReadsLast(k)'
      <4>1. OldValue(request[k])' = OldValue(request[k])
        BY <3>1 DEF OldValue
      <4>. QED BY <3>1, <3>3, <3>4, <3>5, <4>1 DEF ReadsLast
    <3>. QED BY <3>1, <3>2, <3>4, <3>5 DEF StoryInv
  <2>. QED BY <2>1, <2>2
<1>. QED BY <1>1, <1>2, <1>3, RegistryInvariant, PTL DEF WatchedSpec

\* As long as requests come one after the other and none fails, the history tables tell, whenever
\* no handler is at work, how every customer came by the present name and tier
\* (customers.service.ts, create, updateIdentity and updateKycTier), for any requests.
THEOREM HistoriesTell == WatchedSpec => []HistoryReplays
<1>1. StoryInv => HistoryReplays
  <2>. SUFFICES ASSUME StoryInv, ~upset, \A k \in Clients : step[k] = "idle", NEW c \in Customers
                PROVE  HistoryTells(c)
    BY DEF HistoryReplays
  <2>1. NamesTold(c) /\ TiersTold(c)
    BY DEF StoryInv, NameOwed, TierOwed
  <2>. QED BY <2>1 DEF NamesTold, TiersTold, HistoryTells
<1>. QED BY <1>1, StoryInvariant, PTL
=============================================================================
