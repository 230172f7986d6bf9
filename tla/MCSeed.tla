------------------------------- MODULE MCSeed --------------------------------
(* Two scenarios of the demonstration for TLC, one credited and one for review. *)
(* Runs overlap, or administrators approve, dismiss, close and rename in        *)
(* between, but not both in one behaviour.                                      *)
EXTENDS Seed, TLC

CONSTANTS credited, reviewed   \* the two transactions

TheScenarios == <<credited, reviewed>>
TheOwner == [a \in Accounts |-> a]
TheRecipient == [t \in Transactions |-> t]
TheAmount == [t \in Transactions |-> 18000]
TheMatch == [t \in Transactions |-> {"former"}]

\* The customer who was renamed, and the payment to a closed account.
TheDemo ==
  [t \in Transactions |->
     IF t = credited
     THEN [account |-> "ACTIVE", tier |-> "TIER_3", name |-> "present", earlier |-> {"former"},
           status |-> "RECONCILED", outcome |-> "AUTO_RECONCILED", credit |-> TRUE]
     ELSE [account |-> "CLOSED", tier |-> "TIER_3", name |-> "present", earlier |-> {},
           status |-> "MANUAL_REVIEW", outcome |-> "MISDIRECTED_PAYMENT", credit |-> FALSE]]

NoAccounts == [a \in Accounts |-> NoStatus]
TierOne == [c \in Customers |-> "TIER_1"]
\* A customer who is there before the script is has another name.
NamedOtherwise == [c \in Customers |-> "other"]
Closing == {<<credited, "CLOSED">>}
NoChange == {}
NamedFormer == {<<credited, "former">>}
Symmetric == Permutations(Seeders) \cup Permutations(Requests)

VARIABLES finished,    \* a run has come to its end
          overlapped,  \* two runs have been under way at once
          touched,     \* somebody else has changed the tables
          cut          \* a request has come to no end

MCInit == /\ Init /\ SeedInit
          /\ finished = FALSE /\ overlapped = FALSE /\ touched = FALSE /\ cut = FALSE

MCNext ==
  /\ \/ SeedNext /\ UNCHANGED touched
     \/ AdministratorsNext /\ touched' = TRUE
  /\ cut' = (cut \/ \E r \in Requests : rpc[r] \notin {"idle", "emit"} /\ rpc'[r] = "idle")
  /\ finished' = (finished \/ \E s \in Seeders : /\ line[s] = Cardinality(Lines)
                                                 /\ line'[s] = 0
                                                 /\ rows'[Subject(s)]["audit"] > 0)
  /\ overlapped' = (overlapped \/ \E r, s \in Seeders : r # s /\ line'[r] # 0 /\ line'[s] # 0)
  /\ ~(overlapped' /\ touched')

MCSpec == MCInit /\ [][MCNext]_<<demoVars, finished, overlapped, touched, cut>>

-----------------------------------------------------------------------------
\* When a run has come to its end, whatever runs were stopped before it, everything of every
\* scenario is there, and once, unless two runs overlapped (README: "The seed is idempotent") or
\* an administrator has recorded the same name.  The former name is approved for matching, unless
\* an administrator's row, which need not allow it, was found in place of the script's.
SeedComplete ==
  finished => \A t \in Transactions :
    /\ \A kind \in Counted : rows[t][kind] > 0 \/ (kind = "renamed" /\ Demo[t].earlier = {})
    /\ ~overlapped => \A kind \in Counted :
         rows[t][kind] <= 1 \/ (touched /\ Sought(t, kind) # {})
    /\ ~touched => Demo[t].earlier \subseteq approved[Owner(t)]
    /\ decision[t] = Demo[t].outcome /\ trail[t] # {}
    /\ IF Demo[t].credit THEN Credited(t, "demo") ELSE caseReason[t] = decision[t]

\* A run after a complete one, and before anybody else has worked on the tables, leaves every
\* row as it is.
SeedIdempotent ==
  [][finished /\ ~overlapped' /\ ~touched' => UNCHANGED <<vars, rows>>]_<<demoVars, finished>>

\* A run never takes back what an administrator has done about a case, nor a decision or a
\* credit; only the status of the transaction is set back.
SeedKeepsResolutions ==
  [][\A s \in Seeders : SeedStep(s) =>
       /\ \A t \in Transactions :
            /\ caseStatus[t] # "NONE" => caseStatus'[t] = caseStatus[t]
            /\ decision[t] # "NONE" => decision'[t] = decision[t]
       /\ \A i \in DOMAIN ledger : ledger'[i] = ledger[i]]_demoVars

\* Behind a manual credit there is an approval in the audit log and in the trail, even when
\* the case has been resolved in another way before or after, unless a request was cut short.
ManualCreditTraceable ==
  ~cut => \A t \in Transactions : Credited(t, "manual") /\ ~Busy(t)
            => "approve-credit" \in audited[t] /\ "ADMIN_OVERRIDE" \in trail[t]
=============================================================================
