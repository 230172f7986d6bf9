---------------------------- MODULE Transactions -----------------------------
(* The transactions table and the reconciliation queue: what the verification   *)
(* worker writes (Intake) and the reconciliation worker takes up                *)
(* (Reconciliation).                                                            *)
EXTENDS Directory, JobQueue

CONSTANTS Transactions,    \* provider references, the unique key of the table
          Recipient,       \* the account the payment was made to
          Amount,
          MatchingNames,   \* the names nameMatches() accepts for the sender
          NoCustomer

ASSUME TransactionsAssumption ==
  /\ Recipient \in [Transactions -> Accounts]
  /\ Amount \in [Transactions -> Nat]
  /\ MatchingNames \in [Transactions -> SUBSET Names]
  /\ NoCustomer \notin Customers

VARIABLES tx,     \* transactions.status, "NONE": no row
          payee,  \* transactions.customer_id, as looked up when the payment was verified
          trail,  \* the event types in transaction_events
          job     \* the reconcile-transaction job

transactionVars == <<tx, payee, trail, job>>

TxStatuses == {"NONE", "RECEIVED", "VERIFIED", "RECONCILED", "MANUAL_REVIEW", "REJECTED", "DUPLICATE"}
TrailEvents == {"PAYMENT_VERIFIED", "PAYMENT_RECONCILED", "PAYMENT_FLAGGED", "ADMIN_OVERRIDE"}

TransactionsTypeOK ==
  /\ tx \in [Transactions -> TxStatuses]
  /\ payee \in [Transactions -> Customers \cup {NoCustomer}]
  /\ trail \in [Transactions -> SUBSET TrailEvents]
  /\ job \in [Transactions -> Jobs]

TransactionsInit ==
  /\ tx = [t \in Transactions |-> "NONE"]
  /\ payee = [t \in Transactions |-> NoCustomer]
  /\ trail = [t \in Transactions |-> {}]
  /\ job = [t \in Transactions |-> NoJob]

\* Slip: a look-up without its condition finds some account.
PayeeOfAny(t) == LET open == {a \in Accounts : account[a] # NoStatus}
                 IN IF open = {} THEN NoCustomer ELSE OwnerOf[CHOOSE a \in open : TRUE]

\* Slip: only ACTIVE accounts looked up.
PayeeIfActive(t) == IF account[Recipient[t]] = "ACTIVE" THEN OwnerOf[Recipient[t]] ELSE NoCustomer

\* The customer the verification worker finds behind the recipient account.
PayeeNow(t) == IF account[Recipient[t]] = NoStatus THEN NoCustomer ELSE OwnerOf[Recipient[t]]

\* insert(transactions): the unique index admits one row per provider reference.
InsertTransaction(t, customer) ==
  /\ tx[t] = "NONE"
  /\ tx' = [tx EXCEPT ![t] = "VERIFIED"]
  /\ payee' = [payee EXCEPT ![t] = customer]

LogEvent(t, type) == trail' = [trail EXCEPT ![t] = @ \cup {type}]

SetTx(t, status) == tx' = [tx EXCEPT ![t] = status]

SetJob(t, value) == job' = [job EXCEPT ![t] = value]
=============================================================================
