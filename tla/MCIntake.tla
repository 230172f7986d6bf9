------------------------------ MODULE MCIntake -------------------------------
(* Small instances of Intake for TLC: two events that report the same payment.  *)
EXTENDS Intake

TheOwner == [a \in Accounts |-> CHOOSE c \in Customers : TRUE]
TheRecipient == [t \in Transactions |-> CHOOSE a \in Accounts : TRUE]
TheAmount == [t \in Transactions |-> 60000]
TheMatch == [t \in Transactions |-> Names]
TheTransaction == [e \in Events |-> CHOOSE t \in Transactions : TRUE]

AccountsOpen == [a \in Accounts |-> "ACTIVE"]
TierOne == [c \in Customers |-> "TIER_1"]
OneName == [c \in Customers |-> CHOOSE n \in Names : TRUE]
NoChange == {}

Signed == [algorithm |-> "hmacsha256", version |-> "1.0.0",
           signature |-> "computed", timestamp |-> "within"]
SignedOrNot == {Signed, [Signed EXCEPT !.signature = "none"]}

FairWebhookSpec == WebhookSpec /\ IntakeFairness

\* What is on record is queued ("persisted, verified, queued"): an accepted event of which a
\* good delivery is being acknowledged and nobody else handles another, for its verification, and a
\* payment whose verification has completed and which nobody verifies any more, for its
\* reconciliation.  It is not so: the row that a handler or a verifier inserted makes every
\* repetition skip the job that it did not live to add (webhooks.service.ts:72,
\* verification.processor.ts:49).
EventIsQueued(e) ==
  /\ webhook[e] \in Accepted
  /\ \E h \in Handlers : /\ hev[h] = e /\ hpc[h] = "respond" /\ ShouldVerify(header[h])
                        /\ \A k \in Handlers \ {h} : hpc[k] = "idle" \/ hev[k] # e
  => vjob[e].state # "none"

PaymentIsQueued(e) ==
  LET t == TransactionOf[e]
  IN /\ vjob[e].state = "completed"
     /\ \A v \in Verifiers : vpc[v] = "idle" \/ VTx(v) # t
     => job[t].state # "none"

PersistedIsQueued == \A e \in Events : EventIsQueued(e) /\ PaymentIsQueued(e)
=============================================================================
