---------------------------- MODULE MCSettlement -----------------------------
(* Reconciliation implements Settlement.  What can spoil it is a payment that    *)
(* is executed again and finds another directory than before; a payment that     *)
(* meets only one of the two, or neither, keeps its promise whatever becomes of  *)
(* the others.                                                                   *)
EXTENDS MCReconciliation

VARIABLE upset   \* of each payment, which of the two has happened to it

Fresh(j) == j.failures = 0 /\ j.stalls = 0

Executing(w, t) == wpc[w] # "idle" /\ wtx[w] = t

\* An execution has begun, and it or another one is still to come to an end.
UnderWay(t) == \/ job[t].state = "active"
               \/ job[t].state = "waiting" /\ ~Fresh(job[t])
               \/ \E w \in Workers : Executing(w, t)

\* What reconcileTransaction reads of the directory.
Reads(t) == LET c == OwnerOf[Recipient[t]]
            IN <<account[Recipient[t]], tier[c], fullName[c], approved[c]>>

ExecutedAgain(t) == /\ job[t].state = "waiting" /\ ~Fresh(job[t])
                    /\ job'[t].state = "active"

DirectoryMoved(t) == UnderWay(t) /\ Reads(t)' # Reads(t)

Upsets(t) == upset[t] \cup (IF ExecutedAgain(t) THEN {"again"} ELSE {})
                      \cup (IF DirectoryMoved(t) THEN {"moved"} ELSE {})

Disturbed(t) == upset[t] = {"again", "moved"}

UpsetInit == Init /\ upset = [t \in Transactions |-> {}]

UpsetNext == Next /\ upset' = [t \in Transactions |-> Upsets(t)]

UpsetSpec == UpsetInit /\ [][UpsetNext]_<<vars, upset>>

-----------------------------------------------------------------------------
\* One payment, one credit: whatever workers and administrators do at the same time, a payment
\* that is not disturbed has at most one entry in the ledger.
OneCreditEach ==
  \A t \in Transactions : ~Disturbed(t) => Cardinality(CreditsOf(t)) <= 1

\* The decision row says why the payment was credited: when the automatic credit is appended,
\* the row shows AUTO_RECONCILED.
CreditFollowsDecision ==
  [][\A t \in Transactions :
       ~Disturbed(t) /\ Credited(t, "ledger")' /\ ~Credited(t, "ledger")
         => decision[t] = "AUTO_RECONCILED"]_<<vars, upset>>

\* The case shown to the administrator gives the reason of the decision shown next to it.
CaseMatchesDecision ==
  \A t \in Transactions :
    ~Disturbed(t) /\ caseStatus[t] # "NONE" => caseReason[t] = decision[t]

-----------------------------------------------------------------------------
Phase(t) == CASE Disturbed(t) -> "disturbed"
              [] ~Disturbed(t) /\ Credited(t, "ledger") -> "credited"
              [] ~Disturbed(t) /\ Credited(t, "manual") /\ ~Credited(t, "ledger") -> "approved"
              [] ~Disturbed(t) /\ CreditsOf(t) = {} /\ caseStatus[t] # "NONE" -> "review"
              [] ~Disturbed(t) /\ CreditsOf(t) = {} /\ caseStatus[t] = "NONE" /\ tx[t] # "NONE"
                   -> "verified"
              [] OTHER -> "unseen"

Abstract == INSTANCE Settlement
              WITH phase <- [t \in Transactions |-> Phase(t)],
                   known <- [t \in Transactions |-> payee[t] # NoCustomer],
                   balance <- [c \in Customers |-> Balance(c)],
                   PayeeOf <- [t \in Transactions |-> OwnerOf[Recipient[t]]]

\* Seen through the ledger, the cases and the rows, every payment that is not disturbed is
\* verified, then credited or flagged, then perhaps approved, each at most once, and the
\* customers' statements add up to it.
ImplementsSettlement == Abstract!Spec
=============================================================================
