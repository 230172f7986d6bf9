----------------------------- MODULE Settlement ------------------------------
(* What reconciliation promises about the money of a payment: it is credited    *)
(* at once, or by an administrator after a review, in either case once and to   *)
(* the customer the account belongs to; an approved payment whose customer was  *)
(* unknown when it was verified is in nobody's statement.  All this until the   *)
(* payment is disturbed: from then on it may be paid again.                     *)
EXTENDS Integers, FiniteSetsExt

CONSTANTS Transactions, Customers,
          Amount,     \* of a transaction
          PayeeOf     \* the customer behind a transaction's account

VARIABLES phase,      \* where the payment stands
          known,      \* whether its customer was known when it was verified
          balance     \* the customers' statements

settlementVars == <<phase, known, balance>>

Phases == {"unseen", "verified", "review", "credited", "approved", "disturbed"}

Init == /\ phase = [t \in Transactions |-> "unseen"]
        /\ known = [t \in Transactions |-> FALSE]
        /\ balance = [c \in Customers |-> 0]

Move(t, from, to) == phase[t] = from /\ phase' = [phase EXCEPT ![t] = to]

Pay(t) == balance' = [balance EXCEPT ![PayeeOf[t]] = @ + Amount[t]]

Verify(t) == /\ Move(t, "unseen", "verified")
             /\ \E b \in BOOLEAN : known' = [known EXCEPT ![t] = b]
             /\ UNCHANGED balance

Credit(t) == Move(t, "verified", "credited") /\ Pay(t) /\ UNCHANGED known

Flag(t) == Move(t, "verified", "review") /\ UNCHANGED <<known, balance>>

Approve(t) == /\ Move(t, "review", "approved")
              /\ IF known[t] THEN Pay(t) ELSE UNCHANGED balance
              /\ UNCHANGED known

\* One change of the directory may disturb several payments.
Disturb(ts) ==
  /\ phase' = [t \in Transactions |-> IF t \in ts THEN "disturbed" ELSE phase[t]]
  /\ UNCHANGED <<known, balance>>

PayAgain(t) == phase[t] = "disturbed" /\ Pay(t) /\ UNCHANGED <<phase, known>>

Next == \/ \E t \in Transactions : \/ Verify(t) \/ Credit(t) \/ Flag(t) \/ Approve(t)
                                   \/ PayAgain(t)
        \/ \E ts \in SUBSET Transactions : Disturb(ts)

Spec == Init /\ [][Next]_settlementVars
=============================================================================
