------------------------------ MODULE Payloads -------------------------------
(* What NombaProvider.verifyTransaction makes of a webhook's payload and of the *)
(* provider's answer about the same payment.  Every field of either may be      *)
(* missing, so a field is a set: empty, or with its one value in it.            *)
EXTENDS Integers

Orelse(field, other) == IF field # {} THEN field ELSE other

\* parseWebhookTransaction() and mapTransaction() read the same five fields, the answer's
\* reference falls back on the one it was asked for.
ReadWebhook(payload) == [payload EXCEPT !.amount = Orelse(@, {0})]
Readable(payload) == payload.reference # {} \/ payload.recipient # {}

ReadAnswer(fields, asked) == [fields EXCEPT !.amount = Orelse(@, {0}),
                                            !.reference = Orelse(@, {asked})]

\* Slip: the webhook's word taken before the provider's.
CompletedByWebhook(fetched, told) ==
  [fetched EXCEPT !.sender    = Orelse(told.sender, @),
                  !.recipient = Orelse(told.recipient, @),
                  !.paidAt    = Orelse(told.paidAt, @)]

\* The webhook fills in what the provider says nothing about: sender, recipient, time.
Completed(fetched, told) ==
  [fetched EXCEPT !.sender    = Orelse(@, told.sender),
                  !.recipient = Orelse(@, told.recipient),
                  !.paidAt    = Orelse(@, told.paidAt)]

\* assertSuccessfulTransaction(): a missing status or code speaks for the payment.
Successful(answer) == answer.status \in {{}, {"success"}} /\ answer.code \in {{}, {"00"}}

\* fetchTransaction(): the transaction, or nothing when it throws.
Fetched(answer, asked, mock) ==
  CASE mock -> {[reference |-> {asked}, amount |-> {0}, sender |-> {}, recipient |-> {},
                 paidAt |-> {}]}
    [] ~mock /\ Successful(answer) -> {ReadAnswer(answer.fields, asked)}
    [] OTHER -> {}

\* verifyTransaction(): a mock provider believes the webhook.
Verified(answer, payload, asked, mock) ==
  LET told == ReadWebhook(payload)
  IN CASE mock /\ Readable(payload) -> {told}
       [] ~mock /\ Readable(payload) -> {Completed(t, told) : t \in Fetched(answer, asked, mock)}
       [] OTHER -> Fetched(answer, asked, mock)
=============================================================================
