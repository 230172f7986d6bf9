------------------------------ MODULE MCScoring ------------------------------
(* Drives Scoring over every payment the tables can hold, one circumstance      *)
(* changed at a time, and over the preview request a client writes for it.      *)
EXTENDS Scoring, Payloads, FiniteSets

VARIABLE payment   \* the circumstances of one payment when it is scored

\* Names as sequences of words, and pairs of a sender and the names on record.
Sent(sender, onRecord) == [sender |-> sender, onRecord |-> onRecord]
Amina == <<"amina", "b", "balogun">>
Aisha == <<"aisha", "bello">>
AishaOkafor == <<"aisha", "bello", "okafor">>
Four == <<"john", "paul", "obi", "eze">>

Namings == {Sent(Aisha, {Aisha}), Sent(Aisha, {AishaOkafor}), Sent(Aisha, {AishaOkafor, Aisha}),
            Sent(AishaOkafor, {Aisha}), Sent(<<>>, {Aisha}), Sent(<<>>, {<<>>}),
            Sent(<<"balogun", "amina", "b">>, {Amina}), Sent(<<"samuel">>, {Amina, Aisha}),
            Sent(<<"eze", "john", "obi">>, {Four}), Sent(<<"eze", "john">>, {Four})}

\* Tiers with amounts around their limits, and those of the demonstration.
Charges == {<<"TIER_1", 50000>>, <<"TIER_1", 50001>>, <<"TIER_2", 200000>>, <<"TIER_2", 200001>>,
            <<"TIER_3", 54000>>, <<"TIER_3", 5000001>>, <<"TIER_4", 5000001>>}

Payments == [account : AccountStatuses \cup {NoStatus}, customer : CustomerStatuses,
             verified : BOOLEAN, duplicate : BOOLEAN, charge : Charges, naming : Namings,
             style : {"documented", "short"}]

\* The signals reconcileTransaction derives from the rows it reads.  Without an account
\* there is no customer, hence no limit that allows it and no name to match.
FactsOf(p) ==
  LET found == p.account # NoStatus
  IN [accountFound   |-> found,
      accountStatus  |-> p.account,
      customerActive |-> found /\ p.customer = "ACTIVE",
      verified       |-> p.verified,
      duplicate      |-> p.duplicate,
      kycAllowed     |-> found /\ WithinLimit(p.charge[1], p.charge[2]),
      nameMatched    |-> found /\ NameMatches(p.naming.sender, p.naming.onRecord)]

YesNo(b) == IF b THEN "yes" ELSE "no"

\* The preview request for p, in one of the two vocabularies the endpoint accepts.
RequestFor(p) ==
  LET f == FactsOf(p)
      common == [EmptyRequest EXCEPT !.duplicate  = YesNo(f.duplicate),
                                     !.kycAllowed = YesNo(f.kycAllowed)]
  IN IF p.style = "documented"
     THEN [common EXCEPT !.accountFound        = YesNo(f.accountFound),
                         !.accountStatus       = IF f.accountFound THEN p.account ELSE "absent",
                         !.customerStatus      = p.customer,
                         !.transactionVerified = YesNo(f.verified),
                         !.nameMatched         = YesNo(f.nameMatched)]
     ELSE [common EXCEPT !.accountActive       = YesNo(p.account = "ACTIVE"),
                         !.customerActive      = YesNo(f.customerActive),
                         !.providerVerified    = YesNo(f.verified),
                         !.senderNameMatched   = YesNo(f.nameMatched)]

\* The provider's answers about p, each with some fields missing, and webhooks about it, which
\* may say something else.
AnswersAbout(p) ==
  [status : {{}, {"success"}, {"failed"}}, code : {{"00"}},
   fields : [reference : {{}}, amount : {{}, {p.charge[2]}}, sender : {{}, {p.naming.sender}},
             recipient : {{}, {"ours"}}, paidAt : {{}}]]

WebhooksAbout(p) ==
  [reference : {{"told"}}, amount : {{1}}, sender : {{}, {Aisha}},
   recipient : {{"ours"}, {"another"}}, paidAt : {{}}]

Only(field, default) == IF field = {} THEN default ELSE CHOOSE v \in field : TRUE

\* The signals of p, had it been stored as the verified transaction t.
FactsFrom(p, t) ==
  FactsOf([p EXCEPT !.naming = Sent(Only(t.sender, <<>>), p.naming.onRecord),
                    !.charge = <<p.charge[1], Only(t.amount, 0)>>,
                    !.account = IF t.recipient = {"ours"} THEN p.account ELSE NoStatus])

Init == payment \in {p \in Payments : p.account = NoStatus /\ ~p.verified}

Change(field, values) == \E v \in values : payment' = [payment EXCEPT ![field] = v]

Next == \/ Change("account", AccountStatuses \cup {NoStatus})
        \/ Change("customer", CustomerStatuses)
        \/ Change("charge", Charges)
        \/ Change("naming", Namings)
        \/ \E field \in {"verified", "duplicate"} : Change(field, BOOLEAN)

Spec == Init /\ [][Next]_payment

-----------------------------------------------------------------------------
(* The scenarios of the demonstration, with what the script says of them: every *)
(* payment is verified and every customer active.                               *)

Scenario(account, duplicate, charge, naming, outcome, score, action) ==
  [account |-> account, duplicate |-> duplicate, charge |-> charge, naming |-> naming,
   outcome |-> outcome, score |-> score, action |-> action]

\* Names, and amounts below their limits, are replaced by others that stand to each other alike.
Own == Sent(Aisha, {Aisha})
Ample == <<"TIER_3", 54000>>
AutoSuccess == Scenario("ACTIVE", FALSE, Ample, Own, "AUTO_RECONCILED", 100, "NONE")
DuplicateWebhook == Scenario("ACTIVE", TRUE, <<"TIER_2", 200000>>, Own,
                             "DUPLICATE_EVENT", 0, "MARK_DUPLICATE")
SenderNameMismatch == Scenario("ACTIVE", FALSE, Ample, Sent(<<"samuel">>, {Amina, Aisha}),
                               "MANUAL_REVIEW", 75, "MANUAL_REVIEW")
ClosedAccount == Scenario("CLOSED", FALSE, Ample, Own,
                          "MISDIRECTED_PAYMENT", 45, "REJECT_OR_REFUND")
KycRestriction == Scenario("ACTIVE", FALSE, <<"TIER_1", 50001>>, Own,
                           "KYC_REVIEW_REQUIRED", 60, "REQUEST_KYC_REVIEW")
RenameHistoryMatch == Scenario("ACTIVE", FALSE, Ample, Sent(Aisha, {AishaOkafor, Aisha}),
                               "AUTO_RECONCILED", 95, "NONE")
Scenarios == {AutoSuccess, DuplicateWebhook, SenderNameMismatch, ClosedAccount, KycRestriction,
              RenameHistoryMatch}

Shows(s, p) == /\ p.verified /\ p.customer = "ACTIVE"
               /\ \A field \in {"account", "duplicate", "charge", "naming"} : p[field] = s[field]

-----------------------------------------------------------------------------
\* A payment is credited without review exactly when all seven signals speak for it, and exactly
\* when it scores 90 or more: the weights leave no single bad signal room to be outvoted, and no
\* early return of outcome() overrules the score an operator sees next to it.
AutoExactlyWhenClean ==
  LET f == FactsOf(payment)
      auto == Outcome(f) = "AUTO_RECONCILED"
  IN /\ ConfidenceScore(f) \in 0..100
     /\ auto <=> Clean(f)
     /\ auto <=> ConfidenceScore(f) >= 90

\* A payment credited without review is sent under a name on record, of which at most every
\* fourth word is missing: a name of up to three words must be there as a whole.
CreditNeedsTheName ==
  Outcome(FactsOf(payment)) = "AUTO_RECONCILED" =>
    \E name \in payment.naming.onRecord :
      LET missing == {i \in DOMAIN name : \A j \in DOMAIN payment.naming.sender :
                                             payment.naming.sender[j] # name[i]}
      IN name # <<>> /\ Cardinality(missing) <= Len(name) \div 4

\* The code decides each scenario of the demonstration as the script says it does, limits, names
\* and the action recommended included, and the score the script shows lies on the same side of
\* both thresholds as the one the code gives (they differ in four of six: 75, 45, 60 and 95, where
\* the code gives 85, 55, 70 and 100).
ScenariosAgree ==
  \A s \in Scenarios : Shows(s, payment) =>
    LET score == ConfidenceScore(FactsOf(payment))
    IN /\ Outcome(FactsOf(payment)) = s.outcome
       /\ score >= 90 <=> s.score >= 90
       /\ score >= 40 <=> s.score >= 40
       /\ s.action \in {RecommendedAction(s.outcome), "NONE"}

\* The preview endpoint scores a payment as the reconciler will, in both vocabularies, as long
\* as the account exists and, in the documented one, the customer is ACTIVE or RESTRICTED
\* (previewScore takes a SUSPENDED or CLOSED customerStatus for an active customer).
PreviewAgrees ==
  /\ payment.account # NoStatus
  /\ payment.style = "documented" => payment.customer \in {"ACTIVE", "RESTRICTED"}
  => PreviewScore(RequestFor(payment)) = ConfidenceScore(FactsOf(payment))

\* What a webhook says never decides against the provider: a payment the provider calls anything
\* but successful is not verified, the amount is the provider's, and a webhook changes the
\* outcome only by a sender or a recipient the provider left out.
WebhookCannotSway ==
  \A answer \in AnswersAbout(payment), payload \in WebhooksAbout(payment) :
    \A t \in Verified(answer, payload, "asked", FALSE) :
      LET own == ReadAnswer(answer.fields, "asked")
      IN /\ answer.status \cap {"pending", "failed"} = {}
         /\ t.amount = own.amount /\ t.reference = own.reference
         /\ own.sender # {} /\ own.recipient # {}
              => Outcome(FactsFrom(payment, t)) = Outcome(FactsFrom(payment, own))
=============================================================================
