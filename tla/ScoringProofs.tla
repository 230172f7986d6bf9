---------------------------- MODULE ScoringProofs ------------------------------
(* The scoring rule for every combination of its seven signals, every name and  *)
(* every answer of the provider: the lemmas are about all of them, the theorems *)
(* about the payments MCScoring drives the rule over.                           *)
EXTENDS MCScoring, FiniteSetTheorems, TLAPS

-----------------------------------------------------------------------------
(* The weights.                                                                 *)

\* The score is a percentage, and the weights leave every signal a veto: with one of them
\* against the payment it scores 85 at most.
LEMMA EverySignalVetoes ==
  ASSUME NEW f \in Facts
  PROVE  /\ ConfidenceScore(f) \in 0..100
         /\ Clean(f) <=> ConfidenceScore(f) >= 90
         /\ Clean(f) => ConfidenceScore(f) = 100
<1>1. RawScore(f) \in Int
  BY DEF RawScore, Points
<1>2. Clean(f) => RawScore(f) = 110
  BY DEF Clean, RawScore, Points
<1>3. ~Clean(f) => RawScore(f) <= 85
  <2>. USE DEF RawScore, Points, Facts
  <2>1. CASE ~f.accountFound  BY <2>1
  <2>2. CASE f.accountStatus # "ACTIVE"  BY <2>2
  <2>3. CASE ~f.customerActive  BY <2>3
  <2>4. CASE ~f.verified  BY <2>4
  <2>5. CASE f.duplicate  BY <2>5
  <2>6. CASE ~f.kycAllowed  BY <2>6
  <2>7. CASE ~f.nameMatched  BY <2>7
  <2>. QED  BY <2>1, <2>2, <2>3, <2>4, <2>5, <2>6, <2>7 DEF Clean
<1>. QED  BY <1>1, <1>2, <1>3 DEF ConfidenceScore

\* The early returns and the score agree on which payments are credited without review.
LEMMA CreditedWhenClean ==
  ASSUME NEW f \in Facts
  PROVE  Outcome(f) = "AUTO_RECONCILED" <=> Clean(f)
<1>1. Clean(f) <=> ConfidenceScore(f) >= 90
  BY EverySignalVetoes
<1>2. Clean(f) => ~Misdirected(f) /\ ~KycBlocked(f)
  BY DEF Clean, Misdirected, KycBlocked
<1>. QED  BY <1>1, <1>2 DEF Outcome, Clean

-----------------------------------------------------------------------------
(* The names.                                                                   *)

\* The words of a name that the sender has and those that are missing add up to the name.
LEMMA WordsAddUp ==
  ASSUME NEW W, NEW name \in Seq(W), NEW sender
  PROVE  LET missing == {i \in DOMAIN name : \A j \in DOMAIN sender : sender[j] # name[i]}
         IN /\ Cardinality(WordsFound(name, sender)) \in Nat
            /\ Cardinality(missing) \in Nat
            /\ Cardinality(WordsFound(name, sender)) + Cardinality(missing) = Len(name)
<1>. DEFINE found == WordsFound(name, sender)
            missing == {i \in DOMAIN name : \A j \in DOMAIN sender : sender[j] # name[i]}
<1>1. DOMAIN name = 1..Len(name) /\ Len(name) \in Nat
  OBVIOUS
<1>2. IsFiniteSet(1..Len(name)) /\ Cardinality(1..Len(name)) = Len(name)
  BY <1>1, FS_Interval, SMTT(30)
<1>3. found \subseteq 1..Len(name) /\ missing \subseteq 1..Len(name)
  BY <1>1 DEF WordsFound
<1>4. found \cup missing = 1..Len(name) /\ found \cap missing = {}
  BY <1>1 DEF WordsFound
<1>5. IsFiniteSet(found) /\ IsFiniteSet(missing)
  BY <1>2, <1>3, FS_Subset
<1>6. Cardinality(found) \in Nat /\ Cardinality(missing) \in Nat
  BY <1>5, FS_CardinalityType
<1>7. Cardinality(found \cup missing) = Cardinality(found) + Cardinality(missing)
                                         - Cardinality(found \cap missing)
  BY <1>5, FS_Union
<1>8. Cardinality(found \cap missing) = 0
  BY <1>4, FS_EmptySet
<1>9. Cardinality(found \cup missing) = Len(name)
  BY <1>2, <1>4
<1>10. Cardinality(found) + Cardinality(missing) = Len(name)
  <2>. HIDE DEF found, missing
  <2>. QED  BY <1>6, <1>7, <1>8, <1>9
<1>. QED  BY <1>6, <1>10

\* A match lacks at most every fourth word of the name it is a match with.
LEMMA MatchNeedsName ==
  ASSUME NEW W, NEW onRecord \in SUBSET Seq(W), NEW sender, NameMatches(sender, onRecord)
  PROVE  \E name \in onRecord :
           LET missing == {i \in DOMAIN name : \A j \in DOMAIN sender : sender[j] # name[i]}
           IN name # <<>> /\ Cardinality(missing) <= Len(name) \div 4
<1>1. PICK name \in onRecord :
        name # <<>> /\ CloseEnough(Cardinality(WordsFound(name, sender)), Len(name))
  BY DEF NameMatches
<1>. DEFINE found == Cardinality(WordsFound(name, sender))
            missing == {i \in DOMAIN name : \A j \in DOMAIN sender : sender[j] # name[i]}
            lacking == Cardinality(missing)
<1>2. found \in Nat /\ lacking \in Nat /\ found + lacking = Len(name)
  BY WordsAddUp
<1>3. 4 * found >= 3 * Len(name)
  BY <1>1 DEF CloseEnough
<1>4. 4 * lacking <= Len(name) /\ Len(name) \in Nat
  <2>. HIDE DEF found, lacking
  <2>. QED  BY <1>2, <1>3
<1>5. lacking <= Len(name) \div 4
  <2>. HIDE DEF lacking
  <2>. QED  BY <1>2, <1>4
<1>. QED  BY <1>1, <1>5

\* A sender whose name is on record matches, whatever other names there are.
LEMMA OwnNameMatches ==
  ASSUME NEW W, NEW sender \in Seq(W), NEW onRecord, sender \in onRecord, sender # <<>>
  PROVE  NameMatches(sender, onRecord)
<1>1. WordsFound(sender, sender) = 1..Len(sender) /\ Len(sender) \in Nat
  BY DEF WordsFound
<1>2. Cardinality(1..Len(sender)) = Len(sender)
  BY <1>1, FS_Interval
<1>3. CloseEnough(Cardinality(WordsFound(sender, sender)), Len(sender))
  BY <1>1, <1>2 DEF CloseEnough
<1>. QED  BY <1>3 DEF NameMatches

\* A sender none of whose words is in a name on record does not match.
LEMMA StrangerDoesNotMatch ==
  ASSUME NEW W, NEW onRecord \in SUBSET Seq(W), NEW sender,
         \A name \in onRecord : \A i \in DOMAIN name : \A j \in DOMAIN sender :
           sender[j] # name[i]
  PROVE  ~NameMatches(sender, onRecord)
<1>. SUFFICES ASSUME NEW name \in onRecord, name # <<>>,
                     CloseEnough(Cardinality(WordsFound(name, sender)), Len(name))
              PROVE  FALSE
  BY DEF NameMatches
<1>1. WordsFound(name, sender) = {}
  BY DEF WordsFound
<1>2. Cardinality(WordsFound(name, sender)) = 0
  BY <1>1, FS_EmptySet
<1>3. Len(name) \in Nat /\ Len(name) # 0
  OBVIOUS
<1>. QED  BY <1>2, <1>3 DEF CloseEnough

-----------------------------------------------------------------------------
(* The answers of the provider and the webhooks about them.                     *)

\* A payment is verified only by an answer that does not deny it; what the provider says about
\* reference and amount stands, and so does a sender or a recipient it names.
LEMMA ProviderPrevails ==
  ASSUME NEW asked, NEW answer,
         DOMAIN answer.fields = {"reference", "amount", "sender", "recipient", "paidAt"},
         NEW payload, Readable(payload),
         NEW t \in Verified(answer, payload, asked, FALSE)
  PROVE  LET own == ReadAnswer(answer.fields, asked)
         IN /\ answer.status \in {{}, {"success"}}
            /\ t.amount = own.amount /\ t.reference = own.reference
            /\ own.sender # {} => t.sender = own.sender
            /\ own.recipient # {} => t.recipient = own.recipient
<1>. DEFINE own == ReadAnswer(answer.fields, asked)
            told == ReadWebhook(payload)
<1>1. t \in {Completed(u, told) : u \in Fetched(answer, asked, FALSE)}
  BY DEF Verified
<1>2. PICK u \in Fetched(answer, asked, FALSE) : t = Completed(u, told)
  BY <1>1
<1>3. Successful(answer) /\ u = own
  BY <1>2 DEF Fetched
<1>4. answer.status \in {{}, {"success"}}
  BY <1>3 DEF Successful
<1>5. /\ own = [answer.fields EXCEPT !.amount = Orelse(@, {0}), !.reference = Orelse(@, {asked})]
      /\ DOMAIN own = {"reference", "amount", "sender", "recipient", "paidAt"}
  BY DEF ReadAnswer
<1>6. t = [own EXCEPT !.sender    = Orelse(@, told.sender),
                      !.recipient = Orelse(@, told.recipient),
                      !.paidAt    = Orelse(@, told.paidAt)]
  BY <1>2, <1>3 DEF Completed
<1>7. /\ t.amount = own.amount /\ t.reference = own.reference
      /\ t.sender = Orelse(own.sender, told.sender)
      /\ t.recipient = Orelse(own.recipient, told.recipient)
  <2>. HIDE DEF own, told
  <2>. QED  BY <1>5, <1>6
<1>. QED  BY <1>4, <1>7 DEF Orelse

-----------------------------------------------------------------------------
(* The payments MCScoring drives the rule over.                                 *)

Words == {"amina", "b", "balogun", "aisha", "bello", "okafor", "john", "paul", "obi", "eze",
          "samuel"}

LEMMA NamesTyped ==
  ASSUME NEW p \in Payments
  PROVE  /\ p.naming.sender \in Seq(Words)
         /\ p.naming.onRecord \in SUBSET Seq(Words)
<1>1. /\ Aisha \in Seq(Words) /\ AishaOkafor \in Seq(Words) /\ Amina \in Seq(Words)
      /\ Four \in Seq(Words) /\ <<>> \in Seq(Words)
  BY DEF Aisha, AishaOkafor, Amina, Four, Words
<1>2. /\ <<"balogun", "amina", "b">> \in Seq(Words) /\ <<"samuel">> \in Seq(Words)
      /\ <<"eze", "john", "obi">> \in Seq(Words) /\ <<"eze", "john">> \in Seq(Words)
  BY DEF Words
<1>3. p.naming \in Namings
  BY DEF Payments
<1>4. \A n \in Namings : n.sender \in Seq(Words) /\ n.onRecord \in SUBSET Seq(Words)
  <2>1. ASSUME NEW sender \in Seq(Words), NEW onRecord \in SUBSET Seq(Words)
        PROVE  LET n == Sent(sender, onRecord)
               IN n.sender \in Seq(Words) /\ n.onRecord \in SUBSET Seq(Words)
    BY DEF Sent
  <2>. QED  BY <1>1, <1>2, <2>1 DEF Namings
<1>. QED  BY <1>3, <1>4

PaymentTyped == payment \in Payments

LEMMA PaymentsTyped == Spec => []PaymentTyped
<1>1. Init => PaymentTyped
  BY DEF Init, PaymentTyped
<1>2. PaymentTyped /\ [Next]_payment => PaymentTyped'
  <2>. SUFFICES ASSUME payment \in Payments, [Next]_payment  PROVE payment' \in Payments
    BY DEF PaymentTyped
  <2>1. CASE Change("account", AccountStatuses \cup {NoStatus})
    BY <2>1 DEF Change, Payments
  <2>2. CASE Change("customer", CustomerStatuses)
    BY <2>2 DEF Change, Payments
  <2>3. CASE Change("charge", Charges)
    BY <2>3 DEF Change, Payments
  <2>4. CASE Change("naming", Namings)
    BY <2>4 DEF Change, Payments
  <2>5. CASE \E field \in {"verified", "duplicate"} : Change(field, BOOLEAN)
    BY <2>5 DEF Change, Payments
  <2>6. CASE UNCHANGED payment
    BY <2>6
  <2>. QED  BY <2>1, <2>2, <2>3, <2>4, <2>5, <2>6 DEF Next
<1>. QED  BY <1>1, <1>2, PTL DEF Spec

LEMMA SignalsTyped ==
  ASSUME NEW p, p.account \in AccountStatuses \cup {NoStatus},
         p.verified \in BOOLEAN, p.duplicate \in BOOLEAN
  PROVE  FactsOf(p) \in Facts
<1>1. /\ (p.account # NoStatus /\ p.customer = "ACTIVE") \in BOOLEAN
      /\ (p.account # NoStatus /\ WithinLimit(p.charge[1], p.charge[2])) \in BOOLEAN
      /\ (p.account # NoStatus /\ NameMatches(p.naming.sender, p.naming.onRecord)) \in BOOLEAN
  OBVIOUS
<1>. QED  BY <1>1 DEF FactsOf, Facts

\* A payment is credited without review exactly when all seven signals speak for it, and exactly
\* when it scores 90 or more, for every payment and, by the lemmas, for every choice of signals.
THEOREM OnlyCleanIsCredited == Spec => []AutoExactlyWhenClean
<1>1. ASSUME PaymentTyped  PROVE AutoExactlyWhenClean
  <2>1. FactsOf(payment) \in Facts
    BY <1>1, SignalsTyped DEF PaymentTyped, Payments
  <2>. QED  BY <2>1, EverySignalVetoes, CreditedWhenClean DEF AutoExactlyWhenClean
<1>. QED  BY <1>1, PaymentsTyped, PTL

\* A payment credited without review is sent under a name on record, of which at most every
\* fourth word is missing.
THEOREM CreditedUnderName == Spec => []CreditNeedsTheName
<1>1. ASSUME PaymentTyped, Outcome(FactsOf(payment)) = "AUTO_RECONCILED"
      PROVE  NameMatches(payment.naming.sender, payment.naming.onRecord)
  <2>1. FactsOf(payment) \in Facts
    BY <1>1, SignalsTyped DEF PaymentTyped, Payments
  <2>2. FactsOf(payment).nameMatched
    BY <1>1, <2>1, CreditedWhenClean DEF Clean
  <2>. QED  BY <2>2 DEF FactsOf
<1>2. ASSUME PaymentTyped  PROVE CreditNeedsTheName
  BY <1>1, <1>2, NamesTyped, MatchNeedsName DEF PaymentTyped, CreditNeedsTheName
<1>. QED  BY <1>2, PaymentsTyped, PTL

LEMMA SaidYes ==
  ASSUME NEW b \in BOOLEAN
  PROVE  /\ YesNo(b) = "yes" <=> b
         /\ YesNo(b) = "no" <=> ~b
         /\ YesNo(b) # "absent"
BY DEF YesNo

\* What each field of a preview request does to the signals.
LEMMA PreviewReads ==
  ASSUME NEW in
  PROVE  LET h == PreviewFacts(in)
         IN /\ h.accountFound <=> in.accountFound # "no"
            /\ h.accountStatus = "ACTIVE" <=> IF in.accountStatus = "absent"
                                             THEN in.accountActive # "no"
                                             ELSE in.accountStatus = "ACTIVE"
            /\ h.customerActive <=> IF in.customerActive = "absent"
                                    THEN in.customerStatus # "RESTRICTED"
                                    ELSE in.customerActive = "yes"
            /\ h.verified <=> "yes" \in {in.transactionVerified, in.providerVerified}
            /\ h.duplicate <=> in.duplicate = "yes"
            /\ h.kycAllowed <=> in.kycAllowed # "no"
            /\ h.nameMatched <=> "yes" \in {in.nameMatched, in.senderNameMatched}
BY DEF PreviewFacts, EitherYes

\* The preview and the reconciler give a payment the same score, as long as the account exists
\* and, in the documented vocabulary, the customer is ACTIVE or RESTRICTED.
THEOREM PreviewTells == Spec => []PreviewAgrees
<1>1. ASSUME PaymentTyped, payment.account # NoStatus,
             payment.style = "documented" => payment.customer \in {"ACTIVE", "RESTRICTED"}
      PROVE  PreviewScore(RequestFor(payment)) = ConfidenceScore(FactsOf(payment))
  <2>. DEFINE f == FactsOf(payment)
              g == PreviewFacts(RequestFor(payment))
  <2>1. f \in Facts /\ f.accountFound /\ f.accountStatus = payment.account
        /\ f.customerActive = (payment.customer = "ACTIVE")
    BY <1>1, SignalsTyped DEF PaymentTyped, Payments, FactsOf
  <2>2. /\ g.accountFound <=> f.accountFound
        /\ g.accountStatus = "ACTIVE" <=> f.accountStatus = "ACTIVE"
        /\ g.customerActive <=> f.customerActive
        /\ g.verified <=> f.verified
        /\ g.duplicate <=> f.duplicate
        /\ g.kycAllowed <=> f.kycAllowed
        /\ g.nameMatched <=> f.nameMatched
    <3>. HIDE DEF f
    <3>6. /\ f.accountFound \in BOOLEAN /\ f.customerActive \in BOOLEAN /\ f.verified \in BOOLEAN
          /\ f.duplicate \in BOOLEAN /\ f.kycAllowed \in BOOLEAN /\ f.nameMatched \in BOOLEAN
      BY <2>1 DEF Facts
    <3>. DEFINE r == RequestFor(payment)
    <3>4. g = PreviewFacts(r)
      OBVIOUS
    <3>5. /\ g.accountFound <=> r.accountFound # "no"
          /\ g.accountStatus = "ACTIVE" <=> IF r.accountStatus = "absent"
                                           THEN r.accountActive # "no"
                                           ELSE r.accountStatus = "ACTIVE"
          /\ g.customerActive <=> IF r.customerActive = "absent"
                                  THEN r.customerStatus # "RESTRICTED"
                                  ELSE r.customerActive = "yes"
          /\ g.verified <=> "yes" \in {r.transactionVerified, r.providerVerified}
          /\ g.duplicate <=> r.duplicate = "yes"
          /\ g.kycAllowed <=> r.kycAllowed # "no"
          /\ g.nameMatched <=> "yes" \in {r.nameMatched, r.senderNameMatched}
      BY <3>4, PreviewReads
    <3>2. CASE payment.style = "documented"
      <4>1. /\ r.accountFound = YesNo(f.accountFound) /\ r.accountStatus = payment.account
            /\ r.accountActive = "absent" /\ r.customerActive = "absent"
            /\ r.customerStatus = payment.customer
            /\ r.transactionVerified = YesNo(f.verified) /\ r.providerVerified = "absent"
            /\ r.duplicate = YesNo(f.duplicate) /\ r.kycAllowed = YesNo(f.kycAllowed)
            /\ r.nameMatched = YesNo(f.nameMatched) /\ r.senderNameMatched = "absent"
        BY <2>1, <3>2 DEF f, RequestFor, EmptyRequest
      <4>2. payment.account \in AccountStatuses /\ payment.account # "absent"
        BY <1>1 DEF PaymentTyped, Payments, AccountStatuses, NoStatus
      <4>. HIDE DEF r, g
      <4>3. /\ g.accountFound <=> f.accountFound
            /\ g.accountStatus = "ACTIVE" <=> f.accountStatus = "ACTIVE"
        BY <2>1, <3>5, <3>6, <4>1, <4>2, SaidYes
      <4>4. g.customerActive <=> f.customerActive
        BY <1>1, <2>1, <3>2, <3>5, <3>6, <4>1, SaidYes
      <4>5. /\ g.verified <=> f.verified
            /\ g.nameMatched <=> f.nameMatched
        BY <3>5, <3>6, <4>1, SaidYes
      <4>6. /\ g.duplicate <=> f.duplicate
            /\ g.kycAllowed <=> f.kycAllowed
        BY <3>5, <3>6, <4>1, SaidYes
      <4>. QED  BY <4>3, <4>4, <4>5, <4>6
    <3>3. CASE payment.style = "short"
      <4>1. /\ r.accountFound = "absent" /\ r.accountStatus = "absent"
            /\ r.accountActive = YesNo(payment.account = "ACTIVE")
            /\ r.customerActive = YesNo(f.customerActive) /\ r.customerStatus = "absent"
            /\ r.transactionVerified = "absent" /\ r.providerVerified = YesNo(f.verified)
            /\ r.duplicate = YesNo(f.duplicate) /\ r.kycAllowed = YesNo(f.kycAllowed)
            /\ r.nameMatched = "absent" /\ r.senderNameMatched = YesNo(f.nameMatched)
        BY <2>1, <3>3 DEF f, RequestFor, EmptyRequest
      <4>. HIDE DEF r, g
      <4>3. /\ g.accountFound <=> f.accountFound
            /\ g.accountStatus = "ACTIVE" <=> f.accountStatus = "ACTIVE"
        BY <2>1, <3>5, <3>6, <4>1, SaidYes
      <4>4. g.customerActive <=> f.customerActive
        <5>1. /\ r.customerActive # "absent"
              /\ r.customerActive = "yes" <=> f.customerActive
          BY <3>6, <4>1, SaidYes
        <5>. QED  BY <3>5, <5>1
      <4>5. /\ g.verified <=> f.verified
            /\ g.nameMatched <=> f.nameMatched
        BY <3>5, <3>6, <4>1, SaidYes
      <4>6. /\ g.duplicate <=> f.duplicate
            /\ g.kycAllowed <=> f.kycAllowed
        BY <3>5, <3>6, <4>1, SaidYes
      <4>. QED  BY <4>3, <4>4, <4>5, <4>6
    <3>. QED  BY <1>1, <3>2, <3>3 DEF PaymentTyped, Payments
  <2>3. RawScore(g) = RawScore(f)
    <3>. HIDE DEF f, g
    <3>. QED  BY <2>2 DEF RawScore, Points
  <2>. QED  BY <2>3 DEF PreviewScore, ConfidenceScore
<1>2. ASSUME PaymentTyped  PROVE PreviewAgrees
  BY <1>1, <1>2 DEF PreviewAgrees
<1>. QED  BY <1>2, PaymentsTyped, PTL

\* What a webhook says never decides against the provider, for every pair of an answer and a
\* webhook MCScoring considers and, by the lemma, for every other.
THEOREM ProviderDecides == Spec => []WebhookCannotSway
<1>1. ASSUME PaymentTyped,
             NEW answer \in AnswersAbout(payment), NEW payload \in WebhooksAbout(payment),
             NEW t \in Verified(answer, payload, "asked", FALSE)
      PROVE  LET own == ReadAnswer(answer.fields, "asked")
             IN /\ answer.status \cap {"pending", "failed"} = {}
                /\ t.amount = own.amount /\ t.reference = own.reference
                /\ own.sender # {} /\ own.recipient # {}
                     => Outcome(FactsFrom(payment, t)) = Outcome(FactsFrom(payment, own))
  <2>. DEFINE own == ReadAnswer(answer.fields, "asked")
  <2>1. DOMAIN answer.fields = {"reference", "amount", "sender", "recipient", "paidAt"}
    BY DEF AnswersAbout
  <2>2. Readable(payload)
    BY DEF WebhooksAbout, Readable
  <2>3. /\ answer.status \in {{}, {"success"}}
        /\ t.amount = own.amount /\ t.reference = own.reference
        /\ own.sender # {} => t.sender = own.sender
        /\ own.recipient # {} => t.recipient = own.recipient
    BY <1>1, <2>1, <2>2, ProviderPrevails
  <2>4. answer.status \cap {"pending", "failed"} = {}
    BY <2>3
  <2>5. ASSUME own.sender # {}, own.recipient # {}
        PROVE  FactsFrom(payment, t) = FactsFrom(payment, own)
    <3>. HIDE DEF own
    <3>. QED  BY <2>3, <2>5 DEF FactsFrom
  <2>. QED  BY <2>3, <2>4, <2>5
<1>2. ASSUME PaymentTyped  PROVE WebhookCannotSway
  BY <1>1, <1>2 DEF WebhookCannotSway
<1>. QED  BY <1>2, PaymentsTyped, PTL

-----------------------------------------------------------------------------
(* The demonstration.                                                           *)

\* The outcome and the score of a verified payment to an active customer's account.
LEMMA DemonstrationScores ==
  ASSUME NEW f \in Facts, f.accountFound, f.customerActive, f.verified
  PROVE  /\ ~f.duplicate /\ f.accountStatus = "ACTIVE" /\ f.kycAllowed /\ f.nameMatched
              => Outcome(f) = "AUTO_RECONCILED" /\ ConfidenceScore(f) = 100
         /\ f.duplicate => Outcome(f) = "DUPLICATE_EVENT" /\ ConfidenceScore(f) \in 0..39
         /\ ~f.duplicate /\ f.accountStatus = "ACTIVE" /\ f.kycAllowed /\ ~f.nameMatched
              => Outcome(f) = "MANUAL_REVIEW" /\ ConfidenceScore(f) = 85
         /\ ~f.duplicate /\ f.accountStatus = "CLOSED" /\ f.kycAllowed /\ f.nameMatched
              => Outcome(f) = "MISDIRECTED_PAYMENT" /\ ConfidenceScore(f) = 55
         /\ ~f.duplicate /\ f.accountStatus = "ACTIVE" /\ ~f.kycAllowed /\ f.nameMatched
              => Outcome(f) = "KYC_REVIEW_REQUIRED" /\ ConfidenceScore(f) = 70
<1>. USE DEF ConfidenceScore, RawScore, Points, Outcome, Misdirected, KycBlocked
<1>1. ASSUME ~f.duplicate, f.accountStatus = "ACTIVE", f.kycAllowed, f.nameMatched
      PROVE  Outcome(f) = "AUTO_RECONCILED" /\ ConfidenceScore(f) = 100
  BY <1>1
<1>2. ASSUME f.duplicate
      PROVE  Outcome(f) = "DUPLICATE_EVENT" /\ ConfidenceScore(f) \in 0..39
  BY <1>2
<1>3. ASSUME ~f.duplicate, f.accountStatus = "ACTIVE", f.kycAllowed, ~f.nameMatched
      PROVE  Outcome(f) = "MANUAL_REVIEW" /\ ConfidenceScore(f) = 85
  BY <1>3
<1>4. ASSUME ~f.duplicate, f.accountStatus = "CLOSED", f.kycAllowed, f.nameMatched
      PROVE  Outcome(f) = "MISDIRECTED_PAYMENT" /\ ConfidenceScore(f) = 55
  BY <1>4
<1>5. ASSUME ~f.duplicate, f.accountStatus = "ACTIVE", ~f.kycAllowed, f.nameMatched
      PROVE  Outcome(f) = "KYC_REVIEW_REQUIRED" /\ ConfidenceScore(f) = 70
  BY <1>5
<1>. HIDE DEF ConfidenceScore, RawScore, Points, Outcome, Misdirected, KycBlocked
<1>. QED  BY <1>1, <1>2, <1>3, <1>4, <1>5

\* What ScenariosAgree says of one scenario and the payment at hand.
Decided(s) ==
  LET score == ConfidenceScore(FactsOf(payment))
  IN /\ Outcome(FactsOf(payment)) = s.outcome
     /\ score >= 90 <=> s.score >= 90
     /\ score >= 40 <=> s.score >= 40
     /\ s.action \in {RecommendedAction(s.outcome), "NONE"}

\* The code decides each scenario of the demonstration as the script says it does.
THEOREM DemonstrationTrue == Spec => []ScenariosAgree
<1>1. ASSUME PaymentTyped, NEW s \in Scenarios, Shows(s, payment)
      PROVE  Decided(s)
  <2>. DEFINE f == FactsOf(payment)
  <2>1. /\ payment.verified /\ payment.customer = "ACTIVE"
        /\ payment.account = s.account /\ payment.duplicate = s.duplicate
        /\ payment.charge = s.charge /\ payment.naming = s.naming
    BY <1>1 DEF Shows
  <2>2. f \in Facts
    BY <1>1, SignalsTyped DEF PaymentTyped, Payments
  <2>3. s.account \in {"ACTIVE", "CLOSED"}
    <3>. USE DEF Scenario
    <3>1. /\ AutoSuccess.account = "ACTIVE" /\ DuplicateWebhook.account = "ACTIVE"
          /\ SenderNameMismatch.account = "ACTIVE" /\ ClosedAccount.account = "CLOSED"
          /\ KycRestriction.account = "ACTIVE" /\ RenameHistoryMatch.account = "ACTIVE"
      BY DEF AutoSuccess, DuplicateWebhook, SenderNameMismatch, ClosedAccount, KycRestriction, RenameHistoryMatch
    <3>. QED  BY <1>1, <3>1 DEF Scenarios
  <2>4. /\ f.accountFound /\ f.customerActive /\ f.verified
        /\ f.accountStatus = s.account /\ f.duplicate = s.duplicate
        /\ f.kycAllowed <=> WithinLimit(s.charge[1], s.charge[2])
        /\ f.nameMatched <=> NameMatches(s.naming.sender, s.naming.onRecord)
    BY <2>1, <2>3 DEF FactsOf, NoStatus
  <2>5. /\ Aisha \in Seq(Words) /\ AishaOkafor \in Seq(Words) /\ Amina \in Seq(Words)
        /\ Aisha # <<>>
    BY DEF Aisha, AishaOkafor, Amina, Words
  <2>6. NameMatches(Aisha, {Aisha}) /\ NameMatches(Aisha, {AishaOkafor, Aisha})
    BY <2>5, OwnNameMatches
  <2>7. ~NameMatches(<<"samuel">>, {Amina, Aisha})
    <3>1. \A name \in {Amina, Aisha} : \A i \in DOMAIN name : \A j \in DOMAIN <<"samuel">> :
            <<"samuel">>[j] # name[i]
      BY DEF Amina, Aisha
    <3>. QED  BY <2>5, <3>1, StrangerDoesNotMatch
  <2>8. WithinLimit("TIER_3", 54000) /\ ~WithinLimit("TIER_1", 50001)
    BY DEF WithinLimit, KycLimit
  <2>. HIDE DEF f
  <2>9. CASE s = AutoSuccess
    <3>1. /\ s.account = "ACTIVE" /\ ~s.duplicate
          /\ s.charge[1] = "TIER_3" /\ s.charge[2] = 54000
          /\ s.naming = Sent(Aisha, {Aisha})
      BY <2>9 DEF AutoSuccess, Scenario, Ample, Own
    <3>2. /\ ~f.duplicate /\ f.accountStatus = "ACTIVE"
          /\ f.kycAllowed /\ f.nameMatched
      BY <2>4, <2>6, <2>7, <2>8, <3>1 DEF Sent
    <3>3. Outcome(f) = "AUTO_RECONCILED" /\ ConfidenceScore(f) = 100
      BY <2>2, <2>4, <3>2, DemonstrationScores, EverySignalVetoes
    <3>. QED  BY <2>9, <3>3 DEF AutoSuccess, Scenario, RecommendedAction, Decided, f
  <2>10. CASE s = DuplicateWebhook
    <3>1. s.duplicate
      BY <2>10 DEF DuplicateWebhook, Scenario, Ample, Own
    <3>2. f.duplicate
      BY <2>4, <2>6, <2>7, <2>8, <3>1 DEF Sent
    <3>3. Outcome(f) = "DUPLICATE_EVENT" /\ ConfidenceScore(f) \in 0..39
      BY <2>2, <2>4, <3>2, DemonstrationScores, EverySignalVetoes
    <3>. QED  BY <2>10, <3>3 DEF DuplicateWebhook, Scenario, RecommendedAction, Decided, f
  <2>11. CASE s = SenderNameMismatch
    <3>1. /\ s.account = "ACTIVE" /\ ~s.duplicate
          /\ s.charge[1] = "TIER_3" /\ s.charge[2] = 54000
          /\ s.naming = Sent(<<"samuel">>, {Amina, Aisha})
      BY <2>11 DEF SenderNameMismatch, Scenario, Ample, Own
    <3>2. /\ ~f.duplicate /\ f.accountStatus = "ACTIVE"
          /\ f.kycAllowed /\ ~f.nameMatched
      BY <2>4, <2>6, <2>7, <2>8, <3>1 DEF Sent
    <3>3. Outcome(f) = "MANUAL_REVIEW" /\ ConfidenceScore(f) = 85
      BY <2>2, <2>4, <3>2, DemonstrationScores, EverySignalVetoes
    <3>. QED  BY <2>11, <3>3 DEF SenderNameMismatch, Scenario, RecommendedAction, Decided, f
  <2>12. CASE s = ClosedAccount
    <3>1. /\ s.account = "CLOSED" /\ ~s.duplicate
          /\ s.charge[1] = "TIER_3" /\ s.charge[2] = 54000
          /\ s.naming = Sent(Aisha, {Aisha})
      BY <2>12 DEF ClosedAccount, Scenario, Ample, Own
    <3>2. /\ ~f.duplicate /\ f.accountStatus = "CLOSED"
          /\ f.kycAllowed /\ f.nameMatched
      BY <2>4, <2>6, <2>7, <2>8, <3>1 DEF Sent
    <3>3. Outcome(f) = "MISDIRECTED_PAYMENT" /\ ConfidenceScore(f) = 55
      BY <2>2, <2>4, <3>2, DemonstrationScores, EverySignalVetoes
    <3>. QED  BY <2>12, <3>3 DEF ClosedAccount, Scenario, RecommendedAction, Decided, f
  <2>13. CASE s = KycRestriction
    <3>1. /\ s.account = "ACTIVE" /\ ~s.duplicate
          /\ s.charge[1] = "TIER_1" /\ s.charge[2] = 50001
          /\ s.naming = Sent(Aisha, {Aisha})
      BY <2>13 DEF KycRestriction, Scenario, Ample, Own
    <3>2. /\ ~f.duplicate /\ f.accountStatus = "ACTIVE"
          /\ ~f.kycAllowed /\ f.nameMatched
      BY <2>4, <2>6, <2>7, <2>8, <3>1 DEF Sent
    <3>3. Outcome(f) = "KYC_REVIEW_REQUIRED" /\ ConfidenceScore(f) = 70
      BY <2>2, <2>4, <3>2, DemonstrationScores, EverySignalVetoes
    <3>. QED  BY <2>13, <3>3 DEF KycRestriction, Scenario, RecommendedAction, Decided, f
  <2>14. CASE s = RenameHistoryMatch
    <3>1. /\ s.account = "ACTIVE" /\ ~s.duplicate
          /\ s.charge[1] = "TIER_3" /\ s.charge[2] = 54000
          /\ s.naming = Sent(Aisha, {AishaOkafor, Aisha})
      BY <2>14 DEF RenameHistoryMatch, Scenario, Ample, Own
    <3>2. /\ ~f.duplicate /\ f.accountStatus = "ACTIVE"
          /\ f.kycAllowed /\ f.nameMatched
      BY <2>4, <2>6, <2>7, <2>8, <3>1 DEF Sent
    <3>3. Outcome(f) = "AUTO_RECONCILED" /\ ConfidenceScore(f) = 100
      BY <2>2, <2>4, <3>2, DemonstrationScores, EverySignalVetoes
    <3>. QED  BY <2>14, <3>3 DEF RenameHistoryMatch, Scenario, RecommendedAction, Decided, f
  <2>. QED  BY <1>1, <2>9, <2>10, <2>11, <2>12, <2>13, <2>14 DEF Scenarios
<1>2. ASSUME PaymentTyped  PROVE ScenariosAgree
  BY <1>1, <1>2 DEF ScenariosAgree, Decided
<1>. QED  BY <1>2, PaymentsTyped, PTL
==============================================================================
