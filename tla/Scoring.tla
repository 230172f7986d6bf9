------------------------------- MODULE Scoring -------------------------------
(* The confidence score and the outcome of a payment: the private methods       *)
(* score(), outcome(), nameMatches() and recommendedAction() of                 *)
(* ReconciliationService, its limits, and the mapping previewScore() makes from *)
(* an API request to the inputs of score().                                     *)
(* There is no state here; MCScoring drives the operators over every input.     *)
EXTENDS Integers, Sequences, FiniteSets

\* virtual_account_status; NoStatus is the '' (or undefined) of a missing account.
AccountStatuses == {"ACTIVE", "RESTRICTED", "EXPIRED", "CLOSED", "UNDER_REVIEW"}
NoStatus == "NO_STATUS"

Tiers == {"TIER_1", "TIER_2", "TIER_3", "TIER_4"}

CustomerStatuses == {"ACTIVE", "RESTRICTED", "SUSPENDED", "CLOSED"}

\* reconciliation_outcome without REFUND_REQUIRED, which no code path returns.
Outcomes == {"AUTO_RECONCILED", "MANUAL_REVIEW", "PENDING_VERIFICATION", "DUPLICATE_EVENT",
             "MISDIRECTED_PAYMENT", "KYC_REVIEW_REQUIRED", "REJECTED"}

\* The seven signals of one payment.
Facts == [accountFound   : BOOLEAN,
          accountStatus  : AccountStatuses \cup {NoStatus},
          customerActive : BOOLEAN,
          verified       : BOOLEAN,
          duplicate      : BOOLEAN,
          kycAllowed     : BOOLEAN,
          nameMatched    : BOOLEAN]

\* Slip: a signal that speaks against the payment costs nothing.
PointsWithoutPenalty(signal, reward, penalty) == IF signal THEN reward ELSE 0

\* apply() for one rule of score().
Points(signal, reward, penalty) == IF signal THEN reward ELSE -penalty

RawScore(f) == Points(f.accountFound, 15, 40)
             + Points(f.accountStatus = "ACTIVE", 20, 35)
             + Points(f.customerActive, 15, 25)
             + Points(f.verified, 25, 30)
             + Points(~f.duplicate, 10, 100)
             + Points(f.kycAllowed, 10, 30)
             + Points(f.nameMatched, 15, 10)

ConfidenceScore(f) == IF RawScore(f) < 0 THEN 0
                      ELSE IF RawScore(f) > 100 THEN 100 ELSE RawScore(f)

Misdirected(f) == ~f.accountFound \/ f.accountStatus \in {"CLOSED", "EXPIRED"}
KycBlocked(f)  == f.accountStatus = "RESTRICTED" \/ ~f.kycAllowed

\* Slip: the early returns forgotten, the score alone decides.
OutcomeByScore(f) == CASE ConfidenceScore(f) >= 90 -> "AUTO_RECONCILED"
                       [] ConfidenceScore(f) \in 40..89 -> "MANUAL_REVIEW"
                       [] OTHER -> "REJECTED"

\* outcome(): the first test that holds decides, in the order of the early returns.
Outcome(f) ==
  IF f.duplicate              THEN "DUPLICATE_EVENT"
  ELSE IF ~f.verified         THEN "PENDING_VERIFICATION"
  ELSE IF Misdirected(f)      THEN "MISDIRECTED_PAYMENT"
  ELSE IF KycBlocked(f)       THEN "KYC_REVIEW_REQUIRED"
  ELSE IF ~f.nameMatched      THEN "MANUAL_REVIEW"
  ELSE IF ConfidenceScore(f) >= 90 THEN "AUTO_RECONCILED"
  ELSE IF ConfidenceScore(f) >= 40 THEN "MANUAL_REVIEW"
  ELSE "REJECTED"

\* The action recommended to the administrators with a case.
RecommendedAction(outcome) ==
  CASE outcome \in {"MISDIRECTED_PAYMENT", "REJECTED"} -> "REJECT_OR_REFUND"
    [] outcome = "KYC_REVIEW_REQUIRED"                 -> "REQUEST_KYC_REVIEW"
    [] outcome = "DUPLICATE_EVENT"                     -> "MARK_DUPLICATE"
    [] OTHER                                           -> "MANUAL_REVIEW"

-----------------------------------------------------------------------------
(* The limits and the names behind the signals kycAllowed and nameMatched.      *)

KycLimit == [TIER_1 |-> 50000, TIER_2 |-> 200000, TIER_3 |-> 5000000]

\* The limit of TIER_4 is Number.MAX_SAFE_INTEGER, above every amount modelled here.
WithinLimit(kycTier, amount) == kycTier = "TIER_4" \/ amount <= KycLimit[kycTier]

\* A name is the sequence of its words as normalizeName() leaves them, lower case and without
\* punctuation; the order it sorts them in makes no difference to what follows.  The words the
\* sender has are counted where they stand, so that a word that occurs twice counts twice.
WordsFound(candidate, sender) ==
  {i \in DOMAIN candidate : \E j \in DOMAIN sender : sender[j] = candidate[i]}

\* Slip: two thirds are enough.
TwoThirds(found, all) == 3 * found >= 2 * all

\* Three quarters of the words; equal names are a case of it.
CloseEnough(found, all) == 4 * found >= 3 * all

NameMatches(sender, candidates) ==
  /\ sender # <<>>
  /\ \E name \in candidates : /\ name # <<>>
                             /\ CloseEnough(Cardinality(WordsFound(name, sender)), Len(name))

-----------------------------------------------------------------------------
(* The body of POST /reconciliation/score-preview.  Every field is optional    *)
(* and the code compares it with one value, so a field is "yes", "no" or        *)
(* "absent" (a status field: the status or "absent").                           *)

EmptyRequest == [field \in {"accountFound", "accountStatus", "accountActive", "customerActive",
                            "customerStatus", "transactionVerified", "providerVerified",
                            "duplicate", "kycAllowed", "nameMatched", "senderNameMatched"}
                   |-> "absent"]

\* Slip: only the documented of the two field names is read.
FirstYes(documented, short) == documented = "yes"

EitherYes(documented, short) == "yes" \in {documented, short}

PreviewFacts(in) ==
  [accountFound   |-> in.accountFound # "no",
   accountStatus  |-> CASE in.accountStatus # "absent" -> in.accountStatus
                        [] in.accountStatus = "absent" /\ in.accountActive = "no" -> "CLOSED"
                        [] OTHER -> "ACTIVE",
   customerActive |-> IF in.customerActive # "absent"
                      THEN in.customerActive = "yes"
                      ELSE in.customerStatus # "RESTRICTED",
   verified       |-> EitherYes(in.transactionVerified, in.providerVerified),
   duplicate      |-> in.duplicate = "yes",
   kycAllowed     |-> in.kycAllowed # "no",
   nameMatched    |-> EitherYes(in.nameMatched, in.senderNameMatched)]

PreviewScore(in) == ConfidenceScore(PreviewFacts(in))

-----------------------------------------------------------------------------
\* Every signal in the payment's favour.
Clean(f) == /\ f.accountFound /\ f.accountStatus = "ACTIVE" /\ f.customerActive
            /\ f.verified /\ ~f.duplicate /\ f.kycAllowed /\ f.nameMatched
==============================================================================
