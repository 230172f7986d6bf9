SPECIFICATION Spec
INVARIANTS
  AutoExactlyWhenClean
  CreditNeedsTheName
  ScenariosAgree
  PreviewAgrees
  WebhookCannotSway
