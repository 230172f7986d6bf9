SPECIFICATION AnnouncementsSpec
CONSTANTS
  Calls = {q1, q2}
  Keys = {k1}
  Bodies = {b1, b2}
  NoCall = NoCall
  NoRow = NoRow
  MaxAttempts = 2
  MaxStalls = 1
  Notices = {q1, q2}
  Subscribers = {s1}
  Nobody = Nobody
  PostLimit = 2
  Dispatchers = {w1, w2}
  MaxFaults = 1
CHECK_DEADLOCK FALSE
SYMMETRY Symmetry
INVARIANTS
  ExecutedOnce
  AnswersAgree
  AnsweredIsAnnounced
  DeliveredIsAccepted
  QuietDelivery
  OneMorePerFailure
