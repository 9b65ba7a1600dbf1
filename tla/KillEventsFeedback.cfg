\* Two verdicts on one token.
SPECIFICATION Spec
CONSTANTS
  r1 = r1
  r2 = r2
  r3 = r3
  r4 = r4
  r5 = r5
  Nobody = Nobody
  Requests <- FiveRequests
CHECK_DEADLOCK FALSE
PROPERTY FeedbackSingleUse
