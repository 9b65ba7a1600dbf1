\* An operator's kill commits between the read and the write of a certificate.
SPECIFICATION Spec
CONSTANTS
  r1 = r1
  r2 = r2
  r3 = r3
  r4 = r4
  r5 = r5
  Nobody = Nobody
  Requests <- ThreeRequests
CHECK_DEADLOCK FALSE
INVARIANT AnsweredCertTerminates
