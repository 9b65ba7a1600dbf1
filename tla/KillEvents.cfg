\* Five requests about one agent, of any kind and in any order.
SPECIFICATION Spec
CONSTANTS
  r1 = r1
  r2 = r2
  r3 = r3
  r4 = r4
  r5 = r5
  Nobody = Nobody
  Requests <- FiveRequests
CHECK_DEADLOCK FALSE
SYMMETRY FiveRequestsAlike
INVARIANTS TypeOK StatusAgreement CertHasItsToken
PROPERTIES FirstCertStands NoResurrection PruneSparesLive
