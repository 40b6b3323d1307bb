\* Every part of the way from the sources to a verdict, one after another.
SPECIFICATION Spec
CONSTANTS
  None = None
  SourceDocuments <- Documents
  Headers = 3
  Torn = Torn
  ReceiptBytes = ReceiptBytes
  w1 = w1
  w2 = w2
  w3 = w3
  j1 = j1
  j2 = j2
  Litter = Litter
  ResponseA = {a1, a2}
  ResponseB = {b1}
  Decision = {d1, d2}
  Process = {p1, p2}
  Tenant = {t1, t2}
  User = {u1, u2, u3}
  Server = {p1, p2}
  Candidate = {c1, c2}
  Foreign = other
  Unattested = {}
  Handmade <- OfTheOperator
  m1 = m1
  m2 = m2
  u1 = u1
  u2 = u2
  u3 = u3
  t1 = t1
  t2 = t2
SYMMETRY Symmetry
CHECK_DEADLOCK FALSE
INVARIANTS
  WorkspaceHasAnOwner
  ReceiptIsTrue
  GraphIsOfItsPages
  QueueIsTrue
  CandidatesHaveOneFate
  ReleaseIsFounded
  VerdictIsEstablished
PROPERTIES
  MembershipIsGuarded
  EvidenceIsRetained
  StatusNeverContradicts
