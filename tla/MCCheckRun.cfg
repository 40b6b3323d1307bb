\* Two requests race for one review, two workers, crashes and database faults.
SPECIFICATION Spec
CONSTANTS
  v1 = v1
  r1 = r1
  r2 = r2
  w1 = w1
  w2 = w2
  q1 = q1
  q2 = q2
  Review = {v1}
  Run = {r1, r2}
  Worker = {w1, w2}
  Requester = {q1, q2}
  ReviewOf <- OneReview
  MaxClaims = 2
  MaxRetries = 1
  StallCoversLimit = TRUE
  DatabaseFaults = TRUE
SYMMETRY Symmetry
INVARIANTS
  IInv
  SingleExecutor
  ClaimBound
  ClaimCountIsAccurate
  LostDispatchNeverClaimed
  StalledHasNoWorker
  EndedRunIsExplained
PROPERTIES
  TerminalIsFinal
