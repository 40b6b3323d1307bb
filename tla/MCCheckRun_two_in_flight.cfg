\* Two requests at once for one review.
SPECIFICATION Spec
CONSTANTS
  v1 = v1
  r1 = r1
  r2 = r2
  w1 = w1
  w2 = w2
  q1 = q1
  q2 = q2
  Review = {v1}
  Run = {r1, r2}
  Worker = {w1}
  Requester = {q1, q2}
  ReviewOf <- OneReview
  MaxClaims = 1
  MaxRetries = 0
  StallCoversLimit = TRUE
  DatabaseFaults = FALSE
INVARIANTS
  OneInFlight
