\* Two chunks, two workers, two hosts, and one mishap at any step.
SPECIFICATION Spec
CONSTANTS
  w1 = w1
  w2 = w2
  x1 = x1
  x2 = x2
  h1 = h1
  h2 = h2
  a1 = a1
  None = None
  NumJobs = 2
  Worker = {w1, w2}
  Response = {x1, x2}
  Error = {"error"}
  Host = {h1, h2}
  Assembler = {a1}
  MaxAttempts = 2
  MaxMishaps = 1
SYMMETRY Symmetry
INVARIANTS
  InductiveInvariant
  CompletedIsReadable
  ManifestIsOfTheLedger
PROPERTIES
  OnlyTheHolderAnswers
  CompletedIsFinal
  ImplementsChunkLeases
