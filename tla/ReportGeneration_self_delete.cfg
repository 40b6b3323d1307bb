\* Two overlapping attempts at one run.
SPECIFICATION Spec
CONSTANTS
  None = None
  Run = {r1}
  Media = {m1, m2}
  Process = {p1, p2}
  Language = {"fa"}
  MaxOutstanding = 2
  MaxCrashes = 0
CHECK_DEADLOCK FALSE
PROPERTIES
  AttachedFileStays
