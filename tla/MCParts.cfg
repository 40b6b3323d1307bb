\* Every part of the service beside the checks, the reader's tab, and the page tools, one after another.
SPECIFICATION Spec
CONSTANTS
  None = None
  r1 = r1
  r2 = r2
  m1 = m1
  m2 = m2
  m3 = m3
  p1 = p1
  p2 = p2
  p3 = p3
  v1 = v1
  v2 = v2
  Todo = Todo
  Failed = Failed
  Seeder = {s1, s2, s3}
  Evaluation = {c1}
  g1 = g1
  g2 = g2
  e1 = e1
  e2 = e2
  u1 = u1
  u2 = u2
  t1 = t1
  Query = {q1}
  t2 = t2
  BookPage = {g1, g2}
  TranscriptRecord = {e1, e2}
  PagesOf <- ReadFrom
  QueueSize = 3
  Timeout = 3
  LoadTime = 1
  Run = {r1, r2}
  Media = {m1, m2, m3}
  Language = {"fa", "en"}
  NumPages = 2
  Variant = {v1, v2}
  Process = {p1, p2}
  Length = 4
  Transcripts <- CutDocuments
  MaxPages = 3
  MaxBytes = 4
CHECK_DEADLOCK FALSE
INVARIANTS
  CatalogueIsWhole
  ImportsAreWhole
  ReportFileIsTrue
  StagesAgree
  NothingIsDropped
  BundlesAreWhole
  OcrIsServed
  EvidenceIsTrue
PROPERTIES
  UndisturbedFileStays
  SessionIsTrue
  AskedIsAnswered
  EveryPageEnds
