SPECIFICATION Spec
CONSTANTS
  Recipients = {r1}
  Candidates = {c1}
  RetryLimit = 1
  Scans = {s1, s2}
  MaxFaults = 2
INVARIANTS
  TypeOK
  DuplicatesHaveACause
  SentReportIsEnqueued
PROPERTIES
  CandidatesAreMailed
