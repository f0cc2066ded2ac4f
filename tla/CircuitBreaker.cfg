SPECIFICATION FairSpec
CONSTANTS
  Requests = {r1, r2, r3, r4}
  Unknown = Unknown
  Auth = Auth
  ErrorTypes <- MCErrorTypes
  ReportedTypes <- MCReportedTypes
  TypeThreshold <- MCTypeThreshold
  FailureThreshold = 3
  SuccessThreshold = 3
  MaxHalfOpenRequests = 2
  Timeout = 1
INVARIANTS ClosedBelowThresholds NoStuckHalfOpen ProbeLimit
PROPERTY ClosesAfterFailuresStop
