SPECIFICATION LifecycleSpec
CONSTANTS
  Steps = {1, 2, 3}
  Effects = {2}
  Contract = 4
  MaxRuns = 7
INVARIANTS PromotionEarned StruckOut EvidenceIsCurrent
PROPERTY DemotedForCause
CHECK_DEADLOCK FALSE
