SPECIFICATION Spec
CONSTANTS
    Skills <- MCSkills
    Body <- MCBody
    MaxPass = 2
INVARIANTS ReplayOK ResultMeans
PROPERTIES SentAgainOnlyUnseen
CHECK_DEADLOCK FALSE
