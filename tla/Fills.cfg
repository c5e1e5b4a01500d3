SPECIFICATION FillsSpec
CONSTANTS
    Fields = {"a", "b"}
    Values = {"u", "v"}
    Nil = "-"
    Keyed = {"b"}
    Required = {"a"}
    Empties <- MCEmpties
    Recordings <- MCRecordings
    MaxReloads = 2
INVARIANTS FillsOK SentWhole Robust
CHECK_DEADLOCK FALSE
