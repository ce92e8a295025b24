SPECIFICATION Spec
CONSTANTS
    Sessions <- MCSessions
    Foci <- MCFoci
    Filters = {"f"}
    MaxActs = 3
    Amounts = {1, 2}
    Dids = {"a", "b"}
INVARIANTS
    TypeOK
    ShowsWhatItTold
    RowsArePayments
    CalmKeysMatch
    CalmFreeTierHolds
    ToldRuleHolds
PROPERTY SuccessUrlIsCleaned
CHECK_DEADLOCK FALSE
