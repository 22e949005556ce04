SPECIFICATION PacksSpec
CONSTANTS
    Plans <- AllPlans
    MaxItems = 2
    MaxPages = 2
    MaxCrashes = 1
    Careless <- MCCareless
    LateCheck <- MCLateCheck
    Unusable <- MCUnusable
    Strict <- MCStrict
    Unrepeatable <- MCUnrepeatable
    Endless <- MCEndless
    Unaimed <- MCUnaimed
    ListFields = {"a", "b", "c"}
    ListRows <- MCRows
    ListLength = 3
    Absent <- MCAbsent
    Columns <- MCColumns
    Positional <- MCPositional
    Digits <- MCDigits
    Texts = {"", "x"}
    MaxRows = 2
INVARIANTS
    CallTypeOK
    SuccessIsTrue
    WritesHaveACause
    RequestsAreWhole
    ItemsKept
    TablesSurvive
PROPERTY CallEnds
CHECK_DEADLOCK FALSE
