\* Four scopes below the root, three values.
SPECIFICATION Spec
CONSTANTS
    NullScope = NullScope
    MaxScopes = 4
    MaxValues = 3
INVARIANTS
    NothingDangles
    ValuesLiveWithScope
CHECK_DEADLOCK FALSE
