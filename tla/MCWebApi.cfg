CONSTANTS
    Caster = {events, timer}
    RingCap = 3
    Emit = 2
    MaxDevices = 64
    DefaultDevices = 10
    DeviceLists <- MCLists
    Sample <- MCSample
    ErrorBound = 5
    RowBound = 2
SPECIFICATION Spec
INVARIANTS
    TypeOK
    AnswerIsTrue
    NewestErrorsShown
    ListAlwaysServed
