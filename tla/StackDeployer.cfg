SPECIFICATION FairSpec
CONSTANTS
    Operators = {o1, o2}
    UsEast1 = FALSE
    MaxCalls = 2
    MaxVersion = 2
INVARIANT TypeOK
INVARIANT ReportedIsApplied
INVARIANT SomeReportIsTrue
INVARIANT ArtifactsExist
INVARIANT GatewayRunsBuiltCode
INVARIANT UndisturbedCallsSucceed
PROPERTY CallsEnd
CHECK_DEADLOCK FALSE
