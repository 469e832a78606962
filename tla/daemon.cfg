CONSTANTS
    Clients = {"c1", "c2", "c3"}
    Scenarios <- MCScenarios
    MaxDeaths = 1
SPECIFICATION Spec
CHECK_DEADLOCK FALSE
INVARIANT AnswersUnderstood
PROPERTIES RootConnects OneDaemonStays EveryRequestEnds
