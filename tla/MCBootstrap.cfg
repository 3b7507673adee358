SPECIFICATION FairSpec
CONSTANTS
    Routers = {1, 2, 3}
    Candidates = {1, 3}
    Adjacent <- MCAdjacent
    Toward <- MCToward
    Scenarios <- MCScenarios
    Period = 12
    Delays = {3, 9}
    Budgets <- MCBudgets
INVARIANTS SteadyBsr RpOutlivesBsr
PROPERTY Settles
