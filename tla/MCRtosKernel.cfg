CONSTANTS
    NumTasks = 2
    MaxRestarts <- MCMaxRestarts
    Events = {1, 2}
    Payloads <- MCPayloads
    TickEvent = 2
    Period = 2
    Budgets <- MCBudgets
    MaxClock = 3
SPECIFICATION Spec
INVARIANTS TypeOK DispatchMatchesMachine SleepJustified
PROPERTIES Refinement SleepersWake
CHECK_DEADLOCK FALSE
