\* Two migrations and three executions in any mode, with failures and crashes.
CONSTANTS
    LastMigration = 2
    MaxRuns = 3
    MaxFaults = 2
    Work <- MCWork
SPECIFICATION Spec
INVARIANTS
    InStep
    RowsInOrder
PROPERTIES
    AllOrNothing
    LastIsReverted
CHECK_DEADLOCK FALSE
