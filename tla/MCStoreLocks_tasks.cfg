CONSTANTS
    builder = builder
    export = export
    transfer = transfer
    get = get
    Reader = {builder, transfer}
    Reads <- MCReads
    Builder = builder
    Waiter = {get}
    MaxIndex = 2
SPECIFICATION Spec
INVARIANTS
    ReadsAreOneState
    NoOtherDeadlock
PROPERTIES
    StuckForGood
    EndsUnlessStuck
CHECK_DEADLOCK FALSE
