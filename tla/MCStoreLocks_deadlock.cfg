CONSTANTS
    builder = builder
    export = export
    transfer = transfer
    get = get
    Reader = {builder}
    Reads <- MCReads
    Builder = builder
    Waiter = {}
    MaxIndex = 1
SPECIFICATION Spec
PROPERTY ApplyEnds
CHECK_DEADLOCK FALSE
