SPECIFICATION Spec
CONSTANTS
    Uploads = {u1, u2}
    Downloads = {d1}
    Binaries = {b1}
    Names = {n1, n2, n3}
    CleanNames = {n1}
    UncleanFuncFilename = func
    None = None
    MaxRetries = 2
    MaxRestarts = 0
INVARIANT CreatedIsStored
CHECK_DEADLOCK FALSE
