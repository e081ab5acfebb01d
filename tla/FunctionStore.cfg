SPECIFICATION FairSpec
CONSTANTS
    Uploads = {u1, u2}
    Downloads = {d1}
    Binaries = {b1}
    Names = {n1, n2, n3}
    CleanNames = {n1}
    UncleanFuncFilename = func
    None = None
    MaxRetries = 2
    MaxRestarts = 1
INVARIANTS RowHasFile ShortOnlyIfOverlapped OrphanHasCause
PROPERTIES RequestsEnd CatalogSpec
CHECK_DEADLOCK FALSE
