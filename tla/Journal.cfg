SPECIFICATION Spec
CONSTANTS
    Procs = {p, q}
    e1 = e1
    e2 = e2
    e3 = e3
    e4 = e4
    e5 = e5
    Entries <- MCEntries
    Size <- MCSize
    HeaderSize = 2
    PrefixSize = 1
    MaxRecord = 4
    MaxBytes = 8
    MaxEntries = 2
    FsyncPersistsName = TRUE
    SizeMayLead = FALSE
INVARIANTS
    Reopens
    IndexMatchesFile
PROPERTIES
    KeepsPromise
