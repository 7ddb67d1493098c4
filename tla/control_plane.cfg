SPECIFICATION FairSpec
CONSTANTS
    hd = hd
    sd = sd
    missing = missing
    t1 = t1
    t2 = t2
    NoThread = NoThread
    Threads = {t1, t2}
    Names <- MCNames
    Entries <- MCEntries
    Built <- MCBuilt
INVARIANTS
    ReadyIsOpen
PROPERTIES
    LockIsReleased
    CallsAreAtomic
    SwitchesAreHostSteps
