SPECIFICATION FairSpec
CONSTANTS
    Thread = {t1, t2, t3, t4}
INVARIANTS
    Exclusion
    NoLostWakeup
PROPERTIES
    Drains
    Implements
