CONSTANTS
    Readers = {r1}
    Writers = {w1}
    Choosers = {t1}
    NoWriter = NoWriter
SPECIFICATION FairSpec
PROPERTY FirstModelReturns
CHECK_DEADLOCK FALSE
