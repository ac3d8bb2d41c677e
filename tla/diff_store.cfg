SPECIFICATION FairSpec
CONSTANTS
    Requests = {q1, q2, q3}
    Readers = {g1}
    Transitions = {t1, t2}
    Size = 2
    None = None
    MaxFaults = 1
PROPERTIES StoredOnceForGood RequestsEnd
CHECK_DEADLOCK FALSE
