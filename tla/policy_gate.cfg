SPECIFICATION FairSpec
CONSTANTS
    Runs = {r1, r2}
    Consumers = {c1, c2}
    c1 = c1
    c2 = c2
    Evidence <- MCEvidence
    Subscribers = {c1}
    Configs <- MCConfigs
    MaxEvents = 2
INVARIANTS AffectedConsumersBlock VerdictsAreJustified OneCommentWhenSerial
PROPERTIES RunsEnd
CHECK_DEADLOCK FALSE
