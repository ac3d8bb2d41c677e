SPECIFICATION DesktopSpec
CONSTANTS
    MaxSpawns = 3
    MaxRetries = 2
    MaxLaunches = 2
    MaxDeaths = 2
INVARIANTS OneOwnBackend
PROPERTIES WhatWorksIsKept LossIsAnswered
CHECK_DEADLOCK FALSE
