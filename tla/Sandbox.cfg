\* Two previews of one project in a store that retains one run.
SPECIFICATION Spec
CONSTANTS
    r1 = r1
    r2 = r2
    Runs = {r1, r2}
    Previews = {r1, r2}
    Polled = {r1}
    MaxRetained = 1
INVARIANTS
    NoLiveAfterEnd
    TruthfulStatus
    EndAnnouncedOnce
PROPERTIES
    EndIsFinal
    EveryRunEnds
    OneAtATime
CHECK_DEADLOCK FALSE
