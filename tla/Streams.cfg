SPECIFICATION StreamSpec
CONSTANTS
    Entry <- MCEntry
    Marked <- MCMarked
    Mark = Mark
    Size <- MCSize
    Room = 3
    MaxEvents = 2
INVARIANTS MissesAtMostTheGone RepeatsAtMostTheNew BytesInPlace NotCutShort
PROPERTIES StreamEnds
CHECK_DEADLOCK FALSE
