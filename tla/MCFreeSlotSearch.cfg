SPECIFICATION SlotSpec
CONSTANTS
    DayLen = 5
    DayStart = 1
    DayEnd = 4
    WorkDays <- MCWorkDays
    Earliests <- MCEarliests
    Durations <- MCDurations
    BusySets <- MCBusySets
INVARIANT
    SearchSound
PROPERTY
    SlotReturns
CHECK_DEADLOCK FALSE
