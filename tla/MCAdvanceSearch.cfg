SPECIFICATION WorkSpec
CONSTANTS
    DayLen = 5
    DayStart = 1
    DayEnd = 4
    WorkDays <- MCWorkDays
    WorkFroms <- MCStarts
    WorkAmounts <- MCHours
INVARIANT
    WorkSound
CHECK_DEADLOCK FALSE
