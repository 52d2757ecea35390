SPECIFICATION Spec
CONSTANTS
    first = first
    second = second
    human = human
    sym = sym
    Twaps = {first, second}
    NSlices = 3
    MaxCrashes = 1
    Actors = {first, second, human}
    Humans = {human}
    Symbols = {sym}
    Deals <- CooldownDeals
    Vetoes = {"REJECTED_CONCENTRATION"}
    ErrorWindow = 0
    HourWindow = 1
    DayWindow = 2
    MaxBypasses = 1
INVARIANTS TwapTypeOK SlicesBounded CompletedIsWhole CancelStops CooldownTypeOK BacksOff
PROPERTIES CancelledStays TasksEnd CooldownEnds
CHECK_DEADLOCK FALSE
