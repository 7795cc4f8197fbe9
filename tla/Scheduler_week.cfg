SPECIFICATION FairSpec
CONSTANTS
    a = a
    b = b
    Groups <- BusyAndSlow
    Nodes = {a, b}
    WeekLength = 2
    DayLength = 4
    DueDay <- Due
    Stagger <- Queue
    Shard <- Repositories
    Placements <- EveryPlace
    Windows <- SomeWindows
INVARIANT CalendarServed
INVARIANT TurnsKept
INVARIANT OwedIsPursued
PROPERTY LinkNotOversubscribed
PROPERTY RestAfterSuccess
PROPERTY CooldownKept
PROPERTY OwedIsServed
