SPECIFICATION FairSpec
CONSTANTS
    a = a
    b = b
    Name <- MCName
    Slot <- OneSlot
    NoSlot = NoSlot
    Config <- Swap
    MaxDay = 2
    PeriodStart <- MCPeriodStart
    NoPeriod = NoPeriod
    NoEntry = NoEntry
    MaxUsage = 1
INVARIANTS TypeOK CountersOfOnePeriod
PROPERTIES SpentMonthKept TurnNoticed
