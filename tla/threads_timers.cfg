CONSTANTS
    t1 = t1
    t2 = t2
    t3 = t3
    idle = idle
    Thread = {t1, t2, t3, idle}
    Idle = idle
    defunct = defunct
    Queue <- MCQueue
    Prio <- MCPrio
    InitPrio <- MCInitPrio
    Static = {t1, t2}
    Cleanup = {t2}
    NestMax = 2
    Timer = {a, b, c}
    TickSize = 8
    InitTick = {1, 2}
SPECIFICATION ClockSpec
CONSTRAINT InTime
INVARIANTS FlagInv SortedInv FiresOnTime DeletedUnlinked
INVARIANTS KernelInv FreedIsNowhere DeadIsReaped NoMissedPreemption
PROPERTIES EarlyFirst DefunctDrains
