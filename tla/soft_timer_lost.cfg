CONSTANTS
    tt = tt
    t1 = t1
    t2 = t2
    idle = idle
    Thread = {tt, t1, idle}
    Idle = idle
    Queue = {}
    Prio <- MCPrio
    InitPrio <- MCInitPrioLow
    TimerThread = tt
    Timer = {a}
    TickSize = 16
    InitTick = {1, 2}
    LastTick = 4
SPECIFICATION Spec
INVARIANT WakesInTime
