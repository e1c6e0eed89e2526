CONSTANTS
    tt = tt
    t1 = t1
    t2 = t2
    idle = idle
    Thread = {tt, t1, t2, idle}
    Idle = idle
    Queue = {}
    Prio <- MCPrio
    InitPrio <- MCInitPrio
    TimerThread = tt
    Timer = {a, b}
    TickSize = 16
    InitTick = {1, 2}
    LastTick = 2
SPECIFICATION Spec
CONSTRAINT Bound
INVARIANTS KernelInv ListInv WakesInTime
SYMMETRY Symmetry
