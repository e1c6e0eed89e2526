CONSTANTS
    t1 = t1
    t2 = t2
    t3 = t3
    idle = idle
    Thread = {t1, t2, t3, idle}
    Idle = idle
    sem = sem
    Queue <- MCQueue
    Prio <- MCPrio
    InitPrio <- MCInitPrio
    SemValueMax = 1
    InitValue = 0
    Order = "PRIO"
    Time = {"zero", "ticks"}
    Flag = {"KILLABLE"}
    Process = {t2}
    Sig = {"KILL"}
SPECIFICATION Spec
INVARIANTS TypeOK KernelInv NoWaiterLeftBehind DetachedIsEmpty MostUrgentFirst NobodyStranded
PROPERTIES ImplementsAbstract
