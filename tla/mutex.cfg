CONSTANTS
    low = low
    mid = mid
    high = high
    idle = idle
    a = a
    b = b
    Thread = {low, mid, high, idle}
    Idle = idle
    NoOwner = NoOwner
    Mutexes = {a}
    Queue <- MCQueue
    Prio <- MCPrio
    InitPrio <- MCInitPrio
    HoldMax = 2
    Order = "PRIO"
    Time = {"zero", "ticks", "forever"}
    Flag = {"INTERRUPTIBLE"}
    Process = {mid}
    Sig = {"USR"}
SPECIFICATION FairSpec
INVARIANTS KernelInv OwnerKnows NoPriorityInversion PriorityRestored
PROPERTIES UrgentThreadEnters
