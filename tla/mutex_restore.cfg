CONSTANTS
    low = low
    mid = mid
    high = high
    idle = idle
    a = a
    b = b
    Thread = {low, mid, high, idle}
    Idle = idle
    NoOwner = NoOwner
    Mutexes = {a, b}
    Queue <- MCQueue
    Prio <- MCPrio
    InitPrio <- MCInitPrio
    HoldMax = 1
    Order = "PRIO"
    Time = {"forever"}
    Flag = {"UNINTERRUPTIBLE"}
    Process = {}
    Sig = {}
SPECIFICATION Spec
INVARIANTS PriorityRestored
