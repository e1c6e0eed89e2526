CONSTANTS
    t1 = t1
    t2 = t2
    idle = idle
    Thread = {t1, t2, idle}
    Idle = idle
    NoOwner = NoOwner
    _futex_lock = lock
    waiting_thread = waiting
    Mutexes = {lock}
    Queue <- MCQueue
    Prio <- MCPrio
    InitPrio <- MCInitPrio
    HoldMax = 2
    Order = "FIFO"
    Time = {"ticks", "forever"}
    Flag = {"INTERRUPTIBLE"}
    Process = {t1, t2}
    Sig = {"USR"}
    Value = {0, 1}
SPECIFICATION FutexSpec
INVARIANT LockIsReleased
