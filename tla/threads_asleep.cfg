CONSTANTS
    t1 = t1
    t2 = t2
    t3 = t3
    idle = idle
    Thread = {t1, t2, t3, idle}
    Idle = idle
    defunct = defunct
    Queue <- MCQueue
    Prio <- MCPrio
    InitPrio <- MCInitPrio
    Static = {t1, t2}
    Cleanup = {t2}
    NestMax = 2
SPECIFICATION Spec
INVARIANT DetachedIsOffQueue
