CONSTANTS
    t1 = t1
    t2 = t2
    t3 = t3
    idle = idle
    Thread = {t1, t2, t3, idle}
    Idle = idle
    receivers = receivers
    senders = senders
    Queue <- MCQueue
    Prio <- MCPrio
    InitPrio <- MCInitPrio
    Mail = {m, n}
    NoMail = NoMail
    Size = 2
    Order = "FIFO"
    Time = {"zero", "ticks"}
    Flag = {"INTERRUPTIBLE"}
    Process = {t1}
    Sig = {"USR"}
SPECIFICATION Spec
INVARIANTS KernelInv NobodyForgotten DetachedIsEmpty
PROPERTIES ImplementsAbstract
SYMMETRY Symmetry
