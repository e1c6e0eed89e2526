CONSTANTS
    t1 = t1
    t2 = t2
    t3 = t3
    idle = idle
    Thread = {t1, t2, idle}
    Idle = idle
    event = event
    receivers = receivers
    senders = senders
    Queue <- MCQueue
    NoList = NoList
    Following <- MCFollowing
    Prio <- MCPrio
    InitPrio <- MCInitPrio
    Order = "FIFO"
    Time = {"zero", "ticks"}
    Flag = {"INTERRUPTIBLE"}
    Process = {t1}
    Sig = {"USR"}
    EventFlag = {e, f}
    Option = {"AND", "OR_CLEAR"}
    Msg = {m, n}
    NoMsg = NoMsg
    Size = 2
    EventUser = {t1, t2}
    QueueUser = {t1, t2}
SPECIFICATION Spec
INVARIANTS KernelInv NoWaiterSatisfied NoMessageWaits
PROPERTIES FlagGivenOnce QueueImplementsAbstract
SYMMETRY Symmetry
