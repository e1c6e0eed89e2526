CONSTANTS
    server = server
    c1 = c1
    c2 = c2
    idle = idle
    home = home
    away = away
    Thread = {server, c1, c2, idle}
    Idle = idle
    receivers = receivers
    senders = senders
    Queue <- MCQueue
    Prio <- MCPrio
    InitPrio <- MCInitPrio
    Server = server
    Holder = {home, away}
    HolderOf <- MCHolderOf
    Plain = Plain
    NoMsg = NoMsg
    PoolSize = 2
    Time = {"ticks"}
    Process = {c2}
    Sig = {"USR"}
SPECIFICATION Spec
INVARIANTS KernelInv StateMatchesWaiters QueuedSendersInOrder ReplyIsMine MessagesAccounted
