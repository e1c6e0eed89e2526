------------------------------- MODULE Channel -------------------------------
(***************************************************************************)
(* An IPC channel of the process layer (lwp_ipc.c): clients send messages, *)
(* some of which want a reply, and a server receives and replies.  A       *)
(* channel keeps the messages no one has received, the suspended receiver, *)
(* the suspended senders and the one sender the next reply is for.         *)
(* Messages come from a pool that all channels share.  Threads that wait   *)
(* are ended by a reply or a message, by timeout functions the channel     *)
(* puts in their thread_timer, by wake-up functions that a signal calls,   *)
(* and by the last close.                                                  *)
(*                                                                         *)
(*   run         in application code                                       *)
(*   sending     has sent a request and suspended itself, about to call    *)
(*               rt_schedule                                               *)
(*   sent        switched out by that call; will look at thread->error     *)
(*   replied     has copied the reply out of msg_ret, which it will free   *)
(*   receiving   suspended as the receiver, about to call rt_schedule      *)
(*   received    switched out by that call; will look at thread->error     *)
(*   closing     in the loops of the last close, interrupts disabled       *)
(*   resched     about to call rt_schedule as the last thing in a call     *)
(*                                                                         *)
(* Readers that poll the channel (reader_queue) are not in the model.      *)
(***************************************************************************)
EXTENDS Kernel

CONSTANTS
    receivers,      \* ch->parent.suspend_thread
    senders,        \* ch->wait_thread
    Server,         \* the thread that receives and replies
    Holder,         \* the parties that open the channel (the processes)
    HolderOf,       \* the one whose reference a thread uses
    Plain,          \* a message that wants no reply
    NoMsg,          \* no message: msg_ret is RT_NULL
    PoolSize,       \* RT_CH_MSG_MAX_NR
    Time,           \* the time arguments in use: "zero", "ticks", "forever"
    Process,        \* the threads that belong to a process (thread->lwp)
    Sig             \* the signals they may be sent

ASSUME ChannelAssumption ==
    /\ receivers \in Queue /\ senders \in Queue /\ receivers # senders
    /\ Server \in App
    /\ HolderOf \in [App -> Holder]
    /\ Plain \notin App \X {0, 1}
    /\ NoMsg \notin (App \X {0, 1}) \cup {Plain}
    /\ PoolSize \in Nat \ {0}
    /\ Time \subseteq {"zero", "ticks", "forever"}
    /\ Process \subseteq App
    /\ Sig \subseteq Signal

VARIABLES
    k,          \* the kernel
    ch,         \* stat, reply and wait_msg
    pool,       \* how many messages of ipc_msg_pool can be allocated, and how many
                \* were on a channel when it was closed
    open,       \* the holders of a reference: ch->ref is their number
    pc,         \* where each thread is
    msg_ret,    \* thread->msg_ret
    wakeup,     \* thread->wakeup.func
    serial,     \* which of its requests a thread has sent last, modulo 2
    serving     \* the request the server has in hand: what it replies to

vars == <<k, ch, pool, open, pc, msg_ret, wakeup, serial, serving>>

Location == {"run", "sending", "sent", "replied", "receiving", "received",
             "closing", "resched"}

\* A request is told by its sender and its serial number; a reply is told by the
\* request it answers.  Idle stands for RT_NULL in ch->reply.
Request == App \X {0, 1}
Message == Request \cup {Plain}
need_reply(m) == m # Plain
Sender(m) == m[1]

\* rt_raw_channel_open of a channel that does not exist
Fresh == [stat |-> "IDLE", reply |-> Idle, msgs |-> <<>>]

TypeOK ==
    /\ k \in KernelState
    /\ ch \in [stat : {"IDLE", "WAIT", "ACTIVE"}, reply : Thread, msgs : Seq(Message)]
    /\ pool \in [free : 0 .. PoolSize, lost : 0 .. PoolSize]
    /\ open \subseteq Holder
    /\ pc \in [Thread -> Location]
    /\ msg_ret \in [Thread -> Message \cup {NoMsg}]
    /\ wakeup \in [Thread -> {"none", "sender_wait_recv", "sender_wait_reply", "receiver"}]
    /\ serial \in [App -> {0, 1}]
    /\ serving \in Message

Init ==
    /\ \E main \in App : k = KernelStart(main)
    /\ ch = Fresh
    /\ pool = [free |-> PoolSize, lost |-> 0]
    /\ open = {}
    /\ pc = [t \in Thread |-> "run"]
    /\ msg_ret = [t \in Thread |-> NoMsg]
    /\ wakeup = [t \in Thread |-> "none"]
    /\ serial = [t \in App |-> 0]
    /\ serving = Plain

At(t, l) == k.cur = t /\ pc[t] = l
Goto(t, l) == pc' = [pc EXCEPT ![t] = l]
SetError(s, t, e) == [s EXCEPT !.err[t] = e]

\* Application code of t calls a function of the channel.
Calls(t) == t \in App /\ At(t, "run") /\ HolderOf[t] \in open

Clients == App \ {Server}

-----------------------------------------------------------------------------
(* _ipc_msg_alloc and _ipc_msg_free *)

MayAlloc == pool.free > 0
Alloc == [pool EXCEPT !.free = @ - 1]
Free == [pool EXCEPT !.free = @ + 1]

\* rt_channel_list_suspend, and the thread_timer if there is a time
SuspendOn(s, q, t, time) ==
    LET u == rt_ipc_list_suspend(s, q, t, "FIFO", "INTERRUPTIBLE")
    IN IF time = "ticks" THEN StartThreadTimer(u, t) ELSE u

\* rt_channel_list_resume of the receiver that gets a message
ResumeReceiver(s) ==
    LET r == Head(s.list[receivers])
    IN rt_thread_resume(SetError(s, r, "EOK"), r)

-----------------------------------------------------------------------------
(* _rt_raw_channel_send_recv_timeout.  A call that finds no free message,  *)
(* or wants a reply in no time, changes nothing.                           *)

\* need_reply is 0: the message goes to the receiver that waits, or is queued.
PlainKernel ==
    IF ch.stat = "WAIT" THEN ResumeReceiver(k) ELSE k

PutPlain ==
    LET r == Head(k.list[receivers])
    IN /\ MayAlloc
       /\ pool' = Alloc
       /\ IF ch.stat = "WAIT"
          THEN /\ msg_ret' = [msg_ret EXCEPT ![r] = Plain]
               /\ wakeup' = [wakeup EXCEPT ![r] = "none"]
               /\ ch' = [ch EXCEPT !.stat = "IDLE"]
          ELSE /\ ch' = [ch EXCEPT !.msgs = Append(@, Plain)]
               /\ UNCHANGED <<msg_ret, wakeup>>

Send(t) ==
    /\ Calls(t)
    /\ PutPlain
    /\ k' = PlainKernel
    /\ Goto(t, "resched")
    /\ UNCHANGED <<open, serial, serving>>

\* need_reply is 1 and no receiver waits: the message is queued.
RequestQueues(t, time) ==
    LET m == <<t, 1 - serial[t]>>
    IN /\ Calls(t) /\ MayAlloc /\ time # "zero"
       /\ MaySuspend(k, t, "INTERRUPTIBLE")
       /\ ch.stat # "WAIT"
       /\ k' = SuspendOn(SetError(k, t, "EOK"), senders, t, time)
       /\ ch' = [ch EXCEPT !.msgs = Append(@, m)]
       /\ pool' = Alloc
       /\ wakeup' = [wakeup EXCEPT ![t] = "sender_wait_recv"]
       /\ serial' = [serial EXCEPT ![t] = 1 - @]
       /\ Goto(t, "sending")
       /\ UNCHANGED <<open, msg_ret, serving>>

\* A receiver waits: it gets the message and the reply is for t.
RequestHandsOver(t, time) ==
    LET m == <<t, 1 - serial[t]>>
        r == Head(k.list[receivers])
    IN /\ Calls(t) /\ MayAlloc /\ time # "zero"
       /\ MaySuspend(k, t, "INTERRUPTIBLE")
       /\ ch.stat = "WAIT"
       /\ k' = ResumeReceiver(SuspendOn(SetError(k, t, "EOK"), senders, t, time))
       /\ msg_ret' = [msg_ret EXCEPT ![r] = m]
       /\ ch' = [ch EXCEPT !.reply = t, !.stat = "ACTIVE"]
       /\ pool' = Alloc
       /\ wakeup' = [wakeup EXCEPT ![t] = "sender_wait_reply", ![r] = "none"]
       /\ serial' = [serial EXCEPT ![t] = 1 - @]
       /\ Goto(t, "sending")
       /\ UNCHANGED <<open, serving>>

\* Mutant: the message is not given back.
RequestInterrupted_Keeps(t, time) ==
    /\ Calls(t) /\ MayAlloc /\ time # "zero"
    /\ ~ MaySuspend(k, t, "INTERRUPTIBLE")
    /\ k' = SetError(k, t, "EOK")
    /\ pool' = Alloc
    /\ UNCHANGED <<ch, open, pc, msg_ret, wakeup, serial, serving>>

\* A pending signal keeps t from suspending; the message is freed again.
RequestInterrupted(t, time) ==
    /\ Calls(t) /\ MayAlloc /\ time # "zero"
    /\ ~ MaySuspend(k, t, "INTERRUPTIBLE")
    /\ k' = SetError(k, t, "EOK")
    /\ UNCHANGED <<ch, pool, open, pc, msg_ret, wakeup, serial, serving>>

RequestSchedules(t) ==
    /\ At(t, "sending")
    /\ k' = rt_schedule(k)
    /\ Goto(t, "sent")
    /\ UNCHANGED <<ch, pool, open, msg_ret, wakeup, serial, serving>>

\* The sender runs again and finds what has ended its wait.
RequestReturns(t) ==
    /\ At(t, "sent")
    /\ Goto(t, IF k.err[t] = "EOK" THEN "replied" ELSE "run")
    /\ UNCHANGED <<k, ch, pool, open, msg_ret, wakeup, serial, serving>>

FreesReply(t) ==
    /\ At(t, "replied")
    /\ pool' = Free
    /\ msg_ret' = [msg_ret EXCEPT ![t] = NoMsg]
    /\ Goto(t, "run")
    /\ UNCHANGED <<k, ch, open, wakeup, serial, serving>>

-----------------------------------------------------------------------------
(* rt_raw_channel_reply.  Without a sender to reply to, or without a free  *)
(* message, the call changes nothing.                                      *)
Reply(t) ==
    /\ Calls(t)
    /\ ch.stat = "ACTIVE" /\ ch.reply # Idle
    /\ MayAlloc
    /\ pool' = Alloc
    /\ msg_ret' = [msg_ret EXCEPT ![ch.reply] = serving]
    /\ k' = rt_thread_resume(k, ch.reply)
    /\ wakeup' = [wakeup EXCEPT ![ch.reply] = "none"]
    /\ ch' = [ch EXCEPT !.stat = "IDLE", !.reply = Idle]
    /\ serving' = Plain
    /\ Goto(t, "resched")
    /\ UNCHANGED <<open, serial>>

-----------------------------------------------------------------------------
(* _rt_raw_channel_recv_timeout.  While the channel is not idle the call   *)
(* fails and changes nothing.                                              *)

\* Mutant: the reply goes to the sender that came last.
ReceiveTakes_Last(t) ==
    LET m == Head(ch.msgs)
        u == Last(k.list[senders])
    IN /\ Calls(t)
       /\ ch.stat = "IDLE" /\ ch.msgs # <<>>
       /\ IF need_reply(m)
          THEN /\ k' = rt_list_remove(k, u)
               /\ ch' = [stat |-> "ACTIVE", reply |-> u, msgs |-> Tail(ch.msgs)]
               /\ serving' = m
          ELSE /\ ch' = [ch EXCEPT !.msgs = Tail(@)]
               /\ UNCHANGED <<k, serving>>
       /\ pool' = Free
       /\ UNCHANGED <<open, pc, msg_ret, wakeup, serial>>

\* The first message is taken; the first sender of wait_thread is the one that
\* its reply will be for.
ReceiveTakes(t) ==
    LET m == Head(ch.msgs)
        u == Head(k.list[senders])
    IN /\ Calls(t)
       /\ ch.stat = "IDLE" /\ ch.msgs # <<>>
       /\ IF need_reply(m)
          THEN /\ k' = rt_list_remove(k, u)
               /\ ch' = [stat |-> "ACTIVE", reply |-> u, msgs |-> Tail(ch.msgs)]
               /\ serving' = m
          ELSE /\ ch' = [ch EXCEPT !.msgs = Tail(@)]
               /\ UNCHANGED <<k, serving>>
       /\ pool' = Free
       /\ UNCHANGED <<open, pc, msg_ret, wakeup, serial>>

ReceiveWaits(t, time) ==
    /\ Calls(t)
    /\ ch.stat = "IDLE" /\ ch.msgs = <<>> /\ time # "zero"
    /\ MaySuspend(k, t, "INTERRUPTIBLE")
    /\ k' = SuspendOn(SetError(k, t, "EOK"), receivers, t, time)
    /\ ch' = [ch EXCEPT !.stat = "WAIT"]
    /\ wakeup' = [wakeup EXCEPT ![t] = "receiver"]
    /\ Goto(t, "receiving")
    /\ UNCHANGED <<pool, open, msg_ret, serial, serving>>

ReceiveSchedules(t) ==
    /\ At(t, "receiving")
    /\ k' = rt_schedule(k)
    /\ Goto(t, "received")
    /\ UNCHANGED <<ch, pool, open, msg_ret, wakeup, serial, serving>>

ReceiveReturns(t) ==
    /\ At(t, "received")
    /\ IF k.err[t] = "EOK"
       THEN /\ pool' = Free
            /\ msg_ret' = [msg_ret EXCEPT ![t] = NoMsg]
            /\ serving' = IF need_reply(msg_ret[t]) THEN msg_ret[t] ELSE serving
       ELSE UNCHANGED <<pool, msg_ret, serving>>
    /\ Goto(t, "run")
    /\ UNCHANGED <<k, ch, open, wakeup, serial>>

-----------------------------------------------------------------------------
(* The ends of a wait that no other party of the channel brings about. *)

\* The first request of t in wait_msg
RequestOf(t) ==
    CHOOSE i \in DOMAIN ch.msgs :
        /\ need_reply(ch.msgs[i]) /\ Sender(ch.msgs[i]) = t
        /\ \A j \in 1 .. i - 1 : need_reply(ch.msgs[j]) => Sender(ch.msgs[j]) # t

HasRequest(t) == \E i \in DOMAIN ch.msgs : need_reply(ch.msgs[i]) /\ Sender(ch.msgs[i]) = t

\* Mutant: a message that has not been received stays on the channel.
SenderLeaves_Message(t) ==
    /\ ch' = IF ch.stat = "ACTIVE" /\ ch.reply = t
             THEN [ch EXCEPT !.stat = "IDLE", !.reply = Idle] ELSE ch
    /\ UNCHANGED pool

\* sender_timeout and wakeup_sender_wait_recv: the reply that t waited for is
\* called off, or its message is taken back.
SenderLeaves(t) ==
    IF ch.stat = "ACTIVE" /\ ch.reply = t
    THEN /\ ch' = [ch EXCEPT !.stat = "IDLE", !.reply = Idle]
         /\ UNCHANGED pool
    ELSE IF HasRequest(t)
         THEN /\ ch' = [ch EXCEPT !.msgs = RemoveAt(@, RequestOf(t))]
              /\ pool' = Free
         ELSE UNCHANGED <<ch, pool>>

\* Mutant: the channel still counts on the receiver.
ReceiverLeaves_Waiting == UNCHANGED <<ch, pool>>

\* receiver_timeout and wakeup_receiver
ReceiverLeaves ==
    /\ ch' = [ch EXCEPT !.stat = "IDLE"]
    /\ UNCHANGED pool

\* sender_timeout and receiver_timeout, called by rt_timer_check: they do to the
\* thread what rt_thread_timeout does.
ThreadTimer(t) ==
    /\ t \in k.timer
    /\ IF wakeup[t] = "receiver" THEN ReceiverLeaves ELSE SenderLeaves(t)
    /\ wakeup' = [wakeup EXCEPT ![t] = "none"]
    /\ k' = rt_thread_timeout(k, t)
    /\ UNCHANGED <<open, pc, msg_ret, serial, serving>>

\* lwp_thread_kill of u, which calls the wake-up function of a waiting thread:
\* wakeup_sender_wait_recv, wakeup_sender_wait_reply or wakeup_receiver (which
\* resumes the first thread of the receivers).
Kill(t, u, s) ==
    LET w == IF wakeup[u] = "receiver" THEN Head(k.list[receivers]) ELSE u
        p == SetError([k EXCEPT !.sig[u] = @ \cup {s}], u, "EINTR")
    IN /\ t \in App /\ At(t, "run")
       /\ k.stat[u] # "INIT"
       /\ IF SignalWakes(k, u, s)
          THEN /\ k' = rt_schedule(rt_thread_resume(p, w))
               /\ wakeup' = [wakeup EXCEPT ![u] = "none", ![w] = "none"]
               /\ CASE wakeup[u] = "receiver" -> ReceiverLeaves
                    [] wakeup[u] = "sender_wait_reply" ->
                           /\ ch' = [ch EXCEPT !.stat = "IDLE", !.reply = Idle]
                           /\ UNCHANGED pool
                    [] OTHER -> SenderLeaves(u)
          ELSE /\ k' = lwp_thread_kill(k, u, s)
               /\ UNCHANGED <<ch, pool, wakeup>>
       /\ UNCHANGED <<open, pc, msg_ret, serial, serving>>

-----------------------------------------------------------------------------
(* rt_raw_channel_open and rt_raw_channel_close *)

Open(t) ==
    /\ t \in App /\ At(t, "run")
    /\ HolderOf[t] \notin open
    /\ \A u \in Thread : pc[u] # "closing"
    /\ open' = open \cup {HolderOf[t]}
    /\ UNCHANGED <<k, ch, pool, pc, msg_ret, wakeup, serial, serving>>

\* The last close resumes the threads on the two lists.  The server does not
\* close the channel with a request in hand whose sender it has taken off the
\* list: nobody would resume that sender.
Close(t) ==
    /\ Calls(t)
    /\ open' = open \ {HolderOf[t]}
    /\ IF open' = {}
       THEN /\ ch.reply # Idle => Linked(k, senders, ch.reply)
            /\ Goto(t, "closing")
       ELSE UNCHANGED pc
    /\ UNCHANGED <<k, ch, pool, msg_ret, wakeup, serial, serving>>

CloseResumes(t) ==
    LET q == IF k.list[receivers] # <<>> THEN receivers ELSE senders
    IN /\ At(t, "closing")
       /\ k.list[q] # <<>>
       /\ k' = ResumeAllRound(k, q)
       /\ wakeup' = [wakeup EXCEPT ![Head(k.list[q])] = "none"]
       /\ UNCHANGED <<ch, pool, open, pc, msg_ret, serial, serving>>

\* "all ipc msg will lost": they do not go back to the pool.
CloseEnds(t) ==
    /\ At(t, "closing")
    /\ k.list[receivers] = <<>> /\ k.list[senders] = <<>>
    /\ ch' = Fresh
    /\ pool' = [pool EXCEPT !.lost = @ + Len(ch.msgs)]
    /\ Goto(t, "run")
    /\ UNCHANGED <<k, open, msg_ret, wakeup, serial, serving>>

-----------------------------------------------------------------------------
(* The rest of the system, as in module Semaphore. *)

Reschedule(t) ==
    /\ At(t, "resched")
    /\ k' = rt_schedule(k)
    /\ Goto(t, "run")
    /\ UNCHANGED <<ch, pool, open, msg_ret, wakeup, serial, serving>>

Startup(t, u) ==
    /\ t \in App /\ At(t, "run")
    /\ k.stat[u] = "INIT"
    /\ k' = rt_thread_startup(k, u)
    /\ Goto(t, "resched")
    /\ UNCHANGED <<ch, pool, open, msg_ret, wakeup, serial, serving>>

Deliver(t) ==
    /\ t \in App /\ At(t, "run")
    /\ \E s \in k.sig[t] : k' = [k EXCEPT !.sig[t] = @ \ {s}]
    /\ UNCHANGED <<ch, pool, open, pc, msg_ret, wakeup, serial, serving>>

TimeSlice ==
    /\ k' = TimeSliceEnds(k)
    /\ UNCHANGED <<ch, pool, open, pc, msg_ret, wakeup, serial, serving>>

\* rt_raw_channel_send in an interrupt handler, where rt_schedule takes effect
\* when the handler returns.
HandlerSends ==
    /\ open # {}
    /\ PutPlain
    /\ k' = rt_schedule(PlainKernel)
    /\ UNCHANGED <<open, pc, serial, serving>>

-----------------------------------------------------------------------------
Client(t) ==
    \/ Send(t)
    \/ \E time \in Time :
           RequestQueues(t, time) \/ RequestHandsOver(t, time) \/ RequestInterrupted(t, time)
    \/ RequestSchedules(t) \/ RequestReturns(t) \/ FreesReply(t)

Serves(t) ==
    \/ Reply(t) \/ ReceiveTakes(t)
    \/ \E time \in Time : ReceiveWaits(t, time)
    \/ ReceiveSchedules(t) \/ ReceiveReturns(t)

Others(t) ==
    \/ Open(t) \/ Close(t) \/ CloseResumes(t) \/ CloseEnds(t)
    \/ Reschedule(t) \/ Deliver(t)
    \/ \E u \in App : Startup(t, u)
    \/ \E u \in Process, s \in Sig : Kill(t, u, s)

Interrupt ==
    /\ pc[k.cur] # "closing"
    /\ HandlerSends \/ TimeSlice \/ \E t \in App : ThreadTimer(t)

Next ==
    \/ \E t \in Clients : Client(t)
    \/ Serves(Server)
    \/ \E t \in App : Others(t)
    \/ Interrupt

Spec == Init /\ [][Next]_vars

-----------------------------------------------------------------------------
(* Properties *)

Closing == \E t \in Thread : pc[t] = "closing"

\* The variables have their types, and the ready table, its bitmap, the lists of
\* the channel and the thread states agree.
KernelInv == TypeOK /\ KernelOK(k)

\* ch->stat and ch->reply tell the truth about who waits, whatever timeout,
\* signal or close ends a wait: RT_IPC_STAT_WAIT when there is a receiver to take
\* the next message (and then no message that it has missed),
\* RT_IPC_STAT_ACTIVE when there is a suspended sender to take the next reply.
\* The assertions of _rt_raw_channel_send_recv_timeout,
\* _rt_raw_channel_recv_timeout and wakeup_sender_wait_reply rest on it.
StateMatchesWaiters ==
    ~ Closing =>
        /\ ch.stat = "WAIT" <=> k.list[receivers] # <<>>
        /\ ch.stat = "WAIT" => ch.msgs = <<>> /\ Len(k.list[receivers]) = 1
        /\ ch.stat = "ACTIVE" <=> ch.reply # Idle
        /\ ch.reply # Idle => Suspended(k, ch.reply)
        /\ \A t \in Thread : wakeup[t] = "sender_wait_reply" => ch.reply = t

\* The senders whose requests are on wait_msg, in that order, are the threads on
\* wait_thread (after the one that waits for a reply already), so that
\* _rt_raw_channel_recv_timeout finds the sender of the message it takes at the
\* head of a list it does not compare with the message.  place tells where on
\* wait_msg the request of each thread on wait_thread is.
QueuedSendersInOrder ==
    LET requests == {n \in DOMAIN ch.msgs : need_reply(ch.msgs[n])}
        waiting  == Without(k.list[senders], ch.reply)
    IN ~ Closing => \E place \in [DOMAIN waiting -> requests] :
           /\ \A i, j \in DOMAIN waiting : i < j => place[i] < place[j]
           /\ \A n \in requests : \E i \in DOMAIN waiting : place[i] = n
           /\ \A i \in DOMAIN waiting : Sender(ch.msgs[place[i]]) = waiting[i]

\* "If the sender gets the chance to run, the requested reply must be valid"
\* (_rt_raw_channel_send_recv_timeout): a sender that will return RT_EOK holds
\* the reply to the request it has sent last, not to one it gave up after a
\* timeout and not to one of another client; and a receiver that has been woken
\* for a message holds one.
ReplyIsMine ==
    \A t \in App :
        /\ (/\ pc[t] \in {"sending", "sent"} /\ ~ Suspended(k, t) /\ k.err[t] = "EOK")
                => msg_ret[t] = <<t, serial[t]>>
        /\ (/\ pc[t] \in {"receiving", "received"} /\ ~ Suspended(k, t) /\ k.err[t] = "EOK")
                => msg_ret[t] # NoMsg

\* Every message of the pool is free, on the channel, in the hands of one thread
\* that will free it, or lost in a close: no timeout, signal or failed call
\* loses another one or frees one twice (_ipc_msg_alloc, _ipc_msg_free).
MessagesAccounted ==
    LET held == {t \in Thread : msg_ret[t] # NoMsg}
    IN pool.free + pool.lost + Len(ch.msgs) + Cardinality(held) = PoolSize
=============================================================================
