----------------------------- MODULE MessageQueue -----------------------------
(***************************************************************************)
(* A message queue (ipc.c, RT_USING_MESSAGEQUEUE).  It differs from a      *)
(* mailbox in that messages are copied: a sender takes a free message,     *)
(* copies with interrupts enabled and then links it; a receiver unlinks a  *)
(* message, copies with interrupts enabled and then frees it.  A message   *)
(* is in the queue, on the free list or in the hands of a thread.          *)
(***************************************************************************)
EXTENDS Calls

CONSTANTS
    receivers,      \* mq->parent.suspend_thread, and the object
    senders,        \* mq->suspend_sender_thread
    Msg,            \* the messages
    NoMsg,          \* no message
    Size            \* mq->max_msgs

\* RT_MQ_ENTRY_MAX is not below any size a queue can have.
ASSUME MessageQueueAssumption ==
    /\ receivers \in Queue /\ senders \in Queue /\ receivers # senders
    /\ Following[receivers] = senders /\ Following[senders] = senders
    /\ NoMsg \notin Msg
    /\ Size \in Nat \ {0}

VARIABLES
    mq,             \* the queue from msg_queue_head to msg_queue_tail, whose length
                    \* is entry, and the length of the list msg_queue_free
    hold,           \* the message each thread copies
    call            \* the blocking call each thread is in: the time left, the
                    \* suspend flag and the message to send

mqvars == <<mq, hold, call>>

NoCall == [time |-> "zero", flag |-> "UNINTERRUPTIBLE", msg |-> NoMsg]

\* rt_mq_init and rt_mq_create
EmptyQueue == [msgs |-> <<>>, free |-> Size]

MessageQueueTypeOK ==
    /\ mq \in [msgs : Seq(Msg), free : 0 .. Size]
    /\ hold \in [Thread -> Msg \cup {NoMsg}]
    /\ call \in [Thread -> [time : {"zero", "ticks", "forever"}, flag : SuspendFlag,
                            msg : Msg \cup {NoMsg}]]

MessageQueueInit ==
    /\ mq = EmptyQueue
    /\ hold = [t \in Thread |-> NoMsg]
    /\ call = [t \in Thread |-> NoCall]

\* t has been resumed by the other side and goes round the loop again.
TriesAgain(t, q) == At(t, "blocked") /\ at[t] = q /\ k.err[t] = "EOK"

\* "re-calculate timeout tick"
TimeLeft(t) == IF call[t].time = "ticks" THEN {"ticks", "zero"} ELSE {call[t].time}

\* The loop body: the thread suspends itself, or may not because of a signal.
Waits(t, q, m, time, flag) ==
    /\ \/ /\ SuspendsOn(t, q, time, flag)
          /\ call' = [call EXCEPT ![t] = [time |-> time, flag |-> flag, msg |-> m]]
       \/ /\ MayNotSuspend(t, time, flag)
          /\ call' = [call EXCEPT ![t] = NoCall]
    /\ UNCHANGED <<mq, hold>>

\* "no waiting, return timeout"; thread->error is only touched inside the loop.
GivesUp(t, time, error) ==
    /\ time = "zero"
    /\ k' = IF pc[t] = "run" THEN k ELSE SetError(k, t, error)
    /\ call' = [call EXCEPT ![t] = NoCall]
    /\ LeavesList(t, "run")
    /\ UNCHANGED <<alive, mq, hold>>

WaitFails(t) ==
    /\ at[t] \in {receivers, senders}
    /\ BlockedFails(t)
    /\ call' = [call EXCEPT ![t] = NoCall]
    /\ UNCHANGED <<mq, hold>>

\* Mutant: the other side is resumed when the queue was empty or full before.
WakesFirst_AtEdge(q) ==
    IF ~ IsEmpty(q) /\ (IF q = receivers THEN mq.msgs = <<>> ELSE mq.free = 0)
    THEN rt_ipc_list_resume(k, q)
    ELSE k

\* The first thread of the list of the other side is resumed.
WakesFirst(q) == IF IsEmpty(q) THEN k ELSE rt_ipc_list_resume(k, q)

WakesAndReturns(t, q) ==
    /\ k' = WakesFirst(q)
    /\ Goto(t, IF IsEmpty(q) THEN "run" ELSE "resched")

-----------------------------------------------------------------------------
(* _rt_mq_send_wait and rt_mq_urgent *)

\* A free message is taken.
TakesFree(t, m, l) ==
    /\ mq.free > 0
    /\ mq' = [mq EXCEPT !.free = @ - 1]
    /\ hold' = [hold EXCEPT ![t] = m]
    /\ call' = [call EXCEPT ![t] = NoCall]
    /\ LeavesList(t, l)
    /\ UNCHANGED <<k, alive>>

SendBegins(t, m, time, flag) ==
    /\ Uses(t, receivers)
    /\ \/ TakesFree(t, m, "copyin")
       \/ mq.free = 0 /\ (GivesUp(t, time, "EINTR") \/ Waits(t, senders, m, time, flag))

\* Mutant: the free list is not looked at again.
SendAgain_Once(t) ==
    /\ TriesAgain(t, senders)
    /\ mq' = [mq EXCEPT !.free = IF @ = 0 THEN 0 ELSE @ - 1]
    /\ hold' = [hold EXCEPT ![t] = call[t].msg]
    /\ call' = [call EXCEPT ![t] = NoCall]
    /\ LeavesList(t, "copyin")
    /\ UNCHANGED <<k, alive>>

SendAgain(t) ==
    /\ TriesAgain(t, senders)
    /\ \/ TakesFree(t, call[t].msg, "copyin")
       \/ /\ mq.free = 0
          /\ \E time \in TimeLeft(t) :
                 \/ GivesUp(t, time, "EINTR")
                 \/ Waits(t, senders, call[t].msg, time, call[t].flag)

\* A full queue fails rt_mq_urgent, which changes nothing then.
UrgentBegins(t, m) ==
    /\ Uses(t, receivers)
    /\ TakesFree(t, m, "urgent")

\* The message that has been copied is linked at the tail, or at the head.
Links(t) ==
    /\ \/ /\ At(t, "copyin")
          /\ mq' = [mq EXCEPT !.msgs = Append(@, hold[t])]
       \/ /\ At(t, "urgent")
          /\ mq' = [mq EXCEPT !.msgs = <<hold[t]>> \o @]
    /\ hold' = [hold EXCEPT ![t] = NoMsg]
    /\ WakesAndReturns(t, receivers)
    /\ UNCHANGED <<at, alive, call>>

\* rt_mq_send or rt_mq_urgent in an interrupt handler, where rt_schedule takes
\* effect when the handler returns.
HandlerSendsMessage(m) ==
    /\ receivers \in alive /\ Interruptible
    /\ mq.free > 0
    /\ \/ mq' = [msgs |-> Append(mq.msgs, m), free |-> mq.free - 1]
       \/ mq' = [msgs |-> <<m>> \o mq.msgs, free |-> mq.free - 1]
    /\ k' = IF IsEmpty(receivers) THEN k ELSE rt_schedule(WakesFirst(receivers))
    /\ UNCHANGED <<pc, at, alive, hold, call>>

-----------------------------------------------------------------------------
(* _rt_mq_recv *)

Unlinks(t) ==
    /\ mq.msgs # <<>>
    /\ mq' = [mq EXCEPT !.msgs = Tail(@)]
    /\ hold' = [hold EXCEPT ![t] = Head(mq.msgs)]
    /\ call' = [call EXCEPT ![t] = NoCall]
    /\ LeavesList(t, "copyout")
    /\ UNCHANGED <<k, alive>>

ReceiveBegins(t, time, flag) ==
    /\ Uses(t, receivers)
    /\ \/ Unlinks(t)
       \/ /\ mq.msgs = <<>>
          /\ GivesUp(t, time, "ETIMEOUT") \/ Waits(t, receivers, NoMsg, time, flag)

ReceiveAgain(t) ==
    /\ TriesAgain(t, receivers)
    /\ \/ Unlinks(t)
       \/ /\ mq.msgs = <<>>
          /\ \E time \in TimeLeft(t) :
                 \/ GivesUp(t, time, "ETIMEOUT")
                 \/ Waits(t, receivers, NoMsg, time, call[t].flag)

\* The message that has been copied goes to the free list.
Frees(t) ==
    /\ At(t, "copyout")
    /\ mq' = [mq EXCEPT !.free = @ + 1]
    /\ hold' = [hold EXCEPT ![t] = NoMsg]
    /\ WakesAndReturns(t, senders)
    /\ UNCHANGED <<at, alive, call>>

-----------------------------------------------------------------------------
\* RT_IPC_CMD_RESET puts the messages of the queue on the free list; the ones
\* that are being copied are not among them.
QueueResetEnds(t) ==
    /\ ResetEnds(t, senders)
    /\ mq' = [msgs |-> <<>>, free |-> mq.free + Len(mq.msgs)]
    /\ UNCHANGED <<hold, call>>

\* rt_mq_detach and rt_mq_delete.  Callers wait for threads that copy and for
\* threads on their way from a wake-up to the queue: they would find it gone.
QueueDetachBegins(t) ==
    /\ DetachBegins(t, receivers)
    /\ Woken(receivers) \cup Woken(senders) = {}
    /\ \A u \in Thread : hold[u] = NoMsg
    /\ UNCHANGED mqvars

QueueReinit(t) ==
    /\ Reinit(t, receivers)
    /\ mq' = EmptyQueue
    /\ UNCHANGED <<hold, call>>

MessageQueueStep(t) ==
    \/ \E m \in Msg, time \in Time, flag \in Flag : SendBegins(t, m, time, flag)
    \/ \E m \in Msg : UrgentBegins(t, m)
    \/ \E time \in Time, flag \in Flag : ReceiveBegins(t, time, flag)
    \/ SendAgain(t) \/ ReceiveAgain(t) \/ WaitFails(t)
    \/ Links(t) \/ Frees(t)
    \/ ResetBegins(t, receivers) /\ UNCHANGED mqvars
    \/ QueueResetEnds(t) \/ QueueDetachBegins(t) \/ QueueReinit(t)

-----------------------------------------------------------------------------
(* Properties *)

\* Nobody is forgotten: while receivers wait, every message in the queue has a
\* receiver that has been woken for it, and while senders wait every free message
\* has a sender, although messages are linked and freed long after they were
\* taken (_rt_mq_send_wait, _rt_mq_recv).  And no message is lost between the
\* queue, the free list and the threads that copy.
NoMessageWaits ==
    /\ ~ IsEmpty(receivers) => Len(mq.msgs) <= Cardinality(Woken(receivers))
    /\ ~ IsEmpty(senders) => mq.free <= Cardinality(Woken(senders))
    /\ receivers \in alive =>
           mq.free + Len(mq.msgs) + Cardinality({t \in Thread : hold[t] # NoMsg}) = Size

\* Messages arrive once and in order, urgent ones first, whoever copies, waits,
\* times out or is interrupted meanwhile, and never more than the queue has room
\* for.
Abstract == INSTANCE AbstractQueue WITH
    Caller <- Thread, Capacity <- Size, queue <- mq.msgs,
    hands <- [t \in Thread |-> [role |-> IF hold[t] = NoMsg THEN "none" ELSE pc[t],
                                msg |-> hold[t]]]
QueueImplementsAbstract == Abstract!Spec
=============================================================================
