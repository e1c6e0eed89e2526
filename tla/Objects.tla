------------------------------- MODULE Objects -------------------------------
(***************************************************************************)
(* An event object and a message queue in one system: the same threads     *)
(* wait for either, one scheduler serves both, and interrupt handlers send *)
(* to both.                                                                *)
(***************************************************************************)
EXTENDS Event, MessageQueue

CONSTANTS
    EventUser,      \* the threads that use the event
    QueueUser       \* the threads that use the message queue

ASSUME ObjectsAssumption ==
    /\ EventUser \subseteq App /\ QueueUser \subseteq App
    /\ event \notin {receivers, senders}

vars == <<callvars, eventvars, mqvars>>

Init ==
    /\ \E main \in App : k = KernelStart(main)
    /\ pc = [t \in Thread |-> "run"]
    /\ at = [t \in Thread |-> NoList]
    /\ alive = {event, receivers}
    /\ EventInit
    /\ MessageQueueInit

Next ==
    \/ \E t \in EventUser : EventStep(t) /\ UNCHANGED mqvars
    \/ \E t \in QueueUser : MessageQueueStep(t) /\ UNCHANGED eventvars
    \/ \E t \in App : ThreadStep(t) /\ UNCHANGED <<eventvars, mqvars>>
    \/ InterruptStep /\ UNCHANGED <<eventvars, mqvars>>
    \/ \E flags \in SUBSET EventFlag : HandlerSendsEvent(flags) /\ UNCHANGED mqvars
    \/ \E m \in Msg : HandlerSendsMessage(m) /\ UNCHANGED eventvars

Spec == Init /\ [][Next]_vars

\* The variables have their types, and the ready table, its bitmap, the three
\* suspend lists and the thread states agree.
KernelInv ==
    /\ CallsTypeOK /\ EventTypeOK /\ MessageQueueTypeOK
    /\ KernelOK(k)
=============================================================================
