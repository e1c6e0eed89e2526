--------------------------- MODULE AbstractMailbox ---------------------------
(***************************************************************************)
(* What a mailbox promises its callers: a bounded queue of mails, first in *)
(* first out.  A send that returns RT_EOK has put its mail at the end, a   *)
(* receive that returns RT_EOK has taken the first one (the result is the  *)
(* mail), a call that fails has changed nothing, and only a reset drops    *)
(* mails.                                                                  *)
(***************************************************************************)
EXTENDS Integers, Sequences

CONSTANTS Caller, Nobody, Mail, Capacity

VARIABLES
    queue,
    done        \* the call that the last step has ended: by whom and how

vars == <<queue, done>>

Failure == {"EINTR", "ETIMEOUT", "ERROR", "EFULL"}

Result(t, r) == [by |-> t, result |-> r]
Nothing == Result(Nobody, "none")

Init == queue = <<>> /\ done = Nothing

Send(t) ==
    /\ Len(queue) < Capacity
    /\ \E m \in Mail : queue' = Append(queue, m)
    /\ done' = Result(t, "EOK")

\* An interrupt handler sends.
Post ==
    /\ Len(queue) < Capacity
    /\ \E m \in Mail : queue' = Append(queue, m)
    /\ done' = Nothing

Receive(t) ==
    /\ queue # <<>>
    /\ done' = Result(t, Head(queue))
    /\ queue' = Tail(queue)

Fail(t) ==
    /\ \E e \in Failure : done' = Result(t, e)
    /\ UNCHANGED queue

Reset == queue' = <<>> /\ done' = Nothing

\* Whatever else happens in the system.
Other == done' = Nothing /\ UNCHANGED queue

Next ==
    \/ \E t \in Caller : Send(t) \/ Receive(t) \/ Fail(t)
    \/ Post \/ Reset \/ Other

Spec == Init /\ [][Next]_vars
=============================================================================
