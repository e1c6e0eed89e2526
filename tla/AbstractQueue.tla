---------------------------- MODULE AbstractQueue ----------------------------
(***************************************************************************)
(* What a message queue promises its callers: a bounded queue of messages. *)
(* A caller that sends has its message in its hands until it puts it at    *)
(* the end, or at the front if it is urgent; a caller that receives takes  *)
(* the first message into its hands.  A message in somebody's hands counts *)
(* against the capacity, and only a reset drops messages.                  *)
(***************************************************************************)
EXTENDS Integers, Sequences, FiniteSets

CONSTANTS Caller, Msg, NoMsg, Capacity

VARIABLES
    queue,
    hands       \* the message each caller sends, sends urgently or has received

vars == <<queue, hands>>

Nothing == [role |-> "none", msg |-> NoMsg]

Init == queue = <<>> /\ hands = [t \in Caller |-> Nothing]

HasRoom == Len(queue) + Cardinality({t \in Caller : hands[t] # Nothing}) < Capacity

Holds(t, role) == hands[t].role = role
Picks(t, role, m) == hands[t] = Nothing /\ hands' = [hands EXCEPT ![t] = [role |-> role, msg |-> m]]
Drops(t) == hands' = [hands EXCEPT ![t] = Nothing]

Offer(t, m) ==
    /\ HasRoom
    /\ Picks(t, "copyin", m) \/ Picks(t, "urgent", m)
    /\ UNCHANGED queue

Put(t) ==
    /\ \/ Holds(t, "copyin") /\ queue' = Append(queue, hands[t].msg)
       \/ Holds(t, "urgent") /\ queue' = <<hands[t].msg>> \o queue
    /\ Drops(t)

Take(t) ==
    /\ queue # <<>>
    /\ Picks(t, "copyout", Head(queue))
    /\ queue' = Tail(queue)

GiveBack(t) ==
    /\ Holds(t, "copyout")
    /\ Drops(t)
    /\ UNCHANGED queue

\* An interrupt handler sends.
Post(m) ==
    /\ HasRoom
    /\ queue' \in {Append(queue, m), <<m>> \o queue}
    /\ UNCHANGED hands

Reset == queue' = <<>> /\ UNCHANGED hands

Next ==
    \/ \E t \in Caller : (\E m \in Msg : Offer(t, m)) \/ Put(t) \/ Take(t) \/ GiveBack(t)
    \/ \E m \in Msg : Post(m)
    \/ Reset

Spec == Init /\ [][Next]_vars
=============================================================================
