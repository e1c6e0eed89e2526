------------------------------ MODULE MCObjects ------------------------------
(* Instances of Objects for TLC. *)
EXTENDS Objects

CONSTANTS t1, t2, t3, idle

MCQueue == {event, receivers, senders}
MCFollowing == [q \in Queue |-> IF q = receivers THEN senders ELSE q]
MCPrio == {1, 2, 3}
\* One urgent thread; the others share a priority.
MCInitPrio == [t \in Thread |-> CASE t = idle -> 3 [] t = t1 -> 1 [] OTHER -> 2]
\* Nothing looks at what a message or a flag is.
Symmetry == Permutations(Msg) \cup Permutations(EventFlag)
=============================================================================
