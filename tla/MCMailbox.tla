------------------------------ MODULE MCMailbox ------------------------------
(* Instances of Mailbox for TLC. *)
EXTENDS Mailbox, TLC

CONSTANTS t1, t2, t3, idle

MCQueue == {receivers, senders}
MCPrio == {1, 2, 3}
\* One urgent thread; the others share a priority.
MCInitPrio == [t \in Thread |-> CASE t = idle -> 3 [] t = t1 -> 1 [] OTHER -> 2]

\* Nothing looks at what a mail is, and t2 and t3 differ in name only.
Symmetry == Permutations(Mail) \cup Permutations({t2, t3})
=============================================================================
