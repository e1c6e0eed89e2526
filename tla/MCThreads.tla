------------------------------ MODULE MCThreads ------------------------------
(* Instances of Threads for TLC. *)
EXTENDS Threads

CONSTANTS t1, t2, t3, idle

MCQueue == {defunct}
MCPrio == {1, 2, 3, 4}
\* Three priorities: a thread at work on a less urgent one can be preempted by a more
\* urgent one.
MCInitPrio ==
    [t \in Thread |-> CASE t = t1 -> 1 [] t = t2 -> 2 [] t = t3 -> 3 [] t = idle -> 4]

\* What happens after a thread_timer has fired in the middle of a delete or a resume
\* is the subject of the run threads_asleep.
InTime == ~ late
=============================================================================
