---------------------------- MODULE MCSemaphore ----------------------------
(* Instances of Semaphore for TLC. *)
EXTENDS Semaphore

CONSTANTS t1, t2, t3, idle

MCQueue == {sem}
\* One urgent thread; the others share a priority.
MCPrio == {1, 2, 3}
MCInitPrio == [t \in Thread |-> CASE t = idle -> 3 [] t = t1 -> 1 [] OTHER -> 2]
=============================================================================
