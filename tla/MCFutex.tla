------------------------------ MODULE MCFutex ------------------------------
(* Instances of Futex for TLC. *)
EXTENDS Futex

CONSTANTS t1, t2, idle

MCQueue == {_futex_lock, waiting_thread}
MCPrio == {1, 2, 3}
MCInitPrio == [t \in Thread |-> CASE t = t1 -> 1 [] t = t2 -> 2 [] OTHER -> 3]
=============================================================================
