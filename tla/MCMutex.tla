------------------------------ MODULE MCMutex ------------------------------
(* Instances of Mutex for TLC. *)
EXTENDS Mutex

CONSTANTS low, mid, high, idle, a, b

MCQueue == Mutexes
MCPrio == {1, 2, 3, 4}
MCInitPrio == [t \in Thread |-> CASE t = high -> 1 [] t = mid -> 2 [] t = low -> 3 [] OTHER -> 4]
=============================================================================
