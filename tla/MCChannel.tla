------------------------------ MODULE MCChannel ------------------------------
(* Instances of Channel for TLC. *)
EXTENDS Channel

CONSTANTS server, c1, c2, idle, home, away

MCQueue == {receivers, senders}
MCPrio == {1, 2, 3}
\* One client is more urgent than the server, the other one as urgent.
MCInitPrio == [t \in Thread |-> CASE t = idle -> 3 [] t = c1 -> 1 [] OTHER -> 2]
\* The server and a client share a reference.
MCHolderOf == [t \in App |-> IF t = c1 THEN away ELSE home]
=============================================================================
