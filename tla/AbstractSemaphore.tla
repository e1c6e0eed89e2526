-------------------------- MODULE AbstractSemaphore --------------------------
(***************************************************************************)
(* What a counting semaphore promises its callers, with no kernel in it:   *)
(* `count' tokens and, for each thread, how its last call of rt_sem_take   *)
(* ended.  A call that returns RT_EOK consumes one token, a call that      *)
(* fails consumes none, a release adds one, and nothing else but a reset   *)
(* changes their number.  `op' tells what the last step was.               *)
(***************************************************************************)
EXTENDS Integers, FiniteSets

CONSTANTS Caller, MaxCount, InitCount

VARIABLES count, res, op

vars == <<count, res, op>>

Failure == {"EINTR", "ETIMEOUT", "ERROR"}

Init == count = InitCount /\ res = [t \in Caller |-> "idle"] /\ op = "none"

Begin(t) ==
    /\ res[t] # "waiting"
    /\ res' = [res EXCEPT ![t] = "waiting"]
    /\ op' = "none" /\ UNCHANGED count

Take(t) ==
    /\ count > 0
    /\ count' = count - 1
    /\ res' = [res EXCEPT ![t] = "EOK"]
    /\ op' = "none"

Fail(t) ==
    /\ \E e \in Failure : res' = [res EXCEPT ![t] = e]
    /\ op' = "none" /\ UNCHANGED count

Release ==
    /\ count' = count + 1
    /\ op' = "release" /\ UNCHANGED res

\* The tokens become v, apart from those already handed to callers that have
\* not returned yet.
Reset ==
    /\ \E v \in 0 .. MaxCount :
            count' \in v .. v + Cardinality({t \in Caller : res[t] = "waiting"})
    /\ op' = "reset" /\ UNCHANGED res

\* Whatever else happens in the system.
Other == op' = "none" /\ UNCHANGED <<count, res>>

Next ==
    \/ \E t \in Caller : Begin(t) \/ Take(t) \/ Fail(t)
    \/ Release \/ Reset \/ Other

Spec == Init /\ [][Next]_vars
=============================================================================
