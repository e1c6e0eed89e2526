---------------------------- MODULE MCSoftTimer ----------------------------
(* Instances of SoftTimer for TLC. *)
EXTENDS SoftTimer, TLC

CONSTANTS tt, t1, t2, idle

\* The timer thread is the most urgent one (the default of RT_TIMER_THREAD_PRIO).
MCPrio == {1, 2, 3}
MCInitPrio == [t \in Thread |-> CASE t = tt -> 1 [] t = idle -> 3 [] OTHER -> 2]
\* A thread is more urgent than the timer thread (RT_TIMER_THREAD_PRIO is 4).
MCInitPrioLow == [t \in Thread |-> CASE t = tt -> 2 [] t = idle -> 3 [] OTHER -> 1]

\* Bound: two timers while one thread has been started, one when both have.  A
\* behaviour in which two resumes overlap is followed up to that point.
Bound ==
    /\ ~ crossed
    /\ Cardinality(exists) <= 1 \/ \E t \in App : k.stat[t] = "INIT"

\* The timers, and the threads that use them, differ in name only.
Symmetry == Permutations(Timer) \cup Permutations({t1, t2})
=============================================================================
