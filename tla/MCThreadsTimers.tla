--------------------------- MODULE MCThreadsTimers ---------------------------
(***************************************************************************)
(* The threads, and the hard timers that the clock interrupt serves, in    *)
(* one run of TLC: a behaviour is one of Threads or of HardTimer, and the  *)
(* other system stays in an initial state.  (A thread_timer is one of the  *)
(* hard timers; what Threads needs of it is that it may fire at any time   *)
(* while it runs.)                                                         *)
(***************************************************************************)
EXTENDS MCThreads, HardTimer

VARIABLE focus      \* the system this behaviour is of

ThreadsOnly(A) == focus = "threads" /\ A /\ UNCHANGED <<hardvars, focus>>
TimersOnly(A) == focus = "timers" /\ A /\ UNCHANGED <<vars, focus>>

ClockInit ==
    /\ Init /\ HardInit
    /\ \/ /\ focus = "threads"
          /\ hard.tick = 0 /\ hard.periodic = {} /\ hard.init = [x \in Timer |-> 1]
       \/ focus = "timers" /\ k.cur = t1

ClockNext == ThreadsOnly(Next) \/ TimersOnly(HardNext)

\* The fairness of Threads.
ClockSpec ==
    /\ ClockInit
    /\ [][ClockNext]_<<vars, hardvars, focus>>
    /\ WF_vars(ThreadsOnly(IdleStep))
=============================================================================
