------------------------------ MODULE TimerList ------------------------------
(***************************************************************************)
(* A list of timers ordered by the time they expire (timer.c), with the    *)
(* tick counter that wraps around.  RT_TIMER_SKIP_LIST_LEVEL is 1, so the  *)
(* skip list is a list.  The hard timers and the soft timers each have     *)
(* one.  A timer list is a record w:                                       *)
(*                                                                         *)
(*   tick      rt_tick                                                     *)
(*   list      rt_timer_list or rt_soft_timer_list                         *)
(*   temp      the temporary list of a check in progress: the timer whose  *)
(*             timeout function is running, or nothing                     *)
(*   timeout   timer->timeout_tick; nothing reads it while the timer is    *)
(*             not in the list, and it is 0 then                           *)
(*   init      timer->init_tick                                            *)
(*   active    the timers with RT_TIMER_FLAG_ACTIVATED                     *)
(*   periodic  the timers with RT_TIMER_FLAG_PERIODIC                      *)
(***************************************************************************)
EXTENDS Integers, FiniteSets, Lists

CONSTANTS
    Timer,      \* the timer objects
    TickSize,   \* the number of values of rt_tick_t, 2^32
    InitTick    \* the times given to rt_timer_init and rt_timer_control

RT_TICK_MAX == TickSize - 1

\* "the max timeout tick shall not great than RT_TICK_MAX/2"; a timer that is
\* periodic with time 0 would keep rt_timer_check in its loop.
ASSUME TimerAssumption ==
    /\ TickSize \in Nat /\ TickSize > 4
    /\ InitTick \subseteq 1 .. RT_TICK_MAX \div 2 - 1

Tick == 0 .. RT_TICK_MAX

TimerListState ==
    [tick     : Tick,
     list     : Seq(Timer),
     temp     : SUBSET Timer,
     timeout  : [Timer -> Tick],
     init     : [Timer -> InitTick],
     active   : SUBSET Timer,
     periodic : SUBSET Timer]

\* Subtraction of rt_tick_t values.
Minus(x, y) == (x - y) % TickSize

\* A difference that is taken for one into the future.
Ahead(d) == d < RT_TICK_MAX \div 2

-----------------------------------------------------------------------------
\* _rt_timer_remove
TimerRemove(w, t) ==
    [w EXCEPT !.list = Without(@, t), !.temp = @ \ {t}, !.timeout[t] = 0]

\* Mutant: the walk stops at a timer that expires at the same time.
ExpiresAfter_OrSame(w, u, t) == Ahead(Minus(w.timeout[u], w.timeout[t]))

\* Mutant: ticks are compared as numbers, as if they never wrapped around.
ExpiresAfter_NoWrap(w, u, t) == w.timeout[u] > w.timeout[t]

\* rt_timer_start walks over the timers that expire before t and at the same
\* time, and stops at the first one that expires later.
ExpiresAfter(w, u, t) ==
    LET d == Minus(w.timeout[u], w.timeout[t]) IN d # 0 /\ Ahead(d)

StartPosition(w, t) ==
    CHOOSE i \in 1 .. Len(w.list) + 1 :
        /\ \A j \in 1 .. i - 1 : ~ ExpiresAfter(w, w.list[j], t)
        /\ i <= Len(w.list) => ExpiresAfter(w, w.list[i], t)

\* Mutant: a timer that is linked already is not removed first.
rt_timer_start_Again(w, t) ==
    LET r == [w EXCEPT !.timeout[t] = (w.tick + w.init[t]) % TickSize]
    IN [r EXCEPT !.list = InsertAt(@, StartPosition(r, t), t), !.active = @ \cup {t}]

rt_timer_start(w, t) ==
    LET r == [TimerRemove(w, t) EXCEPT !.timeout[t] = (w.tick + w.init[t]) % TickSize]
    IN [r EXCEPT !.list = InsertAt(@, StartPosition(r, t), t), !.active = @ \cup {t}]

rt_timer_stop(w, t) ==
    IF t \in w.active THEN [TimerRemove(w, t) EXCEPT !.active = @ \ {t}] ELSE w

\* Mutant: a timer that is not active is taken not to be linked.
TimerDetach_OnlyActive(w, t) == rt_timer_stop(w, t)

\* What rt_timer_detach and rt_timer_delete do before the object goes.
TimerDetach(w, t) == [TimerRemove(w, t) EXCEPT !.active = @ \ {t}]

\* _rt_timer_init with a period, or as a one-shot timer
TimerInit(w, t, time, isPeriodic) ==
    [w EXCEPT !.init[t] = time, !.active = @ \ {t},
              !.periodic = IF isPeriodic THEN @ \cup {t} ELSE @ \ {t}]

\* RT_TIMER_CTRL_SET_TIME, RT_TIMER_CTRL_SET_ONESHOT, RT_TIMER_CTRL_SET_PERIODIC
TimerSetTime(w, t, time)  == [w EXCEPT !.init[t] = time]
TimerSetOneshot(w, t)     == [w EXCEPT !.periodic = @ \ {t}]
TimerSetPeriodic(w, t)    == [w EXCEPT !.periodic = @ \cup {t}]

-----------------------------------------------------------------------------
(* The loop of rt_timer_check and rt_soft_timer_check. *)

\* Mutant: a timer is due only after its tick.
HeadExpired_Late(w) ==
    /\ w.list # <<>>
    /\ w.tick # w.timeout[Head(w.list)]
    /\ Ahead(Minus(w.tick, w.timeout[Head(w.list)]))

\* The first timer of the list is due.
HeadExpired(w) ==
    /\ w.list # <<>>
    /\ Ahead(Minus(w.tick, w.timeout[Head(w.list)]))

\* Before the timeout function: the timer moves to the temporary list and, if it
\* is not periodic, is no longer active.
TakeExpired(w) ==
    LET t == Head(w.list)
        r == TimerRemove(w, t)
    IN [r EXCEPT !.temp = {t}, !.active = IF t \in w.periodic THEN @ ELSE @ \ {t}]

\* After the timeout function: the timer is left alone when it is no longer in
\* the temporary list, having been stopped, started or deleted.
AfterTimeout(w) ==
    IF w.temp = {} THEN w
    ELSE LET t == CHOOSE t \in w.temp : TRUE
             r == TimerRemove(w, t)
         IN IF t \in r.periodic /\ t \in r.active THEN rt_timer_start(r, t) ELSE r

TimerListInit(w) ==
    /\ w \in [tick : Tick, list : {<<>>}, temp : {{}}, timeout : {[t \in Timer |-> 0]},
              init : [Timer -> InitTick], active : {{}}, periodic : SUBSET Timer]

-----------------------------------------------------------------------------
(* What is right about a timer list. *)

\* A timer is linked once, in one of the two lists, and rt_timer_stop finds the
\* flag of a timer in the list set.  (The converse is not so: a periodic timer
\* that its timeout function makes one-shot keeps the flag and is not linked.)
FlagMatchesList(w) ==
    /\ NoRepeats(w.list)
    /\ ToSet(w.list) \cap w.temp = {}
    /\ Cardinality(w.temp) <= 1
    /\ ToSet(w.list) \subseteq w.active

\* The ticks left until a timer is due, negative when it is late.
Remaining(w, t) ==
    LET d == Minus(w.timeout[t], w.tick) IN IF d <= TickSize \div 2 THEN d ELSE d - TickSize

\* Every timer expires before, or at the same time as, the next one of the list,
\* across the wrap-around of the tick.
SortedByTimeout(w) ==
    \A i, j \in 1 .. Len(w.list) :
        i < j => Remaining(w, w.list[i]) <= Remaining(w, w.list[j])
=============================================================================
