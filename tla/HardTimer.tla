------------------------------ MODULE HardTimer ------------------------------
(***************************************************************************)
(* The hard timers: threads create, start, stop, change and delete timers, *)
(* the clock interrupt advances the tick and runs rt_timer_check, which    *)
(* calls timeout functions with interrupts disabled.  A timeout function   *)
(* may itself do to any timer, its own included, all that a thread may.    *)
(***************************************************************************)
EXTENDS TimerList

VARIABLES
    hard,       \* the list of hard timers
    stage,      \* "thread", "check" (rt_timer_check is at the head of its
                \* loop) or "callback" (in a timeout function)
    created     \* the timer objects that are initialised

hardvars == <<hard, stage, created>>

HardTypeOK ==
    /\ hard \in TimerListState
    /\ stage \in {"thread", "check", "callback"}
    /\ created \subseteq Timer

HardInit ==
    /\ TimerListInit(hard)
    /\ stage = "thread"
    /\ created = Timer

\* Code that may use the timers runs: a thread, or a timeout function.
HardCaller == stage \in {"thread", "callback"}

HardStart(t) ==
    /\ HardCaller /\ t \in created
    /\ hard' = rt_timer_start(hard, t)
    /\ UNCHANGED <<stage, created>>

HardStop(t) ==
    /\ HardCaller /\ t \in created
    /\ hard' = rt_timer_stop(hard, t)
    /\ UNCHANGED <<stage, created>>

HardSetTime(t, time) ==
    /\ HardCaller /\ t \in created
    /\ hard' = TimerSetTime(hard, t, time)
    /\ UNCHANGED <<stage, created>>

HardSetKind(t) ==
    /\ HardCaller /\ t \in created
    /\ hard' \in {TimerSetOneshot(hard, t), TimerSetPeriodic(hard, t)}
    /\ UNCHANGED <<stage, created>>

\* rt_timer_detach and rt_timer_delete
HardDetach(t) ==
    /\ HardCaller /\ t \in created
    /\ hard' = TimerDetach(hard, t)
    /\ created' = created \ {t}
    /\ UNCHANGED stage

\* rt_timer_init and rt_timer_create
HardCreate(t, time, isPeriodic) ==
    /\ HardCaller /\ t \notin created
    /\ hard' = TimerInit(hard, t, time, isPeriodic)
    /\ created' = created \cup {t}
    /\ UNCHANGED stage

-----------------------------------------------------------------------------
(* The clock interrupt: rt_tick_increase and rt_timer_check *)

HardTick ==
    /\ stage = "thread"
    /\ hard' = [hard EXCEPT !.tick = (@ + 1) % TickSize]
    /\ stage' = "check"
    /\ UNCHANGED created

HardExpires ==
    /\ stage = "check"
    /\ HeadExpired(hard)
    /\ hard' = TakeExpired(hard)
    /\ stage' = "callback"
    /\ UNCHANGED created

HardReturns ==
    /\ stage = "callback"
    /\ hard' = AfterTimeout(hard)
    /\ stage' = "check"
    /\ UNCHANGED created

HardEnds ==
    /\ stage = "check"
    /\ ~ HeadExpired(hard)
    /\ stage' = "thread"
    /\ UNCHANGED <<hard, created>>

-----------------------------------------------------------------------------
HardCalls(t) ==
    \/ HardStart(t) \/ HardStop(t) \/ HardSetKind(t) \/ HardDetach(t)
    \/ \E time \in InitTick : HardSetTime(t, time)
    \/ \E time \in InitTick, isPeriodic \in BOOLEAN : HardCreate(t, time, isPeriodic)

HardCheck == HardExpires \/ HardReturns \/ HardEnds

HardNext == (\E t \in Timer : HardCalls(t)) \/ HardTick \/ HardCheck

HardSpec == HardInit /\ [][HardNext]_hardvars

-----------------------------------------------------------------------------
(* Properties *)

\* The variables have their types, and RT_TIMER_FLAG_ACTIVATED tells which timers
\* are linked, whatever a timeout function does to its own timer while that is on
\* the temporary list.
FlagInv == HardTypeOK /\ FlagMatchesList(hard)

\* rt_timer_check may stop at the first timer that is not due, because the list
\* is ordered by time across the wrap-around of rt_tick.
SortedInv == SortedByTimeout(hard)

\* Timers expire exactly at their tick: outside the clock interrupt no linked
\* timer is due, and none has been passed over.
FiresOnTime ==
    \A t \in ToSet(hard.list) : Remaining(hard, t) >= IF stage = "thread" THEN 1 ELSE 0

\* "the timer inserted early get called early" (rt_timer_start): no step links a
\* timer in front of one that was linked already and expires at the same tick.
EarlyFirst ==
    [][\A i, j \in 1 .. Len(hard'.list) :
            i < j /\ hard'.timeout[hard'.list[i]] = hard'.timeout[hard'.list[j]]
                => \/ hard'.list[i] \in ToSet(hard.list)
                   \/ hard'.list[j] \notin ToSet(hard.list)]_hardvars

\* The check does not touch a timer that its timeout function has deleted: only
\* objects that exist are linked.
DeletedUnlinked == ToSet(hard.list) \cup hard.temp \subseteq created
=============================================================================
