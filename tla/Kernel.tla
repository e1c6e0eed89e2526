------------------------------- MODULE Kernel -------------------------------
(***************************************************************************)
(* The state every kernel object of RT-Thread shares (the ready table, the *)
(* thread control blocks, the suspend lists of the IPC objects) and the    *)
(* functions of scheduler.c, thread.c and ipc.c that change it, for the    *)
(* uniprocessor build (RT_USING_SMP off, RT_USING_LWP on).                 *)
(*                                                                         *)
(* A kernel state is a record k.  Each C function that runs with           *)
(* interrupts disabled is an operator of the same name from kernel states  *)
(* to kernel states, and consecutive calls are nested applications:        *)
(* rt_schedule(rt_thread_resume(k, t)) is rt_thread_resume(t);             *)
(* rt_schedule();.  The modules that EXTEND this one keep k in a variable  *)
(* and decide where interrupts, and so other threads, may get in between.  *)
(*                                                                         *)
(*   cur      rt_current_thread                                            *)
(*   stat     thread->stat & RT_THREAD_STAT_MASK                           *)
(*   yield    the threads with RT_THREAD_STAT_YIELD set                    *)
(*   prio     thread->current_priority (0 is the most urgent)              *)
(*   list     rt_thread_priority_table (indexed by priority) and the       *)
(*            suspend_thread lists (indexed by queue): the order of the    *)
(*            tlist nodes                                                  *)
(*   group    the bits set in rt_thread_ready_priority_group               *)
(*   lock     rt_scheduler_lock_nest                                       *)
(*   timer    the threads whose thread_timer is activated                  *)
(*   err      thread->error                                                *)
(*   sig      the signals pending on the thread or on its process          *)
(***************************************************************************)
EXTENDS Integers, FiniteSets, Lists

CONSTANTS
    Thread,     \* the threads, the idle thread among them
    Idle,       \* the idle thread
    Queue,      \* the suspend lists of the objects the model has
    Prio,       \* the priority levels in use, 0 .. RT_THREAD_PRIORITY_MAX-1
    InitPrio    \* thread->init_priority

ASSUME KernelAssumption ==
    /\ IsFiniteSet(Thread)
    /\ Idle \in Thread
    /\ Prio \subseteq Nat
    /\ Prio \cap Queue = {}
    /\ InitPrio \in [Thread -> Prio]
    /\ \A t \in Thread \ {Idle} : InitPrio[t] < InitPrio[Idle]

App == Thread \ {Idle}

\* RT_INTERRUPTIBLE, RT_KILLABLE and RT_UNINTERRUPTIBLE, and the suspended
\* state each one leads to.
SuspendFlag == {"INTERRUPTIBLE", "KILLABLE", "UNINTERRUPTIBLE"}

Stat == {"INIT", "CLOSE", "READY", "RUNNING"} \cup SuspendFlag

Error == {"EOK", "EINTR", "ETIMEOUT", "ERROR"}

Signal == {"USR", "KILL"}

KernelState ==
    [cur   : Thread,
     stat  : [Thread -> Stat],
     yield : SUBSET Thread,
     prio  : [Thread -> Prio],
     list  : [Prio \cup Queue -> Seq(Thread)],
     group : SUBSET Prio,
     lock  : Nat,
     timer : SUBSET Thread,
     err   : [Thread -> Error],
     sig   : [Thread -> SUBSET Signal]]

\* (thread->stat & RT_THREAD_SUSPEND_MASK) == RT_THREAD_SUSPEND_MASK
Suspended(k, t) == k.stat[t] \in SuspendFlag

-----------------------------------------------------------------------------
(* Lists of tlist nodes (rtservice.h). *)

\* rt_list_remove(&thread->tlist), whichever list the node is linked in.
rt_list_remove(k, t) ==
    [k EXCEPT !.list = [l \in Prio \cup Queue |-> Without(k.list[l], t)]]

-----------------------------------------------------------------------------
(* The scheduler (scheduler.c, the variants without SMP). *)

rt_schedule_insert_thread(k, t) ==
    IF t = k.cur
    THEN [k EXCEPT !.stat[t] = "RUNNING"]
    ELSE [k EXCEPT !.stat[t] = "READY",
                   !.list[k.prio[t]] = Append(@, t),
                   !.group = @ \cup {k.prio[t]}]

rt_schedule_remove_thread(k, t) ==
    LET r == rt_list_remove(k, t)
    IN IF r.list[r.prio[t]] = <<>>
       THEN [r EXCEPT !.group = @ \ {r.prio[t]}]
       ELSE r

\* _get_highest_priority_thread: the lowest bit set in the group.
HighestReadyPriority(k) == CHOOSE p \in k.group : \A r \in k.group : p <= r

\* rt_schedule keeps the running thread unless a more urgent one is ready, or
\* one as urgent and the running thread is to yield.
KeepsCurrent(k, highest) ==
    /\ k.stat[k.cur] = "RUNNING"
    /\ \/ k.prio[k.cur] < highest
       \/ k.prio[k.cur] = highest /\ k.cur \notin k.yield

\* The switch itself: the thread that was running goes to the tail of its
\* ready list, one that has suspended itself or is closed does not.
SwitchTo(k, to) ==
    LET from == k.cur
        s    == [k EXCEPT !.cur = to]
        f    == IF k.stat[from] = "RUNNING" THEN rt_schedule_insert_thread(s, from) ELSE s
    IN [rt_schedule_remove_thread(f, to) EXCEPT !.stat[to] = "RUNNING"]

rt_schedule(k) ==
    IF k.lock # 0 \/ k.group = {}
    THEN k
    ELSE LET highest == HighestReadyPriority(k)
             to      == IF KeepsCurrent(k, highest) THEN k.cur ELSE Head(k.list[highest])
             y       == IF k.stat[k.cur] = "RUNNING"
                        THEN [k EXCEPT !.yield = @ \ {k.cur}] ELSE k
         IN IF to # k.cur
            THEN SwitchTo(y, to)
            ELSE [rt_schedule_remove_thread(y, to) EXCEPT !.stat[to] = "RUNNING"]

-----------------------------------------------------------------------------
(* Threads (thread.c). *)

\* lwp_suspend_sigcheck(thread, flag) == 0: a pending signal that the wait may
\* be broken by keeps the thread from suspending.
SignalForbidsSuspend(k, t, flag) ==
    \/ flag = "INTERRUPTIBLE" /\ k.sig[t] # {}
    \/ flag = "KILLABLE" /\ "KILL" \in k.sig[t]

\* rt_thread_suspend_with_flag returns RT_EOK exactly then.
MaySuspend(k, t, flag) ==
    /\ k.stat[t] \in {"READY", "RUNNING"}
    /\ ~ SignalForbidsSuspend(k, t, flag)

\* What rt_thread_suspend_with_flag does when it returns RT_EOK.
rt_thread_suspend_with_flag(k, t, flag) ==
    [rt_schedule_remove_thread(k, t) EXCEPT !.stat[t] = flag, !.timer = @ \ {t}]

\* Mutant: the thread_timer is not stopped.
rt_thread_resume_TimerRuns(k, t) ==
    IF Suspended(k, t) THEN rt_schedule_insert_thread(rt_list_remove(k, t), t) ELSE k

rt_thread_resume(k, t) ==
    IF Suspended(k, t)
    THEN rt_schedule_insert_thread([rt_list_remove(k, t) EXCEPT !.timer = @ \ {t}], t)
    ELSE k

\* Mutant: the thread is taken off its list and not made ready.
rt_thread_timeout_NotInserted(k, t) ==
    rt_schedule(rt_list_remove([k EXCEPT !.timer = @ \ {t}, !.err[t] = "ETIMEOUT"], t))

\* rt_timer_check finds the thread_timer expired, deactivates it and calls
\* rt_thread_timeout, whose first assertion is ThreadTimeoutAssertion below.
rt_thread_timeout(k, t) ==
    rt_schedule(
        rt_schedule_insert_thread(
            rt_list_remove([k EXCEPT !.timer = @ \ {t}, !.err[t] = "ETIMEOUT"], t), t))

\* Mutant: a ready thread stays in the ready list of its former priority.
ChangePriority_NotRequeued(k, t, p) == [k EXCEPT !.prio[t] = p]

\* rt_thread_control(thread, RT_THREAD_CTRL_CHANGE_PRIORITY, &p)
ChangePriority(k, t, p) ==
    IF k.stat[t] = "READY"
    THEN rt_schedule_insert_thread(
             [rt_schedule_remove_thread(k, t) EXCEPT !.prio[t] = p], t)
    ELSE [k EXCEPT !.prio[t] = p]

\* rt_thread_startup up to its call of rt_schedule.
rt_thread_startup(k, t) ==
    rt_thread_resume([k EXCEPT !.prio[t] = InitPrio[t], !.stat[t] = "INTERRUPTIBLE"], t)

\* rt_thread_sleep of the running thread up to its call of rt_schedule.  The
\* thread_timer is started whether or not the thread could be suspended.
rt_thread_sleep(k, t) ==
    LET u == IF MaySuspend(k, t, "INTERRUPTIBLE")
             THEN rt_thread_suspend_with_flag(k, t, "INTERRUPTIBLE") ELSE k
    IN [u EXCEPT !.timer = @ \cup {t}]

\* What rt_thread_sleep does before it returns.
ClearTimeout(k, t) == [k EXCEPT !.err[t] = IF @ = "ETIMEOUT" THEN "EOK" ELSE @]

\* _do_signal_wakeup: whether a signal may break the wait of t.
SignalWakes(k, t, s) ==
    \/ k.stat[t] = "INTERRUPTIBLE"
    \/ k.stat[t] = "KILLABLE" /\ s = "KILL"

\* lwp_thread_kill for a signal that is not masked, wakeup.func not set.
lwp_thread_kill(k, t, s) ==
    LET p == [k EXCEPT !.sig[t] = @ \cup {s}]
    IN IF SignalWakes(k, t, s) THEN rt_schedule(rt_thread_resume(p, t)) ELSE p

\* rt_tick_increase when the time slice of the running thread is used up.
TimeSliceEnds(k) == rt_schedule([k EXCEPT !.yield = @ \cup {k.cur}])

-----------------------------------------------------------------------------
(* The suspend list of an IPC object (ipc.c). *)

\* Mutant: the search runs to the end of the list.
PrioPosition_Tail(k, s, t) == Len(s) + 1

\* The place rt_ipc_list_suspend finds for t in a list kept by priority: before
\* the first thread that is less urgent, at the end when there is none.
PrioPosition(k, s, t) ==
    CHOOSE i \in 1 .. Len(s) + 1 :
        /\ \A j \in 1 .. i - 1 : k.prio[s[j]] <= k.prio[t]
        /\ i <= Len(s) => k.prio[t] < k.prio[s[i]]

\* RT_IPC_FLAG_FIFO and RT_IPC_FLAG_PRIO
rt_ipc_list_suspend(k, q, t, order, flag) ==
    LET u == rt_thread_suspend_with_flag(k, t, flag)
        s == u.list[q]
    IN [u EXCEPT !.list[q] = IF order = "FIFO" THEN Append(s, t)
                             ELSE InsertAt(s, PrioPosition(u, s, t), t)]

\* Mutant: thread->error is not set to RT_EOK.
rt_ipc_list_resume_KeepsError(k, q) == rt_thread_resume(k, Head(k.list[q]))

rt_ipc_list_resume(k, q) ==
    LET t == Head(k.list[q])
    IN rt_thread_resume([k EXCEPT !.err[t] = "EOK"], t)

\* One round of the loop of rt_ipc_list_resume_all.
ResumeAllRound(k, q) ==
    LET t == Head(k.list[q])
    IN rt_thread_resume([k EXCEPT !.err[t] = "ERROR"], t)

\* rt_timer_control(SET_TIME) and rt_timer_start on the thread_timer.
StartThreadTimer(k, t) == [k EXCEPT !.timer = @ \cup {t}]

-----------------------------------------------------------------------------
\* The scheduler has been started and runs one application thread; the idle
\* thread is ready and the other threads are initialised, not started.
KernelStart(main) ==
    [cur   |-> main,
     stat  |-> [t \in Thread |-> IF t = main THEN "RUNNING"
                                 ELSE IF t = Idle THEN "READY" ELSE "INIT"],
     yield |-> {},
     prio  |-> InitPrio,
     list  |-> [l \in Prio \cup Queue |-> IF l = InitPrio[Idle] THEN <<Idle>> ELSE <<>>],
     group |-> {InitPrio[Idle]},
     lock  |-> 0,
     timer |-> {},
     err   |-> [t \in Thread |-> "EOK"],
     sig   |-> [t \in Thread |-> {}]]

-----------------------------------------------------------------------------
(* What is right about a kernel state. *)

Linked(k, l, t) == t \in ToSet(k.list[l])

\* A tlist node is in one list at most, and once.
NodesLinkedOnce(k) ==
    /\ \A l \in Prio \cup Queue : NoRepeats(k.list[l])
    /\ \A l, m \in Prio \cup Queue : \A t \in Thread :
            Linked(k, l, t) /\ Linked(k, m, t) => l = m

\* The bitmap tells which ready lists have a thread.
GroupIsReadyTable(k) == k.group = {p \in Prio : k.list[p] # <<>>}

\* The ready table holds the READY threads, each at its current priority, and
\* a thread on a suspend list is suspended.
ListsMatchStat(k) ==
    \A t \in Thread :
        /\ \A p \in Prio : Linked(k, p, t) <=> (k.stat[t] = "READY" /\ k.prio[t] = p)
        /\ \A q \in Queue : Linked(k, q, t) => Suspended(k, t)

\* Only the current thread is RUNNING, and it is not in the ready table; the
\* idle thread never blocks, so there is always a thread to switch to.
CurrentIsApart(k) ==
    /\ \A t \in Thread : k.stat[t] = "RUNNING" => t = k.cur
    /\ k.stat[k.cur] # "READY"
    /\ k.stat[Idle] \in {"READY", "RUNNING"}

\* Only a suspended thread has its thread_timer running: what the first
\* assertion of rt_thread_timeout relies on.
ThreadTimeoutAssertion(k) == \A t \in k.timer : Suspended(k, t)

KernelOK(k) ==
    /\ NodesLinkedOnce(k)
    /\ GroupIsReadyTable(k)
    /\ ListsMatchStat(k)
    /\ CurrentIsApart(k)
    /\ ThreadTimeoutAssertion(k)
=============================================================================
