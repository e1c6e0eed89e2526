------------------------------ MODULE SoftTimer ------------------------------
(***************************************************************************)
(* The soft timers: a timer thread sleeps until the first one is due and   *)
(* calls the timeout functions with interrupts enabled (timer.c,           *)
(* RT_USING_TIMER_SOFT), while other threads start, stop and delete        *)
(* timers.  Composes the kernel (scheduling, sleeping) with a TimerList.   *)
(*                                                                         *)
(* The timer thread:                                                       *)
(*   next      at the head of its loop                                     *)
(*   test      has read the first timeout                                  *)
(*   sleep     has computed the time to sleep                              *)
(*   pause     suspended, about to call rt_schedule                        *)
(*   paused    switched out; goes on with rt_soft_timer_check              *)
(*   check     at the head of the loop of rt_soft_timer_check, interrupts  *)
(*             disabled                                                    *)
(*   run       in a timeout function                                       *)
(* and every thread that uses timers, the timer thread in a timeout        *)
(* function included:                                                      *)
(*   run       in application code                                         *)
(*   started   rt_timer_start has linked the timer and enabled interrupts  *)
(*   tested    has found soft_timer_status idle                            *)
(*   resume,   has found the timer thread suspended and calls              *)
(*   resume2,  rt_thread_resume: before the test of its state, after it,   *)
(*   resume3   and after the stretch that unlinks it and stops its         *)
(*             thread_timer                                                *)
(*   resched   about to call rt_schedule                                   *)
(*   nap       suspended by rt_thread_sleep, about to call rt_schedule     *)
(*   napped    switched out by that call                                   *)
(***************************************************************************)
EXTENDS Kernel, TimerList

CONSTANTS
    TimerThread,    \* the timer thread; its priority is RT_TIMER_THREAD_PRIO
    LastTick        \* bound: the clock stops at this tick

\* No thread waits in the suspend list of an object here.
ASSUME SoftTimerAssumption == TimerThread \in App /\ LastTick \in Tick /\ Queue = {}

VARIABLES
    k,          \* the kernel
    w,          \* the list of soft timers
    status,     \* soft_timer_status
    pc,         \* where each thread is
    starting,   \* the timer that a thread has linked in rt_timer_start, until it has
                \* seen to the timer thread: a set of one, or none
    next,       \* next_timeout of rt_thread_timer_entry, 0 when it is dead
    now,        \* current_tick of rt_thread_timer_entry, 0 when it is dead
    due,        \* timeout_tick of the thread_timer of the timer thread
    exists,     \* the timer objects that are initialised
    crossed     \* history: two calls of rt_thread_resume for the timer thread have
                \* overlapped

vars == <<k, w, status, pc, starting, next, now, due, exists, crossed>>

Location == {"next", "test", "sleep", "pause", "paused", "check",
             "run", "started", "tested", "resume", "resume2", "resume3", "resched",
             "nap", "napped"}

TypeOK ==
    /\ k \in KernelState
    /\ w \in TimerListState
    /\ status \in {"IDLE", "BUSY"}
    /\ pc \in [Thread -> Location]
    /\ starting \in [Thread -> SUBSET Timer]
    /\ next \in Tick /\ now \in Tick
    /\ due \in Tick
    /\ exists \subseteq Timer
    /\ crossed \in BOOLEAN

\* rt_system_timer_thread_init has started the timer thread.
Init ==
    /\ \E main \in App \ {TimerThread} :
            k = rt_schedule(rt_thread_startup(KernelStart(main), TimerThread))
    /\ TimerListInit(w) /\ w.tick = 0
    /\ status = "IDLE"
    /\ pc = [t \in Thread |-> IF t = TimerThread THEN "next" ELSE "run"]
    /\ starting = [t \in Thread |-> {}]
    /\ next = 0 /\ now = 0 /\ due = 0
    /\ exists = Timer
    /\ crossed = FALSE

At(t, l) == k.cur = t /\ pc[t] = l
Goto(t, l) == pc' = [pc EXCEPT ![t] = l]
GotoWith(t, l, X) == Goto(t, l) /\ starting' = [starting EXCEPT ![t] = X]

-----------------------------------------------------------------------------
(* rt_thread_timer_entry *)

\* rt_timer_list_next_timeout
ReadNext ==
    /\ At(TimerThread, "next")
    /\ next' = IF w.list = <<>> THEN RT_TICK_MAX ELSE w.timeout[Head(w.list)]
    /\ Goto(TimerThread, "test")
    /\ UNCHANGED <<k, w, status, starting, now, due, exists, crossed>>

SuspendSelf ==
    /\ At(TimerThread, "test")
    /\ next = RT_TICK_MAX
    /\ k' = rt_thread_suspend_with_flag(k, TimerThread, "UNINTERRUPTIBLE")
    /\ Goto(TimerThread, "pause")
    /\ UNCHANGED <<w, status, starting, next, now, due, exists, crossed>>

ReadTick ==
    /\ At(TimerThread, "test")
    /\ next # RT_TICK_MAX
    /\ LET d == Minus(next, w.tick)
       IN IF Ahead(d) THEN next' = d /\ now' = w.tick /\ Goto(TimerThread, "sleep")
                      ELSE next' = 0 /\ UNCHANGED now /\ Goto(TimerThread, "check")
    /\ UNCHANGED <<k, w, status, starting, due, exists, crossed>>

Sleep ==
    /\ At(TimerThread, "sleep")
    /\ k' = rt_thread_sleep(k, TimerThread)
    /\ due' = (w.tick + next) % TickSize
    /\ Goto(TimerThread, "pause")
    /\ UNCHANGED <<w, status, starting, next, now, exists, crossed>>

Pause ==
    /\ At(TimerThread, "pause")
    /\ k' = rt_schedule(k)
    /\ Goto(TimerThread, "paused")
    /\ UNCHANGED <<w, status, starting, next, now, due, exists, crossed>>

\* rt_thread_sleep returns; after SuspendSelf there is no timeout to clear.
PauseEnds ==
    /\ At(TimerThread, "paused")
    /\ k' = ClearTimeout(k, TimerThread)
    /\ next' = 0 /\ now' = 0
    /\ Goto(TimerThread, "check")
    /\ UNCHANGED <<w, status, starting, due, exists, crossed>>

-----------------------------------------------------------------------------
(* rt_soft_timer_check *)

CheckExpires ==
    /\ At(TimerThread, "check")
    /\ HeadExpired(w)
    /\ w' = TakeExpired(w)
    /\ status' = "BUSY"
    /\ Goto(TimerThread, "run")
    /\ UNCHANGED <<k, starting, next, now, due, exists, crossed>>

\* The timer thread is running, so the rt_timer_start of a periodic timer does
\* not resume it.
CallbackReturns ==
    /\ At(TimerThread, "run")
    /\ w' = AfterTimeout(w)
    /\ status' = "IDLE"
    /\ Goto(TimerThread, "check")
    /\ UNCHANGED <<k, starting, next, now, due, exists, crossed>>

CheckEnds ==
    /\ At(TimerThread, "check")
    /\ ~ HeadExpired(w)
    /\ Goto(TimerThread, "next")
    /\ UNCHANGED <<k, w, status, starting, next, now, due, exists, crossed>>

-----------------------------------------------------------------------------
(* What a thread, or a timeout function, does with the timers. *)

Uses(t, x) == t \in App /\ At(t, "run") /\ x \in exists

Start(t, x) ==
    /\ Uses(t, x)
    /\ w' = rt_timer_start(w, x)
    /\ GotoWith(t, "started", {x})
    /\ UNCHANGED <<k, status, next, now, due, exists, crossed>>

\* "check whether timer thread is ready", with interrupts enabled: first
\* soft_timer_status is read, ...
StartTestsStatus(t) ==
    /\ At(t, "started")
    /\ IF status = "IDLE" THEN Goto(t, "tested") /\ UNCHANGED starting
                          ELSE GotoWith(t, "run", {})
    /\ UNCHANGED <<k, w, status, next, now, due, exists, crossed>>

\* Mutant: the timer thread is left alone while it sleeps until a timer is due.
StartTestsThread_NotAsleep(t) ==
    /\ At(t, "tested")
    /\ IF Suspended(k, TimerThread) /\ TimerThread \notin k.timer
       THEN Goto(t, "resume") /\ UNCHANGED starting
       ELSE GotoWith(t, "run", {})
    /\ UNCHANGED <<k, w, status, next, now, due, exists, crossed>>

\* ... then the state of the timer thread.
StartTestsThread(t) ==
    /\ At(t, "tested")
    /\ IF Suspended(k, TimerThread) THEN Goto(t, "resume") /\ UNCHANGED starting
                                    ELSE GotoWith(t, "run", {})
    /\ UNCHANGED <<k, w, status, next, now, due, exists, crossed>>

\* Some thread is between the test and the insert of rt_thread_resume(&timer_thread).
Resuming == \E u \in App : pc[u] \in {"resume2", "resume3"}

\* rt_thread_resume(&timer_thread), with interrupts enabled: the test, ...
ResumeTests(t) ==
    /\ At(t, "resume")
    /\ IF Suspended(k, TimerThread)
       THEN Goto(t, "resume2") /\ crossed' = (crossed \/ Resuming) /\ UNCHANGED starting
       ELSE GotoWith(t, "resched", {}) /\ UNCHANGED crossed
    /\ UNCHANGED <<k, w, status, next, now, due, exists>>

\* Mutant: the thread_timer is not stopped.
ResumeUnlinks_TimerRuns(t) ==
    /\ At(t, "resume2")
    /\ k' = rt_list_remove(k, TimerThread)
    /\ GotoWith(t, "resume3", {})
    /\ UNCHANGED <<w, status, next, now, due, exists, crossed>>

\* ... the stretch that unlinks the thread and stops its thread_timer, ...
ResumeUnlinks(t) ==
    /\ At(t, "resume2")
    /\ k' = [rt_list_remove(k, TimerThread) EXCEPT !.timer = @ \ {TimerThread}]
    /\ GotoWith(t, "resume3", {})
    /\ UNCHANGED <<w, status, next, now, due, exists, crossed>>

\* ... and rt_schedule_insert_thread.
ResumeInserts(t) ==
    /\ At(t, "resume3")
    /\ k' = rt_schedule_insert_thread(k, TimerThread)
    /\ Goto(t, "resched")
    /\ UNCHANGED <<w, status, starting, next, now, due, exists, crossed>>

Reschedule(t) ==
    /\ At(t, "resched")
    /\ k' = rt_schedule(k)
    /\ Goto(t, "run")
    /\ UNCHANGED <<w, status, starting, next, now, due, exists, crossed>>

Stop(t, x) ==
    /\ Uses(t, x)
    /\ w' = rt_timer_stop(w, x)
    /\ UNCHANGED <<k, status, pc, starting, next, now, due, exists, crossed>>

\* rt_timer_control
Control(t, x) ==
    /\ Uses(t, x)
    /\ w' \in {TimerSetOneshot(w, x), TimerSetPeriodic(w, x)}
              \cup {TimerSetTime(w, x, time) : time \in InitTick}
    /\ UNCHANGED <<k, status, pc, starting, next, now, due, exists, crossed>>

\* rt_timer_detach and rt_timer_delete
Detach(t, x) ==
    /\ Uses(t, x)
    /\ w' = TimerDetach(w, x)
    /\ exists' = exists \ {x}
    /\ UNCHANGED <<k, status, pc, starting, next, now, due, crossed>>

Create(t, x) ==
    /\ t \in App /\ At(t, "run") /\ x \notin exists
    /\ \E time \in InitTick, isPeriodic \in BOOLEAN : w' = TimerInit(w, x, time, isPeriodic)
    /\ exists' = exists \cup {x}
    /\ UNCHANGED <<k, status, pc, starting, next, now, due, crossed>>

\* rt_thread_sleep, of one tick when the timer thread calls it
Nap(t) ==
    /\ t \in App /\ At(t, "run")
    /\ k' = rt_thread_sleep(k, t)
    /\ due' = IF t = TimerThread THEN (w.tick + 1) % TickSize ELSE due
    /\ Goto(t, "nap")
    /\ UNCHANGED <<w, status, starting, next, now, exists, crossed>>

NapSchedules(t) ==
    /\ At(t, "nap")
    /\ k' = rt_schedule(k)
    /\ Goto(t, "napped")
    /\ UNCHANGED <<w, status, starting, next, now, due, exists, crossed>>

NapEnds(t) ==
    /\ At(t, "napped")
    /\ k' = ClearTimeout(k, t)
    /\ Goto(t, "run")
    /\ UNCHANGED <<w, status, starting, next, now, due, exists, crossed>>

\* rt_thread_startup in one step: the thread is not suspended before, so nothing else
\* resumes it, and no timer of it runs.
Startup(t, u) ==
    /\ t \in App \ {TimerThread} /\ At(t, "run")
    /\ k.stat[u] = "INIT"
    /\ k' = rt_thread_startup(k, u)
    /\ Goto(t, "resched")
    /\ UNCHANGED <<w, status, starting, next, now, due, exists, crossed>>

-----------------------------------------------------------------------------
(* Interrupts *)

\* Bound: the timer thread gets the processor before a timer is so late that, in
\* the comparison with one that is started now, rt_timer_start would take it for
\* one to come ("It supposes that the new tick shall less than the half duration
\* of tick max").
NotTooLate ==
    \A x \in ToSet(w.list), time \in InitTick : time - Remaining(w, x) < RT_TICK_MAX \div 2

\* rt_tick_increase; the hard timer that ends the sleep of the timer thread
\* fires at its tick (module HardTimer).
ClockTick ==
    /\ w.tick # LastTick
    /\ NotTooLate
    /\ w' = [w EXCEPT !.tick = (@ + 1) % TickSize]
    /\ k' = IF TimerThread \in k.timer /\ Ahead(Minus(w'.tick, due))
            THEN rt_thread_timeout(k, TimerThread) ELSE k
    /\ UNCHANGED <<status, pc, starting, next, now, due, exists, crossed>>

ThreadTimer(t) ==
    /\ t \in k.timer \ {TimerThread}
    /\ k' = rt_thread_timeout(k, t)
    /\ UNCHANGED <<w, status, pc, starting, next, now, due, exists, crossed>>

TimeSlice ==
    /\ k' = TimeSliceEnds(k)
    /\ UNCHANGED <<w, status, pc, starting, next, now, due, exists, crossed>>

-----------------------------------------------------------------------------
TimerThreadStep ==
    \/ ReadNext \/ SuspendSelf \/ ReadTick \/ Sleep \/ Pause \/ PauseEnds
    \/ CheckExpires \/ CallbackReturns \/ CheckEnds

Calls(t) ==
    \/ \E x \in Timer : Start(t, x) \/ Stop(t, x) \/ Control(t, x) \/ Detach(t, x) \/ Create(t, x)
    \/ StartTestsStatus(t) \/ StartTestsThread(t)
    \/ ResumeTests(t) \/ ResumeUnlinks(t) \/ ResumeInserts(t) \/ Reschedule(t)
    \/ Nap(t) \/ NapSchedules(t) \/ NapEnds(t)
    \/ \E u \in App : Startup(t, u)

Interrupt ==
    /\ pc[k.cur] # "check"
    /\ ClockTick \/ TimeSlice \/ \E t \in App : ThreadTimer(t)

Next == TimerThreadStep \/ (\E t \in App : Calls(t)) \/ Interrupt

Spec == Init /\ [][Next]_vars

-----------------------------------------------------------------------------
(* Properties *)

\* The variables have their types (the time to sleep is a number of ticks although
\* it is a difference), and the ready table, the lists and the thread states agree
\* until two calls of rt_thread_resume overlap: the second to insert the timer
\* thread may do so when it has run, and sleeps again with its thread_timer on.
KernelInv == ~ crossed => TypeOK /\ KernelOK(k)

\* Whatever threads do to a timer while its timeout function runs with interrupts
\* enabled, the list stays ordered by time, and only objects that exist are
\* linked in it.
ListInv ==
    /\ FlagMatchesList(w)
    /\ SortedByTimeout(w)
    /\ ToSet(w.list) \cup w.temp \subseteq exists

\* The ticks from now until tick x, negative when it is past.
Until(x) == LET d == Minus(x, w.tick) IN IF d <= TickSize \div 2 THEN d ELSE d - TickSize

\* "no software timer exist, suspend self." (rt_thread_timer_entry): while the
\* timer thread waits, the wait is one that ends by itself, set for a time no later
\* than any soft timer is due, but for timers whose rt_timer_start has yet to resume
\* the timer thread; or a thread is about to insert it, in an rt_thread_resume that
\* has stopped its thread_timer.  (In that case all timers are late when this thread
\* is preempted.  The wait also ends as much later as ticks pass between rt_tick_get
\* and rt_thread_delay.)  Until two of these calls overlap.
WakesInTime ==
    ~ crossed /\ pc[TimerThread] \in {"pause", "paused"} /\ Suspended(k, TimerThread)
    => \/ \E t \in App : pc[t] = "resume3"
       \/ \A x \in ToSet(w.list) \ UNION {starting[t] : t \in App} :
              /\ TimerThread \in k.timer
              /\ Until(now + next) <= 0 \/ Until(now + next) <= Remaining(w, x)
=============================================================================
