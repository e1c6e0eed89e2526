------------------------------- MODULE Threads -------------------------------
(***************************************************************************)
(* The life of threads (thread.c, idle.c and the scheduler lock of         *)
(* scheduler.c): created or initialised, started, running, asleep or       *)
(* suspended, closed by rt_thread_exit, rt_thread_delete or                *)
(* rt_thread_detach, put on the defunct list and given back by the idle    *)
(* thread.                                                                 *)
(*                                                                         *)
(*   run         in application code; for the idle thread, in its loop     *)
(*   resched     about to call rt_schedule                                 *)
(*   sleeping    suspended by rt_thread_sleep, about to call rt_schedule   *)
(*   slept       switched out by that call                                 *)
(*   resume2,    in rt_thread_resume of target, after the test of its      *)
(*   resume3     state and after the stretch that unlinks it               *)
(*   remove,     in rt_thread_delete or rt_thread_detach of target: before *)
(*   untimer,    rt_schedule_remove_thread, rt_timer_detach, the change to *)
(*   close,      RT_THREAD_CLOSE, and (detach only) before the object is   *)
(*   enqueue     detached or enqueued                                      *)
(*   dead        has closed itself with the scheduler locked               *)
(*   cleanup,    the idle thread, about to call target->cleanup, and about *)
(*   free        to free target                                            *)
(*                                                                         *)
(* The functions that work on another thread do so in several stretches,   *)
(* and rely on their callers: only one thread works on a thread at a time, *)
(* and on none that works on another itself (Exclusive), and a thread is   *)
(* deleted or suspended by one that it cannot get in between: the          *)
(* scheduler is locked, or the caller is more urgent (MayStop).  A thread  *)
(* that detaches itself locks the scheduler.                               *)
(*                                                                         *)
(* Nothing keeps a caller from a thread that is asleep, and neither the    *)
(* scheduler lock nor a priority keeps its thread_timer from firing in     *)
(* between two stretches.  The history variable late records that one has  *)
(* (TooLate): the properties are about the behaviours up to there, and a   *)
(* run of its own shows what the code does after it.                       *)
(***************************************************************************)
EXTENDS Kernel

CONSTANTS
    defunct,    \* _rt_thread_defunct
    Static,     \* the threads in static memory (rt_thread_init), the others
                \* come from rt_thread_create
    Cleanup,    \* the threads with a cleanup function
    NestMax     \* bound on nested rt_enter_critical

ASSUME ThreadsAssumption ==
    /\ defunct \in Queue
    /\ Static \subseteq App /\ Cleanup \subseteq App
    /\ NestMax \in Nat

VARIABLES
    k,          \* the kernel
    exists,     \* the threads in the object container
    pc,         \* where each thread is
    target,     \* the thread that each thread works on, Idle if there is none
    late        \* a thread_timer has fired in the middle of a resume or a delete

vars == <<k, exists, pc, target, late>>

Location == {"run", "resched", "sleeping", "slept", "resume2", "resume3", "remove",
             "untimer", "close", "enqueue", "dead", "cleanup", "free"}

TypeOK ==
    /\ k \in KernelState
    /\ k.lock \in 0 .. NestMax
    /\ exists \subseteq Thread
    /\ pc \in [Thread -> Location]
    /\ target \in [Thread -> Thread]
    /\ late \in BOOLEAN

Init ==
    /\ \E main \in App : k = KernelStart(main)
    /\ exists = Thread
    /\ pc = [t \in Thread |-> "run"]
    /\ target = [t \in Thread |-> Idle]
    /\ late = FALSE

At(t, l) == k.cur = t /\ pc[t] = l
Goto(t, l) == pc' = [pc EXCEPT ![t] = l]
Aim(t, u) == target' = [target EXCEPT ![t] = u]

Exclusive(u) == target[u] = Idle /\ \A v \in Thread : target[v] # u
MayStop(t, u) == k.lock > 0 \/ k.prio[t] < k.prio[u]

-----------------------------------------------------------------------------
(* Creating and starting threads *)

\* rt_thread_init and rt_thread_create: the object is new, or was given back.
Create(t, u) ==
    /\ t \in App /\ At(t, "run")
    /\ u \notin exists
    /\ exists' = exists \cup {u}
    /\ k' = [k EXCEPT !.stat[u] = "INIT", !.err[u] = "EOK", !.prio[u] = InitPrio[u],
                      !.yield = @ \ {u}]
    /\ pc' = [pc EXCEPT ![u] = "run"]
    /\ UNCHANGED <<target, late>>

\* rt_thread_startup, which goes on with rt_thread_resume and rt_schedule
Startup(t, u) ==
    /\ t \in App /\ At(t, "run")
    /\ u \in exists /\ k.stat[u] = "INIT" /\ Exclusive(u)
    /\ k' = [k EXCEPT !.prio[u] = InitPrio[u], !.stat[u] = "INTERRUPTIBLE"]
    /\ Aim(t, u)
    /\ Goto(t, "resume2")
    /\ UNCHANGED <<exists, late>>

-----------------------------------------------------------------------------
(* Giving up the processor.  A thread does not block with the scheduler    *)
(* locked.                                                                 *)

\* rt_thread_yield; the call of rt_schedule is inside the stretch.
Yield(t) ==
    /\ t \in App /\ At(t, "run")
    /\ k' = rt_schedule([k EXCEPT !.yield = @ \cup {t}])
    /\ UNCHANGED <<exists, pc, target, late>>

Sleep(t) ==
    /\ t \in App /\ At(t, "run") /\ k.lock = 0
    /\ k' = rt_thread_sleep(k, t)
    /\ Goto(t, "sleeping")
    /\ UNCHANGED <<exists, target, late>>

SleepSchedules(t) ==
    /\ At(t, "sleeping")
    /\ k' = rt_schedule(k)
    /\ Goto(t, "slept")
    /\ UNCHANGED <<exists, target, late>>

SleepEnds(t) ==
    /\ At(t, "slept")
    /\ k' = ClearTimeout(k, t)
    /\ Goto(t, "run")
    /\ UNCHANGED <<exists, target, late>>

\* rt_thread_suspend of itself or of another thread that is ready
Suspend(t, u) ==
    /\ t \in App /\ At(t, "run")
    /\ u \in App \cap exists /\ Exclusive(u)
    /\ IF u = t THEN k.lock = 0 ELSE MayStop(t, u)
    /\ MaySuspend(k, u, "UNINTERRUPTIBLE")
    /\ k' = rt_thread_suspend_with_flag(k, u, "UNINTERRUPTIBLE")
    /\ Goto(t, "resched")
    /\ UNCHANGED <<exists, target, late>>

-----------------------------------------------------------------------------
(* rt_thread_resume, called with interrupts enabled, and rt_schedule *)

ResumeTests(t, u) ==
    /\ t \in App /\ At(t, "run")
    /\ u \in exists /\ Suspended(k, u) /\ Exclusive(u)
    /\ Aim(t, u)
    /\ Goto(t, "resume2")
    /\ UNCHANGED <<k, exists, late>>

ResumeUnlinks(t) ==
    /\ At(t, "resume2")
    /\ k' = [rt_list_remove(k, target[t]) EXCEPT !.timer = @ \ {target[t]}]
    /\ Goto(t, "resume3")
    /\ UNCHANGED <<exists, target, late>>

ResumeInserts(t) ==
    /\ At(t, "resume3")
    /\ k' = rt_schedule_insert_thread(k, target[t])
    /\ Aim(t, Idle)
    /\ Goto(t, "resched")
    /\ UNCHANGED <<exists, late>>

Reschedule(t) ==
    /\ At(t, "resched")
    /\ k' = rt_schedule(k)
    /\ Goto(t, "run")
    /\ UNCHANGED <<exists, target, late>>

-----------------------------------------------------------------------------
(* The scheduler lock *)

rt_enter_critical(t) ==
    /\ t \in App /\ At(t, "run") /\ k.lock < NestMax
    /\ k' = [k EXCEPT !.lock = @ + 1]
    /\ UNCHANGED <<exists, pc, target, late>>

\* Mutant: the last exit does not call rt_schedule.
rt_exit_critical_NoSchedule(t) ==
    /\ t \in App /\ (At(t, "run") \/ At(t, "dead"))
    /\ k' = [k EXCEPT !.lock = IF @ = 0 THEN 0 ELSE @ - 1]
    /\ UNCHANGED <<exists, pc, target, late>>

\* An exit without an enter leaves the nesting at zero and calls rt_schedule too.
rt_exit_critical(t) ==
    /\ t \in App /\ (At(t, "run") \/ At(t, "dead"))
    /\ k' = [k EXCEPT !.lock = IF @ = 0 THEN 0 ELSE @ - 1]
    /\ IF k.lock <= 1 THEN Goto(t, "resched") ELSE UNCHANGED pc
    /\ UNCHANGED <<exists, target, late>>

-----------------------------------------------------------------------------
(* The end of a thread *)

\* rt_object_is_systemobject(thread) and thread->cleanup == RT_NULL
JustDetached(u) == u \in Static \ Cleanup

rt_thread_defunct_enqueue(s, u) == [s EXCEPT !.list[defunct] = <<u>> \o @]

\* Mutant: the cleanup of a static thread is forgotten.
Bury_Dynamic(s, u) == IF u \in Static THEN s ELSE rt_thread_defunct_enqueue(s, u)

Bury(s, u) == IF JustDetached(u) THEN s ELSE rt_thread_defunct_enqueue(s, u)

\* rt_thread_exit, all of it with interrupts disabled
rt_thread_exit(t) ==
    LET r == [rt_schedule_remove_thread(k, t) EXCEPT !.stat[t] = "CLOSE", !.timer = @ \ {t}]
    IN /\ t \in App /\ At(t, "run") /\ k.lock = 0
       /\ k' = rt_schedule(Bury(r, t))
       /\ exists' = IF JustDetached(t) THEN exists \ {t} ELSE exists
       /\ UNCHANGED <<pc, target, late>>

\* rt_thread_delete and rt_thread_detach test the state.
CloseTests(t, u) ==
    /\ t \in App /\ At(t, "run")
    /\ u \in App \cap exists /\ k.stat[u] # "CLOSE" /\ Exclusive(u)
    /\ IF u = t THEN k.lock > 0 \/ u \notin Static ELSE MayStop(t, u)
    /\ Aim(t, u)
    /\ Goto(t, IF k.stat[u] = "INIT" THEN "untimer" ELSE "remove")
    /\ UNCHANGED <<k, exists, late>>

\* Mutant: a thread that is ready is left where it is.
CloseRemoves_Not(t) ==
    /\ At(t, "remove")
    /\ Goto(t, "untimer")
    /\ UNCHANGED <<k, exists, target, late>>

CloseRemoves(t) ==
    /\ At(t, "remove")
    /\ k' = rt_schedule_remove_thread(k, target[t])
    /\ Goto(t, "untimer")
    /\ UNCHANGED <<exists, target, late>>

CloseDetachesTimer(t) ==
    /\ At(t, "untimer")
    /\ k' = [k EXCEPT !.timer = @ \ {target[t]}]
    /\ Goto(t, "close")
    /\ UNCHANGED <<exists, target, late>>

\* A thread that has closed itself goes on to its call of rt_schedule, or until
\* it unlocks the scheduler.
CloseReturns(t) ==
    /\ Aim(t, Idle)
    /\ Goto(t, IF target[t] # t THEN "run" ELSE IF k.lock = 0 THEN "resched" ELSE "dead")

\* rt_thread_delete: the state and the list change together.
DeleteCloses(t) ==
    LET u == target[t]
    IN /\ At(t, "close") /\ u \notin Static
       /\ k' = rt_thread_defunct_enqueue([k EXCEPT !.stat[u] = "CLOSE"], u)
       /\ CloseReturns(t)
       /\ UNCHANGED <<exists, late>>

\* rt_thread_detach: first the state, ...
DetachCloses(t) ==
    LET u == target[t]
    IN /\ At(t, "close") /\ u \in Static
       /\ k' = [k EXCEPT !.stat[u] = "CLOSE"]
       /\ Goto(t, "enqueue")
       /\ UNCHANGED <<exists, target, late>>

\* ... then the object.
DetachBuries(t) ==
    LET u == target[t]
    IN /\ At(t, "enqueue")
       /\ k' = Bury(k, u)
       /\ exists' = IF JustDetached(u) THEN exists \ {u} ELSE exists
       /\ CloseReturns(t)
       /\ UNCHANGED late

-----------------------------------------------------------------------------
(* rt_defunct_execute, in the loop of the idle thread *)

\* Mutant: the thread is looked at and not taken off the list.
IdleDequeues_Not ==
    LET u == Head(k.list[defunct])
    IN /\ At(Idle, "run")
       /\ k.list[defunct] # <<>>
       /\ target' = [target EXCEPT ![Idle] = u]
       /\ Goto(Idle, IF u \in Cleanup THEN "cleanup" ELSE "free")
       /\ UNCHANGED <<k, exists, late>>

IdleDequeues ==
    LET u == Head(k.list[defunct])
    IN /\ At(Idle, "run")
       /\ k.list[defunct] # <<>>
       /\ k' = rt_list_remove(k, u)
       /\ Aim(Idle, u)
       /\ Goto(Idle, IF u \in Cleanup THEN "cleanup" ELSE "free")
       /\ UNCHANGED <<exists, late>>

\* The cleanup function runs with interrupts enabled.
IdleCleansUp ==
    /\ At(Idle, "cleanup")
    /\ Goto(Idle, "free")
    /\ UNCHANGED <<k, exists, target, late>>

\* Mutant: only threads from the heap are given back.
IdleFrees_Dynamic ==
    /\ At(Idle, "free")
    /\ exists' = IF target[Idle] \in Static THEN exists ELSE exists \ {target[Idle]}
    /\ Aim(Idle, Idle)
    /\ Goto(Idle, "run")
    /\ UNCHANGED <<k, late>>

\* rt_object_detach, or the stack and the object go back to the heap.
IdleFrees ==
    /\ At(Idle, "free")
    /\ exists' = exists \ {target[Idle]}
    /\ Aim(Idle, Idle)
    /\ Goto(Idle, "run")
    /\ UNCHANGED <<k, late>>

-----------------------------------------------------------------------------
(* Interrupts *)

\* Somebody has found t suspended and is about to unlink it (rt_thread_resume), or
\* has unlinked it and is about to detach its thread_timer (rt_thread_delete,
\* rt_thread_detach).
TooLate(t) == \E v \in Thread : target[v] = t /\ pc[v] \in {"resume2", "untimer"}

ThreadTimer(t) ==
    /\ t \in k.timer
    /\ k' = rt_thread_timeout(k, t)
    /\ late' = (late \/ TooLate(t))
    /\ UNCHANGED <<exists, pc, target>>

TimeSlice ==
    /\ k' = TimeSliceEnds(k)
    /\ UNCHANGED <<exists, pc, target, late>>

-----------------------------------------------------------------------------
Works(t) ==
    \/ \E u \in App : \/ Create(t, u) \/ Startup(t, u) \/ Suspend(t, u)
                      \/ ResumeTests(t, u) \/ CloseTests(t, u)
    \/ Yield(t) \/ Sleep(t) \/ rt_enter_critical(t) \/ rt_exit_critical(t)
    \/ rt_thread_exit(t)

KernelStep(t) ==
    \/ SleepSchedules(t) \/ SleepEnds(t) \/ Reschedule(t)
    \/ ResumeUnlinks(t) \/ ResumeInserts(t)
    \/ CloseRemoves(t) \/ CloseDetachesTimer(t)
    \/ DeleteCloses(t) \/ DetachCloses(t) \/ DetachBuries(t)

IdleStep == IdleDequeues \/ IdleCleansUp \/ IdleFrees

Interrupt == TimeSlice \/ \E t \in App : ThreadTimer(t)

Next == (\E t \in App : Works(t) \/ KernelStep(t)) \/ IdleStep \/ Interrupt

Spec == Init /\ [][Next]_vars

\* The idle thread goes on when it has the processor for good.
FairSpec == Spec /\ WF_vars(IdleStep)

-----------------------------------------------------------------------------
(* Properties *)

\* A thread that rt_thread_delete or rt_thread_detach has unlinked and not yet
\* closed keeps its state for a moment.
HalfClosed(u) == \E t \in Thread : target[t] = u /\ pc[t] \in {"untimer", "close"}

\* The variables have their types; the ready table, its bitmap, the defunct list
\* and the thread states agree, a node is never in two lists, and thread_timers
\* run for suspended threads only, although deleting, detaching and resuming a
\* thread, one that is asleep too, take several stretches with interrupts enabled
\* in between; as long as no thread_timer fires in the middle of them.
KernelInv ==
    ~ late =>
        /\ TypeOK
        /\ NodesLinkedOnce(k) /\ GroupIsReadyTable(k)
        /\ CurrentIsApart(k) /\ ThreadTimeoutAssertion(k)
        /\ \A u \in Thread :
               /\ \A p \in Prio : Linked(k, p, u) => k.stat[u] = "READY" /\ k.prio[u] = p
               /\ k.stat[u] = "READY" => Linked(k, k.prio[u], u) \/ HalfClosed(u)
               /\ Linked(k, defunct, u) => k.stat[u] = "CLOSE"

\* A thread that has been given back (rt_defunct_execute, rt_object_detach) is
\* closed, in no list, without a timer, neither worked on nor at work on another
\* one, and not the one that runs unless it is a static one that has just detached
\* itself: its stack is free memory.  So it is as long as no thread_timer fires in
\* the middle of its delete.
FreedIsNowhere ==
    ~ late =>
        \A u \in Thread \ exists :
            /\ k.stat[u] = "CLOSE" /\ u \notin k.timer
            /\ \A l \in Prio \cup Queue : ~ Linked(k, l, u)
            /\ Exclusive(u)
            /\ k.cur = u => u \in Static

\* "The thread object will be removed from thread queue and detached/deleted from
\* system object management" (rt_thread_detach): when the object is about to be
\* given back, the thread is in no ready list.
DetachedIsOffQueue ==
    \A t \in Thread : pc[t] = "enqueue" => \A p \in Prio : ~ Linked(k, p, target[t])

\* A closed thread is waiting for the idle thread or is in the hands of the idle
\* thread or of the thread that detaches it: none is forgotten.
DeadIsReaped ==
    ~ late => \A u \in exists : k.stat[u] = "CLOSE" =>
        \/ Linked(k, defunct, u)
        \/ \E t \in Thread : target[t] = u /\ (k.stat[t] # "CLOSE" \/ k.cur = t)

\* While the scheduler is not locked and the running thread is not on its way to
\* rt_schedule, no thread is ready that is more urgent: a thread that an
\* interrupt made ready during a critical section has not been missed
\* (rt_exit_critical).
NoMissedPreemption ==
    (/\ ~ late /\ k.lock = 0 /\ k.stat[k.cur] = "RUNNING" /\ pc[k.cur] # "resched")
        => \A p \in Prio : k.list[p] # <<>> => k.prio[k.cur] <= p

\* "one call to rt_defunct_execute will do all the cleanups": when the system
\* comes to rest, every thread that has ended is given back.
DefunctDrains ==
    <>[](~ late /\ k.cur = Idle) => <>[](\A u \in exists : k.stat[u] # "CLOSE")
=============================================================================
