-------------------------------- MODULE Mutex --------------------------------
(***************************************************************************)
(* Mutexes (ipc.c, RT_USING_MUTEX) used by threads of different            *)
(* priorities, over the kernel of module Kernel: recursive locking, the    *)
(* hand-over to a waiter and priority inheritance.  As in module           *)
(* Semaphore an action is a stretch of code with interrupts disabled.      *)
(*                                                                         *)
(*   run       in application code                                         *)
(*   blocking  suspended by _rt_mutex_take, about to call rt_schedule      *)
(*   blocked   switched out by that call, will look at thread->error       *)
(*   resched   about to call rt_schedule as the last thing in a call       *)
(*   detach    at the loop condition of rt_ipc_list_resume_all, called by  *)
(*             rt_mutex_detach or rt_mutex_delete                          *)
(*   detach2   in the body of that loop                                    *)
(***************************************************************************)
EXTENDS Kernel

CONSTANTS
    Mutexes,        \* the mutexes, each standing for its suspend list
    NoOwner,        \* RT_NULL as mutex->owner
    HoldMax,        \* RT_MUTEX_HOLD_MAX
    Order,          \* RT_IPC_FLAG_FIFO or RT_IPC_FLAG_PRIO
    Time,           \* the time arguments in use: "zero", "ticks", "forever"
    Flag,           \* the suspend flags in use
    Process,        \* the threads that belong to a process (thread->lwp)
    Sig             \* the signals they may be sent

ASSUME MutexAssumption ==
    /\ Mutexes \subseteq Queue /\ Mutexes # {}
    /\ NoOwner \notin Thread
    /\ HoldMax \in Nat \ {0}
    /\ Order \in {"FIFO", "PRIO"}
    /\ Time \subseteq {"zero", "ticks", "forever"}
    /\ Flag \subseteq SuspendFlag
    /\ Process \subseteq App
    /\ Sig \subseteq Signal

VARIABLES
    k,          \* the kernel
    mutex,      \* value, owner, original_priority and hold of each mutex
    alive,      \* the mutexes that are objects threads may use
    pc,         \* where each thread is
    at,         \* the mutex each thread has last called a function of
    depth       \* the calls of rt_mutex_take that each thread has seen succeed
                \* and has not undone yet, for each mutex

vars == <<k, mutex, alive, pc, at, depth>>

Location == {"run", "blocking", "blocked", "resched", "detach", "detach2"}

NoPriority == 255       \* 0xFF

TypeOK ==
    /\ k \in KernelState
    /\ mutex \in [Mutexes -> [value : {0, 1}, owner : Thread \cup {NoOwner},
                              original_priority : Prio \cup {NoPriority},
                              hold : 0 .. HoldMax]]
    /\ alive \subseteq Mutexes
    /\ pc \in [Thread -> Location]
    /\ at \in [Thread -> Mutexes]
    /\ depth \in [Mutexes -> [Thread -> 0 .. HoldMax]]

\* rt_mutex_init and rt_mutex_create
Free == [value |-> 1, owner |-> NoOwner, original_priority |-> NoPriority, hold |-> 0]

Init ==
    /\ \E main \in App : k = KernelStart(main)
    /\ mutex = [x \in Mutexes |-> Free]
    /\ alive = Mutexes
    /\ pc = [t \in Thread |-> "run"]
    /\ at = [t \in Thread |-> CHOOSE x \in Mutexes : TRUE]
    /\ depth = [x \in Mutexes |-> [t \in Thread |-> 0]]

Waiters(x) == ToSet(k.list[x])

At(t, l) == k.cur = t /\ pc[t] = l
Goto(t, l) == pc' = [pc EXCEPT ![t] = l]

\* Application code of t calls a function of the mutex x.
Calls(t, x) == t \in App /\ At(t, "run") /\ x \in alive

SetError(s, t, e) == [s EXCEPT !.err[t] = e]

\* The call has succeeded for t.
Entered(t, x) == depth' = [depth EXCEPT ![x][t] = @ + 1]

-----------------------------------------------------------------------------
(* _rt_mutex_take *)

\* The caller is the owner.  At RT_MUTEX_HOLD_MAX the call returns -RT_EFULL.
TakeOwn(t, x) ==
    /\ Calls(t, x)
    /\ mutex[x].owner = t
    /\ k' = SetError(k, t, "EINTR")
    /\ IF mutex[x].hold < HoldMax
       THEN mutex' = [mutex EXCEPT ![x].hold = @ + 1] /\ Entered(t, x)
       ELSE UNCHANGED <<mutex, depth>>
    /\ UNCHANGED <<alive, pc, at>>

TakeFree(t, x) ==
    /\ Calls(t, x)
    /\ mutex[x].owner # t
    /\ mutex[x].value > 0
    /\ k' = SetError(k, t, "EINTR")
    /\ mutex' = [mutex EXCEPT ![x] = [value |-> @.value - 1, owner |-> t,
                                      original_priority |-> k.prio[t],
                                      hold |-> IF @.hold < HoldMax THEN @.hold + 1 ELSE @.hold]]
    /\ IF mutex[x].hold < HoldMax THEN Entered(t, x) ELSE UNCHANGED depth
    /\ UNCHANGED <<alive, pc, at>>

\* The caller is not the owner and the mutex is not available.
Unavailable(t, x) ==
    /\ Calls(t, x)
    /\ mutex[x].owner # t
    /\ mutex[x].value = 0

TakeNoWait(t, x) ==
    /\ Unavailable(t, x)
    /\ "zero" \in Time
    /\ k' = SetError(k, t, "ETIMEOUT")
    /\ UNCHANGED <<mutex, alive, pc, at, depth>>

\* Mutant: no priority inheritance.
Boosted_Not(s, t, owner) == s

\* The owner inherits the priority of a more urgent caller.
Boosted(s, t, owner) ==
    IF s.prio[t] < s.prio[owner] THEN ChangePriority(s, owner, s.prio[t]) ELSE s

\* The owner is boosted even if the caller then finds a signal pending and does
\* not wait.
TakeInterrupted(t, x, time, flag) ==
    /\ Unavailable(t, x)
    /\ time # "zero"
    /\ ~ MaySuspend(k, t, flag)
    /\ k' = Boosted(SetError(k, t, "EINTR"), t, mutex[x].owner)
    /\ UNCHANGED <<mutex, alive, pc, at, depth>>

SuspendOn(t, x, time, flag) ==
    LET s == Boosted(SetError(k, t, "EINTR"), t, mutex[x].owner)
        u == rt_ipc_list_suspend(s, x, t, Order, flag)
    IN IF time = "ticks" THEN StartThreadTimer(u, t) ELSE u

TakeBlocks(t, x, time, flag) ==
    /\ Unavailable(t, x)
    /\ time # "zero"
    /\ MaySuspend(k, t, flag)
    /\ k' = SuspendOn(t, x, time, flag)
    /\ at' = [at EXCEPT ![t] = x]
    /\ Goto(t, "blocking")
    /\ UNCHANGED <<mutex, alive, depth>>

TakeSchedules(t) ==
    /\ At(t, "blocking")
    /\ k' = rt_schedule(k)
    /\ Goto(t, "blocked")
    /\ UNCHANGED <<mutex, alive, at, depth>>

TakeReturns(t) ==
    /\ At(t, "blocked")
    /\ IF k.err[t] = "EOK" THEN Entered(t, at[t]) ELSE UNCHANGED depth
    /\ Goto(t, "run")
    /\ UNCHANGED <<k, mutex, alive, at>>

-----------------------------------------------------------------------------
(* rt_mutex_release *)

ReleaseNotOwner(t, x) ==
    /\ Calls(t, x)
    /\ mutex[x].owner # t
    /\ k' = SetError(k, t, "ERROR")
    /\ UNCHANGED <<mutex, alive, pc, at, depth>>

ReleaseInner(t, x) ==
    /\ Calls(t, x)
    /\ mutex[x].owner = t
    /\ mutex[x].hold > 1
    /\ mutex' = [mutex EXCEPT ![x].hold = @ - 1]
    /\ depth' = [depth EXCEPT ![x][t] = @ - 1]
    /\ UNCHANGED <<k, alive, pc, at>>

\* Mutant: the priority the owner has inherited stays.
Restored_Not(s, t, x) == s

\* The owner goes back to the priority it had when it took the mutex.
Restored(s, t, x) ==
    IF mutex[x].original_priority # s.prio[t]
    THEN ChangePriority(s, t, mutex[x].original_priority) ELSE s

\* The last release hands the mutex to the head of the suspend list ...
ReleaseHands(t, x) ==
    LET next == Head(k.list[x])
        r    == Restored(k, t, x)
    IN /\ Calls(t, x)
       /\ mutex[x].owner = t
       /\ mutex[x].hold = 1
       /\ Waiters(x) # {}
       /\ mutex' = [mutex EXCEPT ![x].owner = next, ![x].original_priority = r.prio[next]]
       /\ k' = rt_ipc_list_resume(r, x)
       /\ depth' = [depth EXCEPT ![x][t] = @ - 1]
       /\ Goto(t, "resched")
       /\ UNCHANGED <<alive, at>>

\* ... or frees it, without a call of rt_schedule.
ReleaseFrees(t, x) ==
    /\ Calls(t, x)
    /\ mutex[x].owner = t
    /\ mutex[x].hold = 1
    /\ Waiters(x) = {}
    /\ mutex' = [mutex EXCEPT ![x] = Free]
    /\ k' = Restored(k, t, x)
    /\ depth' = [depth EXCEPT ![x][t] = @ - 1]
    /\ UNCHANGED <<alive, pc, at>>

\* The call of rt_schedule that ends a release or a thread start.
Reschedule(t) ==
    /\ At(t, "resched")
    /\ k' = rt_schedule(k)
    /\ Goto(t, "run")
    /\ UNCHANGED <<mutex, alive, at, depth>>

-----------------------------------------------------------------------------
(* rt_mutex_detach and rt_mutex_delete, by a thread that knows that no     *)
(* other thread owns the mutex.                                            *)

DetachBegins(t, x) ==
    /\ Calls(t, x)
    /\ mutex[x].owner \in {t, NoOwner}
    /\ alive' = alive \ {x}
    /\ at' = [at EXCEPT ![t] = x]
    /\ Goto(t, "detach")
    /\ UNCHANGED <<k, mutex, depth>>

DetachTests(t) ==
    /\ At(t, "detach")
    /\ Goto(t, IF Waiters(at[t]) = {} THEN "run" ELSE "detach2")
    /\ UNCHANGED <<k, mutex, alive, at, depth>>

\* As in module Semaphore, the list may have become empty since the test.
DetachResumes(t) ==
    /\ At(t, "detach2")
    /\ k' = IF Waiters(at[t]) # {} THEN ResumeAllRound(k, at[t]) ELSE k
    /\ Goto(t, "detach")
    /\ UNCHANGED <<mutex, alive, at, depth>>

Reinit(t, x) ==
    /\ t \in App /\ At(t, "run")
    /\ x \notin alive
    /\ \A u \in Thread : depth[x][u] = 0 /\ ~ (at[u] = x /\ pc[u] \in {"detach", "detach2"})
    /\ mutex' = [mutex EXCEPT ![x] = Free]
    /\ alive' = alive \cup {x}
    /\ UNCHANGED <<k, pc, at, depth>>

-----------------------------------------------------------------------------
(* The rest of the system, as in module Semaphore. *)

Startup(t, u) ==
    /\ t \in App /\ At(t, "run")
    /\ k.stat[u] = "INIT"
    /\ k' = rt_thread_startup(k, u)
    /\ Goto(t, "resched")
    /\ UNCHANGED <<mutex, alive, at, depth>>

Kill(t, u, s) ==
    /\ t \in App /\ At(t, "run")
    /\ k.stat[u] # "INIT"
    /\ k' = lwp_thread_kill(k, u, s)
    /\ UNCHANGED <<mutex, alive, pc, at, depth>>

Deliver(t) ==
    /\ t \in App /\ At(t, "run")
    /\ k.sig[t] # {}
    /\ \E s \in k.sig[t] : k' = [k EXCEPT !.sig[t] = @ \ {s}]
    /\ UNCHANGED <<mutex, alive, pc, at, depth>>

ThreadTimer(t) ==
    /\ t \in k.timer
    /\ k' = rt_thread_timeout(k, t)
    /\ UNCHANGED <<mutex, alive, pc, at, depth>>

TimeSlice ==
    /\ k' = TimeSliceEnds(k)
    /\ UNCHANGED <<mutex, alive, pc, at, depth>>

-----------------------------------------------------------------------------
Take(t) ==
    \/ \E x \in Mutexes : TakeOwn(t, x) \/ TakeFree(t, x) \/ TakeNoWait(t, x)
    \/ \E x \in Mutexes, time \in Time, flag \in Flag :
            TakeInterrupted(t, x, time, flag) \/ TakeBlocks(t, x, time, flag)
    \/ TakeSchedules(t) \/ TakeReturns(t)

Release(t) ==
    \/ \E x \in Mutexes : \/ ReleaseNotOwner(t, x) \/ ReleaseInner(t, x)
                          \/ ReleaseHands(t, x) \/ ReleaseFrees(t, x)
    \/ Reschedule(t)

Detach(t) ==
    \/ \E x \in Mutexes : DetachBegins(t, x) \/ Reinit(t, x)
    \/ DetachTests(t) \/ DetachResumes(t)

Others(t) ==
    \/ \E u \in App : Startup(t, u)
    \/ \E u \in Process, s \in Sig : Kill(t, u, s)
    \/ Deliver(t)

Interrupt == TimeSlice \/ \E t \in App : ThreadTimer(t)

Next == (\E t \in App : Take(t) \/ Release(t) \/ Detach(t) \/ Others(t)) \/ Interrupt

Spec == Init /\ [][Next]_vars

KernelStep(t) ==
    \/ TakeSchedules(t) \/ TakeReturns(t) \/ Reschedule(t)
    \/ DetachTests(t) \/ DetachResumes(t)

\* A time slice is longer than a step of a kernel function, so a thread that gets
\* the processor again and again goes on.  Critical sections end: such a thread
\* releases the mutexes it owns at last.
Fairness ==
    /\ \A t \in App : SF_vars(KernelStep(t))
    /\ WF_vars(TimeSlice)
    /\ \A t \in App : WF_vars(ThreadTimer(t))
    /\ \A t \in App, x \in Mutexes : /\ SF_vars(ReleaseInner(t, x))
                                     /\ SF_vars(ReleaseHands(t, x) \/ ReleaseFrees(t, x))

FairSpec == Spec /\ Fairness

-----------------------------------------------------------------------------
(* Properties *)

\* The variables have their types (hold stays within RT_MUTEX_HOLD_MAX), and the
\* ready table, its bitmap, the suspend lists and the thread states agree, also
\* when a release or a take moves a ready thread to another priority
\* (rt_thread_control).
KernelInv == TypeOK /\ KernelOK(k)

\* t has been made the owner of x and has not returned from _rt_mutex_take.
Granted(t, x) ==
    /\ pc[t] \in {"blocking", "blocked"} /\ at[t] = x
    /\ t \notin Waiters(x) /\ k.err[t] = "EOK"

\* Mutual exclusion, as the callers see it: a thread that has seen rt_mutex_take
\* succeed more often than it has released the mutex is the owner and hold
\* counts its calls; and a thread that is the owner knows, or is about to be
\* told: a timeout or a signal that races with the hand-over of rt_mutex_release
\* leaves no mutex to a thread whose call has failed, and nobody waits for a
\* mutex that has no owner.
OwnerKnows ==
    \A x \in Mutexes, t \in Thread :
        /\ depth[x][t] > 0 => mutex[x].owner = t /\ mutex[x].hold = depth[x][t]
        /\ mutex[x].owner = t /\ depth[x][t] = 0
                => mutex[x].hold = 1 /\ (x \in alive => Granted(t, x))
        /\ mutex[x].owner = NoOwner
                => mutex[x].value = 1 /\ mutex[x].hold = 0 /\ Waiters(x) = {}

\* "Mutex objects use inherited priority to prevent priority reversion"
\* (documentation/doxygen/kernel.h): no thread waits for a mutex whose owner is
\* less urgent.
NoPriorityInversion ==
    \A x \in alive : \A t \in Waiters(x) : k.prio[mutex[x].owner] <= k.prio[t]

\* "change the owner thread to original priority" (rt_mutex_release): a thread
\* that holds no mutex has the priority it was given.  (A thread that deletes a
\* mutex while it holds it keeps what it has inherited, and is left out.)
PriorityRestored ==
    \A t \in Thread :
        (\A x \in Mutexes : depth[x][t] = 0 /\ mutex[x].owner # t) => k.prio[t] = InitPrio[t]

\* The most urgent thread gets the mutex it waits for, even while a thread of a
\* middle priority never gives the processor up: the owner is boosted above it.
UrgentThreadEnters ==
    \A t \in App : (\A u \in Thread \ {t} : InitPrio[t] < InitPrio[u])
        => (pc[t] \in {"blocking", "blocked"} ~> pc[t] = "run")
=============================================================================
