----------------------------- MODULE Semaphore -----------------------------
(***************************************************************************)
(* A semaphore (ipc.c, RT_USING_SEMAPHORE) used by threads and by an       *)
(* interrupt handler, over the kernel of module Kernel.                    *)
(*                                                                         *)
(* A thread's program counter tells where in a kernel function it is.      *)
(* Every action is one stretch of code with interrupts disabled, so an     *)
(* interrupt (a release by a handler, a timeout, the end of a time slice)  *)
(* may come between any two of them: after a thread has put itself on the  *)
(* suspend list and before it calls rt_schedule, for one.                  *)
(*                                                                         *)
(*   run       in application code                                         *)
(*   blocking  suspended by _rt_sem_take, about to call rt_schedule        *)
(*   blocked   switched out by that call, will look at thread->error       *)
(*   resched   about to call rt_schedule as the last thing in a call       *)
(*   reset     in the loop of RT_IPC_CMD_RESET, interrupts disabled        *)
(*   detach    at the loop condition of rt_ipc_list_resume_all, called by  *)
(*             rt_sem_detach or rt_sem_delete with interrupts enabled      *)
(*   detach2   in the body of that loop                                    *)
(***************************************************************************)
EXTENDS Kernel

CONSTANTS
    sem,            \* the semaphore's suspend list
    SemValueMax,    \* RT_SEM_VALUE_MAX
    InitValue,      \* the value given to rt_sem_init
    Order,          \* RT_IPC_FLAG_FIFO or RT_IPC_FLAG_PRIO
    Time,           \* the time arguments in use: "zero", "ticks", "forever"
    Flag,           \* the suspend flags in use
    Process,        \* the threads that belong to a process (thread->lwp)
    Sig             \* the signals they may be sent

ASSUME SemaphoreAssumption ==
    /\ sem \in Queue
    /\ SemValueMax \in Nat \ {0}
    /\ InitValue \in 0 .. SemValueMax
    /\ Order \in {"FIFO", "PRIO"}
    /\ Time \subseteq {"zero", "ticks", "forever"}
    /\ Flag \subseteq SuspendFlag
    /\ Process \subseteq App
    /\ Sig \subseteq Signal

VARIABLES
    k,          \* the kernel
    value,      \* sem->value
    alive,      \* the semaphore is an object threads may use
    pc,         \* where each thread is
    res,        \* how the last rt_sem_take of each thread ended
    op          \* what the last step did to the semaphore: "release", "reset",
                \* "stray" (rt_ipc_list_resume_all took the list head for a
                \* thread), or "none"

vars == <<k, value, alive, pc, res, op>>

Location == {"run", "blocking", "blocked", "resched", "reset", "detach", "detach2"}

TypeOK ==
    /\ k \in KernelState
    /\ value \in 0 .. SemValueMax
    /\ alive \in BOOLEAN
    /\ pc \in [Thread -> Location]
    /\ res \in [Thread -> {"idle", "waiting"} \cup Error]
    /\ op \in {"none", "release", "reset", "stray"}

Init ==
    /\ \E main \in App : k = KernelStart(main)
    /\ value = InitValue
    /\ alive = TRUE
    /\ pc = [t \in Thread |-> "run"]
    /\ res = [t \in Thread |-> "idle"]
    /\ op = "none"

Waiters == ToSet(k.list[sem])

\* A thread executes only while it is the current one.
At(t, l) == k.cur = t /\ pc[t] = l
Goto(t, l) == pc' = [pc EXCEPT ![t] = l]

\* Application code of t is about to call a kernel function.
Calls(t) == t \in App /\ At(t, "run")

-----------------------------------------------------------------------------
(* _rt_sem_take *)

TakeAvailable(t) ==
    /\ Calls(t) /\ alive
    /\ value > 0
    /\ value' = value - 1
    /\ res' = [res EXCEPT ![t] = "EOK"]
    /\ UNCHANGED <<k, alive, pc>>
    /\ op' = "none"

TakeNoWait(t) ==
    /\ Calls(t) /\ alive /\ "zero" \in Time
    /\ value = 0
    /\ res' = [res EXCEPT ![t] = "ETIMEOUT"]
    /\ UNCHANGED <<k, value, alive, pc>>
    /\ op' = "none"

TakeInterrupted(t, time, flag) ==
    /\ Calls(t) /\ alive
    /\ time # "zero"
    /\ value = 0
    /\ ~ MaySuspend(k, t, flag)
    /\ k' = [k EXCEPT !.err[t] = "EINTR"]
    /\ res' = [res EXCEPT ![t] = "EINTR"]
    /\ UNCHANGED <<value, alive, pc>>
    /\ op' = "none"

\* Mutant: thread->error is not preset to -RT_EINTR.
SuspendOn_StaleError(t, time, flag) ==
    LET u == rt_ipc_list_suspend(k, sem, t, Order, flag)
    IN IF time = "ticks" THEN StartThreadTimer(u, t) ELSE u

SuspendOn(t, time, flag) ==
    LET u == rt_ipc_list_suspend([k EXCEPT !.err[t] = "EINTR"], sem, t, Order, flag)
    IN IF time = "ticks" THEN StartThreadTimer(u, t) ELSE u

TakeBlocks(t, time, flag) ==
    /\ Calls(t) /\ alive
    /\ time # "zero"
    /\ value = 0
    /\ MaySuspend(k, t, flag)
    /\ k' = SuspendOn(t, time, flag)
    /\ Goto(t, "blocking")
    /\ res' = [res EXCEPT ![t] = "waiting"]
    /\ UNCHANGED <<value, alive>>
    /\ op' = "none"

TakeSchedules(t) ==
    /\ At(t, "blocking")
    /\ k' = rt_schedule(k)
    /\ Goto(t, "blocked")
    /\ UNCHANGED <<value, alive, res>>
    /\ op' = "none"

TakeReturns(t) ==
    /\ At(t, "blocked")
    /\ Goto(t, "run")
    /\ res' = [res EXCEPT ![t] = k.err[t]]
    /\ UNCHANGED <<k, value, alive>>
    /\ op' = "none"

-----------------------------------------------------------------------------
(* rt_sem_release, by a thread and by an interrupt handler *)

\* Mutant: the token is handed over and counted as well.
ReleaseWakes_Counts(t) ==
    /\ Calls(t) /\ alive
    /\ Waiters # {}
    /\ k' = rt_ipc_list_resume(k, sem)
    /\ value' = value + 1
    /\ Goto(t, "resched")
    /\ UNCHANGED <<alive, res>>
    /\ op' = "release"

ReleaseWakes(t) ==
    /\ Calls(t) /\ alive
    /\ Waiters # {}
    /\ k' = rt_ipc_list_resume(k, sem)
    /\ Goto(t, "resched")
    /\ UNCHANGED <<value, alive, res>>
    /\ op' = "release"

\* Mutant: RT_SEM_VALUE_MAX is not looked at.
ReleaseCounts_NoLimit(t) ==
    /\ Calls(t) /\ alive
    /\ Waiters = {}
    /\ value' = value + 1
    /\ UNCHANGED <<k, alive, pc, res>>
    /\ op' = "release"

ReleaseCounts(t) ==
    /\ Calls(t) /\ alive
    /\ Waiters = {}
    /\ value < SemValueMax      \* otherwise -RT_EFULL, and nothing changes
    /\ value' = value + 1
    /\ UNCHANGED <<k, alive, pc, res>>
    /\ op' = "release"

\* The call of rt_schedule that ends a release, a reset or a thread start.
Reschedule(t) ==
    /\ At(t, "resched")
    /\ k' = rt_schedule(k)
    /\ Goto(t, "run")
    /\ UNCHANGED <<value, alive, res>>
    /\ op' = "none"

-----------------------------------------------------------------------------
(* rt_sem_control(sem, RT_IPC_CMD_RESET, v) *)

ResetBegins(t) ==
    /\ Calls(t) /\ alive
    /\ Goto(t, "reset")
    /\ UNCHANGED <<k, value, alive, res>>
    /\ op' = "none"

ResetResumes(t) ==
    /\ At(t, "reset")
    /\ Waiters # {}
    /\ k' = ResumeAllRound(k, sem)
    /\ UNCHANGED <<value, alive, pc, res>>
    /\ op' = "none"

ResetEnds(t) ==
    /\ At(t, "reset")
    /\ Waiters = {}
    /\ value' \in 0 .. SemValueMax
    /\ Goto(t, "resched")
    /\ UNCHANGED <<k, alive, res>>
    /\ op' = "reset"

-----------------------------------------------------------------------------
(* rt_sem_detach and rt_sem_delete.  Callers have agreed to stop using the *)
(* semaphore: alive is FALSE from the start of the call.                   *)

DetachBegins(t) ==
    /\ Calls(t) /\ alive
    /\ alive' = FALSE
    /\ Goto(t, "detach")
    /\ UNCHANGED <<k, value, res>>
    /\ op' = "none"

\* while (!rt_list_isempty(list)), read with interrupts enabled
DetachTests(t) ==
    /\ At(t, "detach")
    /\ Goto(t, IF Waiters = {} THEN "run" ELSE "detach2")
    /\ UNCHANGED <<k, value, alive, res>>
    /\ op' = "none"

\* Mutant: only one thread is resumed.
DetachResumes_One(t) ==
    /\ At(t, "detach2")
    /\ IF Waiters # {} THEN k' = ResumeAllRound(k, sem) /\ op' = "none"
                       ELSE op' = "stray" /\ UNCHANGED k
    /\ Goto(t, "run")
    /\ UNCHANGED <<value, alive, res>>

\* The body takes list->next without looking again.  When the list has become
\* empty in between that is the list head, which is no thread.
DetachResumes(t) ==
    /\ At(t, "detach2")
    /\ IF Waiters # {} THEN k' = ResumeAllRound(k, sem) /\ op' = "none"
                       ELSE op' = "stray" /\ UNCHANGED k
    /\ Goto(t, "detach")
    /\ UNCHANGED <<value, alive, res>>

\* rt_sem_init or rt_sem_create of the object again, once detached
Reinit(t) ==
    /\ Calls(t)
    /\ ~ alive
    /\ \A u \in Thread : pc[u] \notin {"detach", "detach2"}
    /\ alive' = TRUE
    /\ value' = InitValue
    /\ UNCHANGED <<k, pc, res>>
    /\ op' = "reset"

-----------------------------------------------------------------------------
(* The rest of the system, as far as it touches the threads of the model. *)

Startup(t, u) ==
    /\ Calls(t)
    /\ k.stat[u] = "INIT"
    /\ k' = rt_thread_startup(k, u)
    /\ Goto(t, "resched")
    /\ UNCHANGED <<value, alive, res>>
    /\ op' = "none"

\* A signal for a thread u of a process, and its delivery when the thread is
\* about to return to user mode.
Kill(t, u, s) ==
    /\ Calls(t)
    /\ k.stat[u] # "INIT"
    /\ k' = lwp_thread_kill(k, u, s)
    /\ UNCHANGED <<value, alive, pc, res>>
    /\ op' = "none"

Deliver(t) ==
    /\ Calls(t)
    /\ k.sig[t] # {}
    /\ \E s \in k.sig[t] : k' = [k EXCEPT !.sig[t] = @ \ {s}]
    /\ UNCHANGED <<value, alive, pc, res>>
    /\ op' = "none"

ThreadTimer(t) ==
    /\ t \in k.timer
    /\ k' = rt_thread_timeout(k, t)
    /\ UNCHANGED <<value, alive, pc, res>>
    /\ op' = "none"

TimeSlice ==
    /\ k' = TimeSliceEnds(k)
    /\ UNCHANGED <<value, alive, pc, res>>
    /\ op' = "none"

\* rt_sem_release in an interrupt handler, where rt_schedule takes effect when
\* the handler returns.
HandlerReleases ==
    /\ alive
    /\ IF Waiters # {}
       THEN k' = rt_schedule(rt_ipc_list_resume(k, sem)) /\ UNCHANGED value
       ELSE /\ value < SemValueMax
            /\ value' = value + 1
            /\ UNCHANGED k
    /\ UNCHANGED <<alive, pc, res>>
    /\ op' = "release"

-----------------------------------------------------------------------------
Take(t) ==
    \/ TakeAvailable(t) \/ TakeNoWait(t) \/ TakeSchedules(t) \/ TakeReturns(t)
    \/ \E time \in Time, flag \in Flag : TakeInterrupted(t, time, flag) \/ TakeBlocks(t, time, flag)

Release(t) == ReleaseWakes(t) \/ ReleaseCounts(t) \/ Reschedule(t)

Control(t) ==
    \/ ResetBegins(t) \/ ResetResumes(t) \/ ResetEnds(t)
    \/ DetachBegins(t) \/ DetachTests(t) \/ DetachResumes(t) \/ Reinit(t)

Others(t) ==
    \/ \E u \in App : Startup(t, u)
    \/ \E u \in Process, s \in Sig : Kill(t, u, s)
    \/ Deliver(t)

\* Interrupts get in unless the current thread has them disabled.
Interrupt ==
    /\ pc[k.cur] # "reset"
    /\ \/ HandlerReleases
       \/ TimeSlice
       \/ \E t \in App : ThreadTimer(t)

Next == (\E t \in App : Take(t) \/ Release(t) \/ Control(t) \/ Others(t)) \/ Interrupt

Spec == Init /\ [][Next]_vars

-----------------------------------------------------------------------------
(* Properties *)

\* The ready table, its bitmap, the suspend list and the thread states agree,
\* whatever interrupts come between suspending and switching (scheduler.c,
\* thread.c), and a thread_timer runs for suspended threads only.
KernelInv == KernelOK(k)

\* No thread waits while the semaphore is available: a release that finds a
\* waiter hands it the token, it does not count it (rt_sem_release).
NoWaiterLeftBehind == value > 0 => Waiters = {}

\* A semaphore that has been detached has no waiters, so that no thread waits on
\* an object that is gone or is initialised again (rt_sem_detach).
DetachedIsEmpty ==
    ~ alive /\ (\A u \in Thread : pc[u] \notin {"detach", "detach2"}) => Waiters = {}

\* A token handed to a thread that has not returned from _rt_sem_take yet.
Granted == {t \in Thread : pc[t] \in {"blocking", "blocked"}
                           /\ t \notin Waiters /\ k.err[t] = "EOK"}

\* Each RT_EOK of rt_sem_take costs one token and no failed call costs any,
\* although a release, a timeout and a signal may race for the same waiter.
Abstract == INSTANCE AbstractSemaphore
                WITH Caller <- Thread, MaxCount <- SemValueMax, InitCount <- InitValue,
                     count <- value + Cardinality(Granted),
                     op <- IF op \in {"release", "reset"} THEN op ELSE "none"
ImplementsAbstract == Abstract!Spec

\* RT_IPC_FLAG_PRIO: the head of the list, which a release resumes, is the most
\* urgent of the waiters (rt_ipc_list_suspend).
MostUrgentFirst ==
    Order = "PRIO" => \A t \in Waiters : k.prio[Head(k.list[sem])] <= k.prio[t]

\* rt_ipc_list_resume_all takes threads from the list, never the list head.
ResumeAllTakesThreads == op # "stray"

\* A thread that is suspended in rt_sem_take is on the suspend list, where a
\* release, a reset or a detach finds it: no race of a timeout, a signal and a
\* release, before or after the switch, takes a thread off the list without
\* making it run again.
NobodyStranded ==
    \A t \in Thread : pc[t] \in {"blocking", "blocked"} /\ Suspended(k, t) => t \in Waiters
=============================================================================
