-------------------------------- MODULE Calls --------------------------------
(***************************************************************************)
(* What the calls of the IPC objects that share a system have in common:   *)
(* threads that suspend themselves on the list of an object, time out, are *)
(* sent signals, and empty the lists of an object that is reset, detached  *)
(* or deleted.  Modules Event and MessageQueue extend this one, each with  *)
(* the state of its object; an action here says what happens to the        *)
(* threads and leaves the objects to them.                                 *)
(*                                                                         *)
(*   run        in application code                                        *)
(*   resched    about to call rt_schedule as the last thing in a call      *)
(*   blocking   suspended on the list at, about to call rt_schedule        *)
(*   blocked    switched out by that call                                  *)
(*   reset      in rt_ipc_list_resume_all of the list at, called with      *)
(*              interrupts disabled for RT_IPC_CMD_RESET                   *)
(*   detach,    at the loop condition and in the loop body of              *)
(*   detach2    rt_ipc_list_resume_all of the list at, called with         *)
(*              interrupts enabled by a detach or a delete                 *)
(*   copyin     has a free message of a queue and copies into it           *)
(*   urgent     the same in rt_mq_urgent                                   *)
(*   copyout    has taken a message off a queue and copies it out          *)
(***************************************************************************)
EXTENDS Kernel

CONSTANTS
    NoList,     \* no list
    Following,  \* the list of an object that is emptied after a list of it, or
                \* that list itself if there is none
    Order,      \* RT_IPC_FLAG_FIFO or RT_IPC_FLAG_PRIO
    Time,       \* the time arguments in use: "zero", "ticks", "forever"
    Flag,       \* the suspend flags in use
    Process,    \* the threads that belong to a process (thread->lwp)
    Sig         \* the signals they may be sent

ASSUME CallsAssumption ==
    /\ NoList \notin Queue
    /\ Following \in [Queue -> Queue]
    /\ Order \in {"FIFO", "PRIO"}
    /\ Time \subseteq {"zero", "ticks", "forever"}
    /\ Flag \subseteq SuspendFlag
    /\ Process \subseteq App
    /\ Sig \subseteq Signal

VARIABLES
    k,          \* the kernel
    pc,         \* where each thread is
    at,         \* the list that each thread waits in or empties, NoList otherwise
    alive       \* the objects threads may use, told by their first list

callvars == <<k, pc, at, alive>>

Location == {"run", "resched", "blocking", "blocked", "reset", "detach", "detach2",
             "copyin", "urgent", "copyout"}

CallsTypeOK ==
    /\ k \in KernelState
    /\ pc \in [Thread -> Location]
    /\ at \in [Thread -> Queue \cup {NoList}]
    /\ alive \subseteq Queue

Waiters(q) == ToSet(k.list[q])
IsEmpty(q) == k.list[q] = <<>>

At(t, l) == k.cur = t /\ pc[t] = l
Goto(t, l) == pc' = [pc EXCEPT ![t] = l]
Turn(t, q) == at' = [at EXCEPT ![t] = q]
\* t ends its dealings with the lists and goes on at l.
LeavesList(t, l) == Turn(t, NoList) /\ Goto(t, l)
SetError(s, t, e) == [s EXCEPT !.err[t] = e]

\* Application code of t calls a function of the object x.
Uses(t, x) == t \in App /\ At(t, "run") /\ x \in alive

\* The threads resumed from q with RT_EOK that have not run since.
Woken(q) ==
    {t \in Thread : /\ pc[t] \in {"blocking", "blocked"} /\ at[t] = q
                    /\ t \notin Waiters(q) /\ k.err[t] = "EOK"}

-----------------------------------------------------------------------------
(* Blocking *)

\* rt_ipc_list_suspend, the thread_timer and the end of the stretch
SuspendsOn(t, q, time, flag) ==
    LET u == rt_ipc_list_suspend(SetError(k, t, "EINTR"), q, t, Order, flag)
    IN /\ time # "zero"
       /\ MaySuspend(k, t, flag)
       /\ k' = IF time = "ticks" THEN StartThreadTimer(u, t) ELSE u
       /\ Turn(t, q)
       /\ Goto(t, "blocking")
       /\ UNCHANGED alive

\* A pending signal keeps t from suspending.
MayNotSuspend(t, time, flag) ==
    /\ time # "zero"
    /\ ~ MaySuspend(k, t, flag)
    /\ k' = SetError(k, t, "EINTR")
    /\ LeavesList(t, "run")
    /\ UNCHANGED alive

BlockedSchedules(t) ==
    /\ At(t, "blocking")
    /\ k' = rt_schedule(k)
    /\ Goto(t, "blocked")
    /\ UNCHANGED <<at, alive>>

\* The call ends with the error that ended the wait.
BlockedFails(t) ==
    /\ At(t, "blocked")
    /\ k.err[t] # "EOK"
    /\ LeavesList(t, "run")
    /\ UNCHANGED <<k, alive>>

Reschedule(t) ==
    /\ At(t, "resched")
    /\ k' = rt_schedule(k)
    /\ Goto(t, "run")
    /\ UNCHANGED <<at, alive>>

-----------------------------------------------------------------------------
(* Emptying the lists of an object *)

ResetBegins(t, x) ==
    /\ Uses(t, x)
    /\ Turn(t, x)
    /\ Goto(t, "reset")
    /\ UNCHANGED <<k, alive>>

ResetResumes(t) ==
    /\ At(t, "reset")
    /\ IF IsEmpty(at[t])
       THEN Following[at[t]] # at[t] /\ Turn(t, Following[at[t]]) /\ UNCHANGED k
       ELSE k' = ResumeAllRound(k, at[t]) /\ UNCHANGED at
    /\ UNCHANGED <<pc, alive>>

\* The lists are empty: what is left is to clear the object, whose last list is q.
ResetEnds(t, q) ==
    /\ At(t, "reset") /\ at[t] = q /\ IsEmpty(q)
    /\ LeavesList(t, "resched")
    /\ UNCHANGED <<k, alive>>

DetachBegins(t, x) ==
    /\ Uses(t, x)
    /\ alive' = alive \ {x}
    /\ Turn(t, x)
    /\ Goto(t, "detach")
    /\ UNCHANGED k

DetachTests(t) ==
    /\ At(t, "detach")
    /\ IF ~ IsEmpty(at[t]) THEN Goto(t, "detach2") /\ UNCHANGED at
       ELSE IF Following[at[t]] = at[t] THEN LeavesList(t, "run")
       ELSE Turn(t, Following[at[t]]) /\ UNCHANGED pc
    /\ UNCHANGED <<k, alive>>

DetachResumes(t) ==
    /\ At(t, "detach2")
    /\ k' = IF IsEmpty(at[t]) THEN k ELSE ResumeAllRound(k, at[t])
    /\ Goto(t, "detach")
    /\ UNCHANGED <<at, alive>>

\* rt_..._init or rt_..._create of the object x again, whose lists are q's.
Reinit(t, x) ==
    /\ t \in App /\ At(t, "run")
    /\ x \notin alive
    /\ \A u \in Thread : pc[u] \in {"detach", "detach2"} => at[u] \notin {x, Following[x]}
    /\ alive' = alive \cup {x}
    /\ UNCHANGED <<k, pc, at>>

-----------------------------------------------------------------------------
(* The rest of the system, as in module Semaphore *)

Startup(t, u) ==
    /\ t \in App /\ At(t, "run")
    /\ k.stat[u] = "INIT"
    /\ k' = rt_thread_startup(k, u)
    /\ Goto(t, "resched")
    /\ UNCHANGED <<at, alive>>

Kill(t, u, s) ==
    /\ t \in App /\ At(t, "run")
    /\ k.stat[u] # "INIT"
    /\ k' = lwp_thread_kill(k, u, s)
    /\ UNCHANGED <<pc, at, alive>>

Deliver(t) ==
    /\ t \in App /\ At(t, "run")
    /\ \E s \in k.sig[t] : k' = [k EXCEPT !.sig[t] = @ \ {s}]
    /\ UNCHANGED <<pc, at, alive>>

ThreadTimer(t) ==
    /\ t \in k.timer
    /\ k' = rt_thread_timeout(k, t)
    /\ UNCHANGED <<pc, at, alive>>

TimeSlice ==
    /\ k' = TimeSliceEnds(k)
    /\ UNCHANGED <<pc, at, alive>>

\* Interrupts are enabled.
Interruptible == pc[k.cur] # "reset"

\* Steps that concern no object.
ThreadStep(t) ==
    \/ BlockedSchedules(t) \/ Reschedule(t) \/ ResetResumes(t)
    \/ DetachTests(t) \/ DetachResumes(t) \/ Deliver(t)
    \/ \E u \in App : Startup(t, u)
    \/ \E u \in Process, s \in Sig : Kill(t, u, s)

InterruptStep == Interruptible /\ (TimeSlice \/ \E t \in App : ThreadTimer(t))
=============================================================================
