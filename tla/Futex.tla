-------------------------------- MODULE Futex --------------------------------
(***************************************************************************)
(* The futex of one word of a process (lwp_futex.c), over the mutexes of   *)
(* module Mutex: sys_futex takes _futex_lock and leaves it to futex_wait   *)
(* and futex_wake to release it.  The object of the word exists (memory    *)
(* for it does not run out).                                               *)
(*                                                                         *)
(*   user       in application code                                        *)
(*   locking    in rt_mutex_take_interruptible, blocked                    *)
(*   locked     owns _futex_lock, about to do the operation                *)
(*   suspend    in futex_wait, has found the value it expects              *)
(*   unlocking, about to call rt_mutex_release, with interrupts disabled;  *)
(*   failing    failing after a signal kept the thread from suspending     *)
(*   unlocked,  back from that call; interrupts are still disabled         *)
(*   failed                                                                *)
(*   returning  back from the last rt_schedule of the call                 *)
(***************************************************************************)
EXTENDS Mutex

CONSTANTS
    _futex_lock,    \* the mutex
    waiting_thread, \* futex->waiting_thread
    Value           \* the values of the word

VARIABLES
    word,           \* *futex->uaddr
    call,           \* where each thread is in sys_futex
    op,             \* the operation each thread asks for
    val             \* and its argument: the value expected, or how many to wake

futexvars == <<word, op, val>>
allvars == <<vars, futexvars, call>>

FutexInit ==
    /\ Init
    /\ word \in Value
    /\ call = [t \in Thread |-> "user"]
    /\ op = [t \in Thread |-> "WAKE"]
    /\ val = [t \in Thread |-> 1]

In(t, l) == At(t, "run") /\ call[t] = l
Continue(t, l) == call' = [call EXCEPT ![t] = l]

-----------------------------------------------------------------------------
(* sys_futex up to the operation *)

\* rt_mutex_take_interruptible(&_futex_lock, RT_WAITING_FOREVER)
Enter(t, o, v) ==
    /\ In(t, "user")
    /\ op' = [op EXCEPT ![t] = o]
    /\ val' = [val EXCEPT ![t] = v]
    /\ \/ /\ TakeOwn(t, _futex_lock) \/ TakeFree(t, _futex_lock)
          /\ Continue(t, IF depth' = depth THEN "user" ELSE "locked")
       \/ TakeInterrupted(t, _futex_lock, "forever", "INTERRUPTIBLE") /\ Continue(t, "user")
       \/ TakeBlocks(t, _futex_lock, "forever", "INTERRUPTIBLE") /\ Continue(t, "locking")
    /\ UNCHANGED word

LockBlocks(t) ==
    /\ TakeSchedules(t)
    /\ UNCHANGED <<futexvars, call>>

LockTaken(t) ==
    /\ TakeReturns(t)
    /\ Continue(t, IF k.err[t] = "EOK" THEN "locked" ELSE "user")
    /\ UNCHANGED futexvars

-----------------------------------------------------------------------------
(* futex_wait *)

WaitTests(t) ==
    /\ In(t, "locked") /\ op[t] = "WAIT"
    /\ Continue(t, IF word = val[t] THEN "suspend" ELSE "user")
    /\ UNCHANGED <<vars, futexvars>>

WaitSuspends(t, time) ==
    LET u == rt_ipc_list_suspend(k, waiting_thread, t, "FIFO", "INTERRUPTIBLE")
    IN /\ In(t, "suspend")
       /\ IF MaySuspend(k, t, "INTERRUPTIBLE")
          THEN /\ k' = IF time = "ticks" THEN StartThreadTimer(u, t) ELSE u
               /\ Continue(t, "unlocking")
          ELSE Continue(t, "failing") /\ UNCHANGED k
       /\ UNCHANGED <<mutex, alive, pc, at, depth, futexvars>>

-----------------------------------------------------------------------------
(* futex_wake *)

Wake(s, t) == rt_thread_resume(SetError(rt_list_remove(s, t), t, "EOK"), t)

WakeResumes(t) ==
    LET list == k.list[waiting_thread]
    IN /\ In(t, "locked") /\ op[t] = "WAKE"
       /\ k' = FoldLeft(Wake, k, IF Len(list) <= val[t] THEN list
                                 ELSE SubSeq(list, 1, val[t]))
       /\ Continue(t, "unlocking")
       /\ UNCHANGED <<mutex, alive, pc, at, depth, futexvars>>

-----------------------------------------------------------------------------
(* The end of both: rt_mutex_release, in which rt_schedule may switch      *)
(* although interrupts are disabled, and rt_schedule                       *)

Unlock(t) ==
    /\ call[t] \in {"unlocking", "failing"}
    /\ \/ ReleaseInner(t, _futex_lock)
       \/ ReleaseHands(t, _futex_lock) \/ ReleaseFrees(t, _futex_lock)
    /\ Continue(t, IF call[t] = "unlocking" THEN "unlocked" ELSE "failed")
    /\ UNCHANGED futexvars

UnlockSchedules(t) ==
    /\ Reschedule(t)
    /\ UNCHANGED <<futexvars, call>>

Schedules(t) ==
    /\ In(t, "unlocked")
    /\ k' = rt_schedule(k)
    /\ Continue(t, "returning")
    /\ UNCHANGED <<mutex, alive, pc, at, depth, futexvars>>

Returns(t) ==
    /\ In(t, "returning") \/ In(t, "failed")
    /\ Continue(t, "user")
    /\ UNCHANGED <<vars, futexvars>>

-----------------------------------------------------------------------------
\* Application code writes the word.
Store(t) ==
    /\ t \in App /\ In(t, "user")
    /\ word' \in Value
    /\ UNCHANGED <<vars, op, val, call>>

Sys_futex(t) ==
    \/ \E v \in Value : Enter(t, "WAIT", v)
    \/ \E n \in 1 .. Cardinality(App) : Enter(t, "WAKE", n)
    \/ LockBlocks(t) \/ LockTaken(t)
    \/ WaitTests(t) \/ WakeResumes(t)
    \/ \E time \in Time : WaitSuspends(t, time)
    \/ Unlock(t) \/ UnlockSchedules(t) \/ Schedules(t) \/ Returns(t)

\* Interrupts are enabled.
Interruptible == call[k.cur] \notin {"unlocking", "failing", "unlocked", "failed"}

FutexNext ==
    \/ \E t \in App : Sys_futex(t) \/ Store(t)
    \/ \E t \in App : /\ call[t] = "user" /\ Others(t)
                      /\ UNCHANGED <<futexvars, call>>
    \/ Interruptible /\ Interrupt /\ UNCHANGED <<futexvars, call>>

FutexSpec == FutexInit /\ [][FutexNext]_allvars

-----------------------------------------------------------------------------
(* Properties *)

\* "_futex_lock is released by futex_wait", "_futex_lock is released by
\* futex_wake" (sys_futex): a thread that is in application code, or waits in
\* futex_wait, does not own the lock, so that no other thread of any process
\* waits for it in vain.
LockIsReleased ==
    \A t \in App : call[t] \in {"user", "unlocked", "failed", "returning"}
        => mutex[_futex_lock].owner # t
=============================================================================
