--------------------------- MODULE SemaphoreProofs ---------------------------
(***************************************************************************)
(* The invariants of the semaphore, for every number of threads, every     *)
(* assignment of priorities and both orders of the suspend list.           *)
(***************************************************************************)
EXTENDS Semaphore, KernelProofs

\* The inductive invariant.  NoWaiterLeftBehind needs DetachedIsEmpty for the
\* step that initialises a detached semaphore again.
IndInv == TypeOK /\ KernelInv /\ NoWaiterLeftBehind /\ DetachedIsEmpty

\* What the invariant says, in the terms of the lemmas on the kernel.
LEMMA IndInvFacts ==
    IndInv <=> /\ Sound(k) /\ TypeOK
               /\ value > 0 => \A u : ~ Linked(k, sem, u)
               /\ ~ alive /\ (\A u \in Thread : pc[u] \notin {"detach", "detach2"})
                    => \A u : ~ Linked(k, sem, u)
<1>1. Waiters = {} <=> \A u : ~ Linked(k, sem, u)
  BY DEF Waiters, Linked
<1> QED
  BY <1>1 DEF IndInv, KernelInv, NoWaiterLeftBehind, DetachedIsEmpty, Sound, TypeOK

\* The suspend list of the semaphore is one of the lists of the kernel.
LEMMA SemQueue == sem \in Queue /\ sem \in Prio \cup Queue
  BY SemaphoreAssumption

\* The head of the suspend list is a thread.
LEMMA HeadWaits ==
    ASSUME Sound(k), Waiters # {}
    PROVE  Head(k.list[sem]) \in Thread
<1>1. k.list[sem] \in Seq(Thread)
  BY SemQueue DEF Sound, KernelState
<1>2. k.list[sem] # <<>>
  BY <1>1, EmptyList DEF Waiters
<1> QED
  BY <1>1, <1>2, HeadInList

\* How to show the invariant of the next state.
LEMMA IndInvNext ==
    ASSUME Sound(k'), TypeOK',
           value' > 0 => \A u : ~ Linked(k', sem, u),
           ~ alive' /\ (\A u \in Thread : pc'[u] \notin {"detach", "detach2"})
                => \A u : ~ Linked(k', sem, u)
    PROVE  IndInv'
<1>1. Waiters' = {} <=> \A u : ~ Linked(k', sem, u)
  BY DEF Waiters, Linked
<1>2. KernelInv'
  BY DEF KernelInv, Sound
<1> QED
  BY <1>1, <1>2 DEF IndInv, NoWaiterLeftBehind, DetachedIsEmpty

\* A step that wakes threads, or none, and leaves the value and the object as
\* they are keeps the invariant, if it does not end a detach.
LEMMA WakingStep ==
    ASSUME IndInv, Sound(k'), NoNewWaiters(k, k'), TypeOK',
           value' = value, alive' = alive,
           \A u \in Thread : pc[u] \in {"detach", "detach2"} => pc'[u] \in {"detach", "detach2"}
    PROVE  IndInv'
<1>1. \A u : Linked(k', sem, u) => Linked(k, sem, u)
  BY SemQueue DEF NoNewWaiters
<1> QED
  BY <1>1, IndInvFacts, IndInvNext

\* Every step of _rt_sem_take keeps the invariant.
LEMMA TakeStep ==
    ASSUME IndInv, NEW t \in App, Take(t)
    PROVE  IndInv'
<1>0. t \in Thread /\ Sound(k) /\ TypeOK /\ k \in KernelState /\ NoNewWaiters(k, k)
  BY IndInvFacts DEF App, Sound, NoNewWaiters
<1>1. CASE TakeAvailable(t)
  <2>1. Sound(k') /\ k' = k /\ alive' = alive /\ pc' = pc /\ value > 0
    BY <1>0, <1>1 DEF TakeAvailable
  <2>2. TypeOK'
    BY <1>0, <1>1, SemaphoreAssumption DEF TypeOK, TakeAvailable, Error
  <2>3. \A u : ~ Linked(k', sem, u)
    BY <2>1, IndInvFacts
  <2> QED
    BY <2>1, <2>2, <2>3, IndInvNext
<1>2. CASE TakeNoWait(t)
  <2>1. TypeOK'
    BY <1>0, <1>2 DEF TypeOK, TakeNoWait, Error
  <2>2. k' = k /\ alive' = alive /\ pc' = pc /\ value' = value
    BY <1>2 DEF TakeNoWait
  <2> QED
    BY <2>1, <2>2, <1>0, WakingStep
<1>3. CASE TakeSchedules(t)
  <2>1. Sound(k') /\ SameWaiters(k, k')
    BY <1>0, <1>3, ScheduleSound DEF TakeSchedules
  <2>2. TypeOK'
    BY <2>1, <1>0, <1>3 DEF TypeOK, TakeSchedules, Goto, Location, Sound
  <2>3. /\ alive' = alive /\ value' = value
        /\ \A u \in Thread : pc[u] \in {"detach", "detach2"} => pc'[u] \in {"detach", "detach2"}
    BY <1>0, <1>3 DEF TakeSchedules, Goto, At, TypeOK
  <2> QED
    BY <2>1, <2>2, <2>3, WakingStep DEF SameWaiters, NoNewWaiters
<1>4. CASE TakeReturns(t)
  <2>1. TypeOK'
    BY <1>0, <1>4 DEF TypeOK, TakeReturns, Goto, Location, KernelState
  <2>2. /\ k' = k /\ alive' = alive /\ value' = value
        /\ \A u \in Thread : pc[u] \in {"detach", "detach2"} => pc'[u] \in {"detach", "detach2"}
    BY <1>0, <1>4 DEF TakeReturns, Goto, At, TypeOK
  <2> QED
    BY <2>1, <2>2, <1>0, WakingStep
<1>5. ASSUME NEW time \in Time, NEW flag \in Flag, TakeInterrupted(t, time, flag)
      PROVE  IndInv'
  <2>1. k' = [k EXCEPT !.err[t] = "EINTR"]
    BY <1>5 DEF TakeInterrupted
  <2>2. [k.err EXCEPT ![t] = "EINTR"] \in [Thread -> Error]
    BY <1>0 DEF KernelState, Error
  <2>3. /\ k' \in KernelState /\ k'.list = k.list /\ k'.group = k.group /\ k'.stat = k.stat
        /\ k'.cur = k.cur /\ k'.prio = k.prio /\ k'.timer = k.timer
    BY <2>1, <2>2, <1>0 DEF KernelState
  <2>4. Sound(k') /\ NoNewWaiters(k, k')
    BY <2>3, <1>0, MiscSound DEF NoNewWaiters
  <2>5. TypeOK' /\ alive' = alive /\ pc' = pc /\ value' = value
    BY <2>3, <1>0, <1>5 DEF TypeOK, TakeInterrupted, Error
  <2> QED
    BY <2>4, <2>5, WakingStep
<1>6. ASSUME NEW time \in Time, NEW flag \in Flag, TakeBlocks(t, time, flag)
      PROVE  IndInv'
  <2>1. PICK e : e = [k EXCEPT !.err[t] = "EINTR"]
    OBVIOUS
  <2>2. [k.err EXCEPT ![t] = "EINTR"] \in [Thread -> Error]
    BY <1>0 DEF KernelState, Error
  <2>3. /\ e \in KernelState /\ e.list = k.list /\ e.group = k.group /\ e.stat = k.stat
        /\ e.cur = k.cur /\ e.prio = k.prio /\ e.timer = k.timer
    BY <2>1, <2>2, <1>0 DEF KernelState
  <2>4. Sound(e)
    BY <2>3, <1>0, MiscSound
  <2>5. e.stat[t] \in {"READY", "RUNNING"} /\ flag \in SuspendFlag
    BY <2>3, <1>6, SemaphoreAssumption DEF TakeBlocks, MaySuspend
  <2>6. PICK v : v = rt_ipc_list_suspend(e, sem, t, Order, flag)
    OBVIOUS
  <2>7. Sound(v) /\ Suspended(v, t)
    BY <2>4, <2>5, <2>6, SemQueue, ListSuspendSound
  <2>8. k' = IF time = "ticks" THEN StartThreadTimer(v, t) ELSE v
    BY <2>1, <2>6, <1>6 DEF TakeBlocks, SuspendOn
  <2>9. Sound(k')
    BY <2>7, <2>8, <1>0, StartTimerSound
  <2>10. TypeOK' /\ value' = 0 /\ alive' /\ value' = value
    BY <2>9, <1>0, <1>6 DEF TypeOK, TakeBlocks, Goto, Location, Sound
  <2> QED
    BY <2>9, <2>10, IndInvNext
<1> QED
  BY <1>1, <1>2, <1>3, <1>4, <1>5, <1>6 DEF Take

\* Every step of rt_sem_release by a thread, and the reschedule that ends it.
LEMMA ReleaseStep ==
    ASSUME IndInv, NEW t \in App, Release(t)
    PROVE  IndInv'
<1>0. t \in Thread /\ Sound(k) /\ TypeOK
  BY IndInvFacts DEF App
<1>1. CASE ReleaseWakes(t)
  <2>1. Sound(k') /\ NoNewWaiters(k, k')
    BY <1>0, <1>1, HeadWaits, WakeSound DEF ReleaseWakes, rt_ipc_list_resume, Error
  <2>2. TypeOK' /\ alive' = alive /\ value' = value
    BY <2>1, <1>0, <1>1 DEF TypeOK, ReleaseWakes, Goto, Location, Sound
  <2>3. \A u \in Thread : pc[u] \in {"detach", "detach2"} => pc'[u] \in {"detach", "detach2"}
    BY <1>0, <1>1 DEF ReleaseWakes, Goto, At, Calls, TypeOK
  <2> QED
    BY <2>1, <2>2, <2>3, WakingStep
<1>2. CASE ReleaseCounts(t)
  <2>1. k' = k /\ alive' /\ alive /\ Waiters = {}
    BY <1>2 DEF ReleaseCounts
  <2>2. TypeOK'
    BY <1>0, <1>2, SemaphoreAssumption DEF TypeOK, ReleaseCounts
  <2> QED
    BY <2>1, <2>2, <1>0, IndInvNext DEF Waiters, Linked
<1>3. CASE Reschedule(t)
  <2>1. Sound(k') /\ SameWaiters(k, k')
    BY <1>0, <1>3, ScheduleSound DEF Reschedule
  <2>2. TypeOK' /\ alive' = alive /\ value' = value
    BY <2>1, <1>0, <1>3 DEF TypeOK, Reschedule, Goto, Location, Sound
  <2>3. \A u \in Thread : pc[u] \in {"detach", "detach2"} => pc'[u] \in {"detach", "detach2"}
    BY <1>0, <1>3 DEF Reschedule, Goto, At, TypeOK
  <2> QED
    BY <2>1, <2>2, <2>3, WakingStep DEF SameWaiters, NoNewWaiters
<1> QED
  BY <1>1, <1>2, <1>3 DEF Release

\* Every step of a reset, a detach and a new initialisation.
LEMMA ControlStep ==
    ASSUME IndInv, NEW t \in App, Control(t)
    PROVE  IndInv'
<1>0. t \in Thread /\ Sound(k) /\ TypeOK /\ NoNewWaiters(k, k)
  BY IndInvFacts DEF App, NoNewWaiters
<1>1. CASE ResetBegins(t)
  <2>1. TypeOK' /\ k' = k /\ alive' = alive /\ value' = value
    BY <1>0, <1>1 DEF TypeOK, ResetBegins, Goto, Location
  <2>2. \A u \in Thread : pc[u] \in {"detach", "detach2"} => pc'[u] \in {"detach", "detach2"}
    BY <1>0, <1>1 DEF ResetBegins, Goto, At, Calls, TypeOK
  <2> QED
    BY <2>1, <2>2, <1>0, WakingStep
<1>2. CASE ResetResumes(t)
  <2>1. Sound(k') /\ NoNewWaiters(k, k')
    BY <1>0, <1>2, HeadWaits, WakeSound DEF ResetResumes, ResumeAllRound, Error
  <2>2. TypeOK' /\ alive' = alive /\ value' = value /\ pc' = pc
    BY <2>1, <1>0, <1>2 DEF TypeOK, ResetResumes, Sound
  <2> QED
    BY <2>1, <2>2, WakingStep
<1>3. CASE ResetEnds(t)
  <2>1. TypeOK' /\ k' = k /\ Waiters = {}
    BY <1>0, <1>3 DEF TypeOK, ResetEnds, Goto, Location
  <2> QED
    BY <2>1, <1>0, IndInvNext DEF Waiters, Linked
<1>4. CASE DetachBegins(t)
  <2>1. TypeOK' /\ k' = k /\ value' = value /\ pc'[t] = "detach"
    BY <1>0, <1>4 DEF TypeOK, DetachBegins, Goto, Location
  <2> QED
    BY <2>1, <1>0, IndInvFacts, IndInvNext
<1>5. CASE DetachTests(t)
  <2>1. TypeOK' /\ k' = k /\ value' = value /\ alive' = alive
    BY <1>0, <1>5 DEF TypeOK, DetachTests, Goto, Location
  <2>2. CASE Waiters = {}
    BY <2>1, <2>2, <1>0, IndInvNext DEF Waiters, Linked
  <2>3. CASE Waiters # {}
    <3>1. pc'[t] = "detach2"
      BY <2>3, <1>0, <1>5 DEF DetachTests, Goto, TypeOK
    <3> QED
      BY <3>1, <2>1, <1>0, IndInvFacts, IndInvNext
  <2> QED
    BY <2>2, <2>3
<1>6. CASE DetachResumes(t)
  <2>1. CASE Waiters # {}
    <3>1. Sound(k') /\ NoNewWaiters(k, k')
      BY <2>1, <1>0, <1>6, HeadWaits, WakeSound DEF DetachResumes, ResumeAllRound, Error
    <3>2. TypeOK' /\ alive' = alive /\ value' = value
      BY <3>1, <2>1, <1>0, <1>6 DEF TypeOK, DetachResumes, Goto, Location, Sound
    <3>3. \A u \in Thread : pc[u] \in {"detach", "detach2"} => pc'[u] \in {"detach", "detach2"}
      BY <1>0, <1>6 DEF DetachResumes, Goto, TypeOK
    <3> QED
      BY <3>1, <3>2, <3>3, WakingStep
  <2>2. CASE Waiters = {}
    <3>1. TypeOK' /\ k' = k
      BY <2>2, <1>0, <1>6 DEF TypeOK, DetachResumes, Goto, Location
    <3> QED
      BY <3>1, <2>2, <1>0, IndInvNext DEF Waiters, Linked
  <2> QED
    BY <2>1, <2>2
<1>7. CASE Reinit(t)
  <2>1. /\ TypeOK' /\ k' = k /\ alive' /\ ~ alive
        /\ \A u \in Thread : pc[u] \notin {"detach", "detach2"}
    BY <1>0, <1>7, SemaphoreAssumption DEF TypeOK, Reinit
  <2> QED
    BY <2>1, <1>0, IndInvFacts, IndInvNext
<1> QED
  BY <1>1, <1>2, <1>3, <1>4, <1>5, <1>6, <1>7 DEF Control

\* Starting a thread and sending and delivering signals.
LEMMA OthersStep ==
    ASSUME IndInv, NEW t \in App, Others(t)
    PROVE  IndInv'
<1>0. t \in Thread /\ Sound(k) /\ TypeOK /\ k \in KernelState
  BY IndInvFacts DEF App, Sound
<1>1. ASSUME NEW u \in App, Startup(t, u) PROVE IndInv'
  <2>1. Sound(k') /\ NoNewWaiters(k, k')
    BY <1>0, <1>1, StartupSound DEF Startup
  <2>2. TypeOK' /\ alive' = alive /\ value' = value
    BY <2>1, <1>0, <1>1 DEF TypeOK, Startup, Goto, Location, Sound
  <2>3. \A w \in Thread : pc[w] \in {"detach", "detach2"} => pc'[w] \in {"detach", "detach2"}
    BY <1>0, <1>1 DEF Startup, Goto, At, Calls, TypeOK
  <2> QED
    BY <2>1, <2>2, <2>3, WakingStep
<1>2. ASSUME NEW u \in Process, NEW s \in Sig, Kill(t, u, s) PROVE IndInv'
  <2>1. u \in Thread /\ s \in Signal
    BY SemaphoreAssumption DEF App
  <2>2. Sound(k') /\ NoNewWaiters(k, k')
    BY <2>1, <1>0, <1>2, KillSound DEF Kill
  <2>3. TypeOK' /\ alive' = alive /\ value' = value /\ pc' = pc
    BY <2>2, <1>0, <1>2 DEF TypeOK, Kill, Sound
  <2> QED
    BY <2>2, <2>3, WakingStep
<1>3. CASE Deliver(t)
  <2>1. PICK s \in k.sig[t] : k' = [k EXCEPT !.sig[t] = @ \ {s}]
    BY <1>3 DEF Deliver
  <2>2. [k.sig EXCEPT ![t] = @ \ {s}] \in [Thread -> SUBSET Signal]
    BY <1>0 DEF KernelState
  <2>3. /\ k' \in KernelState /\ k'.list = k.list /\ k'.group = k.group /\ k'.stat = k.stat
        /\ k'.cur = k.cur /\ k'.prio = k.prio /\ k'.timer = k.timer
    BY <2>1, <2>2, <1>0 DEF KernelState
  <2>4. Sound(k') /\ NoNewWaiters(k, k')
    BY <2>3, <1>0, MiscSound DEF NoNewWaiters
  <2>5. TypeOK' /\ alive' = alive /\ value' = value /\ pc' = pc
    BY <2>3, <1>0, <1>3 DEF TypeOK, Deliver
  <2> QED
    BY <2>4, <2>5, WakingStep
<1> QED
  BY <1>1, <1>2, <1>3 DEF Others

\* Interrupts: a release by a handler, the end of a time slice, a timeout.
LEMMA InterruptStep ==
    ASSUME IndInv, Interrupt
    PROVE  IndInv'
<1>0. Sound(k) /\ TypeOK
  BY IndInvFacts
<1>1. CASE HandlerReleases
  <2>1. CASE Waiters # {}
    <3>1. PICK m : m = rt_ipc_list_resume(k, sem)
      OBVIOUS
    <3>2. Sound(m) /\ NoNewWaiters(k, m)
      BY <3>1, <2>1, <1>0, HeadWaits, WakeSound DEF rt_ipc_list_resume, Error
    <3>3. Sound(k') /\ SameWaiters(m, k')
      BY <3>1, <3>2, <2>1, <1>1, ScheduleSound DEF HandlerReleases
    <3>4. TypeOK' /\ alive' = alive /\ value' = value /\ pc' = pc
      BY <3>3, <2>1, <1>0, <1>1 DEF TypeOK, HandlerReleases, Sound
    <3> QED
      BY <3>2, <3>3, <3>4, WakingStep DEF SameWaiters, NoNewWaiters
  <2>2. CASE Waiters = {}
    <3>1. TypeOK' /\ k' = k /\ alive'
      BY <2>2, <1>0, <1>1, SemaphoreAssumption DEF TypeOK, HandlerReleases
    <3> QED
      BY <3>1, <2>2, <1>0, IndInvNext DEF Waiters, Linked
  <2> QED
    BY <2>1, <2>2
<1>2. CASE TimeSlice
  <2>1. Sound(k') /\ NoNewWaiters(k, k')
    BY <1>0, <1>2, TimeSliceSound DEF TimeSlice
  <2>2. TypeOK' /\ alive' = alive /\ value' = value /\ pc' = pc
    BY <2>1, <1>0, <1>2 DEF TypeOK, TimeSlice, Sound
  <2> QED
    BY <2>1, <2>2, WakingStep
<1>3. ASSUME NEW t \in App, ThreadTimer(t) PROVE IndInv'
  <2>1. Sound(k') /\ NoNewWaiters(k, k')
    BY <1>0, <1>3, TimeoutSound DEF ThreadTimer, App
  <2>2. TypeOK' /\ alive' = alive /\ value' = value /\ pc' = pc
    BY <2>1, <1>0, <1>3 DEF TypeOK, ThreadTimer, Sound
  <2> QED
    BY <2>1, <2>2, WakingStep
<1> QED
  BY <1>1, <1>2, <1>3 DEF Interrupt

\* The initial states satisfy the invariant.
LEMMA InitHolds == Init => IndInv
<1> SUFFICES ASSUME Init PROVE IndInv
  OBVIOUS
<1>1. PICK main \in App : k = KernelStart(main)
  BY DEF Init
<1>2. Sound(k) /\ \A u : ~ Linked(k, sem, u)
  BY <1>1, SemQueue, KernelStartSound
<1>3. TypeOK
  BY <1>2, SemaphoreAssumption DEF Init, TypeOK, Sound, Location
<1> QED
  BY <1>2, <1>3, IndInvFacts

\* Every step keeps the invariant.
LEMMA StepKeeps == IndInv /\ [Next]_vars => IndInv'
<1> SUFFICES ASSUME IndInv, [Next]_vars PROVE IndInv'
  OBVIOUS
<1>1. CASE UNCHANGED vars
  BY <1>1 DEF vars, IndInv, TypeOK, KernelInv, NoWaiterLeftBehind, DetachedIsEmpty, Waiters
<1>2. ASSUME NEW t \in App, Take(t) \/ Release(t) \/ Control(t) \/ Others(t)
      PROVE  IndInv'
  BY <1>2, TakeStep, ReleaseStep, ControlStep, OthersStep
<1>3. CASE Interrupt
  BY <1>3, InterruptStep
<1> QED
  BY <1>1, <1>2, <1>3 DEF Next

\* The specification implies its inductive invariant.
THEOREM SemaphoreInvariant == Spec => []IndInv
  BY InitHolds, StepKeeps, PTL DEF Spec

\* Values keep their types; sem->value never exceeds RT_SEM_VALUE_MAX.
THEOREM SemaphoreTypes == Spec => []TypeOK
<1>1. IndInv => TypeOK
  BY DEF IndInv
<1> QED
  BY <1>1, SemaphoreInvariant, PTL

\* The ready table, its bitmap, the suspend list, the thread states and the
\* thread timers agree in every reachable state.
THEOREM SemaphoreKernel == Spec => []KernelInv
<1>1. IndInv => KernelInv
  BY DEF IndInv
<1> QED
  BY <1>1, SemaphoreInvariant, PTL

\* No thread waits while a token is available.
THEOREM SemaphoreNoLostToken == Spec => []NoWaiterLeftBehind
<1>1. IndInv => NoWaiterLeftBehind
  BY DEF IndInv
<1> QED
  BY <1>1, SemaphoreInvariant, PTL

\* A semaphore that has been detached has no waiters.
THEOREM SemaphoreDetached == Spec => []DetachedIsEmpty
<1>1. IndInv => DetachedIsEmpty
  BY DEF IndInv
<1> QED
  BY <1>1, SemaphoreInvariant, PTL

-----------------------------------------------------------------------------
(* Who waits, and in which order.  The second layer of the invariant is    *)
(* inductive relative to the first.                                        *)

InTake(t) == pc[t] \in {"blocking", "blocked"}

\* A list kept by priority is in order from its head to its end.
WaitersInOrder == Order = "PRIO" => SortedBy(k.prio, k.list[sem])

\* A thread on the suspend list has not been told yet how its call ends: a
\* signal that takes it off the list makes the call fail.
WaitersWait == \A t \in Thread : Linked(k, sem, t) => InTake(t) /\ k.err[t] = "EINTR"

\* res tells which calls have not returned.
PendingCalls == \A t \in Thread : InTake(t) <=> res[t] = "waiting"

\* Nobody locks the scheduler, and the current thread is suspended only between
\* putting itself on the list and calling rt_schedule: a thread that looks at
\* thread->error has been resumed.
CurrentRuns == k.lock = 0 /\ (Suspended(k, k.cur) => pc[k.cur] = "blocking")

WaitInv == NobodyStranded /\ WaitersInOrder /\ WaitersWait /\ PendingCalls /\ CurrentRuns

\* How to show the second layer of the next state.
LEMMA WaitInvNext ==
    ASSUME \A u \in Thread : pc'[u] \in {"blocking", "blocked"} /\ Suspended(k', u)
                                => Linked(k', sem, u),
           Order = "PRIO" => SortedBy(k'.prio, k'.list[sem]),
           \A u \in Thread : Linked(k', sem, u)
                                => pc'[u] \in {"blocking", "blocked"} /\ k'.err[u] = "EINTR",
           \A u \in Thread : pc'[u] \in {"blocking", "blocked"} <=> res'[u] = "waiting",
           k'.lock = 0, Suspended(k', k'.cur) => pc'[k'.cur] = "blocking"
    PROVE  WaitInv'
  BY DEF WaitInv, NobodyStranded, WaitersInOrder, WaitersWait, PendingCalls, CurrentRuns,
         InTake, Waiters, Linked

\* What the second layer says.
LEMMA WaitFacts ==
    ASSUME IndInv, WaitInv
    PROVE  /\ \A u \in Thread : InTake(u) /\ Suspended(k, u) => Linked(k, sem, u)
           /\ Order = "PRIO" => SortedBy(k.prio, k.list[sem])
           /\ \A u \in Thread : Linked(k, sem, u) => InTake(u) /\ k.err[u] = "EINTR"
           /\ \A u \in Thread : InTake(u) <=> res[u] = "waiting"
           /\ k.lock = 0 /\ (Suspended(k, k.cur) => pc[k.cur] = "blocking")
           /\ Sound(k) /\ TypeOK /\ k \in KernelState /\ k.cur \in Thread
           /\ k.list[sem] \in Seq(Thread)
<1>1. Sound(k) /\ TypeOK /\ k \in KernelState
  BY IndInvFacts DEF Sound
<1>2. k.cur \in Thread /\ k.list[sem] \in Seq(Thread)
  BY <1>1, SemQueue DEF KernelState
<1> QED
  BY <1>1, <1>2 DEF WaitInv, NobodyStranded, WaitersInOrder, WaitersWait, PendingCalls,
                    CurrentRuns, InTake, Waiters, Linked

\* The calls that are under way stay so, and no other begins.
SameCalls ==
    \A u \in Thread : /\ pc'[u] \in {"blocking", "blocked"} <=> InTake(u)
                      /\ res'[u] = "waiting" <=> res[u] = "waiting"

\* The processor stays where it is or goes to a thread that can run.
CurrentStays == \/ k'.cur = k.cur /\ pc'[k.cur] = pc[k.cur]
                \/ k'.stat[k'.cur] = "RUNNING"
                \/ k'.cur = k.cur /\ pc[k.cur] # "blocking"

\* A step after which the same threads wait.
LEMMA CalmStep ==
    ASSUME IndInv, WaitInv, Calm(k, k'), k'.prio = k.prio, SameCalls, CurrentStays,
           \A u \in Thread : InTake(u) => k'.err[u] = k.err[u]
    PROVE  WaitInv'
<1>1. /\ \A q \in Queue : \A u : Linked(k', q, u) <=> Linked(k, q, u)
      /\ \A u \in Thread : Suspended(k', u) <=> Suspended(k, u)
  BY CalmLinks
<1>2. k'.list[sem] = k.list[sem] /\ k'.lock = k.lock
  BY SemQueue DEF Calm
<1>3. Suspended(k', k'.cur) => pc'[k'.cur] = "blocking"
  BY <1>1, WaitFacts DEF CurrentStays, Suspended, SuspendFlag
<1> QED
  BY <1>1, <1>2, <1>3, SemQueue, WaitFacts, WaitInvNext DEF SameCalls

\* A step that wakes a thread.
LEMMA WakesStep ==
    ASSUME IndInv, WaitInv, NEW t \in Thread, Wakes(k, k', t), SameCalls, CurrentStays
    PROVE  WaitInv'
<1>0. Sound(k) /\ k.list[sem] \in Seq(Thread) /\ k.cur \in Thread
  BY WaitFacts
<1>1. /\ \A q \in Queue : \A u : Linked(k', q, u) <=> Linked(k, q, u) /\ u # t
      /\ \A u \in Thread : Suspended(k', u) <=> Suspended(k, u) /\ u # t
  BY <1>0, WakesLinks
<1>2. k'.list[sem] = Without(k.list[sem], t) /\ k'.lock = k.lock
  BY SemQueue DEF Wakes
<1>3. Suspended(k', k'.cur) => pc'[k'.cur] = "blocking"
  BY <1>0, <1>1, WaitFacts DEF CurrentStays, Suspended, SuspendFlag
<1>4. ASSUME Order = "PRIO" PROVE SortedBy(k'.prio, k'.list[sem])
  <2>1. SortedBy(k.prio, k'.list[sem])
    BY <1>0, <1>2, <1>4, SortedWithout, WaitFacts
  <2>2. k'.list[sem] \in Seq(Thread)
    BY <1>0, <1>2, WithoutType
  <2>3. \A u \in ToSet(k'.list[sem]) : k.prio[u] = k'.prio[u]
    <3>1. \A u \in ToSet(k'.list[sem]) : u \in Thread /\ u # t
      BY <2>2, <1>1, SemQueue DEF Linked, ToSet
    <3> QED
      BY <3>1 DEF Wakes, OthersKeep
  <2> QED
    BY <2>1, <2>2, <2>3, SortedSame
<1>5. \A u \in Thread \ {t} : k'.err[u] = k.err[u]
  BY DEF Wakes, OthersKeep
<1> QED
  BY <1>1, <1>2, <1>3, <1>4, <1>5, SemQueue, WaitFacts, WaitInvNext DEF SameCalls

\* The head of the list is a suspended thread, which the step wakes.
LEMMA HeadIsWoken ==
    ASSUME IndInv, Waiters # {}, NEW e \in Error, NEW r,
           r = rt_thread_resume([k EXCEPT !.err[Head(k.list[sem])] = e], Head(k.list[sem]))
    PROVE  LET h == Head(k.list[sem])
           IN /\ h \in Thread /\ Linked(k, sem, h) /\ Suspended(k, h)
              /\ Wakes(k, r, h) /\ r.err[h] = e /\ r.cur = k.cur /\ Sound(r)
<1>1. Sound(k) /\ k \in KernelState
  BY IndInvFacts DEF Sound
<1>2. k.list[sem] \in Seq(Thread) /\ k.list[sem] # <<>>
  BY <1>1, SemQueue, EmptyList DEF KernelState, Waiters
<1>3. PICK h : h = Head(k.list[sem])
  OBVIOUS
<1>4. h \in Thread /\ Linked(k, sem, h)
  BY <1>2, <1>3, HeadInList DEF Linked
<1>5. Suspended(k, h)
  BY <1>1, <1>4, SemQueue, SoundFacts DEF ThreadOK
<1>6. Wakes(k, r, h) /\ r.err[h] = e /\ r.cur = k.cur
  BY <1>1, <1>3, <1>4, <1>5, WakeFrame
<1>7. Sound(r)
  BY <1>1, <1>3, <1>4, WakeSound
<1> QED
  BY <1>3, <1>4, <1>5, <1>6, <1>7

\* Every step of _rt_sem_take keeps the second layer.
LEMMA TakeWaits ==
    ASSUME IndInv, WaitInv, NEW t \in App, Take(t)
    PROVE  WaitInv'
<1>0. /\ t \in Thread /\ Sound(k) /\ TypeOK /\ k \in KernelState
      /\ Calm(k, k)
  BY WaitFacts DEF App, Calm, SameActivity
<1>1. CASE TakeAvailable(t)
  <2>1. k' = k /\ pc' = pc /\ pc[t] = "run" /\ res' = [res EXCEPT ![t] = "EOK"]
    BY <1>1 DEF TakeAvailable, Calls, At
  <2>2. SameCalls /\ CurrentStays
    BY <2>1, <1>0, WaitFacts DEF SameCalls, CurrentStays, InTake, TypeOK
  <2> QED
    BY <2>1, <2>2, <1>0, CalmStep
<1>2. CASE TakeNoWait(t)
  <2>1. k' = k /\ pc' = pc /\ pc[t] = "run" /\ res' = [res EXCEPT ![t] = "ETIMEOUT"]
    BY <1>2 DEF TakeNoWait, Calls, At
  <2>2. SameCalls /\ CurrentStays
    BY <2>1, <1>0, WaitFacts DEF SameCalls, CurrentStays, InTake, TypeOK
  <2> QED
    BY <2>1, <2>2, <1>0, CalmStep
<1>3. CASE TakeSchedules(t)
  <2>1. Calm(k, k') /\ k'.err = k.err /\ k'.prio = k.prio /\ k'.stat[k'.cur] = "RUNNING"
    BY <1>0, <1>3, WaitFacts, ScheduleFrame, ScheduleRuns DEF TakeSchedules
  <2>2. pc' = [pc EXCEPT ![t] = "blocked"] /\ pc[t] = "blocking" /\ res' = res
    BY <1>3 DEF TakeSchedules, At, Goto
  <2>3. SameCalls /\ CurrentStays
    BY <2>1, <2>2, <1>0 DEF SameCalls, CurrentStays, InTake, TypeOK
  <2> QED
    BY <2>1, <2>3, CalmStep
<1>4. CASE TakeReturns(t)
  <2>1. /\ k' = k /\ pc' = [pc EXCEPT ![t] = "run"] /\ pc[t] = "blocked"
        /\ res' = [res EXCEPT ![t] = k.err[t]] /\ k.cur = t
    BY <1>4 DEF TakeReturns, At, Goto
  <2>2. ~ Suspended(k, t) /\ ~ Linked(k, sem, t)
    <3>1. ~ Suspended(k, t)
      BY <2>1, WaitFacts
    <3> QED
      BY <3>1, <1>0, SemQueue, SoundFacts DEF ThreadOK
  <2>3. k.err[t] # "waiting"
    BY <1>0 DEF KernelState, Error
  <2>4. /\ \A u \in Thread : pc'[u] = IF u = t THEN "run" ELSE pc[u]
        /\ \A u \in Thread : res'[u] = IF u = t THEN k.err[t] ELSE res[u]
    BY <2>1, <1>0 DEF TypeOK
  <2> QED
    BY <2>1, <2>2, <2>3, <2>4, WaitFacts, WaitInvNext DEF InTake
<1>5. ASSUME NEW time \in Time, NEW flag \in Flag, TakeInterrupted(t, time, flag)
      PROVE  WaitInv'
  <2>1. /\ k' = [k EXCEPT !.err[t] = "EINTR"] /\ pc' = pc /\ pc[t] = "run"
        /\ res' = [res EXCEPT ![t] = "EINTR"]
    BY <1>5 DEF TakeInterrupted, Calls, At
  <2>2. /\ k'.list = k.list /\ k'.stat = k.stat /\ k'.cur = k.cur /\ k'.prio = k.prio
        /\ k'.lock = k.lock /\ \A u \in Thread \ {t} : k'.err[u] = k.err[u]
    BY <2>1, <1>0, SetErrorFrame DEF Error
  <2>3. Calm(k, k') /\ SameCalls /\ CurrentStays
    BY <2>1, <2>2, <1>0, WaitFacts DEF Calm, SameActivity, SameCalls, CurrentStays, InTake, TypeOK
  <2>4. \A u \in Thread : InTake(u) => k'.err[u] = k.err[u]
    BY <2>1, <2>2 DEF InTake
  <2> QED
    BY <2>2, <2>3, <2>4, CalmStep
<1>6. ASSUME NEW time \in Time, NEW flag \in Flag, TakeBlocks(t, time, flag)
      PROVE  WaitInv'
  <2>1. PICK e : e = [k EXCEPT !.err[t] = "EINTR"]
    OBVIOUS
  <2>2. /\ Sound(e) /\ e.list = k.list /\ e.stat = k.stat /\ e.cur = k.cur /\ e.prio = k.prio
        /\ e.lock = k.lock /\ e.err[t] = "EINTR"
        /\ \A u \in Thread \ {t} : e.err[u] = k.err[u]
    <3>1. "EINTR" \in Error
      BY DEF Error
    <3> QED
      BY <3>1, <2>1, <1>0, SetErrorFrame
  <2>3. e.stat[t] \in Active /\ flag \in SuspendFlag
    BY <2>2, <1>6, SemaphoreAssumption DEF TakeBlocks, MaySuspend, Active
  <2>4. PICK v : v = rt_ipc_list_suspend(e, sem, t, Order, flag)
    OBVIOUS
  <2>5. /\ v.list[sem] = IF Order = "FIFO" THEN Append(e.list[sem], t)
                         ELSE InsertAt(e.list[sem], PrioPosition(e, e.list[sem], t), t)
        /\ Suspended(v, t) /\ OthersKeep(e, v, t) /\ v.err = e.err /\ v.prio = e.prio
        /\ v.cur = e.cur /\ v.lock = e.lock
    BY <2>2, <2>3, <2>4, SemQueue, ListSuspendFrame
  <2>6. /\ Sound(v)
        /\ \A u : Linked(v, sem, u) <=> Linked(e, sem, u) \/ u = t
    BY <2>2, <2>3, <2>4, SemQueue, ListSuspendSound DEF Active
  <2>7. k' = IF time = "ticks" THEN StartThreadTimer(v, t) ELSE v
    BY <2>1, <2>4, <1>6 DEF TakeBlocks, SuspendOn
  <2>8. /\ k'.list = v.list /\ k'.stat = v.stat /\ k'.err = v.err /\ k'.prio = v.prio
        /\ k'.cur = v.cur /\ k'.lock = v.lock
    BY <2>6, <2>7, <1>0, StartTimerFrame DEF Sound
  <2>9. /\ pc' = [pc EXCEPT ![t] = "blocking"] /\ k.cur = t
        /\ res' = [res EXCEPT ![t] = "waiting"]
    BY <1>6 DEF TakeBlocks, Calls, At, Goto
  <2>10. /\ \A u \in Thread : pc'[u] = IF u = t THEN "blocking" ELSE pc[u]
         /\ \A u \in Thread : res'[u] = IF u = t THEN "waiting" ELSE res[u]
    BY <2>9, <1>0 DEF TypeOK
  <2>11. \A u : Linked(k', sem, u) <=> Linked(k, sem, u) \/ u = t
    BY <2>2, <2>6, <2>8 DEF Linked
  <2>12. \A u \in Thread \ {t} : (Suspended(k', u) <=> Suspended(k, u)) /\ k'.err[u] = k.err[u]
    BY <2>2, <2>5, <2>8 DEF OthersKeep, SameActivity, Suspended, SuspendFlag, Active
  <2>13. ASSUME Order = "PRIO" PROVE SortedBy(k'.prio, k'.list[sem])
    <3>1. k'.list[sem] = InsertAt(e.list[sem], PrioPosition(e, e.list[sem], t), t)
      BY <2>5, <2>8, <2>13
    <3>2. e \in KernelState /\ e.list[sem] \in Seq(Thread) /\ SortedBy(e.prio, e.list[sem])
      BY <2>2, <2>13, WaitFacts DEF Sound
    <3> QED
      BY <3>1, <3>2, <2>5, <2>8, <1>0, SortedInsert
  <2> QED
    BY <2>2, <2>5, <2>8, <2>9, <2>10, <2>11, <2>12, <2>13, <1>0, WaitFacts, WaitInvNext DEF InTake
<1> QED
  BY <1>1, <1>2, <1>3, <1>4, <1>5, <1>6 DEF Take

\* Every step of rt_sem_release, and the reschedule that ends a call.
LEMMA ReleaseWaits ==
    ASSUME IndInv, WaitInv, NEW t \in App, Release(t)
    PROVE  WaitInv'
<1>0. t \in Thread /\ Sound(k) /\ TypeOK /\ Calm(k, k)
  BY WaitFacts DEF App, Calm, SameActivity
<1>1. CASE ReleaseWakes(t)
  <2>1. /\ Head(k.list[sem]) \in Thread /\ Wakes(k, k', Head(k.list[sem])) /\ k'.cur = k.cur
    BY <1>1, HeadIsWoken DEF ReleaseWakes, rt_ipc_list_resume, Error
  <2>2. SameCalls /\ CurrentStays
    BY <2>1, <1>0, <1>1 DEF ReleaseWakes, Calls, At, Goto, SameCalls, CurrentStays, InTake, TypeOK
  <2> QED
    BY <2>1, <2>2, WakesStep
<1>2. CASE ReleaseCounts(t)
  <2>1. k' = k /\ SameCalls /\ CurrentStays
    BY <1>2 DEF ReleaseCounts, SameCalls, CurrentStays, InTake
  <2> QED
    BY <2>1, <1>0, CalmStep
<1>3. CASE Reschedule(t)
  <2>1. Calm(k, k') /\ k'.err = k.err /\ k'.prio = k.prio /\ k'.stat[k'.cur] = "RUNNING"
    BY <1>0, <1>3, WaitFacts, ScheduleFrame, ScheduleRuns DEF Reschedule
  <2>2. SameCalls /\ CurrentStays
    BY <2>1, <1>0, <1>3 DEF Reschedule, At, Goto, SameCalls, CurrentStays, InTake, TypeOK
  <2> QED
    BY <2>1, <2>2, CalmStep
<1> QED
  BY <1>1, <1>2, <1>3 DEF Release

\* Every step of a reset, a detach and a new initialisation.
LEMMA ControlWaits ==
    ASSUME IndInv, WaitInv, NEW t \in App, Control(t)
    PROVE  WaitInv'
<1>0. t \in Thread /\ Sound(k) /\ TypeOK /\ Calm(k, k)
  BY WaitFacts DEF App, Calm, SameActivity
<1>1. CASE ResetBegins(t) \/ ResetEnds(t) \/ DetachBegins(t) \/ DetachTests(t) \/ Reinit(t)
  <2>1. k' = k /\ SameCalls /\ CurrentStays
    BY <1>0, <1>1 DEF ResetBegins, ResetEnds, DetachBegins, DetachTests, Reinit, Calls, At, Goto,
                      SameCalls, CurrentStays, InTake, TypeOK
  <2> QED
    BY <2>1, <1>0, CalmStep
<1>2. CASE (ResetResumes(t) \/ DetachResumes(t)) /\ Waiters # {}
  <2>1. /\ Head(k.list[sem]) \in Thread /\ Wakes(k, k', Head(k.list[sem])) /\ k'.cur = k.cur
    BY <1>2, HeadIsWoken DEF ResetResumes, DetachResumes, ResumeAllRound, Error
  <2>2. SameCalls /\ CurrentStays
    BY <2>1, <1>0, <1>2 DEF ResetResumes, DetachResumes, At, Goto, SameCalls, CurrentStays,
                            InTake, TypeOK
  <2> QED
    BY <2>1, <2>2, WakesStep
<1>3. CASE DetachResumes(t) /\ Waiters = {}
  <2>1. k' = k /\ SameCalls /\ CurrentStays
    BY <1>0, <1>3 DEF DetachResumes, At, Goto, SameCalls, CurrentStays, InTake, TypeOK
  <2> QED
    BY <2>1, <1>0, CalmStep
<1>4. ResetResumes(t) => Waiters # {}
  BY DEF ResetResumes
<1> QED
  BY <1>1, <1>2, <1>3, <1>4 DEF Control

\* Thread starts, signals and interrupts.
LEMMA OthersWait ==
    ASSUME IndInv, WaitInv, (\E t \in App : Others(t)) \/ Interrupt
    PROVE  WaitInv'
<1>0. Sound(k) /\ TypeOK /\ Calm(k, k) /\ k.lock = 0 /\ k \in KernelState /\ k.cur \in Thread
  BY WaitFacts DEF Calm, SameActivity
<1>1. ASSUME NEW t \in App, NEW u \in App, Startup(t, u) PROVE WaitInv'
  <2>1. u \in Thread /\ t \in Thread /\ Wakes(k, k', u) /\ k'.cur = k.cur
    BY <1>0, <1>1, StartupFrame DEF Startup, App
  <2>2. SameCalls /\ CurrentStays
    BY <2>1, <1>0, <1>1 DEF Startup, Calls, At, Goto, SameCalls, CurrentStays, InTake, TypeOK
  <2> QED
    BY <2>1, <2>2, WakesStep
<1>2. ASSUME NEW t \in App, NEW u \in Process, NEW s \in Sig, Kill(t, u, s) PROVE WaitInv'
  <2>1. u \in Thread /\ s \in Signal
    BY SemaphoreAssumption DEF App
  <2>2. /\ k'.err = k.err /\ k'.prio = k.prio /\ Dispatches(k, k')
        /\ Calm(k, k') \/ Wakes(k, k', u)
    BY <2>1, <1>0, <1>2, KillFrame DEF Kill
  <2>3. SameCalls /\ CurrentStays
    BY <2>2, <1>0, <1>2 DEF Kill, Dispatches, SameCalls, CurrentStays, InTake
  <2> QED
    BY <2>1, <2>2, <2>3, CalmStep, WakesStep
<1>3. ASSUME NEW t \in App, Deliver(t) PROVE WaitInv'
  <2>1. PICK s \in k.sig[t] : k' = [k EXCEPT !.sig[t] = @ \ {s}]
    BY <1>3 DEF Deliver
  <2>2. /\ k'.list = k.list /\ k'.stat = k.stat /\ k'.cur = k.cur /\ k'.prio = k.prio
        /\ k'.err = k.err /\ k'.lock = k.lock
    BY <2>1, <1>0 DEF KernelState
  <2>3. Calm(k, k') /\ SameCalls /\ CurrentStays
    BY <2>2, <1>3 DEF Deliver, Calm, SameActivity, SameCalls, CurrentStays, InTake
  <2> QED
    BY <2>2, <2>3, CalmStep
<1>4. CASE HandlerReleases /\ Waiters # {}
  <2>1. PICK m : m = rt_ipc_list_resume(k, sem)
    OBVIOUS
  <2>2. /\ Head(k.list[sem]) \in Thread /\ Wakes(k, m, Head(k.list[sem])) /\ Sound(m)
    BY <2>1, <1>4, HeadIsWoken DEF rt_ipc_list_resume, Error
  <2>3. k' = rt_schedule(m) /\ m.lock = 0
    BY <2>1, <2>2, <1>0, <1>4 DEF HandlerReleases, Wakes
  <2>4. /\ Calm(m, k') /\ k'.err = m.err /\ k'.prio = m.prio /\ k'.stat[k'.cur] = "RUNNING"
    BY <2>2, <2>3, ScheduleFrame, ScheduleRuns
  <2>5. Wakes(k, k', Head(k.list[sem]))
    BY <2>2, <2>4, WakesThenCalm
  <2>6. SameCalls /\ CurrentStays
    BY <2>4, <1>4 DEF HandlerReleases, SameCalls, CurrentStays, InTake
  <2> QED
    BY <2>2, <2>5, <2>6, WakesStep
<1>5. CASE HandlerReleases /\ Waiters = {}
  <2>1. k' = k /\ SameCalls /\ CurrentStays
    BY <1>5 DEF HandlerReleases, SameCalls, CurrentStays, InTake
  <2> QED
    BY <2>1, <1>0, CalmStep
<1>6. CASE TimeSlice
  <2>1. Calm(k, k') /\ Dispatches(k, k') /\ k'.err = k.err /\ k'.prio = k.prio
    BY <1>0, <1>6, TimeSliceFrame DEF TimeSlice
  <2>2. SameCalls /\ CurrentStays
    BY <2>1, <1>0, <1>6 DEF TimeSlice, Dispatches, SameCalls, CurrentStays, InTake
  <2> QED
    BY <2>1, <2>2, CalmStep
<1>7. ASSUME NEW t \in App, ThreadTimer(t) PROVE WaitInv'
  <2>1. t \in Thread /\ Wakes(k, k', t) /\ Dispatches(k, k')
    BY <1>0, <1>7, TimeoutFrame DEF ThreadTimer, App
  <2>2. SameCalls /\ CurrentStays
    BY <2>1, <1>0, <1>7 DEF ThreadTimer, Dispatches, SameCalls, CurrentStays, InTake
  <2> QED
    BY <2>1, <2>2, WakesStep
<1> QED
  BY <1>1, <1>2, <1>3, <1>4, <1>5, <1>6, <1>7 DEF Others, Interrupt

\* The initial states satisfy the second layer.
LEMMA InitWaits == Init => WaitInv
<1> SUFFICES ASSUME Init PROVE WaitInv
  OBVIOUS
<1>1. PICK main \in App : k = KernelStart(main)
  BY DEF Init
<1>2. Sound(k) /\ \A u : ~ Linked(k, sem, u)
  BY <1>1, SemQueue, KernelStartSound
<1>3. k.lock = 0 /\ k.cur = main /\ k.stat[main] = "RUNNING"
  BY <1>1 DEF KernelStart, App
<1>4. k.list[sem] = <<>>
  BY <1>2, SemQueue, ListTypes DEF Sound
<1>5. SortedBy(k.prio, k.list[sem])
  BY <1>4 DEF SortedBy
<1> QED
  BY <1>2, <1>3, <1>5 DEF Init, WaitInv, NobodyStranded, WaitersInOrder, WaitersWait, PendingCalls,
                          CurrentRuns, InTake, Suspended, SuspendFlag

\* Every step keeps the second layer.
LEMMA StepWaits == IndInv /\ WaitInv /\ [Next]_vars => WaitInv'
<1> SUFFICES ASSUME IndInv, WaitInv, [Next]_vars PROVE WaitInv'
  OBVIOUS
<1>1. CASE UNCHANGED vars
  BY <1>1 DEF vars, WaitInv, NobodyStranded, WaitersInOrder, WaitersWait, PendingCalls,
              CurrentRuns, InTake, Waiters
<1>2. ASSUME NEW t \in App, Take(t) \/ Release(t) \/ Control(t) \/ Others(t)
      PROVE  WaitInv'
  BY <1>2, TakeWaits, ReleaseWaits, ControlWaits, OthersWait
<1>3. CASE Interrupt
  BY <1>3, OthersWait
<1> QED
  BY <1>1, <1>2, <1>3 DEF Next

\* The specification implies both layers.
THEOREM SemaphoreWaits == Spec => []WaitInv
<1>1. IndInv /\ WaitInv /\ [Next]_vars => WaitInv'
  BY StepWaits
<1> QED
  BY <1>1, InitWaits, SemaphoreInvariant, PTL DEF Spec

\* A thread that is suspended in rt_sem_take is on the suspend list: no race of
\* a release, a timeout and a signal takes it off without making it run.
THEOREM SemaphoreNobodyStranded == Spec => []NobodyStranded
<1>1. WaitInv => NobodyStranded
  BY DEF WaitInv
<1> QED
  BY <1>1, SemaphoreWaits, PTL

\* With RT_IPC_FLAG_PRIO the head of the suspend list is the most urgent waiter.
THEOREM SemaphoreMostUrgentFirst == Spec => []MostUrgentFirst
<1>1. IndInv /\ WaitInv => MostUrgentFirst
  <2> SUFFICES ASSUME IndInv, WaitInv, Order = "PRIO"
               PROVE  \A t \in Waiters : k.prio[Head(k.list[sem])] <= k.prio[t]
    BY DEF MostUrgentFirst
  <2>1. k \in KernelState /\ k.list[sem] \in Seq(Thread) /\ SortedBy(k.prio, k.list[sem])
    BY WaitFacts
  <2> QED
    BY <2>1, SortedHead DEF Waiters
<1> QED
  BY <1>1, SemaphoreInvariant, SemaphoreWaits, PTL

-----------------------------------------------------------------------------
(* The semaphore implements the abstract semaphore.                        *)

\* The callers are finitely many, so the tokens handed out can be counted.
LEMMA GrantedFinite ==
    /\ IsFiniteSet(Granted) /\ Cardinality(Granted) \in Nat
    /\ IsFiniteSet(Granted') /\ Cardinality(Granted') \in Nat
<1>1. Granted \subseteq Thread /\ Granted' \subseteq Thread
  BY DEF Granted
<1>2. IsFiniteSet(Granted) /\ IsFiniteSet(Granted')
  BY <1>1, KernelAssumption, FS_Subset
<1> QED
  BY <1>2, FS_CardinalityType

\* Who has been granted a token, in terms of the lists of the kernel.
LEMMA GrantedFacts ==
    /\ \A u : u \in Granted <=> /\ u \in Thread /\ pc[u] \in {"blocking", "blocked"}
                                /\ ~ Linked(k, sem, u) /\ k.err[u] = "EOK"
    /\ \A u : u \in Granted' <=> /\ u \in Thread /\ pc'[u] \in {"blocking", "blocked"}
                                 /\ ~ Linked(k', sem, u) /\ k'.err[u] = "EOK"
  BY DEF Granted, Waiters, Linked

\* A step that grants no token and takes none back.
LEMMA SameGrants ==
    ASSUME \A u \in Thread : u \in Granted' <=> u \in Granted
    PROVE  Granted' = Granted
<1>1. Granted \subseteq Thread /\ Granted' \subseteq Thread
  BY DEF Granted
<1> QED
  BY <1>1

\* When the same threads wait and the same calls are under way, the same tokens
\* are granted.
LEMMA CalmGrants ==
    ASSUME Calm(k, k'), SameCalls, \A u \in Thread : InTake(u) => k'.err[u] = k.err[u]
    PROVE  Granted' = Granted
<1>1. \A u : Linked(k', sem, u) <=> Linked(k, sem, u)
  BY CalmLinks, SemQueue
<1> QED
  BY <1>1, GrantedFacts, SameGrants DEF SameCalls, InTake

\* Waking a thread grants a token exactly when the thread was waiting and its
\* error becomes RT_EOK.
LEMMA WakeGrants ==
    ASSUME IndInv, WaitInv, NEW t \in Thread, Wakes(k, k', t), SameCalls, Suspended(k, t)
    PROVE  /\ t \notin Granted
           /\ Linked(k, sem, t) /\ k'.err[t] = "EOK" => Granted' = Granted \cup {t}
           /\ k'.err[t] # "EOK" => Granted' = Granted
           /\ k'.err[t] = k.err[t] => Granted' = Granted
<1>1. /\ \A u : Linked(k', sem, u) <=> Linked(k, sem, u) /\ u # t
      /\ \A u \in Thread \ {t} : k'.err[u] = k.err[u]
  BY WaitFacts, WakesLinks, SemQueue DEF Wakes, OthersKeep
<1>2. t \notin Granted
  BY GrantedFacts, WaitFacts DEF InTake
<1>3. \A u \in Thread \ {t} : u \in Granted' <=> u \in Granted
  BY <1>1, GrantedFacts DEF SameCalls, InTake
<1>4. Granted \subseteq Thread /\ Granted' \subseteq Thread
  BY DEF Granted
<1>5. Linked(k, sem, t) /\ k'.err[t] = "EOK" => t \in Granted'
  BY <1>1, GrantedFacts, WaitFacts DEF SameCalls, InTake
<1>6. k'.err[t] # "EOK" => t \notin Granted'
  BY GrantedFacts
<1>7. k'.err[t] = k.err[t] => t \notin Granted'
  <2> SUFFICES ASSUME k'.err[t] = k.err[t], t \in Granted' PROVE FALSE
    OBVIOUS
  <2>1. InTake(t) /\ k.err[t] = "EOK"
    BY GrantedFacts DEF SameCalls
  <2>2. Linked(k, sem, t) /\ k.err[t] = "EINTR"
    BY <2>1, WaitFacts
  <2> QED
    BY <2>1, <2>2
<1> QED
  BY <1>2, <1>3, <1>4, <1>5, <1>6, <1>7

\* The steps of the abstract semaphore, in terms of what the step does to the
\* value, to the tokens granted and to the callers.  First a step that does
\* nothing to them.
LEMMA AbstractOther ==
    ASSUME value' = value, Granted' = Granted, res' = res, op' \in {"none", "stray"}
    PROVE  Abstract!Next
  BY DEF Abstract!Other, Abstract!Next

\* A call that returns RT_EOK.
LEMMA AbstractTake ==
    ASSUME NEW t \in Thread, value \in Nat, value + Cardinality(Granted) > 0,
           value' + Cardinality(Granted') = value + Cardinality(Granted) - 1,
           res' = [res EXCEPT ![t] = "EOK"], op' = "none"
    PROVE  Abstract!Next
<1>1. (value + Cardinality(Granted))' = value' + Cardinality(Granted')
  OBVIOUS
<1>2. (IF op \in {"release", "reset"} THEN op ELSE "none")' = "none"
  OBVIOUS
<1>3. value + Cardinality(Granted) \in Int
  BY GrantedFinite
<1>4. (value + Cardinality(Granted))' = (value + Cardinality(Granted)) - 1
  BY <1>1, GrantedFinite
<1>5. Abstract!Take(t)
  BY <1>2, <1>3, <1>4 DEF Abstract!Take
<1> QED
  BY <1>5 DEF Abstract!Next

\* A call that fails.
LEMMA AbstractFail ==
    ASSUME NEW t \in Thread, NEW e \in {"EINTR", "ETIMEOUT", "ERROR"},
           value' = value, Granted' = Granted, res' = [res EXCEPT ![t] = e], op' = "none"
    PROVE  Abstract!Next
<1>1. Abstract!Fail(t)
  BY DEF Abstract!Fail, Abstract!Failure
<1> QED
  BY <1>1 DEF Abstract!Next

\* A call that has to wait.
LEMMA AbstractBegin ==
    ASSUME NEW t \in Thread, value' = value, Granted' = Granted, res[t] # "waiting",
           res' = [res EXCEPT ![t] = "waiting"], op' = "none"
    PROVE  Abstract!Next
<1>1. Abstract!Begin(t)
  BY DEF Abstract!Begin
<1> QED
  BY <1>1 DEF Abstract!Next

\* A release.
LEMMA AbstractRelease ==
    ASSUME value' + Cardinality(Granted') = value + Cardinality(Granted) + 1,
           res' = res, op' = "release"
    PROVE  Abstract!Next
<1>1. Abstract!Release
  BY DEF Abstract!Release
<1> QED
  BY <1>1 DEF Abstract!Next

\* A reset, after which the calls that have been granted a token still return.
LEMMA AbstractReset ==
    ASSUME value' \in 0 .. SemValueMax, Granted' = Granted, res' = res, op' = "reset",
           \A u \in Granted : res[u] = "waiting"
    PROVE  Abstract!Next
<1>1. PICK W : W = {u \in Thread : res[u] = "waiting"}
  OBVIOUS
<1>2. Granted \subseteq W /\ IsFiniteSet(W)
  <2>1. W \subseteq Thread
    BY <1>1
  <2> QED
    BY <2>1, <1>1, KernelAssumption, FS_Subset DEF Granted
<1>3. PICK g : g = Cardinality(Granted)
  OBVIOUS
<1>4. PICK n : n = Cardinality(W)
  OBVIOUS
<1>5. g \in Nat /\ n \in Nat /\ g <= n
  BY <1>2, <1>3, <1>4, FS_Subset, FS_CardinalityType
<1>6. (value + Cardinality(Granted))' = value' + g
  BY <1>3
<1>7. value' + g \in value' .. value' + n
  <2>1. PICK v : v = value'
    OBVIOUS
  <2>2. v \in Nat
    BY <2>1, SemaphoreAssumption
  <2>3. v + g \in v .. v + n
    BY <2>2, <1>5
  <2> QED
    BY <2>1, <2>3
<1>8. \E v \in 0 .. SemValueMax : (value + Cardinality(Granted))' \in v .. v + n
  BY <1>6, <1>7
<1>9. (IF op \in {"release", "reset"} THEN op ELSE "none")' = "reset"
  OBVIOUS
<1>10. Abstract!Cardinality({u \in Thread : res[u] = "waiting"}) = n
  BY <1>1, <1>4 DEF Abstract!Cardinality, Cardinality
<1>11. Abstract!Reset
  BY <1>8, <1>9, <1>10 DEF Abstract!Reset
<1> QED
  BY <1>11 DEF Abstract!Next

\* Every step of _rt_sem_take is a step of the abstract semaphore.
LEMMA TakeImplements ==
    ASSUME IndInv, WaitInv, NEW t \in App, Take(t)
    PROVE  Abstract!Next
<1>0. /\ t \in Thread /\ Sound(k) /\ TypeOK /\ k \in KernelState
      /\ Calm(k, k) /\ Cardinality(Granted) \in Nat /\ value \in Nat
  BY WaitFacts, GrantedFinite, SemaphoreAssumption DEF App, Calm, SameActivity, TypeOK
<1>1. CASE TakeAvailable(t)
  <2>1. /\ k' = k /\ pc' = pc /\ value > 0 /\ value' = value - 1
        /\ res' = [res EXCEPT ![t] = "EOK"] /\ op' = "none"
    BY <1>1 DEF TakeAvailable
  <2>2. Granted' = Granted
    BY <2>1, GrantedFacts, SameGrants
  <2>3. value' + Cardinality(Granted') = value + Cardinality(Granted) - 1
    BY <2>1, <2>2, <1>0
  <2>4. value + Cardinality(Granted) > 0
    BY <2>1, <1>0
  <2> QED
    BY <2>1, <2>3, <2>4, <1>0, AbstractTake
<1>2. CASE TakeNoWait(t)
  <2>1. /\ k' = k /\ pc' = pc /\ value' = value
        /\ res' = [res EXCEPT ![t] = "ETIMEOUT"] /\ op' = "none"
    BY <1>2 DEF TakeNoWait
  <2>2. Granted' = Granted
    BY <2>1, GrantedFacts, SameGrants
  <2> QED
    BY <2>1, <2>2, <1>0, AbstractFail
<1>3. CASE TakeSchedules(t)
  <2>1. Calm(k, k') /\ k'.err = k.err
    BY <1>0, <1>3, ScheduleFrame DEF TakeSchedules
  <2>2. /\ pc' = [pc EXCEPT ![t] = "blocked"] /\ pc[t] = "blocking" /\ res' = res
        /\ value' = value /\ op' = "none"
    BY <1>3 DEF TakeSchedules, At, Goto
  <2>3. SameCalls
    BY <2>2, <1>0 DEF SameCalls, InTake, TypeOK
  <2>4. Granted' = Granted
    BY <2>1, <2>3, CalmGrants
  <2> QED
    BY <2>2, <2>4, AbstractOther
<1>4. CASE TakeReturns(t)
  <2>1. /\ k' = k /\ pc' = [pc EXCEPT ![t] = "run"] /\ pc[t] = "blocked"
        /\ res' = [res EXCEPT ![t] = k.err[t]] /\ k.cur = t /\ value' = value /\ op' = "none"
    BY <1>4 DEF TakeReturns, At, Goto
  <2>2. ~ Linked(k, sem, t)
    <3>1. ~ Suspended(k, t)
      BY <2>1, WaitFacts
    <3> QED
      BY <3>1, <1>0, SemQueue, SoundFacts DEF ThreadOK
  <2>3. \A u \in Thread : pc'[u] = IF u = t THEN "run" ELSE pc[u]
    BY <2>1, <1>0 DEF TypeOK
  <2>4. /\ t \notin Granted' /\ \A u \in Thread \ {t} : u \in Granted' <=> u \in Granted
        /\ t \in Granted <=> k.err[t] = "EOK"
    BY <2>1, <2>2, <2>3, <1>0, GrantedFacts
  <2>5. Granted \subseteq Thread /\ Granted' \subseteq Thread
    BY DEF Granted
  <2>6. CASE k.err[t] = "EOK"
    <3>1. Granted' = Granted \ {t} /\ t \in Granted
      BY <2>4, <2>5, <2>6
    <3>2. Cardinality(Granted') = Cardinality(Granted) - 1 /\ Cardinality(Granted') \in Nat
      BY <3>1, GrantedFinite, FS_RemoveElement
    <3> QED
      <4>1. value' + Cardinality(Granted') = value + Cardinality(Granted) - 1
        BY <3>2, <2>1, <1>0
      <4>2. value + Cardinality(Granted) > 0
        BY <3>2, <1>0
      <4> QED
        BY <4>1, <4>2, <2>1, <2>6, <1>0, AbstractTake
  <2>7. CASE k.err[t] # "EOK"
    <3>1. Granted' = Granted
      BY <2>4, <2>5, <2>7
    <3>2. k.err[t] \in {"EINTR", "ETIMEOUT", "ERROR"}
      BY <2>7, <1>0 DEF KernelState, Error
    <3> QED
      BY <3>1, <3>2, <2>1, <1>0, AbstractFail
  <2> QED
    BY <2>6, <2>7
<1>5. ASSUME NEW time \in Time, NEW flag \in Flag, TakeInterrupted(t, time, flag)
      PROVE  Abstract!Next
  <2>1. /\ k' = [k EXCEPT !.err[t] = "EINTR"] /\ pc' = pc /\ pc[t] = "run"
        /\ res' = [res EXCEPT ![t] = "EINTR"] /\ value' = value /\ op' = "none"
    BY <1>5 DEF TakeInterrupted, Calls, At
  <2>2. "EINTR" \in Error
    BY DEF Error
  <2>3. k'.list = k.list /\ \A u \in Thread \ {t} : k'.err[u] = k.err[u]
    BY <2>1, <2>2, <1>0, SetErrorFrame
  <2>4. Granted' = Granted
    BY <2>1, <2>3, GrantedFacts, SameGrants DEF Linked
  <2> QED
    BY <2>1, <2>4, <1>0, AbstractFail
<1>6. ASSUME NEW time \in Time, NEW flag \in Flag, TakeBlocks(t, time, flag)
      PROVE  Abstract!Next
  <2>1. PICK e : e = [k EXCEPT !.err[t] = "EINTR"]
    OBVIOUS
  <2>2. /\ Sound(e) /\ e.list = k.list /\ e.stat = k.stat
        /\ \A u \in Thread \ {t} : e.err[u] = k.err[u]
    <3>1. "EINTR" \in Error
      BY DEF Error
    <3> QED
      BY <3>1, <2>1, <1>0, SetErrorFrame
  <2>3. e.stat[t] \in {"READY", "RUNNING"} /\ flag \in SuspendFlag
    BY <2>2, <1>6, SemaphoreAssumption DEF TakeBlocks, MaySuspend
  <2>4. PICK v : v = rt_ipc_list_suspend(e, sem, t, Order, flag)
    OBVIOUS
  <2>5. /\ Sound(v) /\ v.err = e.err
        /\ \A u : Linked(v, sem, u) <=> Linked(e, sem, u) \/ u = t
    BY <2>2, <2>3, <2>4, SemQueue, ListSuspendSound
  <2>6. k' = IF time = "ticks" THEN StartThreadTimer(v, t) ELSE v
    BY <2>1, <2>4, <1>6 DEF TakeBlocks, SuspendOn
  <2>7. k'.list = v.list /\ k'.err = v.err
    BY <2>5, <2>6, <1>0, StartTimerFrame DEF Sound
  <2>8. /\ pc' = [pc EXCEPT ![t] = "blocking"] /\ pc[t] = "run"
        /\ res' = [res EXCEPT ![t] = "waiting"] /\ value' = value /\ op' = "none"
    BY <1>6 DEF TakeBlocks, Calls, At, Goto
  <2>9. \A u \in Thread : pc'[u] = IF u = t THEN "blocking" ELSE pc[u]
    BY <2>8, <1>0 DEF TypeOK
  <2>10. \A u : Linked(k', sem, u) <=> Linked(k, sem, u) \/ u = t
    BY <2>2, <2>5, <2>7 DEF Linked
  <2>11. Granted' = Granted
    BY <2>2, <2>5, <2>7, <2>8, <2>9, <2>10, GrantedFacts, SameGrants
  <2>12. res[t] # "waiting"
    BY <2>8, <1>0, WaitFacts DEF InTake
  <2> QED
    BY <2>8, <2>11, <2>12, <1>0, AbstractBegin
<1> QED
  BY <1>1, <1>2, <1>3, <1>4, <1>5, <1>6 DEF Take
\* A release that wakes the head of the list hands it a token.
LEMMA HandOver ==
    ASSUME IndInv, WaitInv, NEW h \in Thread, Linked(k, sem, h), Wakes(k, k', h),
           k'.err[h] = "EOK", SameCalls, value' = value, res' = res, op' = "release"
    PROVE  Abstract!Next
<1>1. Suspended(k, h) /\ value \in Nat
  BY WaitFacts, SemQueue, SoundFacts, SemaphoreAssumption DEF ThreadOK, TypeOK
<1>2. h \notin Granted /\ Granted' = Granted \cup {h}
  BY <1>1, WakeGrants
<1>3. Cardinality(Granted') = Cardinality(Granted) + 1
  BY <1>2, GrantedFinite, FS_AddElement
<1>4. value' + Cardinality(Granted') = value + Cardinality(Granted) + 1
  BY <1>1, <1>3, GrantedFinite
<1> QED
  BY <1>4, AbstractRelease

\* A release that finds nobody waiting counts the token.
LEMMA CountUp ==
    ASSUME IndInv, k' = k, pc' = pc, value' = value + 1, res' = res, op' = "release"
    PROVE  Abstract!Next
<1>1. Granted' = Granted
  BY GrantedFacts, SameGrants
<1>2. value \in Nat
  BY SemaphoreAssumption DEF IndInv, TypeOK
<1>3. value' + Cardinality(Granted') = value + Cardinality(Granted) + 1
  BY <1>1, <1>2, GrantedFinite
<1> QED
  BY <1>3, AbstractRelease

\* Every step of rt_sem_release by a thread.
LEMMA ReleaseImplements ==
    ASSUME IndInv, WaitInv, NEW t \in App, Release(t)
    PROVE  Abstract!Next
<1>0. t \in Thread /\ Sound(k) /\ TypeOK
  BY WaitFacts DEF App
<1>1. CASE ReleaseWakes(t)
  <2>1. PICK h : h = Head(k.list[sem])
    OBVIOUS
  <2>2. h \in Thread /\ Linked(k, sem, h) /\ Wakes(k, k', h) /\ k'.err[h] = "EOK"
    BY <2>1, <1>1, HeadIsWoken DEF ReleaseWakes, rt_ipc_list_resume, Error
  <2>3. SameCalls /\ value' = value /\ res' = res /\ op' = "release"
    BY <1>0, <1>1 DEF ReleaseWakes, Calls, At, Goto, SameCalls, InTake, TypeOK
  <2> QED
    BY <2>2, <2>3, HandOver
<1>2. CASE ReleaseCounts(t)
  BY <1>2, CountUp DEF ReleaseCounts
<1>3. CASE Reschedule(t)
  <2>1. Calm(k, k') /\ k'.err = k.err
    BY <1>0, <1>3, ScheduleFrame DEF Reschedule
  <2>2. SameCalls /\ value' = value /\ res' = res /\ op' = "none"
    BY <1>0, <1>3 DEF Reschedule, At, Goto, SameCalls, InTake, TypeOK
  <2> QED
    BY <2>1, <2>2, CalmGrants, AbstractOther
<1> QED
  BY <1>1, <1>2, <1>3 DEF Release

\* Every step of a reset, a detach and a new initialisation.
LEMMA ControlImplements ==
    ASSUME IndInv, WaitInv, NEW t \in App, Control(t)
    PROVE  Abstract!Next
<1>0. t \in Thread /\ Sound(k) /\ TypeOK /\ Calm(k, k)
  BY WaitFacts DEF App, Calm, SameActivity
<1>1. CASE \/ ResetBegins(t) \/ DetachBegins(t) \/ DetachTests(t)
           \/ DetachResumes(t) /\ Waiters = {}
  <2>1. k' = k /\ SameCalls /\ value' = value /\ res' = res /\ op' \in {"none", "stray"}
    BY <1>0, <1>1 DEF ResetBegins, DetachBegins, DetachTests, DetachResumes, Calls, At, Goto,
                      SameCalls, InTake, TypeOK
  <2>2. Granted' = Granted
    BY <2>1, <1>0, CalmGrants
  <2> QED
    BY <2>1, <2>2, AbstractOther
<1>2. CASE (ResetResumes(t) \/ DetachResumes(t)) /\ Waiters # {}
  <2>1. PICK h : h = Head(k.list[sem])
    OBVIOUS
  <2>2. h \in Thread /\ Suspended(k, h) /\ Wakes(k, k', h) /\ k'.err[h] = "ERROR"
    BY <2>1, <1>2, HeadIsWoken DEF ResetResumes, DetachResumes, ResumeAllRound, Error
  <2>3. SameCalls /\ value' = value /\ res' = res /\ op' = "none"
    BY <1>0, <1>2 DEF ResetResumes, DetachResumes, At, Goto, SameCalls, InTake, TypeOK
  <2>4. Granted' = Granted
    BY <2>2, <2>3, WakeGrants
  <2> QED
    BY <2>3, <2>4, AbstractOther
<1>3. CASE ResetEnds(t) \/ Reinit(t)
  <2>1. /\ k' = k /\ SameCalls /\ res' = res /\ op' = "reset" /\ value' \in 0 .. SemValueMax
    BY <1>0, <1>3, SemaphoreAssumption
       DEF ResetEnds, Reinit, Calls, At, Goto, SameCalls, InTake, TypeOK
  <2>2. Granted' = Granted
    BY <2>1, <1>0, CalmGrants
  <2>3. \A u \in Granted : res[u] = "waiting"
    BY GrantedFacts, WaitFacts DEF InTake
  <2> QED
    BY <2>1, <2>2, <2>3, AbstractReset
<1>4. ResetResumes(t) => Waiters # {}
  BY DEF ResetResumes
<1> QED
  BY <1>1, <1>2, <1>3, <1>4 DEF Control

\* Thread starts, signals and interrupts: only the release by a handler does
\* something to the tokens.
LEMMA OthersImplement ==
    ASSUME IndInv, WaitInv, (\E t \in App : Others(t)) \/ Interrupt
    PROVE  Abstract!Next
<1>0. Sound(k) /\ TypeOK /\ k \in KernelState /\ k.lock = 0
  BY WaitFacts
<1>1. ASSUME NEW t \in App, NEW u \in App, Startup(t, u) PROVE Abstract!Next
  <2>1. u \in Thread /\ t \in Thread /\ Wakes(k, k', u) /\ k'.err = k.err
    BY <1>0, <1>1, StartupFrame DEF Startup, App
  <2>2. SameCalls /\ value' = value /\ res' = res /\ op' = "none"
    BY <2>1, <1>0, <1>1 DEF Startup, Calls, At, Goto, SameCalls, InTake, TypeOK
  <2>3. ~ Linked(k, sem, u)
    <3>1. ~ Suspended(k, u)
      BY <1>1 DEF Startup, Suspended, SuspendFlag
    <3> QED
      BY <3>1, <2>1, <1>0, SemQueue, SoundFacts DEF ThreadOK
  <2>4. \A v : Linked(k', sem, v) <=> Linked(k, sem, v)
    BY <2>1, <2>3, <1>0, WakesLinks, SemQueue
  <2>5. Granted' = Granted
    BY <2>1, <2>2, <2>4, GrantedFacts, SameGrants DEF SameCalls, InTake
  <2> QED
    BY <2>2, <2>5, AbstractOther
<1>2. ASSUME NEW t \in App, NEW u \in Process, NEW s \in Sig, Kill(t, u, s) PROVE Abstract!Next
  <2>1. u \in Thread /\ s \in Signal
    BY SemaphoreAssumption DEF App
  <2>2. k'.err = k.err /\ (Calm(k, k') \/ (Wakes(k, k', u) /\ Suspended(k, u)))
    BY <2>1, <1>0, <1>2, KillFrame DEF Kill
  <2>3. SameCalls /\ value' = value /\ res' = res /\ op' = "none"
    BY <1>2 DEF Kill, SameCalls, InTake
  <2>4. Granted' = Granted
    BY <2>1, <2>2, <2>3, CalmGrants, WakeGrants
  <2> QED
    BY <2>3, <2>4, AbstractOther
<1>3. ASSUME NEW t \in App, Deliver(t) PROVE Abstract!Next
  <2>1. PICK s \in k.sig[t] : k' = [k EXCEPT !.sig[t] = @ \ {s}]
    BY <1>3 DEF Deliver
  <2>2. k'.list = k.list /\ k'.err = k.err
    BY <2>1, <1>0 DEF KernelState
  <2>3. pc' = pc /\ value' = value /\ res' = res /\ op' = "none"
    BY <1>3 DEF Deliver
  <2>4. Granted' = Granted
    BY <2>2, <2>3, GrantedFacts, SameGrants DEF Linked
  <2> QED
    BY <2>3, <2>4, AbstractOther
<1>4. CASE HandlerReleases /\ Waiters # {}
  <2>1. PICK m : m = rt_ipc_list_resume(k, sem)
    OBVIOUS
  <2>2. PICK h : h = Head(k.list[sem])
    OBVIOUS
  <2>3. h \in Thread /\ Linked(k, sem, h) /\ Wakes(k, m, h) /\ m.err[h] = "EOK" /\ Sound(m)
    BY <2>1, <2>2, <1>4, HeadIsWoken DEF rt_ipc_list_resume, Error
  <2>4. k' = rt_schedule(m)
    BY <2>1, <1>4 DEF HandlerReleases
  <2>5. Calm(m, k') /\ k'.err = m.err /\ k'.prio = m.prio
    BY <2>3, <2>4, ScheduleFrame
  <2>6. Wakes(k, k', h) /\ k'.err[h] = "EOK"
    BY <2>3, <2>5, WakesThenCalm
  <2>7. SameCalls /\ value' = value /\ res' = res /\ op' = "release"
    BY <1>4 DEF HandlerReleases, SameCalls, InTake
  <2> QED
    BY <2>3, <2>6, <2>7, HandOver
<1>5. CASE HandlerReleases /\ Waiters = {}
  BY <1>5, CountUp DEF HandlerReleases
<1>6. CASE TimeSlice
  <2>1. Calm(k, k') /\ k'.err = k.err
    BY <1>0, <1>6, TimeSliceFrame DEF TimeSlice
  <2>2. SameCalls /\ value' = value /\ res' = res /\ op' = "none"
    BY <1>6 DEF TimeSlice, SameCalls, InTake
  <2> QED
    BY <2>1, <2>2, CalmGrants, AbstractOther
<1>7. ASSUME NEW t \in App, ThreadTimer(t) PROVE Abstract!Next
  <2>1. t \in Thread /\ Wakes(k, k', t) /\ k'.err[t] = "ETIMEOUT" /\ Suspended(k, t)
    BY <1>0, <1>7, TimeoutFrame, SoundFacts DEF ThreadTimer, App, ThreadOK
  <2>2. SameCalls /\ value' = value /\ res' = res /\ op' = "none"
    BY <1>7 DEF ThreadTimer, SameCalls, InTake
  <2>3. Granted' = Granted
    BY <2>1, <2>2, WakeGrants
  <2> QED
    BY <2>2, <2>3, AbstractOther
<1> QED
  BY <1>1, <1>2, <1>3, <1>4, <1>5, <1>6, <1>7 DEF Others, Interrupt

\* The initial states map to initial states.
LEMMA InitImplements == Init => Abstract!Init
<1> SUFFICES ASSUME Init PROVE Abstract!Init
  OBVIOUS
<1>1. Granted = {}
  BY DEF Init, Granted
<1>2. Cardinality(Granted) = 0
  BY <1>1, FS_EmptySet
<1>3. value + Cardinality(Granted) = InitValue
  BY <1>2, SemaphoreAssumption DEF Init
<1> QED
  BY <1>3 DEF Init, Abstract!Init

\* Every step maps to a step or a stutter.
LEMMA StepImplements == IndInv /\ WaitInv /\ [Next]_vars => [Abstract!Next]_Abstract!vars
<1> SUFFICES ASSUME IndInv, WaitInv, [Next]_vars PROVE [Abstract!Next]_Abstract!vars
  OBVIOUS
<1>1. CASE UNCHANGED vars
  <2>1. Granted' = Granted
    BY <1>1 DEF vars, Granted, Waiters
  <2> QED
    BY <2>1, <1>1 DEF vars, Abstract!vars
<1>2. CASE Next
  BY <1>2, TakeImplements, ReleaseImplements, ControlImplements, OthersImplement DEF Next
<1> QED
  BY <1>1, <1>2

\* The semaphore implements the abstract one: each RT_EOK of rt_sem_take costs a
\* token, a failed call costs none and a release adds one, for any number of
\* threads and any interleaving with timeouts, signals and interrupts.
THEOREM SemaphoreImplements == Spec => ImplementsAbstract
<1>1. IndInv /\ WaitInv /\ [Next]_vars => [Abstract!Next]_Abstract!vars
  BY StepImplements
<1> QED
  BY <1>1, InitImplements, SemaphoreInvariant, SemaphoreWaits, PTL
     DEF Spec, ImplementsAbstract, Abstract!Spec
=============================================================================
