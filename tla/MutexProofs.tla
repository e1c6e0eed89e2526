----------------------------- MODULE MutexProofs -----------------------------
(***************************************************************************)
(* Proofs about module Mutex: the kernel structures stay consistent, a     *)
(* mutex belongs to the thread that knows it, and, for one mutex whose     *)
(* waiters are kept by priority, nobody waits for a less urgent owner and  *)
(* an inherited priority is given back.                                    *)
(***************************************************************************)
EXTENDS Mutex, KernelProofs

-----------------------------------------------------------------------------
(* The inductive invariant *)

InTake(t) == pc[t] \in {"blocking", "blocked"}

\* A thread on the suspend list of a mutex is in _rt_mutex_take of that mutex and
\* has not been told yet how its call ends.
WaitersWait ==
    \A x \in Mutexes, t \in Thread :
        Linked(k, x, t) => InTake(t) /\ at[t] = x /\ k.err[t] = "EINTR"

\* A thread suspended in _rt_mutex_take is on the suspend list of its mutex.
NobodyStranded == \A t \in Thread : InTake(t) /\ Suspended(k, t) => Linked(k, at[t], t)

\* Nobody locks the scheduler, and the current thread is suspended only between
\* putting itself on a list and calling rt_schedule.
CurrentRuns == k.lock = 0 /\ (Suspended(k, k.cur) => pc[k.cur] = "blocking")

WaitInv == WaitersWait /\ NobodyStranded /\ CurrentRuns

\* A mutex with no owner is as rt_mutex_init left it; one with an owner is held
\* as often as the owner knows, or has been handed to a waiter that has not
\* returned from _rt_mutex_take, in which case it has not been detached.
OwnerOK(x) ==
    /\ mutex[x].owner = NoOwner => mutex[x] = Free /\ \A u \in Thread : ~ Linked(k, x, u)
    /\ mutex[x].owner # NoOwner => mutex[x].value = 0 /\ mutex[x].original_priority \in Prio
    /\ \A t \in Thread :
          /\ depth[x][t] > 0 => mutex[x].owner = t /\ mutex[x].hold = depth[x][t]
          /\ Granted(t, x) <=> mutex[x].owner = t /\ depth[x][t] = 0
          /\ Granted(t, x) => mutex[x].hold = 1 /\ x \in alive

OwnerInv == \A x \in Mutexes : OwnerOK(x)

MutexInv == TypeOK /\ KernelOK(k) /\ WaitInv /\ OwnerInv

\* A mutex is its suspend list.
LEMMA MutexQueue == \A x \in Mutexes : x \in Queue /\ x \in Prio \cup Queue
  BY MutexAssumption

\* What the invariant says.
LEMMA InvFacts ==
    ASSUME MutexInv
    PROVE  /\ TypeOK /\ Sound(k) /\ k \in KernelState /\ k.cur \in Thread /\ k.lock = 0
           /\ \A x \in Mutexes, u \in Thread :
                 Linked(k, x, u) => InTake(u) /\ at[u] = x /\ k.err[u] = "EINTR"
           /\ \A u \in Thread : InTake(u) /\ Suspended(k, u) => Linked(k, at[u], u)
           /\ Suspended(k, k.cur) => pc[k.cur] = "blocking"
           /\ \A x \in Mutexes : OwnerOK(x)
<1>1. k \in KernelState
  BY DEF MutexInv, TypeOK
<1>2. k.cur \in Thread
  BY <1>1 DEF KernelState
<1> QED
  BY <1>1, <1>2 DEF MutexInv, WaitInv, WaitersWait, NobodyStranded, CurrentRuns, OwnerInv, Sound

\* Who has been granted a mutex, in terms of the lists of the kernel.
LEMMA GrantedFacts ==
    ASSUME NEW x, NEW u
    PROVE  /\ Granted(u, x) <=> /\ InTake(u) /\ at[u] = x
                                /\ ~ Linked(k, x, u) /\ k.err[u] = "EOK"
           /\ Granted(u, x)' <=> /\ pc'[u] \in {"blocking", "blocked"} /\ at'[u] = x
                                 /\ ~ Linked(k', x, u) /\ k'.err[u] = "EOK"
  BY DEF Granted, InTake, Waiters, Linked

\* A thread in application code has been granted nothing and waits for nothing.
LEMMA RunningFacts ==
    ASSUME MutexInv, NEW t \in Thread, ~ InTake(t)
    PROVE  \A x \in Mutexes : ~ Granted(t, x) /\ ~ Linked(k, x, t)
  BY InvFacts, GrantedFacts

-----------------------------------------------------------------------------
(* Steps of the kernel, and what they do to the calls under way *)

\* The same calls of _rt_mutex_take are under way, for the same mutexes.
SameCalls ==
    \A u \in Thread : /\ pc'[u] \in {"blocking", "blocked"} <=> InTake(u)
                      /\ InTake(u) => at'[u] = at[u]

\* The processor stays where it is or goes to a thread that can run.
CurrentStays == \/ k'.cur = k.cur /\ pc'[k.cur] = pc[k.cur]
                \/ k'.stat[k'.cur] = "RUNNING"
                \/ k'.cur = k.cur /\ pc[k.cur] # "blocking"

\* No grant is made or taken back.
SameGrants == \A x \in Mutexes, u \in Thread : Granted(u, x)' <=> Granted(u, x)

\* How to show the part of the invariant that is about waiting.
LEMMA WaitInvNext ==
    ASSUME \A x \in Mutexes, u \in Thread :
              Linked(k', x, u) => /\ pc'[u] \in {"blocking", "blocked"} /\ at'[u] = x
                                  /\ k'.err[u] = "EINTR",
           \A u \in Thread : pc'[u] \in {"blocking", "blocked"} /\ Suspended(k', u)
                                => Linked(k', at'[u], u),
           k'.lock = 0, Suspended(k', k'.cur) => pc'[k'.cur] = "blocking"
    PROVE  WaitInv'
  BY DEF WaitInv, NobodyStranded, WaitersWait, CurrentRuns, InTake

\* A step after which the same threads wait.
LEMMA CalmStep ==
    ASSUME MutexInv, Calm(k, k'), SameCalls, CurrentStays,
           \A u \in Thread : InTake(u) => k'.err[u] = k.err[u]
    PROVE  /\ WaitInv' /\ SameGrants
           /\ \A x \in Mutexes : \A u : Linked(k', x, u) <=> Linked(k, x, u)
<1>1. /\ \A x \in Mutexes : \A u : Linked(k', x, u) <=> Linked(k, x, u)
      /\ \A u \in Thread : Suspended(k', u) <=> Suspended(k, u)
  BY CalmLinks, MutexQueue
<1>2. k'.lock = 0
  BY InvFacts DEF Calm
<1>3. Suspended(k', k'.cur) => pc'[k'.cur] = "blocking"
  BY <1>1, InvFacts DEF CurrentStays, Suspended, SuspendFlag
<1>4. SameGrants
  BY <1>1, GrantedFacts DEF SameGrants, SameCalls
<1>5. \A u \in Thread : InTake(u) => at[u] \in Mutexes
  BY InvFacts DEF TypeOK
<1>6. WaitInv'
  BY <1>1, <1>2, <1>3, <1>5, InvFacts, WaitInvNext DEF SameCalls
<1> QED
  BY <1>1, <1>4, <1>6

\* A step that wakes a thread, after it may have changed priorities.
LEMMA WakesStep ==
    ASSUME MutexInv, NEW m, Sound(m), Calm(k, m), m.err = k.err,
           NEW t \in Thread, Wakes(m, k', t), SameCalls, CurrentStays
    PROVE  /\ WaitInv'
           /\ \A x \in Mutexes : \A u : Linked(k', x, u) <=> Linked(k, x, u) /\ u # t
           /\ \A x \in Mutexes, u \in Thread \ {t} : Granted(u, x)' <=> Granted(u, x)
           /\ Suspended(k, t) =>
                 \A x \in Mutexes :
                    /\ ~ Granted(t, x)
                    /\ Granted(t, x)' <=> Linked(k, x, t) /\ k'.err[t] = "EOK"
           /\ ~ Suspended(k, t) /\ k'.err[t] = k.err[t] => SameGrants
<1>1. /\ \A x \in Mutexes : \A u : Linked(k', x, u) <=> Linked(k, x, u) /\ u # t
      /\ \A u \in Thread : Suspended(k', u) <=> Suspended(k, u) /\ u # t
  <2>1. /\ \A x \in Mutexes : \A u : Linked(m, x, u) <=> Linked(k, x, u)
        /\ \A u \in Thread : Suspended(m, u) <=> Suspended(k, u)
    BY CalmLinks, MutexQueue
  <2>2. /\ \A x \in Mutexes : \A u : Linked(k', x, u) <=> Linked(m, x, u) /\ u # t
        /\ \A u \in Thread : Suspended(k', u) <=> Suspended(m, u) /\ u # t
    BY WakesLinks, MutexQueue
  <2> QED
    BY <2>1, <2>2
<1>2. k'.lock = 0
  BY InvFacts DEF Wakes, Calm
<1>3. Suspended(k', k'.cur) => pc'[k'.cur] = "blocking"
  BY <1>1, InvFacts DEF CurrentStays, Suspended, SuspendFlag
<1>4. \A u \in Thread \ {t} : k'.err[u] = k.err[u]
  BY DEF Wakes, OthersKeep
<1>5. \A u \in Thread : InTake(u) => at[u] \in Mutexes
  BY InvFacts DEF TypeOK
<1>6. WaitInv'
  BY <1>1, <1>2, <1>3, <1>4, <1>5, InvFacts, WaitInvNext DEF SameCalls
<1>7. \A x \in Mutexes, u \in Thread \ {t} : Granted(u, x)' <=> Granted(u, x)
  BY <1>1, <1>4, GrantedFacts DEF SameCalls
<1>8. ASSUME Suspended(k, t), NEW x \in Mutexes
      PROVE  ~ Granted(t, x) /\ (Granted(t, x)' <=> Linked(k, x, t) /\ k'.err[t] = "EOK")
  BY <1>1, <1>8, InvFacts, GrantedFacts DEF SameCalls
<1>9. ASSUME ~ Suspended(k, t), k'.err[t] = k.err[t] PROVE SameGrants
  <2>1. \A x \in Mutexes : ~ Linked(k, x, t)
    BY <1>9, InvFacts, MutexQueue, SoundFacts DEF ThreadOK
  <2> QED
    BY <2>1, <1>1, <1>7, <1>9, GrantedFacts DEF SameGrants, SameCalls
<1> QED
  BY <1>1, <1>6, <1>7, <1>8, <1>9

\* A step that leaves a mutex alone leaves it in order.
LEMMA OwnerSame ==
    ASSUME MutexInv, NEW x \in Mutexes, mutex'[x] = mutex[x], depth'[x] = depth[x],
           \A u \in Thread : Granted(u, x)' <=> Granted(u, x),
           x \in alive => x \in alive',
           mutex[x].owner = NoOwner => \A u \in Thread : Linked(k', x, u) => Linked(k, x, u)
    PROVE  OwnerOK(x)'
  BY InvFacts DEF OwnerOK, Free

\* A step that leaves all mutexes alone.
LEMMA OwnersSame ==
    ASSUME MutexInv, mutex' = mutex, depth' = depth, alive' = alive, SameGrants,
           \A x \in Mutexes : mutex[x].owner = NoOwner =>
              \A u \in Thread : Linked(k', x, u) => Linked(k, x, u)
    PROVE  OwnerInv'
<1>1. ASSUME NEW x \in Mutexes PROVE OwnerOK(x)'
  BY OwnerSame DEF SameGrants
<1> QED
  BY <1>1 DEF OwnerInv

\* A step of a thread in application code that changes its own thread->error and
\* priorities, and neither suspends nor wakes anybody.
LEMMA CallerStep ==
    ASSUME MutexInv, NEW t \in Thread, ~ InTake(t), pc' = pc, at' = at, Calm(k, k'),
           k'.cur = k.cur, \A u \in Thread \ {t} : k'.err[u] = k.err[u]
    PROVE  /\ WaitInv' /\ SameGrants
           /\ \A x \in Mutexes : \A u : Linked(k', x, u) <=> Linked(k, x, u)
<1>1. SameCalls /\ CurrentStays
  BY DEF SameCalls, CurrentStays, InTake
<1> QED
  BY <1>1, CalmStep

\* Writing thread->error.
LEMMA SetErrorStep ==
    ASSUME MutexInv, NEW t \in Thread, NEW e \in Error, NEW s, s = SetError(k, t, e)
    PROVE  /\ Sound(s) /\ Calm(k, s) /\ s.cur = k.cur /\ s.prio = k.prio /\ s.stat = k.stat
           /\ s.err[t] = e /\ \A u \in Thread \ {t} : s.err[u] = k.err[u]
<1>1. Sound(k)
  BY InvFacts
<1> QED
  BY <1>1, SetErrorFrame DEF SetError, Calm, SameActivity

\* Inheritance makes the owner at least as urgent as the caller, and changes
\* nothing else that a mutex depends on.
LEMMA BoostedStep ==
    ASSUME NEW s, Sound(s), NEW t \in Thread, NEW o \in Thread
    PROVE  LET r == Boosted(s, t, o)
           IN /\ Sound(r) /\ Calm(s, r) /\ r.err = s.err /\ r.cur = s.cur
              /\ r.prio[o] <= s.prio[t] /\ r.prio[o] <= s.prio[o]
              /\ \A u \in Thread \ {o} : r.prio[u] = s.prio[u]
<1>1. s \in KernelState /\ s.prio \in [Thread -> Prio] /\ s.prio[t] \in Prio /\ s.prio[o] \in Prio
  BY DEF Sound, KernelState
<1>2. s.prio[t] \in Nat /\ s.prio[o] \in Nat
  BY <1>1, KernelAssumption
<1>3. CASE s.prio[t] < s.prio[o]
  <2>1. PICK r : r = ChangePriority(s, o, s.prio[t])
    OBVIOUS
  <2>2. /\ Sound(r) /\ Calm(s, r) /\ r.err = s.err /\ r.cur = s.cur
        /\ r.prio = [s.prio EXCEPT ![o] = s.prio[t]]
    BY <2>1, <1>1, ChangePrioritySound
  <2>3. r.prio[o] = s.prio[t] /\ \A u \in Thread \ {o} : r.prio[u] = s.prio[u]
    BY <2>2, <1>1
  <2>4. Boosted(s, t, o) = r
    BY <2>1, <1>3 DEF Boosted
  <2>5. r.prio[o] <= s.prio[t] /\ r.prio[o] <= s.prio[o]
    BY <2>3, <1>2, <1>3
  <2> QED
    BY <2>2, <2>3, <2>4, <2>5
<1>4. CASE ~ (s.prio[t] < s.prio[o])
  BY <1>2, <1>4 DEF Boosted, Calm, SameActivity
<1> QED
  BY <1>3, <1>4

\* The owner gets its original priority back, and nobody starts or stops waiting.
LEMMA RestoredStep ==
    ASSUME NEW s, Sound(s), NEW t \in Thread, NEW x, mutex[x].original_priority \in Prio,
           NEW r, r = Restored(s, t, x)
    PROVE  Sound(r) /\ Calm(s, r) /\ r.err = s.err /\ r.cur = s.cur
<1>1. CASE mutex[x].original_priority # s.prio[t]
  BY <1>1, ChangePrioritySound DEF Restored
<1>2. CASE mutex[x].original_priority = s.prio[t]
  BY <1>2 DEF Restored, Calm, SameActivity
<1> QED
  BY <1>1, <1>2

LEMMA RestoredPrio ==
    ASSUME NEW s, Sound(s), NEW t \in Thread, NEW x, mutex[x].original_priority \in Prio
    PROVE  Restored(s, t, x).prio = [s.prio EXCEPT ![t] = mutex[x].original_priority]
<1>1. s \in KernelState /\ s.prio \in [Thread -> Prio]
  BY DEF Sound, KernelState
<1>2. CASE mutex[x].original_priority # s.prio[t]
  BY <1>2, ChangePrioritySound DEF Restored
<1>3. CASE mutex[x].original_priority = s.prio[t]
  BY <1>1, <1>3 DEF Restored
<1> QED
  BY <1>2, <1>3

-----------------------------------------------------------------------------
(* The actions *)

\* How to show the invariant of the next state.
LEMMA InvNext ==
    ASSUME TypeOK', Sound(k'), WaitInv', OwnerInv'
    PROVE  MutexInv'
  BY DEF MutexInv, Sound

\* The type of the next state, from the types of what the step writes.
LEMMA TypesNext ==
    ASSUME TypeOK, k' \in KernelState,
           mutex' = mutex \/ \E x \in Mutexes : \E m \in
              [value : {0, 1}, owner : Thread \cup {NoOwner},
               original_priority : Prio \cup {NoPriority}, hold : 0 .. HoldMax] :
                 mutex' = [mutex EXCEPT ![x] = m],
           alive' \subseteq Mutexes,
           pc' = pc \/ \E t \in Thread, l \in Location : pc' = [pc EXCEPT ![t] = l],
           at' = at \/ \E t \in Thread, x \in Mutexes : at' = [at EXCEPT ![t] = x],
           depth' = depth \/ \E x \in Mutexes, t \in Thread, n \in 0 .. HoldMax :
                                depth' = [depth EXCEPT ![x][t] = n]
    PROVE  TypeOK'
<1>1. pc' \in [Thread -> Location]
  BY DEF TypeOK
<1>2. at' \in [Thread -> Mutexes]
  BY DEF TypeOK
<1>3. depth' \in [Mutexes -> [Thread -> 0 .. HoldMax]]
  <2>1. ASSUME NEW x \in Mutexes, NEW t \in Thread, NEW n \in 0 .. HoldMax,
               depth' = [depth EXCEPT ![x][t] = n]
        PROVE  depth' \in [Mutexes -> [Thread -> 0 .. HoldMax]]
    <3>1. depth[x] \in [Thread -> 0 .. HoldMax]
      BY DEF TypeOK
    <3>2. [depth[x] EXCEPT ![t] = n] \in [Thread -> 0 .. HoldMax]
      BY <3>1
    <3>3. depth' = [depth EXCEPT ![x] = [depth[x] EXCEPT ![t] = n]]
      BY <2>1
    <3> QED
      BY <3>2, <3>3 DEF TypeOK
  <2>2. CASE depth' = depth
    BY <2>2 DEF TypeOK
  <2>3. CASE \E x \in Mutexes, t \in Thread, n \in 0 .. HoldMax :
                depth' = [depth EXCEPT ![x][t] = n]
    <3>1. PICK x \in Mutexes, t \in Thread, n \in 0 .. HoldMax :
                depth' = [depth EXCEPT ![x][t] = n]
      BY <2>3
    <3> QED
      BY <3>1, <2>1
  <2> QED
    BY <2>2, <2>3
<1>4. mutex' \in [Mutexes -> [value : {0, 1}, owner : Thread \cup {NoOwner},
                              original_priority : Prio \cup {NoPriority}, hold : 0 .. HoldMax]]
  BY DEF TypeOK
<1> QED
  BY <1>1, <1>2, <1>3, <1>4 DEF TypeOK

\* The fields of a mutex and the depths are numbers.
LEMMA FieldFacts ==
    ASSUME TypeOK, NEW x \in Mutexes
    PROVE  /\ mutex[x] \in [value : {0, 1}, owner : Thread \cup {NoOwner},
                            original_priority : Prio \cup {NoPriority}, hold : 0 .. HoldMax]
           /\ mutex[x].hold \in Nat /\ mutex[x].hold <= HoldMax /\ HoldMax \in Nat /\ HoldMax > 0
           /\ mutex[x].value \in {0, 1} /\ mutex[x].owner \in Thread \cup {NoOwner}
           /\ \A u \in Thread : depth[x][u] \in Nat
<1>1. mutex[x] \in [value : {0, 1}, owner : Thread \cup {NoOwner},
                    original_priority : Prio \cup {NoPriority}, hold : 0 .. HoldMax]
  BY DEF TypeOK
<1>2. HoldMax \in Nat /\ HoldMax > 0
  BY MutexAssumption
<1>3. \A u \in Thread : depth[x][u] \in 0 .. HoldMax
  BY DEF TypeOK
<1>4. mutex[x].hold \in 0 .. HoldMax
  BY <1>1
<1> QED
  BY <1>1, <1>2, <1>3, <1>4

\* A mutex whose owner is in application code: the owner knows how often it holds
\* it and nobody else has a share in it.
LEMMA OwnerFacts ==
    ASSUME MutexInv, NEW x \in Mutexes, NEW t \in Thread, mutex[x].owner = t, ~ InTake(t)
    PROVE  /\ depth[x][t] > 0 /\ mutex[x].hold = depth[x][t]
           /\ mutex[x].value = 0 /\ mutex[x].original_priority \in Prio
           /\ \A u \in Thread \ {t} : depth[x][u] = 0
           /\ \A u \in Thread : ~ Granted(u, x)
<1>1. OwnerOK(x) /\ ~ Granted(t, x) /\ t # NoOwner
  BY InvFacts, RunningFacts, MutexAssumption
<1>2. \A u \in Thread : depth[x][u] \in Nat
  BY InvFacts, FieldFacts
<1> QED
  BY <1>1, <1>2 DEF OwnerOK

\* A mutex without owner is held by nobody and granted to nobody.
LEMMA NoOwnerFacts ==
    ASSUME MutexInv, NEW x \in Mutexes, mutex[x].owner = NoOwner
    PROVE  /\ mutex[x] = Free
           /\ \A u \in Thread : depth[x][u] = 0 /\ ~ Granted(u, x) /\ ~ Linked(k, x, u)
<1>1. OwnerOK(x) /\ NoOwner \notin Thread
  BY InvFacts, MutexAssumption
<1>2. \A u \in Thread : depth[x][u] \in Nat
  BY InvFacts, FieldFacts
<1> QED
  BY <1>1, <1>2 DEF OwnerOK

\* A step after which t holds x and the owner of no other mutex has changed.
LEMMA HeldNext ==
    ASSUME NEW x \in Mutexes, NEW t \in Thread, mutex'[x].owner = t, mutex'[x].value = 0,
           mutex'[x].original_priority \in Prio,
           mutex'[x].hold = depth'[x][t], depth'[x][t] \in Nat \ {0},
           \A u \in Thread \ {t} : depth'[x][u] = 0,
           \A u \in Thread : ~ Granted(u, x)'
    PROVE  OwnerOK(x)'
<1>1. t # NoOwner
  BY MutexAssumption
<1> QED
  BY <1>1 DEF OwnerOK

\* A step that does something to one mutex.
LEMMA OwnerChange ==
    ASSUME MutexInv, NEW x \in Mutexes, OwnerOK(x)',
           \A y \in Mutexes \ {x} :
              /\ mutex'[y] = mutex[y] /\ depth'[y] = depth[y] /\ (y \in alive => y \in alive')
              /\ \A u \in Thread : Granted(u, y)' <=> Granted(u, y)
              /\ \A u \in Thread : Linked(k', y, u) => Linked(k, y, u)
    PROVE  OwnerInv'
<1>1. ASSUME NEW y \in Mutexes \ {x} PROVE OwnerOK(y)'
  BY OwnerSame
<1> QED
  BY <1>1 DEF OwnerInv

\* rt_mutex_take by the owner: hold and depth grow together.
LEMMA TakeOwnStep ==
    ASSUME MutexInv, NEW t \in App, NEW x \in Mutexes, TakeOwn(t, x)
    PROVE  MutexInv'
<1>0. t \in Thread /\ TypeOK /\ Sound(k) /\ ~ InTake(t) /\ mutex[x].owner = t
  BY InvFacts DEF App, TakeOwn, Calls, At, InTake
<1>1. /\ Sound(k') /\ k' \in KernelState /\ Calm(k, k') /\ k'.cur = k.cur
      /\ \A u \in Thread \ {t} : k'.err[u] = k.err[u]
  BY <1>0, SetErrorStep DEF TakeOwn, Error, Sound
<1>2. pc' = pc /\ at' = at /\ alive' = alive
  BY DEF TakeOwn
<1>3. /\ WaitInv' /\ SameGrants
      /\ \A y \in Mutexes : \A u : Linked(k', y, u) <=> Linked(k, y, u)
  BY <1>0, <1>1, <1>2, CallerStep
<1>4. CASE mutex[x].hold < HoldMax
  <2>1. /\ mutex' = [mutex EXCEPT ![x].hold = @ + 1]
        /\ depth' = [depth EXCEPT ![x][t] = @ + 1]
    BY <1>4 DEF TakeOwn, Entered
  <2>2. /\ depth[x][t] > 0 /\ mutex[x].hold = depth[x][t]
        /\ mutex[x].value = 0 /\ mutex[x].original_priority \in Prio
        /\ \A u \in Thread \ {t} : depth[x][u] = 0
        /\ \A u \in Thread : ~ Granted(u, x)
    BY <1>0, OwnerFacts
  <2>3. depth[x][t] + 1 \in 0 .. HoldMax /\ depth[x][t] + 1 \in Nat \ {0}
    BY <2>2, <1>0, <1>4, FieldFacts
  <2>4. PICK m : m = [mutex[x] EXCEPT !.hold = @ + 1]
    OBVIOUS
  <2>5. m \in [value : {0, 1}, owner : Thread \cup {NoOwner},
               original_priority : Prio \cup {NoPriority}, hold : 0 .. HoldMax]
    BY <2>2, <2>3, <2>4, <1>0, FieldFacts
  <2>6. mutex' = [mutex EXCEPT ![x] = m] /\ depth' = [depth EXCEPT ![x][t] = depth[x][t] + 1]
    BY <2>1, <2>4
  <2>7. TypeOK'
    BY <2>3, <2>5, <2>6, <1>0, <1>1, <1>2, TypesNext DEF TypeOK
  <2>8. mutex'[x] = m /\ \A y \in Mutexes \ {x} : mutex'[y] = mutex[y] /\ depth'[y] = depth[y]
    BY <2>6, <1>0 DEF TypeOK
  <2>9. depth'[x][t] = depth[x][t] + 1 /\ \A u \in Thread \ {t} : depth'[x][u] = depth[x][u]
    BY <2>6, <1>0 DEF TypeOK
  <2>10. /\ m.owner = t /\ m.value = 0 /\ m.original_priority \in Prio
         /\ m.hold = depth[x][t] + 1
    BY <2>2, <2>4, <1>0, FieldFacts
  <2>11. OwnerOK(x)'
    BY <2>2, <2>3, <2>8, <2>9, <2>10, <1>0, <1>3, HeldNext DEF SameGrants
  <2> QED
    BY <2>7, <2>8, <2>11, <1>1, <1>2, <1>3, OwnerChange, InvNext DEF SameGrants
<1>5. CASE ~ (mutex[x].hold < HoldMax)
  <2>1. mutex' = mutex /\ depth' = depth
    BY <1>5 DEF TakeOwn
  <2>2. TypeOK'
    BY <2>1, <1>0, <1>1, <1>2, TypesNext DEF TypeOK
  <2> QED
    BY <2>1, <2>2, <1>1, <1>2, <1>3, OwnersSame, InvNext
<1> QED
  BY <1>4, <1>5

\* rt_mutex_take of a free mutex.
LEMMA TakeFreeStep ==
    ASSUME MutexInv, NEW t \in App, NEW x \in Mutexes, TakeFree(t, x)
    PROVE  MutexInv'
<1>0. t \in Thread /\ TypeOK /\ Sound(k) /\ k \in KernelState /\ ~ InTake(t) /\ mutex[x].value > 0
  BY InvFacts DEF App, TakeFree, Calls, At, InTake
<1>1. /\ Sound(k') /\ k' \in KernelState /\ Calm(k, k') /\ k'.cur = k.cur
      /\ \A u \in Thread \ {t} : k'.err[u] = k.err[u]
  BY <1>0, SetErrorStep DEF TakeFree, Error, Sound
<1>2. pc' = pc /\ at' = at /\ alive' = alive
  BY DEF TakeFree
<1>3. /\ WaitInv' /\ SameGrants
      /\ \A y \in Mutexes : \A u : Linked(k', y, u) <=> Linked(k, y, u)
  BY <1>0, <1>1, <1>2, CallerStep
<1>4. mutex[x].owner = NoOwner
  <2>1. OwnerOK(x) /\ mutex[x].value # 0
    BY <1>0, InvFacts
  <2> QED
    BY <2>1 DEF OwnerOK
<1>5. mutex[x] = Free /\ \A u \in Thread : depth[x][u] = 0 /\ ~ Granted(u, x)
  BY <1>4, NoOwnerFacts
<1>6. mutex[x].hold = 0 /\ mutex[x].value = 1 /\ 0 < HoldMax /\ HoldMax \in Nat /\ 1 \in 0 .. HoldMax
  BY <1>0, <1>5, FieldFacts DEF Free
<1>7. PICK m : m = [value |-> 0, owner |-> t, original_priority |-> k.prio[t], hold |-> 1]
  OBVIOUS
<1>8. k.prio[t] \in Prio
  BY <1>0 DEF KernelState
<1>9. m \in [value : {0, 1}, owner : Thread \cup {NoOwner},
             original_priority : Prio \cup {NoPriority}, hold : 0 .. HoldMax]
  BY <1>0, <1>6, <1>7, <1>8
<1>10. mutex' = [mutex EXCEPT ![x] = m] /\ depth' = [depth EXCEPT ![x][t] = 1]
  <2>1. [value |-> mutex[x].value - 1, owner |-> t, original_priority |-> k.prio[t],
         hold |-> IF mutex[x].hold < HoldMax THEN mutex[x].hold + 1 ELSE mutex[x].hold] = m
    BY <1>6, <1>7
  <2>2. depth' = [depth EXCEPT ![x][t] = depth[x][t] + 1] /\ depth[x][t] + 1 = 1
    BY <1>0, <1>5, <1>6 DEF TakeFree, Entered
  <2> QED
    BY <2>1, <2>2 DEF TakeFree
<1>11. TypeOK'
  BY <1>0, <1>1, <1>2, <1>6, <1>9, <1>10, TypesNext DEF TypeOK
<1>12. mutex'[x] = m /\ \A y \in Mutexes \ {x} : mutex'[y] = mutex[y] /\ depth'[y] = depth[y]
  BY <1>0, <1>10 DEF TypeOK
<1>13. depth'[x][t] = 1 /\ \A u \in Thread \ {t} : depth'[x][u] = 0
  BY <1>0, <1>5, <1>10 DEF TypeOK
<1>14. m.owner = t /\ m.value = 0 /\ m.original_priority \in Prio /\ m.hold = 1
  BY <1>7, <1>8
<1>15. OwnerOK(x)'
  BY <1>0, <1>3, <1>5, <1>12, <1>13, <1>14, HeldNext DEF SameGrants
<1> QED
  BY <1>1, <1>2, <1>3, <1>11, <1>12, <1>15, OwnerChange, InvNext DEF SameGrants

\* A step that neither wakes or suspends anybody nor does anything to a mutex.
LEMMA QuietStep ==
    ASSUME MutexInv, Sound(k'), Calm(k, k'), SameCalls, CurrentStays,
           \A u \in Thread : InTake(u) => k'.err[u] = k.err[u],
           mutex' = mutex, alive' = alive, at' = at, depth' = depth,
           pc' = pc \/ \E t \in Thread, l \in Location : pc' = [pc EXCEPT ![t] = l]
    PROVE  MutexInv'
<1>1. TypeOK /\ k' \in KernelState
  BY InvFacts DEF Sound
<1>2. TypeOK'
  BY <1>1, TypesNext DEF TypeOK
<1>3. /\ WaitInv' /\ SameGrants
      /\ \A x \in Mutexes : \A u : Linked(k', x, u) <=> Linked(k, x, u)
  BY CalmStep
<1> QED
  BY <1>2, <1>3, OwnersSame, InvNext

\* A mutex that is not available has an owner.
LEMMA UnavailableFacts ==
    ASSUME MutexInv, NEW t \in App, NEW x \in Mutexes, Unavailable(t, x)
    PROVE  /\ t \in Thread /\ ~ InTake(t) /\ k.cur = t /\ pc[t] = "run"
           /\ mutex[x].owner \in Thread /\ mutex[x].owner # NoOwner /\ mutex[x].owner # t
<1>1. t \in Thread /\ ~ InTake(t) /\ k.cur = t /\ pc[t] = "run"
  BY DEF App, Unavailable, Calls, At, InTake
<1>2. mutex[x].owner # NoOwner
  BY NoOwnerFacts DEF Unavailable, Free
<1>3. mutex[x].owner \in Thread \cup {NoOwner}
  BY InvFacts, FieldFacts
<1> QED
  BY <1>1, <1>2, <1>3 DEF Unavailable

\* rt_mutex_take that does not wait: time is zero or a signal is pending.
LEMMA TakeFailsStep ==
    ASSUME MutexInv, NEW t \in App, NEW x \in Mutexes,
           TakeNoWait(t, x) \/ \E time \in Time, flag \in Flag : TakeInterrupted(t, x, time, flag)
    PROVE  MutexInv'
<1>0. t \in Thread /\ ~ InTake(t) /\ mutex[x].owner \in Thread
  BY UnavailableFacts DEF TakeNoWait, TakeInterrupted
<1>1. /\ Sound(k') /\ Calm(k, k') /\ k'.cur = k.cur
      /\ \A u \in Thread \ {t} : k'.err[u] = k.err[u]
  <2>1. CASE TakeNoWait(t, x)
    BY <2>1, <1>0, SetErrorStep DEF TakeNoWait, Error
  <2>2. CASE \E time \in Time, flag \in Flag : TakeInterrupted(t, x, time, flag)
    <3>1. PICK s : s = SetError(k, t, "EINTR")
      OBVIOUS
    <3>2. /\ Sound(s) /\ Calm(k, s) /\ s.cur = k.cur
          /\ \A u \in Thread \ {t} : s.err[u] = k.err[u]
      BY <3>1, <1>0, SetErrorStep DEF Error
    <3>3. k' = Boosted(s, t, mutex[x].owner)
      BY <3>1, <2>2 DEF TakeInterrupted
    <3>4. Sound(k') /\ Calm(s, k') /\ k'.err = s.err /\ k'.cur = s.cur
      BY <3>2, <3>3, <1>0, BoostedStep
    <3>5. Calm(k, k')
      BY <3>2, <3>4 DEF Calm, SameActivity
    <3> QED
      BY <3>2, <3>4, <3>5
  <2> QED
    BY <2>1, <2>2
<1>2. pc' = pc /\ at' = at /\ mutex' = mutex /\ alive' = alive /\ depth' = depth
  BY DEF TakeNoWait, TakeInterrupted
<1>3. SameCalls /\ CurrentStays
  BY <1>1, <1>2 DEF SameCalls, CurrentStays, InTake
<1> QED
  BY <1>0, <1>1, <1>2, <1>3, QuietStep

\* _rt_mutex_take calls rt_schedule and, when it is back, looks at thread->error:
\* a thread that finds RT_EOK there has been made the owner.
LEMMA TakeEndsStep ==
    ASSUME MutexInv, NEW t \in App, TakeSchedules(t) \/ TakeReturns(t)
    PROVE  MutexInv'
<1>0. t \in Thread /\ TypeOK /\ Sound(k) /\ k \in KernelState /\ k.lock = 0
  BY InvFacts DEF App
<1>1. CASE TakeSchedules(t)
  <2>1. Sound(k') /\ Calm(k, k') /\ k'.err = k.err /\ k'.stat[k'.cur] = "RUNNING"
    BY <1>0, <1>1, ScheduleFrame, ScheduleSound, ScheduleRuns DEF TakeSchedules
  <2>2. /\ pc' = [pc EXCEPT ![t] = "blocked"] /\ pc[t] = "blocking" /\ at' = at
        /\ mutex' = mutex /\ alive' = alive /\ depth' = depth
    BY <1>1 DEF TakeSchedules, At, Goto
  <2>3. SameCalls /\ CurrentStays /\ "blocked" \in Location
    BY <2>1, <2>2, <1>0 DEF SameCalls, CurrentStays, InTake, TypeOK, Location
  <2> QED
    BY <2>1, <2>2, <2>3, <1>0, QuietStep
<1>2. CASE TakeReturns(t)
  <2>1. /\ k' = k /\ pc' = [pc EXCEPT ![t] = "run"] /\ pc[t] = "blocked" /\ k.cur = t
        /\ at' = at /\ mutex' = mutex /\ alive' = alive /\ InTake(t)
    BY <1>2 DEF TakeReturns, At, Goto, InTake
  <2>2. PICK x \in Mutexes : x = at[t]
    BY <1>0 DEF TypeOK
  <2>3. ~ Suspended(k, t) /\ \A y \in Mutexes : ~ Linked(k, y, t)
    <3>1. ~ Suspended(k, t)
      BY <2>1, InvFacts
    <3> QED
      BY <3>1, <1>0, MutexQueue, SoundFacts DEF ThreadOK
  <2>4. \A u \in Thread : pc'[u] = IF u = t THEN "run" ELSE pc[u]
    BY <2>1, <1>0 DEF TypeOK
  <2>5. WaitInv'
    <3>1. \A u \in Thread : InTake(u) => at[u] \in Mutexes
      BY <1>0 DEF TypeOK
    <3> QED
      BY <3>1, <2>1, <2>3, <2>4, InvFacts, WaitInvNext DEF InTake
  <2>6. /\ \A y \in Mutexes : ~ Granted(t, y)'
        /\ \A y \in Mutexes, u \in Thread \ {t} : Granted(u, y)' <=> Granted(u, y)
        /\ \A y \in Mutexes : Granted(t, y) <=> y = x /\ k.err[t] = "EOK"
    <3>1. \A y \in Mutexes : ~ Granted(t, y)'
      BY <2>4, <1>0, GrantedFacts
    <3>2. \A y \in Mutexes, u \in Thread \ {t} : Granted(u, y)' <=> Granted(u, y)
      BY <2>1, <2>4, GrantedFacts DEF InTake
    <3>3. \A y \in Mutexes : Granted(t, y) <=> y = x /\ k.err[t] = "EOK"
      BY <2>1, <2>2, <2>3, GrantedFacts
    <3> QED
      BY <3>1, <3>2, <3>3
  <2>7. CASE k.err[t] = "EOK"
    <3>1. depth' = [depth EXCEPT ![x][t] = @ + 1]
      BY <2>2, <2>7, <1>2 DEF TakeReturns, Entered
    <3>2. OwnerOK(x) /\ Granted(t, x)
      BY <2>6, <2>7, InvFacts
    <3>3. /\ mutex[x].owner = t /\ depth[x][t] = 0 /\ mutex[x].hold = 1 /\ t # NoOwner
          /\ mutex[x].value = 0 /\ mutex[x].original_priority \in Prio
      <4>1. mutex[x].owner = t /\ depth[x][t] = 0 /\ mutex[x].hold = 1
        BY <3>2, <1>0 DEF OwnerOK
      <4>2. t # NoOwner
        BY <1>0, MutexAssumption
      <4> QED
        BY <4>1, <4>2, <3>2 DEF OwnerOK
    <3>4. \A u \in Thread \ {t} : depth[x][u] = 0 /\ ~ Granted(u, x)
      BY <3>2, <3>3, <1>0, FieldFacts DEF OwnerOK
    <3>5. depth' = [depth EXCEPT ![x][t] = 1] /\ 1 \in 0 .. HoldMax
      BY <3>1, <3>3, <1>0, FieldFacts
    <3>6. TypeOK'
      BY <3>5, <2>1, <1>0, TypesNext DEF TypeOK, Location
    <3>7. /\ depth'[x][t] = 1 /\ \A u \in Thread \ {t} : depth'[x][u] = 0
          /\ \A y \in Mutexes \ {x} : depth'[y] = depth[y]
      BY <3>4, <3>5, <1>0 DEF TypeOK
    <3>8. OwnerOK(x)'
      BY <3>3, <3>4, <3>7, <2>1, <2>6, <1>0, HeldNext
    <3> QED
      BY <3>6, <3>7, <3>8, <2>1, <2>5, <2>6, <1>0, OwnerChange, InvNext
  <2>8. CASE k.err[t] # "EOK"
    <3>1. depth' = depth
      BY <2>8, <1>2 DEF TakeReturns
    <3>2. TypeOK'
      BY <3>1, <2>1, <1>0, TypesNext DEF TypeOK, Location
    <3>3. SameGrants
      BY <2>6, <2>8 DEF SameGrants
    <3> QED
      BY <3>1, <3>2, <3>3, <2>1, <2>5, <1>0, OwnersSame, InvNext
  <2> QED
    BY <2>7, <2>8
<1> QED
  BY <1>1, <1>2

\* _rt_mutex_take puts the caller on the suspend list, after the owner has
\* inherited its priority.
LEMMA TakeBlocksStep ==
    ASSUME MutexInv, NEW t \in App, NEW x \in Mutexes, NEW time \in Time, NEW flag \in Flag,
           TakeBlocks(t, x, time, flag)
    PROVE  MutexInv'
<1>0. /\ t \in Thread /\ ~ InTake(t) /\ k.cur = t /\ mutex[x].owner \in Thread
      /\ mutex[x].owner # NoOwner /\ x \in Queue /\ flag \in SuspendFlag
      /\ TypeOK /\ Sound(k) /\ k.lock = 0
  BY UnavailableFacts, MutexQueue, MutexAssumption, InvFacts DEF TakeBlocks
<1>1. PICK e : e = SetError(k, t, "EINTR")
  OBVIOUS
<1>2. /\ Sound(e) /\ Calm(k, e) /\ e.cur = k.cur /\ e.err[t] = "EINTR"
      /\ \A u \in Thread \ {t} : e.err[u] = k.err[u]
  BY <1>0, <1>1, SetErrorStep DEF Error
<1>3. PICK s : s = Boosted(e, t, mutex[x].owner)
  OBVIOUS
<1>4. Sound(s) /\ Calm(e, s) /\ s.err = e.err /\ s.cur = e.cur
  BY <1>0, <1>2, <1>3, BoostedStep
<1>5. Calm(k, s)
  BY <1>2, <1>4 DEF Calm, SameActivity
<1>6. s.stat[t] \in Active
  BY <1>0, <1>5 DEF TakeBlocks, MaySuspend, Calm, SameActivity, Active
<1>7. PICK v : v = rt_ipc_list_suspend(s, x, t, Order, flag)
  OBVIOUS
<1>8. /\ Sound(v) /\ Suspended(v, t) /\ v.err = s.err
      /\ \A y \in Queue : \A u : Linked(v, y, u) <=> Linked(s, y, u) \/ (y = x /\ u = t)
  BY <1>0, <1>4, <1>6, <1>7, ListSuspendSound DEF Active
<1>9. OthersKeep(s, v, t) /\ v.cur = s.cur /\ v.lock = s.lock
  BY <1>0, <1>4, <1>6, <1>7, ListSuspendFrame
<1>10. k' = IF time = "ticks" THEN StartThreadTimer(v, t) ELSE v
  BY <1>1, <1>3, <1>7 DEF TakeBlocks, SuspendOn
<1>11. /\ Sound(k') /\ k'.list = v.list /\ k'.stat = v.stat /\ k'.err = v.err
       /\ k'.cur = v.cur /\ k'.lock = v.lock
  BY <1>0, <1>8, <1>10, StartTimerSound, StartTimerFrame DEF Sound
<1>12. \A y \in Mutexes : \A u : Linked(k', y, u) <=> Linked(k, y, u) \/ (y = x /\ u = t)
  <2>1. \A y \in Queue : \A u : Linked(s, y, u) <=> Linked(k, y, u)
    BY <1>5, CalmLinks
  <2> QED
    BY <2>1, <1>8, <1>11, MutexQueue DEF Linked
<1>13. \A u \in Thread \ {t} : (Suspended(k', u) <=> Suspended(k, u)) /\ k'.err[u] = k.err[u]
  <2>1. \A u \in Thread : Suspended(s, u) <=> Suspended(k, u)
    BY <1>5, CalmLinks
  <2>2. \A u \in Thread \ {t} : Suspended(v, u) <=> Suspended(s, u)
    BY <1>9 DEF OthersKeep, SameActivity, Suspended, SuspendFlag, Active
  <2> QED
    BY <2>1, <2>2, <1>2, <1>4, <1>8, <1>11 DEF Suspended
<1>14. k'.err[t] = "EINTR" /\ k'.cur = t /\ k'.lock = 0
  BY <1>0, <1>2, <1>4, <1>8, <1>9, <1>11, <1>5 DEF Calm
<1>15. /\ pc' = [pc EXCEPT ![t] = "blocking"] /\ at' = [at EXCEPT ![t] = x]
       /\ mutex' = mutex /\ alive' = alive /\ depth' = depth
  BY DEF TakeBlocks, Goto
<1>16. \A u \in Thread : /\ pc'[u] = IF u = t THEN "blocking" ELSE pc[u]
                         /\ at'[u] = IF u = t THEN x ELSE at[u]
  BY <1>0, <1>15 DEF TypeOK
<1>17. \A y \in Mutexes : ~ Linked(k, y, t) /\ ~ Granted(t, y)
  BY <1>0, RunningFacts
<1>18. WaitInv'
  <2>1. \A y \in Mutexes, u \in Thread :
            Linked(k', y, u) => /\ pc'[u] \in {"blocking", "blocked"} /\ at'[u] = y
                                /\ k'.err[u] = "EINTR"
    BY <1>12, <1>13, <1>14, <1>16, <1>17, InvFacts DEF InTake
  <2>2. \A u \in Thread : pc'[u] \in {"blocking", "blocked"} /\ Suspended(k', u)
                             => Linked(k', at'[u], u)
    <3>1. \A u \in Thread : at[u] \in Mutexes
      BY <1>0 DEF TypeOK
    <3> QED
      BY <3>1, <1>12, <1>13, <1>16, InvFacts DEF InTake
  <2> QED
    BY <2>1, <2>2, <1>0, <1>14, <1>16, WaitInvNext
<1>19. SameGrants
  <2>1. \A y \in Mutexes : ~ Granted(t, y)'
    BY <1>0, <1>12, <1>16, GrantedFacts
  <2>2. \A y \in Mutexes, u \in Thread \ {t} : Granted(u, y)' <=> Granted(u, y)
    BY <1>12, <1>13, <1>16, GrantedFacts DEF InTake
  <2> QED
    BY <2>1, <2>2, <1>17 DEF SameGrants
<1>20. TypeOK'
  BY <1>0, <1>11, <1>15, TypesNext DEF TypeOK, Location, Sound
<1> QED
  BY <1>0, <1>11, <1>12, <1>15, <1>18, <1>19, <1>20, OwnersSame, InvNext

\* Every step of _rt_mutex_take.
LEMMA TakeStep ==
    ASSUME MutexInv, NEW t \in App, Take(t)
    PROVE  MutexInv'
  BY TakeOwnStep, TakeFreeStep, TakeFailsStep, TakeBlocksStep, TakeEndsStep DEF Take

\* rt_mutex_release that leaves the caller the owner, or finds it is not.
LEMMA ReleaseInnerStep ==
    ASSUME MutexInv, NEW t \in App, NEW x \in Mutexes,
           ReleaseNotOwner(t, x) \/ ReleaseInner(t, x)
    PROVE  MutexInv'
<1>0. t \in Thread /\ TypeOK /\ Sound(k) /\ k \in KernelState /\ ~ InTake(t)
  BY InvFacts DEF App, ReleaseNotOwner, ReleaseInner, Calls, At, InTake
<1>1. CASE ReleaseNotOwner(t, x)
  <2>1. /\ Sound(k') /\ Calm(k, k') /\ k'.cur = k.cur
        /\ \A u \in Thread \ {t} : k'.err[u] = k.err[u]
    BY <1>0, <1>1, SetErrorStep DEF ReleaseNotOwner, Error
  <2>2. pc' = pc /\ at' = at /\ mutex' = mutex /\ alive' = alive /\ depth' = depth
    BY <1>1 DEF ReleaseNotOwner
  <2>3. SameCalls /\ CurrentStays
    BY <2>1, <2>2 DEF SameCalls, CurrentStays, InTake
  <2> QED
    BY <2>1, <2>2, <2>3, <1>0, QuietStep
<1>2. CASE ReleaseInner(t, x)
  <2>1. /\ mutex' = [mutex EXCEPT ![x].hold = @ - 1] /\ depth' = [depth EXCEPT ![x][t] = @ - 1]
        /\ k' = k /\ pc' = pc /\ at' = at /\ alive' = alive
        /\ mutex[x].owner = t /\ mutex[x].hold > 1
    BY <1>2 DEF ReleaseInner
  <2>2. /\ depth[x][t] > 0 /\ mutex[x].hold = depth[x][t]
        /\ mutex[x].value = 0 /\ mutex[x].original_priority \in Prio
        /\ \A u \in Thread \ {t} : depth[x][u] = 0
        /\ \A u \in Thread : ~ Granted(u, x)
    BY <2>1, <1>0, OwnerFacts
  <2>3. PICK n \in Nat \ {0} : n = depth[x][t] - 1 /\ n \in 0 .. HoldMax
    BY <2>1, <2>2, <1>0, FieldFacts
  <2>4. PICK m : m = [mutex[x] EXCEPT !.hold = @ - 1]
    OBVIOUS
  <2>5. m \in [value : {0, 1}, owner : Thread \cup {NoOwner},
               original_priority : Prio \cup {NoPriority}, hold : 0 .. HoldMax]
    BY <2>2, <2>3, <2>4, <1>0, FieldFacts
  <2>6. mutex' = [mutex EXCEPT ![x] = m] /\ depth' = [depth EXCEPT ![x][t] = n]
    BY <2>1, <2>3, <2>4
  <2>7. TypeOK'
    <3>1. k' = k /\ pc' = pc /\ at' = at /\ alive' = alive /\ alive \subseteq Mutexes
      BY <2>1, <1>0 DEF TypeOK
    <3> QED
      BY <3>1, <2>3, <2>5, <2>6, <1>0, TypesNext
  <2>8. mutex'[x] = m /\ \A y \in Mutexes \ {x} : mutex'[y] = mutex[y] /\ depth'[y] = depth[y]
    BY <2>6, <1>0 DEF TypeOK
  <2>9. depth'[x][t] = n /\ \A u \in Thread \ {t} : depth'[x][u] = depth[x][u]
    BY <2>6, <1>0 DEF TypeOK
  <2>10. /\ m.owner = t /\ m.value = 0 /\ m.original_priority \in Prio
         /\ m.hold = n
    BY <2>1, <2>2, <2>3, <2>4, <1>0, FieldFacts
  <2>11. Calm(k, k')
    BY <2>1 DEF Calm, SameActivity
  <2>12. WaitInv' /\ SameGrants
    BY <2>1, <2>11, <1>0, CallerStep
  <2>13. OwnerOK(x)'
    <3>1. /\ mutex'[x].owner = t /\ mutex'[x].value = 0 /\ mutex'[x].original_priority \in Prio
          /\ mutex'[x].hold = depth'[x][t] /\ depth'[x][t] \in Nat \ {0}
      BY <2>3, <2>8, <2>9, <2>10
    <3>2. \A u \in Thread \ {t} : depth'[x][u] = 0
      BY <2>2, <2>9
    <3>3. \A u \in Thread : ~ Granted(u, x)'
      BY <2>2, <2>12 DEF SameGrants
    <3> QED
      BY <3>1, <3>2, <3>3, <1>0, HeldNext
  <2> QED
    BY <2>1, <2>7, <2>8, <2>12, <2>13, <1>0, OwnerChange, InvNext DEF SameGrants
<1> QED
  BY <1>1, <1>2

\* A step after which x is free.
LEMMA FreeNext ==
    ASSUME NEW x \in Mutexes, mutex'[x] = Free,
           \A u \in Thread : depth'[x][u] = 0 /\ ~ Granted(u, x)' /\ ~ Linked(k', x, u)
    PROVE  OwnerOK(x)'
<1>1. Free.owner = NoOwner /\ \A u \in Thread : u # NoOwner
  BY MutexAssumption DEF Free
<1> QED
  BY <1>1 DEF OwnerOK, Free

\* The last release hands the mutex to the first waiter, which is woken with
\* RT_EOK.
LEMMA ReleaseHandsStep ==
    ASSUME MutexInv, NEW t \in App, NEW x \in Mutexes, ReleaseHands(t, x)
    PROVE  MutexInv'
<1>0. /\ t \in Thread /\ TypeOK /\ Sound(k) /\ k \in KernelState /\ ~ InTake(t) /\ k.cur = t
      /\ pc[t] = "run" /\ mutex[x].owner = t /\ mutex[x].hold = 1 /\ x \in alive /\ x \in Queue
  BY InvFacts, MutexQueue DEF App, ReleaseHands, Calls, At, InTake
<1>1. /\ depth[x][t] > 0 /\ mutex[x].hold = depth[x][t]
      /\ mutex[x].value = 0 /\ mutex[x].original_priority \in Prio
      /\ \A u \in Thread \ {t} : depth[x][u] = 0
      /\ \A u \in Thread : ~ Granted(u, x)
  BY <1>0, OwnerFacts
<1>2. PICK r : r = Restored(k, t, x)
  OBVIOUS
<1>3. Sound(r) /\ Calm(k, r) /\ r.err = k.err /\ r.cur = k.cur
  <2>1. Sound(k) /\ t \in Thread /\ mutex[x].original_priority \in Prio
    BY <1>0, <1>1
  <2> QED
    BY <2>1, <1>2, RestoredStep
<1>4. PICK h : h = Head(k.list[x])
  OBVIOUS
<1>5. h \in Thread /\ Linked(k, x, h)
  <2>1. k.list[x] \in Seq(Thread) /\ k.list[x] # <<>>
    BY <1>0, MutexQueue, EmptyList DEF KernelState, Waiters, ReleaseHands
  <2> QED
    BY <2>1, <1>4, HeadInList DEF Linked
<1>6. Suspended(k, h) /\ Suspended(r, h)
  <2>1. Suspended(k, h)
    BY <1>0, <1>5, SoundFacts DEF ThreadOK
  <2> QED
    BY <2>1, <1>3, <1>5, CalmLinks
<1>7. h # t /\ h # NoOwner
  BY <1>0, <1>5, RunningFacts, MutexAssumption
<1>8. k' = rt_thread_resume([r EXCEPT !.err[h] = "EOK"], h)
  <2>1. r.list[x] = k.list[x]
    BY <1>0, <1>3 DEF Calm
  <2> QED
    BY <2>1, <1>2, <1>4 DEF ReleaseHands, rt_ipc_list_resume
<1>9. Wakes(r, k', h) /\ k'.err[h] = "EOK" /\ k'.cur = r.cur /\ Sound(k') /\ k' \in KernelState
  <2>1. "EOK" \in Error /\ Sound(r) /\ h \in Thread /\ Suspended(r, h)
    BY <1>3, <1>5, <1>6 DEF Error
  <2>2. Wakes(r, k', h) /\ k'.err[h] = "EOK" /\ k'.cur = r.cur
    BY <2>1, <1>8, WakeFrame
  <2>3. Sound(k')
    BY <2>1, <1>8, WakeSound
  <2> QED
    BY <2>2, <2>3 DEF Sound
<1>10. /\ pc' = [pc EXCEPT ![t] = "resched"] /\ at' = at /\ alive' = alive
       /\ depth' = [depth EXCEPT ![x][t] = 0]
       /\ mutex' = [mutex EXCEPT ![x].owner = h, ![x].original_priority = r.prio[h]]
  <2>1. depth[x][t] - 1 = 0
    BY <1>0, <1>1
  <2> QED
    BY <2>1, <1>2, <1>4 DEF ReleaseHands, Goto
<1>11. SameCalls /\ CurrentStays
  BY <1>0, <1>3, <1>9, <1>10 DEF SameCalls, CurrentStays, InTake, TypeOK
<1>12. /\ WaitInv'
       /\ \A y \in Mutexes : \A u : Linked(k', y, u) <=> Linked(k, y, u) /\ u # h
       /\ \A y \in Mutexes, u \in Thread \ {h} : Granted(u, y)' <=> Granted(u, y)
       /\ \A y \in Mutexes : /\ ~ Granted(h, y)
                             /\ Granted(h, y)' <=> Linked(k, y, h) /\ k'.err[h] = "EOK"
  BY <1>3, <1>5, <1>6, <1>9, <1>11, WakesStep
<1>13. \A y \in Mutexes \ {x} : ~ Linked(k, y, h)
  BY <1>5, InvFacts
<1>14. PICK m : m = [mutex[x] EXCEPT !.owner = h, !.original_priority = r.prio[h]]
  OBVIOUS
<1>15. r.prio[h] \in Prio
  BY <1>3, <1>5 DEF Sound, KernelState
<1>16. /\ m \in [value : {0, 1}, owner : Thread \cup {NoOwner},
                original_priority : Prio \cup {NoPriority}, hold : 0 .. HoldMax]
       /\ m.owner = h /\ m.value = 0 /\ m.original_priority \in Prio /\ m.hold = 1
  BY <1>0, <1>1, <1>5, <1>14, <1>15, FieldFacts
<1>17. mutex' = [mutex EXCEPT ![x] = m] /\ mutex'[x] = m
  BY <1>0, <1>10, <1>14 DEF TypeOK
<1>18. TypeOK'
  <2>1. 0 \in 0 .. HoldMax /\ "resched" \in Location /\ alive \subseteq Mutexes
    BY <1>0, MutexAssumption DEF TypeOK, Location
  <2> QED
    BY <2>1, <1>0, <1>9, <1>10, <1>16, <1>17, TypesNext
<1>19. /\ \A y \in Mutexes \ {x} : mutex'[y] = mutex[y] /\ depth'[y] = depth[y]
       /\ \A u \in Thread : depth'[x][u] = 0
  BY <1>0, <1>1, <1>10, <1>17 DEF TypeOK
<1>20. OwnerOK(x)'
  <2>1. \A u \in Thread : Granted(u, x)' <=> u = h
    BY <1>1, <1>5, <1>9, <1>12
  <2>2. /\ mutex'[x].owner = h /\ mutex'[x].value = 0 /\ mutex'[x].original_priority \in Prio
        /\ mutex'[x].hold = 1 /\ x \in alive' /\ h # NoOwner
    BY <1>0, <1>7, <1>10, <1>16, <1>17
  <2>3. \A u \in Thread : depth'[x][u] = 0 /\ ~ (depth'[x][u] > 0)
    BY <1>19
  <2> QED
    BY <2>1, <2>2, <2>3 DEF OwnerOK
<1>21. \A y \in Mutexes \ {x} : \A u \in Thread : Granted(u, y)' <=> Granted(u, y)
  BY <1>12, <1>13
<1> QED
  BY <1>9, <1>10, <1>12, <1>18, <1>19, <1>20, <1>21, OwnerChange, InvNext

\* The last release of a mutex nobody waits for.
LEMMA ReleaseFreesStep ==
    ASSUME MutexInv, NEW t \in App, NEW x \in Mutexes, ReleaseFrees(t, x)
    PROVE  MutexInv'
<1>0. /\ t \in Thread /\ TypeOK /\ Sound(k) /\ ~ InTake(t)
      /\ mutex[x].owner = t /\ mutex[x].hold = 1
  BY InvFacts DEF App, ReleaseFrees, Calls, At, InTake
<1>1. /\ depth[x][t] > 0 /\ mutex[x].hold = depth[x][t] /\ mutex[x].original_priority \in Prio
      /\ \A u \in Thread \ {t} : depth[x][u] = 0
      /\ \A u \in Thread : ~ Granted(u, x)
  BY <1>0, OwnerFacts
<1>2. Sound(k') /\ k' \in KernelState /\ Calm(k, k') /\ k'.err = k.err /\ k'.cur = k.cur
  BY <1>0, <1>1, RestoredStep DEF ReleaseFrees, Sound
<1>3. /\ pc' = pc /\ at' = at /\ alive' = alive /\ mutex' = [mutex EXCEPT ![x] = Free]
      /\ depth' = [depth EXCEPT ![x][t] = 0]
  <2>1. depth[x][t] - 1 = 0
    BY <1>0, <1>1
  <2> QED
    BY <2>1 DEF ReleaseFrees
<1>4. /\ WaitInv' /\ SameGrants
      /\ \A y \in Mutexes : \A u : Linked(k', y, u) <=> Linked(k, y, u)
  BY <1>0, <1>2, <1>3, CallerStep
<1>5. /\ Free \in [value : {0, 1}, owner : Thread \cup {NoOwner},
                   original_priority : Prio \cup {NoPriority}, hold : 0 .. HoldMax]
      /\ 0 \in 0 .. HoldMax
  BY MutexAssumption DEF Free
<1>6. TypeOK'
  <2>1. alive \subseteq Mutexes
    BY <1>0 DEF TypeOK
  <2> QED
    BY <2>1, <1>0, <1>2, <1>3, <1>5, TypesNext
<1>7. /\ \A y \in Mutexes \ {x} : mutex'[y] = mutex[y] /\ depth'[y] = depth[y]
      /\ \A u \in Thread : depth'[x][u] = 0
      /\ mutex'[x] = Free
  BY <1>0, <1>1, <1>3 DEF TypeOK
<1>8. \A u \in Thread : ~ Linked(k', x, u)
  BY <1>4 DEF ReleaseFrees, Waiters, Linked
<1>9. OwnerOK(x)'
  BY <1>1, <1>4, <1>7, <1>8, FreeNext DEF SameGrants
<1> QED
  BY <1>2, <1>3, <1>4, <1>6, <1>7, <1>9, OwnerChange, InvNext DEF SameGrants

\* Every step of rt_mutex_release.
LEMMA ReleaseStep ==
    ASSUME MutexInv, NEW t \in App, Release(t)
    PROVE  MutexInv'
<1>1. CASE Reschedule(t)
  <2>0. t \in Thread /\ TypeOK /\ Sound(k) /\ k.lock = 0
    BY InvFacts DEF App
  <2>1. Sound(k') /\ Calm(k, k') /\ k'.err = k.err /\ k'.stat[k'.cur] = "RUNNING"
    BY <2>0, <1>1, ScheduleFrame, ScheduleSound, ScheduleRuns DEF Reschedule
  <2>2. /\ pc' = [pc EXCEPT ![t] = "run"] /\ pc[t] = "resched" /\ at' = at
        /\ mutex' = mutex /\ alive' = alive /\ depth' = depth
    BY <1>1 DEF Reschedule, At, Goto
  <2>3. SameCalls /\ CurrentStays /\ "run" \in Location
    BY <2>0, <2>1, <2>2 DEF SameCalls, CurrentStays, InTake, TypeOK, Location
  <2> QED
    BY <2>0, <2>1, <2>2, <2>3, QuietStep
<1> QED
  BY <1>1, ReleaseInnerStep, ReleaseHandsStep, ReleaseFreesStep DEF Release

\* A step that wakes a thread without making it an owner.
LEMMA WakeOnlyStep ==
    ASSUME MutexInv, Sound(k'), NEW t \in Thread, Wakes(k, k', t), SameCalls, CurrentStays,
           (Suspended(k, t) /\ k'.err[t] # "EOK") \/ k'.err[t] = k.err[t],
           mutex' = mutex, alive' = alive, at' = at, depth' = depth,
           pc' = pc \/ \E u \in Thread, l \in Location : pc' = [pc EXCEPT ![u] = l]
    PROVE  MutexInv'
<1>1. TypeOK /\ k' \in KernelState /\ Sound(k) /\ Calm(k, k)
  BY InvFacts DEF Sound, Calm, SameActivity
<1>2. TypeOK'
  BY <1>1, TypesNext DEF TypeOK
<1>3. /\ WaitInv'
      /\ \A x \in Mutexes : \A u : Linked(k', x, u) <=> Linked(k, x, u) /\ u # t
      /\ \A x \in Mutexes, u \in Thread \ {t} : Granted(u, x)' <=> Granted(u, x)
      /\ Suspended(k, t) =>
            \A x \in Mutexes :
               /\ ~ Granted(t, x)
               /\ Granted(t, x)' <=> Linked(k, x, t) /\ k'.err[t] = "EOK"
      /\ ~ Suspended(k, t) /\ k'.err[t] = k.err[t] => SameGrants
  BY <1>1, WakesStep
<1>4. SameGrants
  <2>1. CASE Suspended(k, t)
    <3>1. \A x \in Mutexes : Linked(k, x, t) => k'.err[t] # "EOK"
      BY InvFacts
    <3> QED
      BY <3>1, <2>1, <1>3 DEF SameGrants
  <2> QED
    BY <2>1, <1>3
<1> QED
  BY <1>2, <1>3, <1>4, OwnersSame, InvNext

\* Every step of rt_mutex_detach, rt_mutex_delete and a new initialisation.
LEMMA DetachStep ==
    ASSUME MutexInv, NEW t \in App, Detach(t)
    PROVE  MutexInv'
<1>0. t \in Thread /\ TypeOK /\ Sound(k) /\ k \in KernelState /\ Calm(k, k)
  BY InvFacts DEF App, Calm, SameActivity
<1>1. ASSUME NEW x \in Mutexes, DetachBegins(t, x) PROVE MutexInv'
  <2>1. /\ k' = k /\ mutex' = mutex /\ depth' = depth /\ alive' = alive \ {x}
        /\ pc' = [pc EXCEPT ![t] = "detach"] /\ at' = [at EXCEPT ![t] = x]
        /\ ~ InTake(t) /\ mutex[x].owner \in {t, NoOwner} /\ k.cur = t /\ pc[t] = "run"
    BY <1>1 DEF DetachBegins, Calls, At, Goto, InTake
  <2>2. SameCalls /\ CurrentStays
    BY <2>1, <1>0 DEF SameCalls, CurrentStays, InTake, TypeOK
  <2>3. WaitInv' /\ SameGrants
    BY <2>1, <2>2, <1>0, CalmStep
  <2>4. \A u \in Thread : ~ Granted(u, x)
    BY <2>1, <1>0, OwnerFacts, NoOwnerFacts
  <2>5. OwnerOK(x)'
    BY <2>1, <2>3, <2>4, InvFacts DEF OwnerOK, SameGrants, Free
  <2>6. TypeOK'
    <3>1. alive' \subseteq Mutexes /\ "detach" \in Location
      BY <2>1, <1>0 DEF TypeOK, Location
    <3> QED
      BY <3>1, <2>1, <1>0, TypesNext
  <2> QED
    BY <2>1, <2>3, <2>5, <2>6, <1>0, OwnerChange, InvNext DEF SameGrants
<1>2. ASSUME NEW x \in Mutexes, Reinit(t, x) PROVE MutexInv'
  <2>1. /\ k' = k /\ pc' = pc /\ at' = at /\ depth' = depth /\ mutex' = [mutex EXCEPT ![x] = Free]
        /\ alive' = alive \cup {x} /\ x \notin alive /\ \A u \in Thread : depth[x][u] = 0
    BY <1>2 DEF Reinit
  <2>2. mutex[x] = Free
    <3>1. OwnerOK(x) /\ mutex[x].owner \in Thread \cup {NoOwner}
      BY <1>0, InvFacts, FieldFacts
    <3>2. mutex[x].owner \notin Thread
      BY <3>1, <2>1 DEF OwnerOK
    <3> QED
      BY <3>1, <3>2, NoOwnerFacts
  <2>3. mutex' = mutex
    BY <2>1, <2>2, <1>0 DEF TypeOK
  <2>4. SameCalls /\ CurrentStays
    BY <2>1 DEF SameCalls, CurrentStays, InTake
  <2>5. WaitInv' /\ SameGrants
    BY <2>1, <2>4, <1>0, CalmStep
  <2>6. ASSUME NEW y \in Mutexes PROVE OwnerOK(y)'
    BY <2>1, <2>3, <2>5, OwnerSame DEF SameGrants
  <2>7. TypeOK'
    <3>1. alive' \subseteq Mutexes
      BY <2>1, <1>0 DEF TypeOK
    <3> QED
      BY <3>1, <2>1, <2>3, <1>0, TypesNext
  <2> QED
    BY <2>1, <2>5, <2>6, <2>7, <1>0, InvNext DEF OwnerInv
<1>3. CASE DetachTests(t) \/ (DetachResumes(t) /\ Waiters(at[t]) = {})
  <2>1. /\ k' = k /\ mutex' = mutex /\ alive' = alive /\ at' = at /\ depth' = depth
        /\ k.cur = t /\ pc[t] \in {"detach", "detach2"}
        /\ \E l \in {"run", "detach", "detach2"} : pc' = [pc EXCEPT ![t] = l]
    BY <1>3 DEF DetachTests, DetachResumes, At, Goto
  <2>2. SameCalls /\ CurrentStays
    BY <2>1, <1>0 DEF SameCalls, CurrentStays, InTake, TypeOK
  <2>3. \E u \in Thread, l \in Location : pc' = [pc EXCEPT ![u] = l]
    BY <2>1, <1>0 DEF Location
  <2> QED
    BY <2>1, <2>2, <2>3, <1>0, QuietStep
<1>4. CASE DetachResumes(t) /\ Waiters(at[t]) # {}
  <2>1. PICK x \in Mutexes : x = at[t]
    BY <1>0 DEF TypeOK
  <2>2. PICK h : h = Head(k.list[x])
    OBVIOUS
  <2>3. h \in Thread /\ Linked(k, x, h)
    <3>1. k.list[x] \in Seq(Thread) /\ k.list[x] # <<>>
      BY <2>1, <1>0, <1>4, MutexQueue, EmptyList DEF KernelState, Waiters
    <3> QED
      BY <3>1, <2>2, HeadInList DEF Linked
  <2>4. Suspended(k, h)
    BY <2>3, <1>0, MutexQueue, SoundFacts DEF ThreadOK
  <2>5. k' = rt_thread_resume([k EXCEPT !.err[h] = "ERROR"], h)
    BY <2>1, <2>2, <1>4 DEF DetachResumes, ResumeAllRound
  <2>6. Wakes(k, k', h) /\ k'.err[h] = "ERROR" /\ k'.cur = k.cur /\ Sound(k')
    <3>1. "ERROR" \in Error /\ Sound(k) /\ h \in Thread
      BY <2>3, <1>0 DEF Error
    <3> QED
      BY <3>1, <2>4, <2>5, WakeFrame, WakeSound
  <2>7. /\ mutex' = mutex /\ alive' = alive /\ at' = at /\ depth' = depth
        /\ k.cur = t /\ pc[t] = "detach2" /\ pc' = [pc EXCEPT ![t] = "detach"]
    BY <1>4 DEF DetachResumes, At, Goto
  <2>8. SameCalls /\ CurrentStays /\ "detach" \in Location
    BY <2>6, <2>7, <1>0 DEF SameCalls, CurrentStays, InTake, TypeOK, Location
  <2> QED
    BY <2>3, <2>4, <2>6, <2>7, <2>8, <1>0, WakeOnlyStep
<1> QED
  BY <1>1, <1>2, <1>3, <1>4 DEF Detach

\* Thread starts, signals and interrupts: a signal or a timeout wakes a waiter
\* and makes it owner of nothing.
LEMMA OthersStep ==
    ASSUME MutexInv, (\E t \in App : Others(t)) \/ Interrupt
    PROVE  MutexInv'
<1>0. Sound(k) /\ TypeOK /\ k \in KernelState /\ k.lock = 0 /\ k.cur \in Thread
  BY InvFacts
<1>1. ASSUME NEW t \in App, NEW u \in App, Startup(t, u) PROVE MutexInv'
  <2>1. /\ u \in Thread /\ t \in Thread /\ Wakes(k, k', u) /\ k'.cur = k.cur /\ k'.err = k.err
        /\ Sound(k')
    BY <1>0, <1>1, StartupFrame, StartupSound DEF Startup, App
  <2>2. /\ pc' = [pc EXCEPT ![t] = "resched"] /\ pc[t] = "run" /\ k.cur = t /\ at' = at
        /\ mutex' = mutex /\ alive' = alive /\ depth' = depth
    BY <1>1 DEF Startup, At, Goto
  <2>3. SameCalls /\ CurrentStays /\ "resched" \in Location
    BY <2>1, <2>2, <1>0 DEF SameCalls, CurrentStays, InTake, TypeOK, Location
  <2> QED
    BY <2>1, <2>2, <2>3, WakeOnlyStep
<1>2. ASSUME NEW t \in App, NEW u \in Process, NEW s \in Sig, Kill(t, u, s) PROVE MutexInv'
  <2>1. u \in Thread /\ s \in Signal
    BY MutexAssumption DEF App
  <2>2. /\ k'.err = k.err /\ Dispatches(k, k') /\ Sound(k')
        /\ Calm(k, k') \/ Wakes(k, k', u)
    BY <2>1, <1>0, <1>2, KillFrame, KillSound DEF Kill
  <2>3. pc' = pc /\ at' = at /\ mutex' = mutex /\ alive' = alive /\ depth' = depth
    BY <1>2 DEF Kill
  <2>4. SameCalls /\ CurrentStays
    BY <2>2, <2>3, <1>0 DEF Dispatches, SameCalls, CurrentStays, InTake
  <2> QED
    BY <2>1, <2>2, <2>3, <2>4, QuietStep, WakeOnlyStep
<1>3. ASSUME NEW t \in App, Deliver(t) PROVE MutexInv'
  <2>1. PICK s \in k.sig[t] : k' = [k EXCEPT !.sig[t] = @ \ {s}]
    BY <1>3 DEF Deliver
  <2>2. /\ k'.list = k.list /\ k'.stat = k.stat /\ k'.cur = k.cur /\ k'.prio = k.prio
        /\ k'.err = k.err /\ k'.lock = k.lock /\ k'.group = k.group /\ k'.timer = k.timer
        /\ k' \in KernelState
    BY <2>1, <1>0 DEF KernelState, App
  <2>3. Sound(k')
    BY <2>2, <1>0, MiscSound
  <2>4. pc' = pc /\ at' = at /\ mutex' = mutex /\ alive' = alive /\ depth' = depth
    BY <1>3 DEF Deliver
  <2>5. Calm(k, k') /\ SameCalls /\ CurrentStays
    BY <2>2, <2>4 DEF Calm, SameActivity, SameCalls, CurrentStays, InTake
  <2> QED
    BY <2>2, <2>3, <2>4, <2>5, QuietStep
<1>4. CASE TimeSlice
  <2>1. Sound(k') /\ Calm(k, k') /\ Dispatches(k, k') /\ k'.err = k.err
    BY <1>0, <1>4, TimeSliceFrame, TimeSliceSound DEF TimeSlice
  <2>2. pc' = pc /\ at' = at /\ mutex' = mutex /\ alive' = alive /\ depth' = depth
    BY <1>4 DEF TimeSlice
  <2>3. SameCalls /\ CurrentStays
    BY <2>1, <2>2, <1>0 DEF Dispatches, SameCalls, CurrentStays, InTake
  <2> QED
    BY <2>1, <2>2, <2>3, QuietStep
<1>5. ASSUME NEW t \in App, ThreadTimer(t) PROVE MutexInv'
  <2>1. /\ t \in Thread /\ Wakes(k, k', t) /\ Dispatches(k, k') /\ k'.err[t] = "ETIMEOUT"
        /\ Sound(k') /\ Suspended(k, t)
    BY <1>0, <1>5, TimeoutFrame, TimeoutSound, SoundFacts DEF ThreadTimer, App, ThreadOK
  <2>2. pc' = pc /\ at' = at /\ mutex' = mutex /\ alive' = alive /\ depth' = depth
    BY <1>5 DEF ThreadTimer
  <2>3. SameCalls /\ CurrentStays
    BY <2>1, <2>2, <1>0 DEF Dispatches, SameCalls, CurrentStays, InTake
  <2> QED
    BY <2>1, <2>2, <2>3, WakeOnlyStep
<1> QED
  BY <1>1, <1>2, <1>3, <1>4, <1>5 DEF Others, Interrupt

\* The initial states satisfy the invariant.
LEMMA InitHolds == Init => MutexInv
<1> SUFFICES ASSUME Init PROVE MutexInv
  OBVIOUS
<1>1. PICK main \in App : k = KernelStart(main)
  BY DEF Init
<1>2. Sound(k) /\ \A x \in Mutexes : \A u : ~ Linked(k, x, u)
  BY <1>1, MutexQueue, KernelStartSound
<1>3. k.lock = 0 /\ k.cur = main /\ k.stat[main] = "RUNNING"
  BY <1>1 DEF KernelStart, App
<1>4. \A t \in Thread : ~ InTake(t) /\ \A x \in Mutexes : ~ Granted(t, x)
  BY DEF Init, InTake, Granted
<1>5. TypeOK
  <2>1. k \in KernelState
    BY <1>2 DEF Sound
  <2>2. /\ Free \in [value : {0, 1}, owner : Thread \cup {NoOwner},
                     original_priority : Prio \cup {NoPriority}, hold : 0 .. HoldMax]
        /\ 0 \in 0 .. HoldMax
    BY MutexAssumption DEF Free
  <2>3. (CHOOSE x \in Mutexes : TRUE) \in Mutexes
    BY MutexAssumption
  <2> QED
    BY <2>1, <2>2, <2>3 DEF Init, TypeOK, Location
<1>6. WaitInv
  BY <1>2, <1>3, <1>4 DEF WaitInv, WaitersWait, NobodyStranded, CurrentRuns, Suspended, SuspendFlag
<1>7. ASSUME NEW x \in Mutexes PROVE OwnerOK(x)
  <2>1. mutex[x] = Free /\ \A u \in Thread : depth[x][u] = 0
    BY DEF Init
  <2>2. Free.owner = NoOwner /\ \A u \in Thread : u # NoOwner
    BY MutexAssumption DEF Free
  <2> QED
    BY <2>1, <2>2, <1>2, <1>4 DEF OwnerOK
<1> QED
  BY <1>2, <1>5, <1>6, <1>7 DEF MutexInv, OwnerInv, Sound

\* Every step keeps the invariant.
LEMMA StepKeeps == MutexInv /\ [Next]_vars => MutexInv'
<1> SUFFICES ASSUME MutexInv, [Next]_vars PROVE MutexInv'
  OBVIOUS
<1>1. CASE UNCHANGED vars
  BY <1>1 DEF vars, MutexInv, TypeOK, WaitInv, WaitersWait, NobodyStranded, CurrentRuns, InTake,
              OwnerInv, OwnerOK, Granted, Waiters
<1>2. CASE Next
  BY <1>2, TakeStep, ReleaseStep, DetachStep, OthersStep DEF Next
<1> QED
  BY <1>1, <1>2

\* The specification implies the inductive invariant.
THEOREM MutexInvariant == Spec => []MutexInv
<1>1. MutexInv /\ [Next]_vars => MutexInv'
  BY StepKeeps
<1> QED
  BY <1>1, InitHolds, PTL DEF Spec

\* The ready table, its bitmap, the suspend lists and the thread states agree,
\* also when inheritance moves a ready thread to another priority, and hold
\* stays within RT_MUTEX_HOLD_MAX.
THEOREM MutexKernel == Spec => []KernelInv
<1>1. MutexInv => KernelInv
  BY DEF MutexInv, KernelInv
<1> QED
  BY <1>1, MutexInvariant, PTL

\* Mutual exclusion as the callers see it: a thread that has seen rt_mutex_take
\* succeed more often than it has released the mutex is the owner, and an owner
\* that has not seen its call succeed is about to.
THEOREM MutexOwnerKnows == Spec => []OwnerKnows
<1>1. MutexInv => OwnerKnows
  <2> SUFFICES ASSUME MutexInv, NEW x \in Mutexes, NEW t \in Thread
               PROVE  /\ depth[x][t] > 0 => mutex[x].owner = t /\ mutex[x].hold = depth[x][t]
                      /\ mutex[x].owner = t /\ depth[x][t] = 0
                            => mutex[x].hold = 1 /\ (x \in alive => Granted(t, x))
                      /\ mutex[x].owner = NoOwner
                            => mutex[x].value = 1 /\ mutex[x].hold = 0 /\ Waiters(x) = {}
    BY DEF OwnerKnows
  <2>1. OwnerOK(x) /\ k \in KernelState
    BY InvFacts
  <2>2. (\A u \in Thread : ~ Linked(k, x, u)) => Waiters(x) = {}
    BY <2>1, MutexQueue, ListTypes DEF Waiters, Linked
  <2> QED
    BY <2>1, <2>2 DEF OwnerOK, Free
<1> QED
  BY <1>1, MutexInvariant, PTL

-----------------------------------------------------------------------------
(* Priority inheritance with one mutex.  (With two, rt_mutex_release of    *)
(* one gives the owner a priority that ignores the waiters of the other.)  *)

OneMutex == \A x, y \in Mutexes : x = y

\* A waiter holds nothing, so the owner is not among the waiters; only the owner
\* may have another priority than its own, and original_priority keeps that one;
\* waiters kept by priority are in order and the owner is as urgent as each; and
\* a thread that has not been started has called nothing.
PrioOK(x) ==
    /\ \A u \in Thread : Linked(k, x, u) => depth[x][u] = 0
    /\ \A u \in Thread : mutex[x].owner # u => k.prio[u] = InitPrio[u]
    /\ mutex[x].owner \in Thread => mutex[x].original_priority = InitPrio[mutex[x].owner]
    /\ Order = "PRIO" => SortedBy(k.prio, k.list[x])
    /\ Order = "PRIO" => \A u \in Thread : Linked(k, x, u) => k.prio[mutex[x].owner] <= k.prio[u]
    /\ \A u \in Thread : k.stat[u] = "INIT" => u # k.cur /\ ~ InTake(u) /\ depth[x][u] = 0

PrioInv == \A x \in Mutexes : PrioOK(x)

\* The owner does not wait for the mutex and has been started.
LEMMA OwnerIsApart ==
    ASSUME MutexInv, NEW x \in Mutexes, PrioOK(x), NEW o \in Thread, mutex[x].owner = o
    PROVE  ~ Linked(k, x, o) /\ k.stat[o] # "INIT"
<1>1. OwnerOK(x)
  BY InvFacts
<1>2. depth[x][o] = 0 => Granted(o, x)
  BY <1>1 DEF OwnerOK
<1>3. Granted(o, x) => InTake(o) /\ ~ Linked(k, x, o)
  BY GrantedFacts
<1> QED
  BY <1>2, <1>3 DEF PrioOK

\* Only the thread that runs moves on in its program.
OnlyCurrentMoves(x) ==
    /\ \A u \in Thread : k'.stat[u] = "INIT" => k.stat[u] = "INIT"
    /\ k'.cur = k.cur \/ k'.stat[k'.cur] = "RUNNING"
    /\ \A u \in Thread \ {k.cur} : pc'[u] = pc[u] /\ depth'[x][u] = depth[x][u]

\* How to show PrioOK of the next state.
LEMMA PrioNext ==
    ASSUME NEW x \in Mutexes, PrioOK(x), OnlyCurrentMoves(x),
           \A u \in Thread : Linked(k', x, u) => depth'[x][u] = 0,
           \A u \in Thread : mutex'[x].owner # u => k'.prio[u] = InitPrio[u],
           mutex'[x].owner \in Thread
              => mutex'[x].original_priority = InitPrio[mutex'[x].owner],
           Order = "PRIO" => SortedBy(k'.prio, k'.list[x]),
           Order = "PRIO" => \A u \in Thread :
              Linked(k', x, u) => k'.prio[mutex'[x].owner] <= k'.prio[u]
    PROVE  PrioOK(x)'
<1>1. \A u \in Thread : k'.stat[u] = "INIT" => /\ u # k'.cur /\ depth'[x][u] = 0
                                               /\ pc'[u] \notin {"blocking", "blocked"}
  <2> SUFFICES ASSUME NEW u \in Thread, k'.stat[u] = "INIT"
               PROVE  /\ u # k'.cur /\ depth'[x][u] = 0
                      /\ pc'[u] \notin {"blocking", "blocked"}
    OBVIOUS
  <2>1. k.stat[u] = "INIT"
    BY DEF OnlyCurrentMoves
  <2>2. u # k.cur /\ ~ InTake(u) /\ depth[x][u] = 0
    BY <2>1 DEF PrioOK
  <2> QED
    BY <2>2 DEF OnlyCurrentMoves, InTake
<1> QED
  BY <1>1 DEF PrioOK, InTake

\* No step takes a thread back to RT_THREAD_INIT.
LEMMA NobodyUnstarts ==
    ASSUME NEW s, NEW r, Calm(s, r) \/ \E t \in Thread : Wakes(s, r, t)
    PROVE  \A u \in Thread : r.stat[u] = "INIT" => s.stat[u] = "INIT"
  BY DEF Calm, Wakes, OthersKeep, SameActivity, Active

\* A step that changes neither owner nor priorities, and after which no more
\* threads wait.
LEMMA PrioQuiet ==
    ASSUME MutexInv, NEW x \in Mutexes, PrioOK(x), OnlyCurrentMoves(x),
           mutex'[x].owner = mutex[x].owner,
           mutex'[x].original_priority = mutex[x].original_priority,
           k'.prio = k.prio,
           k'.list[x] = k.list[x] \/ \E t \in Thread : k'.list[x] = Without(k.list[x], t),
           \A u \in Thread : Linked(k, x, u) => depth'[x][u] = depth[x][u]
    PROVE  PrioOK(x)'
<1>1. k.list[x] \in Seq(Thread)
  BY InvFacts, MutexQueue DEF KernelState
<1>2. \A u : Linked(k', x, u) => Linked(k, x, u)
  <2>1. NoRepeats(k.list[x])
    BY InvFacts, MutexQueue, SoundFacts DEF NodesLinkedOnce
  <2> QED
    BY <1>1, <2>1, WithoutList DEF Linked
<1>3. ASSUME Order = "PRIO" PROVE SortedBy(k'.prio, k'.list[x])
  BY <1>1, <1>3, SortedWithout DEF PrioOK
<1>4. \A u \in Thread : Linked(k', x, u) => depth'[x][u] = 0
  BY <1>2 DEF PrioOK
<1> QED
  BY <1>2, <1>3, <1>4, PrioNext DEF PrioOK

\* A step that gives one thread another priority leaves a list in order that the
\* thread is not in.
LEMMA SortedApart ==
    ASSUME NEW s \in KernelState, NEW x \in Mutexes, NEW t \in Thread, ~ Linked(s, x, t),
           SortedBy(s.prio, s.list[x]), NEW f, \A u \in Thread \ {t} : f[u] = s.prio[u]
    PROVE  SortedBy(f, s.list[x])
<1>1. s.list[x] \in Seq(Thread) /\ \A u \in ToSet(s.list[x]) : u \in Thread
  BY MutexQueue, ListTypes DEF Linked
<1>2. \A u \in ToSet(s.list[x]) : s.prio[u] = f[u]
  BY <1>1 DEF Linked
<1> QED
  BY <1>1, <1>2, SortedSame

\* rt_mutex_take by the owner, and the calls that fail at once.
LEMMA TakeQuietPrio ==
    ASSUME MutexInv, NEW t \in App, NEW x \in Mutexes, PrioOK(x), TakeOwn(t, x) \/ TakeNoWait(t, x)
    PROVE  PrioOK(x)'
<1>0. t \in Thread /\ TypeOK /\ ~ InTake(t) /\ k.cur = t /\ x \in Queue
  BY InvFacts, MutexQueue DEF App, TakeOwn, TakeNoWait, Unavailable, Calls, At, InTake
<1>1. Calm(k, k') /\ k'.cur = k.cur /\ k'.prio = k.prio
  BY <1>0, SetErrorStep DEF TakeOwn, TakeNoWait, Error
<1>2. /\ pc' = pc /\ mutex'[x].owner = mutex[x].owner
      /\ mutex'[x].original_priority = mutex[x].original_priority
  <2>1. CASE TakeNoWait(t, x) \/ mutex' = mutex
    BY <2>1 DEF TakeOwn, TakeNoWait
  <2>2. CASE TakeOwn(t, x) /\ mutex' = [mutex EXCEPT ![x].hold = @ + 1]
    BY <2>2, <1>0 DEF TakeOwn, TypeOK
  <2> QED
    BY <2>1, <2>2 DEF TakeOwn
<1>3. \A u \in Thread \ {t} : depth'[x][u] = depth[x][u]
  BY <1>0 DEF TakeOwn, TakeNoWait, Entered, TypeOK
<1>4. OnlyCurrentMoves(x)
  BY <1>0, <1>1, <1>2, <1>3, NobodyUnstarts DEF OnlyCurrentMoves
<1>5. ~ Linked(k, x, t) /\ k'.list[x] = k.list[x]
  BY <1>0, <1>1, RunningFacts DEF Calm
<1> QED
  BY <1>1, <1>2, <1>3, <1>4, <1>5, PrioQuiet

\* rt_mutex_take of a free mutex: the caller has no other mutex and so its own
\* priority, which is what original_priority is set to.
LEMMA TakeFreePrio ==
    ASSUME MutexInv, NEW t \in App, NEW x \in Mutexes, PrioOK(x), TakeFree(t, x)
    PROVE  PrioOK(x)'
<1>0. t \in Thread /\ TypeOK /\ Sound(k) /\ k.cur = t /\ x \in Queue /\ mutex[x].value > 0
  BY InvFacts, MutexQueue DEF App, TakeFree, Calls, At
<1>1. Calm(k, k') /\ k'.cur = k.cur /\ k'.prio = k.prio
  BY <1>0, SetErrorStep DEF TakeFree, Error
<1>2. mutex[x].owner = NoOwner
  <2>1. OwnerOK(x) /\ mutex[x].value # 0
    BY <1>0, InvFacts
  <2> QED
    BY <2>1 DEF OwnerOK
<1>3. /\ \A u \in Thread : k.prio[u] = InitPrio[u] /\ ~ Linked(k, x, u)
      /\ k'.list[x] = k.list[x]
  BY <1>0, <1>1, <1>2, NoOwnerFacts, MutexAssumption DEF PrioOK, Calm
<1>4. mutex'[x].owner = t /\ mutex'[x].original_priority = k.prio[t] /\ pc' = pc
  BY <1>0 DEF TakeFree, TypeOK
<1>5. \A u \in Thread \ {t} : depth'[x][u] = depth[x][u]
  BY <1>0 DEF TakeFree, Entered, TypeOK
<1>6. OnlyCurrentMoves(x)
  BY <1>0, <1>1, <1>4, <1>5, NobodyUnstarts DEF OnlyCurrentMoves
<1>7. \A u \in Thread : ~ Linked(k', x, u)
  BY <1>3 DEF Linked
<1>8. Order = "PRIO" => SortedBy(k'.prio, k'.list[x])
  BY <1>1, <1>3 DEF PrioOK
<1> QED
  BY <1>0, <1>1, <1>3, <1>4, <1>6, <1>7, <1>8, PrioNext

\* A caller that is more urgent than the owner makes the owner as urgent: the
\* owner is not in the list, so the list stays in order.
LEMMA BoostPrio ==
    ASSUME MutexInv, NEW t \in App, NEW x \in Mutexes, PrioOK(x), Unavailable(t, x), NEW s,
           s = Boosted(SetError(k, t, "EINTR"), t, mutex[x].owner)
    PROVE  /\ Sound(s) /\ Calm(k, s) /\ s.cur = k.cur /\ s.list[x] = k.list[x]
           /\ \A u \in Thread : mutex[x].owner # u => s.prio[u] = k.prio[u]
           /\ s.prio[mutex[x].owner] <= k.prio[t] /\ s.prio[t] = k.prio[t]
           /\ Order = "PRIO" => SortedBy(s.prio, s.list[x])
           /\ Order = "PRIO" => \A u \in Thread :
                 Linked(k, x, u) => s.prio[mutex[x].owner] <= s.prio[u]
<1>0. t \in Thread /\ mutex[x].owner \in Thread /\ mutex[x].owner # t /\ x \in Queue
  BY UnavailableFacts, MutexQueue
<1>1. PICK o \in Thread : o = mutex[x].owner
  BY <1>0
<1>2. PICK e : e = SetError(k, t, "EINTR")
  OBVIOUS
<1>3. Sound(e) /\ Calm(k, e) /\ e.cur = k.cur /\ e.prio = k.prio
  BY <1>0, <1>2, SetErrorStep DEF Error
<1>4. /\ Sound(s) /\ Calm(e, s) /\ s.cur = e.cur
      /\ s.prio[o] <= e.prio[t] /\ s.prio[o] <= e.prio[o]
      /\ \A u \in Thread \ {o} : s.prio[u] = e.prio[u]
  <2>1. s = Boosted(e, t, o)
    BY <1>1, <1>2
  <2>2. Sound(e) /\ t \in Thread /\ o \in Thread
    BY <1>0, <1>3
  <2>3. Sound(s) /\ Calm(e, s) /\ s.cur = e.cur
    BY <2>1, <2>2, BoostedStep
  <2>4. s.prio[o] <= e.prio[t] /\ s.prio[o] <= e.prio[o]
    BY <2>1, <2>2, BoostedStep
  <2>5. ASSUME NEW u \in Thread \ {o} PROVE s.prio[u] = e.prio[u]
    <3>1. Boosted(e, t, o).prio[u] = e.prio[u]
      BY <2>2, BoostedStep
    <3> QED
      BY <3>1, <2>1
  <2> QED
    BY <2>3, <2>4, <2>5
<1>5. Calm(k, s) /\ s.list[x] = k.list[x]
  BY <1>0, <1>3, <1>4 DEF Calm, SameActivity
<1>6. ~ Linked(k, x, o)
  BY <1>1, OwnerIsApart
<1>7. ASSUME Order = "PRIO" PROVE SortedBy(s.prio, s.list[x])
  BY <1>3, <1>4, <1>5, <1>6, <1>7, InvFacts, SortedApart DEF PrioOK
<1>8. ASSUME Order = "PRIO", NEW u \in Thread, Linked(k, x, u) PROVE s.prio[o] <= s.prio[u]
  <2>1. s.prio[o] <= k.prio[o] /\ k.prio[o] <= k.prio[u] /\ s.prio[u] = k.prio[u]
    BY <1>1, <1>3, <1>4, <1>6, <1>8 DEF PrioOK
  <2>2. s.prio[o] \in Nat /\ k.prio[o] \in Nat /\ k.prio[u] \in Nat
    <3>1. s.prio \in [Thread -> Prio] /\ k.prio \in [Thread -> Prio]
      BY <1>4, InvFacts DEF Sound, KernelState
    <3> QED
      BY <3>1, KernelAssumption
  <2> QED
    BY <2>1, <2>2
<1> QED
  BY <1>0, <1>1, <1>3, <1>4, <1>5, <1>7, <1>8

\* A caller that has boosted the owner and finds a signal pending.
LEMMA TakeInterruptedPrio ==
    ASSUME MutexInv, NEW t \in App, NEW x \in Mutexes, PrioOK(x), NEW time, NEW flag,
           TakeInterrupted(t, x, time, flag)
    PROVE  PrioOK(x)'
<1>0. t \in Thread /\ k.cur = t /\ mutex[x].owner \in Thread
  BY UnavailableFacts DEF TakeInterrupted
<1>1. /\ Calm(k, k') /\ k'.cur = k.cur /\ k'.list[x] = k.list[x]
      /\ \A u \in Thread : mutex[x].owner # u => k'.prio[u] = k.prio[u]
      /\ Order = "PRIO" => SortedBy(k'.prio, k'.list[x])
      /\ Order = "PRIO" => \A u \in Thread :
            Linked(k, x, u) => k'.prio[mutex[x].owner] <= k'.prio[u]
  BY BoostPrio DEF TakeInterrupted
<1>2. pc' = pc /\ mutex' = mutex /\ depth' = depth
  BY DEF TakeInterrupted
<1>3. OnlyCurrentMoves(x)
  BY <1>1, <1>2, NobodyUnstarts DEF OnlyCurrentMoves
<1>4. \A u : Linked(k', x, u) <=> Linked(k, x, u)
  BY <1>1 DEF Linked
<1>5. /\ \A u \in Thread : Linked(k', x, u) => depth'[x][u] = 0
      /\ \A u \in Thread : mutex'[x].owner # u => k'.prio[u] = InitPrio[u]
      /\ mutex'[x].owner \in Thread
            => mutex'[x].original_priority = InitPrio[mutex'[x].owner]
  BY <1>1, <1>2, <1>4 DEF PrioOK
<1> QED
  BY <1>1, <1>2, <1>3, <1>4, <1>5, PrioNext

\* A caller that has to wait is put where its priority belongs.
LEMMA TakeBlocksPrio ==
    ASSUME MutexInv, NEW t \in App, NEW x \in Mutexes, PrioOK(x), NEW time \in Time,
           NEW flag \in Flag, TakeBlocks(t, x, time, flag)
    PROVE  PrioOK(x)'
<1>0. /\ t \in Thread /\ k.cur = t /\ mutex[x].owner \in Thread /\ mutex[x].owner # t
      /\ x \in Queue /\ flag \in SuspendFlag /\ TypeOK /\ ~ InTake(t)
  BY UnavailableFacts, MutexQueue, MutexAssumption, InvFacts DEF TakeBlocks
<1>1. PICK s : s = Boosted(SetError(k, t, "EINTR"), t, mutex[x].owner)
  OBVIOUS
<1>2. /\ Sound(s) /\ Calm(k, s) /\ s.cur = k.cur /\ s.list[x] = k.list[x]
      /\ \A u \in Thread : mutex[x].owner # u => s.prio[u] = k.prio[u]
      /\ s.prio[mutex[x].owner] <= k.prio[t] /\ s.prio[t] = k.prio[t]
      /\ Order = "PRIO" => SortedBy(s.prio, s.list[x])
      /\ Order = "PRIO" => \A u \in Thread :
            Linked(k, x, u) => s.prio[mutex[x].owner] <= s.prio[u]
  BY <1>1, BoostPrio DEF TakeBlocks
<1>3. s.stat[t] \in Active
  BY <1>0, <1>2 DEF TakeBlocks, MaySuspend, Calm, SameActivity, Active
<1>4. PICK v : v = rt_ipc_list_suspend(s, x, t, Order, flag)
  OBVIOUS
<1>5. /\ v.list[x] = IF Order = "FIFO" THEN Append(s.list[x], t)
                     ELSE InsertAt(s.list[x], PrioPosition(s, s.list[x], t), t)
      /\ Suspended(v, t) /\ OthersKeep(s, v, t) /\ v.prio = s.prio /\ v.cur = s.cur
  BY <1>0, <1>2, <1>3, <1>4, ListSuspendFrame
<1>6. /\ v \in KernelState
      /\ \A u : Linked(v, x, u) <=> Linked(s, x, u) \/ u = t
  BY <1>0, <1>2, <1>3, <1>4, ListSuspendSound DEF Active, Sound
<1>7. k' = IF time = "ticks" THEN StartThreadTimer(v, t) ELSE v
  BY <1>1, <1>4 DEF TakeBlocks, SuspendOn
<1>8. k'.list = v.list /\ k'.stat = v.stat /\ k'.cur = v.cur /\ k'.prio = v.prio
  BY <1>0, <1>6, <1>7, StartTimerFrame
<1>9. /\ pc' = [pc EXCEPT ![t] = "blocking"] /\ mutex' = mutex /\ depth' = depth
  BY DEF TakeBlocks, Goto
<1>10. OnlyCurrentMoves(x)
  <2>1. \A u \in Thread : s.stat[u] = "INIT" => k.stat[u] = "INIT"
    BY <1>2, NobodyUnstarts
  <2>2. \A u \in Thread : v.stat[u] = "INIT" => s.stat[u] = "INIT"
    BY <1>5 DEF OthersKeep, SameActivity, Active, Suspended, SuspendFlag
  <2> QED
    BY <2>1, <2>2, <1>0, <1>2, <1>5, <1>8, <1>9 DEF OnlyCurrentMoves, TypeOK
<1>11. \A u : Linked(k', x, u) <=> Linked(k, x, u) \/ u = t
  BY <1>2, <1>6, <1>8 DEF Linked
<1>12. \A u \in Thread : Linked(k', x, u) => depth'[x][u] = 0
  <2>1. OwnerOK(x) /\ depth[x][t] \in Nat
    BY <1>0, InvFacts, FieldFacts
  <2>2. depth[x][t] = 0
    BY <2>1, <1>0 DEF OwnerOK
  <2> QED
    BY <2>2, <1>9, <1>11 DEF PrioOK
<1>13. ASSUME Order = "PRIO" PROVE SortedBy(k'.prio, k'.list[x])
  <2>1. s \in KernelState /\ s.list[x] \in Seq(Thread)
    BY <1>0, <1>2 DEF Sound, KernelState
  <2>2. v.list[x] = InsertAt(s.list[x], PrioPosition(s, s.list[x], t), t)
    BY <1>5, <1>13
  <2> QED
    BY <2>1, <2>2, <1>0, <1>2, <1>5, <1>8, <1>13, SortedInsert
<1>14. ASSUME Order = "PRIO", NEW u \in Thread, Linked(k', x, u)
       PROVE  k'.prio[mutex'[x].owner] <= k'.prio[u]
  BY <1>2, <1>5, <1>8, <1>9, <1>11, <1>14
<1>15. /\ \A u \in Thread : mutex'[x].owner # u => k'.prio[u] = InitPrio[u]
       /\ mutex'[x].owner \in Thread
             => mutex'[x].original_priority = InitPrio[mutex'[x].owner]
  BY <1>2, <1>5, <1>8, <1>9 DEF PrioOK
<1> QED
  BY <1>10, <1>12, <1>13, <1>14, <1>15, PrioNext

\* A step of the kernel after which the same threads wait, or one fewer, by
\* which no mutex changes.
LEMMA KernelStepPrio ==
    ASSUME MutexInv, NEW x \in Mutexes, PrioOK(x), mutex' = mutex, k'.prio = k.prio,
           Calm(k, k') \/ \E t \in Thread : Wakes(k, k', t), OnlyCurrentMoves(x),
           \A u \in Thread : Linked(k, x, u) => depth'[x][u] = depth[x][u]
    PROVE  PrioOK(x)'
<1>1. x \in Queue
  BY MutexQueue
<1>2. k'.list[x] = k.list[x] \/ \E t \in Thread : k'.list[x] = Without(k.list[x], t)
  BY <1>1 DEF Calm, Wakes
<1> QED
  BY <1>2, PrioQuiet

\* The end of a call of _rt_mutex_take.
LEMMA TakeEndsPrio ==
    ASSUME MutexInv, NEW t \in App, NEW x \in Mutexes, PrioOK(x), TakeSchedules(t) \/ TakeReturns(t)
    PROVE  PrioOK(x)'
<1>0. t \in Thread /\ TypeOK /\ Sound(k) /\ k.cur = t /\ k.lock = 0
  BY InvFacts DEF App, TakeSchedules, TakeReturns, At
<1>1. /\ Calm(k, k') /\ k'.prio = k.prio /\ (k'.cur = k.cur \/ k'.stat[k'.cur] = "RUNNING")
  <2>1. CASE TakeSchedules(t)
    BY <2>1, <1>0, ScheduleFrame, ScheduleRuns DEF TakeSchedules
  <2>2. CASE TakeReturns(t)
    BY <2>2 DEF TakeReturns, Calm, SameActivity
  <2> QED
    BY <2>1, <2>2
<1>2. /\ mutex' = mutex /\ \A u \in Thread \ {t} : pc'[u] = pc[u]
      /\ \A u \in Thread \ {t} : depth'[x][u] = depth[x][u]
  BY <1>0 DEF TakeSchedules, TakeReturns, Goto, Entered, TypeOK
<1>3. OnlyCurrentMoves(x)
  BY <1>0, <1>1, <1>2, NobodyUnstarts DEF OnlyCurrentMoves
<1>4. \A u \in Thread : Linked(k, x, u) => depth'[x][u] = depth[x][u]
  <2>1. CASE TakeSchedules(t)
    BY <2>1 DEF TakeSchedules
  <2>2. CASE TakeReturns(t)
    <3>1. ~ Suspended(k, t)
      BY <2>2, <1>0, InvFacts DEF TakeReturns, At
    <3>2. ~ Linked(k, x, t)
      BY <3>1, <1>0, MutexQueue, SoundFacts DEF ThreadOK
    <3> QED
      BY <3>2, <1>2
  <2> QED
    BY <2>1, <2>2
<1> QED
  BY <1>1, <1>2, <1>3, <1>4, KernelStepPrio

\* The last release gives the owner its own priority back; the next owner is
\* the most urgent waiter and has its own priority.
LEMMA ReleaseHandsPrio ==
    ASSUME MutexInv, NEW t \in App, NEW x \in Mutexes, PrioOK(x), ReleaseHands(t, x)
    PROVE  PrioOK(x)'
<1>0. /\ t \in Thread /\ TypeOK /\ Sound(k) /\ k \in KernelState /\ ~ InTake(t) /\ k.cur = t
      /\ mutex[x].owner = t /\ x \in Queue /\ k.prio \in [Thread -> Prio]
  BY InvFacts, MutexQueue DEF App, ReleaseHands, Calls, At, InTake, KernelState
<1>1. mutex[x].original_priority \in Prio /\ mutex[x].original_priority = InitPrio[t]
  BY <1>0, OwnerFacts DEF PrioOK
<1>2. PICK r : r = Restored(k, t, x)
  OBVIOUS
<1>3. /\ Sound(r) /\ Calm(k, r) /\ r.cur = k.cur /\ r.list[x] = k.list[x]
      /\ r.prio = [k.prio EXCEPT ![t] = InitPrio[t]]
  <2>1. Sound(r) /\ Calm(k, r) /\ r.cur = k.cur
    BY <1>0, <1>1, <1>2, RestoredStep
  <2>2. r.prio = [k.prio EXCEPT ![t] = mutex[x].original_priority]
    BY <1>0, <1>1, <1>2, RestoredPrio
  <2> QED
    BY <2>1, <2>2, <1>0, <1>1 DEF Calm
<1>4. PICK h : h = Head(k.list[x])
  OBVIOUS
<1>5. h \in Thread /\ Linked(k, x, h) /\ k.list[x] \in Seq(Thread)
  <2>1. k.list[x] \in Seq(Thread) /\ k.list[x] # <<>>
    BY <1>0, MutexQueue, EmptyList DEF KernelState, Waiters, ReleaseHands
  <2> QED
    BY <2>1, <1>4, HeadInList DEF Linked
<1>6. h # t /\ ~ Linked(k, x, t)
  BY <1>0, <1>5, RunningFacts
<1>7. Suspended(r, h)
  <2>1. Suspended(k, h)
    BY <1>0, <1>5, SoundFacts DEF ThreadOK
  <2> QED
    BY <2>1, <1>3, <1>5, CalmLinks
<1>8. k' = rt_thread_resume([r EXCEPT !.err[h] = "EOK"], h)
  BY <1>2, <1>3, <1>4 DEF ReleaseHands, rt_ipc_list_resume
<1>9. Wakes(r, k', h) /\ k'.cur = r.cur /\ k'.prio = r.prio
  <2>1. "EOK" \in Error /\ Sound(r)
    BY <1>3 DEF Error
  <2> QED
    BY <2>1, <1>5, <1>7, <1>8, WakeFrame
<1>10. /\ k'.list[x] = Without(k.list[x], h) /\ k'.prio = [k.prio EXCEPT ![t] = InitPrio[t]]
  BY <1>0, <1>3, <1>9 DEF Wakes
<1>11. /\ mutex'[x].owner = h /\ mutex'[x].original_priority = r.prio[h]
       /\ \A u \in Thread \ {t} : pc'[u] = pc[u] /\ depth'[x][u] = depth[x][u]
       /\ depth'[x][t] = depth[x][t] - 1
  BY <1>0, <1>2, <1>4 DEF ReleaseHands, Goto, TypeOK
<1>12. OnlyCurrentMoves(x)
  <2>1. \A u \in Thread : r.stat[u] = "INIT" => k.stat[u] = "INIT"
    BY <1>3, NobodyUnstarts
  <2>2. \A u \in Thread : k'.stat[u] = "INIT" => r.stat[u] = "INIT"
    BY <1>5, <1>9, NobodyUnstarts
  <2> QED
    BY <2>1, <2>2, <1>0, <1>3, <1>9, <1>11 DEF OnlyCurrentMoves
<1>13. \A u : Linked(k', x, u) => Linked(k, x, u) /\ u # t
  <2>1. NoRepeats(k.list[x])
    BY <1>0, MutexQueue, SoundFacts DEF NodesLinkedOnce
  <2> QED
    BY <2>1, <1>5, <1>6, <1>10, WithoutList DEF Linked
<1>14. \A u \in Thread : Linked(k', x, u) => depth'[x][u] = 0
  BY <1>11, <1>13 DEF PrioOK
<1>15. \A u \in Thread : k'.prio[u] = InitPrio[u]
  BY <1>0, <1>10 DEF PrioOK
<1>16. mutex'[x].original_priority = InitPrio[mutex'[x].owner]
  BY <1>5, <1>9, <1>11, <1>15
<1>17. ASSUME Order = "PRIO" PROVE SortedBy(k'.prio, k'.list[x])
  <2>1. SortedBy(k.prio, k.list[x]) /\ \A u \in Thread \ {t} : k'.prio[u] = k.prio[u]
    BY <1>0, <1>10, <1>17 DEF PrioOK
  <2>2. SortedBy(k'.prio, k.list[x])
    BY <2>1, <1>0, <1>6, SortedApart
  <2> QED
    BY <2>2, <1>5, <1>10, SortedWithout
<1>18. ASSUME Order = "PRIO", NEW u \in Thread, Linked(k', x, u)
       PROVE  k'.prio[mutex'[x].owner] <= k'.prio[u]
  <2>1. SortedBy(k.prio, k.list[x]) /\ Linked(k, x, u) /\ u # t
    BY <1>13, <1>18 DEF PrioOK
  <2>2. k.prio[h] <= k.prio[u]
    BY <2>1, <1>0, <1>4, <1>5, SortedHead DEF Linked
  <2>3. k'.prio[h] = k.prio[h] /\ k'.prio[u] = k.prio[u]
    BY <2>1, <1>0, <1>5, <1>6, <1>10
  <2> QED
    BY <2>2, <2>3, <1>11
<1> QED
  BY <1>12, <1>14, <1>15, <1>16, <1>17, <1>18, PrioNext

\* The other cases of rt_mutex_release.
LEMMA ReleaseOthersPrio ==
    ASSUME MutexInv, NEW t \in App, NEW x \in Mutexes, PrioOK(x),
           \/ ReleaseNotOwner(t, x) \/ ReleaseInner(t, x)
           \/ ReleaseFrees(t, x) \/ Reschedule(t)
    PROVE  PrioOK(x)'
<1>0. /\ t \in Thread /\ TypeOK /\ Sound(k) /\ k \in KernelState /\ k.cur = t /\ k.lock = 0
      /\ ~ InTake(t) /\ x \in Queue /\ k.prio \in [Thread -> Prio] /\ ~ Linked(k, x, t)
  <2>1. t \in Thread /\ k.cur = t /\ ~ InTake(t)
    BY DEF App, ReleaseNotOwner, ReleaseInner, ReleaseFrees, Reschedule, Calls, At, InTake
  <2> QED
    BY <2>1, InvFacts, RunningFacts, MutexQueue DEF KernelState
<1>1. CASE ReleaseNotOwner(t, x)
  <2>1. Calm(k, k') /\ k'.cur = k.cur /\ k'.prio = k.prio
    BY <1>0, <1>1, SetErrorStep DEF ReleaseNotOwner, Error
  <2>2. mutex' = mutex /\ pc' = pc /\ depth' = depth
    BY <1>1 DEF ReleaseNotOwner
  <2>3. OnlyCurrentMoves(x)
    BY <2>1, <2>2, NobodyUnstarts DEF OnlyCurrentMoves
  <2> QED
    BY <2>1, <2>2, <2>3, KernelStepPrio
<1>2. CASE ReleaseInner(t, x)
  <2>1. /\ k' = k /\ pc' = pc /\ mutex'[x].owner = mutex[x].owner
        /\ mutex'[x].original_priority = mutex[x].original_priority
        /\ \A u \in Thread \ {t} : depth'[x][u] = depth[x][u]
    BY <1>0, <1>2 DEF ReleaseInner, TypeOK
  <2>2. OnlyCurrentMoves(x)
    BY <2>1, <1>0 DEF OnlyCurrentMoves
  <2> QED
    BY <2>1, <2>2, <1>0, PrioQuiet
<1>3. CASE ReleaseFrees(t, x)
  <2>0. mutex[x].owner = t
    BY <1>3 DEF ReleaseFrees
  <2>1. mutex[x].original_priority \in Prio /\ mutex[x].original_priority = InitPrio[t]
    BY <2>0, <1>0, OwnerFacts DEF PrioOK
  <2>2. /\ Calm(k, k') /\ k'.cur = k.cur /\ k'.list[x] = k.list[x]
        /\ k'.prio = [k.prio EXCEPT ![t] = mutex[x].original_priority]
    <3>1. k' = Restored(k, t, x) /\ Sound(k) /\ t \in Thread
      BY <1>0, <1>3 DEF ReleaseFrees
    <3>2. Calm(k, k') /\ k'.cur = k.cur
      BY <3>1, <2>1, RestoredStep
    <3>3. k'.prio = [k.prio EXCEPT ![t] = mutex[x].original_priority]
      BY <3>1, <2>1, RestoredPrio
    <3> QED
      BY <3>2, <3>3, <1>0 DEF Calm
  <2>4. /\ mutex'[x] = Free /\ pc' = pc
        /\ \A u \in Thread \ {t} : depth'[x][u] = depth[x][u]
    BY <1>0, <1>3 DEF ReleaseFrees, TypeOK
  <2>5. OnlyCurrentMoves(x)
    BY <2>2, <2>4, <1>0, NobodyUnstarts DEF OnlyCurrentMoves
  <2>6. \A u \in Thread : ~ Linked(k', x, u)
    BY <2>2, <1>3 DEF ReleaseFrees, Waiters, Linked
  <2>7. \A u \in Thread : k'.prio[u] = InitPrio[u]
    BY <2>0, <2>1, <2>2, <1>0 DEF PrioOK
  <2>8. mutex'[x].owner \notin Thread
    BY <2>4, MutexAssumption DEF Free
  <2>9. ASSUME Order = "PRIO" PROVE SortedBy(k'.prio, k'.list[x])
    <3>1. SortedBy(k.prio, k.list[x]) /\ \A u \in Thread \ {t} : k'.prio[u] = k.prio[u]
      BY <2>2, <2>9, <1>0 DEF PrioOK
    <3> QED
      BY <3>1, <2>2, <1>0, SortedApart
  <2> QED
    BY <2>5, <2>6, <2>7, <2>8, <2>9, PrioNext
<1>4. CASE Reschedule(t)
  <2>1. Calm(k, k') /\ k'.prio = k.prio /\ k'.stat[k'.cur] = "RUNNING"
    BY <1>0, <1>4, ScheduleFrame, ScheduleRuns DEF Reschedule
  <2>2. mutex' = mutex /\ depth' = depth /\ \A u \in Thread \ {t} : pc'[u] = pc[u]
    BY <1>0, <1>4 DEF Reschedule, Goto, TypeOK
  <2>3. OnlyCurrentMoves(x)
    BY <2>1, <2>2, <1>0, NobodyUnstarts DEF OnlyCurrentMoves
  <2> QED
    BY <2>1, <2>2, <2>3, KernelStepPrio
<1> QED
  BY <1>1, <1>2, <1>3, <1>4

\* Detaching does nothing to priorities.
LEMMA DetachPrio ==
    ASSUME OneMutex, MutexInv, NEW t \in App, NEW x \in Mutexes, PrioOK(x), Detach(t)
    PROVE  PrioOK(x)'
<1>0. t \in Thread /\ TypeOK /\ Sound(k) /\ k \in KernelState /\ Calm(k, k)
  BY InvFacts DEF App, Calm, SameActivity
<1>1. CASE DetachBegins(t, x) \/ DetachTests(t) \/ (DetachResumes(t) /\ Waiters(at[t]) = {})
  <2>1. /\ k' = k /\ mutex' = mutex /\ depth' = depth /\ k.cur = t
        /\ \A u \in Thread \ {t} : pc'[u] = pc[u]
    BY <1>0, <1>1 DEF DetachBegins, DetachTests, DetachResumes, Calls, At, Goto, TypeOK
  <2>2. OnlyCurrentMoves(x)
    BY <2>1 DEF OnlyCurrentMoves
  <2> QED
    BY <2>1, <2>2, <1>0, KernelStepPrio
<1>2. CASE Reinit(t, x)
  <2>1. /\ k' = k /\ pc' = pc /\ depth' = depth /\ mutex' = [mutex EXCEPT ![x] = Free]
        /\ x \notin alive /\ \A u \in Thread : depth[x][u] = 0
    BY <1>2 DEF Reinit
  <2>2. mutex[x] = Free
    <3>1. OwnerOK(x) /\ mutex[x].owner \in Thread \cup {NoOwner}
      BY <1>0, InvFacts, FieldFacts
    <3>2. mutex[x].owner \notin Thread
      BY <3>1, <2>1 DEF OwnerOK
    <3> QED
      BY <3>1, <3>2, NoOwnerFacts
  <2>3. mutex' = mutex
    BY <2>1, <2>2, <1>0 DEF TypeOK
  <2>4. OnlyCurrentMoves(x)
    BY <2>1 DEF OnlyCurrentMoves
  <2> QED
    BY <2>1, <2>3, <2>4, <1>0, KernelStepPrio
<1>3. CASE DetachResumes(t) /\ Waiters(at[t]) # {}
  <2>1. PICK y \in Mutexes : y = at[t]
    BY <1>0 DEF TypeOK
  <2>2. PICK h : h = Head(k.list[y])
    OBVIOUS
  <2>3. h \in Thread /\ Linked(k, y, h)
    <3>1. k.list[y] \in Seq(Thread) /\ k.list[y] # <<>>
      BY <2>1, <1>0, <1>3, MutexQueue, EmptyList DEF KernelState, Waiters
    <3> QED
      BY <3>1, <2>2, HeadInList DEF Linked
  <2>4. Suspended(k, h)
    BY <2>3, <1>0, MutexQueue, SoundFacts DEF ThreadOK
  <2>5. k' = rt_thread_resume([k EXCEPT !.err[h] = "ERROR"], h)
    BY <2>1, <2>2, <1>3 DEF DetachResumes, ResumeAllRound
  <2>6. Wakes(k, k', h) /\ k'.cur = k.cur /\ k'.prio = k.prio
    <3>1. "ERROR" \in Error /\ Sound(k) /\ h \in Thread
      BY <2>3, <1>0 DEF Error
    <3> QED
      BY <3>1, <2>4, <2>5, WakeFrame
  <2>7. /\ mutex' = mutex /\ depth' = depth /\ k.cur = t
        /\ \A u \in Thread \ {t} : pc'[u] = pc[u]
    BY <1>0, <1>3 DEF DetachResumes, At, Goto, TypeOK
  <2>8. OnlyCurrentMoves(x)
    BY <2>3, <2>6, <2>7, NobodyUnstarts DEF OnlyCurrentMoves
  <2> QED
    BY <2>3, <2>6, <2>7, <2>8, KernelStepPrio
<1> QED
  BY <1>1, <1>2, <1>3 DEF Detach, OneMutex

\* Thread starts, signals and interrupts.
LEMMA OthersPrio ==
    ASSUME MutexInv, NEW x \in Mutexes, PrioOK(x), (\E t \in App : Others(t)) \/ Interrupt
    PROVE  PrioOK(x)'
<1>0. Sound(k) /\ TypeOK /\ k \in KernelState /\ k.lock = 0 /\ k.prio \in [Thread -> Prio]
  BY InvFacts DEF KernelState
<1>1. ASSUME NEW t \in App, NEW u \in App, Startup(t, u) PROVE PrioOK(x)'
  <2>1. /\ u \in Thread /\ t \in Thread /\ Wakes(k, k', u) /\ k'.cur = k.cur
        /\ k'.prio = [k.prio EXCEPT ![u] = InitPrio[u]]
    BY <1>0, <1>1, StartupFrame DEF Startup, App
  <2>2. /\ k.cur = t /\ mutex' = mutex /\ depth' = depth
        /\ \A w \in Thread \ {t} : pc'[w] = pc[w]
    BY <1>0, <1>1 DEF Startup, At, Goto, TypeOK
  <2>3. mutex[x].owner # u
    BY <2>1, <1>1, OwnerIsApart DEF Startup
  <2>4. k'.prio = k.prio
    BY <2>1, <2>3, <1>0 DEF PrioOK
  <2>5. OnlyCurrentMoves(x)
    BY <2>1, <2>2, NobodyUnstarts DEF OnlyCurrentMoves
  <2> QED
    BY <2>1, <2>2, <2>4, <2>5, KernelStepPrio
<1>2. ASSUME NEW t \in App, NEW u \in Process, NEW s \in Sig, Kill(t, u, s) PROVE PrioOK(x)'
  <2>1. u \in Thread /\ s \in Signal
    BY MutexAssumption DEF App
  <2>2. /\ k'.prio = k.prio /\ Dispatches(k, k')
        /\ Calm(k, k') \/ Wakes(k, k', u)
    BY <2>1, <1>0, <1>2, KillFrame DEF Kill
  <2>3. pc' = pc /\ mutex' = mutex /\ depth' = depth
    BY <1>2 DEF Kill
  <2>4. OnlyCurrentMoves(x)
    BY <2>1, <2>2, <2>3, <1>0, NobodyUnstarts DEF OnlyCurrentMoves, Dispatches
  <2> QED
    BY <2>1, <2>2, <2>3, <2>4, KernelStepPrio
<1>3. ASSUME NEW t \in App, Deliver(t) PROVE PrioOK(x)'
  <2>1. PICK s \in k.sig[t] : k' = [k EXCEPT !.sig[t] = @ \ {s}]
    BY <1>3 DEF Deliver
  <2>2. /\ k'.list = k.list /\ k'.stat = k.stat /\ k'.cur = k.cur /\ k'.prio = k.prio
        /\ k'.lock = k.lock
    BY <2>1, <1>0 DEF KernelState
  <2>3. pc' = pc /\ mutex' = mutex /\ depth' = depth
    BY <1>3 DEF Deliver
  <2>4. Calm(k, k') /\ OnlyCurrentMoves(x)
    BY <2>2, <2>3 DEF Calm, SameActivity, OnlyCurrentMoves
  <2> QED
    BY <2>2, <2>3, <2>4, KernelStepPrio
<1>4. CASE TimeSlice
  <2>1. Calm(k, k') /\ Dispatches(k, k') /\ k'.prio = k.prio
    BY <1>0, <1>4, TimeSliceFrame DEF TimeSlice
  <2>2. pc' = pc /\ mutex' = mutex /\ depth' = depth
    BY <1>4 DEF TimeSlice
  <2>3. OnlyCurrentMoves(x)
    BY <2>1, <2>2, <1>0, NobodyUnstarts DEF OnlyCurrentMoves, Dispatches
  <2> QED
    BY <2>1, <2>2, <2>3, KernelStepPrio
<1>5. ASSUME NEW t \in App, ThreadTimer(t) PROVE PrioOK(x)'
  <2>1. t \in Thread /\ Wakes(k, k', t) /\ Dispatches(k, k') /\ k'.prio = k.prio
    BY <1>0, <1>5, TimeoutFrame DEF ThreadTimer, App
  <2>2. pc' = pc /\ mutex' = mutex /\ depth' = depth
    BY <1>5 DEF ThreadTimer
  <2>3. OnlyCurrentMoves(x)
    BY <2>1, <2>2, <1>0, NobodyUnstarts DEF OnlyCurrentMoves, Dispatches
  <2> QED
    BY <2>1, <2>2, <2>3, KernelStepPrio
<1> QED
  BY <1>1, <1>2, <1>3, <1>4, <1>5 DEF Others, Interrupt

\* The initial states: every thread has its own priority and nobody waits.
LEMMA InitPrioHolds == Init => PrioInv
<1> SUFFICES ASSUME Init, NEW x \in Mutexes PROVE PrioOK(x)
  BY DEF PrioInv
<1>1. PICK main \in App : k = KernelStart(main)
  BY DEF Init
<1>2. Sound(k) /\ (\A u : ~ Linked(k, x, u)) /\ x \in Prio \cup Queue
  BY <1>1, MutexQueue, KernelStartSound
<1>3. k.cur = main /\ k.stat[main] = "RUNNING" /\ k.prio = InitPrio
  BY <1>1 DEF KernelStart, App
<1>4. mutex[x].owner \notin Thread
  BY MutexAssumption DEF Init, Free
<1>5. k.list[x] = <<>>
  BY <1>2, ListTypes DEF Sound
<1>6. SortedBy(k.prio, k.list[x])
  BY <1>5 DEF SortedBy
<1>7. \A u \in Thread : ~ InTake(u) /\ depth[x][u] = 0
  BY DEF Init, InTake
<1> QED
  BY <1>2, <1>3, <1>4, <1>6, <1>7 DEF PrioOK

\* Every step keeps PrioInv when there is one mutex.
LEMMA StepPrio ==
    ASSUME OneMutex
    PROVE  MutexInv /\ PrioInv /\ [Next]_vars => PrioInv'
<1> SUFFICES ASSUME MutexInv, PrioInv, [Next]_vars, NEW x \in Mutexes PROVE PrioOK(x)'
  BY DEF PrioInv
<1>0. PrioOK(x) /\ \A y \in Mutexes : y = x
  BY DEF PrioInv, OneMutex
<1>1. CASE UNCHANGED vars
  BY <1>0, <1>1 DEF vars, PrioOK, InTake
<1>2. ASSUME NEW t \in App, Take(t) PROVE PrioOK(x)'
  BY <1>0, <1>2, TakeQuietPrio, TakeFreePrio, TakeInterruptedPrio, TakeBlocksPrio, TakeEndsPrio
     DEF Take
<1>3. ASSUME NEW t \in App, Release(t) PROVE PrioOK(x)'
  BY <1>0, <1>3, ReleaseHandsPrio, ReleaseOthersPrio DEF Release
<1>4. ASSUME NEW t \in App, Detach(t) PROVE PrioOK(x)'
  BY <1>0, <1>4, DetachPrio
<1>5. ASSUME (\E t \in App : Others(t)) \/ Interrupt PROVE PrioOK(x)'
  BY <1>0, <1>5, OthersPrio
<1> QED
  BY <1>1, <1>2, <1>3, <1>4, <1>5 DEF Next

\* With one mutex, only its owner may have another priority than its own.
THEOREM MutexPriorities ==
    ASSUME OneMutex
    PROVE  Spec => []PrioInv
<1>1. MutexInv /\ PrioInv /\ [Next]_vars => PrioInv'
  BY StepPrio
<1> QED
  BY <1>1, InitPrioHolds, MutexInvariant, PTL DEF Spec

\* "Mutex objects use inherited priority to prevent priority reversion": with one
\* mutex whose waiters are kept by priority, no thread waits for a less urgent
\* owner, whatever timeouts, signals and hand-overs come in between.
THEOREM MutexNoPriorityInversion ==
    ASSUME OneMutex, Order = "PRIO"
    PROVE  Spec => []NoPriorityInversion
<1>1. MutexInv /\ PrioInv => NoPriorityInversion
  <2> SUFFICES ASSUME MutexInv, PrioInv, NEW x \in alive, NEW t \in Waiters(x)
               PROVE  k.prio[mutex[x].owner] <= k.prio[t]
    BY DEF NoPriorityInversion
  <2>1. x \in Mutexes /\ k \in KernelState
    BY InvFacts DEF TypeOK
  <2>2. t \in Thread /\ Linked(k, x, t)
    BY <2>1, MutexQueue, ListTypes DEF Waiters, Linked
  <2> QED
    BY <2>1, <2>2 DEF PrioInv, PrioOK
<1> QED
  BY <1>1, MutexInvariant, MutexPriorities, PTL

\* "change the owner thread to original priority": with one mutex, a thread that
\* holds no mutex has the priority it was given.
THEOREM MutexPriorityRestored ==
    ASSUME OneMutex
    PROVE  Spec => []PriorityRestored
<1>1. PrioInv => PriorityRestored
  BY MutexAssumption DEF PrioInv, PrioOK, PriorityRestored
<1> QED
  BY <1>1, MutexPriorities, PTL
=============================================================================
